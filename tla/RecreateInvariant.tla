-------------------------- MODULE RecreateInvariant --------------------------
(***************************************************************************)
(* The inductive invariants behind the properties of Recreate, over any    *)
(* chain of swaps, of undone ones and of Dockers:                          *)
(*  - SettingsInv: whose each setting of the container is, and what else   *)
(*    an entrypoint and a command then have to be;                         *)
(*  - MadeInv: what the container being made is to the old one;            *)
(*  - IdentityInv: what both are named and addressed;                      *)
(*  - SeenInv: what an inspect, in whichever version, says of that;        *)
(*  - BodyInv: that a body is sent in the version it was built for.        *)
(* TLC checks them on small instances; Recreate_proofs proves them.        *)
(***************************************************************************)
EXTENDS Recreate

\* What a container with settings s, on the image old, becomes on the image new.
Recreated(s, old, new) == Filled(WithoutImageDefaults(s, old), new)

(***************************************************************************)
(* Each setting is the user's or the image's.  An entrypoint is unset only *)
(* where the image has none; a command is unset beside an image's only     *)
(* behind the user's own entrypoint; and behind an entrypoint that is not  *)
(* the image's the command is the user's.                                  *)
(***************************************************************************)
CommandOwned(s, image) ==
    /\ s.entrypoint \in {own.settings.entrypoint, image.entrypoint}
    /\ s.cmd \in {own.settings.cmd, image.cmd}
    /\ s.entrypoint = Unset => image.entrypoint = Unset
    /\ s.cmd = Unset /\ image.cmd # Unset
         => s.entrypoint = own.settings.entrypoint /\ s.entrypoint \notin {Unset, Nothing}
    /\ s.entrypoint \notin {Unset, Nothing, image.entrypoint} => s.cmd = own.settings.cmd
Owned(s, image) ==
    /\ s.entry \in {Or(own.settings.entry, image.entry), image.entry}
    /\ image.port \/ own.published => s.port
    /\ s.port => image.port \/ own.published \/ own.settings.port
    /\ s.volume => own.settings.volume \/ image.volume
    /\ CommandOwned(s, image)

SettingsInv ==
    /\ Owned(container.settings, images[container.image])
    /\ ~agreed => images[container.image].entry # own.settings.entry
    /\ own.settings.entry # Unset /\ ~agreed => container.settings.entry = own.settings.entry

MadeInv ==
    IF step \in {"inspect", "create"} THEN made = container
    ELSE made.settings = Recreated(container.settings, images[container.image], images[made.image])

(***************************************************************************)
(* A container is named after itself or as the user said, and asked for no *)
(* address but the user's or a random one; what it has is what it asked    *)
(* for, or what this Docker picks.                                         *)
(***************************************************************************)
Itself(c) ==
    /\ c.hostname \in {c.id, Given, Theirs} /\ c.aliases \subseteq {Given}
    /\ FromIP \notin {c.mac, c.extra}
    /\ own.named => c.hostname = Given
    /\ own.mac => c.mac = Given
    /\ c.ownMAC = Address(c.mac, docker) /\ c.extraMAC = Address(c.extra, docker)
IdentityInv == Itself(container) /\ Itself(made)

(***************************************************************************)
(* What the swap reads from its inspect is the container's, however old    *)
(* the version it was read in and whatever Docker runs since.              *)
(***************************************************************************)
SeenInv ==
    step \in {"create", "connect"} =>
        /\ seen.id = container.id /\ seen.image = container.image
        /\ seen.settings = container.settings /\ seen.hostname = container.hostname
        /\ seen.aliases \ (IF seen.version < apiAliasesWithoutID THEN {seen.id} ELSE {}) \subseteq {Given}
        /\ MacAddress(seen) \in Addresses \ {FromIP} /\ ExtraMacAddress(seen) \in Addresses \ {FromIP}
        /\ own.mac => MacAddress(seen) = Given

BodyInv == \A c \in Callers : call[c].pc = "send" => call[c].body = call[c].in

=============================================================================
