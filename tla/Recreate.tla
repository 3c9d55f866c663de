------------------------------ MODULE Recreate ------------------------------
(***************************************************************************)
(* What a container is after a chain of swaps (src/internal/docker,        *)
(* recreate.go and the inspect of client.go): each swap reads the old      *)
(* container back from Docker, merged with its image's defaults, takes the *)
(* defaults out again and creates the new one from what is left, on an     *)
(* image with other defaults and maybe on another Docker.                  *)
(*                                                                         *)
(* The pass is one of the callers of ApiVersion's client, so the version a *)
(* container is inspected in, the one it is created in and the one it is   *)
(* connected in may all differ.                                            *)
(*                                                                         *)
(* What is abstracted:                                                     *)
(*  - entry is any setting Docker merges by itself: a variable of Env, a   *)
(*    label, a field of the health check, the user, the working directory, *)
(*    the stop signal; port one exposed port, Cmd and Entrypoint lists as  *)
(*    values;                                                              *)
(*  - every network beyond the container's own is one, extra;              *)
(*  - what passes through untouched is left out;                           *)
(*  - the stop, rename, start and gate of a swap are DockerSwap's: here a  *)
(*    swap is committed or undone;                                         *)
(*  - a container keeps its settings, and is restarted, when Docker is     *)
(*    replaced.                                                            *)
(* The settings do not depend on the Docker nor the identity on the image, *)
(* so an instance varies one of the two (aspect).                          *)
(***************************************************************************)
EXTENDS ApiVersion, FiniteSets

CONSTANTS
    Pass,                    \* the caller that swaps
    Images,                  \* the images of the chain
    Aspects,                 \* what the instance varies
    Unset,                   \* null: left to the image
    Nothing,                 \* []: explicitly none
    Values, Lists, Commands, \* values of an entry, an entrypoint, a command
    Given, Theirs,           \* a name or address the user gave; another container's name
    FromIP, Random           \* an address Docker picked

ASSUME PassAssumption == Pass \in Callers

Ids == {"c1", "c2", "c3", "c4"}

\* What is unset or given is told from what is not.
ASSUME ValuesAssumption ==
    /\ Unset \notin Ids \cup Values \cup Lists \cup Commands \cup {Nothing, Given, Theirs, FromIP, Random}
    /\ Nothing \notin Lists
    /\ Given \notin Ids \cup {Theirs, FromIP}
    /\ Theirs \notin Ids
    /\ FromIP # Random

VARIABLES
    aspect,      \* what this instance varies
    images,      \* each image's defaults
    own,         \* what the user created the container with
    tag,         \* the image the tag resolves to
    container,   \* the container
    agreed,      \* an image it ran had the user's own value as its default
    step,        \* the next call of the swap
    seen,        \* the inspect the swap recreates from
    made         \* the new container, before the commit

vars == <<apiVars, aspect, images, own, tag, container, agreed, step, seen, made>>

-----------------------------------------------------------------------------
(* Docker, as the client uses it.                                          *)

\* The Engine API versions the overrides turn on.
apiEndpointMAC        == 44
apiAliasesWithoutID   == 45
apiInspectEndpointMAC == 52
apiConnectMAC         == 54

\* A setting of the container's own, or its image's.
Or(mine, default) == IF mine = Unset THEN default ELSE mine

(***************************************************************************)
(* What Docker fills in at create: each setting left unset, the exposed    *)
(* ports and volumes of both, and the command only of a container with no  *)
(* entrypoint of its own.                                                  *)
(***************************************************************************)
FilledCommand(s, image) ==
    [entrypoint |-> Or(s.entrypoint, image.entrypoint),
     cmd |-> IF s.entrypoint \in {Unset, Nothing} THEN Or(s.cmd, image.cmd) ELSE s.cmd]
Filled(s, image) ==
    [entry      |-> Or(s.entry, image.entry),
     port       |-> s.port \/ image.port,
     volume     |-> s.volume \/ image.volume,
     entrypoint |-> FilledCommand(s, image).entrypoint,
     cmd        |-> FilledCommand(s, image).cmd]

Defaults == [entry : Values \cup {Unset}, port : BOOLEAN, volume : BOOLEAN,
             entrypoint : Lists \cup {Unset, Nothing}, cmd : Commands \cup {Unset}]

\* An address nobody asked for: derived from the IP until Docker 29.
Address(asked, d) ==
    IF asked # Unset THEN asked
    ELSE IF d.newest >= apiInspectEndpointMAC THEN Random ELSE FromIP

(***************************************************************************)
(* docker inspect of c, in version v.                                      *)
(***************************************************************************)
Inspect(c, v) ==
    [id |-> c.id, version |-> v, image |-> c.image, settings |-> c.settings,
     hostname |-> c.hostname,
     aliases |-> IF v < apiAliasesWithoutID THEN c.aliases \cup {c.id} ELSE c.aliases,
     configMAC |-> IF v < apiInspectEndpointMAC THEN c.mac ELSE Unset,
     ownMAC |-> c.ownMAC, extraMAC |-> c.extraMAC]

-----------------------------------------------------------------------------
(* The recreate.                                                           *)

\* Mutant: an entrypoint equal to the image's is always the image's.
OwnEntrypointByValue(s, image) == s.entrypoint # image.entrypoint
(***************************************************************************)
(* An entrypoint is the container's own when it is not the image's, or     *)
(* when it kept an image's command from being filled in.                   *)
(***************************************************************************)
OwnEntrypoint(s, image) ==
    \/ s.entrypoint # image.entrypoint
    \/ s.cmd = Unset /\ image.cmd # Unset

\* Mutant: what equals the old image's defaults is copied as well.
WithNothingTakenOut(s, image) == s
(***************************************************************************)
(* WithoutImageDefaults: whatever equals the old image's default goes, but *)
(* a published port and the command of a container's own entrypoint.       *)
(***************************************************************************)
WithoutImageDefaults(s, image) ==
    [entry      |-> IF s.entry = image.entry THEN Unset ELSE s.entry,
     port       |-> s.port /\ (own.published \/ ~image.port),
     volume     |-> s.volume /\ ~image.volume,
     entrypoint |-> IF OwnEntrypoint(s, image) THEN s.entrypoint ELSE Unset,
     cmd        |-> IF /\ s.cmd = image.cmd
                       /\ ~(OwnEntrypoint(s, image) /\ s.entrypoint \notin {Unset, Nothing})
                    THEN Unset ELSE s.cmd]

\* macAddress: the address to keep on the container's own network.
MacAddress(inspect) ==
    IF inspect.version >= apiInspectEndpointMAC THEN inspect.ownMAC ELSE inspect.configMAC
\* On any other only the newer inspect can say.
ExtraMacAddress(inspect) ==
    IF inspect.version >= apiInspectEndpointMAC THEN inspect.extraMAC ELSE Unset

\* Mutant: the aliases are judged by the version the body is built for.
AliasesByCreate(inspect, v) ==
    IF v < apiAliasesWithoutID THEN inspect.aliases \ {inspect.id} ELSE inspect.aliases
Aliases(inspect, v) ==
    IF inspect.version < apiAliasesWithoutID THEN inspect.aliases \ {inspect.id}
    ELSE inspect.aliases

\* Overrides: Docker's default hostname, the old container's id, goes.
OverriddenHostname(inspect) == IF inspect.hostname = inspect.id THEN Unset ELSE inspect.hostname
\* Removals: where another's network is shared, any hostname does.
Hostname(inspect) == IF own.shares THEN Unset ELSE OverriddenHostname(inspect)

(***************************************************************************)
(* CreateBody: the body that recreates what inspect shows, in version v.   *)
(***************************************************************************)
CreateBody(inspect, v) ==
    LET asked == IF own.shares THEN Unset ELSE MacAddress(inspect)
    IN  [settings    |-> WithoutImageDefaults(inspect.settings, images[inspect.image]),
         hostname    |-> Hostname(inspect),
         aliases     |-> Aliases(inspect, v),
         endpointMAC |-> IF v >= apiEndpointMAC THEN asked ELSE Unset,
         configMAC   |-> IF v < apiEndpointMAC THEN asked ELSE Unset]

\* The address asked for on the extra network, in a body of version v.
ConnectMAC(inspect, v) == IF v >= apiConnectMAC THEN ExtraMacAddress(inspect) ELSE Unset

(***************************************************************************)
(* What create refuses: a hostname where another's network is shared, and  *)
(* the container's own MAC address once Docker no longer takes one.        *)
(***************************************************************************)
Takes(body, v) ==
    /\ own.shares => body.hostname = Unset
    /\ v >= apiInspectEndpointMAC => body.configMAC = Unset

FreshId == CHOOSE i \in Ids : i \notin {container.id, container.hostname} \cup container.aliases

\* What create makes of a body sent in version v.
Created(body, v) ==
    LET asked == IF v >= apiEndpointMAC THEN body.endpointMAC ELSE body.configMAC
    IN  [id |-> FreshId, image |-> tag, settings |-> Filled(body.settings, images[tag]),
         hostname |-> IF own.shares THEN Theirs ELSE Or(body.hostname, FreshId),
         aliases |-> body.aliases,
         mac |-> asked, ownMAC |-> Address(asked, docker),
         extra |-> Unset, extraMAC |-> Address(Unset, docker)]

\* Docker 1.54 and later gives the extra network the address asked for.
Connected(c, mac, v) ==
    LET asked == IF v >= apiConnectMAC THEN mac ELSE Unset
    IN  [c EXCEPT !.extra = asked, !.extraMAC = Address(asked, docker)]

-----------------------------------------------------------------------------
(* A swap.                                                                 *)

swap == <<step, seen, made>>
fixed == <<aspect, images, own>>

NotMade == container
Idle == /\ step' = "inspect" /\ seen' = Inspect(container, 0) /\ made' = NotMade
        /\ UNCHANGED <<container, agreed>>

\* Recreating would lose the data of an anonymous volume.
Unrecreatable == container.settings.volume /\ ~own.mounted
PassBegins ==
    /\ step # "gate"
    /\ step = "inspect" => tag # container.image
    /\ Begin(Pass)
    /\ UNCHANGED <<fixed, tag, container, agreed, swap>>

\* The container is inspected; one that cannot be recreated is left alone.
Inspected ==
    /\ step = "inspect" /\ Answered(Pass)
    /\ IF Unrecreatable THEN Idle
       ELSE /\ step' = "create"
            /\ seen' = Inspect(container, call[Pass].in)
            /\ UNCHANGED <<container, agreed, made>>
    /\ UNCHANGED <<fixed, tag>>

\* A body Docker refuses fails the swap, which is undone.
CreateAnswered ==
    LET body == CreateBody(seen, call[Pass].body)
    IN  /\ step = "create" /\ Answered(Pass)
        /\ IF Takes(body, call[Pass].in)
           THEN /\ made' = Created(body, call[Pass].in)
                /\ step' = IF own.shares THEN "gate" ELSE "connect"
                /\ UNCHANGED <<container, agreed, seen>>
           ELSE Idle
        /\ UNCHANGED <<fixed, tag>>

ConnectAnswered ==
    /\ step = "connect" /\ Answered(Pass)
    /\ made' = Connected(made, ConnectMAC(seen, call[Pass].body), call[Pass].in)
    /\ step' = "gate"
    /\ UNCHANGED <<fixed, tag, container, agreed, seen>>

\* A call that fails undoes the swap.
PassCallFails ==
    /\ CallLost(Pass) \/ RefusedAgain(Pass)
    /\ Idle
    /\ UNCHANGED <<fixed, tag>>

\* Healthy: the old container is removed, its anonymous volumes with it.
Commit ==
    /\ step = "gate"
    /\ container' = made
    /\ agreed' = (agreed \/ images[made.image].entry = own.settings.entry)
    /\ step' = "inspect" /\ seen' = Inspect(made, 0) /\ made' = made
    /\ UNCHANGED <<apiVars, fixed, tag>>

\* Unhealthy: the old container is put back.
Rollback ==
    /\ step = "gate"
    /\ Idle
    /\ UNCHANGED <<apiVars, fixed, tag>>

PassStep == ApiStep(Pass) /\ UNCHANGED <<fixed, tag, container, agreed, swap>>

\* The other callers of the client: the background pulls.
Background(c) ==
    /\ c # Pass /\ aspect = "identity"
    /\ Begin(c) \/ ApiStep(c) \/ Answered(c) \/ RefusedAgain(c) \/ CallLost(c)
    /\ UNCHANGED <<fixed, tag, container, agreed, swap>>

TagMoves ==
    /\ tag' \in Images \ {tag}
    /\ UNCHANGED <<apiVars, fixed, container, agreed, swap>>

\* Docker is replaced: its containers are restarted.
Restarted(c, d) == [c EXCEPT !.ownMAC = Address(c.mac, d), !.extraMAC = Address(c.extra, d)]
DockerReplaced ==
    /\ Upgrade
    /\ container' = Restarted(container, docker') /\ made' = Restarted(made, docker')
    /\ UNCHANGED <<fixed, tag, agreed, step, seen>>

-----------------------------------------------------------------------------
(* The specification.                                                      *)

NoDefaults == [entry |-> Unset, port |-> FALSE, volume |-> FALSE, entrypoint |-> Unset,
               cmd |-> Unset]
PlainDefaults ==
    CASE aspect = "entries" -> {d \in Defaults : d = [NoDefaults EXCEPT !.entry = d.entry, !.port = d.port]}
      [] aspect = "command" -> {d \in Defaults : d = [NoDefaults EXCEPT !.entrypoint = d.entrypoint, !.cmd = d.cmd]}
      [] aspect = "volumes" -> {d \in Defaults : d = [NoDefaults EXCEPT !.volume = d.volume]}
      [] OTHER              -> {NoDefaults}

Identities == {"named", "mac", "extra", "shares"}
\* A published port is exposed; of what makes an identity, one thing at a time.
Owns == {o \in [settings : PlainDefaults, published : BOOLEAN, mounted : BOOLEAN,
                named : BOOLEAN, mac : BOOLEAN, extra : BOOLEAN, shares : BOOLEAN] :
           /\ o.published => o.settings.port
           /\ o.mounted => aspect = "volumes"
           /\ \A f \in Identities : o[f] => /\ aspect = "identity"
                                          /\ \A g \in Identities \ {f} : ~o[g]}

Asked(given) == IF given THEN Given ELSE Unset

Init ==
    /\ ApiInit
    /\ aspect \in Aspects
    /\ images \in [Images -> PlainDefaults]
    /\ own \in Owns
    /\ tag \in Images
    /\ container =
         [id |-> "c1", image |-> tag, settings |-> Filled(own.settings, images[tag]),
          hostname |-> IF own.shares THEN Theirs ELSE IF own.named THEN Given ELSE "c1",
          aliases |-> {},
          mac |-> Asked(own.mac), ownMAC |-> Address(Asked(own.mac), docker),
          extra |-> Asked(own.extra), extraMAC |-> Address(Asked(own.extra), docker)]
    /\ agreed = (images[tag].entry = own.settings.entry)
    /\ step = "inspect" /\ seen = Inspect(container, 0) /\ made = NotMade
    /\ aspect # "identity" => docker = CHOOSE offer \in Offers : TRUE
    /\ spent = IF aspect = "identity" THEN [upgrades |-> 0, faults |-> 0]
               ELSE [upgrades |-> MaxUpgrades, faults |-> MaxFaults]

Next == \/ PassBegins \/ PassStep \/ Inspected \/ CreateAnswered \/ ConnectAnswered
        \/ PassCallFails \/ Commit \/ Rollback
        \/ \E c \in Callers : Background(c)
        \/ TagMoves \/ DockerReplaced

Spec == Init /\ [][Next]_vars

-----------------------------------------------------------------------------
(* Properties.                                                             *)

Names == Ids \cup {Given, Theirs}
Addresses == {Unset, Given, FromIP, Random}
Containers == [id : Ids, image : Images, settings : Defaults, hostname : Names,
               aliases : SUBSET Names, mac : Addresses, ownMAC : Addresses,
               extra : Addresses, extraMAC : Addresses]
TypeOK ==
    /\ ApiTypeOK
    /\ images \in [Images -> Defaults] /\ own \in Owns
    /\ tag \in Images /\ step \in {"inspect", "create", "connect", "gate"}
    /\ agreed \in BOOLEAN
    /\ container \in Containers /\ made \in Containers

(***************************************************************************)
(* Through any chain of swaps, of undone swaps and of upgrades of Docker,  *)
(* each setting of a container is the user's own or its current image's -  *)
(* nothing an image set outlives it, but a published port - and what the   *)
(* user set stays: a setting, unless some image it ran had the same; a     *)
(* published port; a hostname; a MAC address on its own network.           *)
(***************************************************************************)
EachSettingHasItsOwner ==
    LET now == container.settings  image == images[container.image]  mine == own.settings
    IN  /\ now.entry \in {Or(mine.entry, image.entry), image.entry}
        /\ now.port = (image.port \/ own.published) \/ (mine.port /\ now.port)
        /\ now.volume => mine.volume \/ image.volume
        /\ now.entrypoint \in {mine.entrypoint, image.entrypoint}
        /\ now.cmd \in {mine.cmd, image.cmd}
        /\ mine.entry # Unset /\ ~agreed => now.entry = mine.entry
        /\ own.published => now.port
        /\ own.named => container.hostname = Given
        /\ own.mac => container.mac = Given

(***************************************************************************)
(* The new container's command is what a fresh docker run on the new image *)
(* would get of settings that explain the old container on the old image:  *)
(* no entrypoint is handed a command it never had.                         *)
(***************************************************************************)
Explains(s, image, c) ==
    FilledCommand(s, image) = [entrypoint |-> c.settings.entrypoint, cmd |-> c.settings.cmd]
CommandIsAFreshRuns ==
    [][step = "gate" /\ container' # container =>
         \E e \in Lists \cup {Unset, Nothing}, k \in Commands \cup {Unset} :
            LET s == [entrypoint |-> e, cmd |-> k]
            IN  /\ Explains(s, images[container.image], container)
                /\ Explains(s, images[container'.image], container')]_vars

(***************************************************************************)
(* A container is named after nobody but itself: no id of one it replaced  *)
(* is its hostname or an alias of it, and no address Docker derived from   *)
(* an IP is asked for, whatever versions it was read and created in.       *)
(***************************************************************************)
IdentityIsItsOwn ==
    \A c \in {container, made} :
        /\ c.hostname \in {c.id, Given, Theirs}
        /\ c.aliases \subseteq {Given}
        /\ FromIP \notin {c.mac, c.extra}

(***************************************************************************)
(* Docker never refuses a create for what is in it, whichever version it   *)
(* was inspected in and however often the version was negotiated since.    *)
(***************************************************************************)
CreateIsTaken ==
    [][step = "create" /\ call[Pass].pc = "send" /\ Accepts(call[Pass].in)
         => step' # "inspect" \/ spent' # spent]_vars

=============================================================================
