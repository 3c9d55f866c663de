--------------------------- MODULE Recreate_proofs ---------------------------
(***************************************************************************)
(* Theorems about Recreate and the version negotiation under it, for every *)
(* number of callers, every chain of images, every Docker and every bound. *)
(***************************************************************************)
EXTENDS RecreateInvariant, TLAPS

-----------------------------------------------------------------------------
(* The negotiation.                                                        *)

\* Every step of the client, of any of its callers, and of Docker under it.
ApiNext == \/ \E c \in Callers : \/ Begin(c) \/ ApiStep(c) \/ Answered(c)
                                 \/ RefusedAgain(c) \/ CallLost(c)
           \/ Upgrade

\* The parts of a call the negotiation turns on.
CallShape == [pc : {"idle", "negotiate", "send", "forget"}, in : Nat, body : Nat,
              again : BOOLEAN, disturbed : BOOLEAN]

(***************************************************************************)
(* The version spoken is one that Docker takes, or none, for a call that   *)
(* nothing disturbed and whose own version has been refused; and the       *)
(* version it asks in the second time is one that Docker takes.            *)
(***************************************************************************)
Stale(c) == \/ call[c].pc \in {"send", "forget"} /\ ~call[c].again /\ version # call[c].in
            \/ call[c].pc = "negotiate" /\ call[c].again
Undisturbed(c) ==
    ~call[c].disturbed =>
        /\ Stale(c) => version = 0 \/ Accepts(version)
        /\ call[c].pc = "send" /\ call[c].again => Accepts(call[c].in)
NegotiationInv ==
    /\ docker \in Offers
    /\ version \in Nat
    /\ call \in [Callers -> CallShape]
    /\ spent \in [upgrades : Nat, faults : Nat]
    /\ \A c \in Callers : call[c].pc = "forget" => ~call[c].again
    /\ \A c \in Callers : Undisturbed(c)

\* The version chosen of an offer is within it.
LEMMA ChooseIsOffered ==
  ASSUME NEW offer \in Offers
  PROVE  /\ Choose(offer) \in Nat
         /\ offer.oldest <= Choose(offer) /\ Choose(offer) <= offer.newest
BY OffersAssumption, ApiBounds DEF Choose

\* What sending does to the calls.
LEMMA SendingShape ==
  ASSUME NEW calls \in [Callers -> CallShape], NEW c \in Callers, NEW v \in Nat
  PROVE  /\ Sending(c, calls, v) \in [Callers -> CallShape]
         /\ Sending(c, calls, v)[c].pc = "send" /\ Sending(c, calls, v)[c].in = v
         /\ Sending(c, calls, v)[c].again = calls[c].again
         /\ Sending(c, calls, v)[c].disturbed = calls[c].disturbed
         /\ \A d \in Callers \ {c} : Sending(c, calls, v)[d] = calls[d]
BY DEF Sending, Encoded, CallShape

\* A caller's own step: begin, negotiate, be refused, forget, be answered.
LEMMA CallerStep ==
  ASSUME NegotiationInv, NEW c \in Callers,
         \/ Begin(c) \/ Negotiate(c) \/ Refused(c) \/ Forget(c) \/ Answered(c)
         \/ RefusedAgain(c) \/ CallLost(c)
  PROVE  NegotiationInv'
<1>0. /\ docker \in Offers /\ version \in Nat
      /\ call \in [Callers -> CallShape]
      /\ NoCall \in CallShape
  BY DEF NegotiationInv, NoCall, CallShape
<1>1. CASE Begin(c)
  <2>1. /\ UNCHANGED <<docker, version, spent>>
        /\ call' = [call EXCEPT ![c] = [NoCall EXCEPT !.pc = "negotiate"]]
        /\ [NoCall EXCEPT !.pc = "negotiate"] \in CallShape
    BY <1>1 DEF Begin, NoCall, CallShape
  <2>2. ~call'[c].again /\ call'[c].pc = "negotiate"
    BY <1>0, <2>1 DEF NoCall
  <2>3. \A d \in Callers \ {c} : call'[d] = call[d]
    BY <1>0, <2>1
  <2> QED BY <1>0, <2>1, <2>2, <2>3 DEF NegotiationInv, Undisturbed, Stale, Accepts
<1>2. CASE Negotiate(c)
  <2>1. /\ UNCHANGED <<docker, spent>>
        /\ version' = IF version = 0 THEN Choose(docker) ELSE version
        /\ version' \in Nat
    BY <1>0, <1>2, ChooseIsOffered DEF Negotiate
  <2>2. /\ call' \in [Callers -> CallShape]
        /\ call'[c].pc = "send" /\ call'[c].in = version'
        /\ call'[c].again = call[c].again /\ call'[c].disturbed = call[c].disturbed
        /\ \A d \in Callers \ {c} : call'[d] = call[d]
    BY <1>0, <1>2, <2>1 DEF Negotiate, Sending, Encoded, CallShape
  <2>3. version = 0 => Accepts(version')
    BY <1>0, <2>1, ChooseIsOffered DEF Accepts
  <2>4. Undisturbed(c)'
    BY <1>2, <2>1, <2>2, <2>3 DEF NegotiationInv, Undisturbed, Stale, Accepts, Negotiate
  <2>5. ASSUME NEW d \in Callers \ {c} PROVE Undisturbed(d)'
    BY <2>1, <2>2, <2>3, <2>5 DEF NegotiationInv, Undisturbed, Stale, Accepts
  <2> QED BY <1>0, <2>1, <2>2, <2>4, <2>5 DEF NegotiationInv
<1>3. CASE Refused(c)
  <2>1. /\ UNCHANGED <<docker, version, spent>>
        /\ call' \in [Callers -> CallShape]
        /\ call'[c].pc = "forget" /\ call'[c].in = call[c].in
        /\ ~call[c].again /\ ~call'[c].again /\ call[c].pc = "send"
        /\ call'[c].disturbed = call[c].disturbed
        /\ \A d \in Callers \ {c} : call'[d] = call[d]
    BY <1>0, <1>3 DEF Refused, CallShape
  <2> QED BY <1>0, <2>1 DEF NegotiationInv, Undisturbed, Stale, Accepts
<1>4. CASE Forget(c)
  <2>1. /\ UNCHANGED <<docker, spent>>
        /\ version' = IF version = call[c].in THEN 0 ELSE version
        /\ call' \in [Callers -> CallShape]
        /\ call[c].pc = "forget" /\ ~call[c].again
        /\ call'[c].pc = "negotiate" /\ call'[c].again
        /\ call'[c].disturbed = call[c].disturbed
        /\ \A d \in Callers \ {c} : call'[d] = call[d]
    BY <1>0, <1>4 DEF Forget, Remaining, CallShape, NegotiationInv
  <2> QED BY <1>0, <2>1 DEF NegotiationInv, Undisturbed, Stale, Accepts
<1>5. CASE Answered(c) \/ RefusedAgain(c) \/ CallLost(c)
  <2>1. /\ UNCHANGED <<docker, version>>
        /\ call' = [call EXCEPT ![c] = NoCall]
        /\ spent' \in [upgrades : Nat, faults : Nat]
    BY <1>5 DEF Answered, RefusedAgain, CallLost, Fault, NegotiationInv
  <2>2. /\ call' \in [Callers -> CallShape] /\ call'[c].pc = "idle"
        /\ \A d \in Callers \ {c} : call'[d] = call[d]
    BY <1>0, <2>1 DEF NoCall
  <2> QED BY <1>0, <2>1, <2>2 DEF NegotiationInv, Undisturbed, Stale, Accepts
<1> QED BY <1>1, <1>2, <1>3, <1>4, <1>5

\* Whatever disturbs the calls under way says so in each of them.
LEMMA DisturbingStep ==
  ASSUME NegotiationInv, Upgrade \/ \E c \in Callers : NegotiateBlind(c)
  PROVE  NegotiationInv'
<1>0. /\ docker \in Offers /\ version \in Nat
      /\ call \in [Callers -> CallShape]
      /\ Disturbed \in [Callers -> CallShape]
      /\ \A c \in Callers : /\ Disturbed[c].pc = call[c].pc
                            /\ Disturbed[c].again = call[c].again
                            /\ call[c].pc # "idle" => Disturbed[c].disturbed
  BY DEF NegotiationInv, Disturbed, CallShape
<1>1. CASE Upgrade
  <2>1. /\ docker' \in Offers /\ version' = version /\ call' = Disturbed
        /\ spent' \in [upgrades : Nat, faults : Nat]
    BY <1>1 DEF Upgrade, NegotiationInv
  <2> QED BY <1>0, <2>1 DEF NegotiationInv, Undisturbed, Stale
<1>2. ASSUME NEW c \in Callers, NegotiateBlind(c)
      PROVE  NegotiationInv'
  <2>1. /\ docker' \in Offers /\ version' = NewestAPI /\ version' \in Nat
        /\ spent' \in [upgrades : Nat, faults : Nat]
        /\ call[c].pc = "negotiate"
    BY <1>2, ApiBounds DEF NegotiateBlind, Fault, NegotiationInv
  <2>2. /\ call' \in [Callers -> CallShape]
        /\ call'[c].pc = "send" /\ call'[c].disturbed
        /\ \A d \in Callers \ {c} : call'[d] = Disturbed[d]
    <3>1. call' = Sending(c, Disturbed, version')
      BY <1>2, <2>1 DEF NegotiateBlind
    <3> QED BY <1>0, <2>1, <3>1, SendingShape
  <2> QED BY <1>0, <2>1, <2>2 DEF NegotiationInv, Undisturbed, Stale
<1> QED BY <1>1, <1>2

LEMMA NegotiationStep == NegotiationInv /\ [ApiNext]_apiVars => NegotiationInv'
<1> SUFFICES ASSUME NegotiationInv, [ApiNext]_apiVars PROVE NegotiationInv'
  OBVIOUS
<1>1. CASE UNCHANGED apiVars
  BY <1>1 DEF apiVars, NegotiationInv, Undisturbed, Stale, Accepts
<1> QED BY <1>1, CallerStep, DisturbingStep DEF ApiNext, ApiStep

LEMMA RefusalStep ==
  ASSUME NegotiationInv, ApiNext,
         NEW c \in Callers, call[c].pc = "send", call'[c].pc = "idle", ~Accepts(call[c].in)
  PROVE  call[c].disturbed \/ spent' # spent
<1>0. call \in [Callers -> CallShape] /\ spent \in [upgrades : Nat, faults : Nat]
  BY DEF NegotiationInv
<1>1. ASSUME NEW d \in Callers \ {c},
             \/ Begin(d) \/ Answered(d) \/ RefusedAgain(d) \/ CallLost(d)
             \/ Negotiate(d) \/ Refused(d) \/ Forget(d)
      PROVE  FALSE
  BY <1>0, <1>1 DEF Begin, Answered, RefusedAgain, CallLost, Negotiate, Sending, Refused, Forget
<1>2. CASE CallLost(c)
  BY <1>0, <1>2 DEF CallLost, Fault
<1>3. CASE RefusedAgain(c)
  BY <1>3 DEF RefusedAgain, NegotiationInv, Undisturbed
<1>4. CASE Upgrade \/ \E d \in Callers : NegotiateBlind(d)
  <2>1. Disturbed \in [Callers -> CallShape] /\ Disturbed[c].pc = "send"
    BY <1>0 DEF Disturbed, CallShape
  <2>2. CASE Upgrade
    BY <2>1, <2>2 DEF Upgrade
  <2>3. ASSUME NEW d \in Callers, NegotiateBlind(d)
        PROVE  FALSE
    <3>1. call' = Sending(d, Disturbed, NewestAPI)
      BY <2>3 DEF NegotiateBlind
    <3> QED BY <2>1, <3>1, SendingShape, ApiBounds
  <2> QED BY <1>4, <2>2, <2>3
<1>5. ~(Begin(c) \/ Answered(c) \/ Negotiate(c) \/ Refused(c) \/ Forget(c))
  BY <1>0 DEF Begin, Answered, Negotiate, Refused, Forget, CallShape
<1> QED BY <1>1, <1>2, <1>3, <1>4, <1>5 DEF ApiNext, ApiStep

-----------------------------------------------------------------------------
(* Recreate's steps are the client's.                                      *)

LEMMA StepIsTheClients == [Next]_vars => [ApiNext]_apiVars
<1> SUFFICES ASSUME [Next]_vars PROVE [ApiNext]_apiVars
  OBVIOUS
<1>1. CASE PassBegins \/ PassStep \/ Inspected \/ CreateAnswered \/ ConnectAnswered
           \/ PassCallFails
  BY <1>1, PassAssumption
     DEF PassBegins, PassStep, Inspected, CreateAnswered, ConnectAnswered, PassCallFails, ApiNext
<1>2. CASE Commit \/ Rollback \/ TagMoves \/ UNCHANGED vars
  BY <1>2 DEF Commit, Rollback, TagMoves, vars, apiVars
<1>3. CASE DockerReplaced \/ \E c \in Callers : Background(c)
  BY <1>3 DEF DockerReplaced, Background, ApiNext
<1> QED BY <1>1, <1>2, <1>3 DEF Next

LEMMA NegotiationInit == Init => NegotiationInv
BY ApiBounds
   DEF Init, ApiInit, NegotiationInv, Undisturbed, Stale, NoCall, CallShape

(***************************************************************************)
(* A call is refused for its version in the end only when Docker changed   *)
(* under it or could not say what it speaks, however many callers share    *)
(* the client and are refused at once.                                     *)
(***************************************************************************)
THEOREM OnlyTheDisturbedAreRefused == Spec => RefusedOnlyWhenDisturbed
<1>1. Init => NegotiationInv
  BY NegotiationInit
<1>2. NegotiationInv /\ [Next]_vars => NegotiationInv'
  BY NegotiationStep, StepIsTheClients
<1>3. NegotiationInv /\ [Next]_vars
        => [\A c \in Callers :
              call[c].pc = "send" /\ call'[c].pc = "idle" /\ ~Accepts(call[c].in)
                => call[c].disturbed \/ spent' # spent]_apiVars
  BY StepIsTheClients, RefusalStep
<1> QED BY <1>1, <1>2, <1>3, PTL DEF Spec, RefusedOnlyWhenDisturbed

-----------------------------------------------------------------------------
(* What the recreate computes.                                             *)

\* What Docker fills in, field by field.
LEMMA FilledFields ==
  ASSUME NEW s \in Defaults, NEW image \in Defaults
  PROVE  /\ Filled(s, image) \in Defaults
         /\ Filled(s, image).entry = Or(s.entry, image.entry)
         /\ Filled(s, image).port = (s.port \/ image.port)
         /\ Filled(s, image).volume = (s.volume \/ image.volume)
         /\ Filled(s, image).entrypoint = Or(s.entrypoint, image.entrypoint)
         /\ Filled(s, image).cmd = IF s.entrypoint \in {Unset, Nothing} THEN Or(s.cmd, image.cmd)
                                   ELSE s.cmd
BY DEF Filled, FilledCommand, Defaults, Or

\* What is left of a container's settings, field by field.
LEMMA WithoutFields ==
  ASSUME NEW s \in Defaults, NEW image \in Defaults, own.published \in BOOLEAN
  PROVE  LET left == WithoutImageDefaults(s, image)
             mine == OwnEntrypoint(s, image)
         IN  /\ left \in Defaults
             /\ left.entry = IF s.entry = image.entry THEN Unset ELSE s.entry
             /\ left.port = (s.port /\ (own.published \/ ~image.port))
             /\ left.volume = (s.volume /\ ~image.volume)
             /\ left.entrypoint = IF mine THEN s.entrypoint ELSE Unset
             /\ left.cmd = IF s.cmd = image.cmd /\ ~(mine /\ s.entrypoint \notin {Unset, Nothing})
                           THEN Unset ELSE s.cmd
BY DEF WithoutImageDefaults, Defaults

\* A container just created has its settings from the user and the image.
LEMMA FilledOwned ==
  ASSUME own.settings \in Defaults, own.published => own.settings.port, NEW image \in Defaults
  PROVE  Owned(Filled(own.settings, image), image)
<1>1. CommandOwned(Filled(own.settings, image), image)
  BY FilledFields, ValuesAssumption DEF CommandOwned, Or, Defaults
<1> DEFINE fresh == Filled(own.settings, image)
<1>2. /\ fresh.entry = Or(own.settings.entry, image.entry)
      /\ fresh.port = (own.settings.port \/ image.port)
      /\ fresh.volume = (own.settings.volume \/ image.volume)
  BY FilledFields
<1> HIDE DEF fresh
<1>3. Owned(fresh, image)
  BY <1>1, <1>2 DEF Owned, fresh
<1> QED BY <1>3 DEF fresh

(***************************************************************************)
(* What is left of a container's settings explains it: its image fills in  *)
(* just what was taken out.                                                *)
(***************************************************************************)
LEMMA LeftExplains ==
  ASSUME NEW s \in Defaults, NEW image \in Defaults, own.published \in BOOLEAN, Owned(s, image)
  PROVE  FilledCommand(WithoutImageDefaults(s, image), image)
           = [entrypoint |-> s.entrypoint, cmd |-> s.cmd]
<1> DEFINE left == WithoutImageDefaults(s, image)
<1>1. /\ left.entrypoint = IF OwnEntrypoint(s, image) THEN s.entrypoint ELSE Unset
      /\ left.cmd = IF /\ s.cmd = image.cmd
                       /\ ~(OwnEntrypoint(s, image) /\ s.entrypoint \notin {Unset, Nothing})
                    THEN Unset ELSE s.cmd
  BY WithoutFields
<1> HIDE DEF left
<1>2. /\ s.entrypoint = Unset => image.entrypoint = Unset
      /\ s.cmd = Unset /\ image.cmd # Unset => s.entrypoint \notin {Unset, Nothing}
  BY DEF Owned, CommandOwned
<1>3. Or(left.entrypoint, image.entrypoint) = s.entrypoint
  BY <1>1, <1>2 DEF Or, OwnEntrypoint
<1>4. (IF left.entrypoint \in {Unset, Nothing} THEN Or(left.cmd, image.cmd) ELSE left.cmd) = s.cmd
  BY <1>1, <1>2 DEF Or, OwnEntrypoint
<1>5. FilledCommand(left, image) = [entrypoint |-> s.entrypoint, cmd |-> s.cmd]
  BY <1>3, <1>4 DEF FilledCommand
<1> QED BY <1>5 DEF left

\* A container recreated has its settings from the user and the new image.
LEMMA RecreatedOwned ==
  ASSUME NEW s \in Defaults, NEW old \in Defaults, NEW new \in Defaults,
         own.published \in BOOLEAN, Owned(s, old)
  PROVE  /\ Recreated(s, old, new) \in Defaults
         /\ Owned(Recreated(s, old, new), new)
         /\ own.settings.entry # Unset /\ s.entry = own.settings.entry
              /\ old.entry # own.settings.entry
              => Recreated(s, old, new).entry = own.settings.entry
<1> DEFINE left == WithoutImageDefaults(s, old)
           fresh == Filled(left, new)
           mine == OwnEntrypoint(s, old)
<1>1. /\ left \in Defaults
      /\ left.entry = IF s.entry = old.entry THEN Unset ELSE s.entry
      /\ left.port = (s.port /\ (own.published \/ ~old.port))
      /\ left.volume = (s.volume /\ ~old.volume)
      /\ left.entrypoint = IF mine THEN s.entrypoint ELSE Unset
      /\ left.cmd = IF s.cmd = old.cmd /\ ~(mine /\ s.entrypoint \notin {Unset, Nothing})
                    THEN Unset ELSE s.cmd
  BY WithoutFields
<1>2. mine <=> s.entrypoint # old.entrypoint \/ (s.cmd = Unset /\ old.cmd # Unset)
  BY DEF OwnEntrypoint
<1> HIDE DEF left, mine
<1>3. /\ fresh \in Defaults
      /\ fresh.entry = Or(left.entry, new.entry)
      /\ fresh.port = (left.port \/ new.port)
      /\ fresh.volume = (left.volume \/ new.volume)
      /\ fresh.entrypoint = Or(left.entrypoint, new.entrypoint)
      /\ fresh.cmd = IF left.entrypoint \in {Unset, Nothing} THEN Or(left.cmd, new.cmd) ELSE left.cmd
  BY <1>1, FilledFields
<1>4. Recreated(s, old, new) = fresh
  BY DEF Recreated, fresh, left
<1> HIDE DEF fresh
<1>5. CommandOwned(fresh, new)
  <2>1. /\ s.entrypoint \in {own.settings.entrypoint, old.entrypoint}
        /\ s.cmd \in {own.settings.cmd, old.cmd}
        /\ s.cmd = Unset /\ old.cmd # Unset
             => s.entrypoint = own.settings.entrypoint /\ s.entrypoint \notin {Unset, Nothing}
        /\ s.entrypoint \notin {Unset, Nothing, old.entrypoint} => s.cmd = own.settings.cmd
    BY DEF Owned, CommandOwned
  <2>2. mine => s.entrypoint = own.settings.entrypoint
    BY <1>2, <2>1
  <2>3. mine /\ s.entrypoint \notin {Unset, Nothing} => s.cmd = own.settings.cmd
    BY <1>2, <2>1
  <2>4. fresh.entrypoint \in {own.settings.entrypoint, new.entrypoint}
    BY <1>1, <1>3, <2>2 DEF Or
  <2>5. fresh.cmd \in {own.settings.cmd, new.cmd}
    BY <1>1, <1>3, <2>1, <2>3 DEF Or
  <2>6. fresh.entrypoint = Unset => new.entrypoint = Unset
    BY <1>3 DEF Or
  <2>7. fresh.cmd = Unset /\ new.cmd # Unset
          => fresh.entrypoint = own.settings.entrypoint /\ fresh.entrypoint \notin {Unset, Nothing}
    BY <1>1, <1>3, <2>2 DEF Or
  <2>8. fresh.entrypoint \notin {Unset, Nothing, new.entrypoint} => fresh.cmd = own.settings.cmd
    BY <1>1, <1>3, <2>3 DEF Or
  <2> QED BY <2>4, <2>5, <2>6, <2>7, <2>8 DEF CommandOwned
<1>6. fresh.entry \in {Or(own.settings.entry, new.entry), new.entry}
  BY <1>1, <1>3 DEF Owned, Or
<1>7. /\ new.port \/ own.published => fresh.port
      /\ fresh.port => new.port \/ own.published \/ own.settings.port
      /\ fresh.volume => own.settings.volume \/ new.volume
  BY <1>1, <1>3 DEF Owned
<1>8. own.settings.entry # Unset /\ s.entry = own.settings.entry /\ old.entry # own.settings.entry
        => fresh.entry = own.settings.entry
  BY <1>1, <1>3 DEF Or
<1> QED BY <1>3, <1>4, <1>5, <1>6, <1>7, <1>8 DEF Owned

-----------------------------------------------------------------------------
(* The client: its types, and the bodies it sends.                         *)

\* The version chosen of an offer is one of those there are; all are numbers.
LEMMA VersionTypes ==
  /\ ApiVersions \subseteq Nat /\ 0 \in ApiVersions /\ NewestAPI \in ApiVersions
  /\ \A offer \in Offers : Choose(offer) \in ApiVersions
BY OffersAssumption, ApiBounds DEF ApiVersions, Choose

LEMMA ApiTypeStep ==
  ASSUME ApiTypeOK, BodyInv, [ApiNext]_apiVars
  PROVE  ApiTypeOK' /\ BodyInv'
<1>0. /\ docker \in Offers /\ version \in ApiVersions /\ call \in [Callers -> ApiCalls]
      /\ NoCall \in ApiCalls
  BY VersionTypes DEF ApiTypeOK, NoCall, ApiCalls
<1>1. ASSUME NEW c \in Callers, NEW new \in ApiCalls, call' = [call EXCEPT ![c] = new],
             docker' \in Offers, version' \in ApiVersions, new.pc = "send" => new.body = new.in
      PROVE  ApiTypeOK' /\ BodyInv'
  BY <1>0, <1>1 DEF ApiTypeOK, BodyInv
<1>2. ASSUME NEW c \in Callers, NEW calls \in [Callers -> ApiCalls], NEW v \in ApiVersions,
             \A d \in Callers : calls[d].pc = "send" => calls[d].body = calls[d].in,
             call' = Sending(c, calls, v), docker' \in Offers, version' \in ApiVersions
      PROVE  ApiTypeOK' /\ BodyInv'
  <2>1. call' \in [Callers -> ApiCalls]
    <3>1. call' = [calls EXCEPT ![c] = [calls[c] EXCEPT !.pc = "send", !.in = v, !.body = v]]
      BY <1>2 DEF Sending, Encoded
    <3>2. [calls[c] EXCEPT !.pc = "send", !.in = v, !.body = v] \in ApiCalls
      BY <1>2 DEF ApiCalls
    <3> QED BY <1>2, <3>1, <3>2
  <2>2. call'[c].body = call'[c].in /\ \A d \in Callers \ {c} : call'[d] = calls[d]
    BY <1>2 DEF Sending, Encoded, ApiCalls
  <2> QED BY <1>2, <2>1, <2>2 DEF ApiTypeOK, BodyInv
<1>3. /\ Disturbed \in [Callers -> ApiCalls]
      /\ \A d \in Callers : Disturbed[d].pc = "send" => Disturbed[d].body = Disturbed[d].in
  BY <1>0 DEF Disturbed, ApiCalls, BodyInv
<1>4. ASSUME NEW c \in Callers, Begin(c) PROVE ApiTypeOK' /\ BodyInv'
  <2>1. [NoCall EXCEPT !.pc = "negotiate"] \in ApiCalls
        /\ [NoCall EXCEPT !.pc = "negotiate"].pc = "negotiate"
    BY <1>0 DEF ApiCalls, NoCall
  <2> QED BY <1>0, <1>1, <1>4, <2>1 DEF Begin
<1>5. ASSUME NEW c \in Callers, Answered(c) \/ RefusedAgain(c) \/ CallLost(c)
      PROVE  ApiTypeOK' /\ BodyInv'
  <2>1. NoCall.pc = "idle"
    BY DEF NoCall
  <2> QED BY <1>0, <1>1, <1>5, <2>1 DEF Answered, RefusedAgain, CallLost
<1>6. ASSUME NEW c \in Callers, Refused(c) PROVE ApiTypeOK' /\ BodyInv'
  <2>1. call' = [call EXCEPT ![c] = [call[c] EXCEPT !.pc = "forget"]]
    BY <1>6 DEF Refused
  <2>2. [call[c] EXCEPT !.pc = "forget"] \in ApiCalls /\ [call[c] EXCEPT !.pc = "forget"].pc = "forget"
    BY <1>0 DEF ApiCalls
  <2> QED BY <1>0, <1>1, <1>6, <2>1, <2>2 DEF Refused
<1>7. ASSUME NEW c \in Callers, Forget(c) PROVE ApiTypeOK' /\ BodyInv'
  <2> DEFINE new == [call[c] EXCEPT !.pc = "negotiate", !.again = TRUE]
  <2>1. call' = [call EXCEPT ![c] = new]
    BY <1>0, <1>7 DEF Forget
  <2>2. new \in ApiCalls /\ new.pc = "negotiate"
    BY <1>0 DEF ApiCalls
  <2>3. docker' \in Offers /\ version' \in ApiVersions
    BY <1>0, <1>7, VersionTypes DEF Forget, Remaining
  <2> HIDE DEF new
  <2> QED BY <1>1, <2>1, <2>2, <2>3
<1>8. ASSUME NEW c \in Callers, Negotiate(c) PROVE ApiTypeOK' /\ BodyInv'
  <2>1. docker' \in Offers /\ version' \in ApiVersions /\ call' = Sending(c, call, version')
    BY <1>0, <1>8, VersionTypes DEF Negotiate
  <2> QED BY <1>0, <1>2, <2>1 DEF BodyInv
<1>9. ASSUME NEW c \in Callers, NegotiateBlind(c) PROVE ApiTypeOK' /\ BodyInv'
  <2>1. docker' \in Offers /\ version' \in ApiVersions /\ call' = Sending(c, Disturbed, NewestAPI)
    BY <1>0, <1>9, VersionTypes DEF NegotiateBlind
  <2> QED BY <1>2, <1>3, <2>1, VersionTypes
<1>10. CASE Upgrade
  <2>1. docker' \in Offers /\ version' = version /\ call' = Disturbed
    BY <1>10 DEF Upgrade
  <2> QED BY <1>0, <1>3, <2>1 DEF ApiTypeOK, BodyInv
<1>11. CASE UNCHANGED apiVars
  BY <1>11 DEF apiVars, ApiTypeOK, BodyInv
<1> QED BY <1>4, <1>5, <1>6, <1>7, <1>8, <1>9, <1>10, <1>11 DEF ApiNext, ApiStep

-----------------------------------------------------------------------------
(* The swap.                                                               *)

\* What the properties rest on, but for the calls.
SwapParts == TypeOK /\ SettingsInv /\ MadeInv /\ IdentityInv /\ SeenInv
IInv == SwapParts /\ BodyInv /\ NegotiationInv

\* What the user created the container with.
LEMMA OwnTypes ==
  ASSUME own \in Owns
  PROVE  /\ own.settings \in Defaults /\ own.published \in BOOLEAN
         /\ own.published => own.settings.port
         /\ own.shares \in BOOLEAN /\ own.named \in BOOLEAN /\ own.mac \in BOOLEAN
         /\ ~(own.shares /\ own.named) /\ ~(own.shares /\ own.mac)
<1>1. NoDefaults \in Defaults
  BY DEF NoDefaults, Defaults
<1>2. PlainDefaults \subseteq Defaults
  BY <1>1 DEF PlainDefaults
<1>3. /\ own \in [settings : PlainDefaults, published : BOOLEAN, mounted : BOOLEAN,
                  named : BOOLEAN, mac : BOOLEAN, extra : BOOLEAN, shares : BOOLEAN]
      /\ own.published => own.settings.port
      /\ \A f \in Identities : own[f] => \A g \in Identities \ {f} : ~own[g]
  BY DEF Owns
<1>4. own["shares"] => ~own["named"] /\ ~own["mac"]
  BY <1>3 DEF Identities
<1> QED BY <1>2, <1>3, <1>4

\* The addresses: what is asked for, or what Docker picks.
LEMMA AddressType ==
  ASSUME NEW asked \in Addresses, NEW d
  PROVE  /\ Address(asked, d) \in Addresses
         /\ asked # Unset => Address(asked, d) = asked
         /\ d.newest >= apiInspectEndpointMAC /\ asked # FromIP => Address(asked, d) # FromIP
BY ValuesAssumption DEF Address, Addresses

\* There is an id left for a container.
LEMMA FreshIsAnId ==
  ASSUME Itself(container)
  PROVE  FreshId \in Ids
<1>1. \E i \in Ids : i \notin {container.id, container.hostname} \cup {Given}
  <2>1. \A x, y, z : \E i \in Ids : i # x /\ i # y /\ i # z
    BY DEF Ids
  <2> QED BY <2>1
<1>2. container.aliases \subseteq {Given}
  BY DEF Itself
<1>3. \E i \in Ids : i \notin {container.id, container.hostname} \cup container.aliases
  BY <1>1, <1>2
<1> QED BY <1>3 DEF FreshId

\* The swap keeps its parts when nothing of its own changes but the tag.
LEMMA SwapFrame ==
  ASSUME SwapParts, ApiTypeOK', UNCHANGED <<fixed, container, agreed, swap, docker>>, tag' \in Images
  PROVE  SwapParts'
<1>1. TypeOK'
  BY DEF SwapParts, TypeOK, fixed, swap, Owns, PlainDefaults
<1>2. SettingsInv' /\ MadeInv'
  BY DEF SwapParts, SettingsInv, MadeInv, fixed, swap, Owned, CommandOwned, Recreated,
         WithoutImageDefaults
<1>3. IdentityInv'
  BY DEF SwapParts, IdentityInv, Itself, fixed, swap
<1>4. SeenInv'
  BY DEF SwapParts, SeenInv, fixed, swap
<1> QED BY <1>1, <1>2, <1>3, <1>4 DEF SwapParts

\* A swap that is idle has made nothing.
LEMMA SwapIdle ==
  ASSUME SwapParts, ApiTypeOK', UNCHANGED <<fixed, tag, docker>>, Idle
  PROVE  SwapParts'
<1>1. /\ step' = "inspect" /\ made' = container /\ UNCHANGED <<container, agreed>>
  BY DEF Idle, NotMade
<1>2. TypeOK'
  BY <1>1 DEF SwapParts, TypeOK, fixed, Owns, PlainDefaults
<1>3. SettingsInv'
  BY <1>1 DEF SwapParts, SettingsInv, fixed, Owned, CommandOwned
<1>4. MadeInv'
  BY <1>1 DEF MadeInv
<1>5. IdentityInv'
  BY <1>1 DEF SwapParts, IdentityInv, Itself, fixed
<1>6. SeenInv'
  BY <1>1 DEF SeenInv
<1> QED BY <1>2, <1>3, <1>4, <1>5, <1>6 DEF SwapParts

\* What the inspect says, in any version Docker takes.
LEMMA InspectSees ==
  ASSUME TypeOK, Itself(container), NEW v \in Nat, Accepts(v)
  PROVE  LET inspect == Inspect(container, v)
         IN  /\ inspect.id = container.id /\ inspect.image = container.image
             /\ inspect.settings = container.settings /\ inspect.hostname = container.hostname
             /\ inspect.aliases \ (IF inspect.version < apiAliasesWithoutID THEN {inspect.id} ELSE {})
                  \subseteq {Given}
             /\ MacAddress(inspect) \in Addresses \ {FromIP}
             /\ ExtraMacAddress(inspect) \in Addresses \ {FromIP}
             /\ own.mac => MacAddress(inspect) = Given
<1> DEFINE inspect == Inspect(container, v)
<1>1. /\ inspect.id = container.id /\ inspect.version = v /\ inspect.image = container.image
      /\ inspect.settings = container.settings /\ inspect.hostname = container.hostname
      /\ inspect.aliases = IF v < apiAliasesWithoutID THEN container.aliases \cup {container.id}
                           ELSE container.aliases
      /\ inspect.configMAC = IF v < apiInspectEndpointMAC THEN container.mac ELSE Unset
      /\ inspect.ownMAC = container.ownMAC /\ inspect.extraMAC = container.extraMAC
  BY DEF Inspect
<1> HIDE DEF inspect
<1>2. /\ container.mac \in Addresses \ {FromIP} /\ container.extra \in Addresses \ {FromIP}
      /\ container.ownMAC = Address(container.mac, docker)
      /\ container.extraMAC = Address(container.extra, docker)
      /\ own.mac => container.mac = Given
  BY DEF TypeOK, Containers, Itself
<1>3. docker.newest \in Nat /\ v <= docker.newest
  BY OffersAssumption DEF TypeOK, ApiTypeOK, Accepts
<1>4. v >= apiInspectEndpointMAC
        => /\ container.ownMAC \in Addresses \ {FromIP} /\ container.extraMAC \in Addresses \ {FromIP}
           /\ own.mac => container.ownMAC = Given
  <2>1. v >= apiInspectEndpointMAC => docker.newest >= apiInspectEndpointMAC
    BY <1>3 DEF apiInspectEndpointMAC
  <2> QED BY <1>2, <2>1, AddressType, ValuesAssumption
<1>5. Unset \in Addresses \ {FromIP}
  BY ValuesAssumption DEF Addresses
<1>6. v >= apiInspectEndpointMAC \/ v < apiInspectEndpointMAC
  BY DEF apiInspectEndpointMAC
<1>7. /\ MacAddress(inspect) \in Addresses \ {FromIP} /\ ExtraMacAddress(inspect) \in Addresses \ {FromIP}
      /\ own.mac => MacAddress(inspect) = Given
  BY <1>1, <1>2, <1>4, <1>5, <1>6 DEF MacAddress, ExtraMacAddress
<1>8. inspect.aliases \ (IF inspect.version < apiAliasesWithoutID THEN {inspect.id} ELSE {}) \subseteq {Given}
  BY <1>1 DEF Itself
<1> QED BY <1>1, <1>7, <1>8 DEF inspect

LEMMA InspectedStep ==
  ASSUME SwapParts, ApiTypeOK', Inspected
  PROVE  SwapParts'
<1>1. Answered(Pass) /\ UNCHANGED <<fixed, tag>> /\ UNCHANGED docker
  BY DEF Inspected, Answered
<1>2. CASE Idle
  BY <1>1, <1>2, SwapIdle
<1>3. CASE ~Idle
  <2>1. /\ step' = "create" /\ seen' = Inspect(container, call[Pass].in)
        /\ UNCHANGED <<container, agreed, made>> /\ step = "inspect"
    BY <1>3 DEF Inspected
  <2>2. call[Pass].in \in Nat /\ Accepts(call[Pass].in)
    BY <1>1, PassAssumption, VersionTypes DEF Answered, SwapParts, TypeOK, ApiTypeOK, ApiCalls
  <2>3. TypeOK'
    BY <1>1, <2>1 DEF SwapParts, TypeOK, fixed, Owns, PlainDefaults
  <2>4. SettingsInv'
    BY <1>1, <2>1 DEF SwapParts, SettingsInv, fixed, Owned, CommandOwned
  <2>5. MadeInv'
    BY <2>1 DEF SwapParts, MadeInv
  <2>6. IdentityInv'
    BY <1>1, <2>1 DEF SwapParts, IdentityInv, Itself, fixed
  <2>7. SeenInv'
    <3>1. own' = own
      BY <1>1 DEF fixed
    <3> QED BY <2>1, <2>2, <3>1, InspectSees DEF SwapParts, IdentityInv, SeenInv
  <2> QED BY <2>3, <2>4, <2>5, <2>6, <2>7 DEF SwapParts
<1> QED BY <1>2, <1>3

(***************************************************************************)
(* What create makes of the body, whatever Docker it is sent to: the       *)
(* settings recreated, and an identity of its own.                         *)
(***************************************************************************)
LEMMA CreatedIs ==
  ASSUME SwapParts, step = "create", NEW v \in Nat
  PROVE  LET new == Created(CreateBody(seen, v), v)
         IN  /\ new \in Containers /\ Itself(new) /\ new.image = tag
             /\ new.settings = Recreated(container.settings, images[container.image], images[tag])
<1> DEFINE body == CreateBody(seen, v)
           new  == Created(body, v)
           old  == images[container.image]
           asked == IF v >= apiEndpointMAC THEN body.endpointMAC ELSE body.configMAC
<1>0. /\ own \in Owns /\ docker \in Offers /\ container \in Containers /\ tag \in Images
      /\ old \in Defaults /\ images[tag] \in Defaults /\ Itself(container)
  BY DEF SwapParts, TypeOK, ApiTypeOK, Containers, IdentityInv
<1>1. /\ seen.id = container.id /\ seen.image = container.image
      /\ seen.settings = container.settings /\ seen.hostname = container.hostname
      /\ seen.aliases \ (IF seen.version < apiAliasesWithoutID THEN {seen.id} ELSE {}) \subseteq {Given}
      /\ MacAddress(seen) \in Addresses \ {FromIP}
      /\ own.mac => MacAddress(seen) = Given
  BY DEF SwapParts, SeenInv
<1>2. /\ body.settings = WithoutImageDefaults(container.settings, old)
      /\ body.hostname = Hostname(seen) /\ body.aliases = Aliases(seen, v)
      /\ body.endpointMAC = IF v >= apiEndpointMAC
                            THEN (IF own.shares THEN Unset ELSE MacAddress(seen)) ELSE Unset
      /\ body.configMAC = IF v < apiEndpointMAC
                          THEN (IF own.shares THEN Unset ELSE MacAddress(seen)) ELSE Unset
  BY <1>1 DEF CreateBody
<1>3. asked = IF own.shares THEN Unset ELSE MacAddress(seen)
  <2>1. v >= apiEndpointMAC \/ v < apiEndpointMAC
    BY DEF apiEndpointMAC
  <2>2. ~(v >= apiEndpointMAC /\ v < apiEndpointMAC)
    BY DEF apiEndpointMAC
  <2> HIDE DEF body
  <2> QED BY <1>2, <2>1, <2>2
<1>4. body.aliases \subseteq {Given}
  BY <1>1, <1>2 DEF Aliases
<1>5. body.hostname \in {Unset, Given, Theirs}
  BY <1>0, <1>1, <1>2 DEF Hostname, OverriddenHostname, Itself
<1>6. own.named => body.hostname = Given
  BY <1>0, <1>1, <1>2, OwnTypes, ValuesAssumption
     DEF Hostname, OverriddenHostname, Itself, Containers
<1> HIDE DEF body, asked
<1>7. /\ new.id = FreshId /\ new.image = tag
      /\ new.settings = Filled(body.settings, images[tag])
      /\ new.hostname = IF own.shares THEN Theirs ELSE Or(body.hostname, FreshId)
      /\ new.aliases = body.aliases
      /\ new.mac = asked /\ new.ownMAC = Address(asked, docker)
      /\ new.extra = Unset /\ new.extraMAC = Address(Unset, docker)
      /\ new = [id |-> new.id, image |-> new.image, settings |-> new.settings,
                hostname |-> new.hostname, aliases |-> new.aliases, mac |-> new.mac,
                ownMAC |-> new.ownMAC, extra |-> new.extra, extraMAC |-> new.extraMAC]
  BY DEF Created, asked
<1> HIDE DEF new
<1>8. new.settings = Recreated(container.settings, old, images[tag]) /\ new.settings \in Defaults
  <2>1. container.settings \in Defaults /\ own.published \in BOOLEAN
    BY <1>0, OwnTypes DEF Containers
  <2> QED BY <1>0, <1>2, <1>7, <2>1, WithoutFields, FilledFields DEF Recreated
<1>9. asked \in Addresses \ {FromIP} /\ Unset \in Addresses \ {FromIP}
  BY <1>1, <1>3, ValuesAssumption DEF Addresses
<1>10. FreshId \in Ids
  BY <1>0, FreshIsAnId
<1>11. new.hostname \in {FreshId, Given, Theirs} /\ (own.named => new.hostname = Given)
  BY <1>0, <1>5, <1>6, <1>7, OwnTypes, ValuesAssumption DEF Or
<1>12. new \in Containers
  <2>1. new.hostname \in Names /\ new.aliases \in SUBSET Names
    BY <1>4, <1>7, <1>10, <1>11 DEF Names
  <2>2. Address(asked, docker) \in Addresses /\ Address(Unset, docker) \in Addresses
    BY <1>9, AddressType
  <2> QED BY <1>0, <1>7, <1>8, <1>9, <1>10, <2>1, <2>2 DEF Containers
<1>13. own.mac => new.mac = Given
  BY <1>0, <1>1, <1>3, <1>7, OwnTypes
<1>14. Itself(new)
  BY <1>4, <1>7, <1>9, <1>11, <1>13 DEF Itself
<1> QED BY <1>7, <1>8, <1>12, <1>14 DEF new, body, old

LEMMA CreateStep ==
  ASSUME SwapParts, BodyInv, ApiTypeOK', CreateAnswered
  PROVE  SwapParts'
<1> DEFINE body == CreateBody(seen, call[Pass].body)
<1>1. /\ step = "create" /\ Answered(Pass) /\ UNCHANGED <<fixed, tag>> /\ UNCHANGED docker
      /\ IF Takes(body, call[Pass].in)
         THEN /\ made' = Created(body, call[Pass].in)
              /\ step' = IF own.shares THEN "gate" ELSE "connect"
              /\ UNCHANGED <<container, agreed, seen>>
         ELSE Idle
  BY DEF CreateAnswered, Answered
<1>2. call[Pass].in \in Nat /\ call[Pass].body = call[Pass].in
  BY <1>1, PassAssumption, VersionTypes
     DEF Answered, SwapParts, TypeOK, ApiTypeOK, ApiCalls, BodyInv
<1>3. CASE ~Takes(body, call[Pass].in)
  BY <1>1, <1>3, SwapIdle
<1>4. CASE Takes(body, call[Pass].in)
  <2>1. /\ made' \in Containers /\ Itself(made') /\ made'.image = tag
        /\ made'.settings = Recreated(container.settings, images[container.image], images[tag])
    BY <1>1, <1>2, <1>4, CreatedIs
  <2> HIDE DEF body
  <2>2. step' \in {"connect", "gate"} /\ UNCHANGED <<container, agreed, seen>>
    BY <1>1, <1>4
  <2>3. UNCHANGED <<images, own, aspect, tag, docker>>
    BY <1>1 DEF fixed
  <2>4. TypeOK'
    BY <2>1, <2>2, <2>3 DEF SwapParts, TypeOK, Owns, PlainDefaults
  <2>5. SettingsInv'
    BY <2>2, <2>3 DEF SwapParts, SettingsInv, Owned, CommandOwned
  <2>6. MadeInv'
    BY <2>1, <2>2, <2>3 DEF MadeInv, Recreated, WithoutImageDefaults
  <2>7. IdentityInv'
    BY <2>1, <2>2, <2>3 DEF SwapParts, IdentityInv, Itself
  <2>8. SeenInv'
    BY <1>1, <2>2, <2>3 DEF SwapParts, SeenInv
  <2> QED BY <2>4, <2>5, <2>6, <2>7, <2>8 DEF SwapParts
<1> QED BY <1>3, <1>4

LEMMA ConnectStep ==
  ASSUME SwapParts, ApiTypeOK', ConnectAnswered
  PROVE  SwapParts'
<1>1. /\ step = "connect" /\ UNCHANGED <<fixed, tag, container, agreed, seen>> /\ UNCHANGED docker
      /\ made' = Connected(made, ConnectMAC(seen, call[Pass].body), call[Pass].in)
      /\ step' = "gate"
  BY DEF ConnectAnswered, Answered
<1> DEFINE asked == IF call[Pass].in >= apiConnectMAC THEN ConnectMAC(seen, call[Pass].body) ELSE Unset
<1>2. asked \in Addresses \ {FromIP}
  BY <1>1, ValuesAssumption DEF SwapParts, SeenInv, ConnectMAC, Addresses
<1>3. made' = [made EXCEPT !.extra = asked, !.extraMAC = Address(asked, docker)]
  BY <1>1 DEF Connected
<1> HIDE DEF asked
<1>4. made \in Containers /\ Itself(made)
  BY DEF SwapParts, TypeOK, IdentityInv
<1>5. Address(asked, docker) \in Addresses
  BY <1>2, AddressType
<1>6. /\ made' \in Containers /\ made'.image = made.image /\ made'.settings = made.settings
      /\ made'.id = made.id /\ made'.hostname = made.hostname /\ made'.aliases = made.aliases
      /\ made'.mac = made.mac /\ made'.ownMAC = made.ownMAC
      /\ made'.extra = asked /\ made'.extraMAC = Address(asked, docker)
  BY <1>2, <1>3, <1>4, <1>5 DEF Containers
<1>7. Itself(made')
  BY <1>2, <1>4, <1>6 DEF Itself
<1>8. UNCHANGED <<images, own, aspect>>
  BY <1>1 DEF fixed
<1>9. TypeOK'
  BY <1>1, <1>6, <1>8 DEF SwapParts, TypeOK, Owns, PlainDefaults
<1>10. SettingsInv'
  BY <1>1, <1>8 DEF SwapParts, SettingsInv, Owned, CommandOwned
<1>11. MadeInv'
  BY <1>1, <1>6, <1>8 DEF SwapParts, MadeInv, Recreated, WithoutImageDefaults
<1>12. IdentityInv'
  BY <1>1, <1>7, <1>8 DEF SwapParts, IdentityInv, Itself
<1>13. SeenInv'
  BY <1>1 DEF SeenInv
<1> QED BY <1>9, <1>10, <1>11, <1>12, <1>13 DEF SwapParts

\* The new container is the container from here on, and all it was made to be.
LEMMA CommitStep ==
  ASSUME SwapParts, Commit
  PROVE  SwapParts'
<1>1. /\ step = "gate" /\ container' = made /\ made' = made /\ step' = "inspect"
      /\ agreed' = (agreed \/ images[made.image].entry = own.settings.entry)
      /\ UNCHANGED <<apiVars, fixed, tag>>
  BY DEF Commit
<1>2. UNCHANGED <<images, own, aspect, docker, version, call>>
  BY <1>1 DEF fixed, apiVars
<1> DEFINE old == images[container.image]
           new == images[made.image]
<1>3. /\ old \in Defaults /\ new \in Defaults /\ container.settings \in Defaults
      /\ made \in Containers /\ own \in Owns /\ Itself(made)
  BY DEF SwapParts, TypeOK, Containers, IdentityInv
<1>4. made.settings = Recreated(container.settings, old, new)
  BY <1>1 DEF SwapParts, MadeInv
<1>5. /\ Owned(container.settings, old)
      /\ ~agreed => old.entry # own.settings.entry
      /\ own.settings.entry # Unset /\ ~agreed => container.settings.entry = own.settings.entry
  BY DEF SwapParts, SettingsInv
<1>6. /\ Owned(made.settings, new)
      /\ own.settings.entry # Unset /\ ~agreed => made.settings.entry = own.settings.entry
  BY <1>3, <1>4, <1>5, OwnTypes, RecreatedOwned
<1>7. TypeOK'
  BY <1>1, <1>2, <1>3 DEF SwapParts, TypeOK, ApiTypeOK, Owns, PlainDefaults
<1>8. SettingsInv'
  BY <1>1, <1>2, <1>6 DEF SettingsInv, Owned, CommandOwned
<1>9. MadeInv'
  BY <1>1 DEF MadeInv
<1>10. IdentityInv'
  BY <1>1, <1>2, <1>3 DEF IdentityInv, Itself
<1>11. SeenInv'
  BY <1>1 DEF SeenInv
<1> QED BY <1>7, <1>8, <1>9, <1>10, <1>11 DEF SwapParts

\* A container Docker restarts differs in the addresses it picks.
LEMMA RestartedIs ==
  ASSUME NEW c \in Containers, NEW d
  PROVE  LET new == Restarted(c, d)
         IN  /\ new \in Containers /\ new.id = c.id /\ new.image = c.image
             /\ new.settings = c.settings /\ new.hostname = c.hostname
             /\ new.aliases = c.aliases /\ new.mac = c.mac /\ new.extra = c.extra
             /\ new.ownMAC = Address(c.mac, d) /\ new.extraMAC = Address(c.extra, d)
<1>1. c.mac \in Addresses /\ c.extra \in Addresses
  BY DEF Containers
<1>2. Address(c.mac, d) \in Addresses /\ Address(c.extra, d) \in Addresses
  BY <1>1, AddressType
<1> QED BY <1>2 DEF Restarted, Containers

LEMMA ReplacedStep ==
  ASSUME SwapParts, ApiTypeOK', DockerReplaced
  PROVE  SwapParts'
<1>1. /\ container' = Restarted(container, docker') /\ made' = Restarted(made, docker')
      /\ UNCHANGED <<images, own, aspect, tag, agreed, step, seen>>
  BY DEF DockerReplaced, fixed
<1>2. container \in Containers /\ made \in Containers /\ Itself(container) /\ Itself(made)
  BY DEF SwapParts, TypeOK, IdentityInv
<1>3. /\ container' \in Containers /\ container'.id = container.id
      /\ container'.image = container.image /\ container'.settings = container.settings
      /\ container'.hostname = container.hostname
      /\ made' \in Containers /\ made'.image = made.image /\ made'.settings = made.settings
  BY <1>1, <1>2, RestartedIs
<1>4. TypeOK'
  BY <1>1, <1>3 DEF SwapParts, TypeOK, Owns, PlainDefaults
<1>5. SettingsInv'
  BY <1>1, <1>3 DEF SwapParts, SettingsInv, Owned, CommandOwned
<1>6. MadeInv'
  <2>1. made = container => made' = container'
    BY <1>1
  <2> QED BY <1>1, <1>3, <2>1 DEF SwapParts, MadeInv, Recreated, WithoutImageDefaults
<1>7. IdentityInv'
  <2>1. Itself(container)'
    BY <1>1, <1>2, RestartedIs DEF Itself
  <2>2. Itself(made)'
    BY <1>1, <1>2, RestartedIs DEF Itself
  <2> QED BY <2>1, <2>2 DEF IdentityInv
<1>8. SeenInv'
  BY <1>1, <1>3 DEF SwapParts, SeenInv
<1> QED BY <1>4, <1>5, <1>6, <1>7, <1>8 DEF SwapParts

LEMMA SwapStep == IInv /\ [Next]_vars => IInv'
<1> SUFFICES ASSUME IInv, [Next]_vars PROVE IInv'
  OBVIOUS
<1>0. SwapParts /\ BodyInv /\ NegotiationInv /\ ApiTypeOK
  BY DEF IInv, SwapParts, TypeOK
<1>1. ApiTypeOK' /\ BodyInv' /\ NegotiationInv'
  BY <1>0, StepIsTheClients, ApiTypeStep, NegotiationStep
<1>2. CASE PassBegins \/ PassStep \/ \E c \in Callers : Background(c)
  <2>1. UNCHANGED <<fixed, tag, container, agreed, swap>>
    BY <1>2 DEF PassBegins, PassStep, Background
  <2>2. docker' = docker
    BY <1>2 DEF PassBegins, PassStep, Background, ApiStep, Begin, Negotiate, NegotiateBlind, Refused,
                Forget, Answered, RefusedAgain, CallLost
  <2> QED BY <1>0, <1>1, <2>1, <2>2, SwapFrame DEF IInv, SwapParts, TypeOK
<1>3. CASE Inspected
  BY <1>0, <1>1, <1>3, InspectedStep DEF IInv
<1>4. CASE CreateAnswered
  BY <1>0, <1>1, <1>4, CreateStep DEF IInv
<1>5. CASE ConnectAnswered
  BY <1>0, <1>1, <1>5, ConnectStep DEF IInv
<1>6. CASE PassCallFails \/ Rollback
  <2>1. Idle /\ UNCHANGED <<fixed, tag, docker>>
    BY <1>6 DEF PassCallFails, Rollback, CallLost, RefusedAgain, apiVars
  <2> QED BY <1>0, <1>1, <2>1, SwapIdle DEF IInv
<1>7. CASE Commit
  BY <1>0, <1>1, <1>7, CommitStep DEF IInv
<1>8. CASE TagMoves
  BY <1>0, <1>1, <1>8, SwapFrame DEF IInv, TagMoves, apiVars, swap
<1>9. CASE DockerReplaced
  BY <1>0, <1>1, <1>9, ReplacedStep DEF IInv
<1>10. CASE UNCHANGED vars
  BY <1>0, <1>1, <1>10, SwapFrame DEF IInv, SwapParts, TypeOK, vars, apiVars, fixed, swap
<1> QED BY <1>2, <1>3, <1>4, <1>5, <1>6, <1>7, <1>8, <1>9, <1>10 DEF Next

LEMMA SwapInit == Init => IInv
<1> SUFFICES ASSUME Init PROVE IInv
  OBVIOUS
<1>1. /\ own \in Owns /\ tag \in Images /\ docker \in Offers /\ step = "inspect" /\ made = container
      /\ images \in [Images -> PlainDefaults] /\ version = 0 /\ call = [c \in Callers |-> NoCall]
      /\ agreed = (images[tag].entry = own.settings.entry)
  BY DEF Init, ApiInit, NotMade
<1>2. images \in [Images -> Defaults]
  <2>1. NoDefaults \in Defaults
    BY DEF NoDefaults, Defaults
  <2>2. PlainDefaults \subseteq Defaults
    BY <2>1 DEF PlainDefaults
  <2> QED BY <1>1, <2>2
<1>3. /\ container.id = "c1" /\ container.image = tag
      /\ container.settings = Filled(own.settings, images[tag])
      /\ container.hostname = IF own.shares THEN Theirs ELSE IF own.named THEN Given ELSE "c1"
      /\ container.aliases = {}
      /\ container.mac = Asked(own.mac) /\ container.ownMAC = Address(Asked(own.mac), docker)
      /\ container.extra = Asked(own.extra) /\ container.extraMAC = Address(Asked(own.extra), docker)
      /\ container = [id |-> container.id, image |-> container.image,
                      settings |-> container.settings, hostname |-> container.hostname,
                      aliases |-> container.aliases, mac |-> container.mac,
                      ownMAC |-> container.ownMAC, extra |-> container.extra,
                      extraMAC |-> container.extraMAC]
  BY DEF Init
<1>4. Asked(own.mac) \in Addresses \ {FromIP} /\ Asked(own.extra) \in Addresses \ {FromIP}
  BY ValuesAssumption DEF Asked, Addresses
<1>5. container \in Containers
  <2>1. container.settings \in Defaults
    BY <1>1, <1>2, <1>3, OwnTypes, FilledFields
  <2>2. container.hostname \in Names /\ container.id \in Ids
    BY <1>3 DEF Names, Ids
  <2>3. container.ownMAC \in Addresses /\ container.extraMAC \in Addresses
    BY <1>3, <1>4, AddressType
  <2> QED BY <1>1, <1>3, <1>4, <2>1, <2>2, <2>3 DEF Containers
<1>6. ApiTypeOK
  BY <1>1, VersionTypes DEF ApiTypeOK, NoCall, ApiCalls
<1>7. TypeOK
  BY <1>1, <1>2, <1>5, <1>6 DEF TypeOK
<1>8. SettingsInv
  <2>1. Owned(container.settings, images[tag])
    BY <1>1, <1>2, <1>3, OwnTypes, FilledOwned
  <2>2. own.settings.entry # Unset => container.settings.entry = own.settings.entry
    BY <1>1, <1>2, <1>3, OwnTypes, FilledFields DEF Or
  <2> QED BY <1>1, <1>3, <2>1, <2>2 DEF SettingsInv
<1>9. IdentityInv
  <2>1. own.named => container.hostname = Given
    BY <1>1, <1>3, OwnTypes
  <2>2. own.mac => container.mac = Given
    BY <1>3 DEF Asked
  <2> QED BY <1>1, <1>3, <1>4, <2>1, <2>2 DEF IdentityInv, Itself
<1>10. MadeInv /\ SeenInv /\ BodyInv
  BY <1>1 DEF MadeInv, SeenInv, BodyInv, NoCall
<1> QED BY <1>7, <1>8, <1>9, <1>10, NegotiationInit DEF IInv, SwapParts

\* The inductive invariant holds throughout.
THEOREM RecreateInvariantHolds == Spec => []IInv
BY SwapInit, SwapStep, PTL DEF Spec

\* Every variable keeps its type, the versions spoken and built for included.
THEOREM TypeCorrect == Spec => []TypeOK
<1>1. IInv => TypeOK
  BY DEF IInv, SwapParts
<1> QED BY <1>1, RecreateInvariantHolds, PTL

(***************************************************************************)
(* Each setting is the user's own or the current image's, and what the     *)
(* user set stays, however many images the container has been on.          *)
(***************************************************************************)
THEOREM EachSettingAlwaysHasItsOwner == Spec => []EachSettingHasItsOwner
<1>1. IInv => EachSettingHasItsOwner
  <2> SUFFICES ASSUME IInv PROVE EachSettingHasItsOwner
    OBVIOUS
  <2>1. /\ Owned(container.settings, images[container.image])
        /\ own.settings.entry # Unset /\ ~agreed => container.settings.entry = own.settings.entry
        /\ Itself(container)
    BY DEF IInv, SwapParts, SettingsInv, IdentityInv
  <2>2. /\ container.settings.port \in BOOLEAN /\ images[container.image].port \in BOOLEAN
        /\ own.published \in BOOLEAN /\ own.settings.port \in BOOLEAN
    BY OwnTypes DEF IInv, SwapParts, TypeOK, Containers, Defaults
  <2> DEFINE now == container.settings
             image == images[container.image]
             mine == own.settings
  <2>3. now.port = (image.port \/ own.published) \/ (mine.port /\ now.port)
    BY <2>1, <2>2 DEF Owned
  <2> QED BY <2>1, <2>3 DEF EachSettingHasItsOwner, Owned, CommandOwned, Itself
<1> QED BY <1>1, RecreateInvariantHolds, PTL

(***************************************************************************)
(* No container is named or addressed after one it replaced, whatever      *)
(* versions it was read and created in.                                    *)
(***************************************************************************)
THEOREM IdentityIsAlwaysItsOwn == Spec => []IdentityIsItsOwn
<1>1. IInv => IdentityIsItsOwn
  BY DEF IInv, SwapParts, IdentityInv, Itself, IdentityIsItsOwn
<1> QED BY <1>1, RecreateInvariantHolds, PTL

(***************************************************************************)
(* A container's command is what a fresh run would get of settings that    *)
(* explain the old container too: those the recreate left.                 *)
(***************************************************************************)
THEOREM CommandIsAlwaysAFreshRuns == Spec => CommandIsAFreshRuns
<1>1. ASSUME IInv, [Next]_vars, step = "gate", container' # container
      PROVE  \E e \in Lists \cup {Unset, Nothing}, k \in Commands \cup {Unset} :
                LET s == [entrypoint |-> e, cmd |-> k]
                IN  /\ Explains(s, images[container.image], container)
                    /\ Explains(s, images[container'.image], container')
  <2> DEFINE old == images[container.image]
             left == WithoutImageDefaults(container.settings, old)
             s == [entrypoint |-> left.entrypoint, cmd |-> left.cmd]
  <2>1. /\ container \in Containers /\ made \in Containers /\ old \in Defaults
        /\ images[made.image] \in Defaults /\ Owned(container.settings, old)
        /\ own.published \in BOOLEAN /\ Itself(container)
    BY <1>1, OwnTypes DEF IInv, SwapParts, TypeOK, Containers, SettingsInv, IdentityInv
  <2>2. left \in Defaults
    BY <2>1, WithoutFields DEF Containers
  <2>3. s.entrypoint \in Lists \cup {Unset, Nothing} /\ s.cmd \in Commands \cup {Unset}
    BY <2>2 DEF Defaults
  <2>4. ASSUME NEW image PROVE FilledCommand(s, image) = FilledCommand(left, image)
    BY DEF FilledCommand
  <2>5. FilledCommand(s, old)
          = [entrypoint |-> container.settings.entrypoint, cmd |-> container.settings.cmd]
    BY <2>1, <2>4, LeftExplains DEF Containers
  <2>6. CASE Commit
    <3>1. container' = made /\ made.settings = Filled(left, images[made.image])
      BY <1>1, <2>6 DEF Commit, IInv, SwapParts, MadeInv, Recreated
    <3>2. FilledCommand(left, images[made.image])
            = [entrypoint |-> made.settings.entrypoint, cmd |-> made.settings.cmd]
      BY <3>1 DEF Filled, FilledCommand
    <3> QED BY <2>3, <2>4, <2>5, <3>1, <3>2 DEF Explains
  <2>7. CASE DockerReplaced
    <3>1. container'.settings = container.settings /\ container'.image = container.image
      BY <2>1, <2>7, RestartedIs DEF DockerReplaced, fixed
    <3> QED BY <2>3, <2>5, <3>1 DEF Explains
  <2>8. CASE ~Commit /\ ~DockerReplaced
    <3>1. container' = container
      BY <1>1, <2>8
         DEF Next, PassBegins, PassStep, Background, Inspected, CreateAnswered, ConnectAnswered,
             PassCallFails, Rollback, TagMoves, Idle, vars
    <3> QED BY <1>1, <3>1
  <2> QED BY <2>6, <2>7, <2>8
<1>2. IInv /\ [Next]_vars
      => [step = "gate" /\ container' # container =>
            \E e \in Lists \cup {Unset, Nothing}, k \in Commands \cup {Unset} :
               LET s == [entrypoint |-> e, cmd |-> k]
               IN  /\ Explains(s, images[container.image], container)
                   /\ Explains(s, images[container'.image], container')]_vars
  BY <1>1
<1> QED BY <1>2, RecreateInvariantHolds, PTL DEF Spec, CommandIsAFreshRuns

(***************************************************************************)
(* Docker never refuses a create for what is in it: the body is built for  *)
(* the version it is sent in, however often that was negotiated.           *)
(***************************************************************************)
THEOREM CreateIsAlwaysTaken == Spec => CreateIsTaken
<1>1. ASSUME IInv, [Next]_vars, step = "create", call[Pass].pc = "send", Accepts(call[Pass].in),
             step' = "inspect", spent' = spent
      PROVE  FALSE
  <2>1. spent \in [upgrades : Nat, faults : Nat] /\ call[Pass].in \in Nat
        /\ call[Pass].body = call[Pass].in
    BY <1>1, PassAssumption, VersionTypes
       DEF IInv, SwapParts, TypeOK, ApiTypeOK, ApiCalls, NegotiationInv, BodyInv
  <2>2. ~PassCallFails
    BY <1>1, <2>1 DEF PassCallFails, CallLost, Fault, RefusedAgain
  <2>3. ~CreateAnswered
    <3>1. SUFFICES ASSUME CreateAnswered PROVE FALSE
      OBVIOUS
    <3> DEFINE body == CreateBody(seen, call[Pass].body)
    <3>2. own.shares => body.hostname = Unset
      BY DEF CreateBody, Hostname
    <3>3. call[Pass].in >= apiInspectEndpointMAC => body.configMAC = Unset
      BY <2>1 DEF CreateBody, apiInspectEndpointMAC, apiEndpointMAC
    <3>4. Takes(body, call[Pass].in)
      BY <3>2, <3>3 DEF Takes
    <3> QED BY <1>1, <3>1, <3>4 DEF CreateAnswered
  <2> QED BY <1>1, <2>2, <2>3
          DEF Next, PassBegins, PassStep, Background, Inspected, ConnectAnswered, Commit, Rollback,
              TagMoves, DockerReplaced, swap, vars
<1>2. IInv /\ [Next]_vars
      => [step = "create" /\ call[Pass].pc = "send" /\ Accepts(call[Pass].in)
            => step' # "inspect" \/ spent' # spent]_vars
  BY <1>1
<1> QED BY <1>2, RecreateInvariantHolds, PTL DEF Spec, CreateIsTaken

=============================================================================
