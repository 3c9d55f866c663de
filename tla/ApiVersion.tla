----------------------------- MODULE ApiVersion -----------------------------
(***************************************************************************)
(* The version negotiation of the Docker client (src/internal/docker,      *)
(* client.go and version.go): concurrent callers of one client share the   *)
(* version it speaks, and Docker is upgraded or downgraded under it.       *)
(*                                                                         *)
(* A version 1.x is the number x; 0 is "not known yet".  Negotiating holds *)
(* the client's lock throughout, so it is one step; sending a request and  *)
(* forgetting a version are others.                                        *)
(* Bounds: MaxUpgrades changes of Docker, MaxFaults failing calls.         *)
(***************************************************************************)
EXTENDS Naturals

CONSTANTS
    Callers,     \* what calls Docker: a pass, its background pulls
    Offers,      \* the ranges of versions the Dockers of the model accept
    NewestAPI,   \* the newest version this client asks for
    MaxUpgrades, MaxFaults

ASSUME OffersAssumption ==
    \A offer \in Offers : /\ offer.oldest \in Nat /\ offer.newest \in Nat \ {0}
                          /\ offer.oldest <= offer.newest
ASSUME ApiBounds == NewestAPI \in Nat \ {0} /\ MaxUpgrades \in Nat /\ MaxFaults \in Nat

VARIABLES
    docker,      \* what Docker offers now
    version,     \* the version the client speaks
    call,        \* each caller's call
    spent        \* how much of each bound has been used

apiVars == <<docker, version, call, spent>>

-----------------------------------------------------------------------------

ApiVersions == {0, NewestAPI} \cup {o.oldest : o \in Offers} \cup {o.newest : o \in Offers}

\* disturbed: Docker changed, or could not say its versions, during the call.
ApiCalls == [pc : {"idle", "negotiate", "send", "forget"}, in : ApiVersions,
             body : ApiVersions, again : BOOLEAN, disturbed : BOOLEAN]
NoCall == [pc |-> "idle", in |-> 0, body |-> 0, again |-> FALSE, disturbed |-> FALSE]

\* The daemon's newest, capped at NewestAPI, and never below its oldest.
Choose(offer) ==
    LET capped == IF offer.newest > NewestAPI THEN NewestAPI ELSE offer.newest
    IN  IF capped < offer.oldest THEN offer.oldest ELSE capped

Accepts(v) == docker.oldest <= v /\ v <= docker.newest

Fault == /\ spent.faults < MaxFaults
         /\ spent' = [spent EXCEPT !.faults = @ + 1]

Disturbed == [c \in Callers |-> [call[c] EXCEPT !.disturbed = @ \/ call[c].pc # "idle"]]

-----------------------------------------------------------------------------
(* One call.                                                               *)

Begin(c) ==
    /\ call[c].pc = "idle"
    /\ call' = [call EXCEPT ![c] = [NoCall EXCEPT !.pc = "negotiate"]]
    /\ UNCHANGED <<docker, version, spent>>

\* Mutant: the body built for the first attempt is sent in the second.
EncodedOnce(c, v) == IF call[c].again THEN call[c].body ELSE v
\* A body is built anew for the version of each attempt.
Encoded(c, v) == v

Sending(c, calls, v) ==
    [calls EXCEPT ![c].pc = "send", ![c].in = v, ![c].body = Encoded(c, v)]

(***************************************************************************)
(* The version known is spoken, or Docker is asked; one that cannot say is *)
(* spoken to in the newest.                                                *)
(***************************************************************************)
Negotiate(c) ==
    /\ call[c].pc = "negotiate"
    /\ version' = IF version = 0 THEN Choose(docker) ELSE version
    /\ call' = Sending(c, call, version')
    /\ UNCHANGED <<docker, spent>>

NegotiateBlind(c) ==
    /\ call[c].pc = "negotiate" /\ version = 0 /\ Fault
    /\ version' = NewestAPI
    /\ call' = Sending(c, Disturbed, NewestAPI)
    /\ UNCHANGED docker

\* Docker takes the version: the call is answered.
Answered(c) ==
    /\ call[c].pc = "send" /\ Accepts(call[c].in)
    /\ call' = [call EXCEPT ![c] = NoCall]
    /\ UNCHANGED <<docker, version, spent>>

\* It does not, twice: the call fails.
RefusedAgain(c) ==
    /\ call[c].pc = "send" /\ ~Accepts(call[c].in) /\ call[c].again
    /\ call' = [call EXCEPT ![c] = NoCall]
    /\ UNCHANGED <<docker, version, spent>>

Refused(c) ==
    /\ call[c].pc = "send" /\ ~Accepts(call[c].in) /\ ~call[c].again
    /\ call' = [call EXCEPT ![c].pc = "forget"]
    /\ UNCHANGED <<docker, version, spent>>

\* Mutant: a refused version is asked again.
KeepVersion(v) == version
\* Mutant: the next version down is tried.
StepDown(v) == IF version = v THEN v - 1 ELSE version
\* Only the version refused is forgotten: another call may have negotiated since.
Remaining(v) == IF version = v THEN 0 ELSE version

Forget(c) ==
    /\ call[c].pc = "forget"
    /\ version' = Remaining(call[c].in)
    /\ call' = [call EXCEPT ![c].pc = "negotiate", ![c].again = TRUE]
    /\ UNCHANGED <<docker, spent>>

\* The call fails for another reason, its answer is lost, or its time is up
\* while Docker is asked what it speaks.
CallLost(c) ==
    /\ call[c].pc = "send" \/ (call[c].pc = "negotiate" /\ version = 0)
    /\ Fault
    /\ call' = [call EXCEPT ![c] = NoCall]
    /\ UNCHANGED <<docker, version>>

\* Docker is replaced by one that offers something else.
Upgrade ==
    /\ spent.upgrades < MaxUpgrades
    /\ docker' \in Offers \ {docker}
    /\ spent' = [spent EXCEPT !.upgrades = @ + 1]
    /\ call' = Disturbed
    /\ UNCHANGED version

ApiInit ==
    /\ docker \in Offers
    /\ version = 0
    /\ call = [c \in Callers |-> NoCall]

\* What a call's caller sees no answer of.
ApiStep(c) == NegotiateBlind(c) \/ Negotiate(c) \/ Refused(c) \/ Forget(c)

ApiTypeOK ==
    /\ docker \in Offers
    /\ version \in ApiVersions
    /\ call \in [Callers -> ApiCalls]

(***************************************************************************)
(* A call is refused for its version in the end only when Docker changed   *)
(* under it or could not say what it speaks: a version that went stale     *)
(* before the call began costs it nothing, however many calls are refused  *)
(* at once (client.go do, version.go forget).                              *)
(***************************************************************************)
RefusedOnlyWhenDisturbed ==
    [][\A c \in Callers :
         call[c].pc = "send" /\ call'[c].pc = "idle" /\ ~Accepts(call[c].in)
           => call[c].disturbed \/ spent' # spent]_apiVars

=============================================================================
