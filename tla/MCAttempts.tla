----------------------------- MODULE MCAttempts -----------------------------
(***************************************************************************)
(* What a request of POST /v1/responses goes through: the attempts, each   *)
(* with a key of the pool, and the stream of the one that is answered.     *)
(* The two share no state: a behaviour is of one, and the other stays as   *)
(* it began.                                                               *)
(***************************************************************************)
EXTENDS MCKeyPool

CONSTANTS CallIndexes, MaxDeltas

VARIABLES part, outputs, calls, wire, streamPhase, got

Response == INSTANCE ResponseStream WITH phase <- streamPhase

streamVars == <<outputs, calls, wire, streamPhase, got>>

InitAttempts == part \in {"keys", "stream"} /\ Init /\ Response!Init

NextAttempts ==
    \/ part = "keys" /\ Next /\ UNCHANGED <<part, streamVars>>
    \/ part = "stream" /\ Response!Next /\ UNCHANGED <<part, vars>>

SpecAttempts == InitAttempts /\ [][NextAttempts]_<<part, vars, streamVars>>

----------------------------------------------------------------------------
(* Every variable of the two modules has its type.                         *)
AttemptsTypeOK == TypeOK /\ Response!TypeOK

(* ResponseStream: one terminal event, the last, unless the client left.   *)
EndsOnce == Response!EndsOnce

(* ResponseStream: items are announced once, with their index, in order    *)
(* and before anything else is said of them.                               *)
AnnouncedInOrder == Response!AnnouncedInOrder

(* ResponseStream: deltas add up to the completed response.                *)
DeltasMakeTheResponse == Response!DeltasMakeTheResponse

(* ResponseStream: text and reasoning are whole, in one item each.         *)
NothingLost == Response!NothingLost
============================================================================
