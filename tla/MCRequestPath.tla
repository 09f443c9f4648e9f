--------------------------- MODULE MCRequestPath ---------------------------
(***************************************************************************)
(* What the steps on a request's path compute, one step for a behaviour:   *)
(* the key that is picked, the two conversions between wire formats, the   *)
(* replay of an earlier answer, the reading of a stream.  The steps share  *)
(* no state: the others stay as they began, with one choice of what they   *)
(* may begin with.                                                         *)
(***************************************************************************)
EXTENDS Integers, Sequences, FiniteSets, TLC

CONSTANTS
    MaxTurns, MaxCalls,                                         \* ConvertedChat
    Calls, NoCall, MaxEvents,                                   \* ConvertedStream
    CallIds, NoId, MaxAnswers, MaxItems, MaxOutputs,            \* HistoryReplay
    MaxRead,                                                    \* StreamReader
    Keys, Weight, Half, Levels, MaxPicks, MaxRecords, MaxSeconds  \* KeySelect

ASSUME RequestPathAssumption ==
    /\ {MaxTurns, MaxCalls, MaxEvents, MaxAnswers, MaxItems, MaxOutputs, MaxRead} \subseteq Nat
    /\ NoCall \notin Calls /\ NoId \notin CallIds
    /\ Keys \subseteq Nat /\ IsFiniteSet(Keys) /\ Weight \in [Keys -> Nat] /\ Levels \subseteq Nat
    /\ Half \in Nat \ {0} /\ {MaxPicks, MaxRecords} \subseteq Nat /\ MaxSeconds \in Nat \ {0}

Weights == <<2, 0, 3>>

(* No module tells one call from another.                                  *)
CallSymmetry == Permutations(Calls \cup CallIds)

VARIABLES
    part,
    client, prompt, talk, chatSent, stop, answers,
    streamClient, upstream, buf, st, wire, phase, read,
    family, turn, stored, asked, sent,
    readerUp, pending, state, readerPhase, deltas, readerSent,
    strategy, up, rrCounter, quota, now, pick, records, touched, served, taken

Chat == INSTANCE ConvertedChat WITH sent <- chatSent
Stream == INSTANCE ConvertedStream WITH client <- streamClient, up <- upstream
History == INSTANCE HistoryReplay WITH MaxTurns <- MaxAnswers
Reader == INSTANCE StreamReader
    WITH up <- readerUp, phase <- readerPhase, sent <- readerSent, MaxEvents <- MaxRead
Select == INSTANCE KeySelect

chatVars == <<client, prompt, talk, chatSent, stop, answers>>
streamVars == <<streamClient, upstream, buf, st, wire, phase, read>>
historyVars == <<family, turn, stored, asked, sent>>
readerVars == <<readerUp, pending, state, readerPhase, deltas, readerSent>>
selectVars == <<strategy, up, rrCounter, quota, now, pick, records, touched, served, taken>>

vars == <<part, chatVars, streamVars, historyVars, readerVars, selectVars>>

Init ==
    /\ part \in {"chat", "stream", "history", "reader", "select"}
    /\ Chat!Init /\ Stream!Init /\ History!Init /\ Reader!Init /\ Select!Init
    /\ part # "chat" => client = "openai" /\ prompt = "none"
    /\ part # "stream" => streamClient = "openai"
    /\ part # "history" => family = "openai"
    /\ part # "select" => strategy = "round_robin"

Next ==
    /\ UNCHANGED part
    /\ \/ /\ part = "chat" /\ Chat!Next
          /\ UNCHANGED <<streamVars, historyVars, readerVars, selectVars>>
       \/ /\ part = "stream" /\ Stream!Next
          /\ UNCHANGED <<chatVars, historyVars, readerVars, selectVars>>
       \/ /\ part = "history" /\ History!Next
          /\ UNCHANGED <<chatVars, streamVars, readerVars, selectVars>>
       \/ /\ part = "reader" /\ Reader!Next
          /\ UNCHANGED <<chatVars, streamVars, historyVars, selectVars>>
       \/ /\ part = "select" /\ Select!Next
          /\ UNCHANGED <<chatVars, streamVars, historyVars, readerVars>>

Spec == Init /\ [][Next]_vars

----------------------------------------------------------------------------
(* Every variable of the five modules has its type.                        *)
TypeOK == Chat!TypeOK /\ Stream!TypeOK /\ History!TypeOK /\ Reader!TypeOK /\ Select!TypeOK

(* ConvertedChat: what the two sides have said reaches the upstream in     *)
(* every request, in order, tools or no tools.                             *)
TextsKept == Chat!TextsKept

(* ConvertedChat: an OpenAI model gets its own answers back as it gave     *)
(* them, and before the next the result of every call, once and in order.  *)
AnswersComeBack == Chat!AnswersComeBack

(* ConvertedChat: of a conversation without tools an Anthropic model sees  *)
(* turns, and the user has the last word unless it only brought results.   *)
TakeTurns == Chat!TakeTurns

(* ConvertedChat: a client is told to run calls exactly when the model     *)
(* waits for results, and has then got all calls.                          *)
CallsAnnounced == Chat!CallsAnnounced

(* ConvertedStream: text and arguments reach the client piece by piece and *)
(* in order.                                                               *)
PiecesKept == Stream!PiecesKept

(* ConvertedStream: without calls an Anthropic client gets a message by    *)
(* its protocol, however far it gets.                                      *)
TextStreamsWellFormed == Stream!TextStreamsWellFormed

(* ConvertedStream: a client is told once, and behind the whole answer,    *)
(* why it ended, when and only when the upstream said so.                  *)
ReasonTold == Stream!ReasonTold

(* HistoryReplay: every call is answered in the messages right behind it.  *)
CallsAnsweredAtOnce == History!CallsAnsweredAtOnce

(* HistoryReplay: the request ends with the previous answer and, behind    *)
(* it, the input, both whole and in order.                                 *)
HistoryThenInput == History!HistoryThenInput

(* HistoryReplay: the result of the answer's last call, sent at once, has  *)
(* no placeholder beside it.                                               *)
LastCallNotDoubled == History!LastCallNotDoubled

(* StreamReader: events are read one by one and in order, and all of them  *)
(* if the body ends behind a line or in one with a field.                  *)
EventsRead == Reader!EventsRead

(* StreamReader: every fragment of a call names it, by index and by id.    *)
FragmentsNameTheirCall == Reader!FragmentsNameTheirCall

(* KeySelect: keys get their shares of any picks in a row, up to the edges *)
(* of the counter.                                                         *)
SharesFair == Select!SharesFair

(* KeySelect: a quota-aware Pick is misled only by snapshots that changed  *)
(* under it.                                                               *)
QuotaRespected == Select!QuotaRespected

----------------------------------------------------------------------------
(* What comments say and the code does not do: each has a run of its own.  *)

(* ConvertedChat: the results of calls come before any text of the user.   *)
ResultsFollowCalls == Chat!ResultsFollowCalls

(* HistoryReplay: no placeholder beside the results the client sent.       *)
NoDuplicatePlaceholder == History!NoDuplicatePlaceholder
============================================================================
