----------------------- MODULE ConversationChainProofs -----------------------
(***************************************************************************)
(* ListsStoredResponses is inductive together with the types: that the     *)
(* last response has the largest place is what makes the place of the next *)
(* one exist, and what bounds the places among which the collector looks   *)
(* for the new last one.                                                   *)
(***************************************************************************)
EXTENDS ConversationChain, TLAPS, WellFoundedInduction

(* A bounded function into the naturals takes its largest value.           *)
LEMMA LargestPlace ==
    ASSUME NEW place \in [Ids -> Nat], NEW n \in Nat, NEW i \in Ids,
           \A j \in Ids : place[j] <= n
    PROVE  \E k \in Ids : \A j \in Ids : place[j] <= place[k]
<1> DEFINE Gaps == {n - place[j] : j \in Ids}
<1>1. Gaps \subseteq Nat /\ Gaps # {}
  OBVIOUS
<1> HIDE DEF Gaps
<1>2. PICK g \in Gaps : \A h \in Gaps : ~(<<h, g>> \in OpToRel(<, Nat))
  BY <1>1, NatLessThanWellFounded, WFMin
<1>3. \A h \in Gaps : g <= h
  <2>1. \A x, y \in Nat : x < y => <<x, y>> \in OpToRel(<, Nat)
    BY Zenon DEF OpToRel
  <2>2. \A h \in Gaps : ~(h < g)
    BY <1>1, <1>2, <2>1, Zenon
  <2>3. QED
    BY <1>1, <2>2
<1>4. PICK k \in Ids : g = n - place[k]
  BY DEF Gaps
<1>5. \A j \in Ids : g <= n - place[j]
  BY <1>3 DEF Gaps
<1>6. QED
  BY <1>4, <1>5

----------------------------------------------------------------------------
(* What ListsStoredResponses says of one row, when `kept' is stored.       *)
SoundRow(row, kept) ==
    IF row.row
      THEN /\ row.last \in Ids
           /\ row.place[row.last] > 0
           /\ \A i \in Ids : row.place[i] > 0 =>
                /\ i \in kept
                /\ i # row.last => row.place[i] < row.place[row.last]
           /\ \A i, j \in Ids :
                row.place[i] > 0 /\ row.place[i] = row.place[j] => i = j
      ELSE row = NoRow

Stored == {i \in Ids : stored[i] # "none"}

LEMMA SoundRows ==
    ASSUME TypeOK
    PROVE  ListsStoredResponses <=> \A c \in Conversations : SoundRow(conv[c], Stored)
BY DEF TypeOK, ListsStoredResponses, SoundRow, Stored, Listed, Conversation

LEMMA NoRowOK == NoRow \in Conversation /\ \A kept : SoundRow(NoRow, kept)
BY DEF NoRow, Conversation, SoundRow

(* The row PutConversation inserts.                                        *)
FirstRow(i) == [row |-> TRUE, place |-> [NoRow.place EXCEPT ![i] = 1], last |-> i]

LEMMA FirstRowSound ==
    ASSUME NEW kept, NEW i \in kept \cap Ids
    PROVE  FirstRow(i) \in Conversation /\ SoundRow(FirstRow(i), kept)
BY DEF FirstRow, NoRow, Conversation, SoundRow

(* The row after an append at a place beyond the others.                   *)
LongerRow(row, i, n) == [row |-> TRUE, last |-> i, place |-> [row.place EXCEPT ![i] = n]]

LEMMA LongerRowSound ==
    ASSUME NEW kept, NEW row \in Conversation, SoundRow(row, kept), row.row,
           NEW i \in kept \cap Ids, row.place[i] = 0,
           NEW n \in Nat, \A j \in Ids : row.place[j] < n
    PROVE  LongerRow(row, i, n) \in Conversation /\ SoundRow(LongerRow(row, i, n), kept)
<1>1. LongerRow(row, i, n) \in Conversation
  BY DEF LongerRow, Conversation
<1>2. n > 0
  BY DEF Conversation
<1>3. QED
  BY <1>1, <1>2 DEF LongerRow, Conversation, SoundRow

(* There is a place beyond the others: the one after that of the last.     *)
LEMMA NextPlaceBeyond ==
    ASSUME TypeOK, NEW c \in Conversations, NEW kept, SoundRow(conv[c], kept), conv[c].row
    PROVE  NextPlace(c) \in Nat /\ \A j \in Ids : conv[c].place[j] < NextPlace(c)
<1> DEFINE place == conv[c].place
<1> DEFINE Places == {place[i] + 1 : i \in Ids}
<1>1. place \in [Ids -> Nat] /\ conv[c].last \in Ids
  BY DEF TypeOK, Conversation, SoundRow
<1>2. \A j \in Ids : place[j] < place[conv[c].last] + 1
  BY <1>1 DEF SoundRow
<1>3. place[conv[c].last] + 1 \in Places /\ Places \subseteq Nat
  BY <1>1
<1>4. \E n \in Places : \A j \in Ids : place[j] < n
  BY <1>2, <1>3
<1>5. NextPlace(c) \in Places /\ \A j \in Ids : place[j] < NextPlace(c)
  BY <1>4 DEF NextPlace
<1>6. QED
  BY <1>3, <1>5

(* What the collector leaves of a sound row is sound.                      *)
LEMMA WithoutSound ==
    ASSUME NEW kept, NEW row \in Conversation, SoundRow(row, kept), NEW gone
    PROVE  Without(row, gone) \in Conversation /\ SoundRow(Without(row, gone), kept \ gone)
<1> DEFINE place == [i \in Ids |-> IF i \in gone THEN 0 ELSE row.place[i]]
<1>1. place \in [Ids -> Nat] /\ row.place \in [Ids -> Nat]
  BY DEF Conversation
<1>2. CASE ~row.row \/ \A i \in Ids : place[i] = 0
  <2>1. Without(row, gone) = NoRow
    BY <1>2 DEF Without
  <2>2. QED
    BY <2>1, NoRowOK
<1>3. CASE row.row /\ \E i \in Ids : place[i] # 0
  <2> DEFINE new == [row |-> TRUE, place |-> place, last |-> Newest(place)]
  <2>1. Without(row, gone) = new
    BY <1>3 DEF Without
  <2>2. PICK i \in Ids : place[i] > 0
    BY <1>1, <1>3
  <2>3. \A j \in Ids : place[j] <= row.place[row.last]
    BY <1>1, <1>3 DEF SoundRow
  <2>4. \E k \in Ids : \A j \in Ids : place[j] <= place[k]
    <3>1. row.place[row.last] \in Nat
      BY <1>1, <1>3 DEF SoundRow
    <3> HIDE DEF place
    <3>2. QED
      BY <1>1, <2>3, <3>1, LargestPlace
  <2>5. Newest(place) \in Ids /\ \A j \in Ids : place[j] <= place[Newest(place)]
    <3> HIDE DEF place
    <3>1. QED
      BY <2>4 DEF Newest
  <2>6. place[Newest(place)] > 0
    <3> HIDE DEF place
    <3>1. place[i] <= place[Newest(place)] /\ place[i] \in Nat /\ place[Newest(place)] \in Nat
      BY <1>1, <2>5
    <3>2. QED
      BY <2>2, <3>1
  <2>7. \A j \in Ids : place[j] > 0 => j \in kept \ gone /\ place[j] = row.place[j]
    BY <1>3 DEF SoundRow
  <2>8. \A j, k \in Ids : place[j] > 0 /\ place[j] = place[k] => j = k
    BY <1>1, <1>3, <2>7 DEF SoundRow
  <2>9. new \in Conversation
    BY <1>1, <2>5 DEF Conversation
  <2>10. SoundRow(new, kept \ gone)
    <3> HIDE DEF place
    <3>1. \A j \in Ids : place[j] > 0 /\ j # Newest(place) => place[j] < place[Newest(place)]
      BY <1>1, <2>5, <2>8
    <3>2. QED
      BY <2>5, <2>6, <2>7, <2>8, <3>1 DEF SoundRow
  <2>11. QED
    BY <2>1, <2>9, <2>10
<1>4. QED
  BY <1>2, <1>3

----------------------------------------------------------------------------
ChainInv == TypeOK /\ ListsStoredResponses

LEMMA InitChainInv == Init => ChainInv
<1> SUFFICES ASSUME Init PROVE ChainInv
  OBVIOUS
<1>1. TypeOK
  BY NoRowOK DEF Init, TypeOK, Request, Idle, Phases, Recording
<1>2. ListsStoredResponses
  BY DEF Init, ListsStoredResponses, NoRow
<1>3. QED
  BY <1>1, <1>2 DEF ChainInv

(* The handlers' types, for a step that leaves the tables alone.           *)
LEMMA TablesUnchanged ==
    ASSUME ChainInv, UNCHANGED <<stored, conv>>,
           issued' \subseteq Ids, req' \in [Requests -> Request],
           \A r \in Requests :
             /\ req'[r].phase \in Recording => req'[r].id \in Ids
             /\ req'[r].phase \in (Recording \ {"put"}) \cup {"check"} =>
                  req'[r].conv \in Conversations
    PROVE  ChainInv'
BY DEF ChainInv, TypeOK, ListsStoredResponses, Listed

LEMMA IdleOK == Idle \in Request
BY DEF Idle, Request, Phases

LEMMA ResolveKeeps ==
    ASSUME ChainInv, NEW r \in Requests, NEW c \in Conversations \cup {NoConversation},
           NEW p \in issued \cup {NoId}, ResolveHistory(r, c, p)
    PROVE  ChainInv'
BY TablesUnchanged, ChainAssumption
   DEF ResolveHistory, ChainInv, TypeOK, Request, Phases, Recording

LEMMA CheckTailKeeps ==
    ASSUME ChainInv, NEW r \in Requests, CheckTail(r)
    PROVE  ChainInv'
BY TablesUnchanged, IdleOK
   DEF CheckTail, Go, Done, Idle, ChainInv, TypeOK, Request, Phases, Recording

LEMMA UpstreamKeeps ==
    ASSUME ChainInv, NEW r \in Requests, (\E i \in Ids : Answered(r, i)) \/ Unanswered(r)
    PROVE  ChainInv'
<1>1. ASSUME NEW i \in Ids, Answered(r, i) PROVE ChainInv'
  BY <1>1, TablesUnchanged DEF Answered, ChainInv, TypeOK, Request, Phases, Recording
<1>2. CASE Unanswered(r)
  BY <1>2, TablesUnchanged, IdleOK
     DEF Unanswered, Done, Idle, ChainInv, TypeOK, Request, Phases, Recording
<1>3. QED
  BY <1>1, <1>2

LEMMA ReadKeeps ==
    ASSUME ChainInv, NEW r \in Requests, ReadConversation(r)
    PROVE  ChainInv'
BY TablesUnchanged, IdleOK
   DEF ReadConversation, Go, Done, Idle, ChainInv, TypeOK, Request, Phases, Recording

LEMMA CrashKeeps ==
    ASSUME ChainInv, Crash
    PROVE  ChainInv'
BY TablesUnchanged, IdleOK DEF Crash, Idle, ChainInv, TypeOK, Request, Phases, Recording

----------------------------------------------------------------------------
(* The steps that write a table.                                           *)

LEMMA SoundRowsNext ==
    ASSUME TypeOK', \A c \in Conversations : SoundRow(conv'[c], Stored')
    PROVE  ListsStoredResponses'
BY DEF TypeOK, ListsStoredResponses, SoundRow, Stored, Listed, Conversation

(* More responses stored: every sound row stays sound.                     *)
LEMMA StoredMore ==
    ASSUME ChainInv, UNCHANGED conv, TypeOK', Stored \subseteq Stored'
    PROVE  ChainInv'
<1>1. \A c \in Conversations : SoundRow(conv[c], Stored)
  BY SoundRows DEF ChainInv
<1>2. \A c \in Conversations : SoundRow(conv'[c], Stored')
  BY <1>1 DEF SoundRow
<1>3. QED
  BY <1>2, SoundRowsNext DEF ChainInv

(* One row replaced by a sound one.                                        *)
LEMMA RowReplaced ==
    ASSUME ChainInv, TypeOK', UNCHANGED stored, NEW c \in Conversations, NEW row,
           SoundRow(row, Stored), conv' = [conv EXCEPT ![c] = row]
    PROVE  ChainInv'
<1>1. \A d \in Conversations : SoundRow(conv[d], Stored)
  BY SoundRows DEF ChainInv
<1>2. Stored' = Stored
  BY DEF Stored
<1>3. \A d \in Conversations : conv'[d] = IF d = c THEN row ELSE conv[d]
  BY DEF ChainInv, TypeOK
<1>4. \A d \in Conversations : SoundRow(conv'[d], Stored')
  BY <1>1, <1>2, <1>3
<1>5. QED
  BY <1>4, SoundRowsNext DEF ChainInv

LEMMA PutStateKeeps ==
    ASSUME ChainInv, NEW r \in Requests, PutResponseState(r)
    PROVE  ChainInv'
<1>1. req[r].id \in Ids
  BY DEF PutResponseState, ChainInv, TypeOK, Recording
<1>2. TypeOK'
  BY <1>1, IdleOK
     DEF PutResponseState, Go, Done, Idle, ChainInv, TypeOK, Request, Phases, Recording
<1>3. Stored \subseteq Stored'
  BY <1>1 DEF PutResponseState, ChainInv, TypeOK, Stored
<1>4. QED
  BY <1>2, <1>3, StoredMore DEF PutResponseState

(* An id that the foreign key admits is stored.                            *)
LEMMA Referenced ==
    ASSUME NEW i \in Ids, MayReference(i)
    PROVE  i \in Stored \cap Ids
BY DEF MayReference, Stored

(* The end of a request that recorded: its types.                          *)
LEMMA WriterDone ==
    ASSUME TypeOK, NEW r \in Requests, Done(r), UNCHANGED <<stored, issued>>,
           conv' \in [Conversations -> Conversation]
    PROVE  TypeOK'
BY IdleOK DEF Done, Idle, TypeOK, Request, Phases, Recording

LEMMA CreateKeeps ==
    ASSUME ChainInv, NEW r \in Requests, PutConversation(r)
    PROVE  ChainInv'
<1> DEFINE c == req[r].conv
<1> DEFINE i == req[r].id
<1>1. TypeOK /\ c \in Conversations /\ i \in Ids
  BY DEF PutConversation, ChainInv, TypeOK, Recording
<1>2. Done(r) /\ UNCHANGED <<stored, issued>>
  BY DEF PutConversation
<1>3. CASE UNCHANGED conv
  <2>1. TypeOK'
    BY <1>1, <1>2, <1>3, WriterDone DEF TypeOK
  <2>2. QED
    BY <1>2, <1>3, <2>1, StoredMore DEF Stored
<1>4. CASE MayReference(i) /\ conv' = [conv EXCEPT ![c] = FirstRow(i)]
  <2>1. FirstRow(i) \in Conversation /\ SoundRow(FirstRow(i), Stored)
    BY <1>1, <1>4, Referenced, FirstRowSound
  <2>2. TypeOK'
    BY <1>1, <1>2, <1>4, <2>1, WriterDone DEF TypeOK
  <2>3. QED
    BY <1>1, <1>2, <1>4, <2>1, <2>2, RowReplaced
<1>5. QED
  BY <1>3, <1>4 DEF PutConversation, FirstRow

LEMMA AppendKeeps ==
    ASSUME ChainInv, NEW r \in Requests, AppendConversationResponse(r)
    PROVE  ChainInv'
<1> DEFINE c == req[r].conv
<1> DEFINE i == req[r].id
<1> DEFINE row == LongerRow(conv[c], i, NextPlace(c))
<1>1. TypeOK /\ c \in Conversations /\ i \in Ids
  BY DEF AppendConversationResponse, ChainInv, TypeOK, Recording
<1>2. Done(r) /\ UNCHANGED <<stored, issued>>
  BY DEF AppendConversationResponse
<1>3. CASE UNCHANGED conv
  <2>1. TypeOK'
    BY <1>1, <1>2, <1>3, WriterDone DEF TypeOK
  <2>2. QED
    BY <1>2, <1>3, <2>1, StoredMore DEF Stored
<1>4. CASE /\ conv[c].row /\ i \notin Listed(c) /\ MayReference(i)
           /\ conv' = [conv EXCEPT ![c] = row]
  <2>1. conv[c] \in Conversation /\ SoundRow(conv[c], Stored)
    BY <1>1, SoundRows DEF ChainInv, TypeOK
  <2>2. NextPlace(c) \in Nat /\ \A j \in Ids : conv[c].place[j] < NextPlace(c)
    BY <1>1, <1>4, <2>1, NextPlaceBeyond
  <2>3. conv[c].place[i] = 0
    BY <1>1, <1>4, <2>1 DEF Listed, Conversation
  <2>4. row \in Conversation /\ SoundRow(row, Stored)
    BY <1>1, <1>4, <2>1, <2>2, <2>3, Referenced, LongerRowSound
  <2>5. TypeOK'
    BY <1>1, <1>2, <1>4, <2>4, WriterDone DEF TypeOK
  <2>6. QED
    BY <1>1, <1>2, <1>4, <2>4, <2>5, RowReplaced
<1>5. QED
  BY <1>3, <1>4 DEF AppendConversationResponse, LongerRow

LEMMA ExpireKeeps ==
    ASSUME ChainInv, NEW i \in Ids, Expire(i)
    PROVE  ChainInv'
<1>1. TypeOK'
  BY DEF Expire, ChainInv, TypeOK
<1>2. Stored \subseteq Stored'
  BY DEF Expire, ChainInv, TypeOK, Stored
<1>3. QED
  BY <1>1, <1>2, StoredMore DEF Expire

LEMMA CollectorKeeps ==
    ASSUME ChainInv, ResponseStateGC
    PROVE  ChainInv'
<1> DEFINE gone == {i \in Ids : stored[i] = "expired"}
<1>1. \A c \in Conversations : conv[c] \in Conversation /\ SoundRow(conv[c], Stored)
  BY SoundRows DEF ChainInv, TypeOK
<1>2. conv' = [c \in Conversations |-> Without(conv[c], gone)]
  BY DEF ResponseStateGC
<1>3. Stored' = Stored \ gone
  BY DEF ResponseStateGC, ChainInv, TypeOK, Stored
<1> HIDE DEF gone
<1>4. \A c \in Conversations : conv'[c] \in Conversation /\ SoundRow(conv'[c], Stored')
  BY <1>1, <1>2, <1>3, WithoutSound
<1>5. stored' \in [Ids -> {"none", "live", "expired"}] /\ UNCHANGED <<issued, req>>
  BY DEF ResponseStateGC, ChainInv, TypeOK
<1>6. TypeOK'
  BY <1>2, <1>4, <1>5 DEF ChainInv, TypeOK
<1>7. QED
  BY <1>4, <1>6, SoundRowsNext DEF ChainInv

LEMMA NextKeeps == ChainInv /\ [Next]_vars => ChainInv'
<1> SUFFICES ASSUME ChainInv, [Next]_vars PROVE ChainInv'
  OBVIOUS
<1>1. ASSUME NEW r \in Requests, RequestStep(r) PROVE ChainInv'
  BY <1>1, ResolveKeeps, CheckTailKeeps, UpstreamKeeps, PutStateKeeps, ReadKeeps,
     CreateKeeps, AppendKeeps DEF RequestStep
<1>2. ASSUME NEW i \in Ids, Expire(i) PROVE ChainInv'
  BY <1>2, ExpireKeeps
<1>3. CASE UNCHANGED vars
  BY <1>3 DEF vars, ChainInv, TypeOK, ListsStoredResponses, Listed
<1>4. QED
  BY <1>1, <1>2, <1>3, CollectorKeeps, CrashKeeps DEF Next

LEMMA ChainAlways == Spec => []ChainInv
BY InitChainInv, NextKeeps, PTL DEF Spec

(* The tables and the handlers keep their types.                           *)
THEOREM TypeCorrect == Spec => []TypeOK
<1>1. ChainInv => TypeOK
  BY DEF ChainInv
<1>2. QED
  BY <1>1, ChainAlways, PTL

(* However requests, failures, crashes and the collector interleave, a     *)
(* conversation lists stored responses, each once, and its last_response_id*)
(* is the last of them.                                                    *)
THEOREM ConversationsSound == Spec => []ListsStoredResponses
<1>1. ChainInv => ListsStoredResponses
  BY DEF ChainInv
<1>2. QED
  BY <1>1, ChainAlways, PTL

----------------------------------------------------------------------------
(* What leaves a list.                                                     *)
OnlyExpiredLeave ==
    \A c \in Conversations : \A i \in Listed(c) :
      conv'[c].place[i] = 0 => stored[i] = "expired"

LEMMA UnchangedLists ==
    ASSUME ChainInv, UNCHANGED conv
    PROVE  OnlyExpiredLeave
BY DEF OnlyExpiredLeave, ChainInv, TypeOK, Conversation, Listed

(* A conversation is created only where nothing was listed.                *)
LEMMA CreateLosesNothing ==
    ASSUME ChainInv, NEW r \in Requests, PutConversation(r)
    PROVE  OnlyExpiredLeave
<1> DEFINE c == req[r].conv
<1>1. CASE UNCHANGED conv
  BY <1>1, UnchangedLists
<1>2. CASE ~conv[c].row /\ conv' = [conv EXCEPT ![c] = FirstRow(req[r].id)]
  <2>1. \A d \in Conversations : d # c => conv'[d] = conv[d]
    BY <1>2 DEF ChainInv, TypeOK
  <2>2. c \in Conversations => conv[c] = NoRow
    BY <1>2 DEF ChainInv, ListsStoredResponses
  <2>3. c \in Conversations => Listed(c) = {}
    BY <2>2 DEF NoRow, Listed
  <2>4. SUFFICES ASSUME NEW d \in Conversations, NEW i \in Listed(d)
                 PROVE  conv'[d].place[i] # 0
    BY Zenon DEF OnlyExpiredLeave
  <2>5. conv'[d] = conv[d]
    BY <2>1, <2>3
  <2>6. QED
    BY <2>5 DEF Listed
<1>3. QED
  BY <1>1, <1>2 DEF PutConversation, FirstRow

(* An append moves no other id.                                            *)
LEMMA AppendLosesNothing ==
    ASSUME ChainInv, NEW r \in Requests, AppendConversationResponse(r)
    PROVE  OnlyExpiredLeave
<1> DEFINE c == req[r].conv
<1> DEFINE i == req[r].id
<1>1. CASE UNCHANGED conv
  BY <1>1, UnchangedLists
<1>2. CASE i \notin Listed(c) /\ conv' = [conv EXCEPT ![c] = LongerRow(conv[c], i, NextPlace(c))]
  <2>1. \A d \in Conversations : d # c => conv'[d] = conv[d]
    BY <1>2 DEF ChainInv, TypeOK
  <2>2. c \in Conversations => \A j \in Ids : j # i => conv'[c].place[j] = conv[c].place[j]
    BY <1>2 DEF ChainInv, TypeOK, Conversation, LongerRow
  <2>3. SUFFICES ASSUME NEW d \in Conversations, NEW j \in Listed(d)
                 PROVE  conv'[d].place[j] # 0
    BY Zenon DEF OnlyExpiredLeave
  <2>4. j \in Ids /\ conv[d].place[j] > 0 /\ (d = c => j # i)
    BY <1>2 DEF Listed
  <2>5. conv'[d].place[j] = conv[d].place[j]
    BY <2>1, <2>2, <2>4
  <2>6. QED
    BY <2>4, <2>5
<1>3. QED
  BY <1>1, <1>2 DEF AppendConversationResponse, LongerRow

LEMMA CollectorTakesExpired ==
    ASSUME ChainInv, ResponseStateGC
    PROVE  OnlyExpiredLeave
<1> DEFINE gone == {i \in Ids : stored[i] = "expired"}
<1> SUFFICES ASSUME NEW c \in Conversations, NEW i \in Listed(c), i \notin gone
             PROVE  conv'[c].place[i] # 0
  BY DEF OnlyExpiredLeave, Listed
<1> DEFINE place == [j \in Ids |-> IF j \in gone THEN 0 ELSE conv[c].place[j]]
<1>1. conv[c].row
  BY DEF ChainInv, ListsStoredResponses, Listed, NoRow
<1>2. i \in Ids /\ place[i] # 0
  BY DEF Listed
<1>3. conv'[c] = Without(conv[c], gone)
  BY DEF ResponseStateGC
<1>4. conv'[c].place = place
  BY <1>1, <1>2, <1>3 DEF Without
<1>5. QED
  BY <1>2, <1>4

LEMMA StepLosesNothing == ChainInv /\ [Next]_vars => OnlyExpiredLeave
<1> SUFFICES ASSUME ChainInv, [Next]_vars PROVE OnlyExpiredLeave
  OBVIOUS
<1>1. ASSUME NEW r \in Requests, RequestStep(r) PROVE OnlyExpiredLeave
  <2>1. CASE PutConversation(r) \/ AppendConversationResponse(r)
    BY <2>1, CreateLosesNothing, AppendLosesNothing
  <2>2. CASE ~(PutConversation(r) \/ AppendConversationResponse(r))
    <3>1. UNCHANGED conv
      BY <1>1, <2>2 DEF RequestStep, ResolveHistory, CheckTail, Answered, Unanswered,
                        PutResponseState, ReadConversation
    <3>2. QED
      BY <3>1, UnchangedLists
  <2>3. QED
    BY <2>1, <2>2
<1>2. CASE Crash \/ (\E i \in Ids : Expire(i)) \/ UNCHANGED vars
  BY <1>2, UnchangedLists DEF Crash, Expire, vars
<1>3. QED
  BY <1>1, <1>2, CollectorTakesExpired DEF Next

(* No write of a request loses what another one put into a conversation:   *)
(* ids leave a list only when they have expired.                           *)
THEOREM NothingLiveLost == Spec => LiveStaysListed
<1>1. ChainInv /\ [Next]_vars => OnlyExpiredLeave
  BY StepLosesNothing
<1>2. QED
  BY <1>1, ChainAlways, PTL DEF Spec, LiveStaysListed, OnlyExpiredLeave
==============================================================================
