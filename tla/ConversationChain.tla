------------------------- MODULE ConversationChain -------------------------
(***************************************************************************)
(* Stored responses and the conversations that list them: the tables       *)
(* response_state and conversation (internal/store/responses.go), the      *)
(* history code that reads and extends them                                *)
(* (internal/proxy/responses/history.go) and the two request paths of      *)
(* internal/handler/responses.go, which use them in the same order.        *)
(*                                                                         *)
(* The database has one connection, so a statement, or a transaction, is   *)
(* a step.  A request takes two statements to resolve its history and      *)
(* three to record its answer, with the upstream call between them.        *)
(*                                                                         *)
(* A conversation's response_ids_json is kept as the place of every id in  *)
(* it, 0 for an id it does not list; removing an id leaves the order of    *)
(* the others alone.                                                       *)
(***************************************************************************)
EXTENDS Naturals

CONSTANTS
    Ids,            \* response ids, drawn once each
    NoId,           \* no previous_response_id; NULL
    Conversations,  \* conversation ids, chosen by the clients
    NoConversation,
    Requests        \* handlers of POST /v1/responses

ASSUME ChainAssumption ==
    /\ NoId \notin Ids
    /\ NoConversation \notin Conversations

VARIABLES
    stored,  \* response_state: "none", or a row that is "live" or "expired"
    conv,    \* conversation: is there a row, what it lists, its last id
    issued,  \* the response ids drawn so far
    req      \* the requests in progress

vars == <<stored, conv, issued, req>>

Conversation == [row: BOOLEAN, place: [Ids -> Nat], last: Ids \cup {NoId}]
NoRow == [row |-> FALSE, place |-> [i \in Ids |-> 0], last |-> NoId]

Phases == {"idle", "check", "upstream", "put", "read", "create", "append"}
Request == [phase: Phases, conv: Conversations \cup {NoConversation},
            prev: Ids \cup {NoId}, id: Ids \cup {NoId}]
Idle == [phase |-> "idle", conv |-> NoConversation, prev |-> NoId, id |-> NoId]

Listed(c) == {i \in Ids : conv[c].place[i] > 0}

Init ==
    /\ stored = [i \in Ids |-> "none"]
    /\ conv = [c \in Conversations |-> NoRow]
    /\ issued = {}
    /\ req = [r \in Requests |-> Idle]

Go(r, phase) == req' = [req EXCEPT ![r] = [@ EXCEPT !.phase = phase]]
Done(r) == req' = [req EXCEPT ![r] = Idle]

----------------------------------------------------------------------------
(* Resolving the history.                                                  *)

(* GetResponseState: a row that is gone or expired refuses the request.    *)
ResolveHistory(r, c, p) ==
    /\ req[r].phase = "idle"
    /\ p \in Ids => stored[p] = "live"
    /\ req' = [req EXCEPT ![r] = [phase |-> IF p = NoId \/ c = NoConversation
                                              THEN "upstream" ELSE "check",
                                  conv |-> c, prev |-> p, id |-> NoId]]
    /\ UNCHANGED <<stored, conv, issued>>

(* GetConversation; a conversation without a row passes, and so does one   *)
(* that cannot be read.                                                    *)
CheckTail(r) ==
    /\ req[r].phase = "check"
    /\ LET last == conv[req[r].conv].last
       IN  \/ Go(r, "upstream")
           \/ last \in Ids /\ last # req[r].prev /\ Done(r)  \* ErrChainConflict
    /\ UNCHANGED <<stored, conv, issued>>

----------------------------------------------------------------------------
(* The upstream call.                                                      *)
Answered(r, i) ==
    /\ req[r].phase = "upstream"
    /\ i \notin issued
    /\ issued' = issued \cup {i}
    /\ req' = [req EXCEPT ![r] = [@ EXCEPT !.phase = "put", !.id = i]]
    /\ UNCHANGED <<stored, conv>>

(* No answer, or a stream that broke before its last event was written.    *)
Unanswered(r) ==
    /\ req[r].phase = "upstream"
    /\ Done(r)
    /\ UNCHANGED <<stored, conv, issued>>

----------------------------------------------------------------------------
(* Recording the answer.                                                   *)

(* A failure to write the row is logged and the request goes on.           *)
PutResponseState(r) ==
    /\ req[r].phase = "put"
    /\ \/ stored' = [stored EXCEPT ![req[r].id] = "live"]
       \/ UNCHANGED stored
    /\ IF req[r].conv = NoConversation THEN Done(r) ELSE Go(r, "read")
    /\ UNCHANGED <<conv, issued>>

(* GetConversation and the comparison with the tail.  A read that fails    *)
(* for any reason takes the path of a conversation that has no row.        *)
ReadConversation(r) ==
    /\ req[r].phase = "read"
    /\ LET c == req[r].conv
           tail == IF Listed(c) = {} THEN NoId ELSE conv[c].last
       IN  \/ Go(r, "create")                          \* the read failed
           \/ IF ~conv[c].row THEN Go(r, "create")
              ELSE IF tail # req[r].prev THEN Done(r)  \* ErrChainConflict
              ELSE Go(r, "append")
    /\ UNCHANGED <<stored, conv, issued>>

(* Mutant: foreign keys off.                                               *)
MayReferenceAny(i) == TRUE

(* last_response_id REFERENCES response_state.                             *)
MayReference(i) == stored[i] # "none"

(* Mutant: a create that replaces a row that exists.                       *)
PutConversationReplacing(r) ==
    /\ req[r].phase = "create"
    /\ LET c == req[r].conv
           i == req[r].id
       IN  IF ~MayReference(i) THEN UNCHANGED conv
           ELSE conv' = [conv EXCEPT ![c] =
                           [row |-> TRUE, place |-> [NoRow.place EXCEPT ![i] = 1],
                            last |-> i]]
    /\ Done(r)
    /\ UNCHANGED <<stored, issued>>

(* PutConversation fails on a row that exists meanwhile, on the foreign    *)
(* key, or for another reason; the error is logged.                        *)
PutConversation(r) ==
    /\ req[r].phase = "create"
    /\ LET c == req[r].conv
           i == req[r].id
       IN  \/ UNCHANGED conv
           \/ /\ ~conv[c].row /\ MayReference(i)
              /\ conv' = [conv EXCEPT ![c] =
                            [row |-> TRUE, place |-> [NoRow.place EXCEPT ![i] = 1],
                             last |-> i]]
    /\ Done(r)
    /\ UNCHANGED <<stored, issued>>

(* The place after those of the ids listed.                                *)
NextPlace(c) == CHOOSE n \in {conv[c].place[i] + 1 : i \in Ids} :
    \A i \in Ids : conv[c].place[i] < n

(* The store's AppendConversationResponse: one transaction that reads the  *)
(* list again but compares no tail, and fails as above.                    *)
AppendConversationResponse(r) ==
    /\ req[r].phase = "append"
    /\ LET c == req[r].conv
           i == req[r].id
       IN  \/ UNCHANGED conv
           \/ /\ conv[c].row /\ i \notin Listed(c) /\ MayReference(i)
              /\ conv' = [conv EXCEPT ![c] =
                            [row |-> TRUE, last |-> i,
                             place |-> [conv[c].place EXCEPT ![i] = NextPlace(c)]]]
    /\ Done(r)
    /\ UNCHANGED <<stored, issued>>

----------------------------------------------------------------------------
(* Time, the collector and crashes.                                        *)

(* ttl_at passes.  Any row may be the next: a stamp is taken before the    *)
(* wait for the connection, so rows need not be stored in their order.     *)
Expire(i) ==
    /\ stored[i] = "live"
    /\ stored' = [stored EXCEPT ![i] = "expired"]
    /\ UNCHANGED <<conv, issued, req>>

Newest(place) == CHOOSE i \in Ids : \A j \in Ids : place[j] <= place[i]

(* Mutant: a conversation that lists nothing is written back, with Go's    *)
(* empty string for its last id.                                           *)
WithoutKeepingRow(row, gone) ==
    LET place == [i \in Ids |-> IF i \in gone THEN 0 ELSE row.place[i]]
    IN  IF ~row.row THEN NoRow
        ELSE [row |-> TRUE, place |-> place,
              last |-> IF \A i \in Ids : place[i] = 0 THEN "" ELSE Newest(place)]

Without(row, gone) ==
    LET place == [i \in Ids |-> IF i \in gone THEN 0 ELSE row.place[i]]
    IN  IF ~row.row \/ \A i \in Ids : place[i] = 0 THEN NoRow
        ELSE [row |-> TRUE, place |-> place, last |-> Newest(place)]

(* Mutant: the last response of a conversation is kept for good.           *)
ResponseStateGCUnlisted ==
    LET gone == {i \in Ids : stored[i] = "expired"
                               /\ \A c \in Conversations : conv[c].last # i}
    IN  /\ gone # {}
        /\ stored' = [i \in Ids |-> IF i \in gone THEN "none" ELSE stored[i]]
        /\ conv' = [c \in Conversations |-> Without(conv[c], gone)]
        /\ UNCHANGED <<issued, req>>

(* One transaction: delete the expired rows, take their ids out of every   *)
(* list, move last_response_id to the end of what is left and drop the     *)
(* conversations that list nothing.                                        *)
ResponseStateGC ==
    LET gone == {i \in Ids : stored[i] = "expired"}
    IN  /\ gone # {}
        /\ stored' = [i \in Ids |-> IF i \in gone THEN "none" ELSE stored[i]]
        /\ conv' = [c \in Conversations |-> Without(conv[c], gone)]
        /\ UNCHANGED <<issued, req>>

(* The process stops; what is in the database stays.                       *)
Crash ==
    /\ \E r \in Requests : req[r] # Idle
    /\ req' = [r \in Requests |-> Idle]
    /\ UNCHANGED <<stored, conv, issued>>

----------------------------------------------------------------------------
RequestStep(r) ==
    \/ \E c \in Conversations \cup {NoConversation}, p \in issued \cup {NoId} :
         ResolveHistory(r, c, p)
    \/ CheckTail(r)
    \/ \E i \in Ids : Answered(r, i)
    \/ Unanswered(r)
    \/ PutResponseState(r)
    \/ ReadConversation(r)
    \/ PutConversation(r)
    \/ AppendConversationResponse(r)

Next ==
    \/ \E r \in Requests : RequestStep(r)
    \/ \E i \in Ids : Expire(i)
    \/ ResponseStateGC
    \/ Crash

Spec == Init /\ [][Next]_vars

(* The collector's ticker fires for as long as the process runs.           *)
FairSpec == Spec /\ WF_vars(ResponseStateGC)

----------------------------------------------------------------------------
Recording == {"put", "read", "create", "append"}

(* Every variable has its type; a request that records its answer has an   *)
(* id for it, and one that uses a conversation was given one.              *)
TypeOK ==
    /\ stored \in [Ids -> {"none", "live", "expired"}]
    /\ conv \in [Conversations -> Conversation]
    /\ issued \subseteq Ids
    /\ req \in [Requests -> Request]
    /\ \A r \in Requests :
         /\ req[r].phase \in Recording => req[r].id \in Ids
         /\ req[r].phase \in (Recording \ {"put"}) \cup {"check"} =>
              req[r].conv \in Conversations

(* A conversation lists at least one response, only responses that are     *)
(* stored, each of them once, and last_response_id is the last one listed: *)
(* what ResolveHistory and AppendConversationResponse compare              *)
(* previous_response_id with is never dangling and never NULL, whatever    *)
(* the collector deleted and whichever writes failed.                      *)
ListsStoredResponses ==
    \A c \in Conversations :
        IF conv[c].row
          THEN /\ conv[c].last \in Listed(c)
               /\ \A i \in Listed(c) :
                    /\ stored[i] # "none"
                    /\ i # conv[c].last => conv[c].place[i] < conv[c].place[conv[c].last]
               /\ \A i, j \in Listed(c) : conv[c].place[i] = conv[c].place[j] => i = j
          ELSE conv[c] = NoRow

(* No write to a conversation loses what another request put in it: an id  *)
(* leaves a list, and a conversation its row, only when the collector      *)
(* deletes expired responses.                                              *)
LiveStaysListed ==
    [][\A c \in Conversations : \A i \in Listed(c) :
         conv'[c].place[i] = 0 => stored[i] = "expired"]_vars

(* What has expired is taken out of the database, conversations included.  *)
ExpiredForgotten ==
    \A i \in Ids : stored[i] = "expired" ~>
        stored[i] = "none" /\ \A c \in Conversations : conv[c].place[i] = 0

(* The doc comment of AppendConversationResponse: an append whose          *)
(* previous_response_id disagrees with the recorded tail is refused, so    *)
(* that every response in a list answers the one before it.                *)
AppendsFollowTail ==
    [][\A r \in Requests : \A c \in Conversations :
         /\ req[r].phase = "append" /\ req[r].conv = c
         /\ conv'[c] # conv[c] /\ conv'[c].last = req[r].id
         => conv[c].last = req[r].prev]_vars
============================================================================
