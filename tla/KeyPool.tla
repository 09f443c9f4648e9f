------------------------------ MODULE KeyPool ------------------------------
(***************************************************************************)
(* The pool of upstream keys (internal/keypool/pool.go) with the retry     *)
(* loops that use it (Proxy.Forward, the two streamConverted loops and     *)
(* Responses.streamWithRetries), the admin operations that change it, and  *)
(* the api_keys table behind it.                                           *)
(*                                                                         *)
(* A key lives twice: as a row of the database and as a *Key object of     *)
(* Pool.keys.  A reload replaces every object, so a request that picked a  *)
(* key before it keeps an object that is no longer in the pool: it still   *)
(* writes the object (nobody reads it again) and the row.  A request       *)
(* therefore records only whether its object is still the pool's (`live'). *)
(*                                                                         *)
(* Time is relative: a cooldown is the number of ticks that remain of it,  *)
(* 0 for none or elapsed, and Tick counts every one down.  The database    *)
(* stores whole seconds, `phase' is the position inside the second.        *)
(***************************************************************************)
EXTENDS Integers

CONSTANTS
    KeyIds,          \* identifiers of keys
    NoKey,           \* the nil key of a request that has not picked one
    ConfigKeys,      \* the keys of the configuration file
    ConfigDisabled,  \* those it marks disabled
    Requests,        \* request handlers
    RouteOf,         \* the retry loop each of them runs
    Admins,          \* admin handlers
    FailoverEnabled, \* failover.enabled
    MaxRetries,      \* failover.max_retries, 2 when absent
    CoolDown,        \* failover.cooldown_seconds, in ticks
    TicksPerSecond   \* resolution of the clock

(* The loops that call Pick: Proxy.Forward, streamConverted (and            *)
(* streamAnthropicConverted), Responses.streamWithRetries.                 *)
Routes == {"forward", "converted", "responses"}

ASSUME KeysAssumption ==
    /\ ConfigKeys \subseteq KeyIds
    /\ ConfigDisabled \subseteq ConfigKeys
    /\ NoKey \notin KeyIds
ASSUME FailoverAssumption ==
    /\ RouteOf \in [Requests -> Routes]
    /\ FailoverEnabled \in BOOLEAN
    /\ MaxRetries \in Nat \ {0}
    /\ TicksPerSecond \in Nat \ {0}
    /\ CoolDown \in Nat \ {0}
    /\ CoolDown % TicksPerSecond = 0

VARIABLES
    db,        \* the api_keys table
    mem,       \* Pool.keys
    phase,     \* ticks since the last whole second
    req,       \* the state of every request handler
    adm,       \* the state of every admin handler
    unsynced   \* history: an admin call failed after its statement and no
               \* reload has read the table since

vars == <<db, mem, phase, req, adm, unsynced>>

----------------------------------------------------------------------------
Time == 0 .. CoolDown

Tables == [rows: SUBSET KeyIds, disabled: SUBSET KeyIds, cool: [KeyIds -> Time]]

EmptyTable == [rows |-> {}, disabled |-> {}, cool |-> [k \in KeyIds |-> 0]]

(* Mutant: the conflict clause also resets cooldown_until.                 *)
UpsertKeysResetCooldown(table, ids, off) ==
    [table EXCEPT !.rows = @ \cup ids, !.disabled = (@ \ ids) \cup off,
                  !.cool = [k \in KeyIds |-> IF k \in ids THEN 0 ELSE @[k]]]

(* INSERT .. ON CONFLICT: an existing row keeps its cooldown.              *)
UpsertKeys(table, ids, off) ==
    [table EXCEPT !.rows = @ \cup ids, !.disabled = (@ \ ids) \cup off]

SetKeyDisabled(table, k, off) ==
    IF k \in table.rows
    THEN [table EXCEPT !.disabled = IF off THEN @ \cup {k} ELSE @ \ {k}]
    ELSE table

DeleteKey(table, k) ==
    [table EXCEPT !.rows = @ \ {k}, !.disabled = @ \ {k}, !.cool[k] = 0]

(* UPDATE .. WHERE id = k: nothing happens when the row is gone.           *)
SetCooldown(table, k, left) ==
    IF k \in table.rows THEN [table EXCEPT !.cool[k] = left] ELSE table

(* until.Unix() and back: the fraction of the second is lost.              *)
WholeSeconds(left) ==
    LET cut == left - ((phase + left) % TicksPerSecond)
    IN  IF left > 0 /\ cut > 0 THEN cut ELSE 0

Less(left) == IF left > 0 THEN left - 1 ELSE 0

TickTable(table) == [table EXCEPT !.cool = [k \in KeyIds |-> Less(table.cool[k])]]

----------------------------------------------------------------------------
(* How an upstream call can end.                                           *)
Outcomes == {"ok", "retryable", "fatal", "transport", "midstream"}

MaxAttempts ==
    IF FailoverEnabled THEN (IF MaxRetries < 9 THEN 1 + MaxRetries ELSE 10) ELSE 1

(* A read error after the 200 is a failed event and a nil error on the     *)
(* responses route, whose caller then marks the key successful.            *)
MarkedSuccessful(route, outcome) ==
    \/ outcome = "ok"
    \/ route = "responses" /\ outcome = "midstream"

(* A transport error before the headers is retried by streamConverted only.*)
TriedAgain(route, outcome) ==
    \/ outcome = "retryable"
    \/ route = "converted" /\ outcome = "transport"

IdleRequest ==
    [pc |-> "idle", attempt |-> 0, key |-> NoKey, live |-> FALSE, again |-> FALSE,
     left |-> 0]

IdleAdmin == [pc |-> "idle", snap |-> EmptyTable]

(* Mutants: Key.Available without its first or its second condition.       *)
AvailableIfCool(k) == k \in mem.rows /\ mem.cool[k] = 0
AvailableIfEnabled(k) == k \in mem.rows /\ k \notin mem.disabled

Available(k) == k \in mem.rows /\ k \notin mem.disabled /\ mem.cool[k] = 0

Init ==
    /\ db = UpsertKeys(EmptyTable, ConfigKeys, ConfigDisabled)
    /\ mem = db
    /\ phase = 0
    /\ req = [r \in Requests |-> IdleRequest]
    /\ adm = [a \in Admins |-> IdleAdmin]
    /\ unsynced = FALSE

----------------------------------------------------------------------------
(* Requests.                                                               *)
Start(r) ==
    /\ req[r].pc = "idle"
    /\ req' = [req EXCEPT ![r] = [IdleRequest EXCEPT !.pc = "pick"]]
    /\ UNCHANGED <<db, mem, phase, adm, unsynced>>

(* Every strategy returns some available key; which one is not modelled.   *)
Pick(r, k) ==
    /\ req[r].pc = "pick"
    /\ Available(k)
    /\ req' = [req EXCEPT ![r] = [@ EXCEPT !.pc = "call", !.key = k, !.live = TRUE,
                                           !.left = 0]]
    /\ UNCHANGED <<db, mem, phase, adm, unsynced>>

(* ErrNoKeyAvailable ends the request, whatever error came before it.      *)
NoKeyAvailable(r) ==
    /\ req[r].pc = "pick"
    /\ \A k \in KeyIds : ~Available(k)
    /\ req' = [req EXCEPT ![r] = IdleRequest]
    /\ UNCHANGED <<db, mem, phase, adm, unsynced>>

(* MarkSuccess writes the object and the row under one lock; the statement *)
(* fails when the client has gone and its context with it.                 *)
MarkSuccess(r, outcome, stored) ==
    /\ req[r].pc = "call"
    /\ MarkedSuccessful(RouteOf[r], outcome)
    /\ mem' = IF req[r].live THEN SetCooldown(mem, req[r].key, 0) ELSE mem
    /\ db' = IF stored THEN SetCooldown(db, req[r].key, 0) ELSE db
    /\ req' = [req EXCEPT ![r] = IdleRequest]
    /\ UNCHANGED <<phase, adm, unsynced>>

(* MarkFailure, first half: the object, under the lock.                    *)
MarkFailure(r, outcome) ==
    /\ req[r].pc = "call"
    /\ ~MarkedSuccessful(RouteOf[r], outcome)
    /\ LET left == IF outcome = "retryable" THEN CoolDown ELSE 0
       IN  /\ mem' = IF req[r].live /\ outcome = "retryable"
                     THEN SetCooldown(mem, req[r].key, left) ELSE mem
           /\ req' = [req EXCEPT ![r] = [@ EXCEPT !.pc = "persist", !.live = FALSE,
                                  !.left = left,
                                  !.again = TriedAgain(RouteOf[r], outcome)]]
    /\ UNCHANGED <<db, phase, adm, unsynced>>

NextAttempt(q) == [q EXCEPT !.pc = "pick", !.attempt = q.attempt + 1, !.again = FALSE]

(* Mutants: one attempt too many; a loop that does not count its attempts. *)
PersistFailureOneMore(r, stored) ==
    /\ req[r].pc = "persist"
    /\ db' = IF stored THEN SetCooldown(db, req[r].key, WholeSeconds(req[r].left)) ELSE db
    /\ req' = [req EXCEPT ![r] =
                 IF @.again /\ @.attempt < MaxAttempts THEN NextAttempt(@)
                 ELSE IdleRequest]
    /\ UNCHANGED <<mem, phase, adm, unsynced>>
PersistFailureUncounted(r, stored) ==
    /\ req[r].pc = "persist"
    /\ db' = IF stored THEN SetCooldown(db, req[r].key, WholeSeconds(req[r].left)) ELSE db
    /\ req' = [req EXCEPT ![r] =
                 IF @.again THEN [@ EXCEPT !.pc = "pick", !.again = FALSE] ELSE IdleRequest]
    /\ UNCHANGED <<mem, phase, adm, unsynced>>

(* MarkFailure, second half: the row, after the unlock, then the decision  *)
(* of the loop. A failure that is not retryable writes the zero time.      *)
PersistFailure(r, stored) ==
    /\ req[r].pc = "persist"
    /\ db' = IF stored THEN SetCooldown(db, req[r].key, WholeSeconds(req[r].left)) ELSE db
    /\ req' = [req EXCEPT ![r] =
                 IF @.again /\ @.attempt + 1 < MaxAttempts THEN NextAttempt(@)
                 ELSE IdleRequest]
    /\ UNCHANGED <<mem, phase, adm, unsynced>>

RequestStep(r) ==
    \/ \E k \in KeyIds : Pick(r, k)
    \/ NoKeyAvailable(r)
    \/ \E o \in Outcomes, stored \in BOOLEAN : MarkSuccess(r, o, stored)
    \/ \E o \in Outcomes : MarkFailure(r, o)
    \/ \E stored \in BOOLEAN : PersistFailure(r, stored)

----------------------------------------------------------------------------
(* Admin calls: one statement, then reload (ListKeys without the lock, and *)
(* the new list installed under it).                                       *)
WriteRow(a, table) ==
    /\ adm[a].pc = "idle"
    /\ db' = table
    /\ adm' = [adm EXCEPT ![a] = [pc |-> "list", snap |-> EmptyTable]]
    /\ UNCHANGED <<mem, phase, req, unsynced>>

AddKey(a, k, off) == WriteRow(a, UpsertKeys(db, {k}, IF off THEN {k} ELSE {}))

(* Mutant: SetDisabled returns without reloading.                          *)
SetDisabledOnly(a, k, off) ==
    /\ adm[a].pc = "idle"
    /\ db' = SetKeyDisabled(db, k, off)
    /\ UNCHANGED <<mem, phase, req, adm, unsynced>>

SetDisabled(a, k, off) == WriteRow(a, SetKeyDisabled(db, k, off))
RemoveKey(a, k) == WriteRow(a, DeleteKey(db, k))

ListKeys(a) ==
    /\ adm[a].pc = "list"
    /\ adm' = [adm EXCEPT ![a] = [pc |-> "install", snap |-> db]]
    /\ unsynced' = FALSE
    /\ UNCHANGED <<db, mem, phase, req>>

(* The admin's context is cancelled: the call fails, the row is written.   *)
ListFails(a) ==
    /\ adm[a].pc = "list"
    /\ adm' = [adm EXCEPT ![a] = IdleAdmin]
    /\ unsynced' = TRUE
    /\ UNCHANGED <<db, mem, phase, req>>

Install(a) ==
    /\ adm[a].pc = "install"
    /\ mem' = adm[a].snap
    /\ req' = [r \in Requests |-> [req[r] EXCEPT !.live = FALSE]]
    /\ adm' = [adm EXCEPT ![a] = IdleAdmin]
    /\ UNCHANGED <<db, phase, unsynced>>

AdminStep(a) ==
    \/ \E k \in KeyIds, off \in BOOLEAN : AddKey(a, k, off) \/ SetDisabled(a, k, off)
    \/ \E k \in KeyIds : RemoveKey(a, k)
    \/ ListKeys(a) \/ ListFails(a) \/ Install(a)

----------------------------------------------------------------------------
(* The process stops and New runs again over the same file.                *)
Restart ==
    /\ db' = UpsertKeys(db, ConfigKeys, ConfigDisabled)
    /\ mem' = db'
    /\ req' = [r \in Requests |-> IdleRequest]
    /\ adm' = [a \in Admins |-> IdleAdmin]
    /\ unsynced' = FALSE
    /\ UNCHANGED phase

Tick ==
    /\ phase' = (phase + 1) % TicksPerSecond
    /\ db' = TickTable(db)
    /\ mem' = TickTable(mem)
    /\ req' = [r \in Requests |-> [req[r] EXCEPT !.left = Less(req[r].left)]]
    /\ adm' = [a \in Admins |-> [adm[a] EXCEPT !.snap = TickTable(adm[a].snap)]]
    /\ UNCHANGED unsynced

Next ==
    \/ \E r \in Requests : Start(r)
    \/ \E r \in Requests : RequestStep(r)
    \/ \E a \in Admins : AdminStep(a)
    \/ Restart
    \/ Tick

Spec == Init /\ [][Next]_vars

(* The upstream client has a timeout, so a call always ends; statements    *)
(* finish and the clock runs. Clients and admins need not do anything.     *)
FairSpec == Spec /\ WF_vars(Tick) /\ \A r \in Requests : WF_vars(RequestStep(r))
----------------------------------------------------------------------------
(* The rows, the objects and what every handler holds are what the types   *)
(* of pool.go and sqlite.go allow; no loop goes beyond its attempts.       *)
RequestStates ==
    [pc: {"idle", "pick", "call", "persist"}, attempt: 0 .. MaxAttempts - 1,
     key: KeyIds \cup {NoKey}, live: BOOLEAN, again: BOOLEAN, left: Time]

HeldKeyOK(r) ==
    /\ req[r].pc \in {"call", "persist"} => req[r].key \in KeyIds
    /\ req[r].live => req[r].key \in mem.rows

TypeOK ==
    /\ db \in Tables
    /\ mem \in Tables
    /\ phase \in 0 .. TicksPerSecond - 1
    /\ req \in [Requests -> RequestStates]
    /\ adm \in [Admins -> [pc: {"idle", "list", "install"}, snap: Tables]]
    /\ unsynced \in BOOLEAN
    /\ \A r \in Requests : HeldKeyOK(r)

SameKeys(s, t) == s.rows = t.rows /\ s.disabled = t.disabled

AdminsIdle == \A a \in Admins : adm[a].pc = "idle"

(* Once every admin call has answered, and none of them with an error, no  *)
(* request is handed a key whose row is disabled or deleted: SetDisabled   *)
(* and RemoveKey take effect by the time they return (pool.go 333-369).    *)
(* True of one admin at a time only, see ReloadedFromDatabase.             *)
PicksEnabledKey ==
    [][\A r \in Requests, k \in KeyIds :
         Pick(r, k) /\ AdminsIdle /\ ~unsynced
           => k \in db.rows \ db.disabled]_vars

(* A restart keeps every row, its cooldown, and the disabled flag of every *)
(* key the configuration does not name; a key an admin added is not lost   *)
(* with the process (New, pool.go 75-94, over UpsertKey's conflict rule).  *)
RestartKeepsRows ==
    [][Restart => /\ db.rows \subseteq mem'.rows
                  /\ \A k \in db.rows : mem'.cool[k] = db.cool[k]
                  /\ \A k \in db.rows \ ConfigKeys :
                       k \in mem'.disabled <=> k \in db.disabled]_vars

(* Every request ends, however its calls go: each loop is bounded and each *)
(* call is (Forward's maxAttempts, the timeout of the upstream client).    *)
RequestsEnd == \A r \in Requests : req[r].pc # "idle" ~> req[r].pc = "idle"

(* No key is benched for ever: again and again it is out of its cooldown,  *)
(* although late failures of requests that hold it renew the cooldown and  *)
(* reloads bring back the one in the database (Available, MarkFailure).    *)
KeysReturn == \A k \in KeyIds : []<>(mem.cool[k] = 0)

(* The README's "on 429 / 5xx switches to the next key automatically": the *)
(* retry of a failed call does not use the key that failed while its       *)
(* cooldown still runs (proxy.go 142-171 with pool.go 240-245).            *)
RetrySwitchesKey ==
    [][\A r \in Requests, k \in KeyIds :
         Pick(r, k) /\ req[r].attempt > 0 /\ req[r].left > 0
           => k # req[r].key]_vars

(* "reload refreshes the in-memory key list from the database"             *)
(* (pool.go:98): when every reload has finished and none failed, the list  *)
(* names the keys of the database with their disabled flags.               *)
ReloadedFromDatabase == AdminsIdle /\ ~unsynced => SameKeys(mem, db)
============================================================================
