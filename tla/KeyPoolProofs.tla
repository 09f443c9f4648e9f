--------------------------- MODULE KeyPoolProofs ---------------------------
(***************************************************************************)
(* Theorems about KeyPool for every set of keys, requests and admins, every *)
(* retry budget and every cooldown.                                        *)
(***************************************************************************)
EXTENDS KeyPool, TLAPS

----------------------------------------------------------------------------
(* What the operations on the table return.                                *)
LEMMA MaxAttemptsIsPositive == MaxAttempts \in Nat \ {0}
BY FailoverAssumption DEF MaxAttempts

LEMMA TimeFacts == 0 \in Time /\ CoolDown \in Time
BY FailoverAssumption DEF Time

LEMMA LessInTime == \A t \in Time : Less(t) \in Time
BY FailoverAssumption DEF Time, Less

LEMMA WholeSecondsInTime ==
    ASSUME phase \in 0 .. TicksPerSecond - 1, NEW t \in Time
    PROVE  WholeSeconds(t) \in Time
<1>1. /\ phase \in Nat
      /\ t \in Nat
      /\ t <= CoolDown
      /\ CoolDown \in Nat
  BY FailoverAssumption DEF Time
<1>2. (phase + t) % TicksPerSecond \in Nat
  BY <1>1, FailoverAssumption
<1> DEFINE rest == (phase + t) % TicksPerSecond
<1> HIDE DEF rest
<1>3. rest \in Nat
  BY <1>2 DEF rest
<1>4. t - rest > 0 => t - rest \in 0 .. CoolDown
  BY <1>1, <1>3
<1>5. WholeSeconds(t) = IF t > 0 /\ t - rest > 0 THEN t - rest ELSE 0
  BY DEF WholeSeconds, rest
<1>6. QED
  BY <1>4, <1>5, TimeFacts DEF Time

LEMMA EmptyTableOK == EmptyTable \in Tables
BY TimeFacts DEF EmptyTable, Tables

LEMMA UpsertKeysOK ==
    ASSUME NEW table \in Tables, NEW ids \in SUBSET KeyIds, NEW off \in SUBSET KeyIds
    PROVE  UpsertKeys(table, ids, off) \in Tables
BY DEF UpsertKeys, Tables

LEMMA SetKeyDisabledOK ==
    ASSUME NEW table \in Tables, NEW k \in KeyIds, NEW off \in BOOLEAN
    PROVE  SetKeyDisabled(table, k, off) \in Tables
BY DEF SetKeyDisabled, Tables

LEMMA DeleteKeyOK ==
    ASSUME NEW table \in Tables, NEW k \in KeyIds
    PROVE  DeleteKey(table, k) \in Tables
BY TimeFacts DEF DeleteKey, Tables

LEMMA SetCooldownOK ==
    ASSUME NEW table \in Tables, NEW k \in KeyIds, NEW t \in Time
    PROVE  /\ SetCooldown(table, k, t) \in Tables
           /\ SetCooldown(table, k, t).rows = table.rows
           /\ SetCooldown(table, k, t).disabled = table.disabled
BY DEF SetCooldown, Tables

LEMMA TickTableOK ==
    ASSUME NEW table \in Tables
    PROVE  /\ TickTable(table) \in Tables
           /\ TickTable(table).rows = table.rows
           /\ TickTable(table).disabled = table.disabled
<1>1. \A k \in KeyIds : table.cool[k] \in Time
  BY DEF Tables
<1>2. [k \in KeyIds |-> Less(table.cool[k])] \in [KeyIds -> Time]
  BY <1>1, LessInTime
<1>3. QED
  BY <1>2 DEF TickTable, Tables

LEMMA IdleRequestOK == IdleRequest \in RequestStates
BY MaxAttemptsIsPositive, TimeFacts DEF IdleRequest, RequestStates

----------------------------------------------------------------------------
(* Type correctness.  Its only part that is not local to one action is     *)
(* that a request with a live object holds a key of the pool: Install and  *)
(* Restart, which replace the pool, are the steps that orphan the objects. *)
LEMMA InitTypeOK == Init => TypeOK
<1> SUFFICES ASSUME Init PROVE TypeOK
  OBVIOUS
<1>1. db \in Tables /\ mem \in Tables
  BY EmptyTableOK, UpsertKeysOK, KeysAssumption DEF Init
<1>2. phase \in 0 .. TicksPerSecond - 1
  BY FailoverAssumption DEF Init
<1>3. req \in [Requests -> RequestStates] /\ \A r \in Requests : HeldKeyOK(r)
  BY IdleRequestOK DEF Init, HeldKeyOK, IdleRequest
<1>4. adm \in [Admins -> [pc: {"idle", "list", "install"}, snap: Tables]]
  BY EmptyTableOK DEF Init, IdleAdmin
<1>5. QED
  BY <1>1, <1>2, <1>3, <1>4 DEF TypeOK, Init

LEMMA RequestTypeOK ==
    ASSUME TypeOK, NEW r \in Requests, Start(r) \/ RequestStep(r)
    PROVE  TypeOK'
<1>0. /\ db \in Tables /\ mem \in Tables
      /\ phase \in 0 .. TicksPerSecond - 1
      /\ req \in [Requests -> RequestStates]
      /\ \A q \in Requests : HeldKeyOK(q)
  BY DEF TypeOK
<1>1. CASE Start(r)
  <2>1. [IdleRequest EXCEPT !.pc = "pick"] \in RequestStates
    BY IdleRequestOK DEF RequestStates
  <2>2. \A q \in Requests : HeldKeyOK(q)'
    BY <1>0, <1>1 DEF Start, HeldKeyOK, IdleRequest
  <2>3. QED
    BY <1>1, <2>1, <2>2 DEF Start, TypeOK
<1>2. ASSUME NEW k \in KeyIds, Pick(r, k) PROVE TypeOK'
  <2>1. req'[r] \in RequestStates
    BY <1>0, <1>2, TimeFacts DEF Pick, RequestStates
  <2>2. \A q \in Requests : HeldKeyOK(q)'
    BY <1>0, <1>2 DEF Pick, HeldKeyOK, Available, RequestStates
  <2>3. QED
    BY <1>0, <1>2, <2>1, <2>2 DEF Pick, TypeOK
<1>3. CASE NoKeyAvailable(r)
  <2>1. \A q \in Requests : HeldKeyOK(q)'
    BY <1>0, <1>3 DEF NoKeyAvailable, HeldKeyOK, IdleRequest
  <2>2. QED
    BY <1>3, <2>1, IdleRequestOK DEF NoKeyAvailable, TypeOK
<1>4. ASSUME NEW o \in Outcomes, NEW stored \in BOOLEAN, MarkSuccess(r, o, stored)
      PROVE  TypeOK'
  <2>1. req[r].key \in KeyIds
    BY <1>0, <1>4 DEF MarkSuccess, HeldKeyOK
  <2>2. /\ mem' \in Tables /\ db' \in Tables
        /\ mem'.rows = mem.rows
    BY <1>0, <1>4, <2>1, SetCooldownOK, TimeFacts DEF MarkSuccess
  <2>3. \A q \in Requests : HeldKeyOK(q)'
    BY <1>0, <1>4, <2>2 DEF MarkSuccess, HeldKeyOK, IdleRequest
  <2>4. QED
    BY <1>4, <2>2, <2>3, IdleRequestOK DEF MarkSuccess, TypeOK
<1>5. ASSUME NEW o \in Outcomes, MarkFailure(r, o) PROVE TypeOK'
  <2> DEFINE left == IF o = "retryable" THEN CoolDown ELSE 0
  <2>1. req[r].key \in KeyIds
    BY <1>0, <1>5 DEF MarkFailure, HeldKeyOK
  <2>2. left \in Time /\ TriedAgain(RouteOf[r], o) \in BOOLEAN
    BY TimeFacts DEF TriedAgain
  <2>3. mem' \in Tables /\ mem'.rows = mem.rows
    BY <1>0, <1>5, <2>1, <2>2, SetCooldownOK DEF MarkFailure
  <2>4. req' = [req EXCEPT ![r] =
                  [@ EXCEPT !.pc = "persist", !.live = FALSE, !.left = left,
                            !.again = TriedAgain(RouteOf[r], o)]]
    BY <1>5 DEF MarkFailure
  <2> HIDE DEF left
  <2>5. req'[r] \in RequestStates
    BY <1>0, <2>2, <2>4 DEF RequestStates
  <2>6. \A q \in Requests : HeldKeyOK(q)'
    BY <1>0, <2>1, <2>3, <2>4 DEF HeldKeyOK, RequestStates
  <2>7. req' \in [Requests -> RequestStates]
    BY <1>0, <2>4, <2>5
  <2>8. UNCHANGED <<db, phase, adm, unsynced>>
    BY <1>5 DEF MarkFailure
  <2>9. QED
    BY <2>3, <2>6, <2>7, <2>8 DEF TypeOK
<1>6. ASSUME NEW stored \in BOOLEAN, PersistFailure(r, stored) PROVE TypeOK'
  <2>1. req[r].key \in KeyIds /\ req[r].left \in Time
    BY <1>0, <1>6 DEF PersistFailure, HeldKeyOK, RequestStates
  <2>2. db' \in Tables
    BY <1>0, <1>6, <2>1, WholeSecondsInTime, SetCooldownOK DEF PersistFailure
  <2>3. req'[r] \in RequestStates
    <3>1. CASE req[r].attempt + 1 < MaxAttempts
      <4>1. req[r].attempt + 1 \in 0 .. MaxAttempts - 1
        BY <1>0, <3>1, MaxAttemptsIsPositive DEF RequestStates
      <4>2. NextAttempt(req[r]) \in RequestStates
        BY <1>0, <4>1 DEF RequestStates, NextAttempt
      <4>3. QED
        BY <1>0, <1>6, <4>2, IdleRequestOK DEF PersistFailure
    <3>2. CASE ~(req[r].attempt + 1 < MaxAttempts)
      BY <1>0, <1>6, <3>2, IdleRequestOK DEF PersistFailure
    <3>3. QED
      BY <3>1, <3>2
  <2>4. \A q \in Requests : HeldKeyOK(q)'
    BY <1>0, <1>6 DEF PersistFailure, HeldKeyOK, RequestStates, IdleRequest, NextAttempt
  <2>5. QED
    BY <1>0, <1>6, <2>2, <2>3, <2>4 DEF PersistFailure, TypeOK
<1>7. QED
  BY <1>1, <1>2, <1>3, <1>4, <1>5, <1>6 DEF RequestStep

LEMMA AdminTypeOK ==
    ASSUME TypeOK, NEW a \in Admins, AdminStep(a)
    PROVE  TypeOK'
<1>0. /\ db \in Tables /\ mem \in Tables
      /\ adm \in [Admins -> [pc: {"idle", "list", "install"}, snap: Tables]]
      /\ req \in [Requests -> RequestStates]
      /\ \A q \in Requests : HeldKeyOK(q)
  BY DEF TypeOK
<1>1. ASSUME NEW table \in Tables, WriteRow(a, table) PROVE TypeOK'
  <2>1. adm'[a] \in [pc: {"idle", "list", "install"}, snap: Tables]
    BY <1>0, <1>1, EmptyTableOK DEF WriteRow
  <2>2. \A q \in Requests : HeldKeyOK(q)'
    BY <1>0, <1>1 DEF WriteRow, HeldKeyOK
  <2>3. QED
    BY <1>0, <1>1, <2>1, <2>2 DEF WriteRow, TypeOK
<1>2. ASSUME NEW k \in KeyIds, NEW off \in BOOLEAN, AddKey(a, k, off) PROVE TypeOK'
  <2>1. UpsertKeys(db, {k}, IF off THEN {k} ELSE {}) \in Tables
    BY <1>0, UpsertKeysOK
  <2>2. QED
    BY <1>1, <1>2, <2>1 DEF AddKey
<1>3. ASSUME NEW k \in KeyIds, NEW off \in BOOLEAN, SetDisabled(a, k, off) PROVE TypeOK'
  BY <1>0, <1>1, <1>3, SetKeyDisabledOK DEF SetDisabled
<1>4. ASSUME NEW k \in KeyIds, RemoveKey(a, k) PROVE TypeOK'
  BY <1>0, <1>1, <1>4, DeleteKeyOK DEF RemoveKey
<1>5. CASE ListKeys(a)
  <2>1. \A q \in Requests : HeldKeyOK(q)'
    BY <1>0, <1>5 DEF ListKeys, HeldKeyOK
  <2>2. QED
    BY <1>0, <1>5, <2>1 DEF ListKeys, TypeOK
<1>6. CASE ListFails(a)
  <2>1. \A q \in Requests : HeldKeyOK(q)'
    BY <1>0, <1>6 DEF ListFails, HeldKeyOK
  <2>2. QED
    BY <1>0, <1>6, <2>1, EmptyTableOK DEF ListFails, TypeOK, IdleAdmin
<1>7. CASE Install(a)
  <2>1. mem' \in Tables
    BY <1>0, <1>7 DEF Install
  <2>2. req' \in [Requests -> RequestStates]
    BY <1>0, <1>7 DEF Install, RequestStates
  <2>3. \A q \in Requests : HeldKeyOK(q)'
    BY <1>0, <1>7 DEF Install, HeldKeyOK, RequestStates
  <2>4. QED
    BY <1>0, <1>7, <2>1, <2>2, <2>3, EmptyTableOK DEF Install, TypeOK, IdleAdmin
<1>8. QED
  BY <1>2, <1>3, <1>4, <1>5, <1>6, <1>7 DEF AdminStep

LEMMA RestartTypeOK == TypeOK /\ Restart => TypeOK'
<1> SUFFICES ASSUME TypeOK, Restart PROVE TypeOK'
  OBVIOUS
<1>1. db' \in Tables /\ mem' \in Tables
  BY UpsertKeysOK, KeysAssumption DEF TypeOK, Restart
<1>2. req' \in [Requests -> RequestStates] /\ \A q \in Requests : HeldKeyOK(q)'
  BY IdleRequestOK DEF Restart, HeldKeyOK, IdleRequest
<1>3. QED
  BY <1>1, <1>2, EmptyTableOK DEF TypeOK, Restart, IdleAdmin

LEMMA TickTypeOK == TypeOK /\ Tick => TypeOK'
<1> SUFFICES ASSUME TypeOK, Tick PROVE TypeOK'
  OBVIOUS
<1>1. /\ db' \in Tables /\ mem' \in Tables
      /\ mem'.rows = mem.rows
  BY TickTableOK DEF TypeOK, Tick
<1>2. phase' \in 0 .. TicksPerSecond - 1
  BY FailoverAssumption DEF TypeOK, Tick
<1>3. req' \in [Requests -> RequestStates]
  <2>1. ASSUME NEW r \in Requests
        PROVE  [req[r] EXCEPT !.left = Less(req[r].left)] \in RequestStates
    BY LessInTime DEF TypeOK, RequestStates
  <2>2. QED
    BY <2>1 DEF Tick
<1>4. \A q \in Requests : HeldKeyOK(q)'
  BY <1>1 DEF TypeOK, Tick, HeldKeyOK, RequestStates
<1>5. adm' \in [Admins -> [pc: {"idle", "list", "install"}, snap: Tables]]
  <2>1. ASSUME NEW a \in Admins
        PROVE  [adm[a] EXCEPT !.snap = TickTable(adm[a].snap)]
                  \in [pc: {"idle", "list", "install"}, snap: Tables]
    BY TickTableOK DEF TypeOK
  <2>2. QED
    BY <2>1 DEF Tick
<1>6. QED
  BY <1>1, <1>2, <1>3, <1>4, <1>5 DEF TypeOK, Tick

(* Rows, objects and handlers stay well formed, and no request makes more  *)
(* attempts than its loop allows, in every behaviour of the pool.          *)
THEOREM TypeCorrect == Spec => []TypeOK
<1>1. TypeOK /\ [Next]_vars => TypeOK'
  <2>1. TypeOK /\ UNCHANGED vars => TypeOK'
    BY DEF TypeOK, HeldKeyOK, vars
  <2>2. TypeOK /\ Next => TypeOK'
    BY RequestTypeOK, AdminTypeOK, RestartTypeOK, TickTypeOK DEF Next
  <2>3. QED
    BY <2>1, <2>2
<1>2. QED
  BY InitTypeOK, <1>1, PTL DEF Spec

(* Whatever a restart finds in the table is in the pool afterwards, with   *)
(* its cooldown, and an added key with its flag; the configured keys are   *)
(* upserted over rows that keep both.                                      *)
THEOREM RestartsKeepRows == Spec => RestartKeepsRows
<1>1. TypeOK /\ Restart =>
        /\ db.rows \subseteq mem'.rows
        /\ \A k \in db.rows : mem'.cool[k] = db.cool[k]
        /\ \A k \in db.rows \ ConfigKeys : k \in mem'.disabled <=> k \in db.disabled
  <2> SUFFICES ASSUME TypeOK, Restart
               PROVE  /\ db.rows \subseteq mem'.rows
                      /\ \A k \in db.rows : mem'.cool[k] = db.cool[k]
                      /\ \A k \in db.rows \ ConfigKeys :
                           k \in mem'.disabled <=> k \in db.disabled
    OBVIOUS
  <2>1. /\ mem'.rows = db.rows \cup ConfigKeys
        /\ mem'.disabled = (db.disabled \ ConfigKeys) \cup ConfigDisabled
        /\ mem'.cool = db.cool
    BY DEF TypeOK, Tables, Restart, UpsertKeys
  <2>2. QED
    BY <2>1, KeysAssumption
<1>2. QED
  BY <1>1, TypeCorrect, PTL DEF RestartKeepsRows

----------------------------------------------------------------------------
(* One admin at a time.  ReloadedFromDatabase is not inductive by itself:  *)
(* what makes it so is that the snapshot a reload has read still shows the *)
(* table while it waits for the lock, which a second admin would break.    *)
OneAdmin == \A a, b \in Admins : a = b

SnapshotsFresh ==
    \A a \in Admins : adm[a].pc = "install" => SameKeys(adm[a].snap, db)

FreshInv == TypeOK /\ SnapshotsFresh /\ ReloadedFromDatabase

(* A step of a request leaves rows and flags of both copies alone.         *)
LEMMA RequestKeepsKeys ==
    ASSUME TypeOK, NEW r \in Requests, Start(r) \/ RequestStep(r)
    PROVE  /\ SameKeys(db', db) /\ SameKeys(mem', mem)
           /\ UNCHANGED <<adm, unsynced>>
<1>1. db \in Tables /\ mem \in Tables
  BY DEF TypeOK
<1>2. CASE Start(r)
  BY <1>2 DEF Start, SameKeys
<1>3. ASSUME NEW k \in KeyIds, Pick(r, k)
      PROVE  UNCHANGED <<db, mem, adm, unsynced>>
  BY <1>3 DEF Pick
<1>4. CASE NoKeyAvailable(r)
  BY <1>4 DEF NoKeyAvailable, SameKeys
<1>5. ASSUME NEW k, NEW t, NEW table \in Tables
      PROVE  SameKeys(SetCooldown(table, k, t), table)
  BY DEF SetCooldown, SameKeys, Tables
<1>6. ASSUME NEW o \in Outcomes, NEW stored \in BOOLEAN, MarkSuccess(r, o, stored)
      PROVE  /\ SameKeys(db', db) /\ SameKeys(mem', mem)
             /\ UNCHANGED <<adm, unsynced>>
  BY <1>1, <1>5, <1>6 DEF MarkSuccess, SameKeys
<1>7. ASSUME NEW o \in Outcomes, MarkFailure(r, o)
      PROVE  /\ SameKeys(db', db) /\ SameKeys(mem', mem)
             /\ UNCHANGED <<adm, unsynced>>
  BY <1>1, <1>5, <1>7 DEF MarkFailure, SameKeys
<1>8. ASSUME NEW stored \in BOOLEAN, PersistFailure(r, stored)
      PROVE  /\ SameKeys(db', db) /\ SameKeys(mem', mem)
             /\ UNCHANGED <<adm, unsynced>>
  BY <1>1, <1>5, <1>8 DEF PersistFailure, SameKeys
<1>9. QED
  BY <1>2, <1>3, <1>4, <1>6, <1>7, <1>8 DEF RequestStep, SameKeys

LEMMA AdminKeepsFresh ==
    ASSUME OneAdmin, FreshInv, NEW a \in Admins, AdminStep(a)
    PROVE  SnapshotsFresh' /\ ReloadedFromDatabase'
<1>0. /\ \A b \in Admins : b = a
      /\ adm \in [Admins -> [pc: {"idle", "list", "install"}, snap: Tables]]
  BY DEF OneAdmin, FreshInv, TypeOK
<1>1. ASSUME NEW table, WriteRow(a, table)
      PROVE  SnapshotsFresh' /\ ReloadedFromDatabase'
  <2>1. adm'[a].pc = "list"
    BY <1>0, <1>1 DEF WriteRow
  <2>2. QED
    BY <1>0, <2>1 DEF SnapshotsFresh, ReloadedFromDatabase, AdminsIdle
<1>2. CASE ListKeys(a)
  <2>1. adm'[a].pc = "install" /\ adm'[a].snap = db /\ db' = db
    BY <1>0, <1>2 DEF ListKeys
  <2>2. QED
    BY <1>0, <2>1 DEF SnapshotsFresh, ReloadedFromDatabase, AdminsIdle, SameKeys
<1>3. CASE ListFails(a)
  <2>1. adm'[a].pc = "idle" /\ unsynced' = TRUE
    BY <1>0, <1>3 DEF ListFails, IdleAdmin
  <2>2. QED
    BY <1>0, <2>1 DEF SnapshotsFresh, ReloadedFromDatabase
<1>4. CASE Install(a)
  <2>1. adm'[a].pc = "idle" /\ mem' = adm[a].snap /\ db' = db
    BY <1>0, <1>4 DEF Install, IdleAdmin
  <2>2. SameKeys(adm[a].snap, db)
    BY <1>4 DEF Install, FreshInv, SnapshotsFresh
  <2>3. QED
    BY <1>0, <2>1, <2>2 DEF SnapshotsFresh, ReloadedFromDatabase, SameKeys
<1>5. QED
  BY <1>1, <1>2, <1>3, <1>4 DEF AdminStep, AddKey, SetDisabled, RemoveKey

LEMMA FreshStep == OneAdmin /\ FreshInv /\ [Next]_vars => FreshInv'
<1> SUFFICES ASSUME OneAdmin, FreshInv, [Next]_vars PROVE FreshInv'
  OBVIOUS
<1>1. TypeOK'
  <2>1. CASE UNCHANGED vars
    BY <2>1 DEF FreshInv, TypeOK, HeldKeyOK, vars
  <2>2. CASE Next
    BY <2>2, RequestTypeOK, AdminTypeOK, RestartTypeOK, TickTypeOK DEF Next, FreshInv
  <2>3. QED
    BY <2>1, <2>2
<1>2. SnapshotsFresh' /\ ReloadedFromDatabase'
  <2>1. ASSUME NEW r \in Requests, Start(r) \/ RequestStep(r)
        PROVE  SnapshotsFresh' /\ ReloadedFromDatabase'
    <3>1. /\ SameKeys(db', db) /\ SameKeys(mem', mem)
          /\ UNCHANGED <<adm, unsynced>>
      BY <2>1, RequestKeepsKeys DEF FreshInv
    <3>2. QED
      BY <3>1 DEF FreshInv, SnapshotsFresh, ReloadedFromDatabase, AdminsIdle, SameKeys
  <2>2. ASSUME NEW a \in Admins, AdminStep(a)
        PROVE  SnapshotsFresh' /\ ReloadedFromDatabase'
    BY <2>2, AdminKeepsFresh
  <2>3. CASE Restart
    BY <2>3 DEF Restart, SnapshotsFresh, ReloadedFromDatabase, SameKeys, IdleAdmin
  <2>4. CASE Tick
    <3>1. SameKeys(db', db) /\ SameKeys(mem', mem) /\ unsynced' = unsynced
      BY <2>4, TickTableOK DEF Tick, FreshInv, TypeOK, SameKeys
    <3>2. \A a \in Admins : adm'[a].pc = adm[a].pc /\ SameKeys(adm'[a].snap, adm[a].snap)
      BY <2>4, TickTableOK DEF Tick, FreshInv, TypeOK, SameKeys
    <3>3. QED
      BY <3>1, <3>2 DEF FreshInv, SnapshotsFresh, ReloadedFromDatabase, AdminsIdle, SameKeys
  <2>5. CASE UNCHANGED vars
    BY <2>5 DEF vars, FreshInv, SnapshotsFresh, ReloadedFromDatabase, AdminsIdle, SameKeys
  <2>6. QED
    BY <2>1, <2>2, <2>3, <2>4, <2>5 DEF Next
<1>3. QED
  BY <1>1, <1>2 DEF FreshInv

LEMMA FreshAlways ==
    ASSUME OneAdmin
    PROVE  Spec => []FreshInv
<1>1. Init => FreshInv
  BY InitTypeOK DEF Init, FreshInv, SnapshotsFresh, ReloadedFromDatabase, SameKeys, IdleAdmin
<1>2. FreshInv /\ [Next]_vars => FreshInv'
  BY FreshStep
<1>3. QED
  BY <1>1, <1>2, PTL DEF Spec

(* With one admin at a time, the pool shows the table whenever no admin    *)
(* call is in progress and the last one did not fail half-way.             *)
THEOREM PoolFollowsDatabase ==
    ASSUME OneAdmin
    PROVE  Spec => []ReloadedFromDatabase
<1>1. FreshInv => ReloadedFromDatabase
  BY DEF FreshInv
<1>2. QED
  BY <1>1, FreshAlways, PTL

(* Hence no request is handed a key that is disabled or deleted once the   *)
(* admin's call has answered.                                              *)
THEOREM DisabledKeysUnused ==
    ASSUME OneAdmin
    PROVE  Spec => PicksEnabledKey
<1>1. FreshInv => \A r \in Requests, k \in KeyIds :
                    Pick(r, k) /\ AdminsIdle /\ ~unsynced
                      => k \in db.rows \ db.disabled
  BY DEF FreshInv, ReloadedFromDatabase, SameKeys, Pick, Available
<1>2. QED
  BY <1>1, FreshAlways, PTL DEF PicksEnabledKey

----------------------------------------------------------------------------
(* A single client and no admin.  The retry then always switches keys,     *)
(* because the pool's cooldown of the key that failed runs at least as     *)
(* long as the failure's own.  The run keypool_retry shows that a second   *)
(* client is enough to break it.                                           *)
Alone == Admins = {} /\ \A q, r \in Requests : q = r

FailedKeyCools ==
    \A r \in Requests :
       /\ req[r].pc = "call" => req[r].live
       /\ req[r].pc \in {"persist", "pick"} /\ req[r].left > 0
            => /\ req[r].key \in mem.rows
               /\ mem.cool[req[r].key] >= req[r].left

LEMMA LessMonotone == \A s, t \in Time : s >= t => Less(s) >= Less(t)
BY FailoverAssumption DEF Time, Less

LEMMA RequestKeepsCooling ==
    ASSUME Alone, TypeOK, FailedKeyCools, NEW r \in Requests, Start(r) \/ RequestStep(r)
    PROVE  FailedKeyCools'
<1>0. /\ \A q \in Requests : q = r
      /\ req \in [Requests -> RequestStates]
      /\ mem \in Tables
      /\ HeldKeyOK(r)
  BY DEF Alone, TypeOK
<1>1. CASE Start(r)
  BY <1>0, <1>1 DEF Start, FailedKeyCools, IdleRequest
<1>2. ASSUME NEW k \in KeyIds, Pick(r, k) PROVE FailedKeyCools'
  BY <1>0, <1>2 DEF Pick, FailedKeyCools, RequestStates
<1>3. CASE NoKeyAvailable(r)
  BY <1>0, <1>3 DEF NoKeyAvailable, FailedKeyCools, IdleRequest
<1>4. ASSUME NEW o \in Outcomes, NEW stored \in BOOLEAN, MarkSuccess(r, o, stored)
      PROVE  FailedKeyCools'
  BY <1>0, <1>4 DEF MarkSuccess, FailedKeyCools, IdleRequest
<1>5. ASSUME NEW o \in Outcomes, MarkFailure(r, o) PROVE FailedKeyCools'
  <2>1. /\ req'[r].key = req[r].key /\ req'[r].pc = "persist"
        /\ req'[r].left = IF o = "retryable" THEN CoolDown ELSE 0
    BY <1>0, <1>5 DEF MarkFailure, RequestStates
  <2>2. req[r].live /\ req[r].key \in mem.rows /\ req[r].key \in KeyIds
    BY <1>0, <1>5 DEF MarkFailure, FailedKeyCools, HeldKeyOK
  <2>3. CASE o = "retryable"
    <3>1. mem' = [mem EXCEPT !.cool[req[r].key] = CoolDown]
      BY <1>5, <2>2, <2>3 DEF MarkFailure, SetCooldown
    <3>2. mem'.rows = mem.rows /\ mem'.cool[req[r].key] = CoolDown
      BY <1>0, <2>2, <3>1 DEF Tables
    <3>3. QED
      BY <1>0, <2>1, <2>2, <2>3, <3>2, FailoverAssumption DEF FailedKeyCools
  <2>4. CASE o # "retryable"
    BY <1>0, <2>1, <2>4 DEF FailedKeyCools
  <2>5. QED
    BY <2>3, <2>4
<1>6. ASSUME NEW stored \in BOOLEAN, PersistFailure(r, stored) PROVE FailedKeyCools'
  BY <1>0, <1>6 DEF PersistFailure, FailedKeyCools, IdleRequest, NextAttempt, RequestStates
<1>7. QED
  BY <1>1, <1>2, <1>3, <1>4, <1>5, <1>6 DEF RequestStep

LEMMA CoolingStep ==
    Alone /\ TypeOK /\ FailedKeyCools /\ [Next]_vars => FailedKeyCools'
<1> SUFFICES ASSUME Alone, TypeOK, FailedKeyCools, [Next]_vars PROVE FailedKeyCools'
  OBVIOUS
<1>1. ASSUME NEW r \in Requests, Start(r) \/ RequestStep(r) PROVE FailedKeyCools'
  BY <1>1, RequestKeepsCooling
<1>2. ASSUME NEW a \in Admins, AdminStep(a) PROVE FailedKeyCools'
  BY DEF Alone
<1>3. CASE Restart
  BY <1>3 DEF Restart, FailedKeyCools, IdleRequest
<1>4. CASE Tick
  <2>1. ASSUME NEW r \in Requests
        PROVE  /\ req[r].left \in Time
               /\ req'[r].pc = req[r].pc /\ req'[r].live = req[r].live
               /\ req'[r].key = req[r].key /\ req'[r].left = Less(req[r].left)
    BY <1>4 DEF Tick, TypeOK, RequestStates
  <2>2. ASSUME NEW k \in mem.rows
        PROVE  /\ mem'.rows = mem.rows
               /\ mem.cool[k] \in Time /\ mem'.cool[k] = Less(mem.cool[k])
    BY <1>4 DEF Tick, TickTable, TypeOK, Tables
  <2>3. ASSUME NEW r \in Requests, req'[r].pc \in {"persist", "pick"}, req'[r].left > 0
        PROVE  /\ req'[r].key \in mem'.rows
               /\ mem'.cool[req'[r].key] >= req'[r].left
    <3>1. req[r].left > 0
      BY <2>1, <2>3, FailoverAssumption DEF Less, Time
    <3>2. req[r].key \in mem.rows /\ mem.cool[req[r].key] >= req[r].left
      BY <2>1, <2>3, <3>1 DEF FailedKeyCools
    <3>3. QED
      BY <2>1, <2>2, <3>2, LessMonotone
  <2>4. QED
    BY <2>1, <2>3 DEF FailedKeyCools
<1>5. CASE UNCHANGED vars
  BY <1>5 DEF vars, FailedKeyCools
<1>6. QED
  BY <1>1, <1>2, <1>3, <1>4, <1>5 DEF Next

(* A client that is alone never sees its retry sent to the key that just   *)
(* failed, whatever the number of keys and the length of the cooldown.     *)
THEOREM RetrySwitchesKeyAlone ==
    ASSUME Alone
    PROVE  Spec => RetrySwitchesKey
<1>1. Init => FailedKeyCools
  BY DEF Init, FailedKeyCools, IdleRequest
<1>2. TypeOK /\ FailedKeyCools =>
        \A r \in Requests, k \in KeyIds :
          Pick(r, k) /\ req[r].attempt > 0 /\ req[r].left > 0 => k # req[r].key
  BY FailoverAssumption DEF FailedKeyCools, Pick, Available, TypeOK, RequestStates, Tables, Time
<1>3. TypeOK /\ FailedKeyCools /\ [Next]_vars => FailedKeyCools'
  BY CoolingStep
<1>4. QED
  BY <1>1, <1>2, <1>3, TypeCorrect, PTL DEF Spec, RetrySwitchesKey
============================================================================
