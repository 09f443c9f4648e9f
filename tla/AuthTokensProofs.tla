-------------------------- MODULE AuthTokensProofs --------------------------
(***************************************************************************)
(* Theorems about AuthTokens for every set of tokens, limits, requests and *)
(* admins.                                                                 *)
(***************************************************************************)
EXTENDS AuthTokens, TLAPS

(* Every action changes at most one row, one request or one admin; these   *)
(* are the parts of TypeOK an action can disturb.                          *)
RequestsHold(r) ==
    req[r].pc = "increment" =>
      tok[req[r].id].state # "none" /\ tok[req[r].id].limit = req[r].limit
AdminsHold(a) == adm[a].pc = "delete" => tok[adm[a].id].state \in {"revoked", "deleted"}

(* No step takes a row back to a state it has left, or changes a limit it  *)
(* has once got.                                                           *)
RowsAdvance ==
    \A t \in TokenIds :
       /\ tok[t].state # "none" => tok'[t].state # "none" /\ tok'[t].limit = tok[t].limit
       /\ tok[t].state \in {"revoked", "deleted"} => tok'[t].state \in {"revoked", "deleted"}

LEMMA HoldersKept ==
    ASSUME TypeOK, RowsAdvance
    PROVE  /\ \A r \in Requests : req'[r] \in {req[r], Idle} => RequestsHold(r)'
           /\ \A a \in Admins : adm'[a] \in {adm[a], Idle} => AdminsHold(a)'
<1>1. ASSUME NEW r \in Requests, req'[r] \in {req[r], Idle}
      PROVE  RequestsHold(r)'
  BY <1>1 DEF TypeOK, RowsAdvance, RequestsHold, HeldByRequests, Idle
<1>2. ASSUME NEW a \in Admins, adm'[a] \in {adm[a], Idle}
      PROVE  AdminsHold(a)'
  BY <1>2 DEF TypeOK, RowsAdvance, AdminsHold, HeldByAdmins, Idle
<1>3. QED
  BY <1>1, <1>2

LEMMA InitTypeOK == Init => TypeOK
BY DEF Init, TypeOK, NoRow, Rows, States, Expiries, Idle, HeldByRequests, HeldByAdmins

LEMMA RequestTypeOK ==
    ASSUME TypeOK, NEW r \in Requests, RequestStep(r)
    PROVE  TypeOK'
<1>0. /\ tok \in [TokenIds -> Rows]
      /\ served \in [TokenIds -> Nat]
      /\ req \in [Requests -> HeldByRequests]
      /\ \A q \in Requests : RequestsHold(q)
      /\ \A a \in Admins : AdminsHold(a)
  BY DEF TypeOK, RequestsHold, AdminsHold
<1>1. ASSUME NEW s \in Secrets, ValidateBearer(r, s) PROVE TypeOK'
  <2>1. PICK t \in TokenIds :
          /\ Exists(t)
          /\ req' = [req EXCEPT ![r] = [pc |-> "increment", id |-> t, limit |-> tok[t].limit]]
    BY <1>1 DEF ValidateBearer
  <2>2. req' \in [Requests -> HeldByRequests]
    BY <1>0, <2>1 DEF HeldByRequests, Rows
  <2>3. \A q \in Requests : RequestsHold(q)'
    BY <1>0, <1>1, <2>1 DEF ValidateBearer, RequestsHold, Exists
  <2>4. QED
    BY <1>1, <2>2, <2>3 DEF ValidateBearer, TypeOK, RequestsHold
<1>2. ASSUME req[r].pc = "increment", Admit(r),
             \/ UNCHANGED tok
             \/ Count(req[r].id)
      PROVE  TypeOK'
  <2>1. req[r].id \in TokenIds
    BY <1>0, <1>2 DEF HeldByRequests, Idle
  <2>2. tok' \in [TokenIds -> Rows] /\ RowsAdvance
    BY <1>0, <1>2, <2>1 DEF Count, Rows, RowsAdvance
  <2>3. served' \in [TokenIds -> Nat]
    BY <1>0, <1>2, <2>1 DEF Admit
  <2>4. /\ req' \in [Requests -> HeldByRequests]
        /\ \A q \in Requests : req'[q] \in {req[q], Idle}
        /\ \A a \in Admins : adm'[a] \in {adm[a], Idle}
    BY <1>0, <1>2 DEF Admit, HeldByRequests
  <2>5. QED
    BY <1>2, <2>2, <2>3, <2>4, HoldersKept DEF Admit, TypeOK, RequestsHold, AdminsHold
<1>3. CASE IncrementTokenUsage(r)
  BY <1>2, <1>3 DEF IncrementTokenUsage
<1>4. CASE AdmitUncounted(r)
  BY <1>2, <1>4 DEF AdmitUncounted
<1>5. ASSUME NEW failed \in BOOLEAN, Refuse(r, failed) PROVE TypeOK'
  <2>1. /\ req' \in [Requests -> HeldByRequests]
        /\ \A q \in Requests : req'[q] \in {req[q], Idle}
        /\ \A a \in Admins : adm'[a] \in {adm[a], Idle}
    BY <1>0, <1>5 DEF Refuse, HeldByRequests
  <2>2. RowsAdvance
    BY <1>5 DEF Refuse, RowsAdvance
  <2>3. QED
    BY <1>5, <2>1, <2>2, HoldersKept DEF Refuse, TypeOK, RequestsHold, AdminsHold
<1>6. QED
  BY <1>1, <1>3, <1>4, <1>5 DEF RequestStep

(* A step on the table alone keeps TypeOK when rows stay typed and advance.*)
LEMMA TableTypeOK ==
    ASSUME TypeOK, tok' \in [TokenIds -> Rows], RowsAdvance,
           issued' \subseteq Secrets, served' \in [TokenIds -> Nat],
           \A r \in Requests : req'[r] \in {req[r], Idle},
           \A a \in Admins : adm'[a] \in {adm[a], Idle},
           req' \in [Requests -> HeldByRequests], adm' \in [Admins -> HeldByAdmins]
    PROVE  TypeOK'
BY HoldersKept DEF TypeOK, RequestsHold, AdminsHold

LEMMA TokenTypeOK ==
    ASSUME TypeOK, NEW t \in TokenIds, TokenStep(t)
    PROVE  TypeOK'
<1>0. /\ tok \in [TokenIds -> Rows] /\ issued \subseteq Secrets
      /\ served \in [TokenIds -> Nat]
      /\ req \in [Requests -> HeldByRequests] /\ adm \in [Admins -> HeldByAdmins]
  BY DEF TypeOK
<1>1. ASSUME NEW s \in Secrets, NEW l \in Limits, NEW e \in Expiries, CreateToken(t, s, l, e)
      PROVE  TypeOK'
  <2>1. tok' \in [TokenIds -> Rows]
    BY <1>0, <1>1 DEF CreateToken, Rows, States
  <2>2. RowsAdvance
    BY <1>0, <1>1 DEF CreateToken, RowsAdvance
  <2>3. QED
    BY <1>0, <1>1, <2>1, <2>2, TableTypeOK DEF CreateToken
<1>2. ASSUME NEW s \in Secrets, RotateToken(t, s) PROVE TypeOK'
  <2>1. tok' \in [TokenIds -> Rows] /\ RowsAdvance
    BY <1>0, <1>2 DEF RotateToken, Rows, RowsAdvance
  <2>2. QED
    BY <1>0, <1>2, <2>1, TableTypeOK DEF RotateToken
<1>3. CASE ResetTokenQuota(t)
  <2>1. tok' \in [TokenIds -> Rows] /\ RowsAdvance
    BY <1>0, <1>3 DEF ResetTokenQuota, Rows, RowsAdvance
  <2>2. QED
    BY <1>0, <1>3, <2>1, TableTypeOK DEF ResetTokenQuota
<1>4. CASE Expire(t)
  <2>1. tok' \in [TokenIds -> Rows] /\ RowsAdvance
    BY <1>0, <1>4 DEF Expire, Rows, Expiries, RowsAdvance
  <2>2. QED
    BY <1>0, <1>4, <2>1, TableTypeOK DEF Expire
<1>5. QED
  BY <1>1, <1>2, <1>3, <1>4 DEF TokenStep

LEMMA AdminTypeOK ==
    ASSUME TypeOK, NEW a \in Admins, AdminStep(a)
    PROVE  TypeOK'
<1>0. /\ tok \in [TokenIds -> Rows]
      /\ req \in [Requests -> HeldByRequests] /\ adm \in [Admins -> HeldByAdmins]
      /\ \A b \in Admins : AdminsHold(b)
      /\ issued \subseteq Secrets /\ served \in [TokenIds -> Nat]
  BY DEF TypeOK, AdminsHold
<1>1. ASSUME NEW t \in TokenIds, FindTokenByID(a, t) PROVE TypeOK'
  <2>1. adm' \in [Admins -> HeldByAdmins]
    BY <1>0, <1>1 DEF FindTokenByID, HeldByAdmins
  <2>2. \A b \in Admins : AdminsHold(b)'
    BY <1>0, <1>1 DEF FindTokenByID, AdminsHold
  <2>3. QED
    BY <1>1, <2>1, <2>2 DEF FindTokenByID, TypeOK, AdminsHold
<1>2. ASSUME adm[a].pc # "idle" PROVE adm[a].id \in TokenIds
  BY <1>0, <1>2 DEF HeldByAdmins, Idle
<1>3. CASE RevokeToken(a)
  <2>1. adm' \in [Admins -> HeldByAdmins] /\ \A b \in Admins : adm'[b] \in {adm[b], Idle}
    BY <1>0, <1>3 DEF RevokeToken, HeldByAdmins
  <2>2. tok' \in [TokenIds -> Rows] /\ RowsAdvance
    BY <1>0, <1>2, <1>3 DEF RevokeToken, SetState, Rows, States, RowsAdvance
  <2>3. QED
    BY <1>0, <1>3, <2>1, <2>2, TableTypeOK DEF RevokeToken
<1>4. CASE DeleteToken(a)
  <2>1. adm' \in [Admins -> HeldByAdmins] /\ \A b \in Admins : adm'[b] \in {adm[b], Idle}
    BY <1>0, <1>4 DEF DeleteToken, HeldByAdmins
  <2>2. tok' \in [TokenIds -> Rows] /\ RowsAdvance
    BY <1>0, <1>2, <1>4 DEF DeleteToken, SetState, Rows, States, RowsAdvance
  <2>3. QED
    BY <1>0, <1>4, <2>1, <2>2, TableTypeOK DEF DeleteToken
<1>5. CASE AdminFails(a)
  <2>1. adm' \in [Admins -> HeldByAdmins] /\ \A b \in Admins : adm'[b] \in {adm[b], Idle}
    BY <1>0, <1>5 DEF AdminFails, HeldByAdmins
  <2>2. RowsAdvance
    BY <1>5 DEF AdminFails, RowsAdvance
  <2>3. QED
    BY <1>0, <1>5, <2>1, <2>2, TableTypeOK DEF AdminFails
<1>6. QED
  BY <1>1, <1>3, <1>4, <1>5 DEF AdminStep

LEMMA RestartTypeOK == TypeOK /\ Restart => TypeOK'
BY DEF TypeOK, Restart, Idle, HeldByRequests, HeldByAdmins

LEMMA NextTypeOK == TypeOK /\ [Next]_vars => TypeOK'
<1>1. TypeOK /\ UNCHANGED vars => TypeOK'
  BY DEF TypeOK, vars
<1>2. TypeOK /\ Next => TypeOK'
  BY RequestTypeOK, TokenTypeOK, AdminTypeOK, RestartTypeOK DEF Next
<1>3. QED
  BY <1>1, <1>2

(* Every row is well formed, and no handler is about to delete a row that  *)
(* is active, in every behaviour.                                          *)
THEOREM TypeCorrect == Spec => []TypeOK
BY InitTypeOK, NextTypeOK, PTL DEF Spec

----------------------------------------------------------------------------
(* Quotas.  QuotaHolds is inductive together with what it needs of rows    *)
(* that are not there yet: nobody was admitted on them.                    *)
QuotaInv ==
    /\ QuotaHolds
    /\ \A t \in TokenIds : tok[t].state = "none" => served[t] = 0 /\ tok[t].used = 0

LEMMA RowNumbers ==
    ASSUME TypeOK, NEW t \in TokenIds
    PROVE  tok[t].limit \in Nat /\ tok[t].used \in Nat /\ served[t] \in Nat
<1>1. tok[t] \in Rows /\ served[t] \in Nat
  BY DEF TypeOK
<1>2. Limits \cup {0} \subseteq Nat
  BY TokensAssumption
<1>3. QED
  BY <1>1, <1>2 DEF Rows

LEMMA CountKeepsQuota ==
    ASSUME TypeOK, QuotaInv, NEW r \in Requests, IncrementTokenUsage(r)
    PROVE  QuotaInv'
<1>0. req[r].id \in TokenIds
  BY DEF IncrementTokenUsage, TypeOK, HeldByRequests, Idle
<1> PICK t \in TokenIds : t = req[r].id
  BY <1>0
<1>1. /\ tok[t].limit = req[r].limit
      /\ tok \in [TokenIds -> Rows] /\ served \in [TokenIds -> Nat]
      /\ tok[t].limit \in Nat /\ tok[t].used \in Nat /\ served[t] \in Nat
  BY RowNumbers DEF IncrementTokenUsage, TypeOK
<1>2. tok[t].state = "active" /\ (tok[t].limit > 0 => tok[t].used < tok[t].limit)
  BY <1>1 DEF IncrementTokenUsage, MayCount
<1>3. /\ served' = [served EXCEPT ![t] = @ + 1]
      /\ tok' = [tok EXCEPT ![t] = [@ EXCEPT !.used = tok[t].used + 1]]
  BY DEF IncrementTokenUsage, Admit, Count
<1>4. /\ tok'[t].state = "active" /\ tok'[t].limit = tok[t].limit
      /\ tok'[t].used = tok[t].used + 1 /\ served'[t] = served[t] + 1
  BY <1>1, <1>2, <1>3 DEF Rows
<1>5. \A u \in TokenIds \ {t} : tok'[u] = tok[u] /\ served'[u] = served[u]
  BY <1>1, <1>3
<1>6. tok'[t].limit > 0 => tok'[t].used = served'[t] /\ served'[t] <= tok'[t].limit
  BY <1>1, <1>2, <1>4 DEF QuotaInv, QuotaHolds
<1>7. QED
  BY <1>4, <1>5, <1>6 DEF QuotaInv, QuotaHolds

LEMMA QuotaStep == TypeOK /\ QuotaInv /\ [Next]_vars => QuotaInv'
<1> SUFFICES ASSUME TypeOK, QuotaInv, [Next]_vars PROVE QuotaInv'
  OBVIOUS
<1>0. /\ tok \in [TokenIds -> Rows] /\ served \in [TokenIds -> Nat]
      /\ \A t \in TokenIds : tok[t].limit \in Nat
  BY RowNumbers DEF TypeOK
<1>1. ASSUME NEW r \in Requests, RequestStep(r) PROVE QuotaInv'
  <2>1. ASSUME NEW s \in Secrets, ValidateBearer(r, s) PROVE QuotaInv'
    BY <2>1 DEF ValidateBearer, QuotaInv, QuotaHolds
  <2>2. CASE IncrementTokenUsage(r)
    BY <2>2, CountKeepsQuota
  <2>3. CASE AdmitUncounted(r)
    <3>1. /\ req[r].id \in TokenIds
          /\ tok[req[r].id].limit = 0 /\ tok[req[r].id].state # "none"
      BY <2>3 DEF AdmitUncounted, TypeOK, HeldByRequests, Idle
    <3>2. QED
      BY <1>0, <2>3, <3>1 DEF AdmitUncounted, Admit, QuotaInv, QuotaHolds
  <2>4. ASSUME NEW failed \in BOOLEAN, Refuse(r, failed) PROVE QuotaInv'
    BY <2>4 DEF Refuse, QuotaInv, QuotaHolds
  <2>5. QED
    BY <1>1, <2>1, <2>2, <2>3, <2>4 DEF RequestStep
<1>2. ASSUME NEW t \in TokenIds, TokenStep(t) PROVE QuotaInv'
  <2>1. ASSUME NEW s \in Secrets, NEW l \in Limits, NEW e \in Expiries,
               CreateToken(t, s, l, e)
        PROVE  QuotaInv'
    <3>1. /\ tok'[t].state = "active" /\ tok'[t].limit = l /\ tok'[t].used = 0
          /\ served[t] = 0 /\ served' = served /\ l \in Nat
          /\ \A u \in TokenIds \ {t} : tok'[u] = tok[u]
      BY <1>0, <2>1, TokensAssumption DEF CreateToken, QuotaInv
    <3>2. QED
      BY <3>1 DEF QuotaInv, QuotaHolds
  <2>2. ASSUME NEW s \in Secrets, RotateToken(t, s) PROVE QuotaInv'
    BY <1>0, <2>2 DEF RotateToken, QuotaInv, QuotaHolds, Rows
  <2>3. CASE ResetTokenQuota(t)
    <3>1. /\ tok'[t].state = tok[t].state /\ tok'[t].limit = tok[t].limit
          /\ tok'[t].used = 0 /\ served'[t] = 0
          /\ \A u \in TokenIds \ {t} : tok'[u] = tok[u] /\ served'[u] = served[u]
      BY <1>0, <2>3 DEF ResetTokenQuota, Rows
    <3>2. QED
      BY <1>0, <3>1 DEF QuotaInv, QuotaHolds
  <2>4. CASE Expire(t)
    BY <1>0, <2>4 DEF Expire, QuotaInv, QuotaHolds, Rows
  <2>5. QED
    BY <1>2, <2>1, <2>2, <2>3, <2>4 DEF TokenStep
<1>3. ASSUME NEW a \in Admins, AdminStep(a) PROVE QuotaInv'
  <2>1. ASSUME NEW t \in TokenIds, FindTokenByID(a, t) PROVE QuotaInv'
    BY <2>1 DEF FindTokenByID, QuotaInv, QuotaHolds
  <2>2. CASE RevokeToken(a)
    BY <1>0, <2>2 DEF RevokeToken, SetState, Exists, QuotaInv, QuotaHolds, Rows
  <2>3. CASE DeleteToken(a)
    BY <1>0, <2>3 DEF DeleteToken, SetState, Exists, QuotaInv, QuotaHolds, Rows
  <2>4. CASE AdminFails(a)
    BY <2>4 DEF AdminFails, QuotaInv, QuotaHolds
  <2>5. QED
    BY <1>3, <2>1, <2>2, <2>3, <2>4 DEF AdminStep
<1>4. CASE Restart
  BY <1>4 DEF Restart, QuotaInv, QuotaHolds
<1>5. CASE UNCHANGED vars
  BY <1>5 DEF vars, QuotaInv, QuotaHolds
<1>6. QED
  BY <1>1, <1>2, <1>3, <1>4, <1>5 DEF Next

(* However many requests pass ValidateBearer on the last unit of a quota,  *)
(* a limited token admits no more than its limit between two resets.       *)
THEOREM QuotaAlwaysHolds == Spec => []QuotaHolds
<1>1. Init => QuotaInv
  BY DEF Init, QuotaInv, QuotaHolds, NoRow
<1>2. QuotaInv => QuotaHolds
  BY DEF QuotaInv
<1>3. QED
  BY <1>1, <1>2, TypeCorrect, QuotaStep, PTL DEF Spec

----------------------------------------------------------------------------
(* The ledger.  Each step is one of the ledger's on the row it changes, or *)
(* leaves the ledger alone: look-ups, refusals, rotations, expiries, the   *)
(* uncounted admissions and the first half of a delete.                    *)
LEMMA LedgerUnchanged ==
    ASSUME \A t \in TokenIds : /\ tok'[t].state = tok[t].state
                               /\ tok'[t].limit = tok[t].limit
                               /\ tok'[t].used = tok[t].used
    PROVE  UNCHANGED Ledger!vars
BY DEF Ledger!vars

LEMMA LedgerRequest ==
    ASSUME TypeOK, NEW r \in Requests, RequestStep(r)
    PROVE  [Ledger!Next]_(Ledger!vars)
<1>0. tok \in [TokenIds -> Rows] /\ req \in [Requests -> HeldByRequests]
  BY DEF TypeOK
<1>1. ASSUME UNCHANGED tok PROVE [Ledger!Next]_(Ledger!vars)
  BY <1>1, LedgerUnchanged
<1>2. CASE IncrementTokenUsage(r)
  <2>0. req[r].id \in TokenIds
    BY <1>0, <1>2 DEF IncrementTokenUsage, HeldByRequests, Idle
  <2> PICK t \in TokenIds : t = req[r].id
    BY <2>0
  <2>1. tok[t].limit = req[r].limit
    BY <1>2 DEF IncrementTokenUsage, TypeOK
  <2>2. tok[t].state = "active" /\ (tok[t].limit > 0 => tok[t].used < tok[t].limit)
    BY <1>2, <2>1 DEF IncrementTokenUsage, MayCount
  <2>3. tok' = [tok EXCEPT ![t] = [@ EXCEPT !.used = tok[t].used + 1]]
    BY <1>2 DEF IncrementTokenUsage, Count
  <2>4. /\ tok'[t].state = tok[t].state /\ tok'[t].limit = tok[t].limit
        /\ tok'[t].used = tok[t].used + 1
        /\ \A u \in TokenIds \ {t} : tok'[u] = tok[u]
    BY <1>0, <2>1, <2>3 DEF Rows
  <2>5. Ledger!Admit(t)
    BY <2>1, <2>2, <2>4 DEF Ledger!Admit
  <2>6. QED
    BY <2>1, <2>5 DEF Ledger!Next
<1>3. QED
  BY <1>1, <1>2 DEF RequestStep, ValidateBearer, AdmitUncounted, Refuse

LEMMA LedgerToken ==
    ASSUME TypeOK, QuotaInv, NEW t \in TokenIds, TokenStep(t)
    PROVE  [Ledger!Next]_(Ledger!vars)
<1>0. tok \in [TokenIds -> Rows]
  BY DEF TypeOK
<1>1. ASSUME NEW s \in Secrets, NEW l \in Limits, NEW e \in Expiries, CreateToken(t, s, l, e)
      PROVE  [Ledger!Next]_(Ledger!vars)
  <2>0. tok[t].used = 0
    BY <1>1 DEF CreateToken, QuotaInv
  <2>1. Ledger!Issue(t, l)
    BY <1>0, <1>1, <2>0 DEF CreateToken, Ledger!Issue
  <2>2. QED
    BY <2>1 DEF Ledger!Next
<1>2. ASSUME NEW s \in Secrets, RotateToken(t, s) PROVE [Ledger!Next]_(Ledger!vars)
  <2>1. \A u \in TokenIds : /\ tok'[u].state = tok[u].state /\ tok'[u].limit = tok[u].limit
                            /\ tok'[u].used = tok[u].used
    BY <1>0, <1>2 DEF RotateToken, Rows
  <2>2. QED
    BY <2>1, LedgerUnchanged
<1>3. CASE ResetTokenQuota(t)
  <2>1. /\ tok'[t].state = tok[t].state /\ tok'[t].limit = tok[t].limit
        /\ tok'[t].used = 0 /\ tok[t].state \in {"active", "revoked"}
        /\ \A u \in TokenIds \ {t} : tok'[u] = tok[u]
    BY <1>0, <1>3 DEF ResetTokenQuota, Exists, Rows
  <2>2. Ledger!Renew(t)
    BY <2>1 DEF Ledger!Renew
  <2>3. QED
    BY <2>2 DEF Ledger!Next
<1>4. CASE Expire(t)
  <2>1. \A u \in TokenIds : /\ tok'[u].state = tok[u].state /\ tok'[u].limit = tok[u].limit
                            /\ tok'[u].used = tok[u].used
    BY <1>0, <1>4 DEF Expire, Rows
  <2>2. QED
    BY <2>1, LedgerUnchanged
<1>5. QED
  BY <1>1, <1>2, <1>3, <1>4 DEF TokenStep

LEMMA LedgerAdmin ==
    ASSUME TypeOK, NEW a \in Admins, AdminStep(a)
    PROVE  [Ledger!Next]_(Ledger!vars)
<1>0. tok \in [TokenIds -> Rows] /\ adm \in [Admins -> HeldByAdmins]
  BY DEF TypeOK
<1>1. ASSUME UNCHANGED tok PROVE [Ledger!Next]_(Ledger!vars)
  BY <1>1, LedgerUnchanged
<1>2. ASSUME NEW t \in TokenIds, NEW s, Exists(t), SetState(t, s)
      PROVE  /\ tok'[t].state = s /\ tok'[t].limit = tok[t].limit /\ tok'[t].used = tok[t].used
             /\ \A u \in TokenIds \ {t} : tok'[u] = tok[u]
  BY <1>0, <1>2 DEF SetState, Rows
<1>3. CASE RevokeToken(a)
  <2>0. adm[a].id \in TokenIds
    BY <1>0, <1>3 DEF RevokeToken, HeldByAdmins, Idle
  <2> PICK t \in TokenIds : t = adm[a].id
    BY <2>0
  <2>1. SetState(t, "revoked")
    BY <1>3 DEF RevokeToken
  <2>2. CASE tok[t].state = "active"
    <3>1. Ledger!Withdraw(t)
      BY <1>2, <2>1, <2>2 DEF Exists, Ledger!Withdraw
    <3>2. QED
      BY <3>1 DEF Ledger!Next
  <2>3. CASE tok[t].state = "revoked"
    <3>1. \A u \in TokenIds : /\ tok'[u].state = tok[u].state /\ tok'[u].limit = tok[u].limit
                              /\ tok'[u].used = tok[u].used
      BY <1>2, <2>1, <2>3 DEF Exists
    <3>2. QED
      BY <3>1, LedgerUnchanged
  <2>4. CASE ~Exists(t)
    BY <1>1, <2>1, <2>4 DEF SetState
  <2>5. QED
    BY <2>2, <2>3, <2>4 DEF Exists
<1>4. CASE DeleteToken(a)
  <2>0. adm[a].id \in TokenIds /\ tok[adm[a].id].state \in {"revoked", "deleted"}
    BY <1>0, <1>4 DEF DeleteToken, HeldByAdmins, Idle, TypeOK
  <2> PICK t \in TokenIds : t = adm[a].id
    BY <2>0
  <2>1. SetState(t, "deleted")
    BY <1>4 DEF DeleteToken
  <2>2. CASE tok[t].state = "revoked"
    <3>1. Ledger!Remove(t)
      BY <1>2, <2>1, <2>2 DEF Exists, Ledger!Remove
    <3>2. QED
      BY <3>1 DEF Ledger!Next
  <2>3. CASE tok[t].state = "deleted"
    BY <1>1, <2>1, <2>3 DEF SetState, Exists
  <2>4. QED
    BY <2>0, <2>2, <2>3
<1>5. QED
  BY <1>1, <1>3, <1>4 DEF AdminStep, FindTokenByID, AdminFails

LEMMA LedgerStep ==
    TypeOK /\ QuotaInv /\ [Next]_vars => [Ledger!Next]_(Ledger!vars)
<1>1. ASSUME UNCHANGED tok PROVE [Ledger!Next]_(Ledger!vars)
  BY <1>1, LedgerUnchanged
<1>2. QED
  BY <1>1, LedgerRequest, LedgerToken, LedgerAdmin DEF Next, Restart, vars

(* Two statements per admission and per delete, and still every token is   *)
(* admitted, renewed, withdrawn and removed as if each were one step.      *)
THEOREM TokensImplementLedger == Spec => ImplementsLedger
<1>1. Init => Ledger!Init
  BY DEF Init, Ledger!Init, NoRow
<1>2. Init => QuotaInv
  BY DEF Init, QuotaInv, QuotaHolds, NoRow
<1>3. QED
  BY <1>1, <1>2, TypeCorrect, QuotaStep, LedgerStep, PTL
  DEF Spec, Ledger!Spec, ImplementsLedger

(* The handler's check and the DELETE are two statements, but what the     *)
(* check saw cannot be undone between them.                                *)
THEOREM OnlyRevokedDeleted == Spec => DeletedAfterRevoked
<1>1. TypeOK /\ QuotaInv /\ [Next]_vars =>
        [\A t \in TokenIds :
           tok'[t].state = "deleted" => tok[t].state \in {"revoked", "deleted"}]_vars
  <2> SUFFICES ASSUME TypeOK, QuotaInv, [Next]_vars, NEW t \in TokenIds,
                      tok'[t].state = "deleted"
               PROVE  tok[t].state \in {"revoked", "deleted"}
    OBVIOUS
  <2>1. [Ledger!Next]_(Ledger!vars)
    BY LedgerStep
  <2>2. CASE UNCHANGED Ledger!vars
    BY <2>2 DEF Ledger!vars
  <2>3. CASE Ledger!Next
    BY <2>3 DEF Ledger!Next, Ledger!Issue, Ledger!Admit, Ledger!Renew, Ledger!Withdraw,
                Ledger!Remove
  <2>4. QED
    BY <2>1, <2>2, <2>3
<1>2. Init => QuotaInv
  BY DEF Init, QuotaInv, QuotaHolds, NoRow
<1>3. QED
  BY <1>1, <1>2, TypeCorrect, QuotaStep, PTL DEF Spec, DeletedAfterRevoked

LEMMA ServedStep ==
    ASSUME TypeOK, [Next]_vars, NEW t \in TokenIds,
           tok[t].state # "active", tok[t].limit > 0
    PROVE  served'[t] <= served[t]
<1>0. served \in [TokenIds -> Nat]
  BY DEF TypeOK
<1>1. ASSUME UNCHANGED served PROVE served'[t] <= served[t]
  BY <1>0, <1>1
<1>2. ASSUME NEW r \in Requests, req[r].pc = "increment", req[r].id # t, Admit(r)
      PROVE  served'[t] <= served[t]
  BY <1>0, <1>2 DEF Admit
<1>3. ASSUME NEW r \in Requests, IncrementTokenUsage(r) PROVE served'[t] <= served[t]
  <2>1. tok[req[r].id].state = "active"
    BY <1>3 DEF IncrementTokenUsage, MayCount
  <2>2. QED
    BY <1>2, <1>3, <2>1 DEF IncrementTokenUsage
<1>4. ASSUME NEW r \in Requests, AdmitUncounted(r) PROVE served'[t] <= served[t]
  <2>1. tok[req[r].id].limit = 0
    BY <1>4 DEF AdmitUncounted, TypeOK
  <2>2. QED
    BY <1>2, <1>4, <2>1 DEF AdmitUncounted
<1>5. ASSUME NEW u \in TokenIds, ResetTokenQuota(u) PROVE served'[t] <= served[t]
  BY <1>0, <1>5 DEF ResetTokenQuota
<1>6. QED
  BY <1>1, <1>3, <1>4, <1>5
  DEF Next, RequestStep, TokenStep, AdminStep, ValidateBearer, Refuse, CreateToken,
      RotateToken, Expire, FindTokenByID, RevokeToken, DeleteToken, AdminFails, Restart, vars

(* A revoked token stays revoked until it is deleted, and a limited one    *)
(* admits nobody any more, whatever was looked up before.                  *)
THEOREM RevocationAlwaysHolds == Spec => RevocationHolds
<1>1. TypeOK /\ QuotaInv /\ [Next]_vars =>
        [\A t \in TokenIds :
           /\ tok[t].state = "revoked" => tok'[t].state \in {"revoked", "deleted"}
           /\ tok[t].state # "active" /\ tok[t].limit > 0 => served'[t] <= served[t]]_vars
  <2> SUFFICES ASSUME TypeOK, QuotaInv, [Next]_vars, NEW t \in TokenIds
               PROVE  /\ tok[t].state = "revoked" => tok'[t].state \in {"revoked", "deleted"}
                      /\ tok[t].state # "active" /\ tok[t].limit > 0
                           => served'[t] <= served[t]
    OBVIOUS
  <2>1. [Ledger!Next]_(Ledger!vars)
    BY LedgerStep
  <2>2. CASE UNCHANGED Ledger!vars
    BY <2>2, ServedStep DEF Ledger!vars
  <2>3. CASE Ledger!Next
    BY <2>3, ServedStep
    DEF Ledger!Next, Ledger!Issue, Ledger!Admit, Ledger!Renew, Ledger!Withdraw, Ledger!Remove
  <2>4. QED
    BY <2>1, <2>2, <2>3
<1>2. Init => QuotaInv
  BY DEF Init, QuotaInv, QuotaHolds, NoRow
<1>3. QED
  BY <1>1, <1>2, TypeCorrect, QuotaStep, PTL DEF Spec, RevocationHolds
============================================================================
