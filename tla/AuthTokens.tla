----------------------------- MODULE AuthTokens -----------------------------
(***************************************************************************)
(* Managed bearer tokens: the tokens table (internal/store/sqlite.go), the *)
(* admin handlers that change it (internal/handler/tokens.go) and the      *)
(* middleware that admits requests (internal/server/middleware.go).        *)
(*                                                                         *)
(* The database runs one statement at a time, so a statement is a step.    *)
(* Admission takes two, the look-up of ValidateBearer and the update of    *)
(* IncrementTokenUsage; so does the two-stage delete of RevokeToken.       *)
(* Everything else happens between them.                                   *)
(***************************************************************************)
EXTENDS TokenParameters

CONSTANTS
    Requests,    \* requests that carry a managed token
    Admins       \* admin handlers

VARIABLES
    tok,       \* the tokens table; "none" and "deleted" rows do not exist
    issued,    \* the secrets drawn so far
    req,       \* what every request holds between its two statements
    adm,       \* what every admin holds between its two statements
    served     \* history: requests admitted on a token since its last reset

vars == <<tok, issued, req, adm, served>>

States == {"none", "active", "revoked", "deleted"}
Expiries == {"never", "later", "past"}
Rows == [state: States, secret: Secrets \cup {NoSecret}, limit: Limits \cup {0},
         used: Nat, expiry: Expiries]

NoRow == [state |-> "none", secret |-> NoSecret, limit |-> 0, used |-> 0,
          expiry |-> "never"]

Exists(t) == tok[t].state \in {"active", "revoked"}

Idle == [pc |-> "idle"]

Init ==
    /\ tok = [t \in TokenIds |-> NoRow]
    /\ issued = {}
    /\ req = [r \in Requests |-> Idle]
    /\ adm = [a \in Admins |-> Idle]
    /\ served = [t \in TokenIds |-> 0]

----------------------------------------------------------------------------
(* The middleware.                                                         *)

(* ValidateBearer's three refusals: revoked, expired, quota used up.       *)
Usable(row) ==
    /\ row.state = "active"
    /\ row.expiry # "past"
    /\ row.limit > 0 => row.used < row.limit

(* FindTokenByHash and the checks on the row read; a request that is       *)
(* refused here changes nothing and is not a step.                         *)
ValidateBearer(r, s) ==
    /\ req[r].pc = "idle"
    /\ \E t \in TokenIds :
         /\ Exists(t) /\ tok[t].secret = s
         /\ Usable(tok[t])
         /\ tok[t].limit = 0 => served[t] < MaxServed
         /\ req' = [req EXCEPT ![r] = [pc |-> "increment", id |-> t,
                                       limit |-> tok[t].limit]]
    /\ UNCHANGED <<tok, issued, adm, served>>

(* Mutants: the update without one of its conditions.                      *)
MayCountUnrevoked(t, l) == tok[t].state = "active"
MayCountBelowLimit(t, l) == Exists(t) /\ (l > 0 => tok[t].used < l)

(* WHERE id = ? AND revoked = 0 (AND quota_used < ?)                       *)
MayCount(t, l) == tok[t].state = "active" /\ (l > 0 => tok[t].used < l)

Admit(r) ==
    /\ served' = [served EXCEPT ![req[r].id] = @ + 1]
    /\ req' = [req EXCEPT ![r] = Idle]
    /\ UNCHANGED <<issued, adm>>

Count(t) == tok' = [tok EXCEPT ![t] = [@ EXCEPT !.used = tok[t].used + 1]]

(* IncrementTokenUsage when the update finds its row.                      *)
IncrementTokenUsage(r) ==
    /\ req[r].pc = "increment"
    /\ MayCount(req[r].id, req[r].limit)
    /\ Count(req[r].id)
    /\ Admit(r)

(* Without a limit nobody looks at the number of rows the update changed.  *)
AdmitUncounted(r) ==
    /\ req[r].pc = "increment"
    /\ req[r].limit = 0
    /\ ~MayCount(req[r].id, 0)
    /\ UNCHANGED tok
    /\ Admit(r)

(* No row, with a limit; or the statement failed: 429 either way.          *)
Refuse(r, failed) ==
    /\ req[r].pc = "increment"
    /\ failed \/ (req[r].limit > 0 /\ ~MayCount(req[r].id, req[r].limit))
    /\ req' = [req EXCEPT ![r] = Idle]
    /\ UNCHANGED <<tok, issued, adm, served>>

----------------------------------------------------------------------------
(* The admin handlers.                                                     *)
CreateToken(t, s, l, e) ==
    /\ tok[t].state = "none" /\ s \notin issued
    /\ tok' = [tok EXCEPT ![t] = [state |-> "active", secret |-> s, limit |-> l,
                                  used |-> 0, expiry |-> e]]
    /\ issued' = issued \cup {s}
    /\ UNCHANGED <<req, adm, served>>

(* Mutant: rotating also revives the token and refills it.                 *)
RotateTokenAnew(t, s) ==
    /\ s \notin issued
    /\ tok' = IF Exists(t)
              THEN [tok EXCEPT ![t] = [@ EXCEPT !.secret = s, !.state = "active", !.used = 0]]
              ELSE tok
    /\ issued' = issued \cup {s}
    /\ UNCHANGED <<req, adm, served>>

RotateToken(t, s) ==
    /\ s \notin issued
    /\ tok' = IF Exists(t) THEN [tok EXCEPT ![t] = [@ EXCEPT !.secret = s]] ELSE tok
    /\ issued' = issued \cup {s}
    /\ UNCHANGED <<req, adm, served>>

ResetTokenQuota(t) ==
    /\ Exists(t)
    /\ tok' = [tok EXCEPT ![t] = [@ EXCEPT !.used = 0]]
    /\ served' = [served EXCEPT ![t] = 0]
    /\ UNCHANGED <<issued, req, adm>>

(* Mutant: the handler deletes what it finds active.                       *)
FindTokenByIDSwapped(a, t) ==
    /\ adm[a].pc = "idle"
    /\ Exists(t)
    /\ adm' = [adm EXCEPT ![a] = [pc |-> IF tok[t].state = "revoked" THEN "revoke" ELSE "delete",
                                  id |-> t]]
    /\ UNCHANGED <<tok, issued, req, served>>

(* RevokeToken, first half: the row decides between soft and hard delete.  *)
FindTokenByID(a, t) ==
    /\ adm[a].pc = "idle"
    /\ Exists(t)
    /\ adm' = [adm EXCEPT ![a] = [pc |-> IF tok[t].state = "revoked" THEN "delete" ELSE "revoke",
                                  id |-> t]]
    /\ UNCHANGED <<tok, issued, req, served>>

SetState(t, s) == tok' = IF Exists(t) THEN [tok EXCEPT ![t] = [@ EXCEPT !.state = s]] ELSE tok

RevokeToken(a) ==
    /\ adm[a].pc = "revoke"
    /\ SetState(adm[a].id, "revoked")
    /\ adm' = [adm EXCEPT ![a] = Idle]
    /\ UNCHANGED <<issued, req, served>>

DeleteToken(a) ==
    /\ adm[a].pc = "delete"
    /\ SetState(adm[a].id, "deleted")
    /\ adm' = [adm EXCEPT ![a] = Idle]
    /\ UNCHANGED <<issued, req, served>>

(* The second statement fails: 500, and the row stays as it was.           *)
AdminFails(a) ==
    /\ adm[a].pc # "idle"
    /\ adm' = [adm EXCEPT ![a] = Idle]
    /\ UNCHANGED <<tok, issued, req, served>>

Expire(t) ==
    /\ tok[t].expiry = "later"
    /\ tok' = [tok EXCEPT ![t] = [@ EXCEPT !.expiry = "past"]]
    /\ UNCHANGED <<issued, req, adm, served>>

(* A restart drops what handlers hold; the table is on disk.               *)
Restart ==
    /\ req' = [r \in Requests |-> Idle]
    /\ adm' = [a \in Admins |-> Idle]
    /\ UNCHANGED <<tok, issued, served>>

RequestStep(r) ==
    \/ \E s \in Secrets : ValidateBearer(r, s)
    \/ IncrementTokenUsage(r)
    \/ AdmitUncounted(r)
    \/ \E failed \in BOOLEAN : Refuse(r, failed)

TokenStep(t) ==
    \/ \E s \in Secrets, l \in Limits, e \in Expiries : CreateToken(t, s, l, e)
    \/ \E s \in Secrets : RotateToken(t, s)
    \/ ResetTokenQuota(t)
    \/ Expire(t)

AdminStep(a) ==
    \/ \E t \in TokenIds : FindTokenByID(a, t)
    \/ RevokeToken(a) \/ DeleteToken(a) \/ AdminFails(a)

Next ==
    \/ \E r \in Requests : RequestStep(r)
    \/ \E t \in TokenIds : TokenStep(t)
    \/ \E a \in Admins : AdminStep(a)
    \/ Restart

Spec == Init /\ [][Next]_vars

----------------------------------------------------------------------------
HeldByRequests == {Idle} \cup [pc: {"increment"}, id: TokenIds, limit: Limits \cup {0}]
HeldByAdmins == {Idle} \cup [pc: {"revoke", "delete"}, id: TokenIds]

(* Rows have their columns' types; a request between its statements holds  *)
(* the id and the limit of a row that is or was there; a hard delete is    *)
(* pending only for a row that is revoked or gone.                         *)
TypeOK ==
    /\ tok \in [TokenIds -> Rows]
    /\ issued \subseteq Secrets
    /\ served \in [TokenIds -> Nat]
    /\ req \in [Requests -> HeldByRequests]
    /\ adm \in [Admins -> HeldByAdmins]
    /\ \A r \in Requests : req[r].pc = "increment" =>
         tok[req[r].id].state # "none" /\ tok[req[r].id].limit = req[r].limit
    /\ \A a \in Admins : adm[a].pc = "delete" =>
         tok[adm[a].id].state \in {"revoked", "deleted"}

(* Between two resets a limited token admits no more requests than its     *)
(* limit, and its counter shows exactly those, although every request that *)
(* raced for the last unit passed ValidateBearer (middleware.go 109-115).  *)
QuotaHolds ==
    \A t \in TokenIds :
       tok[t].limit > 0 => tok[t].used = served[t] /\ served[t] <= tok[t].limit

(* A revoked token comes back neither by a rotation nor by a reset, and a  *)
(* limited one admits nobody from then on, not even a request that passed  *)
(* ValidateBearer before (tokens.go 132, sqlite.go 432).                   *)
RevocationHolds ==
    [][\A t \in TokenIds :
         /\ tok[t].state = "revoked" => tok'[t].state \in {"revoked", "deleted"}
         /\ tok[t].state # "active" /\ tok[t].limit > 0 => served'[t] <= served[t]]_vars

(* "Only callable after it has already been revoked" (sqlite.go 416): a    *)
(* row leaves the table only from the revoked state, although the handler  *)
(* read the state in an earlier statement.                                 *)
DeletedAfterRevoked ==
    [][\A t \in TokenIds :
         tok'[t].state = "deleted" => tok[t].state \in {"revoked", "deleted"}]_vars

(* "On success the row's quota_used counter is incremented"                *)
(* (middleware.go:52-53): the counter shows every request admitted.        *)
AdmittedRequestsCounted ==
    \A t \in TokenIds : Exists(t) => tok[t].used = served[t]

Ledger == INSTANCE TokenLedger WITH
    state <- [t \in TokenIds |-> tok[t].state],
    limit <- [t \in TokenIds |-> tok[t].limit],
    used <- [t \in TokenIds |-> tok[t].used]

(* The races add up to a ledger whose operations are atomic.               *)
ImplementsLedger == Ledger!Spec
============================================================================
