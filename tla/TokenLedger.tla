---------------------------- MODULE TokenLedger ----------------------------
(***************************************************************************)
(* What managed tokens promise, whoever races with whom: a token is issued *)
(* once, admits at most `limit' requests between two renewals, admits none *)
(* after it was withdrawn, stays withdrawn, and is removed only then.      *)
(* AuthTokens implements it.                                               *)
(***************************************************************************)
EXTENDS Naturals

CONSTANTS TokenIds, Limits   \* a limit of 0 is no limit

VARIABLES state, limit, used
vars == <<state, limit, used>>

Init ==
    /\ state = [t \in TokenIds |-> "none"]
    /\ limit = [t \in TokenIds |-> 0]
    /\ used = [t \in TokenIds |-> 0]

Issue(t, l) ==
    /\ state[t] = "none"
    /\ state' = [state EXCEPT ![t] = "active"]
    /\ limit' = [limit EXCEPT ![t] = l]
    /\ UNCHANGED used

Admit(t) ==
    /\ state[t] = "active"
    /\ limit[t] > 0 => used[t] < limit[t]
    /\ used' = [used EXCEPT ![t] = @ + 1]
    /\ UNCHANGED <<state, limit>>

Renew(t) ==
    /\ state[t] \in {"active", "revoked"}
    /\ used' = [used EXCEPT ![t] = 0]
    /\ UNCHANGED <<state, limit>>

Withdraw(t) ==
    /\ state[t] = "active"
    /\ state' = [state EXCEPT ![t] = "revoked"]
    /\ UNCHANGED <<limit, used>>

Remove(t) ==
    /\ state[t] = "revoked"
    /\ state' = [state EXCEPT ![t] = "deleted"]
    /\ UNCHANGED <<limit, used>>

Next == \E t \in TokenIds :
    \/ \E l \in Limits : Issue(t, l)
    \/ Admit(t) \/ Renew(t) \/ Withdraw(t) \/ Remove(t)

Spec == Init /\ [][Next]_vars
============================================================================
