----------------------------- MODULE AnswerCache -----------------------------
(***************************************************************************)
(* What a cache of answers promises: what it hands out was kept under the  *)
(* same key, what it keeps was answered by the upstream for that key, and  *)
(* a key that lost its answer gets one back only from the upstream.        *)
(* ResponseCache implements it.                                            *)
(***************************************************************************)
CONSTANTS Keys, Answers, NoAnswer, Clients

VARIABLES
    entry,   \* entry[k]: what the cache would hand out for k
    hand     \* hand[c]: what a client's handler holds
vars == <<entry, hand>>

Empty == [from |-> "nobody"]

Init ==
    /\ entry = [k \in Keys |-> NoAnswer]
    /\ hand = [c \in Clients |-> Empty]

Serve(c, k) ==
    /\ hand[c] = Empty /\ entry[k] # NoAnswer
    /\ hand' = [hand EXCEPT ![c] = [from |-> "cache", key |-> k, answer |-> entry[k]]]
    /\ UNCHANGED entry

Fetch(c, k, a) ==
    /\ hand[c] = Empty
    /\ hand' = [hand EXCEPT ![c] = [from |-> "upstream", key |-> k, answer |-> a]]
    /\ UNCHANGED entry

Keep(c) ==
    /\ hand[c].from = "upstream"
    /\ entry' = [entry EXCEPT ![hand[c].key] = hand[c].answer]
    /\ hand' = [hand EXCEPT ![c] = Empty]

(* Clients end, or the process does.                                       *)
Release ==
    /\ \A c \in Clients : hand'[c] \in {hand[c], Empty}
    /\ hand' = [c \in Clients |-> hand'[c]]
    /\ UNCHANGED entry

Forget ==
    /\ \A k \in Keys : entry'[k] \in {entry[k], NoAnswer}
    /\ entry' = [k \in Keys |-> entry'[k]]
    /\ UNCHANGED hand

Next ==
    \/ Release \/ Forget
    \/ \E c \in Clients :
         \/ Keep(c)
         \/ \E k \in Keys : Serve(c, k) \/ \E a \in Answers : Fetch(c, k, a)

Spec == Init /\ [][Next]_vars
============================================================================
