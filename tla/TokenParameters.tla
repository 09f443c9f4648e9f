-------------------------- MODULE TokenParameters --------------------------
(* What the specification of managed tokens is parameterised by.           *)
EXTENDS Naturals

CONSTANTS
    TokenIds,    \* row ids, 32 random bits, never drawn twice
    Secrets,     \* raw tokens (and their hashes), 192 random bits, never drawn twice
    NoSecret,
    Limits,      \* the values of quota_limit an admin may give, 0 for none
    MaxServed    \* bound: admissions of a token without limit between two
                 \* resets are looked up while there are fewer

ASSUME TokensAssumption ==
    /\ NoSecret \notin Secrets
    /\ Limits \subseteq Nat
    /\ MaxServed \in Nat
============================================================================
