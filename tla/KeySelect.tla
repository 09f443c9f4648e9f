------------------------------ MODULE KeySelect ------------------------------
(***************************************************************************)
(* Which of the available keys Pool.Pick takes, by each of the strategies  *)
(* of internal/keypool/pool.go, and the quota snapshots that one of them   *)
(* reads.  KeyPool leaves the choice open and says when a key is           *)
(* available; here availability just changes.                              *)
(*                                                                         *)
(* Keys are numbered in the order of the pool's list, which is also the    *)
(* order of their labels: the strategy that uses one does not use the      *)
(* other.  Pick holds the pool's read lock, so that no key is disabled,    *)
(* benched or reloaded meanwhile, but a cooldown may end.  RecordQuota     *)
(* takes no lock.  A snapshot says how much remains and the second it was  *)
(* taken in; no snapshot is 0 remaining at second 0, as Pick takes it.     *)
(***************************************************************************)
EXTENDS Integers, Sequences, SequencesExt, FiniteSetsExt

CONSTANTS
    Keys,        \* positions in the list
    Weight,      \* the weight of each key
    Half,        \* half of the counter's range, 2^63 in the code
    Levels,      \* what may remain of a quota
    MaxPicks,    \* bound: picks between two changes of availability
    MaxRecords,  \* bound: snapshots recorded
    MaxSeconds   \* bound: seconds that pass

VARIABLES
    strategy,   \* Pool.strategy
    up,         \* the available keys
    rrCounter,  \* Pool.rrCounter, below 2 * Half
    quota,      \* the quota_state table
    now,        \* the current second
    pick,       \* a quota_aware Pick: its step, avail, scores, and the key taken
    records,    \* snapshots recorded
    touched,    \* history: keys recorded, or not read, since the Pick began
    served,     \* history: each key's picks by counter since availability changed
    taken       \* history: all of them

vars == <<strategy, up, rrCounter, quota, now, pick, records, touched, served, taken>>

NoQuota == [rem |-> 0, seen |-> 0]
InOrder(S) ==
    CHOOSE s \in [1..Cardinality(S) -> S] : \A i, j \in DOMAIN s : i < j => s[i] < s[j]

(* The weights of the first so many keys, and of all.                      *)
Passed(avail) ==
    LET sum[i \in 0..Len(avail)] == IF i = 0 THEN 0 ELSE sum[i-1] + Weight[avail[i]]
    IN  sum
WeightOf(avail) == Passed(avail)[Len(avail)]

Init ==
    /\ strategy \in {"round_robin", "weighted", "quota_aware"}
    /\ up = Keys
    /\ rrCounter = 0
    /\ quota = [k \in Keys |-> NoQuota]
    /\ now = 1
    /\ pick = [pc |-> "idle", avail |-> <<>>, scores |-> <<>>, key |-> 0]
    /\ records = 0
    /\ touched = {}
    /\ served = [k \in Keys |-> 0] /\ taken = 0

----------------------------------------------------------------------------
(* The strategies that count.  counter is the value before Add.            *)

pickRoundRobin(avail, counter) == avail[(counter % Len(avail)) + 1]

(* int(counter), and Go's remainder, which has the dividend's sign.        *)
Signed(counter) == IF counter < Half THEN counter ELSE counter - 2 * Half
Remainder(n, d) == IF n >= 0 THEN n % d ELSE -((-n) % d)

(* The walk: every key is passed for its weight.                           *)
Walk(avail, idx) ==
    LET stops == {i \in DOMAIN avail : idx < Passed(avail)[i]}
    IN  avail[IF stops = {} THEN Len(avail) ELSE Min(stops)]

(* Mutant: the remainder of the unsigned counter, one too high.            *)
pickWeightedFromOne(avail, counter) ==
    IF WeightOf(avail) <= 0 THEN pickRoundRobin(avail, counter)
    ELSE Walk(avail, Remainder(Signed(counter), WeightOf(avail)) + 1)

(* pickWeighted: round robin when the weights are no good.                 *)
pickWeighted(avail, counter) ==
    IF WeightOf(avail) <= 0 THEN pickRoundRobin(avail, counter)
    ELSE Walk(avail, Remainder(Signed(counter), WeightOf(avail)))

PickByCounter ==
    /\ strategy # "quota_aware" /\ up # {} /\ taken < MaxPicks
    /\ LET k == IF strategy = "weighted" THEN pickWeighted(InOrder(up), rrCounter)
                ELSE pickRoundRobin(InOrder(up), rrCounter)
       IN  served' = [served EXCEPT ![k] = @ + 1]
    /\ taken' = taken + 1
    /\ rrCounter' = (rrCounter + 1) % (2 * Half)
    /\ UNCHANGED <<strategy, up, quota, now, pick, records, touched>>

----------------------------------------------------------------------------
(* pickQuotaAware: a statement for every key, and then the choice.         *)

BeginPick ==
    /\ strategy = "quota_aware" /\ up # {} /\ pick.pc = "idle"
    /\ pick' = [pc |-> "reading", avail |-> InOrder(up), scores |-> <<>>, key |-> 0]
    /\ touched' = {}
    /\ UNCHANGED <<strategy, up, rrCounter, quota, now, records, served, taken>>

(* GetQuota; a key whose snapshot cannot be read counts as having none.    *)
ReadQuota(fails) ==
    LET k == pick.avail[Len(pick.scores) + 1]
    IN  /\ pick.pc = "reading" /\ Len(pick.scores) < Len(pick.avail)
        /\ pick' = [pick EXCEPT !.scores = Append(@, IF fails THEN NoQuota ELSE quota[k])]
        /\ touched' = IF fails THEN touched \cup {k} ELSE touched
        /\ UNCHANGED <<strategy, up, rrCounter, quota, now, records, served, taken>>

(* The order of the sort: more remaining, then seen later, then the label, *)
(* which is the position.                                                  *)
Ahead(q, r) == q.rem > r.rem \/ (q.rem = r.rem /\ q.seen > r.seen)

Before(scores, i, j) ==
    \/ Ahead(scores[i], scores[j])
    \/ ~Ahead(scores[j], scores[i]) /\ i < j

Sorted(scores) ==
    CHOOSE p \in [DOMAIN scores -> DOMAIN scores] :
      \A i, j \in DOMAIN p : i < j => Before(scores, p[i], p[j])

(* Mutant: the runner-up is taken however little it has.                   *)
TopTwo(scores) ==
    LET sorted == Sorted(scores)
    IN  IF Len(sorted) > 1 THEN {sorted[1], sorted[2]} ELSE {sorted[1]}

(* The first, or sometimes the second when it has at least 90% as much.    *)
TopTier(scores) ==
    LET sorted == Sorted(scores)
    IN  {sorted[1]} \cup
        {i \in DOMAIN scores : Len(sorted) > 1 /\ i = sorted[2]
                               /\ 10 * scores[i].rem >= 9 * scores[sorted[1]].rem}

ChooseKey(i) ==
    /\ pick.pc = "reading" /\ Len(pick.scores) = Len(pick.avail)
    /\ i \in TopTier(pick.scores)
    /\ pick' = [pc |-> "idle", avail |-> <<>>, scores |-> <<>>, key |-> pick.avail[i]]
    /\ UNCHANGED <<strategy, up, rrCounter, quota, now, records, touched, served, taken>>

(* RecordQuota, after any successful call of Proxy.Forward.  Headers that  *)
(* say nothing, or that nothing remains and no more, are passed over;      *)
(* those that give a limit or a reset only record that nothing remains.    *)
RecordQuota(k, remaining, more) ==
    /\ records < MaxRecords
    /\ records' = records + 1
    /\ IF remaining = 0 /\ ~more THEN UNCHANGED <<quota, touched>>
       ELSE /\ quota' = [quota EXCEPT ![k] = [rem |-> remaining, seen |-> now]]
            /\ touched' = touched \cup {k}
    /\ UNCHANGED <<strategy, up, rrCounter, now, pick, served, taken>>

----------------------------------------------------------------------------
(* Keys come and go; while a Pick holds the lock they only come.           *)
ChangeAvailability(available) ==
    /\ available # up
    /\ pick.pc = "idle" \/ up \subseteq available
    /\ up' = available
    /\ served' = [k \in Keys |-> 0] /\ taken' = 0
    /\ UNCHANGED <<strategy, rrCounter, quota, now, pick, records, touched>>

NextSecond ==
    /\ now < MaxSeconds
    /\ now' = now + 1
    /\ UNCHANGED <<strategy, up, rrCounter, quota, pick, records, touched, served, taken>>

Next ==
    \/ PickByCounter \/ BeginPick
    \/ \E fails \in BOOLEAN : ReadQuota(fails)
    \/ \E i \in DOMAIN pick.scores : ChooseKey(i)
    \/ strategy = "quota_aware" /\ \E k \in Keys, remaining \in Levels \cup {0}, more \in BOOLEAN :
         RecordQuota(k, remaining, more)
    \/ \E available \in SUBSET Keys : ChangeAvailability(available)
    \/ strategy = "quota_aware" /\ NextSecond

Spec == Init /\ [][Next]_vars

----------------------------------------------------------------------------
(* Every variable has its type; a counting Pick takes one of the available *)
(* keys.                                                                   *)
TypeOK ==
    /\ strategy \in {"round_robin", "weighted", "quota_aware"} /\ up \subseteq Keys
    /\ rrCounter \in 0 .. 2 * Half - 1
    /\ quota \in [Keys -> [rem: Levels \cup {0}, seen: 0..MaxSeconds]]
    /\ now \in 1..MaxSeconds /\ records \in 0..MaxRecords /\ touched \subseteq Keys
    /\ pick.pc \in {"idle", "reading"} /\ Len(pick.scores) <= Len(pick.avail)
    /\ {k \in Keys : served[k] > 0} \subseteq up

Past == rrCounter > Half /\ rrCounter - taken >= Half

(* Of any picks in a row with the same keys available, every key gets its  *)
(* share, one key once in round robin and by its weight otherwise, and is  *)
(* never further off than the round that has begun.  The two edges of the  *)
(* counter: it may wrap to 0 in the middle of a round, and from its middle *)
(* on every weighted pick falls on the first key (a remainder of zero on   *)
(* the first with a weight).                                               *)
SharesFair ==
    LET avail == InOrder(up)
        counted == strategy = "weighted" /\ WeightOf(avail) > 0
        Share(k) == IF counted THEN Weight[k] ELSE 1
        round == IF counted THEN WeightOf(avail) ELSE Len(avail)
        rounds == taken \div round
    IN  taken > 0 =>
          /\ taken <= rrCounter /\ (counted => rrCounter <= Half) =>
               \A k \in up : /\ served[k] >= rounds * Share(k)
                             /\ served[k] <= (rounds + 1) * Share(k)
          /\ counted /\ Past =>
               \A k \in up : served[k] > 0 => \A j \in up : j < k => Weight[j] = 0

(* A quota-aware Pick takes no key that two others beat, and none that has *)
(* less than 90% of what another has, by the table as it is when it takes  *)
(* the key: snapshots that were recorded while it read, or that it could   *)
(* not read, are all that can mislead it.                                  *)
QuotaRespected ==
    [][pick.pc = "reading" /\ pick'.pc = "idle" =>
         LET known == ToSet(pick.avail) \ touched
             k == pick'.key
         IN  /\ k \in up
             /\ k \in known =>
                  /\ \A j \in known : 10 * quota[k].rem >= 9 * quota[j].rem
                  /\ Cardinality({j \in known : Ahead(quota[j], quota[k])}) <= 1]_vars
============================================================================
