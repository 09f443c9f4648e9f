--------------------------- MODULE SequenceFacts ---------------------------
(***************************************************************************)
(* What the proofs need to know of sequences, and of FlattenSeq above all: *)
(* its recursion is unfolded by taking the least length, or the least      *)
(* place, at which it would go wrong.                                      *)
(***************************************************************************)
EXTENDS Integers, SequencesExt, SequenceTheorems, NaturalsInduction, WellFoundedInduction,
        FiniteSetTheorems, TLAPS

(* Every set of naturals has a least element.                              *)
LEMMA Least ==
    ASSUME NEW T, T \subseteq Nat, T # {}
    PROVE  \E n \in T : \A m \in T : n <= m
<1>1. PICK n \in T : \A m \in T : ~(<<m, n>> \in OpToRel(<, Nat))
  BY NatLessThanWellFounded, WFMin
<1>2. \A x, y \in Nat : x < y => <<x, y>> \in OpToRel(<, Nat)
  BY Zenon DEF OpToRel
<1>3. \A m \in T : ~(m < n)
  BY <1>1, <1>2, Zenon
<1>4. \A m \in T : m \in Nat /\ n \in Nat
  OBVIOUS
<1>5. \A m \in T : n <= m
  BY <1>3, <1>4
<1>6. QED
  BY <1>5

(* A function over the places of a sequence is a sequence of its length.   *)
LEMMA SameLength ==
    ASSUME NEW S, NEW s \in Seq(S), NEW T, NEW f \in [DOMAIN s -> T]
    PROVE  f \in Seq(T) /\ Len(f) = Len(s) /\ DOMAIN f = 1..Len(s)
<1>1. Len(s) \in Nat /\ DOMAIN s = 1..Len(s)
  BY LenProperties
<1>2. f \in Seq(T)
  BY <1>1, SeqDef
<1>3. Len(f) \in Nat /\ 1..Len(f) = 1..Len(s)
  BY <1>1, <1>2, LenProperties
<1>4. QED
  BY <1>1, <1>2, <1>3

(* Appending, place by place.                                              *)
LEMMA Appended ==
    ASSUME NEW S, NEW s \in Seq(S), NEW e \in S
    PROVE  /\ Append(s, e) \in Seq(S)
           /\ Len(Append(s, e)) = Len(s) + 1
           /\ DOMAIN Append(s, e) = 1 .. Len(s) + 1
           /\ DOMAIN s = 1..Len(s) /\ Len(s) \in Nat
           /\ \A i \in 1..Len(s) : Append(s, e)[i] = s[i]
           /\ Append(s, e)[Len(s) + 1] = e
BY AppendProperties, LenProperties

(* What is appended comes behind all there was, and all there was stays.   *)
LEMMA AppendedBehind ==
    ASSUME NEW S, NEW s \in Seq(S), NEW e \in S, NEW t, t = Append(s, e)
    PROVE  /\ \A i \in DOMAIN s : i \in DOMAIN t /\ t[i] = s[i]
           /\ \A i \in DOMAIN t : \/ i \in DOMAIN s /\ t[i] = s[i]
                                  \/ i = Len(s) + 1 /\ t[i] = e /\ \A j \in DOMAIN s : j < i
           /\ Len(s) + 1 \in DOMAIN t /\ t[Len(s) + 1] = e
           /\ DOMAIN s = 1..Len(s) /\ DOMAIN t = 1 .. Len(s) + 1 /\ Len(s) \in Nat
<1>1. /\ DOMAIN t = 1 .. Len(s) + 1 /\ DOMAIN s = 1..Len(s) /\ Len(s) \in Nat
      /\ \A i \in 1..Len(s) : t[i] = s[i]
      /\ t[Len(s) + 1] = e
  BY Appended
<1>2. QED
  BY <1>1

(* Concatenating, place by place.                                          *)
LEMMA Concatenated ==
    ASSUME NEW S, NEW s \in Seq(S), NEW t \in Seq(S)
    PROVE  /\ s \o t \in Seq(S)
           /\ \A k \in DOMAIN s : k \in DOMAIN (s \o t) /\ (s \o t)[k] = s[k]
           /\ \A k \in DOMAIN (s \o t) :
                \/ k \in DOMAIN s /\ (s \o t)[k] = s[k]
                \/ \E j \in DOMAIN t : (s \o t)[k] = t[j]
<1> DEFINE v == s \o t
<1>1. /\ Len(s) \in Nat /\ DOMAIN s = 1..Len(s) /\ Len(t) \in Nat /\ DOMAIN t = 1..Len(t)
      /\ v \in Seq(S) /\ Len(v) = Len(s) + Len(t)
      /\ \A k \in 1..Len(s) : v[k] = s[k]
      /\ \A k \in Len(s) + 1 .. Len(s) + Len(t) : v[k] = t[k - Len(s)]
  BY ConcatProperties, LenProperties
<1>2. DOMAIN v = 1 .. Len(s) + Len(t)
  BY <1>1, LenProperties
<1> HIDE DEF v
<1>3. ASSUME NEW k \in DOMAIN v
      PROVE  \/ k \in DOMAIN s /\ v[k] = s[k]
             \/ \E j \in DOMAIN t : v[k] = t[j]
  <2>1. CASE k <= Len(s)
    BY <1>1, <1>2, <2>1
  <2>2. CASE k > Len(s)
    <3>1. k - Len(s) \in 1..Len(t) /\ v[k] = t[k - Len(s)]
      BY <1>1, <1>2, <2>2
    <3>2. QED
      BY <1>1, <3>1
  <2>3. QED
    BY <1>1, <1>2, <2>1, <2>2
<1>4. \A k \in DOMAIN s : k \in DOMAIN v /\ v[k] = s[k]
  BY <1>1, <1>2
<1>5. QED
  BY <1>1, <1>3, <1>4 DEF v

(* Two and one are three.                                                  *)
LEMMA TwoAndOne ==
    ASSUME NEW S, NEW a \in S, NEW b \in S, NEW c \in S
    PROVE  <<a, b>> \o <<c>> = <<a, b, c>>
<1> DEFINE s == <<a, b>>
           t == <<c>>
           u == <<a, b, c>>
           p == s \o t
<1>1. /\ s \in Seq(S) /\ Len(s) = 2 /\ s[1] = a /\ s[2] = b
      /\ t \in Seq(S) /\ Len(t) = 1 /\ t[1] = c
      /\ u \in Seq(S) /\ Len(u) = 3 /\ u[1] = a /\ u[2] = b /\ u[3] = c
  OBVIOUS
<1> HIDE DEF s, t, u
<1>2. /\ p \in Seq(S) /\ Len(p) = 3
      /\ \A i \in 1..3 : p[i] = IF i <= 2 THEN s[i] ELSE t[i - 2]
  <2>1. /\ p \in Seq(S) /\ Len(p) = Len(s) + Len(t)
        /\ \A i \in 1 .. Len(s) + Len(t) : p[i] = IF i <= Len(s) THEN s[i] ELSE t[i - Len(s)]
    BY <1>1, ConcatProperties
  <2> HIDE DEF p
  <2>2. QED
    BY <1>1, <2>1
<1> HIDE DEF p
<1>3. p[1] = a /\ p[2] = b /\ p[3] = c
  BY <1>1, <1>2
<1>4. \A i \in 1..Len(p) : p[i] = u[i]
  BY <1>1, <1>2, <1>3
<1>5. p = u
  BY <1>1, <1>2, <1>4, SeqEqual
<1>6. QED
  BY <1>5 DEF p, s, t, u

----------------------------------------------------------------------------
(* g is the running concatenation of the first n of seqs.                  *)
Runs(seqs, n, g) == g = [i \in 1..n |-> IF i = 1 THEN seqs[i] ELSE g[i-1] \o seqs[i]]

LEMMA RunsExist ==
    ASSUME NEW seqs, NEW n \in Nat
    PROVE  \E g : Runs(seqs, n, g)
<1> DEFINE Bad == {m \in Nat : ~ \E g : Runs(seqs, m, g)}
<1>1. SUFFICES ASSUME Bad # {} PROVE FALSE
  OBVIOUS
<1>2. PICK m \in Bad : \A k \in Bad : m <= k
  BY <1>1, Least
<1>3. CASE m = 0
  <2> DEFINE g == [i \in 1..0 |-> seqs[i]]
  <2>1. Runs(seqs, 0, g)
    BY DEF Runs
  <2>2. QED
    BY <1>2, <1>3, <2>1
<1>4. CASE m > 0
  <2>1. PICK g : Runs(seqs, m - 1, g)
    BY <1>2, <1>4
  <2> DEFINE h == [i \in 1..m |-> IF i = m THEN (IF m = 1 THEN seqs[m] ELSE g[m-1] \o seqs[m])
                                  ELSE g[i]]
  <2>2. ASSUME NEW i \in 1..m PROVE h[i] = IF i = 1 THEN seqs[i] ELSE h[i-1] \o seqs[i]
    <3>1. CASE i = m
      BY <3>1, <1>2
    <3>2. CASE i # m
      <4>1. i \in 1..(m-1) /\ m \in Nat
        BY <1>2, <3>2
      <4>2. g[i] = IF i = 1 THEN seqs[i] ELSE g[i-1] \o seqs[i]
        BY <2>1, <4>1 DEF Runs
      <4>3. h[i] = g[i] /\ (i # 1 => h[i-1] = g[i-1])
        BY <4>1, <3>2
      <4>4. QED
        BY <4>2, <4>3
    <3>3. QED
      BY <3>1, <3>2
  <2>3. Runs(seqs, m, h)
    <3>1. h = [i \in 1..m |-> h[i]]
      OBVIOUS
    <3> HIDE DEF h
    <3>2. QED
      BY <2>2, <3>1 DEF Runs
  <2>4. QED
    BY <1>2, <2>3
<1>5. QED
  BY <1>2, <1>3, <1>4

LEMMA FlattenedByRuns ==
    ASSUME NEW seqs, Len(seqs) \in Nat \ {0}
    PROVE  \E g : Runs(seqs, Len(seqs), g) /\ FlattenSeq(seqs) = g[Len(seqs)]
<1> DEFINE n == Len(seqs)
           f == CHOOSE g : Runs(seqs, n, g)
<1>1. Runs(seqs, n, f)
  BY RunsExist
<1>2. FlattenSeq(seqs) = f[n]
  BY DEF FlattenSeq, Runs
<1>3. QED
  BY <1>1, <1>2

(* Flattening sequences over S gives a sequence over S: with S the set of  *)
(* their elements, nothing is in it that is in none of them.               *)
LEMMA FlattenType ==
    ASSUME NEW S, NEW seqs \in Seq(Seq(S))
    PROVE  FlattenSeq(seqs) \in Seq(S)
<1>0. Len(seqs) \in Nat /\ DOMAIN seqs = 1..Len(seqs)
  BY LenProperties
<1>1. CASE Len(seqs) = 0
  <2>1. seqs = <<>>
    BY <1>1, EmptySeq
  <2>2. FlattenSeq(seqs) = seqs
    BY <1>1 DEF FlattenSeq
  <2>3. <<>> \in Seq(S)
    BY EmptySeq
  <2>4. QED
    BY <2>1, <2>2, <2>3
<1>2. CASE Len(seqs) # 0
  <2>1. PICK g : Runs(seqs, Len(seqs), g) /\ FlattenSeq(seqs) = g[Len(seqs)]
    BY <1>0, <1>2, FlattenedByRuns
  <2>2. \A i \in 1..Len(seqs) : g[i] = IF i = 1 THEN seqs[i] ELSE g[i-1] \o seqs[i]
    BY <2>1 DEF Runs
  <2> DEFINE Bad == {i \in 1..Len(seqs) : g[i] \notin Seq(S)}
  <2>3. Bad = {}
    <3>1. SUFFICES ASSUME Bad # {} PROVE FALSE
      OBVIOUS
    <3>2. PICK i \in Bad : \A j \in Bad : i <= j
      <4>1. Bad \subseteq Nat
        BY <1>0
      <4>2. QED
        BY <3>1, <4>1, Least
    <3>3. i \in 1..Len(seqs) /\ g[i] \notin Seq(S) /\ seqs[i] \in Seq(S)
      BY <1>0, <3>2, ElementOfSeq
    <3>4. CASE i = 1
      BY <2>2, <3>3, <3>4
    <3>5. CASE i # 1
      <4>1. i - 1 \in 1..Len(seqs) /\ ~(i <= i - 1)
        BY <1>0, <3>3, <3>5
      <4>2. g[i-1] \in Seq(S)
        BY <3>2, <4>1
      <4>3. g[i] = g[i-1] \o seqs[i]
        BY <2>2, <3>3, <3>5
      <4>4. QED
        BY <3>3, <4>2, <4>3, ConcatProperties
    <3>6. QED
      BY <3>4, <3>5
  <2>4. g[Len(seqs)] \in Seq(S)
    BY <1>0, <1>2, <2>3
  <2>5. QED
    BY <2>1, <2>4
<1>3. QED
  BY <1>1, <1>2

Agree(s, t, m) == \A i \in 1..m : s[i] = t[i]

(* Sequences that agree have the same runs as far as they agree.           *)
LEMMA RunsAgree ==
    ASSUME NEW s, NEW t, NEW m \in Nat, NEW n \in Nat, m <= n,
           Agree(s, t, m), NEW g, Runs(s, m, g), NEW h, Runs(t, n, h)
    PROVE  Agree(g, h, m)
<1> DEFINE Bad == {i \in 1..m : g[i] # h[i]}
<1>1. SUFFICES ASSUME Bad # {} PROVE FALSE
  BY DEF Agree
<1>2. PICK i \in Bad : \A j \in Bad : i <= j
  <2>1. Bad \subseteq Nat
    OBVIOUS
  <2>2. QED
    BY <1>1, <2>1, Least
<1>3. /\ i \in 1..m /\ i \in 1..n /\ g[i] # h[i]
      /\ g[i] = IF i = 1 THEN s[i] ELSE g[i-1] \o s[i]
      /\ h[i] = IF i = 1 THEN t[i] ELSE h[i-1] \o t[i]
      /\ s[i] = t[i]
  <2>1. i \in 1..m /\ i \in 1..n /\ g[i] # h[i]
    BY <1>2
  <2>2. QED
    BY <2>1 DEF Runs, Agree
<1>4. CASE i = 1
  BY <1>3, <1>4
<1>5. CASE i # 1
  <2>1. i - 1 \in 1..m /\ ~(i <= i - 1)
    BY <1>3, <1>5
  <2>2. g[i-1] = h[i-1]
    BY <1>2, <2>1
  <2>3. QED
    BY <1>3, <1>5, <2>2
<1>6. QED
  BY <1>4, <1>5

(* What is appended comes last.                                            *)
LEMMA FlattenAppended ==
    ASSUME NEW S, NEW seqs \in Seq(Seq(S)), NEW s \in Seq(S)
    PROVE  FlattenSeq(Append(seqs, s)) = FlattenSeq(seqs) \o s
<1> DEFINE n == Len(seqs)
           more == Append(seqs, s)
<1>1. /\ n \in Nat /\ Len(more) = n + 1
      /\ \A i \in 1..n : more[i] = seqs[i]
      /\ more[n + 1] = s
  BY Appended
<1> HIDE DEF more
<1>2. PICK h : Runs(more, n + 1, h) /\ FlattenSeq(more) = h[n + 1]
  BY <1>1, FlattenedByRuns
<1>3. \A i \in 1..n + 1 : h[i] = IF i = 1 THEN more[i] ELSE h[i-1] \o more[i]
  BY <1>2 DEF Runs
<1>4. CASE n = 0
  <2>1. FlattenSeq(more) = s
    BY <1>1, <1>2, <1>3, <1>4
  <2>2. seqs = <<>>
    BY <1>4, EmptySeq
  <2>3. FlattenSeq(seqs) = <<>>
    BY <1>4, <2>2 DEF FlattenSeq
  <2>4. <<>> \o s = s
    BY ConcatEmptySeq
  <2>5. QED
    BY <2>1, <2>3, <2>4 DEF more
<1>5. CASE n # 0
  <2>1. PICK g : Runs(seqs, n, g) /\ FlattenSeq(seqs) = g[n]
    BY <1>1, <1>5, FlattenedByRuns
  <2>2. Agree(g, h, n)
    <3>1. n <= n + 1 /\ n \in Nat /\ n + 1 \in Nat
      BY <1>1
    <3>2. Agree(seqs, more, n)
      BY <1>1 DEF Agree
    <3> HIDE DEF n
    <3>3. QED
      BY <1>2, <2>1, <3>1, <3>2, RunsAgree
  <2> HIDE DEF n
  <2>3. h[n + 1] = h[n] \o s
    <3>1. n + 1 \in 1..n + 1 /\ n + 1 # 1 /\ (n + 1) - 1 = n
      BY <1>1, <1>5
    <3>2. QED
      BY <1>1, <1>3, <3>1
  <2>4. g[n] = h[n]
    BY <1>1, <1>5, <2>2 DEF Agree
  <2>5. QED
    BY <1>2, <2>1, <2>3, <2>4 DEF more
<1>6. QED
  BY <1>4, <1>5

----------------------------------------------------------------------------
(* Place k of block i, when blocks are put one behind the other.           *)
Place(off, i, k) == off[i - 1] + k

(* Where the blocks of s end when they are put one behind the other, and   *)
(* that they are found there in f.                                         *)
Blocks(s, off) ==
    /\ off \in [0..Len(s) -> Nat] /\ off[0] = 0
    /\ \A i \in 1..Len(s) : off[i] = off[i - 1] + Len(s[i])
Placed(f, s, off) ==
    /\ Len(f) = off[Len(s)]
    /\ \A i \in 1..Len(s) : \A k \in 1..Len(s[i]) : f[off[i - 1] + k] = s[i][k]

(* The blocks come in order.                                               *)
LEMMA BlocksInOrder ==
    ASSUME NEW S, NEW s \in Seq(Seq(S)), NEW off, Blocks(s, off),
           NEW i \in 0..Len(s), NEW j \in 0..Len(s), i <= j
    PROVE  off[i] <= off[j]
<1>1. Len(s) \in Nat /\ \A l \in 0..Len(s) : off[l] \in Nat
  BY LenProperties DEF Blocks
<1> DEFINE Low == {l \in 0..Len(s) : i <= l /\ ~(off[i] <= off[l])}
<1>2. SUFFICES ASSUME Low # {} PROVE FALSE
  OBVIOUS
<1>3. PICK l \in Low : \A m \in Low : l <= m
  <2>1. Low \subseteq Nat
    OBVIOUS
  <2>2. QED
    BY <1>2, <2>1, Least
<1>4. l \in 1..Len(s) /\ l - 1 \in 0..Len(s) /\ i <= l - 1 /\ ~(l <= l - 1)
  BY <1>1, <1>3
<1>5. off[i] <= off[l - 1]
  BY <1>3, <1>4
<1>6. off[l] = off[l - 1] + Len(s[l]) /\ Len(s[l]) \in Nat
  <2>1. s[l] \in Seq(S)
    BY <1>4, ElementOfSeq
  <2>2. QED
    BY <1>4, <2>1, LenProperties DEF Blocks
<1>7. off[i] \in Nat /\ off[l - 1] \in Nat /\ off[l] \in Nat /\ ~(off[i] <= off[l])
  BY <1>1, <1>3, <1>4
<1>8. QED
  BY <1>5, <1>6, <1>7

(* What is flattened is found in its blocks.                               *)
LEMMA FlattenPlaces ==
    ASSUME NEW S, NEW s \in Seq(Seq(S))
    PROVE  \E off : Blocks(s, off) /\ Placed(FlattenSeq(s), s, off)
<1> DEFINE Found(t) == \E off : Blocks(t, off) /\ Placed(FlattenSeq(t), t, off)
           Bad == {n \in Nat : \E t \in Seq(Seq(S)) : Len(t) = n /\ ~Found(t)}
<1>1. SUFFICES ASSUME Bad # {} PROVE FALSE
  <2>1. Len(s) \in Nat
    BY LenProperties
  <2>2. QED
    BY <1>1, <2>1
<1>2. PICK n \in Bad : \A m \in Bad : n <= m
  <2>1. Bad \subseteq Nat
    OBVIOUS
  <2>2. QED
    BY <1>1, <2>1, Least
<1>3. PICK t \in Seq(Seq(S)) : Len(t) = n /\ ~Found(t)
  BY <1>2
<1>4. n \in Nat
  BY <1>2
<1>5. CASE n = 0
  <2>1. t = <<>> /\ FlattenSeq(t) = <<>>
    BY <1>3, <1>5, EmptySeq DEF FlattenSeq
  <2>2. Blocks(t, [i \in 0..0 |-> 0]) /\ Placed(FlattenSeq(t), t, [i \in 0..0 |-> 0])
    BY <1>3, <1>5, <2>1 DEF Blocks, Placed
  <2>3. QED
    BY <1>3, <2>2
<1>6. CASE n # 0
  <2>1. PICK r \in Seq(Seq(S)), b \in Seq(S) : t = Append(r, b)
    <3>1. t # <<>>
      BY <1>3, <1>6, EmptySeq
    <3>2. QED
      BY <3>1, SequenceEmptyOrAppend
  <2>2. /\ Len(r) \in Nat /\ n = Len(r) + 1
        /\ \A i \in 1..Len(r) : t[i] = r[i]
        /\ t[n] = b
    BY <1>3, <2>1, Appended, LenProperties
  <2>3. PICK off : Blocks(r, off) /\ Placed(FlattenSeq(r), r, off)
    <3>1. ~(n <= Len(r))
      BY <1>4, <2>2
    <3>2. Len(r) \notin Bad
      BY <1>2, <3>1
    <3>3. QED
      BY <2>2, <3>2
  <2> DEFINE f == FlattenSeq(r)
             g == FlattenSeq(t)
             m == Len(r)
  <2>4. f \in Seq(S) /\ g = f \o b
    BY <2>1, FlattenType, FlattenAppended
  <2>5. /\ Len(f) \in Nat /\ Len(b) \in Nat /\ Len(g) = Len(f) + Len(b)
        /\ \A k \in 1..Len(f) : g[k] = f[k]
        /\ \A k \in 1..Len(b) : g[Len(f) + k] = b[k]
    <3>1. /\ Len(f) \in Nat /\ Len(b) \in Nat /\ Len(g) = Len(f) + Len(b)
          /\ \A k \in 1 .. Len(f) + Len(b) : g[k] = IF k <= Len(f) THEN f[k] ELSE b[k - Len(f)]
      BY <2>4, ConcatProperties, LenProperties
    <3> HIDE DEF f, g
    <3>2. \A k \in 1..Len(f) : g[k] = f[k]
      BY <3>1
    <3>3. ASSUME NEW k \in 1..Len(b) PROVE g[Len(f) + k] = b[k]
      <4>1. /\ Len(f) + k \in 1 .. Len(f) + Len(b) /\ ~(Len(f) + k <= Len(f))
            /\ (Len(f) + k) - Len(f) = k
        BY <3>1
      <4>2. QED
        BY <3>1, <4>1
    <3>4. QED
      BY <3>1, <3>2, <3>3
  <2> HIDE DEF f, g
  <2>6. /\ off \in [0..m -> Nat] /\ off[0] = 0 /\ Len(f) = off[m]
        /\ \A i \in 1..m : off[i] = off[i - 1] + Len(r[i])
        /\ \A i \in 1..m : \A k \in 1..Len(r[i]) : f[off[i - 1] + k] = r[i][k]
    BY <2>3 DEF Blocks, Placed, f
  <2> DEFINE o == [i \in 0..n |-> IF i = n THEN off[m] + Len(b) ELSE off[i]]
  <2> HIDE DEF m
  <2>7. m \in Nat /\ n = m + 1 /\ Len(t) = n /\ \A i \in 1..m : t[i] = r[i]
    BY <1>3, <2>2 DEF m
  <2>8. off[m] \in Nat /\ \A i \in 0..m : off[i] \in Nat
    BY <2>6, <2>7
  <2>9. /\ o \in [0..n -> Nat] /\ o[n] = off[m] + Len(b)
        /\ \A i \in 0..m : o[i] = off[i]
    <3>1. n \in 0..n /\ (\A i \in 0..m : i \in 0..n /\ i # n)
      BY <2>7
    <3>2. \A i \in 0..n : i = n \/ i \in 0..m
      BY <2>7
    <3>3. off[m] + Len(b) \in Nat
      BY <2>5, <2>8
    <3>4. QED
      BY <2>8, <3>1, <3>2, <3>3
  <2> HIDE DEF o
  <2>10. \A i \in 1..n : i \in 1..m \/ (i = n /\ i - 1 = m)
    BY <2>7
  <2>11. \A i \in 1..m : i - 1 \in 0..m /\ i \in 0..m
    BY <2>7
  <2>12. Blocks(t, o)
    <3>1. \A i \in 1..m : o[i] = o[i - 1] + Len(t[i])
      BY <2>6, <2>7, <2>9, <2>11
    <3>2. o[n] = o[m] + Len(t[n]) /\ o[0] = 0
      BY <2>2, <2>6, <2>7, <2>9
    <3>3. QED
      BY <2>7, <2>9, <2>10, <3>1, <3>2 DEF Blocks
  <2>13. ASSUME NEW i \in 1..m, NEW k \in 1..Len(r[i])
         PROVE  off[i - 1] + k \in 1..Len(f)
    <3>1. r[i] \in Seq(S) /\ Len(r[i]) \in Nat
      BY <2>1, ElementOfSeq, LenProperties DEF m
    <3>2. off[i] <= off[m]
      <4>1. i \in 0..Len(r) /\ Len(r) \in 0..Len(r) /\ i <= Len(r) /\ Blocks(r, off)
        BY <2>2, <2>3 DEF m
      <4>2. QED
        BY <2>1, <4>1, BlocksInOrder DEF m
    <3>3. off[i] = off[i - 1] + Len(r[i]) /\ off[i - 1] \in Nat /\ off[i] \in Nat
      BY <2>6, <2>8, <2>11
    <3>4. Len(f) = off[m] /\ off[m] \in Nat
      BY <2>6, <2>8
    <3>5. k \in Nat /\ 1 <= k /\ k <= Len(r[i])
      BY <3>1
    <3> DEFINE a == off[i - 1]
               z == off[m]
               x == Len(r[i])
    <3> HIDE DEF a, z, x
    <3>6. a \in Nat /\ z \in Nat /\ x \in Nat /\ a + x <= z /\ Len(f) = z /\ k <= x
      BY <3>1, <3>2, <3>3, <3>4, <3>5 DEF a, z, x
    <3>7. a + k \in 1..z
      BY <3>5, <3>6
    <3>8. QED
      BY <3>6, <3>7 DEF a
  <2>14. Placed(g, t, o)
    <3>1. Len(g) = o[Len(t)]
      BY <2>5, <2>6, <2>7, <2>9
    <3>2. ASSUME NEW i \in 1..n, NEW k \in 1..Len(t[i])
          PROVE  g[o[i - 1] + k] = t[i][k]
      <4>1. CASE i \in 1..m
        <5>1. t[i] = r[i] /\ o[i - 1] = off[i - 1]
          BY <2>7, <2>9, <2>11, <4>1
        <5>2. g[off[i - 1] + k] = f[off[i - 1] + k]
          BY <2>5, <2>13, <4>1, <5>1
        <5>3. QED
          BY <2>6, <4>1, <5>1, <5>2
      <4>2. CASE i = n /\ i - 1 = m
        <5>1. t[i] = b /\ o[i - 1] = Len(f)
          BY <2>2, <2>6, <2>7, <2>9, <4>2
        <5>2. QED
          BY <2>5, <5>1
      <4>3. QED
        BY <2>10, <4>1, <4>2
    <3>3. QED
      BY <2>7, <3>1, <3>2 DEF Placed
  <2>15. QED
    BY <1>3, <2>12, <2>14 DEF g
<1>7. QED
  BY <1>5, <1>6

(* Every place is in a block.                                              *)
LEMMA BlockOfPlace ==
    ASSUME NEW S, NEW s \in Seq(Seq(S)), NEW off, Blocks(s, off),
           NEW p \in 1..off[Len(s)]
    PROVE  \E i \in 1..Len(s) : \E k \in 1..Len(s[i]) : p = Place(off, i, k)
<1>1. Len(s) \in Nat /\ \A l \in 0..Len(s) : off[l] \in Nat
  BY LenProperties DEF Blocks
<1> DEFINE Far == {l \in 0..Len(s) : p <= off[l]}
<1>2. PICK i \in Far : \A l \in Far : i <= l
  <2>1. Far \subseteq Nat /\ Far # {}
    BY <1>1
  <2>2. QED
    BY <2>1, Least
<1>3. i \in 1..Len(s) /\ i - 1 \in 0..Len(s) /\ ~(i <= i - 1) /\ p <= off[i]
  BY <1>1, <1>2 DEF Blocks
<1>4. off[i - 1] < p
  BY <1>1, <1>2, <1>3
<1>5. off[i] = off[i - 1] + Len(s[i])
  BY <1>3 DEF Blocks
<1>6. Len(s[i]) \in Nat
  <2>1. s[i] \in Seq(S)
    BY <1>3, ElementOfSeq
  <2>2. QED
    BY <2>1, LenProperties
<1> DEFINE a == off[i - 1]
           x == Len(s[i])
<1> HIDE DEF a, x
<1>7. p \in Nat /\ a \in Nat /\ x \in Nat /\ a < p /\ p <= a + x
  BY <1>1, <1>3, <1>4, <1>5, <1>6 DEF a, x
<1>8. p - a \in 1..x /\ p = a + (p - a)
  BY <1>7
<1>9. QED
  BY <1>3, <1>8 DEF a, x, Place

InPlace(f, s, off) ==
    /\ \A i \in 1..Len(s) : \A k \in 1..Len(s[i]) :
         Place(off, i, k) \in DOMAIN f /\ f[Place(off, i, k)] = s[i][k]
    /\ \A p \in DOMAIN f : \E i \in 1..Len(s) : \E k \in 1..Len(s[i]) : p = Place(off, i, k)
    /\ \A i, j \in 1..Len(s) : \A k \in 1..Len(s[i]) : \A q \in 1..Len(s[j]) :
         i < j \/ (i = j /\ k < q) => Place(off, i, k) < Place(off, j, q)

LEMMA FlattenedInPlace ==
    ASSUME NEW S, NEW s \in Seq(Seq(S))
    PROVE  \E off : InPlace(FlattenSeq(s), s, off)
<1> DEFINE f == FlattenSeq(s)
           n == Len(s)
<1>1. PICK off : Blocks(s, off) /\ Placed(f, s, off)
  BY FlattenPlaces
<1>2. /\ n \in Nat /\ \A i \in 0..n : off[i] \in Nat
      /\ \A i \in 1..n : i \in 0..n /\ i - 1 \in 0..n /\ off[i] = off[i - 1] + Len(s[i])
      /\ DOMAIN f = 1..off[n]
  <2>1. n \in Nat /\ DOMAIN f = 1..Len(f)
    BY FlattenType, LenProperties
  <2>2. off \in [0..n -> Nat] /\ Len(f) = off[n]
        /\ \A i \in 1..n : off[i] = off[i - 1] + Len(s[i])
    BY <1>1 DEF Blocks, Placed
  <2> HIDE DEF f, n
  <2>3. QED
    BY <2>1, <2>2
<1>3. ASSUME NEW i \in 1..n PROVE Len(s[i]) \in Nat
  BY ElementOfSeq, LenProperties
<1>4. ASSUME NEW i \in 1..n, NEW k \in 1..Len(s[i])
      PROVE  /\ Place(off, i, k) \in Nat /\ 1 <= Place(off, i, k)
             /\ off[i - 1] < Place(off, i, k) /\ Place(off, i, k) <= off[i]
  <2> DEFINE a == off[i - 1]
             x == Len(s[i])
  <2>1. a \in Nat /\ x \in Nat /\ off[i] = a + x
    BY <1>2, <1>3
  <2> HIDE DEF a, x
  <2>2. k \in Nat /\ 1 <= k /\ k <= x
    BY <2>1 DEF x
  <2>3. a + k \in Nat /\ 1 <= a + k /\ a < a + k /\ a + k <= a + x
    BY <2>1, <2>2
  <2>4. QED
    BY <2>1, <2>3 DEF Place, a
<1>5. ASSUME NEW i \in 0..n, NEW j \in 0..n, i <= j PROVE off[i] <= off[j]
  BY <1>1, <1>5, BlocksInOrder
<1> HIDE DEF f, n
<1>6. ASSUME NEW i \in 1..n, NEW k \in 1..Len(s[i])
      PROVE  Place(off, i, k) \in DOMAIN f /\ f[Place(off, i, k)] = s[i][k]
  <2>1. off[i] <= off[n] /\ off[i] \in Nat /\ off[n] \in Nat
    BY <1>2, <1>5
  <2>2. Place(off, i, k) \in 1..off[n]
    BY <1>4, <2>1
  <2>3. f[Place(off, i, k)] = s[i][k]
    BY <1>1 DEF Placed, Place, n
  <2>4. QED
    BY <1>2, <2>2, <2>3
<1>7. ASSUME NEW i \in 1..n, NEW j \in 1..n, NEW k \in 1..Len(s[i]), NEW q \in 1..Len(s[j]),
             i < j \/ (i = j /\ k < q)
      PROVE  Place(off, i, k) < Place(off, j, q)
  <2>1. CASE i < j
    <3>1. i <= j - 1
      BY <1>2, <2>1
    <3>2. off[i] <= off[j - 1] /\ off[i] \in Nat /\ off[j - 1] \in Nat
      BY <1>2, <1>5, <3>1
    <3>3. Place(off, i, k) \in Nat /\ Place(off, i, k) <= off[i]
      BY <1>4
    <3>4. Place(off, j, q) \in Nat /\ off[j - 1] < Place(off, j, q)
      BY <1>4
    <3>5. QED
      BY <3>2, <3>3, <3>4
  <2>2. CASE i = j /\ k < q
    <3> DEFINE a == off[i - 1]
    <3>1. a \in Nat
      BY <1>2
    <3> HIDE DEF a
    <3>2. k \in Nat /\ q \in Nat
      BY <1>3
    <3>3. a + k < a + q
      BY <2>2, <3>1, <3>2
    <3>4. QED
      BY <2>2, <3>3 DEF Place, a
  <2>3. QED
    BY <1>7, <2>1, <2>2
<1>8. ASSUME NEW p \in DOMAIN f
      PROVE  \E i \in 1..n : \E k \in 1..Len(s[i]) : p = Place(off, i, k)
  <2>1. p \in 1..off[Len(s)]
    BY <1>2 DEF n
  <2>2. QED
    BY <1>1, <2>1, BlockOfPlace DEF n
<1>9. InPlace(f, s, off)
  BY <1>6, <1>7, <1>8 DEF InPlace, n
<1>10. QED
  BY <1>9 DEF f

----------------------------------------------------------------------------
(* What g makes of the elements of s, one after the other.                 *)
Mapped(s, g) == FlattenSeq([i \in DOMAIN s |-> g[s[i]]])

LEMMA MappedType ==
    ASSUME NEW S, NEW T, NEW g \in [S -> Seq(T)], NEW s \in Seq(S)
    PROVE  Mapped(s, g) \in Seq(T)
<1> DEFINE f == [i \in DOMAIN s |-> g[s[i]]]
<1>1. f \in [DOMAIN s -> Seq(T)]
  BY ElementOfSeq, LenProperties
<1> HIDE DEF f
<1>2. f \in Seq(Seq(T))
  BY <1>1, SameLength
<1>3. QED
  BY <1>2, FlattenType DEF Mapped, f

LEMMA MappedEmpty ==
    ASSUME NEW g
    PROVE  Mapped(<<>>, g) = <<>>
<1> DEFINE f == [i \in DOMAIN <<>> |-> g[<<>>[i]]]
<1>1. f \in [{} -> {}] /\ DOMAIN f = {}
  OBVIOUS
<1>2. f \in Seq({}) /\ Len(f) = 0
  <2>1. <<>> \in Seq({}) /\ DOMAIN <<>> = {} /\ Len(<<>>) = 0
    OBVIOUS
  <2> HIDE DEF f
  <2>2. f \in [DOMAIN <<>> -> {}]
    BY <1>1, <2>1
  <2>3. QED
    BY <2>1, <2>2, SameLength
<1> HIDE DEF f
<1>3. f = <<>>
  BY <1>2, EmptySeq
<1>4. FlattenSeq(f) = f
  BY <1>2 DEF FlattenSeq
<1>5. QED
  BY <1>3, <1>4 DEF Mapped, f

LEMMA MappedAppended ==
    ASSUME NEW S, NEW T, NEW g \in [S -> Seq(T)], NEW s \in Seq(S), NEW e \in S
    PROVE  Mapped(Append(s, e), g) = Mapped(s, g) \o g[e]
<1> DEFINE t == Append(s, e)
           n == Len(s)
           f == [i \in DOMAIN s |-> g[s[i]]]
           h == [i \in DOMAIN t |-> g[t[i]]]
           a == g[e]
           k == Append(f, a)
<1>1. /\ t \in Seq(S) /\ Len(t) = n + 1 /\ DOMAIN t = 1 .. n + 1
      /\ DOMAIN s = 1..n /\ n \in Nat
      /\ \A i \in 1..n : t[i] = s[i]
      /\ t[n + 1] = e
  BY Appended
<1>2. a \in Seq(T)
  OBVIOUS
<1>3. f \in [DOMAIN s -> Seq(T)]
  BY <1>1, ElementOfSeq
<1>4. h \in [DOMAIN t -> Seq(T)]
  <2> HIDE DEF t
  <2>1. \A i \in DOMAIN t : t[i] \in S
    BY <1>1, ElementOfSeq
  <2>2. QED
    BY <2>1
<1>5. \A i \in 1..n : f[i] = g[s[i]]
  BY <1>1
<1>6. \A i \in 1 .. n + 1 : h[i] = g[t[i]]
  BY <1>1
<1> HIDE DEF t, f, h, a
<1>7. f \in Seq(Seq(T)) /\ Len(f) = n
  BY <1>3, SameLength
<1>8. h \in Seq(Seq(T)) /\ Len(h) = n + 1
  BY <1>1, <1>4, SameLength
<1>9. /\ k \in Seq(Seq(T)) /\ Len(k) = n + 1
      /\ \A i \in 1..n : k[i] = f[i]
      /\ k[n + 1] = a
  BY <1>2, <1>7, Appended
<1> HIDE DEF k, n
<1>10. \A i \in 1 .. n + 1 : h[i] = k[i]
  <2>1. TAKE i \in 1 .. n + 1
  <2>2. CASE i \in 1..n
    BY <1>1, <1>5, <1>6, <1>9, <2>2
  <2>3. CASE i = n + 1
    BY <1>1, <1>6, <1>9, <2>3 DEF a
  <2>4. QED
    BY <1>1, <2>2, <2>3
<1>11. h = k
  BY <1>8, <1>9, <1>10, SeqEqual
<1>12. FlattenSeq(k) = FlattenSeq(f) \o a
  BY <1>2, <1>7, FlattenAppended DEF k
<1>13. QED
  BY <1>11, <1>12, Zenon DEF Mapped, t, f, h, a

----------------------------------------------------------------------------
(* What is appended on a condition.                                        *)
AppendIf(c, s, a) == IF c THEN Append(s, a) ELSE s

LEMMA AppendIfType ==
    ASSUME NEW S, NEW s \in Seq(S), NEW c, NEW a \in S
    PROVE  AppendIf(c, s, a) \in Seq(S)
BY AppendProperties DEF AppendIf

LEMMA AppendIfConcat ==
    ASSUME NEW S, NEW s \in Seq(S), NEW c, NEW a \in S
    PROVE  /\ s \o (IF c THEN <<a>> ELSE <<>>) = AppendIf(c, s, a)
           /\ s \o (IF c THEN <<>> ELSE <<a>>) = AppendIf(~c, s, a)
BY AppendIsConcat, ConcatEmptySeq DEF AppendIf

(* Concatenation, but not to be rewritten.                                 *)
Cat(s, t) == s \o t

LEMMA CatAssociative ==
    ASSUME NEW S, NEW w \in Seq(S), NEW a \in Seq(S), NEW b \in Seq(S)
    PROVE  Cat(w, a) \in Seq(S) /\ Cat(w, Cat(a, b)) = Cat(Cat(w, a), b)
BY ConcatAssociative, ConcatProperties DEF Cat

(* Five sequences, written one after the other.                            *)
LEMMA ConcatOneByOne ==
    ASSUME NEW S, NEW w \in Seq(S), NEW a \in Seq(S), NEW b \in Seq(S),
           NEW c \in Seq(S), NEW d \in Seq(S)
    PROVE  Cat(w, Cat(Cat(Cat(a, b), c), d)) = Cat(Cat(Cat(Cat(w, a), b), c), d)
<1>1. Cat(a, b) \in Seq(S) /\ Cat(Cat(a, b), c) \in Seq(S)
  BY CatAssociative
<1>2. Cat(w, Cat(a, b)) = Cat(Cat(w, a), b)
  BY CatAssociative
<1>3. Cat(w, Cat(Cat(a, b), c)) = Cat(Cat(w, Cat(a, b)), c)
  BY <1>1, CatAssociative
<1>4. Cat(w, Cat(Cat(Cat(a, b), c), d)) = Cat(Cat(w, Cat(Cat(a, b), c)), d)
  BY <1>1, CatAssociative
<1>5. QED
  BY <1>2, <1>3, <1>4

(* Two elements, written one after the other.                              *)
LEMMA TwoAppended ==
    ASSUME NEW S, NEW s \in Seq(S), NEW a \in S, NEW b \in S
    PROVE  s \o <<a, b>> = Append(Append(s, a), b)
<1> DEFINE t == <<a, b>>
           p == s \o t
           q == Append(s, a)
           r == Append(q, b)
           n == Len(s)
<1>1. t \in Seq(S) /\ Len(t) = 2 /\ t[1] = a /\ t[2] = b
  OBVIOUS
<1> HIDE DEF t
<1>2. /\ p \in Seq(S) /\ Len(p) = n + 2
      /\ \A i \in 1..n : p[i] = s[i]
      /\ \A i \in n + 1 .. n + 2 : p[i] = t[i - n]
  <2>1. /\ p \in Seq(S) /\ Len(p) = n + Len(t) /\ n \in Nat
        /\ \A i \in 1 .. n + Len(t) : p[i] = IF i <= n THEN s[i] ELSE t[i - n]
    BY <1>1, ConcatProperties, LenProperties
  <2> HIDE DEF p, n
  <2>2. QED
    BY <1>1, <2>1
<1>3. /\ q \in Seq(S) /\ Len(q) = n + 1 /\ n \in Nat
      /\ \A i \in 1..n : q[i] = s[i]
      /\ q[n + 1] = a
  BY Appended
<1> HIDE DEF q, p
<1>4. /\ r \in Seq(S) /\ Len(r) = n + 2
      /\ \A i \in 1 .. n + 1 : r[i] = q[i]
      /\ r[n + 2] = b
  BY <1>3, Appended
<1> HIDE DEF r, n
<1>5. p[n + 1] = a /\ p[n + 2] = b
  <2>1. (n + 1) - n = 1 /\ (n + 2) - n = 2 /\ n + 1 \in n + 1 .. n + 2 /\ n + 2 \in n + 1 .. n + 2
    BY <1>3
  <2>2. QED
    BY <1>1, <1>2, <2>1
<1>6. \A i \in 1 .. n + 2 : p[i] = r[i]
  <2>1. TAKE i \in 1 .. n + 2
  <2>2. CASE i \in 1..n
    BY <1>2, <1>3, <1>4, <2>2
  <2>3. CASE i = n + 1
    BY <1>3, <1>4, <1>5, <2>3
  <2>4. CASE i = n + 2
    BY <1>4, <1>5, <2>4
  <2>5. QED
    BY <1>3, <2>2, <2>3, <2>4
<1>7. p = r
  BY <1>2, <1>4, <1>6, SeqEqual
<1>8. QED
  BY <1>7, Zenon DEF p, q, r, t

----------------------------------------------------------------------------
(* R orders S: it relates any two elements one way, and not both ways.     *)
Orders(R, S) ==
    /\ \A x, y \in S : x # y => <<x, y>> \in R \/ <<y, x>> \in R
    /\ \A x \in S : <<x, x>> \notin R
    /\ \A x, y, z \in S : <<x, y>> \in R /\ <<y, z>> \in R => <<x, z>> \in R

(* A finite set has a first element.                                       *)
LEMMA First ==
    ASSUME NEW R, NEW S, IsFiniteSet(S), S # {}, Orders(R, S)
    PROVE  \E m \in S : \A x \in S \ {m} : <<m, x>> \in R
<1> DEFINE Firstless(T) == T # {} /\ ~ \E m \in T : \A x \in T \ {m} : <<m, x>> \in R
           Sizes == {Cardinality(T) : T \in {T \in SUBSET S : Firstless(T)}}
<1>1. \A T \in SUBSET S : IsFiniteSet(T) /\ Cardinality(T) \in Nat
  BY FS_Subset, FS_CardinalityType
<1>2. SUFFICES ASSUME Sizes # {} PROVE FALSE
  <2>1. Cardinality(S) \in Sizes \/ ~Firstless(S)
    OBVIOUS
  <2>2. QED
    BY <1>2, <2>1
<1>3. Sizes \subseteq Nat
  BY <1>1
<1>4. PICK n \in Sizes : \A m \in Sizes : n <= m
  BY <1>2, <1>3, Least
<1>5. PICK T \in SUBSET S : Firstless(T) /\ Cardinality(T) = n
  OBVIOUS
<1>6. PICK e \in T : TRUE
  BY <1>5
<1>7. T \ {e} \in SUBSET S /\ Cardinality(T \ {e}) = n - 1
  BY <1>1, <1>5, <1>6, FS_RemoveElement
<1>8. ~Firstless(T \ {e})
  <2>1. SUFFICES ASSUME Firstless(T \ {e}) PROVE FALSE
    OBVIOUS
  <2>2. n - 1 \in Sizes
    BY <1>7, <2>1
  <2>3. n \in Nat
    BY <1>3
  <2>4. QED
    BY <1>4, <2>2, <2>3
<1>9. CASE T \ {e} = {}
  <2>1. \A x \in T \ {e} : <<e, x>> \in R
    BY <1>9
  <2>2. QED
    BY <1>5, <1>6, <2>1
<1>10. CASE T \ {e} # {}
  <2>1. PICK m \in T \ {e} : \A x \in (T \ {e}) \ {m} : <<m, x>> \in R
    BY <1>8, <1>10
  <2>2. m \in S /\ e \in S /\ \A x \in T : x \in S
    BY <1>6, <2>1
  <2>3. CASE <<m, e>> \in R
    <3>1. \A x \in T \ {m} : <<m, x>> \in R
      BY <2>1, <2>3
    <3>2. QED
      BY <1>5, <2>1, <3>1
  <2>4. CASE <<e, m>> \in R
    <3>1. \A x \in T \ {e} : x = m \/ <<m, x>> \in R
      BY <2>1
    <3>2. \A x \in T \ {e} : <<e, x>> \in R
      BY <2>2, <2>4, <3>1 DEF Orders
    <3>3. QED
      BY <1>5, <1>6, <3>2
  <2>5. QED
    BY <2>1, <2>2, <2>3, <2>4 DEF Orders
<1>11. QED
  BY <1>9, <1>10

(* A listing of S by R.                                                    *)
Lists(s, R, S) ==
    /\ s \in [1..Cardinality(S) -> S]
    /\ \A i, j \in 1..Cardinality(S) : i < j => <<s[i], s[j]>> \in R

(* A finite set that is ordered can be listed.                             *)
LEMMA Listed ==
    ASSUME NEW R, NEW S, IsFiniteSet(S), Orders(R, S)
    PROVE  \E s : Lists(s, R, S)
<1> DEFINE Listless(T) == ~ \E s : Lists(s, R, T)
           Sizes == {Cardinality(T) : T \in {T \in SUBSET S : Listless(T)}}
<1>1. \A T \in SUBSET S : IsFiniteSet(T) /\ Cardinality(T) \in Nat
  BY FS_Subset, FS_CardinalityType
<1>2. SUFFICES ASSUME Sizes # {} PROVE FALSE
  <2>1. Cardinality(S) \in Sizes \/ ~Listless(S)
    OBVIOUS
  <2>2. QED
    BY <1>2, <2>1
<1>3. Sizes \subseteq Nat
  BY <1>1
<1>4. PICK n \in Sizes : \A m \in Sizes : n <= m
  BY <1>2, <1>3, Least
<1>5. PICK T \in SUBSET S : Listless(T) /\ Cardinality(T) = n
  OBVIOUS
<1>6. n \in Nat /\ IsFiniteSet(T)
  BY <1>1, <1>3
<1>7. T # {}
  <2>1. SUFFICES ASSUME T = {} PROVE FALSE
    OBVIOUS
  <2>2. Cardinality(T) = 0
    BY <2>1, FS_EmptySet
  <2>3. Lists(<<>>, R, T)
    BY <2>1, <2>2 DEF Lists
  <2>4. QED
    BY <1>5, <2>3
<1>8. Orders(R, T)
  BY DEF Orders
<1>9. PICK m \in T : \A x \in T \ {m} : <<m, x>> \in R
  BY <1>6, <1>7, <1>8, First
<1>10. T \ {m} \in SUBSET S /\ Cardinality(T \ {m}) = n - 1 /\ n - 1 \in Nat
  <2>1. T \ {m} \in SUBSET S
    OBVIOUS
  <2>2. Cardinality(T \ {m}) = n - 1
    BY <1>5, <1>6, <1>9, FS_RemoveElement
  <2>3. QED
    BY <1>1, <2>1, <2>2
<1>11. PICK r : Lists(r, R, T \ {m})
  <2>1. SUFFICES ASSUME Listless(T \ {m}) PROVE FALSE
    OBVIOUS
  <2>2. n - 1 \in Sizes
    BY <1>10, <2>1
  <2>3. QED
    BY <1>4, <1>6, <2>2
<1> DEFINE s == [i \in 1..n |-> IF i = 1 THEN m ELSE r[i - 1]]
<1>12. \A i \in 2..n : i - 1 \in 1 .. n - 1 /\ s[i] = r[i - 1] /\ s[i] \in T \ {m}
  <2>1. \A i \in 2..n : i - 1 \in 1 .. n - 1 /\ i \in 1..n /\ i # 1
    BY <1>6
  <2>2. \A k \in 1 .. n - 1 : r[k] \in T \ {m}
    BY <1>10, <1>11 DEF Lists
  <2>3. QED
    BY <2>1, <2>2
<1>13. \A i \in 1..n : (i = 1 /\ s[1] = m) \/ i \in 2..n
  BY <1>6
<1>14. s \in [1..n -> T]
  <2>1. \A i \in 1..n : s[i] \in T
    BY <1>9, <1>12, <1>13
  <2>2. QED
    BY <2>1
<1>15. ASSUME NEW i \in 1..n, NEW j \in 1..n, i < j
       PROVE  <<s[i], s[j]>> \in R
  <2>1. j \in 2..n
    BY <1>6, <1>15
  <2>2. CASE i = 1
    BY <1>9, <1>12, <2>1, <2>2
  <2>3. CASE i # 1
    <3>1. i \in 2..n /\ i - 1 < j - 1
      BY <1>6, <1>15, <2>3
    <3>2. \A k, l \in 1 .. n - 1 : k < l => <<r[k], r[l]>> \in R
      BY <1>10, <1>11 DEF Lists
    <3>3. i - 1 \in 1 .. n - 1 /\ j - 1 \in 1 .. n - 1 /\ s[i] = r[i - 1] /\ s[j] = r[j - 1]
      BY <1>12, <2>1, <3>1
    <3>4. QED
      BY <3>1, <3>2, <3>3
  <2>4. QED
    BY <2>2, <2>3
<1> HIDE DEF s
<1>16. Lists(s, R, T)
  BY <1>5, <1>14, <1>15 DEF Lists
<1>17. QED
  BY <1>5, <1>16

(* A listing names every element, once.                                    *)
LEMMA ListsAll ==
    ASSUME NEW R, NEW S, IsFiniteSet(S), Orders(R, S), NEW s, Lists(s, R, S)
    PROVE  /\ \A i, j \in 1..Cardinality(S) : s[i] = s[j] => i = j
           /\ \A x \in S : \E i \in 1..Cardinality(S) : s[i] = x
<1> DEFINE n == Cardinality(S)
<1>1. n \in Nat /\ s \in [1..n -> S]
  BY FS_CardinalityType DEF Lists
<1>2. ASSUME NEW i \in 1..n, NEW j \in 1..n, i # j PROVE s[i] # s[j]
  <2>1. i < j \/ j < i
    BY <1>1, <1>2
  <2>2. <<s[i], s[j]>> \in R \/ <<s[j], s[i]>> \in R
    BY <2>1 DEF Lists
  <2>3. s[i] \in S
    BY <1>1
  <2>4. QED
    BY <2>2, <2>3 DEF Orders
<1>3. ASSUME NEW x \in S, ~ \E i \in 1..n : s[i] = x PROVE FALSE
  <2>1. s \in [1..n -> S \ {x}]
    BY <1>1, <1>3
  <2>2. IsFiniteSet(S \ {x}) /\ Cardinality(S \ {x}) = n - 1
    BY FS_RemoveElement
  <2>3. IsFiniteSet(1..n) /\ Cardinality(1..n) = n
    BY <1>1, FS_Interval
  <2>4. Cardinality(S \ {x}) < Cardinality(1..n)
    BY <1>1, <2>2, <2>3
  <2>5. \E i, j \in 1..n : i # j /\ s[i] = s[j]
    <3> HIDE DEF n
    <3> QED
      BY <2>1, <2>2, <2>3, <2>4, FS_PigeonHole
  <2>6. QED
    BY <1>2, <2>5
<1>4. QED
  BY <1>2, <1>3

----------------------------------------------------------------------------
(* A set of sequences that has the empty one, and with each sequence those *)
(* with one element more, has all.                                         *)
LEMMA OneByOne ==
    ASSUME NEW S, NEW Q, <<>> \in Q,
           \A s \in Seq(S), e \in S : s \in Q => Append(s, e) \in Q
    PROVE  Seq(S) \subseteq Q
<1> DEFINE Lens == {Len(s) : s \in Seq(S) \ Q}
<1>1. SUFFICES ASSUME Lens # {} PROVE FALSE
  OBVIOUS
<1>2. PICK n \in Lens : \A m \in Lens : n <= m
  <2>1. Lens \subseteq Nat
    BY LenProperties
  <2>2. QED
    BY <1>1, <2>1, Least
<1>3. PICK t \in Seq(S) \ Q : Len(t) = n
  OBVIOUS
<1>4. PICK s \in Seq(S), e \in S : t = Append(s, e)
  BY <1>3, SequenceEmptyOrAppend
<1>5. n = Len(s) + 1 /\ Len(s) \in Nat
  BY <1>3, <1>4, AppendProperties, LenProperties
<1>6. s \notin Q
  BY <1>3, <1>4
<1>7. n <= Len(s)
  BY <1>2, <1>6
<1>8. QED
  BY <1>5, <1>7

LEMMA AppendToConcat ==
    ASSUME NEW S, NEW s \in Seq(S), NEW t \in Seq(S), NEW e \in S
    PROVE  s \o Append(t, e) = Append(s \o t, e)
<1>1. s \o t \in Seq(S) /\ <<e>> \in Seq(S)
  BY ConcatProperties
<1>2. Append(t, e) = t \o <<e>> /\ Append(s \o t, e) = (s \o t) \o <<e>>
  BY <1>1, AppendIsConcat
<1>3. s \o (t \o <<e>>) = (s \o t) \o <<e>>
  BY <1>1, ConcatAssociative
<1>4. QED
  BY <1>2, <1>3

LEMMA CatEmpty ==
    ASSUME NEW S, NEW s \in Seq(S)
    PROVE  Cat(s, <<>>) = s /\ Cat(<<>>, s) = s
BY ConcatEmptySeq DEF Cat

LEMMA CatAppended ==
    ASSUME NEW S, NEW s \in Seq(S), NEW t \in Seq(S), NEW e \in S
    PROVE  Cat(s, Append(t, e)) = Append(Cat(s, t), e)
BY AppendToConcat DEF Cat

LEMMA MappedCatOne ==
    ASSUME NEW S, NEW T, NEW g \in [S -> Seq(T)], NEW s \in Seq(S), NEW e \in S
    PROVE  Mapped(Append(s, e), g) = Cat(Mapped(s, g), g[e])
BY MappedAppended DEF Cat

(* What is made of two sequences is what is made of both.                  *)
LEMMA MappedCat ==
    ASSUME NEW S, NEW T, NEW g \in [S -> Seq(T)], NEW s \in Seq(S), NEW t \in Seq(S)
    PROVE  Mapped(Cat(s, t), g) = Cat(Mapped(s, g), Mapped(t, g))
<1> DEFINE Q == {x \in Seq(S) : Mapped(Cat(s, x), g) = Cat(Mapped(s, g), Mapped(x, g))}
<1>1. Mapped(s, g) \in Seq(T)
  BY MappedType
<1>2. <<>> \in Q
  <2>1. Cat(s, <<>>) = s /\ Mapped(<<>>, g) = <<>> /\ Cat(Mapped(s, g), <<>>) = Mapped(s, g)
    BY <1>1, CatEmpty, MappedEmpty
  <2>2. QED
    BY <2>1, EmptySeq
<1>3. ASSUME NEW x \in Seq(S), NEW e \in S, x \in Q PROVE Append(x, e) \in Q
  <2>1. Cat(s, x) \in Seq(S) /\ Append(x, e) \in Seq(S) /\ Mapped(x, g) \in Seq(T) /\ g[e] \in Seq(T)
    BY CatAssociative, AppendProperties, MappedType
  <2>2. Mapped(Cat(s, Append(x, e)), g) = Cat(Mapped(Cat(s, x), g), g[e])
    <3>1. Cat(s, Append(x, e)) = Append(Cat(s, x), e)
      BY CatAppended
    <3>2. QED
      BY <2>1, <3>1, MappedCatOne
  <2>3. Mapped(Append(x, e), g) = Cat(Mapped(x, g), g[e])
    BY MappedCatOne
  <2>4. Mapped(Cat(s, x), g) = Cat(Mapped(s, g), Mapped(x, g))
    BY <1>3
  <2>5. Cat(Cat(Mapped(s, g), Mapped(x, g)), g[e]) = Cat(Mapped(s, g), Cat(Mapped(x, g), g[e]))
    BY <1>1, <2>1, CatAssociative
  <2>6. QED
    BY <2>1, <2>2, <2>3, <2>4, <2>5
<1>4. Seq(S) \subseteq Q
  <2> HIDE DEF Q
  <2>1. QED
    BY <1>2, <1>3, OneByOne
<1>5. QED
  BY <1>4

(* What is made of a flattened sequence is made of its sequences.          *)
LEMMA MappedFlattened ==
    ASSUME NEW S, NEW T, NEW g \in [S -> Seq(T)], NEW B \in Seq(Seq(S)),
           NEW n, n = Len(B)
    PROVE  Mapped(FlattenSeq(B), g) = FlattenSeq([i \in 1..n |-> Mapped(B[i], g)])
<1> DEFINE G == [b \in Seq(S) |-> Mapped(b, g)]
           Q == {x \in Seq(Seq(S)) : Mapped(FlattenSeq(x), g) = Mapped(x, G)}
<1>0. G \in [Seq(S) -> Seq(T)] /\ \A b \in Seq(S) : G[b] = Mapped(b, g)
  BY MappedType
<1> HIDE DEF G
<1>1. <<>> \in Q
  <2>1. FlattenSeq(<<>>) = <<>>
    BY DEF FlattenSeq
  <2>2. <<>> \in Seq(Seq(S))
    BY EmptySeq
  <2>3. QED
    BY <2>1, <2>2, MappedEmpty
<1>2. ASSUME NEW x \in Seq(Seq(S)), NEW e \in Seq(S), x \in Q PROVE Append(x, e) \in Q
  <2>1. FlattenSeq(Append(x, e)) = Cat(FlattenSeq(x), e) /\ FlattenSeq(x) \in Seq(S)
    BY FlattenAppended, FlattenType DEF Cat
  <2>2. Mapped(Cat(FlattenSeq(x), e), g) = Cat(Mapped(FlattenSeq(x), g), Mapped(e, g))
    BY <2>1, MappedCat
  <2>3. Mapped(Append(x, e), G) = Cat(Mapped(x, G), G[e])
    <3> DEFINE D == Seq(S)
    <3>1. G \in [D -> Seq(T)] /\ x \in Seq(D) /\ e \in D
      BY <1>0
    <3> HIDE DEF D
    <3>2. QED
      BY <3>1, MappedCatOne
  <2>4. G[e] = Mapped(e, g) /\ Mapped(FlattenSeq(x), g) = Mapped(x, G)
    BY <1>0, <1>2
  <2>5. Append(x, e) \in Seq(Seq(S))
    BY AppendProperties
  <2>6. QED
    BY <2>1, <2>2, <2>3, <2>4, <2>5
<1>3. Seq(Seq(S)) \subseteq Q
  <2> HIDE DEF Q
  <2>1. QED
    BY <1>1, <1>2, OneByOne
<1>4. \A i \in DOMAIN B : G[B[i]] = Mapped(B[i], g)
  BY <1>0, ElementOfSeq, LenProperties
<1>5. [i \in 1..n |-> Mapped(B[i], g)] = [i \in DOMAIN B |-> G[B[i]]]
  BY <1>4, LenProperties
<1>6. Mapped(FlattenSeq(B), g) = Mapped(B, G)
  BY <1>3
<1>7. QED
  BY <1>5, <1>6 DEF Mapped

LEMMA MappedOne ==
    ASSUME NEW S, NEW T, NEW g \in [S -> Seq(T)], NEW e \in S
    PROVE  Mapped(<<e>>, g) = g[e]
<1>1. <<>> \in Seq(S) /\ <<e>> = Append(<<>>, e)
  BY EmptySeq
<1>2. Mapped(<<e>>, g) = Mapped(<<>>, g) \o g[e]
  BY <1>1, MappedAppended
<1>3. <<>> \o g[e] = g[e]
  BY ConcatEmptySeq
<1>4. QED
  BY <1>2, <1>3, MappedEmpty

(* What is made of a sequence depends on its elements only.                *)
LEMMA MappedSame ==
    ASSUME NEW S, NEW s \in Seq(S), NEW g, NEW h, \A x \in S : g[x] = h[x]
    PROVE  Mapped(s, g) = Mapped(s, h)
<1>1. \A i \in DOMAIN s : s[i] \in S
  BY ElementOfSeq, LenProperties
<1>2. [i \in DOMAIN s |-> g[s[i]]] = [i \in DOMAIN s |-> h[s[i]]]
  BY <1>1
<1>3. QED
  BY <1>2 DEF Mapped

LEMMA MappedToNothing ==
    ASSUME NEW S, NEW s \in Seq(S), NEW h, \A x \in S : h[x] = <<>>
    PROVE  Mapped(s, h) = <<>>
<1> DEFINE g == [x \in S |-> <<>>]
           Q == {x \in Seq(S) : Mapped(x, g) = <<>>}
<1>1. <<>> \in Q
  BY EmptySeq, MappedEmpty
<1>2. g \in [S -> Seq({})] /\ \A x \in S : g[x] = <<>>
  BY EmptySeq
<1> HIDE DEF g
<1>3. ASSUME NEW x \in Seq(S), NEW e \in S, x \in Q PROVE Append(x, e) \in Q
  <2>1. Mapped(Append(x, e), g) = Cat(<<>>, g[e]) /\ g[e] = <<>>
    BY <1>2, <1>3, MappedCatOne
  <2>2. Cat(<<>>, <<>>) = <<>>
    BY CatEmpty, EmptySeq
  <2>3. QED
    BY <2>1, <2>2, AppendProperties
<1>4. Seq(S) \subseteq Q
  <2> HIDE DEF Q
  <2>1. QED
    BY <1>1, <1>3, OneByOne
<1>5. Mapped(s, g) = Mapped(s, h)
  BY <1>2, MappedSame
<1>6. QED
  BY <1>4, <1>5

(* Where one element is made of each, they are in their places.            *)
Singly(S, k) == [x \in S |-> <<k[x]>>]
Each(s, k) == [i \in DOMAIN s |-> k[s[i]]]

LEMMA MappedEach ==
    ASSUME NEW S, NEW T, NEW k \in [S -> T], NEW s \in Seq(S)
    PROVE  Mapped(s, Singly(S, k)) = Each(s, k)
<1> DEFINE g == Singly(S, k)
           M(x) == [i \in DOMAIN x |-> k[x[i]]]
           Q == {x \in Seq(S) : Mapped(x, g) = M(x)}
<1>g. g \in [S -> Seq(T)] /\ \A x \in S : g[x] = <<k[x]>>
  BY DEF Singly
<1> HIDE DEF g
<1>0. ASSUME NEW x \in Seq(S) 
      PROVE  M(x) \in Seq(T) /\ Len(M(x)) = Len(x) /\ DOMAIN x = 1..Len(x) /\ Len(x) \in Nat
  <2>1. DOMAIN x = 1..Len(x) /\ Len(x) \in Nat
    BY LenProperties
  <2>2. M(x) \in [DOMAIN x -> T]
    BY <2>1, ElementOfSeq
  <2> HIDE DEF M
  <2>3. QED
    BY <2>1, <2>2, SameLength
<1>1. <<>> \in Q
  <2>1. M(<<>>) = <<>>
    BY <1>0, EmptySeq
  <2>2. QED
    BY <2>1, EmptySeq, MappedEmpty
<1>2. ASSUME NEW x \in Seq(S), NEW e \in S, x \in Q PROVE Append(x, e) \in Q
  <2> DEFINE y == Append(x, e)
             n == Len(x)
             p == Append(M(x), k[e])
             q == M(y)
  <2>1. /\ y \in Seq(S) /\ Len(y) = n + 1 /\ DOMAIN y = 1 .. n + 1
        /\ DOMAIN x = 1..n /\ n \in Nat /\ y[n + 1] = e
        /\ \A i \in 1..n : y[i] = x[i]
    BY Appended
  <2>2. Mapped(y, g) = M(x) \o <<k[e]>>
    <3>1. Mapped(y, g) = Mapped(x, g) \o g[e]
      BY <1>g, MappedCatOne DEF Cat
    <3>2. Mapped(x, g) = M(x)
      BY <1>2
    <3> HIDE DEF M
    <3>3. g[e] = <<k[e]>>
      BY <1>g
    <3>4. QED
      BY <3>1, <3>2, <3>3
  <2>3. M(x) \in Seq(T) /\ Len(M(x)) = n /\ k[e] \in T
    BY <1>0
  <2>4. /\ p \in Seq(T) /\ Len(p) = n + 1 /\ p[n + 1] = k[e]
        /\ \A i \in 1..n : p[i] = M(x)[i]
    <3> HIDE DEF M
    <3>1. ASSUME NEW z \in Seq(T), NEW c \in T, Len(z) = n
          PROVE  /\ Append(z, c) \in Seq(T) /\ Len(Append(z, c)) = n + 1
                 /\ Append(z, c)[n + 1] = c /\ \A i \in 1..n : Append(z, c)[i] = z[i]
      BY <3>1, Appended
    <3>2. QED
      BY <2>3, <3>1
  <2>5. q \in Seq(T) /\ Len(q) = n + 1
    <3> HIDE DEF M, y
    <3>1. QED
      BY <1>0, <2>1
  <2>6. \A i \in 1 .. n + 1 : p[i] = q[i]
    <3>1. TAKE i \in 1 .. n + 1
    <3>2. q[i] = k[y[i]]
      BY <2>1
    <3>3. i \in 1..n => M(x)[i] = k[x[i]]
      BY <2>1
    <3> HIDE DEF p, q, y, M
    <3>4. i \in 1..n \/ i = n + 1
      BY <2>1
    <3>5. QED
      BY <2>1, <2>4, <3>2, <3>3, <3>4
  <2>7. p = q
    <3> HIDE DEF p, q, n
    <3>1. QED
      BY <2>4, <2>5, <2>6, SeqEqual
  <2>8. p = M(x) \o <<k[e]>>
    <3> HIDE DEF M
    <3>1. QED
      BY <2>3, AppendIsConcat
  <2>9. QED
    BY <2>1, <2>2, <2>7, <2>8
<1>3. Seq(S) \subseteq Q
  <2> HIDE DEF Q
  <2>1. QED
    BY <1>1, <1>2, OneByOne
<1>4. Mapped(s, g) = M(s)
  BY <1>3
<1>5. QED
  BY <1>4 DEF Each, g

(* What is made of a sequence in two steps.                                *)
Gives(S, T) == [S -> T]
Makes(S, T) == [S -> Seq(T)]
Twice(S, g, h) == [x \in S |-> Mapped(g[x], h)]
EachTwice(S, g, k) == [x \in S |-> Each(g[x], k)]

LEMMA MappedTwice ==
    ASSUME NEW S, NEW T, NEW U, NEW g \in Makes(S, T), NEW h \in Makes(T, U), NEW s \in Seq(S)
    PROVE  Mapped(Mapped(s, g), h) = Mapped(s, Twice(S, g, h))
<1> DEFINE B == [i \in DOMAIN s |-> g[s[i]]]
           G == Twice(S, g, h)
           n == Len(s)
<1>0. g \in [S -> Seq(T)] /\ h \in [T -> Seq(U)]
  BY DEF Makes
<1>1. n \in Nat /\ DOMAIN s = 1..n /\ \A i \in 1..n : s[i] \in S
  BY LenProperties, ElementOfSeq
<1>2. B \in [DOMAIN s -> Seq(T)]
  BY <1>0, <1>1
<1>3. B \in Seq(Seq(T)) /\ Len(B) = n
  <2> HIDE DEF B
  <2>1. QED
    BY <1>2, SameLength
<1>4. Mapped(FlattenSeq(B), h) = FlattenSeq([i \in 1..n |-> Mapped(B[i], h)])
  <2> HIDE DEF B, n
  <2>1. QED
    BY <1>0, <1>3, MappedFlattened
<1>5. [i \in 1..n |-> Mapped(B[i], h)] = [i \in DOMAIN s |-> G[s[i]]]
  <2>1. \A i \in 1..n : B[i] = g[s[i]] /\ G[s[i]] = Mapped(g[s[i]], h)
    BY <1>1 DEF Twice
  <2> HIDE DEF B, G
  <2>2. QED
    BY <1>1, <2>1
<1>6. QED
  BY <1>4, <1>5 DEF Mapped

LEMMA EachOfMapped ==
    ASSUME NEW S, NEW T, NEW U, NEW g \in Makes(S, T), NEW k \in Gives(T, U), NEW s \in Seq(S)
    PROVE  Each(Mapped(s, g), k) = Mapped(s, EachTwice(S, g, k))
<1>1. PICK h : h = Singly(T, k)
  OBVIOUS
<1>0. g \in [S -> Seq(T)] /\ k \in [T -> U]
  BY DEF Makes, Gives
<1>2. h \in Makes(T, U)
  BY <1>0, <1>1 DEF Singly, Makes
<1>3. Mapped(s, g) \in Seq(T)
  BY <1>0, MappedType
<1>4. Mapped(Mapped(s, g), h) = Each(Mapped(s, g), k)
  BY <1>0, <1>1, <1>3, MappedEach
<1>5. \A x \in S : Mapped(g[x], h) = Each(g[x], k)
  BY <1>0, <1>1, MappedEach
<1>6. Twice(S, g, h) = EachTwice(S, g, k)
  BY <1>5 DEF Twice, EachTwice
<1>7. Mapped(Mapped(s, g), h) = Mapped(s, Twice(S, g, h))
  BY <1>2, MappedTwice
<1>8. QED
  BY <1>4, <1>6, <1>7

LEMMA EachSame ==
    ASSUME NEW S, NEW s \in Seq(S), NEW k, \A x \in S : k[x] = x
    PROVE  Each(s, k) = s
<1>1. Len(s) \in Nat /\ DOMAIN s = 1..Len(s) /\ \A i \in 1..Len(s) : s[i] \in S
  BY LenProperties, ElementOfSeq
<1>2. s = [i \in 1..Len(s) |-> s[i]]
  BY <1>1
<1>3. [i \in 1..Len(s) |-> s[i]] = [i \in DOMAIN s |-> k[s[i]]]
  BY <1>1
<1>4. QED
  BY <1>2, <1>3 DEF Each

(* A sequence is what comes up to a place and what comes behind.           *)
LEMMA InTwoParts ==
    ASSUME NEW S, NEW s \in Seq(S), NEW front \in Seq(S), NEW back \in Seq(S),
           Len(s) = Len(front) + Len(back), \A i \in 1..Len(front) : s[i] = front[i],
           \A i \in 1..Len(back) : s[Len(front) + i] = back[i]
    PROVE  Cat(front, back) = s
<1> DEFINE c == Cat(front, back)
           m == Len(front)
           n == Len(back)
<1>1. m \in Nat /\ n \in Nat
  BY LenProperties
<1>2. /\ c \in Seq(S) /\ Len(c) = m + n
      /\ \A i \in 1 .. m + n : c[i] = IF i <= m THEN front[i] ELSE back[i - m]
  BY ConcatProperties DEF Cat
<1>3. Len(s) = m + n /\ (\A i \in 1..m : s[i] = front[i]) /\ (\A i \in 1..n : s[m + i] = back[i])
  OBVIOUS
<1> HIDE DEF c, m, n
<1>4. ASSUME NEW i \in 1 .. m + n PROVE c[i] = s[i]
  <2>1. CASE i <= m
    BY <1>1, <1>2, <1>3, <2>1
  <2>2. CASE i > m
    <3>1. i - m \in 1..n /\ m + (i - m) = i /\ ~(i <= m)
      BY <1>1, <2>2
    <3>2. back[i - m] = s[m + (i - m)]
      BY <1>3, <3>1
    <3>3. c[i] = back[i - m]
      BY <1>2, <3>1
    <3>4. QED
      BY <3>1, <3>2, <3>3
  <2>3. QED
    BY <1>1, <2>1, <2>2
<1>5. c = s
  BY <1>2, <1>3, <1>4, SeqEqual
<1>6. QED
  BY <1>5 DEF c

UpTo(s, n) == SubSeq(s, 1, n)
After(s, n) == SubSeq(s, n + 1, Len(s))

LEMMA UpToIs ==
    ASSUME NEW S, NEW s \in Seq(S), NEW n \in 0..Len(s)
    PROVE  /\ UpTo(s, n) \in Seq(S) /\ Len(UpTo(s, n)) = n
           /\ \A i \in 1..n : UpTo(s, n)[i] = s[i]
<1>1. Len(s) \in Nat /\ DOMAIN s = 1..Len(s) /\ \A i \in 1..Len(s) : s[i] \in S
  BY LenProperties, ElementOfSeq
<1>2. QED
  BY <1>1 DEF UpTo

LEMMA AfterIs ==
    ASSUME NEW S, NEW s \in Seq(S), NEW n \in 0..Len(s)
    PROVE  /\ After(s, n) \in Seq(S) /\ Len(After(s, n)) = Len(s) - n
           /\ \A i \in 1 .. Len(s) - n : After(s, n)[i] = s[n + i]
<1>1. Len(s) \in Nat /\ DOMAIN s = 1..Len(s) /\ \A i \in 1..Len(s) : s[i] \in S
  BY LenProperties, ElementOfSeq
<1>2. PICK m, l : m = n + 1 /\ l = Len(s)
  OBVIOUS
<1>3. m \in Int /\ l \in Int /\ \A i \in m..l : s[i] \in S
  BY <1>1, <1>2
<1>4. /\ SubSeq(s, m, l) \in Seq(S)
      /\ Len(SubSeq(s, m, l)) = IF m <= l THEN l - m + 1 ELSE 0
      /\ \A i \in 1 .. l - m + 1 : SubSeq(s, m, l)[i] = s[m + i - 1]
  BY <1>3, SubSeqProperties
<1>5. PICK b : b = SubSeq(s, m, l)
  OBVIOUS
<1>6. b = After(s, n)
  BY <1>2, <1>5 DEF After
<1>7. b \in Seq(S) /\ Len(b) = (IF m <= l THEN l - m + 1 ELSE 0) /\ \A i \in 1 .. l - m + 1 : b[i] = s[m + i - 1]
  BY <1>4, <1>5, Zenon
<1>8. l - m + 1 = l - n /\ (IF m <= l THEN l - m + 1 ELSE 0) = l - n
  <2>1. n \in Nat /\ l \in Nat /\ n <= l /\ m = n + 1
    BY <1>1, <1>2
  <2>2. QED
    BY <2>1
<1>9. \A i \in 1 .. l - n : b[i] = s[n + i]
  <2>1. \A i \in 1 .. l - n : m + i - 1 = n + i
    BY <1>1, <1>2
  <2>2. QED
    BY <1>7, <1>8, <2>1
<1>10. QED
  BY <1>2, <1>6, <1>7, <1>8, <1>9

LEMMA CutInTwo ==
    ASSUME NEW S, NEW s \in Seq(S), NEW n \in 0..Len(s)
    PROVE  Cat(UpTo(s, n), After(s, n)) = s
<1>1. Len(s) \in Nat
  BY LenProperties
<1>2. PICK f, b : f = UpTo(s, n) /\ b = After(s, n)
  OBVIOUS
<1>3. f \in Seq(S) /\ Len(f) = n /\ \A i \in 1..n : f[i] = s[i]
  BY <1>2, UpToIs
<1>4. b \in Seq(S) /\ Len(b) = Len(s) - n /\ \A i \in 1 .. Len(s) - n : b[i] = s[n + i]
  BY <1>2, AfterIs
<1>5. Len(s) = Len(f) + Len(b)
  BY <1>1, <1>3, <1>4
<1>6. (\A i \in 1..Len(f) : s[i] = f[i]) /\ (\A i \in 1..Len(b) : s[Len(f) + i] = b[i])
  BY <1>3, <1>4
<1>7. QED
  BY <1>2, <1>3, <1>4, <1>5, <1>6, InTwoParts

(* What is in a flattened sequence is in one of its sequences.             *)
Occurs(s, x) == \E p \in DOMAIN s : s[p] = x

LEMMA FlattenedOccurs ==
    ASSUME NEW S, NEW B \in Seq(Seq(S)), NEW x
    PROVE  Occurs(FlattenSeq(B), x) <=> \E i \in 1..Len(B) : \E k \in 1..Len(B[i]) : B[i][k] = x
<1>1. PICK f, off : f = FlattenSeq(B) /\ InPlace(f, B, off)
  BY FlattenedInPlace
<1>2. ASSUME NEW p \in DOMAIN f, f[p] = x
      PROVE  \E i \in 1..Len(B) : \E k \in 1..Len(B[i]) : B[i][k] = x
  <2>1. PICK i \in 1..Len(B) : \E k \in 1..Len(B[i]) : p = Place(off, i, k)
    BY <1>1 DEF InPlace
  <2>2. PICK k \in 1..Len(B[i]) : p = Place(off, i, k)
    BY <2>1
  <2>3. f[p] = B[i][k]
    BY <1>1, <2>2 DEF InPlace
  <2>4. QED
    BY <1>2, <2>3
<1>3. ASSUME NEW i \in 1..Len(B), NEW k \in 1..Len(B[i]), B[i][k] = x
      PROVE  Occurs(f, x)
  <2>1. Place(off, i, k) \in DOMAIN f /\ f[Place(off, i, k)] = B[i][k]
    BY <1>1 DEF InPlace
  <2>2. QED
    BY <1>3, <2>1 DEF Occurs
<1>4. QED
  BY <1>1, <1>2, <1>3 DEF Occurs

LEMMA CatIs ==
    ASSUME NEW S, NEW a \in Seq(S), NEW b \in Seq(S)
    PROVE  /\ Cat(a, b) \in Seq(S) /\ Len(Cat(a, b)) = Len(a) + Len(b)
           /\ \A i \in 1 .. Len(a) + Len(b) :
                Cat(a, b)[i] = IF i <= Len(a) THEN a[i] ELSE b[i - Len(a)]
BY ConcatProperties DEF Cat

(* A sequence put together of three.                                       *)
ThreeParts(s, f, m, b) ==
    /\ Len(s) = Len(f) + Len(m) + Len(b)
    /\ \A i \in 1..Len(f) : s[i] = f[i]
    /\ \A i \in 1..Len(m) : s[Len(f) + i] = m[i]
    /\ \A i \in 1..Len(b) : s[Len(f) + Len(m) + i] = b[i]

LEMMA AllInPlace ==
    ASSUME NEW S, NEW f \in Seq(S), NEW m \in Seq(S), NEW b \in Seq(S), NEW s, s = Cat(Cat(f, m), b)
    PROVE  s \in Seq(S) /\ ThreeParts(s, f, m, b)
<1>1. Len(f) \in Nat /\ Len(m) \in Nat /\ Len(b) \in Nat
  BY LenProperties
<1>2. PICK x : x = Cat(f, m)
  OBVIOUS
<1>3. /\ x \in Seq(S) /\ Len(x) = Len(f) + Len(m)
      /\ \A i \in 1 .. Len(f) + Len(m) : x[i] = IF i <= Len(f) THEN f[i] ELSE m[i - Len(f)]
  BY <1>2, CatIs
<1>4. s = Cat(x, b)
  BY <1>2
<1>5. /\ s \in Seq(S) /\ Len(s) = Len(x) + Len(b)
      /\ \A i \in 1 .. Len(x) + Len(b) : s[i] = IF i <= Len(x) THEN x[i] ELSE b[i - Len(x)]
  <2>1. x \in Seq(S)
    BY <1>3
  <2>2. PICK y : y = Cat(x, b)
    OBVIOUS
  <2>3. /\ y \in Seq(S) /\ Len(y) = Len(x) + Len(b)
        /\ \A i \in 1 .. Len(x) + Len(b) : y[i] = IF i <= Len(x) THEN x[i] ELSE b[i - Len(x)]
    BY <2>1, <2>2, CatIs
  <2>4. s = y
    BY <1>4, <2>2
  <2>5. QED
    BY <2>3, <2>4, Zenon
<1>6. ASSUME NEW i \in 1..Len(f) PROVE s[i] = f[i]
  BY <1>1, <1>3, <1>5
<1>7. ASSUME NEW i \in 1..Len(m) PROVE s[Len(f) + i] = m[i]
  <2>1. /\ Len(f) + i \in 1 .. Len(f) + Len(m) /\ ~(Len(f) + i <= Len(f))
        /\ (Len(f) + i) - Len(f) = i /\ Len(f) + i <= Len(x) /\ Len(f) + i \in 1 .. Len(x) + Len(b)
    BY <1>1, <1>3
  <2>2. QED
    BY <1>3, <1>5, <2>1
<1>8. ASSUME NEW i \in 1..Len(b) PROVE s[Len(f) + Len(m) + i] = b[i]
  <2>1. /\ Len(x) + i \in 1 .. Len(x) + Len(b) /\ ~(Len(x) + i <= Len(x))
        /\ (Len(x) + i) - Len(x) = i
    BY <1>1, <1>3
  <2>2. s[Len(x) + i] = b[i]
    BY <1>5, <2>1
  <2>3. QED
    BY <1>3, <2>2
<1>9. QED
  BY <1>1, <1>3, <1>5, <1>6, <1>7, <1>8 DEF ThreeParts
============================================================================
