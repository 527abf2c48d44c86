----------------------------- MODULE FoldLemmas -----------------------------
(***************************************************************************)
(* What the recursion of the models comes to: induction, folds of a        *)
(* sequence, and sequences put end to end.                                 *)
(*                                                                         *)
(* A property that is proved by induction is given as the set of numbers   *)
(* that have it, and the step of a fold as a function of what there is so  *)
(* far and of the place in the sequence.                                   *)
(***************************************************************************)
EXTENDS Integers, SequencesExt, FiniteSetTheorems, WellFoundedInduction, TLAPS

\* Induction: a set with 0 and with the successors of its members has every number.
LEMMA SetInduction ==
    ASSUME NEW S, S \subseteq Nat, 0 \in S, \A n \in S : n + 1 \in S
    PROVE  S = Nat
<1> SUFFICES ASSUME Nat \ S # {} PROVE FALSE
  OBVIOUS
<1>1. PICK x \in Nat \ S : \A y \in Nat \ S : ~(<<y, x>> \in OpToRel(<, Nat))
  BY NatLessThanWellFounded, WFMin
<1>2. x # 0
  OBVIOUS
<1>3. x - 1 \in Nat /\ x - 1 < x
  BY <1>2
<1>4. x - 1 \in S
  BY <1>1, <1>3 DEF OpToRel
<1>5. (x - 1) + 1 \in S
  BY <1>4
<1>6. QED
  BY <1>5, <1>3

\* Max of a set of the first numbers that has the last of them.
LEMMA MaxOfLast ==
    ASSUME NEW n \in Nat, n # 0, NEW s \in SUBSET (1..n), n \in s
    PROVE  Max(s) = n
<1>1. \A y \in s : n >= y
  OBVIOUS
<1>2. \A x \in s : (\A y \in s : x >= y) => x = n
  OBVIOUS
<1>3. QED
  BY <1>1, <1>2 DEF Max

\* A set of the first numbers has its Max, and is a set of fewer numbers without it.
LEMMA MaxOfSome ==
    ASSUME NEW n \in Nat, NEW s \in SUBSET (1..n), s # {}
    PROVE  Max(s) \in s /\ Max(s) \in 1..n /\ s \ {Max(s)} \in SUBSET (1..n)
<1> DEFINE Has(m) == \A t \in SUBSET (1..m) : t # {} => \E x \in t : \A y \in t : x >= y
           S == {m \in Nat : Has(m)}
<1>1. 0 \in S
  <2>1. 1..0 = {}
    OBVIOUS
  <2>2. QED
    BY <2>1
<1>2. ASSUME NEW m \in S PROVE m + 1 \in S
  <2> SUFFICES ASSUME NEW t \in SUBSET (1..m + 1), t # {}
               PROVE  \E x \in t : \A y \in t : x >= y
    OBVIOUS
  <2>1. CASE m + 1 \in t
    BY <2>1
  <2>2. CASE m + 1 \notin t
    <3>1. t \in SUBSET (1..m)
      BY <2>2
    <3>2. QED
      BY <3>1
  <2>3. QED
    BY <2>1, <2>2
<1> HIDE DEF S
<1>3. S = Nat
  <2>1. S \subseteq Nat
    BY DEF S
  <2>2. QED
    BY <1>1, <1>2, <2>1, SetInduction
<1>4. Has(n)
  BY <1>3 DEF S
<1>5. \E x \in s : \A y \in s : x >= y
  BY <1>4
<1>6. Max(s) \in s
  BY <1>5 DEF Max
<1>7. QED
  BY <1>6

\* A set of the first numbers has a least one, ...
LEMMA LeastOfSome ==
    ASSUME NEW S, S \subseteq Nat, S # {}
    PROVE  \E x \in S : \A y \in S : x <= y
<1>1. PICK x \in S : \A y \in S : ~(<<y, x>> \in OpToRel(<, Nat))
  BY NatLessThanWellFounded, WFMin
<1>2. \A y \in S : ~(y < x)
  BY <1>1 DEF OpToRel
<1>3. QED
  BY <1>2

\* ... and a greatest one below a number that some of it are below.
LEMMA GreatestOfSome ==
    ASSUME NEW n \in Nat, NEW S, S \subseteq 1..n, S # {}
    PROVE  \E x \in S : \A y \in S : y <= x
<1> DEFINE T == {d \in Nat : d <= n /\ n - d \in S}
<1>1. T \subseteq Nat
  OBVIOUS
<1>2. T # {}
  <2>1. PICK x : x \in S
    OBVIOUS
  <2>2. n - x \in Nat /\ n - x <= n /\ n - (n - x) = x
    BY <2>1
  <2>3. n - x \in T
    BY <2>1, <2>2
  <2>4. QED
    BY <2>3
<1>3. PICK d \in T : \A y \in T : d <= y
  <2> HIDE DEF T
  <2>1. QED
    BY <1>1, <1>2, LeastOfSome
<1>4. n - d \in S
  OBVIOUS
<1>5. ASSUME NEW y \in S PROVE y <= n - d
  <2>1. n - y \in Nat /\ n - y <= n /\ n - (n - y) = y
    OBVIOUS
  <2>2. n - y \in T
    BY <2>1
  <2>3. d \in Nat /\ d <= n - y
    BY <1>3, <2>2
  <2>4. QED
    BY <2>3
<1>6. QED
  BY <1>4, <1>5

\* The first places, and the one that a fold comes to after them.
LEMMA NextPlace ==
    ASSUME NEW n \in Nat, NEW k \in Nat, k + 1 <= n
    PROVE  /\ 1..k + 1 \in SUBSET (1..n) /\ 1..k + 1 # {}
           /\ Max(1..k + 1) = k + 1 /\ (1..k + 1) \ {k + 1} = 1..k
<1>1. 1..k + 1 \in SUBSET (1..n) /\ 1..k + 1 # {} /\ (1..k + 1) \ {k + 1} = 1..k
  <2>1. \A i \in 1..k + 1 : i \in 1..n
    OBVIOUS
  <2>2. k + 1 \in 1..k + 1
    OBVIOUS
  <2>3. \A i : i \in (1..k + 1) \ {k + 1} <=> i \in 1..k
    OBVIOUS
  <2>4. QED
    BY <2>1, <2>2, <2>3
<1>2. k + 1 \in Nat /\ k + 1 # 0 /\ 1..k + 1 \in SUBSET (1..k + 1) /\ k + 1 \in 1..k + 1
  OBVIOUS
<1>3. Max(1..k + 1) = k + 1
  BY <1>2, MaxOfLast
<1>4. QED
  BY <1>1, <1>3

\* The function that a fold computes, on the sets of places.
FoldsBy(iter, n, base, step) ==
    iter = [s \in SUBSET (1..n) |->
              IF s = {} THEN base ELSE step[<<iter[s \ {Max(s)}], Max(s)>>]]

\* There is one, whatever the step is.
LEMMA FoldExists ==
    ASSUME NEW n \in Nat, NEW V, NEW base \in V, NEW step \in [V \X (1..n) -> V]
    PROVE  \E iter \in [SUBSET (1..n) -> V] : FoldsBy(iter, n, base, step)
<1> DEFINE Has(m) == \E iter \in [SUBSET (1..m) -> V] : FoldsBy(iter, m, base, step)
           S == {m \in Nat : m <= n => Has(m)}
<1>1. 0 \in S
  <2> DEFINE it == [s \in SUBSET (1..0) |-> base]
  <2>0. 1..0 = {} /\ SUBSET {} = {{}}
    OBVIOUS
  <2>1. it \in [SUBSET (1..0) -> V]
    OBVIOUS
  <2>2. FoldsBy(it, 0, base, step)
    BY <2>0 DEF FoldsBy
  <2>3. QED
    BY <2>1, <2>2
<1>2. ASSUME NEW m \in S PROVE m + 1 \in S
  <2>0. m \in Nat /\ (m <= n => Has(m))
    OBVIOUS
  <2> HIDE DEF Has
  <2> SUFFICES ASSUME m + 1 <= n PROVE Has(m + 1)
    BY <2>0
  <2> USE <2>0
  <2> USE DEF Has
  <2>1. PICK old \in [SUBSET (1..m) -> V] : FoldsBy(old, m, base, step)
    <3>1. m <= n
      OBVIOUS
    <3>2. QED
      BY <3>1
  <2> DEFINE it == [s \in SUBSET (1..m + 1) |->
                      IF m + 1 \in s THEN step[<<old[s \ {m + 1}], m + 1>>] ELSE old[s]]
  <2>2. ASSUME NEW s \in SUBSET (1..m + 1), m + 1 \in s
        PROVE  s \ {m + 1} \in SUBSET (1..m) /\ it[s] \in V /\ s # {} /\ Max(s) = m + 1
               /\ it[s \ {m + 1}] = old[s \ {m + 1}]
    <3>1. s \ {m + 1} \in SUBSET (1..m)
      OBVIOUS
    <3>2. old[s \ {m + 1}] \in V
      BY <3>1
    <3>3. <<old[s \ {m + 1}], m + 1>> \in V \X (1..n)
      BY <3>2
    <3>4. it[s] \in V
      BY <3>3, <2>2
    <3>5. Max(s) = m + 1
      BY <2>2, MaxOfLast
    <3>6. it[s \ {m + 1}] = old[s \ {m + 1}]
      BY <3>1
    <3>7. QED
      BY <3>1, <3>4, <3>5, <3>6, <2>2
  <2>3. ASSUME NEW s \in SUBSET (1..m + 1), m + 1 \notin s
        PROVE  s \in SUBSET (1..m) /\ it[s] = old[s] /\ it[s] \in V
    <3>1. s \in SUBSET (1..m)
      BY <2>3
    <3>2. QED
      BY <3>1, <2>3
  <2>4. it \in [SUBSET (1..m + 1) -> V]
    <3>1. ASSUME NEW s \in SUBSET (1..m + 1) PROVE it[s] \in V
      BY <2>2, <2>3
    <3>2. QED
      BY <3>1
  <2>5. ASSUME NEW s \in SUBSET (1..m + 1)
        PROVE  it[s] = IF s = {} THEN base ELSE step[<<it[s \ {Max(s)}], Max(s)>>]
    <3>1. CASE m + 1 \in s
      BY <2>2, <3>1
    <3>2. CASE m + 1 \notin s
      <4>1. s \in SUBSET (1..m) /\ it[s] = old[s]
        BY <2>3, <3>2
      <4>2. old[s] = IF s = {} THEN base ELSE step[<<old[s \ {Max(s)}], Max(s)>>]
        BY <4>1, <2>1 DEF FoldsBy
      <4>3. s # {} => s \ {Max(s)} \in SUBSET (1..m)
        BY <4>1, MaxOfSome
      <4>4. s # {} => it[s \ {Max(s)}] = old[s \ {Max(s)}]
        BY <4>3
      <4>5. QED
        BY <4>1, <4>2, <4>4
    <3>3. QED
      BY <3>1, <3>2
  <2> HIDE DEF it
  <2>6. it = [s \in SUBSET (1..m + 1) |->
                IF s = {} THEN base ELSE step[<<it[s \ {Max(s)}], Max(s)>>]]
    BY <2>4, <2>5
  <2>7. QED
    BY <2>4, <2>6 DEF FoldsBy
<1> HIDE DEF S
<1>3. S = Nat
  <2>1. S \subseteq Nat
    BY DEF S
  <2>2. QED
    BY <1>1, <1>2, <2>1, SetInduction
<1>4. n \in S /\ n <= n
  BY <1>3
<1>5. QED
  BY <1>4 DEF S

-----------------------------------------------------------------------------
(* Sequences put end to end.                                               *)

\* Two sequences, end to end.
LEMMA Concatenation ==
    ASSUME NEW T, NEW a \in Seq(T), NEW b \in Seq(T)
    PROVE  /\ a \o b \in Seq(T) /\ Len(a \o b) = Len(a) + Len(b)
           /\ \A p \in 1..Len(a) : (a \o b)[p] = a[p]
           /\ \A p \in 1..Len(b) : (a \o b)[Len(a) + p] = b[p]
           /\ Len(a) \in Nat /\ Len(b) \in Nat
  OBVIOUS

\* The function that FlattenSeq computes: the first sequences, end to end.
FlattensBy(f, seqs) ==
    f = [i \in 1..Len(seqs) |-> IF i = 1 THEN seqs[i] ELSE f[i - 1] \o seqs[i]]

\* There is one.
LEMMA FlattenExists ==
    ASSUME NEW T, NEW seqs \in Seq(Seq(T))
    PROVE  \E f \in [1..Len(seqs) -> Seq(T)] : FlattensBy(f, seqs)
<1> DEFINE Step(f, m) == \A i \in 1..m : f[i] = IF i = 1 THEN seqs[i] ELSE f[i - 1] \o seqs[i]
           Has(m) == \E f \in [1..m -> Seq(T)] : Step(f, m)
           S == {m \in Nat : m <= Len(seqs) => Has(m)}
<1>1. 0 \in S
  <2> DEFINE it == [i \in 1..0 |-> << >>]
  <2>0. 1..0 = {}
    OBVIOUS
  <2>1. it \in [1..0 -> Seq(T)] /\ Step(it, 0)
    BY <2>0
  <2>2. QED
    BY <2>1
<1>2. ASSUME NEW m \in S PROVE m + 1 \in S
  <2>0. m \in Nat /\ (m <= Len(seqs) => Has(m))
    OBVIOUS
  <2> HIDE DEF Has
  <2> SUFFICES ASSUME m + 1 <= Len(seqs) PROVE Has(m + 1)
    BY <2>0
  <2>1. m <= Len(seqs) /\ Has(m)
    BY <2>0
  <2>2. PICK old \in [1..m -> Seq(T)] : Step(old, m)
    BY <2>1 DEF Has
  <2> DEFINE it == [i \in 1..m + 1 |->
                      IF i = m + 1 THEN IF i = 1 THEN seqs[i] ELSE old[i - 1] \o seqs[i]
                      ELSE old[i]]
  <2>3. seqs[m + 1] \in Seq(T)
    BY <2>0
  <2>4. m # 0 => old[m] \in Seq(T)
    BY <2>0
  <2>5. it \in [1..m + 1 -> Seq(T)]
    <3>1. it[m + 1] \in Seq(T)
      BY <2>0, <2>3, <2>4
    <3>2. ASSUME NEW i \in 1..m + 1 PROVE it[i] \in Seq(T)
      BY <2>0, <3>1
    <3>3. QED
      BY <3>2
  <2>6. ASSUME NEW i \in 1..m + 1
        PROVE  it[i] = IF i = 1 THEN seqs[i] ELSE it[i - 1] \o seqs[i]
    <3>1. i # 1 => i - 1 \in 1..m /\ i - 1 # m + 1 /\ i - 1 \in 1..m + 1
      BY <2>0
    <3>2. i # 1 => it[i - 1] = old[i - 1]
      BY <3>1
    <3>3. CASE i = m + 1
      BY <3>2, <3>3
    <3>4. CASE i # m + 1
      <4>1. i \in 1..m /\ it[i] = old[i]
        BY <2>0, <3>4
      <4>2. QED
        BY <4>1, <3>2, <2>2
    <3>5. QED
      BY <3>3, <3>4
  <2>7. QED
    BY <2>5, <2>6 DEF Has
<1> HIDE DEF S
<1>3. S = Nat
  <2>1. S \subseteq Nat
    BY DEF S
  <2>2. QED
    BY <1>1, <1>2, <2>1, SetInduction
<1>4. Len(seqs) \in S /\ Len(seqs) <= Len(seqs)
  BY <1>3
<1>5. PICK f \in [1..Len(seqs) -> Seq(T)] : Step(f, Len(seqs))
  BY <1>4 DEF S
<1>6. FlattensBy(f, seqs)
  BY <1>5 DEF FlattensBy
<1>7. QED
  BY <1>6

\* Where the sequences are in what they make together.
PlacesIn(whole, off, seqs, m) ==
    /\ off[0] = 0 /\ Len(whole) = off[m]
    /\ \A i \in 1..m : off[i] = off[i - 1] + Len(seqs[i])
    /\ \A i \in 1..m : \A j \in 1..Len(seqs[i]) :
         off[i - 1] + j \in 1..Len(whole) /\ whole[off[i - 1] + j] = seqs[i][j]
    /\ \A p \in 1..Len(whole) : \E i \in 1..m : \E j \in 1..Len(seqs[i]) : p = off[i - 1] + j

\* FlattenSeq puts them end to end: each has its place in the whole, and nothing else has.
LEMMA FlattenPlaces ==
    ASSUME NEW T, NEW seqs \in Seq(Seq(T))
    PROVE  /\ FlattenSeq(seqs) \in Seq(T)
           /\ \E off \in [0..Len(seqs) -> Nat] :
                PlacesIn(FlattenSeq(seqs), off, seqs, Len(seqs))
<1>1. CASE Len(seqs) = 0
  <2>1. FlattenSeq(seqs) = seqs /\ seqs = << >>
    BY <1>1 DEF FlattenSeq
  <2> DEFINE off == [i \in 0..0 |-> 0]
  <2>2. 1..0 = {} /\ Len(<< >>) = 0
    OBVIOUS
  <2>3. off \in [0..Len(seqs) -> Nat] /\ off[0] = 0
    BY <1>1
  <2>4. PlacesIn(<< >>, off, << >>, 0)
    BY <2>2, <2>3 DEF PlacesIn
  <2>5. QED
    BY <2>1, <2>3, <2>4
<1>2. CASE Len(seqs) # 0
  <2> DEFINE n == Len(seqs)
             flat == CHOOSE f : FlattensBy(f, seqs)
  <2>1. FlattenSeq(seqs) = flat[n]
    BY <1>2 DEF FlattenSeq, FlattensBy
  <2>2. FlattensBy(flat, seqs)
    BY FlattenExists
  <2> HIDE DEF flat
  <2>3. n \in Nat \ {0}
    BY <1>2
  <2>4. \A i \in 1..n : flat[i] = IF i = 1 THEN seqs[i] ELSE flat[i - 1] \o seqs[i]
    BY <2>2 DEF FlattensBy
  <2> DEFINE off == [i \in 0..n |-> IF i = 0 THEN 0 ELSE Len(flat[i])]
             Fits(m) == /\ flat[m] \in Seq(T)
                        /\ off[m] \in Nat
                        /\ PlacesIn(flat[m], off, seqs, m)
             S == {m \in Nat : m + 1 <= n => Fits(m + 1)}
  <2>5. off[0] = 0 /\ \A i \in 1..n : off[i] = Len(flat[i])
    BY <2>3
  <2> HIDE DEF off
  <2>6. 0 \in S
    <3>1. flat[1] = seqs[1] /\ seqs[1] \in Seq(T)
      BY <2>3, <2>4
    <3>2. off[1] = Len(seqs[1]) /\ Len(seqs[1]) \in Nat
      BY <2>3, <2>5, <3>1
    <3>3. PlacesIn(flat[1], off, seqs, 1)
      BY <2>3, <2>5, <3>1, <3>2 DEF PlacesIn
    <3>4. QED
      BY <3>1, <3>2, <3>3
  <2>7. ASSUME NEW k \in S PROVE k + 1 \in S
    <3>0. k \in Nat /\ (k + 1 <= n => Fits(k + 1))
      OBVIOUS
    <3> HIDE DEF Fits
    <3> SUFFICES ASSUME k + 2 <= n PROVE Fits(k + 2)
      BY <3>0
    <3> DEFINE m == k + 1
    <3>1. m \in 1..n /\ m + 1 \in 1..n /\ m + 1 = k + 2 /\ Fits(m)
      BY <3>0, <2>3
    <3>2. m \in Nat
      BY <3>0
    <3> HIDE DEF m
    <3>3. flat[m + 1] = flat[m] \o seqs[m + 1]
      <4>1. m + 1 # 1 /\ (m + 1) - 1 = m
        BY <3>1, <3>2
      <4>2. flat[m + 1] = IF m + 1 = 1 THEN seqs[m + 1] ELSE flat[(m + 1) - 1] \o seqs[m + 1]
        BY <2>4, <3>1
      <4>3. QED
        BY <4>1, <4>2
    <3>4. flat[m] \in Seq(T) /\ off[m] \in Nat /\ PlacesIn(flat[m], off, seqs, m)
      BY <3>1 DEF Fits
    <3>5. seqs[m + 1] \in Seq(T)
      BY <3>1
    <3> DEFINE a == flat[m]   b == seqs[m + 1]   c == flat[m + 1]
    <3>6. /\ c \in Seq(T) /\ Len(c) = Len(a) + Len(b)
          /\ \A p \in 1..Len(a) : c[p] = a[p]
          /\ \A p \in 1..Len(b) : c[Len(a) + p] = b[p]
          /\ Len(a) \in Nat /\ Len(b) \in Nat
      <4>1. a \in Seq(T) /\ b \in Seq(T) /\ c = a \o b
        BY <3>3, <3>4, <3>5
      <4> HIDE DEF a, b, c
      <4>2. /\ a \o b \in Seq(T) /\ Len(a \o b) = Len(a) + Len(b)
            /\ \A p \in 1..Len(a) : (a \o b)[p] = a[p]
            /\ \A p \in 1..Len(b) : (a \o b)[Len(a) + p] = b[p]
            /\ Len(a) \in Nat /\ Len(b) \in Nat
        BY <4>1, Concatenation, Zenon
      <4>3. QED
        BY <4>1, <4>2
    <3>7. off[m] = Len(a) /\ off[m + 1] = Len(c)
      BY <2>5, <3>1
    <3> HIDE DEF a, b, c
    <3>8. ASSUME NEW i \in 1..m + 1, NEW j \in 1..Len(seqs[i])
          PROVE  off[i - 1] + j \in 1..Len(c) /\ c[off[i - 1] + j] = seqs[i][j]
      <4>1. CASE i = m + 1
        <5>1. off[i - 1] = Len(a) /\ seqs[i] = b
          BY <4>1, <3>7, <3>2 DEF b
        <5>2. QED
          BY <5>1, <3>6
      <4>2. CASE i \in 1..m
        <5>1. off[i - 1] + j \in 1..Len(a) /\ a[off[i - 1] + j] = seqs[i][j]
          BY <4>2, <3>4 DEF PlacesIn, a
        <5>2. QED
          BY <5>1, <3>6
      <4>3. i = m + 1 \/ i \in 1..m
        BY <3>2
      <4>4. QED
        BY <4>1, <4>2, <4>3
    <3>9. ASSUME NEW p \in 1..Len(c)
          PROVE  \E i \in 1..m + 1 : \E j \in 1..Len(seqs[i]) : p = off[i - 1] + j
      <4>1. CASE p <= Len(a)
        <5>1. \E i \in 1..m : \E j \in 1..Len(seqs[i]) : p = off[i - 1] + j
          <6>1. p \in 1..Len(a)
            BY <4>1, <3>6
          <6>2. \A q \in 1..Len(a) : \E i \in 1..m : \E j \in 1..Len(seqs[i]) : q = off[i - 1] + j
            BY <3>4 DEF PlacesIn, a
          <6>3. QED
            BY <6>1, <6>2
        <5>2. QED
          BY <5>1, <3>2
      <4>2. CASE p > Len(a)
        <5>1. p - Len(a) \in 1..Len(seqs[m + 1])
          BY <4>2, <3>6 DEF b
        <5>2. (m + 1) - 1 = m /\ m + 1 \in 1..m + 1 /\ p = off[m] + (p - Len(a))
          BY <3>2, <3>6, <3>7
        <5>3. QED
          BY <5>1, <5>2
      <4>3. QED
        BY <4>1, <4>2, <3>6
    <3>10. ASSUME NEW i \in 1..m + 1 PROVE off[i] = off[i - 1] + Len(seqs[i])
      <4>1. CASE i = m + 1
        <5>1. i - 1 = m /\ seqs[i] = b
          BY <4>1, <3>2 DEF b
        <5>2. QED
          BY <5>1, <4>1, <3>6, <3>7
      <4>2. CASE i \in 1..m
        BY <4>2, <3>4 DEF PlacesIn
      <4>3. QED
        BY <4>1, <4>2, <3>2
    <3>11. PlacesIn(c, off, seqs, m + 1)
      BY <3>7, <3>8, <3>9, <3>10, <2>5 DEF PlacesIn
    <3>12. flat[m + 1] \in Seq(T) /\ off[m + 1] \in Nat
      BY <3>6, <3>7 DEF c
    <3>13. PlacesIn(flat[m + 1], off, seqs, m + 1)
      BY <3>11 DEF c
    <3>14. Fits(m + 1)
      BY <3>12, <3>13 DEF Fits
    <3>15. QED
      BY <3>1, <3>14
  <2> HIDE DEF S
  <2>8. S = Nat
    <3>1. S \subseteq Nat
      BY DEF S
    <3>2. QED
      BY <2>6, <2>7, <3>1, SetInduction
  <2>9. ASSUME NEW m \in 1..n PROVE Fits(m)
    <3>1. m - 1 \in S /\ (m - 1) + 1 = m /\ m <= n
      BY <2>8, <2>3
    <3> HIDE DEF Fits
    <3>2. QED
      BY <3>1 DEF S
  <2>10. off \in [0..n -> Nat]
    <3>1. \A m \in 1..n : off[m] \in Nat
      BY <2>9
    <3>2. QED
      BY <3>1, <2>5, <2>3 DEF off
  <2>11. Fits(n)
    BY <2>9, <2>3
  <2>12. QED
    BY <2>1, <2>10, <2>11
<1>3. QED
  BY <1>1, <1>2

\* What the first sequences make, one after the other.
LEMMA FlattenFirst ==
    ASSUME NEW T, NEW seqs \in Seq(Seq(T))
    PROVE  \E F \in [0..Len(seqs) -> Seq(T)] :
              /\ F[0] = << >>
              /\ \A m \in 0..Len(seqs) - 1 : F[m + 1] = F[m] \o seqs[m + 1]
              /\ \A m \in 0..Len(seqs) : FlattenSeq(SubSeq(seqs, 1, m)) = F[m]
<1> DEFINE n == Len(seqs)
<1>0. n \in Nat /\ \A i \in 1..n : seqs[i] \in Seq(T)
  OBVIOUS
<1>1. PICK f \in [1..n -> Seq(T)] : FlattensBy(f, seqs)
  BY FlattenExists
<1>2. \A i \in 1..n : f[i] = IF i = 1 THEN seqs[i] ELSE f[i - 1] \o seqs[i]
  BY <1>1 DEF FlattensBy
<1>3. ASSUME NEW m \in 1..n PROVE FlattenSeq(SubSeq(seqs, 1, m)) = f[m]
  <2> DEFINE s == SubSeq(seqs, 1, m)
             g == CHOOSE h : FlattensBy(h, s)
  <2>1. /\ s \in Seq(Seq(T)) /\ Len(s) = m /\ m \in Nat /\ m <= n /\ m # 0 /\ 1 <= m
        /\ \A i \in 1..m : s[i] = seqs[i]
    OBVIOUS
  <2> HIDE DEF s
  <2>2. FlattenSeq(s) = g[m]
    BY <2>1 DEF FlattenSeq, FlattensBy
  <2>3. FlattensBy(g, s)
    <3>1. \E h : FlattensBy(h, s)
      BY <2>1, FlattenExists
    <3>2. QED
      BY <3>1
  <2> HIDE DEF g, n
  <2>4. \A i \in 1..m : g[i] = IF i = 1 THEN s[i] ELSE g[i - 1] \o s[i]
    BY <2>1, <2>3 DEF FlattensBy
  <2> DEFINE S == {k \in Nat : k + 1 <= m => g[k + 1] = f[k + 1]}
  <2>5. 0 \in S
    <3>1. 1 \in 1..m /\ 1 \in 1..n
      BY <2>1, <1>0
    <3>2. g[1] = f[1]
      BY <3>1, <1>2, <2>1, <2>4
    <3>3. QED
      BY <3>2
  <2>6. ASSUME NEW k \in S PROVE k + 1 \in S
    <3>1. k \in Nat /\ (k + 1 <= m => g[k + 1] = f[k + 1])
      OBVIOUS
    <3> DEFINE e == k + 1
    <3>2. e \in Nat /\ (e <= m => g[e] = f[e]) /\ e # 0
      BY <3>1
    <3> HIDE DEF e
    <3>3. ASSUME e + 1 <= m PROVE g[e + 1] = f[e + 1]
      <4>1. e + 1 \in 1..m /\ e + 1 \in 1..n /\ e + 1 # 1 /\ (e + 1) - 1 = e /\ e <= m
        BY <3>2, <3>3, <2>1, <1>0
      <4>2. g[e + 1] = g[(e + 1) - 1] \o s[e + 1]
        BY <4>1, <2>4
      <4>3. f[e + 1] = f[(e + 1) - 1] \o seqs[e + 1]
        BY <4>1, <1>2
      <4>4. s[e + 1] = seqs[e + 1] /\ g[e] = f[e]
        BY <4>1, <3>2, <2>1
      <4>5. QED
        BY <4>1, <4>2, <4>3, <4>4
    <3>4. QED
      BY <3>2, <3>3 DEF e
  <2> HIDE DEF S
  <2>7. S = Nat
    <3>1. S \subseteq Nat
      BY DEF S
    <3>2. QED
      BY <3>1, <2>5, <2>6, SetInduction
  <2>8. g[m] = f[m]
    <3>1. m - 1 \in Nat /\ (m - 1) + 1 = m /\ m <= m
      BY <2>1
    <3>2. QED
      BY <3>1, <2>7 DEF S
  <2>9. QED
    BY <2>2, <2>8 DEF s
<1> DEFINE F == [m \in 0..n |-> IF m = 0 THEN << >> ELSE f[m]]
<1>4. << >> \in Seq(T)
  OBVIOUS
<1> HIDE DEF n
<1>5. F \in [0..n -> Seq(T)]
  <2>1. \A m \in 0..n : m # 0 => m \in 1..n
    BY <1>0
  <2>2. QED
    BY <2>1, <1>1, <1>4
<1>6. F[0] = << >> /\ \A m \in 1..n : F[m] = f[m]
  BY <1>0
<1> HIDE DEF F
<1>7. ASSUME NEW m \in 0..n - 1 PROVE F[m + 1] = F[m] \o seqs[m + 1]
  <2>1. m \in Nat /\ m + 1 \in 1..n /\ (m + 1) - 1 = m
    BY <1>0
  <2>2. CASE m = 0
    <3>1. f[1] = seqs[1] /\ seqs[1] \in Seq(T)
      <4>1. 1 \in 1..n
        BY <2>1, <2>2
      <4>2. QED
        BY <4>1, <1>0, <1>2
    <3>2. seqs[1] = << >> \o seqs[1]
      BY <3>1
    <3>3. QED
      BY <2>1, <2>2, <3>1, <3>2, <1>6
  <2>3. CASE m # 0
    <3>1. m \in 1..n /\ m + 1 # 1
      BY <1>0, <2>1, <2>3
    <3>2. f[m + 1] = f[(m + 1) - 1] \o seqs[m + 1]
      BY <2>1, <3>1, <1>2
    <3>3. QED
      BY <2>1, <3>1, <3>2, <1>6
  <2>4. QED
    BY <2>2, <2>3
<1>8. ASSUME NEW m \in 0..n PROVE FlattenSeq(SubSeq(seqs, 1, m)) = F[m]
  <2>1. CASE m = 0
    <3>1. SubSeq(seqs, 1, 0) = << >> /\ Len(<< >>) = 0
      OBVIOUS
    <3>2. FlattenSeq(<< >>) = << >>
      BY <3>1 DEF FlattenSeq
    <3>3. QED
      BY <2>1, <3>1, <3>2, <1>6
  <2>2. CASE m # 0
    <3>1. m \in 1..n
      BY <1>0, <2>2
    <3>2. QED
      BY <3>1, <1>3, <1>6
  <2>3. QED
    BY <2>1, <2>2
<1>9. QED
  BY <1>5, <1>6, <1>7, <1>8 DEF n

\* So the first sequences make the beginning of what all of them make.
LEMMA FlattenBegins ==
    ASSUME NEW T, NEW seqs \in Seq(Seq(T)), NEW k \in 0..Len(seqs)
    PROVE  /\ FlattenSeq(SubSeq(seqs, 1, k)) \in Seq(T)
           /\ k < Len(seqs) => FlattenSeq(SubSeq(seqs, 1, k + 1))
                               = FlattenSeq(SubSeq(seqs, 1, k)) \o seqs[k + 1]
           /\ \E rest \in Seq(T) :
                FlattenSeq(seqs) = FlattenSeq(SubSeq(seqs, 1, k)) \o rest
<1> DEFINE n == Len(seqs)
<1>0. n \in Nat /\ (\A i \in 1..n : seqs[i] \in Seq(T)) /\ SubSeq(seqs, 1, n) = seqs
  OBVIOUS
<1>1. PICK F \in [0..n -> Seq(T)] :
              /\ F[0] = << >>
              /\ \A m \in 0..n - 1 : F[m + 1] = F[m] \o seqs[m + 1]
              /\ \A m \in 0..n : FlattenSeq(SubSeq(seqs, 1, m)) = F[m]
  BY FlattenFirst
<1> HIDE DEF n
<1> DEFINE S == {d \in Nat : k + d <= n => \E rest \in Seq(T) : F[k + d] = F[k] \o rest}
<1>2. k \in Nat /\ k <= n /\ F[k] \in Seq(T) /\ k \in 0..n
  <2>1. k \in Nat /\ k <= n /\ k \in 0..n
    BY <1>0 DEF n
  <2>2. QED
    BY <2>1, <1>1
<1>3. 0 \in S
  <2>1. F[k] = F[k] \o << >> /\ << >> \in Seq(T) /\ k + 0 = k
    BY <1>2
  <2>2. QED
    BY <2>1
<1>4. ASSUME NEW d \in S PROVE d + 1 \in S
  <2>1. d \in Nat /\ (k + d <= n => \E rest \in Seq(T) : F[k + d] = F[k] \o rest)
    OBVIOUS
  <2> SUFFICES ASSUME k + (d + 1) <= n PROVE \E rest \in Seq(T) : F[k + (d + 1)] = F[k] \o rest
    BY <2>1
  <2>2. k + d <= n /\ k + d \in 0..n - 1 /\ (k + d) + 1 = k + (d + 1) /\ (k + d) + 1 \in 1..n
    BY <1>0, <1>2, <2>1
  <2>3. PICK rest \in Seq(T) : F[k + d] = F[k] \o rest
    BY <2>1, <2>2
  <2>4. F[k + (d + 1)] = F[k + d] \o seqs[(k + d) + 1]
    <3>1. F[(k + d) + 1] = F[k + d] \o seqs[(k + d) + 1]
      BY <1>1, <2>2
    <3>2. QED
      BY <3>1, <2>2
  <2>5. seqs[(k + d) + 1] \in Seq(T)
    BY <1>0, <2>2
  <2> DEFINE next == seqs[(k + d) + 1]
  <2> HIDE DEF next
  <2>6. \A a, b, c \in Seq(T) : (a \o b) \o c = a \o (b \o c) /\ b \o c \in Seq(T)
    OBVIOUS
  <2>7. next \in Seq(T) /\ F[k + (d + 1)] = (F[k] \o rest) \o next
    BY <2>3, <2>4, <2>5, Zenon DEF next
  <2>8. (F[k] \o rest) \o next = F[k] \o (rest \o next) /\ rest \o next \in Seq(T)
    BY <1>2, <2>6, <2>7, Zenon
  <2>9. QED
    BY <2>7, <2>8, Zenon
<1> HIDE DEF S
<1>5. S = Nat
  <2>1. S \subseteq Nat
    BY DEF S
  <2>2. QED
    BY <2>1, <1>3, <1>4, SetInduction
<1>6. \E rest \in Seq(T) : F[n] = F[k] \o rest
  <2>1. n - k \in Nat /\ k + (n - k) = n /\ n <= n
    BY <1>0, <1>2
  <2>2. QED
    BY <2>1, <1>5 DEF S
<1>7. FlattenSeq(seqs) = F[n] /\ FlattenSeq(SubSeq(seqs, 1, k)) = F[k]
  <2>1. n \in 0..n
    BY <1>0
  <2>2. QED
    BY <2>1, <1>0, <1>1, <1>2
<1>8. k < n => FlattenSeq(SubSeq(seqs, 1, k + 1)) = F[k + 1] /\ F[k + 1] = F[k] \o seqs[k + 1]
  <2>1. k < n => k + 1 \in 0..n /\ k \in 0..n - 1
    BY <1>0, <1>2
  <2>2. QED
    BY <2>1, <1>1
<1>9. QED
  BY <1>2, <1>6, <1>7, <1>8 DEF n
-----------------------------------------------------------------------------
\* The powers of two: a set with one more element has twice as many subsets.
LEMMA PowerDoubles ==
    ASSUME NEW z \in Nat
    PROVE  2^z \in Nat /\ 2^(z + 1) = 2 * 2^z
<1> DEFINE A == SUBSET (1 .. z)
           B == {T \cup {z + 1} : T \in A}
           f == [T \in A |-> T \cup {z + 1}]
<1>1. \A k \in Nat : /\ IsFiniteSet(1 .. k) /\ Cardinality(1 .. k) = k
                     /\ IsFiniteSet(SUBSET (1 .. k)) /\ Cardinality(SUBSET (1 .. k)) \in Nat
                     /\ Cardinality(SUBSET (1 .. k)) = 2^k
  <2> TAKE k \in Nat
  <2>1. IsFiniteSet(1 .. k) /\ Cardinality(1 .. k) = k
    BY FS_Interval
  <2>2. /\ IsFiniteSet(SUBSET (1 .. k)) /\ Cardinality(SUBSET (1 .. k)) \in Nat
        /\ Cardinality(SUBSET (1 .. k)) = 2 ^ Cardinality(1 .. k)
    BY <2>1, FS_SUBSET, FS_CardinalityType
  <2> QED
    BY <2>1, <2>2
<1>2. IsFiniteSet(A) /\ Cardinality(A) \in Nat /\ Cardinality(A) = 2^z
  BY <1>1
<1>3. f \in Bijection(A, B)
  <2>1. \A T \in A : f[T] \in B /\ z + 1 \notin T
    OBVIOUS
  <2>2. f \in [A -> B]
    BY <2>1
  <2>3. \A S, T \in A : f[S] = f[T] => S = T
    BY <2>1
  <2>4. \A U \in B : \E T \in A : f[T] = U
    OBVIOUS
  <2> QED
    BY <2>2, <2>3, <2>4 DEF Bijection, Injection, Surjection, IsInjective
<1>4. IsFiniteSet(B) /\ Cardinality(B) = Cardinality(A)
  BY <1>2, <1>3, FS_Bijection DEF ExistsBijection
<1>5. SUBSET (1 .. z + 1) = A \cup B
  <2>1. 1 .. z + 1 = (1 .. z) \cup {z + 1}
    OBVIOUS
  <2>2. ASSUME NEW T \in SUBSET (1 .. z + 1), z + 1 \in T PROVE T \in B
    <3>1. T \ {z + 1} \in A /\ T = (T \ {z + 1}) \cup {z + 1}
      BY <2>1, <2>2
    <3> QED
      BY <3>1
  <2>3. ASSUME NEW T \in SUBSET (1 .. z + 1), z + 1 \notin T PROVE T \in A
    BY <2>1, <2>3
  <2>4. ASSUME NEW T \in A PROVE T \cup {z + 1} \in SUBSET (1 .. z + 1) /\ T \in SUBSET (1 .. z + 1)
    BY <2>1
  <2>5. \A U \in B : \E T \in A : U = T \cup {z + 1}
    OBVIOUS
  <2> HIDE DEF A, B
  <2>6. SUBSET (1 .. z + 1) \subseteq A \cup B
    BY <2>2, <2>3
  <2>7. A \cup B \subseteq SUBSET (1 .. z + 1)
    BY <2>4, <2>5
  <2> QED
    BY <2>6, <2>7
<1>6. A \cap B = {}
  OBVIOUS
<1> HIDE DEF A, B, f
<1>7. Cardinality(A \cup B) = Cardinality(A) + Cardinality(B) - Cardinality(A \cap B)
  BY <1>2, <1>4, FS_Union
<1>8. Cardinality(A \cap B) = 0
  BY <1>6, FS_EmptySet
<1>9. 2^(z + 1) = Cardinality(A \cup B)
  <2>1. z + 1 \in Nat
    OBVIOUS
  <2>2. Cardinality(SUBSET (1 .. z + 1)) = 2^(z + 1)
    BY <1>1, <2>1, Zenon
  <2> QED
    BY <1>5, <2>2
<1> QED
  BY <1>2, <1>4, <1>7, <1>8, <1>9

\* The powers of two are positive.
LEMMA PowerPositive ==
    ASSUME NEW z \in Nat
    PROVE  2^z \in Nat \ {0}
<1>1. IsFiniteSet(1..z) /\ Cardinality(1..z) = z
  BY FS_Interval
<1>2. IsFiniteSet(SUBSET (1..z)) /\ Cardinality(SUBSET (1..z)) = 2^z
  BY <1>1, FS_SUBSET
<1>3. SUBSET (1..z) # {}
  OBVIOUS
<1>4. Cardinality(SUBSET (1..z)) # 0
  BY <1>2, <1>3, FS_EmptySet
<1>5. QED
  BY <1>2, <1>4, PowerDoubles

\* Division with a remainder.
LEMMA Division ==
    ASSUME NEW a \in Int, NEW b \in Int, b > 0
    PROVE  a % b \in 0..b - 1 /\ a \div b \in Int /\ a = b * (a \div b) + (a % b)
<1>1. a % b \in 0..b - 1 /\ a \div b \in Int
  OBVIOUS
<1>2. a % b = a - (a \div b) * b
  OBVIOUS
<1>3. QED
  BY <1>1, <1>2

\* The function of a fold, as far as what it gets is what it can go on from.
StepsBy(W, n, V, step) ==
  /\ n \in Nat /\ step \in [V \X (1..n) -> V] /\ W[{}] \in V
  /\ \A s \in SUBSET (1..n) : s # {} /\ W[s \ {Max(s)}] \in V =>
       W[s] = step[<<W[s \ {Max(s)}], Max(s)>>]

\* What there is at each place of a fold.
GoesBy(q, n, V, base, step) ==
    /\ q \in [0..n -> V] /\ q[0] = base
    /\ \A k \in 0..n - 1 : q[k + 1] = step[<<q[k], k + 1>>]

\* Such a function goes from place to place, as far as what it gets is what it can go on from.
LEMMA FoldPlaces ==
    ASSUME NEW W, NEW n, NEW V, NEW step, StepsBy(W, n, V, step)
    PROVE  \E q : GoesBy(q, n, V, W[{}], step) /\ W[1..n] = q[n]
<1> DEFINE base == W[{}]
<1>0. n \in Nat /\ step \in [V \X (1..n) -> V] /\ base \in V
  BY DEF StepsBy
<1> HIDE DEF base
<1> USE <1>0
<1> DEFINE S == {k \in Nat : k <= n => W[1..k] \in V}
<1>1. W[1..0] = base
  <2>1. 1..0 = {}
    OBVIOUS
  <2>2. QED
    BY <2>1 DEF base
<1>2. ASSUME NEW k \in 0..n - 1, W[1..k] \in V
      PROVE  W[1..k + 1] = step[<<W[1..k], k + 1>>] /\ W[1..k + 1] \in V
  <2>1. k \in Nat /\ k + 1 <= n /\ k + 1 \in 1..n
    OBVIOUS
  <2>2. /\ 1..k + 1 \in SUBSET (1..n) /\ 1..k + 1 # {} /\ Max(1..k + 1) = k + 1
        /\ (1..k + 1) \ {k + 1} = 1..k
    BY <2>1, NextPlace
  <2>3. W[1..k + 1] = step[<<W[1..k], k + 1>>]
    BY <1>2, <2>2 DEF StepsBy
  <2>4. <<W[1..k], k + 1>> \in V \X (1..n)
    BY <1>2, <2>1
  <2>5. QED
    BY <2>3, <2>4
<1>3. 0 \in S
  BY <1>1
<1>4. ASSUME NEW k \in S PROVE k + 1 \in S
  <2>1. k \in Nat /\ (k <= n => W[1..k] \in V)
    OBVIOUS
  <2> SUFFICES ASSUME k + 1 <= n PROVE W[1..k + 1] \in V
    BY <2>1
  <2>2. W[1..k] \in V /\ k \in 0..n - 1
    BY <2>1
  <2>3. QED
    BY <2>2, <1>2
<1> HIDE DEF S
<1>5. S = Nat
  <2>1. S \subseteq Nat
    BY DEF S
  <2>2. QED
    BY <2>1, <1>3, <1>4, SetInduction
<1>6. \A k \in 0..n : W[1..k] \in V
  BY <1>5 DEF S
<1> DEFINE q == [k \in 0..n |-> W[1..k]]
<1>7. q \in [0..n -> V] /\ q[0] = base /\ W[1..n] = q[n]
  BY <1>1, <1>6
<1>8. \A k \in 0..n - 1 : q[k + 1] = step[<<q[k], k + 1>>]
  BY <1>2, <1>6
<1> HIDE DEF q
<1>9. QED
  BY <1>7, <1>8 DEF GoesBy, base

-----------------------------------------------------------------------------
(* Recursion from the last place down, as on a tree whose children come after their parent. *)

\* What is made of a place depends only on what was made of later ones.
Descends(n, V, step) ==
    /\ n \in Nat /\ V # {} /\ step \in [(0..n - 1) \X [0..n - 1 -> V] -> V]
    /\ \A i \in 0..n - 1 : \A f, g \in [0..n - 1 -> V] :
         (\A j \in i + 1..n - 1 : f[j] = g[j]) => step[<<i, f>>] = step[<<i, g>>]

LEMMA DownwardRecursion ==
    ASSUME NEW n, NEW V, NEW step, Descends(n, V, step)
    PROVE  \E f \in [0..n - 1 -> V] : \A i \in 0..n - 1 : f[i] = step[<<i, f>>]
<1>0. /\ n \in Nat /\ V # {} /\ step \in [(0..n - 1) \X [0..n - 1 -> V] -> V]
      /\ \A i \in 0..n - 1 : \A f, g \in [0..n - 1 -> V] :
           (\A j \in i + 1..n - 1 : f[j] = g[j]) => step[<<i, f>>] = step[<<i, g>>]
  BY DEF Descends
<1> USE <1>0
<1> DEFINE Done(f, k) == \A i \in 0..n - 1 : i >= n - k => f[i] = step[<<i, f>>]
           S == {k \in Nat : k <= n => \E f \in [0..n - 1 -> V] : Done(f, k)}
<1>1. 0 \in S
  <2>1. PICK v : v \in V
    OBVIOUS
  <2>2. [i \in 0..n - 1 |-> v] \in [0..n - 1 -> V]
    BY <2>1
  <2>3. \A f : Done(f, 0)
    OBVIOUS
  <2> HIDE DEF Done
  <2>4. QED
    BY <2>2, <2>3
<1>2. ASSUME NEW k \in S PROVE k + 1 \in S
  <2> HIDE DEF Done
  <2>1. k \in Nat /\ (k <= n => \E f \in [0..n - 1 -> V] : Done(f, k))
    OBVIOUS
  <2> SUFFICES ASSUME k + 1 <= n PROVE \E f \in [0..n - 1 -> V] : Done(f, k + 1)
    BY <2>1
  <2> USE DEF Done
  <2>2. k <= n
    BY <2>1
  <2>3. PICK f \in [0..n - 1 -> V] : Done(f, k)
    BY <2>1, <2>2
  <2> DEFINE m == (n - k) - 1
             g == [f EXCEPT ![m] = step[<<m, f>>]]
  <2>4. m \in 0..n - 1 /\ m + 1 = n - k
    BY <2>1
  <2>5. step[<<m, f>>] \in V
    BY <2>4
  <2>6. g \in [0..n - 1 -> V] /\ g[m] = step[<<m, f>>] /\ \A i \in 0..n - 1 : i # m => g[i] = f[i]
    BY <2>4, <2>5
  <2> HIDE DEF m, g
  <2>7. \A i \in 0..n - 1 : i >= m => step[<<i, g>>] = step[<<i, f>>]
    <3> SUFFICES ASSUME NEW i \in 0..n - 1, i >= m PROVE step[<<i, g>>] = step[<<i, f>>]
      OBVIOUS
    <3>1. \A j \in i + 1..n - 1 : j \in 0..n - 1 /\ j # m
      BY <2>4
    <3>2. \A j \in i + 1..n - 1 : g[j] = f[j]
      BY <3>1, <2>6
    <3>3. QED
      BY <3>2, <2>6
  <2>8. ASSUME NEW i \in 0..n - 1, i >= n - (k + 1) PROVE g[i] = step[<<i, g>>]
    <3>1. i >= m
      BY <2>8, <2>1, <2>4
    <3>2. CASE i = m
      BY <3>1, <3>2, <2>6, <2>7
    <3>3. CASE i # m
      <4>1. i >= n - k
        BY <3>1, <3>3, <2>4
      <4>2. f[i] = step[<<i, f>>]
        BY <4>1, <2>3
      <4>3. QED
        BY <4>2, <3>1, <3>3, <2>6, <2>7
    <3>4. QED
      BY <3>2, <3>3
  <2>9. QED
    BY <2>6, <2>8
<1> HIDE DEF S
<1>3. S = Nat
  <2>1. S \subseteq Nat
    BY DEF S
  <2>2. QED
    BY <2>1, <1>1, <1>2, SetInduction
<1> HIDE DEF Done
<1>4. PICK f \in [0..n - 1 -> V] : Done(f, n)
  <2>1. n \in S /\ n <= n
    BY <1>3
  <2>2. QED
    BY <2>1 DEF S
<1> USE DEF Done
<1>5. \A i \in 0..n - 1 : f[i] = step[<<i, f>>]
  BY <1>4
<1>6. QED
  BY <1>5

=============================================================================
