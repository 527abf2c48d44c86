-------------------------- MODULE TreeSearchProofs --------------------------
(***************************************************************************)
(* Theorems about RTree for any sequence of rectangles: a search of the    *)
(* tree that is built of them finds those that touch a rectangle, each     *)
(* once, and the tree is asked right whether there is one.                 *)
(***************************************************************************)
EXTENDS FoldLemmas, RTree

-----------------------------------------------------------------------------
(* Sequences that list a set, each of its elements once.                   *)

\* A function on the first numbers is a sequence.
LEMMA FunctionSeq ==
    ASSUME NEW T, NEW n \in Nat, NEW f \in [1..n -> T]
    PROVE  f \in Seq(T) /\ Len(f) = n
<1>1. DOMAIN f = 1..n
  OBVIOUS
<1>2. f \in Seq(T)
  OBVIOUS
<1>3. Len(f) \in Nat /\ DOMAIN f = 1..Len(f)
  BY <1>2
<1>4. QED
  BY <1>1, <1>2, <1>3

\* A sequence is one of any set that its elements are in.
LEMMA SeqOfElements ==
    ASSUME NEW T, NEW U, NEW s \in Seq(T), \A p \in 1..Len(s) : s[p] \in U
    PROVE  s \in Seq(U)
<1>1. Len(s) \in Nat /\ DOMAIN s = 1..Len(s)
  OBVIOUS
<1>2. s \in [1..Len(s) -> U]
  OBVIOUS
<1>3. QED
  BY <1>1, <1>2, FunctionSeq

Lists(s, S) ==
    /\ s \in Seq(S)
    /\ \A x \in S : \E i \in 1..Len(s) : s[i] = x
    /\ \A i, j \in 1..Len(s) : s[i] = s[j] => i = j

\* A set that is listed is finite, and the list is as long as it is large.
LEMMA ListedSet ==
    ASSUME NEW S, NEW s, Lists(s, S)
    PROVE  /\ IsFiniteSet(S) /\ Cardinality(S) = Len(s) /\ ToSet(s) = S
           /\ Len(s) \in Nat /\ DOMAIN s = 1..Len(s)
<1>0. s \in Seq(S) /\ Len(s) \in Nat /\ DOMAIN s = 1..Len(s) /\ s \in [1..Len(s) -> S]
  BY DEF Lists
<1>1. s \in Bijection(1..Len(s), S)
  BY <1>0 DEF Lists, Bijection, Injection, Surjection, IsInjective
<1>2. IsFiniteSet(1..Len(s)) /\ Cardinality(1..Len(s)) = Len(s)
  BY <1>0, FS_Interval
<1>3. IsFiniteSet(S) /\ Cardinality(S) = Cardinality(1..Len(s))
  BY <1>1, <1>2, FS_Bijection DEF ExistsBijection
<1>4. ToSet(s) = S
  BY <1>0 DEF ToSet, Lists
<1>5. QED
  BY <1>0, <1>2, <1>3, <1>4

\* In a total order of a finite set, each number is the rank of one element.
LEMMA Ranked ==
    ASSUME NEW X, IsFiniteSet(X), NEW Below \in [X -> SUBSET X],
           \A a \in X : a \notin Below[a],
           \A a, b \in X : a # b => a \in Below[b] \/ b \in Below[a],
           \A a, b \in X : a \in Below[b] => Below[a] \subseteq Below[b]
    PROVE  /\ \A a \in X : Cardinality(Below[a]) + 1 \in 1..Cardinality(X)
           /\ \A k \in 1..Cardinality(X) : \E a \in X : Cardinality(Below[a]) = k - 1
           /\ \A a, b \in X : Cardinality(Below[a]) = Cardinality(Below[b]) => a = b
<1> DEFINE n == Cardinality(X)
           rank == [a \in X |-> Cardinality(Below[a]) + 1]
<1>0. n \in Nat
  BY FS_CardinalityType
<1>1. ASSUME NEW a \in X
      PROVE  IsFiniteSet(Below[a]) /\ Cardinality(Below[a]) \in Nat /\ Cardinality(Below[a]) < n
  <2>1. Below[a] \in SUBSET X /\ Below[a] # X
    OBVIOUS
  <2>2. IsFiniteSet(Below[a]) /\ Cardinality(Below[a]) <= n /\ Cardinality(Below[a]) # n
    BY <2>1, FS_Subset
  <2>3. Cardinality(Below[a]) \in Nat
    BY <2>2, FS_CardinalityType
  <2>4. QED
    BY <2>2, <2>3, <1>0
<1>2. ASSUME NEW a \in X, NEW b \in X, a \in Below[b]
      PROVE  Cardinality(Below[a]) < Cardinality(Below[b])
  <2>1. Below[a] \in SUBSET Below[b] /\ Below[a] # Below[b]
    BY <1>2
  <2>2. IsFiniteSet(Below[b])
    BY <1>1
  <2>3. /\ Cardinality(Below[a]) <= Cardinality(Below[b])
        /\ Cardinality(Below[a]) # Cardinality(Below[b])
    BY <2>1, <2>2, FS_Subset
  <2>4. QED
    BY <2>3, <1>1
<1>3. \A a, b \in X : Cardinality(Below[a]) = Cardinality(Below[b]) => a = b
  <2> SUFFICES ASSUME NEW a \in X, NEW b \in X, a # b
               PROVE  Cardinality(Below[a]) # Cardinality(Below[b])
    OBVIOUS
  <2>1. CASE a \in Below[b]
    <3>1. Cardinality(Below[a]) < Cardinality(Below[b])
      BY <2>1, <1>2
    <3>2. QED
      BY <3>1, <1>1
  <2>2. CASE b \in Below[a]
    <3>1. Cardinality(Below[b]) < Cardinality(Below[a])
      BY <2>2, <1>2
    <3>2. QED
      BY <3>1, <1>1
  <2>3. QED
    BY <2>1, <2>2
<1>4. \A a \in X : rank[a] = Cardinality(Below[a]) + 1 /\ rank[a] \in 1..n
  BY <1>0, <1>1
<1>5. \A a, b \in X : rank[a] = rank[b] => a = b
  <2> SUFFICES ASSUME NEW a \in X, NEW b \in X, rank[a] = rank[b] PROVE a = b
    OBVIOUS
  <2>1. Cardinality(Below[a]) \in Nat /\ Cardinality(Below[b]) \in Nat
    BY <1>1
  <2>2. Cardinality(Below[a]) = Cardinality(Below[b])
    BY <2>1, <1>4
  <2>3. QED
    BY <2>2, <1>3
<1>6. rank \in Injection(X, 1..n)
  BY <1>4, <1>5 DEF Injection, IsInjective
<1>7. IsFiniteSet(1..n) /\ Cardinality(1..n) = n
  BY <1>0, FS_Interval
<1>8. rank \in Surjection(X, 1..n)
  BY <1>6, <1>7, FS_Injection
<1>9. \A k \in 1..n : \E a \in X : rank[a] = k
  BY <1>8 DEF Surjection
<1> HIDE DEF rank
<1>10. ASSUME NEW k \in 1..n PROVE \E a \in X : Cardinality(Below[a]) = k - 1
  <2>1. PICK a \in X : rank[a] = k
    BY <1>9
  <2>2. Cardinality(Below[a]) \in Nat /\ Cardinality(Below[a]) + 1 = k
    BY <2>1, <1>1, <1>4
  <2>3. Cardinality(Below[a]) = k - 1
    BY <2>2
  <2>4. QED
    BY <2>3
<1>11. QED
  BY <1>3, <1>4, <1>10

\* So the elements at each rank list the set.
LEMMA RankList ==
    ASSUME NEW X, IsFiniteSet(X), NEW Below \in [X -> SUBSET X],
           \A a \in X : a \notin Below[a],
           \A a, b \in X : a # b => a \in Below[b] \/ b \in Below[a],
           \A a, b \in X : a \in Below[b] => Below[a] \subseteq Below[b],
           NEW s \in Seq(X), Len(s) = Cardinality(X),
           \A k \in 1..Len(s) : Cardinality(Below[s[k]]) = k - 1
    PROVE  Lists(s, X)
<1> DEFINE n == Cardinality(X)
<1>0. n \in Nat /\ Len(s) = n
  BY FS_CardinalityType
<1>1. /\ \A a \in X : Cardinality(Below[a]) + 1 \in 1..n
      /\ \A a, b \in X : Cardinality(Below[a]) = Cardinality(Below[b]) => a = b
  BY Ranked
<1>2. \A k \in 1..n : s[k] \in X /\ Cardinality(Below[s[k]]) = k - 1
  BY <1>0
<1>4. ASSUME NEW x \in X PROVE \E i \in 1..n : s[i] = x
  <2>1. IsFiniteSet(Below[x])
    BY FS_Subset
  <2>2. Cardinality(Below[x]) \in Nat /\ Cardinality(Below[x]) + 1 \in 1..n
    BY <2>1, FS_CardinalityType, <1>1
  <2> DEFINE k == Cardinality(Below[x]) + 1
  <2>3. k \in 1..n /\ k - 1 = Cardinality(Below[x])
    BY <2>2
  <2>4. s[k] \in X /\ Cardinality(Below[s[k]]) = Cardinality(Below[x])
    BY <2>3, <1>2
  <2>5. s[k] = x
    BY <2>4, <1>1
  <2>6. QED
    BY <2>3, <2>5
<1>5. \A i, j \in 1..n : s[i] = s[j] => i = j
  <2> SUFFICES ASSUME NEW i \in 1..n, NEW j \in 1..n, s[i] = s[j] PROVE i = j
    OBVIOUS
  <2>1. i - 1 = j - 1
    BY <1>2
  <2>2. QED
    BY <2>1, <1>0
<1>6. QED
  BY <1>0, <1>4, <1>5 DEF Lists

\* Lists of sets that share nothing, end to end, list all of them.
LEMMA FlattenLists ==
    ASSUME NEW T, NEW seqs \in Seq(Seq(T)), NEW Q \in [1..Len(seqs) -> SUBSET T],
           \A i \in 1..Len(seqs) : Lists(seqs[i], Q[i]),
           \A i, j \in 1..Len(seqs) : i # j => Q[i] \cap Q[j] = {},
           NEW All, \A x : x \in All <=> \E i \in 1..Len(seqs) : x \in Q[i]
    PROVE  Lists(FlattenSeq(seqs), All)
<1> DEFINE whole == FlattenSeq(seqs)
           m == Len(seqs)
<1>0. m \in Nat /\ whole \in Seq(T) /\ Len(whole) \in Nat
  BY FlattenPlaces
<1>1. PICK off \in [0..m -> Nat] : PlacesIn(whole, off, seqs, m)
  BY FlattenPlaces
<1>2. \A i \in 1..m : \A j \in 1..Len(seqs[i]) :
         off[i - 1] + j \in 1..Len(whole) /\ whole[off[i - 1] + j] = seqs[i][j]
  BY <1>1 DEF PlacesIn
<1>3. \A p \in 1..Len(whole) : \E i \in 1..m : \E j \in 1..Len(seqs[i]) : p = off[i - 1] + j
  BY <1>1 DEF PlacesIn
<1>4. \A i \in 1..m : \A j \in 1..Len(seqs[i]) : seqs[i][j] \in Q[i]
  <2>1. ASSUME NEW i \in 1..m, NEW j \in 1..Len(seqs[i]) PROVE seqs[i][j] \in Q[i]
    <3>1. seqs[i] \in Seq(Q[i])
      BY DEF Lists
    <3>2. QED
      BY <3>1
  <2>2. QED
    BY <2>1
<1> HIDE DEF whole, m
<1>5. ASSUME NEW p \in 1..Len(whole) PROVE whole[p] \in All
  <2>1. PICK i \in 1..m : \E j \in 1..Len(seqs[i]) : p = off[i - 1] + j
    BY <1>3
  <2>2. PICK j \in 1..Len(seqs[i]) : p = off[i - 1] + j
    BY <2>1
  <2>3. whole[p] = seqs[i][j] /\ seqs[i][j] \in Q[i]
    BY <2>2, <1>2, <1>4
  <2>4. QED
    BY <2>3 DEF m
<1>6. whole \in Seq(All)
  <2>1. \A p \in 1..Len(whole) : whole[p] \in All
    BY <1>5
  <2>2. QED
    BY <2>1, <1>0, SeqOfElements
<1>7. ASSUME NEW x \in All PROVE \E p \in 1..Len(whole) : whole[p] = x
  <2>1. PICK i \in 1..m : x \in Q[i]
    BY DEF m
  <2>2. PICK j \in 1..Len(seqs[i]) : seqs[i][j] = x
    BY <2>1 DEF Lists, m
  <2>3. QED
    BY <2>2, <1>2
<1>8. ASSUME NEW p \in 1..Len(whole), NEW r \in 1..Len(whole), whole[p] = whole[r]
      PROVE  p = r
  <2>1. PICK i \in 1..m : \E j \in 1..Len(seqs[i]) : p = off[i - 1] + j
    BY <1>3
  <2>2. PICK j \in 1..Len(seqs[i]) : p = off[i - 1] + j
    BY <2>1
  <2>3. PICK k \in 1..m : \E l \in 1..Len(seqs[k]) : r = off[k - 1] + l
    BY <1>3
  <2>4. PICK l \in 1..Len(seqs[k]) : r = off[k - 1] + l
    BY <2>3
  <2>5. seqs[i][j] = seqs[k][l]
    BY <1>2, <2>2, <2>4, <1>8
  <2>6. i = k
    <3>1. seqs[i][j] \in Q[i] /\ seqs[k][l] \in Q[k]
      BY <1>4
    <3>2. QED
      BY <3>1, <2>5 DEF m
  <2>7. j = l
    BY <2>5, <2>6 DEF Lists, m
  <2>8. QED
    BY <2>2, <2>4, <2>6, <2>7
<1>9. Lists(whole, All)
  BY <1>6, <1>7, <1>8 DEF Lists
<1>10. QED
  BY <1>9 DEF whole, m

-----------------------------------------------------------------------------
(* The pieces that a sequence is cut into.                                 *)

\* Numbers are in the order of their multiples.
LEMMA TimesOrder ==
    ASSUME NEW a \in Int, NEW b \in Int, NEW n \in Nat \ {0}
    PROVE  /\ a * n \in Int
           /\ a < b => a * n + n <= b * n
           /\ a <= b => a * n <= b * n
           /\ a * n < b * n => a < b
<1>1. a * n \in Int /\ b * n \in Int
  OBVIOUS
<1>2. ASSUME NEW x \in Int, NEW y \in Int, x < y PROVE x * n + n <= y * n
  <2>1. y - x - 1 \in Nat
    BY <1>2
  <2>2. (y - x - 1) * n >= 0
    BY <2>1
  <2>3. (y - x - 1) * n = y * n - x * n - n
    OBVIOUS
  <2>4. QED
    BY <2>2, <2>3
<1>3. a < b => a * n + n <= b * n
  BY <1>2
<1>4. b < a => b * n + n <= a * n
  BY <1>2
<1>5. a = b => a * n = b * n
  OBVIOUS
<1>6. QED
  BY <1>1, <1>3, <1>4, <1>5

\* So many pieces are needed.
LEMMA CeilBounds ==
    ASSUME NEW a \in Nat, NEW b \in Nat \ {0}
    PROVE  /\ Ceil(a, b) \in Nat /\ Ceil(a, b) * b \in Nat
           /\ a <= Ceil(a, b) * b /\ Ceil(a, b) * b < a + b
           /\ a # 0 => Ceil(a, b) # 0
<1> DEFINE c == Ceil(a, b)
           d == (a + b) - 1
<1>1. d \in Nat /\ c = d \div b
  BY DEF Ceil
<1> HIDE DEF c, d
<1>2. d % b \in 0..b - 1 /\ c \in Int /\ d = b * c + (d % b)
  BY <1>1, Division
<1>3. b * c = c * b /\ c * b \in Int /\ 0 * b = 0
  BY <1>2
<1>4. (a + b) - 1 = c * b + (d % b)
  BY <1>2, <1>3 DEF d
<1>5. a <= c * b /\ c * b < a + b
  BY <1>2, <1>3, <1>4
<1>6. c >= 0
  <2> SUFFICES ASSUME c < 0 PROVE FALSE
    BY <1>2
  <2>1. c * b + b <= 0 * b
    BY <1>2, TimesOrder
  <2>2. QED
    BY <2>1, <1>5, <1>3
<1>7. a # 0 => c # 0
  BY <1>5, <1>3
<1>8. c \in Nat /\ c * b \in Nat
  BY <1>2, <1>3, <1>5, <1>6
<1>9. QED
  BY <1>5, <1>7, <1>8 DEF c

\* The pieces, told by where their elements are in the sequence.
PiecesOf(chunks, seq, n) ==
    /\ \A i \in 1..Len(chunks) : /\ Len(chunks[i]) \in 1..n
                                 /\ \A j \in 1..Len(chunks[i]) :
                                      /\ (i - 1) * n + j \in 1..Len(seq)
                                      /\ chunks[i][j] = seq[(i - 1) * n + j]
    /\ \A p \in 1..Len(seq) : \E i \in 1..Len(chunks) : \E j \in 1..Len(chunks[i]) :
         p = (i - 1) * n + j

\* A place is in one of them.
LEMMA OnePiece ==
    ASSUME NEW n \in Nat \ {0}, NEW i \in Int, NEW k \in Int, NEW j \in 1..n, NEW l \in 1..n,
           (i - 1) * n + j = (k - 1) * n + l
    PROVE  i = k /\ j = l
<1> DEFINE x == (i - 1) * n
           y == (k - 1) * n
<1>1. i - 1 \in Int /\ k - 1 \in Int /\ x \in Int /\ y \in Int
  OBVIOUS
<1>2. i - 1 < k - 1 => x + n <= y
  BY <1>1, TimesOrder
<1>3. k - 1 < i - 1 => y + n <= x
  BY <1>1, TimesOrder
<1>4. x + j = y + l
  OBVIOUS
<1> HIDE DEF x, y
<1>5. i = k
  BY <1>1, <1>2, <1>3, <1>4
<1>6. x = y
  BY <1>5 DEF x, y
<1>7. QED
  BY <1>1, <1>4, <1>5, <1>6

\* Chunks cuts a sequence into such pieces.
LEMMA ChunkPlaces ==
    ASSUME NEW T, NEW seq \in Seq(T), NEW n \in Nat \ {0}
    PROVE  /\ Chunks(seq, n) \in Seq(Seq(T)) /\ Len(Chunks(seq, n)) = Ceil(Len(seq), n)
           /\ PiecesOf(Chunks(seq, n), seq, n)
<1> DEFINE c == Ceil(Len(seq), n)
           L == Len(seq)
           chunks == Chunks(seq, n)
<1>0. L \in Nat /\ \A p \in 1..L : seq[p] \in T
  OBVIOUS
<1>1. c \in Nat /\ c * n \in Nat /\ L <= c * n /\ c * n < L + n
  BY <1>0, CeilBounds
<1>2. chunks = [i \in 1..c |-> SubSeq(seq, (i - 1) * n + 1, Smaller(i * n, L))]
  BY DEF Chunks
<1> HIDE DEF c, chunks
<1>3. ASSUME NEW i \in 1..c
      PROVE  /\ chunks[i] \in Seq(T) /\ Len(chunks[i]) \in 1..n
             /\ Len(chunks[i]) = Smaller(i * n, L) - (i - 1) * n
             /\ \A j \in 1..Len(chunks[i]) : (i - 1) * n + j \in 1..L
                                             /\ chunks[i][j] = seq[(i - 1) * n + j]
  <2> DEFINE x == (i - 1) * n   y == Smaller(i * n, L)
  <2>1. i - 1 \in Nat /\ i \in Nat /\ c - 1 \in Int
    BY <1>1
  <2>2. x \in Nat /\ i * n = x + n
    BY <2>1
  <2>3. x < L
    <3>1. x + n <= c * n
      BY <2>1, <2>2, <1>1, TimesOrder
    <3>2. QED
      BY <3>1, <1>1, <2>2
  <2>4. y \in Nat /\ y <= L /\ y <= x + n /\ x < y
    BY <2>2, <2>3, <1>0 DEF Smaller
  <2>5. chunks[i] = SubSeq(seq, x + 1, y)
    BY <1>2
  <2> HIDE DEF x, y
  <2>6. SubSeq(seq, x + 1, y) \in Seq(T) /\ Len(SubSeq(seq, x + 1, y)) = y - x
    BY <2>2, <2>4, <1>0
  <2>7. \A j \in 1..y - x : SubSeq(seq, x + 1, y)[j] = seq[x + j] /\ x + j \in 1..L
    BY <2>2, <2>4, <1>0
  <2>8. y - x \in 1..n
    BY <2>2, <2>4
  <2>9. QED
    BY <2>5, <2>6, <2>7, <2>8 DEF x, y
<1>4. chunks \in Seq(Seq(T)) /\ Len(chunks) = c
  <2>1. chunks \in [1..c -> Seq(T)]
    <3>1. chunks = [i \in 1..c |-> chunks[i]]
      BY <1>2
    <3>2. QED
      BY <3>1, <1>3
  <2>2. QED
    BY <2>1, <1>1, FunctionSeq
<1>5. ASSUME NEW p \in 1..L
      PROVE  \E i \in 1..c : \E j \in 1..Len(chunks[i]) : p = (i - 1) * n + j
  <2> DEFINE k == (p - 1) \div n   r == (p - 1) % n   x == k * n
  <2>1. r \in 0..n - 1 /\ k \in Int /\ p - 1 = n * k + r
    BY <1>0, Division
  <2>2. x \in Int /\ n * k = x
    BY <2>1
  <2> HIDE DEF k, r
  <2>3. k < c
    <3>1. x < c * n
      BY <2>1, <2>2, <1>1, <1>0
    <3>2. QED
      BY <3>1, <2>1, <1>1, TimesOrder
  <2>4. k >= 0
    <3> SUFFICES ASSUME k < 0 PROVE FALSE
      BY <2>1
    <3>1. x + n <= 0 * n /\ 0 * n = 0
      BY <2>1, TimesOrder
    <3>2. QED
      BY <3>1, <2>1, <2>2, <1>0
  <2> DEFINE i == k + 1   j == r + 1
  <2>5. i \in 1..c /\ i - 1 = k /\ j \in 1..n /\ j \in Int
    BY <2>1, <2>3, <2>4, <1>1
  <2>6. p = x + j
    BY <2>1, <2>2, <1>0
  <2>7. i * n = x + n
    BY <2>1
  <2>8. Len(chunks[i]) = Smaller(i * n, L) - x
    BY <2>5, <1>3
  <2> HIDE DEF i, j, x
  <2>9. j \in 1..Len(chunks[i])
    BY <2>2, <2>5, <2>6, <2>7, <2>8, <1>0 DEF Smaller
  <2>10. p = (i - 1) * n + j
    BY <2>5, <2>6 DEF x
  <2>11. QED
    BY <2>5, <2>9, <2>10
<1>6. PiecesOf(chunks, seq, n)
  BY <1>3, <1>4, <1>5 DEF PiecesOf
<1>7. QED
  BY <1>4, <1>6 DEF chunks, c

\* The pieces of a list list sets that share nothing and make up the whole.
LEMMA ListChunks ==
    ASSUME NEW S, NEW seq, Lists(seq, S), NEW n \in Nat \ {0}
    PROVE  \E Q \in [1..Len(Chunks(seq, n)) -> SUBSET S] :
             /\ \A i \in 1..Len(Chunks(seq, n)) : Lists(Chunks(seq, n)[i], Q[i]) /\ Q[i] # {}
             /\ \A i, k \in 1..Len(Chunks(seq, n)) : i # k => Q[i] \cap Q[k] = {}
             /\ \A x \in S : \E i \in 1..Len(Chunks(seq, n)) : x \in Q[i]
<1> DEFINE chunks == Chunks(seq, n)
           c == Len(chunks)
           Q == [i \in 1..c |-> {chunks[i][j] : j \in 1..Len(chunks[i])}]
<1>0. seq \in Seq(S) /\ Len(seq) \in Nat
  BY DEF Lists
<1>1. chunks \in Seq(Seq(S)) /\ PiecesOf(chunks, seq, n) /\ c \in Nat
  BY <1>0, ChunkPlaces
<1> HIDE DEF chunks, c
<1>2. \A i \in 1..c : chunks[i] \in Seq(S) /\ Len(chunks[i]) \in 1..n
  BY <1>1 DEF c, PiecesOf
<1>3. \A i \in 1..c : \A j \in 1..Len(chunks[i]) :
         (i - 1) * n + j \in 1..Len(seq) /\ chunks[i][j] = seq[(i - 1) * n + j]
  BY <1>1 DEF c, PiecesOf
<1>4. \A p \in 1..Len(seq) : \E i \in 1..c : \E j \in 1..Len(chunks[i]) : p = (i - 1) * n + j
  BY <1>1 DEF c, PiecesOf
<1>5. ASSUME NEW i \in 1..c, NEW j \in 1..Len(chunks[i]),
             NEW k \in 1..c, NEW l \in 1..Len(chunks[k]), chunks[i][j] = chunks[k][l]
      PROVE  i = k /\ j = l
  <2>1. (i - 1) * n + j = (k - 1) * n + l
    <3>1. /\ (i - 1) * n + j \in 1..Len(seq) /\ (k - 1) * n + l \in 1..Len(seq)
          /\ seq[(i - 1) * n + j] = seq[(k - 1) * n + l]
      BY <1>3, <1>5
    <3>2. QED
      BY <3>1 DEF Lists
  <2>2. i \in Int /\ k \in Int /\ j \in 1..n /\ l \in 1..n
    <3>1. Len(chunks[i]) \in 1..n /\ Len(chunks[k]) \in 1..n
      BY <1>2
    <3>2. QED
      BY <3>1, <1>1
  <2>3. QED
    BY <2>1, <2>2, OnePiece
<1>6. ASSUME NEW i \in 1..c PROVE Lists(chunks[i], Q[i]) /\ Q[i] # {} /\ Q[i] \in SUBSET S
  <2>1. chunks[i] \in Seq(S) /\ Len(chunks[i]) \in 1..n
    BY <1>2
  <2>2. Q[i] = {chunks[i][j] : j \in 1..Len(chunks[i])}
    OBVIOUS
  <2> HIDE DEF Q
  <2>3. \A j \in 1..Len(chunks[i]) : chunks[i][j] \in Q[i] /\ chunks[i][j] \in S
    BY <2>1, <2>2
  <2>4. chunks[i] \in Seq(Q[i])
    BY <2>1, <2>3, SeqOfElements
  <2>5. 1 \in 1..Len(chunks[i])
    BY <2>1
  <2>6. \A j, l \in 1..Len(chunks[i]) : chunks[i][j] = chunks[i][l] => j = l
    BY <1>5
  <2>7. Lists(chunks[i], Q[i])
    BY <2>2, <2>4, <2>6 DEF Lists
  <2>8. QED
    BY <2>2, <2>3, <2>5, <2>7
<1>7. \A i, k \in 1..c : i # k => Q[i] \cap Q[k] = {}
  <2> SUFFICES ASSUME NEW i \in 1..c, NEW k \in 1..c, NEW x, x \in Q[i], x \in Q[k] PROVE i = k
    OBVIOUS
  <2>1. PICK j \in 1..Len(chunks[i]) : x = chunks[i][j]
    OBVIOUS
  <2>2. PICK l \in 1..Len(chunks[k]) : x = chunks[k][l]
    OBVIOUS
  <2>3. QED
    BY <2>1, <2>2, <1>5
<1>8. ASSUME NEW x \in S PROVE \E i \in 1..c : x \in Q[i]
  <2>1. PICK p \in 1..Len(seq) : seq[p] = x
    BY DEF Lists
  <2>2. PICK i \in 1..c : \E j \in 1..Len(chunks[i]) : p = (i - 1) * n + j
    BY <1>4
  <2>3. PICK j \in 1..Len(chunks[i]) : p = (i - 1) * n + j
    BY <2>2
  <2>4. x = chunks[i][j]
    BY <2>1, <2>3, <1>3
  <2>5. QED
    BY <2>4
<1>9. Q \in [1..c -> SUBSET S]
  BY <1>6
<1> HIDE DEF Q
<1>10. QED
  BY <1>6, <1>7, <1>8, <1>9 DEF c, chunks

-----------------------------------------------------------------------------
(* The order of the leaves.                                                *)

\* Both divisions make whole numbers.
LEMMA QuotientType ==
    ASSUME NEW a \in Int, NEW b \in Nat \ {0}
    PROVE  Quotient(a, b) \in Int /\ (a >= 0 => Quotient(a, b) >= 0)
<1>1. \A c \in Int : c \div b \in Int
  BY Division
<1>2. ASSUME a >= 0 PROVE a \div b >= 0
  <2> DEFINE q == a \div b   r == a % b
  <2>1. r \in 0..b - 1 /\ q \in Int /\ a = b * q + r
    BY Division
  <2>2. b * q = q * b /\ q * b \in Int /\ 0 * b = 0
    BY <2>1
  <2> HIDE DEF q, r
  <2>3. q < 0 => q * b + b <= 0 * b
    BY <2>1, TimesOrder
  <2>4. QED
    BY <1>2, <2>1, <2>2, <2>3 DEF q
<1>3. -a \in Int
  OBVIOUS
<1>4. QED
  BY <1>1, <1>2, <1>3 DEF Quotient

\* What is sorted is listed in another order.
LEMMA SortedLists ==
    ASSUME NEW X \in SUBSET Nat, NEW ids, Lists(ids, X), NEW key, \A x \in X : key[x] \in Int
    PROVE  Lists(SortedBy(ids, key), X)
<1> DEFINE Y == ToSet(ids)
           Below == [a \in Y |->
                       {b \in Y : key[b] < key[a] \/ (key[b] = key[a] /\ b < a)}]
           Is(a, i) ==
             Cardinality({b \in Y : key[b] < key[a] \/ (key[b] = key[a] /\ b < a)}) = i - 1
           At(i) == CHOOSE a \in Y : Is(a, i)
           s == [i \in DOMAIN ids |-> At(i)]
<1>0. /\ IsFiniteSet(Y) /\ Cardinality(Y) = Len(ids) /\ Y = X
      /\ Len(ids) \in Nat /\ DOMAIN ids = 1..Len(ids)
  BY ListedSet
<1>1. SortedBy(ids, key) = s \o << >>
  BY DEF SortedBy, Stored
<1> HIDE DEF Y
<1>2. \A a \in Y : a \in Nat /\ key[a] \in Int
  BY <1>0
<1>3. Below \in [Y -> SUBSET Y]
  OBVIOUS
<1>4. \A a \in Y : a \notin Below[a]
  BY <1>2
<1>5. \A a, b \in Y : a # b => a \in Below[b] \/ b \in Below[a]
  BY <1>2
<1>6. \A a, b \in Y : a \in Below[b] => Below[a] \subseteq Below[b]
  BY <1>2
<1>7. \A k \in 1..Cardinality(Y) : \E a \in Y : Cardinality(Below[a]) = k - 1
  <2> HIDE DEF Below, Is, At, s
  <2>1. IsFiniteSet(Y)
    BY <1>0
  <2>2. /\ \A a \in Y : Cardinality(Below[a]) + 1 \in 1..Cardinality(Y)
        /\ \A k \in 1..Cardinality(Y) : \E a \in Y : Cardinality(Below[a]) = k - 1
        /\ \A a, b \in Y : Cardinality(Below[a]) = Cardinality(Below[b]) => a = b
    BY <2>1, <1>3, <1>4, <1>5, <1>6, Ranked
  <2>3. QED
    BY <2>2
<1>8. \A k \in 1..Len(ids) : s[k] \in Y /\ Cardinality(Below[s[k]]) = k - 1
  <2> SUFFICES ASSUME NEW k \in 1..Len(ids)
               PROVE  s[k] \in Y /\ Cardinality(Below[s[k]]) = k - 1
    OBVIOUS
  <2>1. \A a \in Y : Is(a, k) <=> Cardinality(Below[a]) = k - 1
    OBVIOUS
  <2>2. \E a \in Y : Is(a, k)
    BY <2>1, <1>7, <1>0
  <2> HIDE DEF Is, Below
  <2>3. At(k) \in Y /\ Is(At(k), k)
    BY <2>2
  <2> HIDE DEF At
  <2>4. s[k] = At(k)
    BY <1>0
  <2>5. QED
    BY <2>1, <2>3, <2>4
<1> HIDE DEF Is, Below, At
<1>9. s \in [1..Len(ids) -> Y]
  <2>1. \A k \in 1..Len(ids) : At(k) \in Y
    BY <1>0, <1>8
  <2>2. QED
    BY <2>1, <1>0
<1> HIDE DEF s, Below
<1>10. s \in Seq(Y) /\ Len(s) = Len(ids)
  BY <1>9, <1>0, FunctionSeq
<1>11. Lists(s, Y)
  BY <1>0, <1>3, <1>4, <1>5, <1>6, <1>8, <1>10, RankList
<1>12. s \o << >> = s
  BY <1>10
<1>13. QED
  BY <1>0, <1>1, <1>11, <1>12

\* The root of a number is not zero when the number is not.
LEMMA CeilSqrtPositive ==
    ASSUME NEW a \in Nat \ {0}
    PROVE  CeilSqrt(a) \in Nat \ {0}
<1> DEFINE S == {s \in 1..a : s * s >= a}
           Root(s) == s * s >= a /\ (s = 0 \/ (s - 1) * (s - 1) < a)
<1>1. a \in S
  <2>1. a * a >= a
    <3>1. 1 * a <= a * a
      BY TimesOrder
    <3>2. QED
      BY <3>1
  <2>2. QED
    BY <2>1
<1>2. PICK s \in S : \A r \in S : s <= r
  <2>1. S \subseteq Nat
    OBVIOUS
  <2>2. S # {}
    BY <1>1
  <2> HIDE DEF S
  <2>3. QED
    BY <2>1, <2>2, LeastOfSome
<1>3. s \in 1..a /\ s * s >= a
  OBVIOUS
<1>4. (s - 1) * (s - 1) < a
  <2>1. CASE s = 1
    BY <2>1
  <2>2. CASE s # 1
    <3>1. s - 1 \in 1..a /\ ~(s <= s - 1)
      BY <2>2, <1>3
    <3>2. s - 1 \notin S
      BY <3>1, <1>2
    <3>3. (s - 1) * (s - 1) \in Int
      BY <1>3
    <3>4. QED
      BY <3>1, <3>2, <3>3
  <2>3. QED
    BY <2>1, <2>2
<1>5. s \in 0..a /\ Root(s)
  BY <1>3, <1>4
<1>6. CeilSqrt(a) = CHOOSE r \in 0..a : Root(r)
  BY DEF CeilSqrt
<1> HIDE DEF Root
<1>7. CeilSqrt(a) \in 0..a /\ Root(CeilSqrt(a))
  BY <1>5, <1>6
<1>8. CeilSqrt(a) # 0
  <2> SUFFICES ASSUME CeilSqrt(a) = 0 PROVE FALSE
    OBVIOUS
  <2>1. 0 * 0 >= a
    BY <1>7 DEF Root
  <2>2. QED
    BY <2>1
<1>9. QED
  BY <1>7, <1>8

\* The leaves list all objects, each once.
LEMMA LeavesListAll ==
    ASSUME NEW data \in Seq(Rects), data # << >>
    PROVE  Lists(buildLeaves(data), 0..Len(data) - 1)
<1> DEFINE n == Len(data)
           R == 0..n - 1
           ids == [i \in DOMAIN data |-> i - 1]
           getX == [id \in 0..n - 1 |-> getCenter(data[id + 1]).x]
           getY == [id \in 0..n - 1 |-> getCenter(data[id + 1]).y]
           byX == SortedBy(ids, getX)
           size == SliceSize(n)
           slices == Chunks(byX, size)
           m == Len(slices)
           sorted == [i \in DOMAIN slices |-> SortedBy(slices[i], getY)]
<1>0. n \in Nat \ {0} /\ DOMAIN data = 1..n /\ \A i \in 1..n : data[i] \in Rects
  OBVIOUS
<1>1. buildLeaves(data) = FlattenSeq(sorted)
  BY DEF buildLeaves
<1> HIDE DEF n
<1>2. \A id \in 0..n - 1 : getX[id] \in Int /\ getY[id] \in Int
  <2> SUFFICES ASSUME NEW id \in 0..n - 1 PROVE getX[id] \in Int /\ getY[id] \in Int
    OBVIOUS
  <2>1. data[id + 1] \in Rects
    <3>1. id + 1 \in 1..n
      BY <1>0
    <3>2. QED
      BY <3>1, <1>0
  <2> DEFINE r == data[id + 1]
  <2>2. r.minX + r.maxX \in Int /\ r.minY + r.maxY \in Int /\ 2 \in Nat \ {0}
    BY <2>1 DEF Rects
  <2>3. Quotient(r.minX + r.maxX, 2) \in Int /\ Quotient(r.minY + r.maxY, 2) \in Int
    BY <2>2, QuotientType
  <2>4. QED
    BY <2>3 DEF getCenter, Point
<1>3. Lists(ids, 0..n - 1)
  <2>1. ids \in [1..n -> 0..n - 1]
    BY <1>0
  <2>2. ids \in Seq(0..n - 1) /\ Len(ids) = n
    BY <2>1, <1>0, FunctionSeq
  <2>3. \A i \in 1..n : ids[i] = i - 1
    BY <1>0
  <2> HIDE DEF ids
  <2>4. ASSUME NEW x \in 0..n - 1 PROVE \E i \in 1..n : ids[i] = x
    <3>1. x + 1 \in 1..n /\ (x + 1) - 1 = x
      BY <1>0
    <3>2. QED
      BY <3>1, <2>3
  <2>5. \A i, j \in 1..n : ids[i] = ids[j] => i = j
    BY <2>3
  <2>6. QED
    BY <2>2, <2>4, <2>5 DEF Lists
<1>4. 0..n - 1 \in SUBSET Nat
  OBVIOUS
<1> HIDE DEF ids, getX, getY
<1>5. Lists(byX, 0..n - 1)
  BY <1>2, <1>3, <1>4, SortedLists
<1>6. size \in Nat \ {0}
  <2> DEFINE a == Ceil(n, LeafElements)
  <2>1. LeafElements \in Nat \ {0}
    BY TreeAssumption
  <2>2. a \in Nat \ {0}
    BY <2>1, <1>0, CeilBounds
  <2>3. CeilSqrt(a) \in Nat \ {0}
    BY <2>2, CeilSqrtPositive
  <2>4. size = CeilSqrt(a) * LeafElements
    BY DEF SliceSize
  <2> HIDE DEF a, size
  <2>5. 1 * LeafElements <= CeilSqrt(a) * LeafElements /\ CeilSqrt(a) * LeafElements \in Int
    BY <2>1, <2>3, TimesOrder
  <2>6. QED
    BY <2>1, <2>4, <2>5
<1> HIDE DEF byX, size
<1>7. PICK Q \in [1..m -> SUBSET R] :
         /\ \A i \in 1..m : Lists(slices[i], Q[i]) /\ Q[i] # {}
         /\ \A i, k \in 1..m : i # k => Q[i] \cap Q[k] = {}
         /\ \A x \in R : \E i \in 1..m : x \in Q[i]
  <2> HIDE DEF R
  <2>1. Lists(byX, R)
    BY <1>5 DEF R
  <2>2. QED
    BY <2>1, <1>6, ListChunks
<1>8. m \in Nat /\ DOMAIN slices = 1..m
  <2>1. byX \in Seq(R)
    BY <1>5 DEF Lists, R
  <2>2. slices \in Seq(Seq(R))
    BY <2>1, <1>6, ChunkPlaces
  <2> HIDE DEF slices
  <2>3. QED
    BY <2>2
<1> HIDE DEF slices, m
<1>9. \A i \in 1..m : sorted[i] = SortedBy(slices[i], getY) /\ Lists(sorted[i], Q[i])
  <2> SUFFICES ASSUME NEW i \in 1..m
               PROVE  sorted[i] = SortedBy(slices[i], getY) /\ Lists(sorted[i], Q[i])
    OBVIOUS
  <2>1. sorted[i] = SortedBy(slices[i], getY)
    BY <1>8
  <2>2. Q[i] \in SUBSET Nat /\ Lists(slices[i], Q[i]) /\ \A x \in Q[i] : getY[x] \in Int
    BY <1>2, <1>4, <1>7
  <2>3. Lists(SortedBy(slices[i], getY), Q[i])
    BY <2>2, SortedLists
  <2>4. QED
    BY <2>1, <2>3
<1>10. sorted \in Seq(Seq(R)) /\ Len(sorted) = m
  <2>1. \A i \in 1..m : sorted[i] \in Seq(R)
    <3> SUFFICES ASSUME NEW i \in 1..m PROVE sorted[i] \in Seq(R)
      OBVIOUS
    <3>1. sorted[i] \in Seq(Q[i]) /\ Q[i] \subseteq R
      BY <1>9, <1>7 DEF Lists
    <3> HIDE DEF sorted
    <3>2. \A p \in 1..Len(sorted[i]) : sorted[i][p] \in R
      BY <3>1
    <3>3. QED
      BY <3>1, <3>2, SeqOfElements
  <2>2. sorted = [i \in 1..m |-> sorted[i]]
    BY <1>8
  <2> HIDE DEF sorted
  <2>3. sorted \in [1..m -> Seq(R)]
    BY <2>1, <2>2
  <2>4. QED
    BY <2>3, <1>8, FunctionSeq
<1> HIDE DEF sorted
<1> HIDE DEF R
<1>11. Lists(FlattenSeq(sorted), R)
  <2>1. /\ Q \in [1..Len(sorted) -> SUBSET R]
        /\ \A i \in 1..Len(sorted) : Lists(sorted[i], Q[i])
        /\ \A i, j \in 1..Len(sorted) : i # j => Q[i] \cap Q[j] = {}
        /\ \A x : x \in R <=> \E i \in 1..Len(sorted) : x \in Q[i]
    BY <1>7, <1>9, <1>10
  <2>2. QED
    BY <2>1, <1>10, FlattenLists
<1>12. QED
  BY <1>1, <1>7, <1>10, <1>11 DEF n, R

-----------------------------------------------------------------------------
(* Rectangles.                                                             *)

\* Touching, border by border.
Touch(r, b) ==
    /\ b.minX <= r.maxX /\ r.minX <= b.maxX
    /\ b.minY <= r.maxY /\ r.minY <= b.maxY

\* The tests of the code, told by borders.
LEMMA RectangleTests ==
    ASSUME NEW r \in Rects, NEW b \in Rects
    PROVE  /\ intersects(r, b) <=> Touch(r, b)
           /\ contains(r, b) <=> /\ r.minX <= b.minX /\ b.maxX <= r.maxX
                                 /\ r.minY <= b.minY /\ b.maxY <= r.maxY
<1>1. /\ r.minX \in Int /\ r.minY \in Int /\ r.maxX \in Int /\ r.maxY \in Int
      /\ b.minX \in Int /\ b.minY \in Int /\ b.maxX \in Int /\ b.maxY \in Int
      /\ r.minX <= r.maxX /\ r.minY <= r.maxY /\ b.minX <= b.maxX /\ b.minY <= b.maxY
  BY DEF Rects
<1>2. intersects(r, b) <=> Touch(r, b)
  BY <1>1 DEF intersects, between, Touch
<1>3. contains(r, b) <=> /\ r.minX <= b.minX /\ b.maxX <= r.maxX
                         /\ r.minY <= b.minY /\ b.maxY <= r.maxY
  BY <1>1 DEF contains, between
<1>4. QED
  BY <1>2, <1>3

\* What touches a rectangle touches what contains it; what contains a rectangle touches it,
\* and contains what it contains.
LEMMA TouchAndContain ==
    ASSUME NEW r \in Rects, NEW b \in Rects, NEW c \in Rects, contains(b, c)
    PROVE  /\ Touch(r, c) => Touch(r, b)
           /\ contains(r, b) => Touch(r, c)
           /\ contains(r, b) => contains(r, c)
<1>1. /\ r.minX \in Int /\ r.minY \in Int /\ r.maxX \in Int /\ r.maxY \in Int
      /\ b.minX \in Int /\ b.minY \in Int /\ b.maxX \in Int /\ b.maxY \in Int
      /\ c.minX \in Int /\ c.minY \in Int /\ c.maxX \in Int /\ c.maxY \in Int
      /\ r.minX <= r.maxX /\ r.minY <= r.maxY /\ b.minX <= b.maxX /\ b.minY <= b.maxY
      /\ c.minX <= c.maxX /\ c.minY <= c.maxY
  BY DEF Rects
<1>2. b.minX <= c.minX /\ c.maxX <= b.maxX /\ b.minY <= c.minY /\ c.maxY <= b.maxY
  BY RectangleTests
<1>3. Touch(r, c) => Touch(r, b)
  BY <1>1, <1>2 DEF Touch
<1>4. ASSUME contains(r, b) PROVE Touch(r, c) /\ contains(r, c)
  <2>1. r.minX <= b.minX /\ b.maxX <= r.maxX /\ r.minY <= b.minY /\ b.maxY <= r.maxY
    BY <1>4, RectangleTests
  <2>2. Touch(r, c)
    BY <1>1, <1>2, <2>1 DEF Touch
  <2>3. contains(r, c)
    BY <1>1, <1>2, <2>1 DEF contains, between
  <2>4. QED
    BY <2>2, <2>3
<1>5. QED
  BY <1>3, <1>4

\* What encloses two rectangles contains both, and what they contain.
LEMMA EncloseContains ==
    ASSUME NEW a \in Rects, NEW b \in Rects
    PROVE  /\ enclose(a, b) \in Rects /\ contains(enclose(a, b), b)
           /\ \A c \in Rects : contains(a, c) => contains(enclose(a, b), c)
<1> DEFINE e == enclose(a, b)
<1>1. /\ a.minX \in Int /\ a.minY \in Int /\ a.maxX \in Int /\ a.maxY \in Int
      /\ b.minX \in Int /\ b.minY \in Int /\ b.maxX \in Int /\ b.maxY \in Int
      /\ a.minX <= a.maxX /\ a.minY <= a.maxY /\ b.minX <= b.maxX /\ b.minY <= b.maxY
  BY DEF Rects
<1>3. e = [minX |-> Smaller(a.minX, b.minX), minY |-> Smaller(a.minY, b.minY),
           maxX |-> Larger(a.maxX, b.maxX), maxY |-> Larger(a.maxY, b.maxY)]
  BY DEF enclose
<1>4. /\ e.minX \in Int /\ e.minY \in Int /\ e.maxX \in Int /\ e.maxY \in Int
      /\ e.minX <= a.minX /\ e.minX <= b.minX /\ e.minY <= a.minY /\ e.minY <= b.minY
      /\ a.maxX <= e.maxX /\ b.maxX <= e.maxX /\ a.maxY <= e.maxY /\ b.maxY <= e.maxY
  <2>1. /\ e.minX = Smaller(a.minX, b.minX) /\ e.minY = Smaller(a.minY, b.minY)
        /\ e.maxX = Larger(a.maxX, b.maxX) /\ e.maxY = Larger(a.maxY, b.maxY)
    BY <1>3
  <2> HIDE DEF e
  <2>2. e.minX \in Int /\ e.minX <= a.minX /\ e.minX <= b.minX
    BY <1>1, <2>1 DEF Smaller, Larger
  <2>3. e.minY \in Int /\ e.minY <= a.minY /\ e.minY <= b.minY
    BY <1>1, <2>1 DEF Smaller, Larger
  <2>4. e.maxX \in Int /\ a.maxX <= e.maxX /\ b.maxX <= e.maxX
    BY <1>1, <2>1 DEF Smaller, Larger
  <2>5. e.maxY \in Int /\ a.maxY <= e.maxY /\ b.maxY <= e.maxY
    BY <1>1, <2>1 DEF Smaller, Larger
  <2>6. QED
    BY <2>2, <2>3, <2>4, <2>5
<1>5. e \in [minX : Int, minY : Int, maxX : Int, maxY : Int]
  BY <1>3, <1>4
<1> HIDE DEF e
<1>6. e.minX <= e.maxX /\ e.minY <= e.maxY
  BY <1>1, <1>4
<1>7. e \in Rects
  BY <1>5, <1>6 DEF Rects
<1>8. contains(e, b)
  BY <1>1, <1>4 DEF contains, between
<1>9. ASSUME NEW c \in Rects, contains(a, c) PROVE contains(e, c)
  <2>1. c.minX \in Int /\ c.minY \in Int /\ c.maxX \in Int /\ c.maxY \in Int
    BY DEF Rects
  <2>2. QED
    BY <1>1, <1>4, <1>9, <2>1 DEF contains, between
<1>10. QED
  BY <1>7, <1>8, <1>9 DEF e

\* A rectangle contains itself.
LEMMA ContainsItself == \A b \in Rects : contains(b, b)
  BY DEF contains, between, Rects

\* The bounding box of some rectangles is one that contains them all.
LEMMA BoundingBoxContains ==
    ASSUME NEW rects \in Seq(Rects), rects # << >>
    PROVE  /\ BoundingBox(rects) \in Rects
           /\ \A i \in 1..Len(rects) : contains(BoundingBox(rects), rects[i])
<1> DEFINE n == Len(rects)
           W == CHOOSE iter : iter = [s \in SUBSET (DOMAIN rects) |->
                    IF s = {} THEN Head(rects)
                    ELSE LET x == Max(s) IN enclose(iter[s \ {x}], rects[x])]
           step == [a \in Rects \X (1..n) |-> enclose(a[1], rects[a[2]])]
<1>0. n \in Nat \ {0} /\ DOMAIN rects = 1..n /\ \A i \in 1..n : rects[i] \in Rects
  OBVIOUS
<1>1. BoundingBox(rects) = W[DOMAIN rects]
  BY DEF BoundingBox, FoldLeft, MapThenFoldSet
<1>2. Head(rects) = rects[1] /\ Head(rects) \in Rects
  BY <1>0
<1> HIDE DEF n
<1>3. step \in [Rects \X (1..n) -> Rects]
  <2>1. ASSUME NEW a \in Rects \X (1..n) PROVE enclose(a[1], rects[a[2]]) \in Rects
    BY <1>0, EncloseContains
  <2>2. QED
    BY <2>1
<1>4. PICK it \in [SUBSET (1..n) -> Rects] : FoldsBy(it, n, Head(rects), step)
  <2> HIDE DEF step
  <2>1. QED
    BY <1>0, <1>2, <1>3, FoldExists
<1>5. ASSUME NEW s \in SUBSET (1..n), s # {}
      PROVE  step[<<it[s \ {Max(s)}], Max(s)>>] = enclose(it[s \ {Max(s)}], rects[Max(s)])
  BY <1>5, <1>0, MaxOfSome
<1>6. it = [s \in SUBSET (1..n) |->
              IF s = {} THEN Head(rects) ELSE enclose(it[s \ {Max(s)}], rects[Max(s)])]
  <2> HIDE DEF step
  <2>1. QED
    BY <1>4, <1>5 DEF FoldsBy
<1>7. W = [s \in SUBSET (1..n) |->
              IF s = {} THEN Head(rects) ELSE enclose(W[s \ {Max(s)}], rects[Max(s)])]
  BY <1>6, <1>0
<1> HIDE DEF W
<1>8. W[{}] = Head(rects)
  BY <1>7
<1>9. ASSUME NEW s \in SUBSET (1..n), s # {}, W[s \ {Max(s)}] \in Rects
      PROVE  W[s] = step[<<W[s \ {Max(s)}], Max(s)>>]
  <2>1. W[s] = enclose(W[s \ {Max(s)}], rects[Max(s)])
    BY <1>7, <1>9
  <2>2. Max(s) \in 1..n
    BY <1>0, <1>9, MaxOfSome
  <2>3. QED
    BY <2>1, <2>2, <1>9
<1> HIDE DEF step
<1>10. PICK q : GoesBy(q, n, Rects, W[{}], step) /\ W[1..n] = q[n]
  <2>1. n \in Nat /\ W[{}] \in Rects
    BY <1>0, <1>2, <1>8
  <2>2. StepsBy(W, n, Rects, step)
    BY <2>1, <1>3, <1>9 DEF StepsBy
  <2>3. QED
    BY <2>2, FoldPlaces
<1> USE DEF GoesBy
<1>11. \A k \in 0..n - 1 : q[k] \in Rects /\ q[k + 1] = enclose(q[k], rects[k + 1])
  <2> SUFFICES ASSUME NEW k \in 0..n - 1
               PROVE  q[k] \in Rects /\ q[k + 1] = enclose(q[k], rects[k + 1])
    OBVIOUS
  <2>1. k \in 0..n /\ k + 1 \in 1..n
    BY <1>0
  <2>2. q[k] \in Rects /\ <<q[k], k + 1>> \in Rects \X (1..n)
    BY <2>1, <1>10
  <2>3. QED
    BY <2>2, <1>10 DEF step
<1> DEFINE S == {k \in Nat : k <= n => \A i \in 1..k : contains(q[k], rects[i])}
<1>12. 0 \in S
  OBVIOUS
<1>13. ASSUME NEW k \in S PROVE k + 1 \in S
  <2>1. k \in Nat
    OBVIOUS
  <2> SUFFICES ASSUME k + 1 <= n PROVE \A i \in 1..k + 1 : contains(q[k + 1], rects[i])
    BY <2>1
  <2>2. k \in 0..n - 1 /\ k <= n
    BY <2>1, <1>0
  <2>3. \A i \in 1..k : contains(q[k], rects[i])
    BY <2>2
  <2>4. q[k] \in Rects /\ q[k + 1] = enclose(q[k], rects[k + 1]) /\ rects[k + 1] \in Rects
    <3>1. k + 1 \in 1..n
      BY <2>2, <1>0
    <3>2. QED
      BY <3>1, <2>2, <1>11, <1>0
  <2>5. ASSUME NEW i \in 1..k + 1 PROVE contains(q[k + 1], rects[i])
    <3>1. CASE i = k + 1
      BY <3>1, <2>4, EncloseContains
    <3>2. CASE i # k + 1
      <4>1. i \in 1..k /\ i \in 1..n
        BY <3>2, <2>2, <1>0
      <4>2. contains(q[k], rects[i]) /\ rects[i] \in Rects
        BY <4>1, <2>3, <1>0
      <4>3. QED
        BY <4>2, <2>4, EncloseContains
    <3>3. QED
      BY <3>1, <3>2
  <2>6. QED
    BY <2>5
<1> HIDE DEF S
<1>14. S = Nat
  <2>1. S \subseteq Nat
    BY DEF S
  <2>2. QED
    BY <2>1, <1>12, <1>13, SetInduction
<1>15. \A i \in 1..n : contains(q[n], rects[i])
  BY <1>14, <1>0 DEF S
<1>16. BoundingBox(rects) = q[n] /\ q[n] \in Rects
  <2>1. n \in 0..n
    BY <1>0
  <2>2. QED
    BY <2>1, <1>0, <1>1, <1>10
<1>17. QED
  BY <1>15, <1>16 DEF n

-----------------------------------------------------------------------------
(* The leaves.                                                             *)

IdsOf(leaf) == ToSet(leaf.ids)
LeafType == [ids : Seq(Nat), data : Seq(Rects)]

\* A leaf has some objects and their boxes ...
LeafOK(leaf, boxes) ==
    /\ leaf \in LeafType
    /\ Lists(leaf.ids, IdsOf(leaf)) /\ IdsOf(leaf) # {}
    /\ IdsOf(leaf) \subseteq 0..Len(boxes) - 1
    /\ Len(leaf.data) = Len(leaf.ids)
    /\ \A j \in 1..Len(leaf.ids) : leaf.data[j] = boxes[leaf.ids[j] + 1]

\* ... and each object is in one of them.
LeafFile(file, boxes) ==
    /\ file \in Seq(LeafType)
    /\ \A i \in 1..Len(file) : LeafOK(file[i], boxes)
    /\ \A i, k \in 1..Len(file) : i # k => IdsOf(file[i]) \cap IdsOf(file[k]) = {}
    /\ \A x \in 0..Len(boxes) - 1 : \E i \in 1..Len(file) : x \in IdsOf(file[i])

LEMMA StoredSame ==
    ASSUME NEW T, NEW s \in Seq(T)
    PROVE  Stored(s) = s
  BY DEF Stored

\* The file that is written has them all.
LEMMA LeavesAreWritten ==
    ASSUME NEW data \in Seq(Rects), data # << >>
    PROVE  LeafFile(Leaves(data), data) /\ Leaves(data) # << >>
<1> DEFINE S == 0..Len(data) - 1
           chunks == Chunks(buildLeaves(data), LeafElements)
           c == Len(chunks)
           leaf(i) == [ids |-> chunks[i],
                      data |-> [j \in DOMAIN chunks[i] |-> data[chunks[i][j] + 1]]]
           file == Leaves(data)
<1>0. Len(data) \in Nat \ {0} /\ \A i \in 1..Len(data) : data[i] \in Rects
  OBVIOUS
<1>1. LeafElements \in Nat \ {0}
  BY TreeAssumption
<1>2. Lists(buildLeaves(data), S)
  BY LeavesListAll
<1>3. chunks \in Seq(Seq(S))
  <2>1. buildLeaves(data) \in Seq(S)
    BY <1>2 DEF Lists
  <2>2. QED
    BY <2>1, <1>1, ChunkPlaces
<1>4. file = [i \in 1..c |-> leaf(i)]
  <2>1. DOMAIN chunks = 1..c
    BY <1>3
  <2>2. QED
    BY <2>1 DEF Leaves
<1> HIDE DEF S
<1>5. PICK Q \in [1..c -> SUBSET S] :
        /\ \A i \in 1..c : Lists(chunks[i], Q[i]) /\ Q[i] # {}
        /\ \A i, k \in 1..c : i # k => Q[i] \cap Q[k] = {}
        /\ \A x \in S : \E i \in 1..c : x \in Q[i]
  <2> HIDE DEF c, chunks
  <2>1. \E Q \in [1..Len(chunks) -> SUBSET S] :
        /\ \A i \in 1..Len(chunks) : Lists(chunks[i], Q[i]) /\ Q[i] # {}
        /\ \A i, k \in 1..Len(chunks) : i # k => Q[i] \cap Q[k] = {}
        /\ \A x \in S : \E i \in 1..Len(chunks) : x \in Q[i]
    BY <1>1, <1>2, ListChunks DEF chunks
  <2>2. QED
    BY <2>1 DEF c
<1> HIDE DEF chunks, file
<1>6. c \in Nat /\ \A i \in 1..c : chunks[i] \in Seq(S) /\ DOMAIN chunks[i] = 1..Len(chunks[i])
                                   /\ Len(chunks[i]) \in Nat
  BY <1>3
<1> HIDE DEF c
<1>7. ASSUME NEW i \in 1..c
      PROVE  leaf(i) \in LeafType /\ LeafOK(leaf(i), data) /\ IdsOf(leaf(i)) = Q[i]
  <2> DEFINE ids == chunks[i]
             dat == [j \in 1..Len(ids) |-> data[ids[j] + 1]]
  <2>1. leaf(i) = [ids |-> ids, data |-> dat]
    BY <1>6
  <2> HIDE DEF leaf
  <2>2. ids \in Seq(S) /\ Len(ids) \in Nat /\ Lists(ids, Q[i]) /\ Q[i] # {} /\ Q[i] \subseteq S
    BY <1>5, <1>6
  <2>3. ToSet(ids) = Q[i]
    BY <2>2, ListedSet
  <2> HIDE DEF ids
  <2>4. \A j \in 1..Len(ids) : data[ids[j] + 1] \in Rects /\ ids[j] \in Nat
    <3> SUFFICES ASSUME NEW j \in 1..Len(ids) PROVE data[ids[j] + 1] \in Rects /\ ids[j] \in Nat
      OBVIOUS
    <3>1. ids[j] \in S
      BY <2>2
    <3>2. ids[j] \in Nat /\ ids[j] + 1 \in 1..Len(data)
      BY <3>1, <1>0 DEF S
    <3>3. QED
      BY <3>2, <1>0
  <2>5. dat \in Seq(Rects) /\ Len(dat) = Len(ids)
    <3>1. dat \in [1..Len(ids) -> Rects]
      BY <2>4
    <3> HIDE DEF dat
    <3>2. QED
      BY <3>1, <2>2, FunctionSeq
  <2>6. ids \in Seq(Nat)
    BY <2>2, <2>4, SeqOfElements
  <2>7. leaf(i) \in LeafType
    BY <2>1, <2>5, <2>6 DEF LeafType
  <2>8. leaf(i).ids = ids /\ leaf(i).data = dat
    BY <2>1
  <2>9. IdsOf(leaf(i)) = Q[i]
    BY <2>3, <2>8 DEF IdsOf
  <2>10. \A j \in 1..Len(ids) : dat[j] = data[ids[j] + 1]
    OBVIOUS
  <2> HIDE DEF dat
  <2>11. LeafOK(leaf(i), data)
    BY <2>2, <2>5, <2>7, <2>8, <2>9, <2>10 DEF LeafOK, S
  <2>12. QED
    BY <2>7, <2>9, <2>11
<1> HIDE DEF leaf
<1>8. file \in Seq(LeafType) /\ Len(file) = c /\ \A i \in 1..c : file[i] = leaf(i)
  <2>1. file \in [1..c -> LeafType] /\ \A i \in 1..c : file[i] = leaf(i)
    BY <1>4, <1>7
  <2>2. QED
    BY <2>1, <1>6, FunctionSeq
<1>9. \A i \in 1..c : LeafOK(file[i], data) /\ IdsOf(file[i]) = Q[i]
  BY <1>7, <1>8
<1>10. LeafFile(file, data)
  BY <1>5, <1>8, <1>9 DEF LeafFile, S
<1>11. c # 0
  <2>1. 0 \in S
    BY <1>0 DEF S
  <2>2. QED
    BY <2>1, <1>5, <1>6
<1>12. QED
  BY <1>8, <1>10, <1>11 DEF file

-----------------------------------------------------------------------------
(* The nodes.                                                              *)

NodeType == [bounds : Seq(Rects), children : Seq(Int)]

\* The objects behind a place of a node, the leaves of a leaf node being where the tree
\* reads them from the file.
Behind(file, part, nodes, k, j) ==
    IF isLeaf(nodes[k]) THEN IdsOf(file[(k - 1) * NUM_CHILDREN + j])
                        ELSE part[nodes[k].children[j] + 1]

\* A node's place is a leaf of the file, or an earlier node.
PlaceOK(file, nodes, k, j) ==
    IF isLeaf(nodes[k]) THEN (k - 1) * NUM_CHILDREN + j \in 1..Len(file)
                        ELSE nodes[k].children[j] \in 0..k - 2

\* What is behind a place is within its bounds, what is behind two places differs, and all
\* that belongs to the node is behind one.
NodeOK(file, boxes, part, nodes, k) ==
    LET n == Len(nodes[k].bounds)
    IN  /\ n # 0 /\ Len(nodes[k].children) = n
        /\ \A j \in 1..n : PlaceOK(file, nodes, k, j)
        /\ \A j \in 1..n : Behind(file, part, nodes, k, j) # {}
        /\ \A j \in 1..n : \A x \in Behind(file, part, nodes, k, j) :
             x \in 0..Len(boxes) - 1 /\ contains(nodes[k].bounds[j], boxes[x + 1])
        /\ \A i, j \in 1..n : i # j =>
             Behind(file, part, nodes, k, i) \cap Behind(file, part, nodes, k, j) = {}
        /\ \A x \in 0..Len(boxes) - 1 :
             x \in part[k] <=> \E j \in 1..n : x \in Behind(file, part, nodes, k, j)

\* The levels that are built so far: the nodes, and those of the last level, from start on,
\* to which all objects belong.
Grown(file, boxes, nodes, start, part) ==
    /\ nodes \in Seq(NodeType) /\ start \in 0..Len(nodes) - 1
    /\ part \in [1..Len(nodes) -> SUBSET (0..Len(boxes) - 1)]
    /\ \A k \in 1..Len(nodes) : NodeOK(file, boxes, part, nodes, k)
    /\ \A k, l \in start + 1..Len(nodes) : k # l => part[k] \cap part[l] = {}
    /\ \A x \in 0..Len(boxes) - 1 : \E k \in start + 1..Len(nodes) : x \in part[k]

\* The first level has the leaves.
LEMMA FirstLevel ==
    ASSUME NEW boxes \in Seq(Rects), NEW file, LeafFile(file, boxes), file # << >>
    PROVE  /\ \E part : Grown(file, boxes, LeafNodes(file), 0, part)
           /\ \A k \in 1..Len(LeafNodes(file)) : isLeaf(LeafNodes(file)[k])
<1> DEFINE S == 0..Len(boxes) - 1
           m == Len(file)
           rects == [i \in 1..m |-> BoundingBox(file[i].data)]
           chunks == Chunks(rects, NUM_CHILDREN)
           c == Len(chunks)
           node(i) == [bounds |-> chunks[i], children |-> [j \in 1..Len(chunks[i]) |-> -1]]
           nodes == LeafNodes(file)
           part == [k \in 1..c |-> {x \in S : \E j \in 1..Len(chunks[k]) :
                                     x \in IdsOf(file[(k - 1) * NUM_CHILDREN + j])}]
<1>0. NUM_CHILDREN \in Nat \ {0}
  BY TreeAssumption
<1>1. /\ file \in Seq(LeafType) /\ m \in Nat /\ DOMAIN file = 1..m
      /\ \A i \in 1..m : file[i] \in LeafType /\ LeafOK(file[i], boxes)
      /\ \A i, k \in 1..m : i # k => IdsOf(file[i]) \cap IdsOf(file[k]) = {}
      /\ \A x \in S : \E i \in 1..m : x \in IdsOf(file[i])
  <2> HIDE DEF rects, chunks, c, node, nodes, part
  <2>1. file \in Seq(LeafType)
    BY DEF LeafFile
  <2>2. m \in Nat /\ DOMAIN file = 1..m /\ \A i \in 1..m : file[i] \in LeafType
    BY <2>1
  <2>3. \A i \in 1..m : LeafOK(file[i], boxes)
    BY DEF LeafFile
  <2>4. \A i, k \in 1..m : i # k => IdsOf(file[i]) \cap IdsOf(file[k]) = {}
    BY DEF LeafFile
  <2>5. \A x \in S : \E i \in 1..m : x \in IdsOf(file[i])
    BY DEF LeafFile
  <2>6. QED
    BY <2>1, <2>2, <2>3, <2>4, <2>5
<1>1a. m # 0
  BY <1>1
<1> HIDE DEF m
<1>2. ASSUME NEW i \in 1..m
      PROVE  /\ rects[i] \in Rects /\ IdsOf(file[i]) # {}
             /\ \A x \in IdsOf(file[i]) : x \in S /\ contains(rects[i], boxes[x + 1])
  <2> DEFINE ids == file[i].ids
             dat == file[i].data
  <2>1. /\ file[i] \in LeafType /\ Lists(ids, IdsOf(file[i])) /\ IdsOf(file[i]) # {}
        /\ IdsOf(file[i]) \subseteq S /\ Len(dat) = Len(ids)
        /\ \A j \in 1..Len(ids) : dat[j] = boxes[ids[j] + 1]
    BY <1>1 DEF LeafOK
  <2>2. dat \in Seq(Rects) /\ ids \in Seq(Nat) /\ Len(ids) \in Nat
    BY <2>1 DEF LeafType
  <2>3. \A x \in IdsOf(file[i]) : \E j \in 1..Len(ids) : ids[j] = x
    BY <2>1 DEF Lists
  <2>4. rects[i] = BoundingBox(dat)
    OBVIOUS
  <2> HIDE DEF ids, dat, rects, S
  <2>5. dat # << >>
    <3>1. PICK x : x \in IdsOf(file[i])
      BY <2>1
    <3>2. PICK j \in 1..Len(ids) : ids[j] = x
      BY <3>1, <2>3
    <3>3. QED
      BY <3>2, <2>1, <2>2
  <2>6. BoundingBox(dat) \in Rects /\ \A j \in 1..Len(dat) : contains(BoundingBox(dat), dat[j])
    BY <2>2, <2>5, BoundingBoxContains
  <2>7. ASSUME NEW x \in IdsOf(file[i]) PROVE x \in S /\ contains(rects[i], boxes[x + 1])
    <3>1. PICK j \in 1..Len(ids) : ids[j] = x
      BY <2>3
    <3>2. dat[j] = boxes[x + 1] /\ j \in 1..Len(dat)
      BY <3>1, <2>1
    <3>3. QED
      BY <3>2, <2>1, <2>4, <2>6
  <2>8. QED
    BY <2>1, <2>4, <2>6, <2>7
<1>3. rects \in Seq(Rects) /\ Len(rects) = m
  <2>1. rects \in [1..m -> Rects]
    BY <1>2
  <2> HIDE DEF rects
  <2>2. QED
    BY <2>1, <1>1, FunctionSeq
<1>4. nodes = [i \in DOMAIN chunks |-> [bounds |-> chunks[i],
                                       children |-> [j \in DOMAIN chunks[i] |-> -1]]]
  <2>1. Stored([i \in DOMAIN file |-> BoundingBox(file[i].data)]) = rects
    BY <1>1, <1>3, StoredSame
  <2>2. QED
    BY <2>1 DEF LeafNodes
<1> HIDE DEF rects
<1>5. chunks \in Seq(Seq(Rects)) /\ PiecesOf(chunks, rects, NUM_CHILDREN)
  BY <1>0, <1>3, ChunkPlaces
<1> HIDE DEF chunks, nodes
<1>6. /\ c \in Nat /\ DOMAIN chunks = 1..c
      /\ \A i \in 1..c : /\ chunks[i] \in Seq(Rects) /\ DOMAIN chunks[i] = 1..Len(chunks[i])
                         /\ Len(chunks[i]) \in Nat /\ Len(chunks[i]) # 0
                         /\ Len(chunks[i]) <= NUM_CHILDREN
  <2>1. /\ c \in Nat /\ DOMAIN chunks = 1..c
        /\ \A i \in 1..c : /\ chunks[i] \in Seq(Rects) /\ DOMAIN chunks[i] = 1..Len(chunks[i])
                           /\ Len(chunks[i]) \in Nat
    BY <1>5
  <2>2. \A i \in 1..c : Len(chunks[i]) \in 1..NUM_CHILDREN
    BY <1>5 DEF PiecesOf
  <2>3. QED
    BY <2>1, <2>2, <1>0
<1>7. \A i \in 1..c : \A j \in 1..Len(chunks[i]) :
         /\ (i - 1) * NUM_CHILDREN + j \in 1..m
         /\ chunks[i][j] = rects[(i - 1) * NUM_CHILDREN + j]
  BY <1>3, <1>5 DEF PiecesOf
<1>8. \A p \in 1..m : \E i \in 1..c : \E j \in 1..Len(chunks[i]) :
         p = (i - 1) * NUM_CHILDREN + j
  BY <1>3, <1>5 DEF PiecesOf
<1> HIDE DEF c
<1>9. \A i \in 1..c : node(i) \in NodeType /\ Len(node(i).children) = Len(chunks[i])
                      /\ node(i).bounds = chunks[i] /\ isLeaf(node(i))
  <2> SUFFICES ASSUME NEW i \in 1..c
               PROVE  node(i) \in NodeType /\ Len(node(i).children) = Len(chunks[i])
                      /\ node(i).bounds = chunks[i] /\ isLeaf(node(i))
    OBVIOUS
  <2> DEFINE ch == [j \in 1..Len(chunks[i]) |-> -1]
  <2>1. ch \in [1..Len(chunks[i]) -> Int]
    OBVIOUS
  <2>2. Len(chunks[i]) \in Nat /\ Len(chunks[i]) # 0 /\ chunks[i] \in Seq(Rects)
    BY <1>6
  <2>3. ch[1] = -1
    BY <2>2
  <2>4. node(i).bounds = chunks[i] /\ node(i).children = ch
        /\ node(i) = [bounds |-> chunks[i], children |-> ch]
    OBVIOUS
  <2> HIDE DEF ch, node
  <2>5. ch \in Seq(Int) /\ Len(ch) = Len(chunks[i])
    BY <2>1, <2>2, FunctionSeq
  <2>6. QED
    BY <2>2, <2>3, <2>4, <2>5 DEF NodeType, isLeaf
<1>10. nodes \in Seq(NodeType) /\ Len(nodes) = c /\ \A i \in 1..c : nodes[i] = node(i)
  <2>1. nodes = [i \in 1..c |-> node(i)]
    BY <1>4, <1>6
  <2>2. nodes \in [1..c -> NodeType] /\ \A i \in 1..c : nodes[i] = node(i)
    BY <2>1, <1>9
  <2>3. QED
    BY <2>2, <1>6, FunctionSeq
<1> HIDE DEF node
<1>11. \A i \in 1..c : nodes[i].bounds = chunks[i] /\ isLeaf(nodes[i])
                       /\ Len(nodes[i].children) = Len(chunks[i])
  BY <1>9, <1>10
<1>12. ASSUME NEW k \in 1..c, NEW j \in 1..Len(chunks[k])
       PROVE  /\ Behind(file, part, nodes, k, j) = IdsOf(file[(k - 1) * NUM_CHILDREN + j])
              /\ (k - 1) * NUM_CHILDREN + j \in 1..m
              /\ chunks[k][j] = rects[(k - 1) * NUM_CHILDREN + j]
  BY <1>7, <1>11 DEF Behind
<1>13. ASSUME NEW k \in 1..c, NEW j \in 1..Len(chunks[k]),
              NEW i \in 1..c, NEW l \in 1..Len(chunks[i]),
              NEW x, x \in IdsOf(file[(k - 1) * NUM_CHILDREN + j]),
              x \in IdsOf(file[(i - 1) * NUM_CHILDREN + l])
       PROVE  k = i /\ j = l
  <2>1. (k - 1) * NUM_CHILDREN + j = (i - 1) * NUM_CHILDREN + l
    <3>1. (k - 1) * NUM_CHILDREN + j \in 1..m /\ (i - 1) * NUM_CHILDREN + l \in 1..m
      BY <1>12
    <3> DEFINE a == (k - 1) * NUM_CHILDREN + j
               b == (i - 1) * NUM_CHILDREN + l
    <3>2. a \in 1..m /\ b \in 1..m /\ x \in IdsOf(file[a]) /\ x \in IdsOf(file[b])
      BY <3>1, <1>13
    <3> HIDE DEF a, b
    <3>3. a = b
      BY <3>2, <1>1
    <3>4. QED
      BY <3>3 DEF a, b
  <2>2. k \in Int /\ i \in Int /\ j \in 1..NUM_CHILDREN /\ l \in 1..NUM_CHILDREN
    <3>1. Len(chunks[k]) \in Nat /\ Len(chunks[k]) <= NUM_CHILDREN
          /\ Len(chunks[i]) \in Nat /\ Len(chunks[i]) <= NUM_CHILDREN
      BY <1>6
    <3>2. QED
      BY <3>1, <1>0, <1>6
  <2>3. QED
    BY <2>1, <2>2, <1>0, OnePiece
<1>14. part \in [1..c -> SUBSET S]
  OBVIOUS
<1>15. \A k \in 1..c : \A x \in S : x \in part[k] <=>
          \E j \in 1..Len(chunks[k]) : x \in IdsOf(file[(k - 1) * NUM_CHILDREN + j])
  OBVIOUS
<1> HIDE DEF part
<1>16. ASSUME NEW k \in 1..c PROVE NodeOK(file, boxes, part, nodes, k)
  <2> DEFINE n == Len(chunks[k])
  <2>1. n \in Nat /\ n # 0 /\ Len(nodes[k].bounds) = n /\ Len(nodes[k].children) = n
        /\ nodes[k].bounds = chunks[k]
    BY <1>6, <1>11
  <2> HIDE DEF n
  <2>2. ASSUME NEW j \in 1..n
        PROVE  /\ PlaceOK(file, nodes, k, j) /\ Behind(file, part, nodes, k, j) # {}
               /\ \A x \in Behind(file, part, nodes, k, j) :
                    x \in S /\ contains(nodes[k].bounds[j], boxes[x + 1])
    <3> DEFINE a == (k - 1) * NUM_CHILDREN + j
    <3>1. Behind(file, part, nodes, k, j) = IdsOf(file[a]) /\ a \in 1..m /\ chunks[k][j] = rects[a]
      BY <1>12 DEF n
    <3>2. PlaceOK(file, nodes, k, j)
      BY <3>1, <1>11 DEF PlaceOK, m
    <3> HIDE DEF a
    <3>3. QED
      BY <3>1, <3>2, <2>1, <1>2
  <2>3. \A i, j \in 1..n : i # j =>
           Behind(file, part, nodes, k, i) \cap Behind(file, part, nodes, k, j) = {}
    <3> SUFFICES ASSUME NEW i \in 1..n, NEW j \in 1..n,
                        NEW x, x \in Behind(file, part, nodes, k, i),
                        x \in Behind(file, part, nodes, k, j)
                 PROVE  i = j
      OBVIOUS
    <3>1. x \in IdsOf(file[(k - 1) * NUM_CHILDREN + i])
      BY <1>12 DEF n
    <3>2. x \in IdsOf(file[(k - 1) * NUM_CHILDREN + j])
      BY <1>12 DEF n
    <3>3. QED
      BY <3>1, <3>2, <1>13 DEF n
  <2>4. \A x \in S : x \in part[k] <=> \E j \in 1..n : x \in Behind(file, part, nodes, k, j)
    BY <1>12, <1>15 DEF n
  <2>5. QED
    BY <2>1, <2>2, <2>3, <2>4 DEF NodeOK
<1>17. \A k, l \in 1..c : k # l => part[k] \cap part[l] = {}
  <2> SUFFICES ASSUME NEW k \in 1..c, NEW l \in 1..c, NEW x \in S, x \in part[k], x \in part[l]
               PROVE  k = l
    BY <1>14
  <2>1. PICK i \in 1..Len(chunks[k]) : x \in IdsOf(file[(k - 1) * NUM_CHILDREN + i])
    BY <1>15
  <2>2. PICK j \in 1..Len(chunks[l]) : x \in IdsOf(file[(l - 1) * NUM_CHILDREN + j])
    BY <1>15
  <2>3. QED
    BY <2>1, <2>2, <1>13
<1>18. ASSUME NEW x \in S PROVE \E k \in 1..c : x \in part[k]
  <2>1. PICK p \in 1..m : x \in IdsOf(file[p])
    BY <1>1
  <2>2. PICK k \in 1..c : \E j \in 1..Len(chunks[k]) : p = (k - 1) * NUM_CHILDREN + j
    BY <1>8
  <2>3. QED
    BY <2>1, <2>2, <1>15
<1>19. c # 0
  <2>1. 1 \in 1..m
    BY <1>1, <1>1a
  <2>2. QED
    BY <2>1, <1>6, <1>8
<1>20. Grown(file, boxes, nodes, 0, part)
  <2>1. 0 + 1..Len(nodes) = 1..c /\ 0 \in 0..Len(nodes) - 1
    BY <1>6, <1>10, <1>19
  <2>2. QED
    BY <2>1, <1>10, <1>14, <1>16, <1>17, <1>18 DEF Grown
<1>21. QED
  BY <1>10, <1>11, <1>20 DEF nodes

\* What belongs to a node is within its bounding box.
LEMMA WithinNode ==
    ASSUME NEW boxes \in Seq(Rects), NEW file, NEW nodes, NEW start, NEW part,
           Grown(file, boxes, nodes, start, part), NEW k \in 1..Len(nodes)
    PROVE  /\ BoundingBox(nodes[k].bounds) \in Rects /\ part[k] # {}
           /\ \A x \in part[k] : contains(BoundingBox(nodes[k].bounds), boxes[x + 1])
<1> DEFINE S == 0..Len(boxes) - 1
           bounds == nodes[k].bounds
           n == Len(bounds)
<1>1. nodes \in Seq(NodeType) /\ part \in [1..Len(nodes) -> SUBSET S]
      /\ NodeOK(file, boxes, part, nodes, k)
  BY DEF Grown
<1>2. bounds \in Seq(Rects)
  <2>1. nodes[k] \in NodeType
    BY <1>1
  <2>2. QED
    BY <2>1 DEF NodeType
<1>3. n \in Nat /\ part[k] \subseteq S
  BY <1>1, <1>2
<1>4. /\ n # 0
      /\ \A j \in 1..n : Behind(file, part, nodes, k, j) # {}
      /\ \A j \in 1..n : \A x \in Behind(file, part, nodes, k, j) :
           x \in S /\ contains(bounds[j], boxes[x + 1])
      /\ \A x \in S : x \in part[k] <=> \E j \in 1..n : x \in Behind(file, part, nodes, k, j)
  BY <1>1 DEF NodeOK
<1> HIDE DEF n
<1>5. bounds # << >> /\ 1 \in 1..n /\ \A j \in 1..n : bounds[j] \in Rects
  BY <1>2, <1>3, <1>4 DEF n
<1> HIDE DEF bounds
<1>6. /\ BoundingBox(bounds) \in Rects
      /\ \A j \in 1..n : contains(BoundingBox(bounds), bounds[j])
  BY <1>2, <1>5, BoundingBoxContains DEF n
<1>7. part[k] # {}
  <2>1. PICK x : x \in Behind(file, part, nodes, k, 1)
    BY <1>4, <1>5
  <2>2. QED
    BY <2>1, <1>4, <1>5
<1>8. ASSUME NEW x \in part[k] PROVE contains(BoundingBox(bounds), boxes[x + 1])
  <2>1. x \in S
    BY <1>3
  <2>2. PICK j \in 1..n : x \in Behind(file, part, nodes, k, j)
    BY <2>1, <1>4
  <2>3. contains(bounds[j], boxes[x + 1]) /\ bounds[j] \in Rects
    BY <2>2, <1>4, <1>5
  <2>4. boxes[x + 1] \in Rects
    <3>1. x + 1 \in 1..Len(boxes)
      BY <2>1
    <3>2. QED
      BY <3>1
  <2>5. BoundingBox(bounds) \in Rects /\ contains(BoundingBox(bounds), bounds[j])
    BY <1>6
  <2>6. QED
    BY <2>3, <2>4, <2>5, TouchAndContain
<1>9. QED
  BY <1>6, <1>7, <1>8 DEF bounds

\* A node stays as it is when nodes are added behind it.
LEMMA NodeStays ==
    ASSUME NEW boxes, NEW file, NEW nodes, NEW part, NEW more, NEW parts, NEW n \in Nat,
           NEW k \in 1..n, NodeOK(file, boxes, part, nodes, k),
           nodes[k] = more[k], \A l \in 1..n : part[l] = parts[l]
    PROVE  NodeOK(file, boxes, parts, more, k)
<1> DEFINE m == Len(nodes[k].bounds)
<1>1. \A j \in 1..m : PlaceOK(file, nodes, k, j)
  BY DEF NodeOK
<1>2. ASSUME NEW j \in 1..m
      PROVE  /\ PlaceOK(file, more, k, j)
             /\ Behind(file, parts, more, k, j) = Behind(file, part, nodes, k, j)
  <2>1. CASE isLeaf(nodes[k])
    BY <2>1, <1>1 DEF PlaceOK, Behind
  <2>2. CASE ~isLeaf(nodes[k])
    <3>1. nodes[k].children[j] \in 0..k - 2
      BY <2>2, <1>1 DEF PlaceOK
    <3>2. nodes[k].children[j] + 1 \in 1..n
      BY <3>1
    <3>3. QED
      BY <2>2, <3>1, <3>2 DEF PlaceOK, Behind
  <2>3. QED
    BY <2>1, <2>2
<1>3. part[k] = parts[k]
  OBVIOUS
<1> HIDE DEF m
<1>4. /\ m # 0 /\ Len(nodes[k].children) = m
      /\ \A j \in 1..m : Behind(file, part, nodes, k, j) # {}
      /\ \A j \in 1..m : \A x \in Behind(file, part, nodes, k, j) :
           x \in 0..Len(boxes) - 1 /\ contains(nodes[k].bounds[j], boxes[x + 1])
      /\ \A i, j \in 1..m : i # j =>
           Behind(file, part, nodes, k, i) \cap Behind(file, part, nodes, k, j) = {}
      /\ \A x \in 0..Len(boxes) - 1 :
           x \in part[k] <=> \E j \in 1..m : x \in Behind(file, part, nodes, k, j)
  BY DEF NodeOK, m
<1>5. /\ m # 0 /\ Len(more[k].children) = m
      /\ \A j \in 1..m : PlaceOK(file, more, k, j)
      /\ \A j \in 1..m : Behind(file, parts, more, k, j) # {}
      /\ \A j \in 1..m : \A x \in Behind(file, parts, more, k, j) :
           x \in 0..Len(boxes) - 1 /\ contains(more[k].bounds[j], boxes[x + 1])
      /\ \A i, j \in 1..m : i # j =>
           Behind(file, parts, more, k, i) \cap Behind(file, parts, more, k, j) = {}
      /\ \A x \in 0..Len(boxes) - 1 :
           x \in parts[k] <=> \E j \in 1..m : x \in Behind(file, parts, more, k, j)
  BY <1>2, <1>3, <1>4
<1>6. m = Len(more[k].bounds)
  BY DEF m
<1>7. QED
  BY <1>5, <1>6 DEF NodeOK

\* A level above has fewer nodes than the level below.
LEMMA FewerAbove ==
    ASSUME NEW w \in Nat, w > 1
    PROVE  Ceil(w, NUM_CHILDREN) \in 1..w - 1
<1> DEFINE c == Ceil(w, NUM_CHILDREN)
           n == NUM_CHILDREN
<1>1. n \in Nat \ {0} /\ n >= 2
  BY TreeAssumption
<1>2. c \in Nat /\ c * n < w + n /\ c # 0
  BY <1>1, CeilBounds
<1> HIDE DEF c, n
<1>3. ASSUME c >= w PROVE FALSE
  <2>1. w * n <= c * n /\ w * n \in Int /\ c * n \in Int
    BY <1>1, <1>2, <1>3, TimesOrder
  <2>2. w * n < w + n
    BY <2>1, <1>1, <1>2
  <2>3. w * n = (w - 1) * (n - 1) + (w + n) - 1
    BY <1>1
  <2>4. 1 * (n - 1) <= (w - 1) * (n - 1) /\ (w - 1) * (n - 1) \in Int
    <3>1. 1 <= w - 1 /\ w - 1 \in Int /\ n - 1 \in Nat \ {0}
      BY <1>1
    <3>2. QED
      BY <3>1, TimesOrder
  <2> DEFINE a == w * n
             b == (w - 1) * (n - 1)
  <2>5. a < w + n /\ a = b + (w + n) - 1 /\ 1 * (n - 1) <= b /\ a \in Int /\ b \in Int
    BY <2>1, <2>2, <2>3, <2>4
  <2> HIDE DEF a, b
  <2>6. QED
    BY <2>5, <1>1
<1>4. QED
  BY <1>2, <1>3 DEF c, n

\* A level above the last one has all objects as well, and is narrower.
LEMMA NextLevel ==
    ASSUME NEW boxes \in Seq(Rects), NEW file, NEW nodes, NEW start, NEW part,
           Grown(file, boxes, nodes, start, part), Len(nodes) - start > 1
    PROVE  LET above == LevelAbove([nodes |-> nodes, start |-> start])
           IN  /\ above = [nodes |-> above.nodes, start |-> Len(nodes)]
               /\ \E parts : Grown(file, boxes, above.nodes, Len(nodes), parts)
               /\ Len(above.nodes) - Len(nodes) < Len(nodes) - start
<1> DEFINE S == 0..Len(boxes) - 1
           n == Len(nodes)
           w == n - start
           level == [i \in 1..w |-> start + i - 1]
           chunks == Chunks(level, NUM_CHILDREN)
           c == Len(chunks)
           bounds(i) == [j \in 1..Len(chunks[i]) |-> BoundingBox(nodes[chunks[i][j] + 1].bounds)]
           node(i) == [bounds |-> bounds(i), children |-> chunks[i]]
           added == [i \in 1..c |-> node(i)]
           above == LevelAbove([nodes |-> nodes, start |-> start])
           more == nodes \o added
           parts == [k \in 1..n + c |-> IF k <= n THEN part[k]
                       ELSE {x \in S : \E j \in 1..Len(chunks[k - n]) :
                                         x \in part[chunks[k - n][j] + 1]}]
<1>0. NUM_CHILDREN \in Nat \ {0}
  BY TreeAssumption
<1>1. /\ nodes \in Seq(NodeType) /\ start \in 0..n - 1 /\ n \in Nat
      /\ part \in [1..n -> SUBSET S]
      /\ \A k \in 1..n : NodeOK(file, boxes, part, nodes, k)
      /\ \A k, l \in start + 1..n : k # l => part[k] \cap part[l] = {}
      /\ \A x \in S : \E k \in start + 1..n : x \in part[k]
  <2> HIDE DEF level, chunks, c, bounds, node, added, above, more, parts
  <2>1. nodes \in Seq(NodeType) /\ start \in 0..n - 1 /\ part \in [1..n -> SUBSET S]
    BY DEF Grown
  <2>2. \A k \in 1..n : NodeOK(file, boxes, part, nodes, k)
    BY DEF Grown
  <2>3. \A k, l \in start + 1..n : k # l => part[k] \cap part[l] = {}
    BY DEF Grown
  <2>4. \A x \in S : \E k \in start + 1..n : x \in part[k]
    BY DEF Grown
  <2>5. n \in Nat
    BY <2>1
  <2>6. QED
    BY <2>1, <2>2, <2>3, <2>4, <2>5
<1>2. w \in Nat /\ w > 1
  BY <1>1
<1>3. above = [nodes |-> nodes \o [i \in DOMAIN chunks |->
                 [bounds |-> [j \in DOMAIN chunks[i] |->
                                BoundingBox(nodes[chunks[i][j] + 1].bounds)],
                  children |-> chunks[i]]], start |-> n]
  BY DEF LevelAbove
<1> HIDE DEF n, w, above
<1>4. level \in Seq(Int) /\ Len(level) = w /\ \A p \in 1..w : level[p] = start + p - 1
  <2>1. level \in [1..w -> Int] /\ \A p \in 1..w : level[p] = start + p - 1
    BY <1>1, <1>2
  <2> HIDE DEF level
  <2>2. QED
    BY <2>1, <1>2, FunctionSeq
<1> HIDE DEF level
<1>5. chunks \in Seq(Seq(Int)) /\ PiecesOf(chunks, level, NUM_CHILDREN)
      /\ c = Ceil(w, NUM_CHILDREN)
  BY <1>0, <1>4, ChunkPlaces
<1>6. c \in 1..w - 1
  BY <1>2, <1>5, FewerAbove
<1> HIDE DEF chunks
<1>7. /\ DOMAIN chunks = 1..c
      /\ \A i \in 1..c : /\ chunks[i] \in Seq(Int) /\ DOMAIN chunks[i] = 1..Len(chunks[i])
                         /\ Len(chunks[i]) \in Nat /\ Len(chunks[i]) # 0
                         /\ Len(chunks[i]) <= NUM_CHILDREN
  <2>1. /\ DOMAIN chunks = 1..c
        /\ \A i \in 1..c : /\ chunks[i] \in Seq(Int) /\ DOMAIN chunks[i] = 1..Len(chunks[i])
                           /\ Len(chunks[i]) \in Nat
    BY <1>5
  <2>2. \A i \in 1..c : Len(chunks[i]) \in 1..NUM_CHILDREN
    BY <1>5 DEF PiecesOf
  <2>3. QED
    BY <2>1, <2>2, <1>0
<1>8. above = [nodes |-> more, start |-> n]
  <2>1. \A i \in 1..c : DOMAIN chunks[i] = 1..Len(chunks[i])
    BY <1>7
  <2>2. QED
    BY <1>3, <1>7, <2>1
<1>9. \A i \in 1..c : \A j \in 1..Len(chunks[i]) :
         /\ (i - 1) * NUM_CHILDREN + j \in 1..w
         /\ chunks[i][j] = level[(i - 1) * NUM_CHILDREN + j]
  BY <1>4, <1>5 DEF PiecesOf
<1>10. \A p \in 1..w : \E i \in 1..c : \E j \in 1..Len(chunks[i]) :
         p = (i - 1) * NUM_CHILDREN + j
  BY <1>4, <1>5 DEF PiecesOf
<1> HIDE DEF c
\* Where the children are.
<1>11. ASSUME NEW i \in 1..c, NEW j \in 1..Len(chunks[i])
       PROVE  /\ chunks[i][j] = start + ((i - 1) * NUM_CHILDREN + j) - 1
              /\ chunks[i][j] + 1 \in start + 1..n /\ chunks[i][j] \in 0..n - 1
              /\ chunks[i][j] + 1 \in 1..n
  <2> DEFINE p == (i - 1) * NUM_CHILDREN + j
  <2>1. p \in 1..w /\ chunks[i][j] = level[p]
    BY <1>9
  <2> HIDE DEF p
  <2>2. chunks[i][j] = start + p - 1
    BY <2>1, <1>4
  <2>3. chunks[i][j] + 1 \in start + 1..n /\ chunks[i][j] \in 0..n - 1 /\ chunks[i][j] + 1 \in 1..n
    BY <2>1, <2>2, <1>1 DEF w
  <2>4. QED
    BY <2>2, <2>3 DEF p
<1>12. ASSUME NEW k \in start + 1..n
       PROVE  \E i \in 1..c : \E j \in 1..Len(chunks[i]) : chunks[i][j] + 1 = k
  <2>1. k - start \in 1..w
    BY <1>1 DEF w
  <2>2. PICK i \in 1..c : \E j \in 1..Len(chunks[i]) : k - start = (i - 1) * NUM_CHILDREN + j
    BY <2>1, <1>10
  <2>3. PICK j \in 1..Len(chunks[i]) : k - start = (i - 1) * NUM_CHILDREN + j
    BY <2>2
  <2> DEFINE p == (i - 1) * NUM_CHILDREN + j
  <2>4. chunks[i][j] = start + p - 1 /\ k - start = p /\ p \in 1..w
    BY <2>1, <2>3, <1>11
  <2> HIDE DEF p
  <2>5. chunks[i][j] + 1 = k
    BY <2>4, <1>1, <1>2
  <2>6. QED
    BY <2>5
<1>13. ASSUME NEW i \in 1..c, NEW j \in 1..Len(chunks[i]),
              NEW k \in 1..c, NEW l \in 1..Len(chunks[k]),
              NEW x, x \in part[chunks[i][j] + 1], x \in part[chunks[k][l] + 1]
       PROVE  i = k /\ j = l
  <2> DEFINE a == (i - 1) * NUM_CHILDREN + j
             b == (k - 1) * NUM_CHILDREN + l
  <2>1. chunks[i][j] + 1 = chunks[k][l] + 1
    BY <1>1, <1>11, <1>13
  <2>2. /\ chunks[i][j] = start + a - 1 /\ chunks[k][l] = start + b - 1
        /\ a \in 1..w /\ b \in 1..w
    BY <1>9, <1>11
  <2> HIDE DEF a, b
  <2>3. a = b
    BY <2>1, <2>2, <1>1
  <2>4. i \in Int /\ k \in Int /\ j \in 1..NUM_CHILDREN /\ l \in 1..NUM_CHILDREN
    <3>1. Len(chunks[k]) \in Nat /\ Len(chunks[k]) <= NUM_CHILDREN
          /\ Len(chunks[i]) \in Nat /\ Len(chunks[i]) <= NUM_CHILDREN
      BY <1>7
    <3>2. QED
      BY <3>1, <1>0, <1>6
  <2>5. QED
    BY <2>3, <2>4, <1>0, OnePiece DEF a, b
\* The nodes of the new level.
<1>14. ASSUME NEW i \in 1..c
       PROVE  /\ node(i) \in NodeType /\ node(i).bounds = bounds(i)
              /\ node(i).children = chunks[i] /\ Len(bounds(i)) = Len(chunks[i])
              /\ ~isLeaf(node(i))
  <2>1. bounds(i) \in [1..Len(chunks[i]) -> Rects]
    <3>1. ASSUME NEW j \in 1..Len(chunks[i])
          PROVE  BoundingBox(nodes[chunks[i][j] + 1].bounds) \in Rects
      <4>1. chunks[i][j] + 1 \in 1..n
        BY <1>11
      <4>2. QED
        BY <4>1, WithinNode DEF n
    <3>2. QED
      BY <3>1
  <2>2. node(i).bounds = bounds(i) /\ node(i).children = chunks[i]
        /\ node(i) = [bounds |-> bounds(i), children |-> chunks[i]]
    OBVIOUS
  <2> HIDE DEF bounds, node
  <2>3. Len(chunks[i]) \in Nat /\ Len(chunks[i]) # 0 /\ chunks[i] \in Seq(Int)
    BY <1>7
  <2>4. bounds(i) \in Seq(Rects) /\ Len(bounds(i)) = Len(chunks[i])
    BY <2>1, <2>3, FunctionSeq
  <2>5. node(i) \in NodeType
    BY <2>2, <2>3, <2>4 DEF NodeType
  <2>6. chunks[i][1] # -1
    <3>1. 1 \in 1..Len(chunks[i])
      BY <2>3
    <3>2. chunks[i][1] \in 0..n - 1
      BY <3>1, <1>11
    <3>3. QED
      BY <3>2, <1>1
  <2>7. QED
    BY <2>2, <2>4, <2>5, <2>6 DEF isLeaf
<1>15. \A i \in 1..c : \A j \in 1..Len(chunks[i]) :
         bounds(i)[j] = BoundingBox(nodes[chunks[i][j] + 1].bounds)
  OBVIOUS
<1> HIDE DEF bounds
<1>16. added \in Seq(NodeType) /\ Len(added) = c /\ \A i \in 1..c : added[i] = node(i)
  <2>1. added \in [1..c -> NodeType] /\ \A i \in 1..c : added[i] = node(i)
    BY <1>14
  <2> HIDE DEF added
  <2>2. c \in Nat
    BY <1>6, <1>2
  <2>3. QED
    BY <2>1, <2>2, FunctionSeq
<1> HIDE DEF added, node
<1>17. /\ more \in Seq(NodeType) /\ Len(more) = n + c
       /\ \A k \in 1..n : more[k] = nodes[k]
       /\ \A i \in 1..c : more[n + i] = node(i)
  <2> HIDE DEF parts, S, more
  <2>0. nodes \in Seq(NodeType) /\ added \in Seq(NodeType)
    BY <1>1, <1>16
  <2>1. /\ nodes \o added \in Seq(NodeType) /\ Len(nodes \o added) = Len(nodes) + Len(added)
        /\ \A p \in 1..Len(nodes) : (nodes \o added)[p] = nodes[p]
        /\ \A p \in 1..Len(added) : (nodes \o added)[Len(nodes) + p] = added[p]
    BY <2>0, Concatenation
  <2>2. QED
    BY <2>1, <1>16 DEF n, more
<1> HIDE DEF more
<1>18. /\ parts \in [1..n + c -> SUBSET S] /\ \A k \in 1..n : parts[k] = part[k]
       /\ \A i \in 1..c : \A x \in S : x \in parts[n + i] <=>
            \E j \in 1..Len(chunks[i]) : x \in part[chunks[i][j] + 1]
  <2>1. c \in Nat
    BY <1>6, <1>2
  <2>2. parts \in [1..n + c -> SUBSET S] /\ \A k \in 1..n : parts[k] = part[k]
    BY <1>1, <2>1
  <2>3. ASSUME NEW i \in 1..c
        PROVE  parts[n + i] = {x \in S : \E j \in 1..Len(chunks[i]) :
                                           x \in part[chunks[i][j] + 1]}
    <3>1. n + i \in 1..n + c /\ ~(n + i <= n) /\ (n + i) - n = i
      BY <1>1, <2>1
    <3>2. QED
      BY <3>1
  <2> HIDE DEF parts, S
  <2>4. \A i \in 1..c : \A x \in S : x \in parts[n + i] <=>
            \E j \in 1..Len(chunks[i]) : x \in part[chunks[i][j] + 1]
    BY <2>3
  <2>5. QED
    BY <2>2, <2>4
<1> HIDE DEF parts
<1>19. ASSUME NEW k \in 1..n PROVE NodeOK(file, boxes, parts, more, k)
  <2>1. NodeOK(file, boxes, part, nodes, k) /\ nodes[k] = more[k]
        /\ \A l \in 1..n : part[l] = parts[l]
    BY <1>1, <1>17, <1>18
  <2>2. QED
    BY <2>1, <1>1, NodeStays
<1>20. ASSUME NEW i \in 1..c PROVE NodeOK(file, boxes, parts, more, n + i)
  <2> DEFINE k == n + i
             m == Len(chunks[i])
  <2>1. /\ more[k].bounds = bounds(i) /\ more[k].children = chunks[i]
        /\ Len(bounds(i)) = m /\ ~isLeaf(more[k])
    BY <1>14, <1>17
  <2>2. m \in Nat /\ m # 0 /\ k \in Nat /\ i >= 1 /\ c \in Nat
    BY <1>1, <1>2, <1>6, <1>7
  <2> HIDE DEF k
  <2>3. ASSUME NEW j \in 1..m
        PROVE  /\ Behind(file, parts, more, k, j) = part[chunks[i][j] + 1]
               /\ PlaceOK(file, more, k, j)
    <3>1. chunks[i][j] + 1 \in 1..n /\ chunks[i][j] \in 0..n - 1
      BY <1>11
    <3>2. chunks[i][j] \in 0..k - 2
      BY <3>1, <2>2, <1>1 DEF k
    <3>3. QED
      BY <3>1, <3>2, <2>1, <1>18 DEF Behind, PlaceOK
  <2>4. ASSUME NEW j \in 1..m
        PROVE  /\ part[chunks[i][j] + 1] # {}
               /\ \A x \in part[chunks[i][j] + 1] :
                    x \in S /\ contains(bounds(i)[j], boxes[x + 1])
    <3> DEFINE l == chunks[i][j] + 1
    <3>1. l \in 1..n /\ bounds(i)[j] = BoundingBox(nodes[l].bounds)
      BY <1>11, <1>15
    <3> HIDE DEF l
    <3>2. part[l] # {} /\ \A x \in part[l] : contains(BoundingBox(nodes[l].bounds), boxes[x + 1])
      BY <3>1, WithinNode DEF n
    <3>3. part[l] \subseteq S
      BY <3>1, <1>1
    <3>4. QED
      BY <3>1, <3>2, <3>3 DEF l
  <2>5. \A j, l \in 1..m : j # l => part[chunks[i][j] + 1] \cap part[chunks[i][l] + 1] = {}
    <3> SUFFICES ASSUME NEW j \in 1..m, NEW l \in 1..m, NEW x, x \in part[chunks[i][j] + 1],
                        x \in part[chunks[i][l] + 1]
                 PROVE  j = l
      OBVIOUS
    <3>1. QED
      BY <1>13
  <2>6. \A x \in S : x \in parts[k] <=> \E j \in 1..m : x \in part[chunks[i][j] + 1]
    BY <1>18 DEF k
  <2> HIDE DEF m
  <2>7. /\ m # 0 /\ Len(more[k].bounds) = m /\ Len(more[k].children) = m
        /\ \A j \in 1..m : PlaceOK(file, more, k, j)
        /\ \A j \in 1..m : Behind(file, parts, more, k, j) # {}
        /\ \A j \in 1..m : \A x \in Behind(file, parts, more, k, j) :
             x \in S /\ contains(more[k].bounds[j], boxes[x + 1])
        /\ \A j, l \in 1..m : j # l =>
             Behind(file, parts, more, k, j) \cap Behind(file, parts, more, k, l) = {}
        /\ \A x \in S :
             x \in parts[k] <=> \E j \in 1..m : x \in Behind(file, parts, more, k, j)
    <3>1. m # 0 /\ Len(more[k].bounds) = m /\ Len(more[k].children) = m
      BY <2>1, <2>2 DEF m
    <3>2. \A j \in 1..m : PlaceOK(file, more, k, j) /\ Behind(file, parts, more, k, j) # {}
      BY <2>3, <2>4
    <3>3. ASSUME NEW j \in 1..m, NEW x \in Behind(file, parts, more, k, j)
          PROVE  x \in S /\ contains(more[k].bounds[j], boxes[x + 1])
      <4>1. x \in part[chunks[i][j] + 1]
        BY <2>3
      <4>2. x \in S /\ contains(bounds(i)[j], boxes[x + 1])
        BY <2>4, <4>1
      <4>3. QED
        BY <2>1, <4>2
    <3>4. \A j, l \in 1..m : j # l =>
             Behind(file, parts, more, k, j) \cap Behind(file, parts, more, k, l) = {}
      BY <2>3, <2>5
    <3>5. \A x \in S :
             x \in parts[k] <=> \E j \in 1..m : x \in Behind(file, parts, more, k, j)
      BY <2>3, <2>6
    <3>6. QED
      BY <3>1, <3>2, <3>3, <3>4, <3>5
  <2>8. NodeOK(file, boxes, parts, more, k)
    BY <2>7 DEF NodeOK
  <2>9. QED
    BY <2>8 DEF k
<1>21. \A k \in 1..n + c : NodeOK(file, boxes, parts, more, k)
  <2> SUFFICES ASSUME NEW k \in 1..n + c PROVE NodeOK(file, boxes, parts, more, k)
    OBVIOUS
  <2>1. CASE k <= n
    BY <2>1, <1>1, <1>19
  <2>2. CASE k > n
    <3>1. k - n \in 1..c /\ n + (k - n) = k
      BY <2>2, <1>1, <1>2, <1>6
    <3>2. NodeOK(file, boxes, parts, more, n + (k - n))
      BY <3>1, <1>20
    <3>3. QED
      BY <3>1, <3>2
  <2>3. QED
    BY <2>1, <2>2, <1>1, <1>2, <1>6
<1>22. \A k, l \in n + 1..n + c : k # l => parts[k] \cap parts[l] = {}
  <2> SUFFICES ASSUME NEW k \in n + 1..n + c, NEW l \in n + 1..n + c,
                      NEW x, x \in parts[k], x \in parts[l]
               PROVE  k = l
    OBVIOUS
  <2> DEFINE a == k - n
             b == l - n
  <2>1. a \in 1..c /\ b \in 1..c /\ k = n + a /\ l = n + b /\ k \in 1..n + c
    BY <1>1, <1>2, <1>6
  <2> HIDE DEF a, b
  <2>2. x \in S
    BY <2>1, <1>18
  <2>3. PICK i \in 1..Len(chunks[a]) : x \in part[chunks[a][i] + 1]
    BY <2>1, <2>2, <1>18
  <2>4. PICK j \in 1..Len(chunks[b]) : x \in part[chunks[b][j] + 1]
    BY <2>1, <2>2, <1>18
  <2>5. QED
    BY <2>1, <2>3, <2>4, <1>13
<1>23. ASSUME NEW x \in S PROVE \E k \in n + 1..n + c : x \in parts[k]
  <2>1. PICK k \in start + 1..n : x \in part[k]
    BY <1>1
  <2>2. PICK i \in 1..c : \E j \in 1..Len(chunks[i]) : chunks[i][j] + 1 = k
    BY <1>12
  <2>3. x \in parts[n + i]
    BY <2>1, <2>2, <1>18
  <2>4. n + i \in n + 1..n + c
    BY <1>1, <1>2, <1>6
  <2>5. QED
    BY <2>3, <2>4
<1>24. Grown(file, boxes, more, n, parts)
  <2>1. n \in 0..(n + c) - 1
    BY <1>1, <1>2, <1>6
  <2>2. QED
    BY <2>1, <1>17, <1>18, <1>21, <1>22, <1>23 DEF Grown
<1>25. Len(more) - n < n - start
  BY <1>1, <1>2, <1>6, <1>17 DEF w
<1>26. above = [nodes |-> above.nodes, start |-> n] /\ above.nodes = more
  BY <1>8
<1>27. QED
  BY <1>24, <1>25, <1>26 DEF above, n

\* What a tree can be while its levels are built.
Growing(file, boxes) ==
    {t \in [nodes : Seq(NodeType), start : Nat] :
       \E part : Grown(file, boxes, t.nodes, t.start, part)}
Width(t) == Len(t.nodes) - t.start
Raised(t) == IF Width(t) <= 1 THEN t ELSE LevelAbove(t)

\* A level is added until the last one has one node.
LEMMA RaisedGrows ==
    ASSUME NEW boxes \in Seq(Rects), NEW file, NEW t \in Growing(file, boxes)
    PROVE  /\ Raised(t) \in Growing(file, boxes)
           /\ Width(t) \in Nat /\ Width(t) >= 1 /\ Width(Raised(t)) \in Nat
           /\ Width(t) <= 1 => Raised(t) = t
           /\ Width(t) > 1 => Width(Raised(t)) < Width(t)
<1>1. t \in [nodes : Seq(NodeType), start : Nat] /\ t = [nodes |-> t.nodes, start |-> t.start]
  BY DEF Growing
<1>2. PICK part : Grown(file, boxes, t.nodes, t.start, part)
  BY DEF Growing
<1>3. t.start \in 0..Len(t.nodes) - 1 /\ Len(t.nodes) \in Nat
  BY <1>1, <1>2 DEF Grown
<1>4. Width(t) \in Nat /\ Width(t) >= 1
  BY <1>3 DEF Width
<1>5. CASE Width(t) <= 1
  <2>1. Raised(t) = t
    BY <1>5 DEF Raised
  <2>2. QED
    BY <2>1, <1>4, <1>5
<1>6. CASE Width(t) > 1
  <2> DEFINE above == LevelAbove(t)
  <2>1. Raised(t) = above
    BY <1>4, <1>6 DEF Raised
  <2>2. /\ above = [nodes |-> above.nodes, start |-> Len(t.nodes)]
        /\ \E parts : Grown(file, boxes, above.nodes, Len(t.nodes), parts)
        /\ Len(above.nodes) - Len(t.nodes) < Len(t.nodes) - t.start
    <3>1. Len(t.nodes) - t.start > 1
      BY <1>6 DEF Width
    <3>2. LET up == LevelAbove([nodes |-> t.nodes, start |-> t.start])
          IN  /\ up = [nodes |-> up.nodes, start |-> Len(t.nodes)]
              /\ \E parts : Grown(file, boxes, up.nodes, Len(t.nodes), parts)
              /\ Len(up.nodes) - Len(t.nodes) < Len(t.nodes) - t.start
      BY <3>1, <1>2, NextLevel
    <3>3. QED
      BY <3>2, <1>1
  <2> HIDE DEF above
  <2>3. above.start = Len(t.nodes)
    BY <2>2
  <2>4. above.nodes \in Seq(NodeType)
    BY <2>2 DEF Grown
  <2>5. above \in Growing(file, boxes)
    BY <2>2, <2>3, <2>4, <1>3 DEF Growing
  <2>6. Width(above) < Width(t)
    BY <2>2, <2>3 DEF Width
  <2>7. Width(above) \in Nat
    <3>1. PICK parts : Grown(file, boxes, above.nodes, Len(t.nodes), parts)
      BY <2>2
    <3>2. Len(t.nodes) \in 0..Len(above.nodes) - 1 /\ Len(above.nodes) \in Nat
      BY <3>1, <2>4 DEF Grown
    <3>3. QED
      BY <3>2, <2>3, <1>3 DEF Width
  <2>8. QED
    BY <2>1, <2>5, <2>6, <2>7, <1>4, <1>6
<1>7. QED
  BY <1>4, <1>5, <1>6

\* In the end all objects belong to the last node.
LEMMA LevelsEnd ==
    ASSUME NEW boxes \in Seq(Rects), NEW file, LeafFile(file, boxes), file # << >>
    PROVE  LET nodes == buildLevels(LeafNodes(file))
           IN  \E part : Grown(file, boxes, nodes, Len(nodes) - 1, part)
<1> DEFINE first == LeafNodes(file)
           n == Len(first)
           V == Growing(file, boxes)
           base == [nodes |-> first, start |-> 0]
           W == CHOOSE iter : iter = [s \in SUBSET (DOMAIN first) |->
                    IF s = {} THEN base
                    ELSE LET x == Max(s)
                         IN  IF Len(iter[s \ {x}].nodes) - iter[s \ {x}].start <= 1
                             THEN iter[s \ {x}] ELSE LevelAbove(iter[s \ {x}])]
           step == [a \in V \X (1..n) |-> Raised(a[1])]
<1>1. PICK part : Grown(file, boxes, first, 0, part)
  BY FirstLevel
<1>2. first \in Seq(NodeType) /\ n \in Nat /\ DOMAIN first = 1..n
  <2>1. first \in Seq(NodeType)
    BY <1>1 DEF Grown
  <2>2. QED
    BY <2>1
<1>3. base \in V
  BY <1>1, <1>2 DEF Growing
<1>4. buildLevels(first) = W[DOMAIN first].nodes
  BY DEF buildLevels, FoldLeft, MapThenFoldSet
<1> HIDE DEF first, n, V, base
<1>5. \A a \in V : Raised(a) \in V
  BY RaisedGrows DEF V
<1>6. step \in [V \X (1..n) -> V]
  BY <1>5
<1>7. PICK it \in [SUBSET (1..n) -> V] : FoldsBy(it, n, base, step)
  <2> HIDE DEF step
  <2>1. QED
    BY <1>2, <1>3, <1>6, FoldExists
<1>8. ASSUME NEW s \in SUBSET (1..n), s # {}
      PROVE  step[<<it[s \ {Max(s)}], Max(s)>>] = Raised(it[s \ {Max(s)}])
  BY <1>8, <1>2, MaxOfSome
<1>9. it = [s \in SUBSET (1..n) |-> IF s = {} THEN base ELSE Raised(it[s \ {Max(s)}])]
  <2> HIDE DEF step
  <2>1. QED
    BY <1>7, <1>8 DEF FoldsBy
<1>10. W = [s \in SUBSET (1..n) |-> IF s = {} THEN base ELSE Raised(W[s \ {Max(s)}])]
  BY <1>9, <1>2 DEF Raised, Width
<1> HIDE DEF W
<1>11. W[{}] = base
  BY <1>10
<1>12. ASSUME NEW s \in SUBSET (1..n), s # {}, W[s \ {Max(s)}] \in V
       PROVE  W[s] = step[<<W[s \ {Max(s)}], Max(s)>>]
  <2>1. W[s] = Raised(W[s \ {Max(s)}])
    BY <1>10, <1>12
  <2>2. Max(s) \in 1..n
    BY <1>2, <1>12, MaxOfSome
  <2>3. QED
    BY <2>1, <2>2, <1>12
<1>13. \A a \in V : \A i \in 1..n : step[<<a, i>>] = Raised(a)
  OBVIOUS
<1> HIDE DEF step
<1>14. PICK q : GoesBy(q, n, V, W[{}], step) /\ W[1..n] = q[n]
  <2>1. StepsBy(W, n, V, step)
    <3>1. W[{}] \in V
      BY <1>3, <1>11
    <3>2. QED
      BY <3>1, <1>2, <1>6, <1>12 DEF StepsBy
  <2>2. QED
    BY <2>1, FoldPlaces
<1>15. q \in [0..n -> V] /\ q[0] = base
  BY <1>11, <1>14 DEF GoesBy
<1>16. \A k \in 0..n - 1 : q[k + 1] = Raised(q[k])
  <2> SUFFICES ASSUME NEW k \in 0..n - 1 PROVE q[k + 1] = Raised(q[k])
    OBVIOUS
  <2>1. q[k + 1] = step[<<q[k], k + 1>>]
    BY <1>14 DEF GoesBy
  <2>2. k \in 0..n /\ k + 1 \in 1..n
    BY <1>2
  <2>3. q[k] \in V
    BY <2>2, <1>15
  <2>4. QED
    BY <2>1, <2>2, <2>3, <1>13
<1> DEFINE S == {k \in Nat : k <= n => Width(q[k]) <= 1 \/ Width(q[k]) <= n - k}
<1>17. 0 \in S
  <2>1. Width(base) = n
    BY <1>2 DEF Width, base, n
  <2>2. QED
    BY <2>1, <1>2, <1>15
<1>18. ASSUME NEW k \in S PROVE k + 1 \in S
  <2>1. k \in Nat
    OBVIOUS
  <2> SUFFICES ASSUME k + 1 <= n
               PROVE  Width(q[k + 1]) <= 1 \/ Width(q[k + 1]) <= n - (k + 1)
    BY <2>1
  <2>2. k \in 0..n - 1 /\ k <= n /\ k \in 0..n
    BY <2>1, <1>2
  <2>3. Width(q[k]) <= 1 \/ Width(q[k]) <= n - k
    BY <2>2
  <2> HIDE DEF S
  <2> DEFINE t == q[k]
  <2>4. t \in Growing(file, boxes) /\ q[k + 1] = Raised(t)
    BY <2>2, <1>15, <1>16 DEF V
  <2> HIDE DEF t
  <2>5. /\ Width(t) \in Nat /\ Width(Raised(t)) \in Nat
        /\ Width(t) <= 1 => Raised(t) = t
        /\ Width(t) > 1 => Width(Raised(t)) < Width(t)
    BY <2>4, RaisedGrows
  <2>6. CASE Width(t) <= 1
    BY <2>4, <2>5, <2>6
  <2>7. CASE Width(t) > 1
    <3>1. Width(t) <= n - k
      BY <2>3, <2>5, <2>7 DEF t
    <3>2. Width(Raised(t)) < Width(t)
      BY <2>5, <2>7
    <3>3. Width(Raised(t)) <= n - (k + 1)
      BY <3>1, <3>2, <2>1, <2>5, <1>2
    <3>4. QED
      BY <3>3, <2>4
  <2>8. QED
    BY <2>5, <2>6, <2>7
<1> HIDE DEF S
<1>19. S = Nat
  <2>1. S \subseteq Nat
    BY DEF S
  <2>2. QED
    BY <2>1, <1>17, <1>18, SetInduction
<1> DEFINE t == q[n]
<1>20. Width(t) <= 1 \/ Width(t) <= n - n
  BY <1>2, <1>19 DEF S
<1>21. t \in Growing(file, boxes) /\ buildLevels(first) = t.nodes
  <2>1. n \in 0..n
    BY <1>2
  <2>2. QED
    BY <2>1, <1>2, <1>4, <1>14, <1>15 DEF V
<1> HIDE DEF t
<1>22. Width(t) = 1
  <2>1. Width(t) \in Nat /\ Width(t) >= 1
    BY <1>21, RaisedGrows
  <2>2. QED
    BY <2>1, <1>20, <1>2
<1>23. PICK parts : Grown(file, boxes, t.nodes, t.start, parts)
  BY <1>21 DEF Growing
<1>24. t.start = Len(t.nodes) - 1
  <2>1. t.start \in Nat /\ Len(t.nodes) \in Nat
    BY <1>21 DEF Growing
  <2>2. QED
    BY <2>1, <1>22 DEF Width
<1>25. QED
  BY <1>21, <1>23, <1>24 DEF first

-----------------------------------------------------------------------------
(* The tree that is searched.                                              *)

\* The objects behind a place of a node, now that the root is the first one.
Below(tree, file, part, idx, j) ==
    IF isLeaf(tree[idx + 1]) THEN IdsOf(readLeaf(tree, file, idx, j - 1))
                             ELSE part[tree[idx + 1].children[j]]

\* A node's place is a leaf, or a node that comes later.
BranchOK(tree, file, boxes, part, idx) ==
    LET node == tree[idx + 1]
        n == Len(node.bounds)
    IN  /\ n # 0
        /\ \A j \in 1..n : IF isLeaf(node) THEN LeafOK(readLeaf(tree, file, idx, j - 1), boxes)
                                           ELSE node.children[j] \in idx + 1..Len(tree) - 1
        /\ \A j \in 1..n : Below(tree, file, part, idx, j) # {}
        /\ \A j \in 1..n : \A x \in Below(tree, file, part, idx, j) :
             x \in 0..Len(boxes) - 1 /\ contains(node.bounds[j], boxes[x + 1])
        /\ \A i, j \in 1..n : i # j =>
             Below(tree, file, part, idx, i) \cap Below(tree, file, part, idx, j) = {}
        /\ \A x \in 0..Len(boxes) - 1 :
             x \in part[idx] <=> \E j \in 1..n : x \in Below(tree, file, part, idx, j)

\* All objects belong to the root.
TreeOK(tree, file, boxes, part) ==
    /\ tree \in Seq(NodeType) /\ tree # << >>
    /\ part \in [0..Len(tree) - 1 -> SUBSET (0..Len(boxes) - 1)]
    /\ part[0] = 0..Len(boxes) - 1
    /\ \A idx \in 0..Len(tree) - 1 : BranchOK(tree, file, boxes, part, idx)

TurnedNode(tree, node) ==
    IF isLeaf(node) THEN node
    ELSE [node EXCEPT !.children =
            [j \in DOMAIN node.children |-> Len(tree) - 1 - node.children[j]]]

\* Where the tree is read, the leaf of a node is found by the node's place.
LEMMA ReadsLeaf ==
    ASSUME NEW tree, NEW file, NEW n \in Nat, Len(tree) = n, NEW idx \in 0..n - 1, NEW j \in Nat
    PROVE  readLeaf(tree, file, idx, j - 1) = file[((n - idx) - 1) * NUM_CHILDREN + j]
<1> DEFINE a == (n - 1 - idx) * NUM_CHILDREN
<1>0. NUM_CHILDREN \in Nat
  BY TreeAssumption
<1>1. n - 1 - idx = (n - idx) - 1 /\ n - 1 - idx \in Int
  OBVIOUS
<1>2. readLeaf(tree, file, idx, j - 1) = file[a + (j - 1) + 1]
  BY DEF readLeaf
<1>3. a \in Int
  BY <1>0, <1>1
<1>4. a = ((n - idx) - 1) * NUM_CHILDREN
  BY <1>1
<1> HIDE DEF a
<1>5. a + (j - 1) + 1 = a + j
  BY <1>3
<1>6. QED
  BY <1>2, <1>4, <1>5

LEMMA TurnedTree ==
    ASSUME NEW boxes \in Seq(Rects), NEW file, LeafFile(file, boxes), NEW nodes, NEW part,
           Grown(file, boxes, nodes, Len(nodes) - 1, part)
    PROVE  \E parts : TreeOK(Turned(nodes), file, boxes, parts)
<1> DEFINE S == 0..Len(boxes) - 1
           n == Len(nodes)
           tree == Turned(nodes)
           parts == [idx \in 0..n - 1 |-> part[n - idx]]
<1>1. /\ nodes \in Seq(NodeType) /\ n \in Nat /\ n # 0 /\ DOMAIN nodes = 1..n
      /\ part \in [1..n -> SUBSET S]
      /\ \A k \in 1..n : nodes[k] \in NodeType /\ NodeOK(file, boxes, part, nodes, k)
      /\ \A x \in S : x \in part[n]
  <2> HIDE DEF tree, parts
  <2>1. nodes \in Seq(NodeType) /\ n - 1 \in 0..n - 1 /\ part \in [1..n -> SUBSET S]
    BY DEF Grown
  <2>2. n \in Nat /\ n # 0 /\ DOMAIN nodes = 1..n /\ \A k \in 1..n : nodes[k] \in NodeType
    BY <2>1
  <2>3. \A k \in 1..n : NodeOK(file, boxes, part, nodes, k)
    BY DEF Grown
  <2>4. \A x \in S : \E k \in (n - 1) + 1..n : x \in part[k]
    BY DEF Grown
  <2> HIDE DEF n, S
  <2>5. ASSUME NEW x \in S PROVE x \in part[n]
    <3>1. PICK k \in (n - 1) + 1..n : x \in part[k]
      BY <2>4
    <3>2. k = n
      BY <2>2
    <3>3. QED
      BY <3>1, <3>2
  <2>6. QED
    BY <2>1, <2>2, <2>3, <2>5
<1>2. tree = [i \in 1..n |-> TurnedNode(nodes, nodes[n + 1 - i])]
  BY <1>1 DEF Turned, TurnedNode
<1> HIDE DEF tree, n
<1>3. ASSUME NEW k \in 1..n
      PROVE  /\ TurnedNode(nodes, nodes[k]) \in NodeType
             /\ TurnedNode(nodes, nodes[k]).bounds = nodes[k].bounds
             /\ isLeaf(TurnedNode(nodes, nodes[k])) <=> isLeaf(nodes[k])
             /\ ~isLeaf(nodes[k]) => \A j \in 1..Len(nodes[k].bounds) :
                  /\ TurnedNode(nodes, nodes[k]).children[j] = n - 1 - nodes[k].children[j]
                  /\ nodes[k].children[j] \in 0..k - 2
  <2> DEFINE node == nodes[k]
             ch == node.children
             m == Len(node.bounds)
  <2>1. node \in NodeType /\ NodeOK(file, boxes, part, nodes, k)
    BY <1>1
  <2>2. m # 0 /\ Len(ch) = m /\ \A j \in 1..m : PlaceOK(file, nodes, k, j)
    BY <2>1 DEF NodeOK
  <2>3. node.bounds \in Seq(Rects) /\ ch \in Seq(Int) /\ DOMAIN ch = 1..m /\ m \in Nat
    BY <2>1, <2>2 DEF NodeType
  <2>4. CASE isLeaf(node)
    BY <2>1, <2>4 DEF TurnedNode
  <2>5. CASE ~isLeaf(node)
    <3> DEFINE new == [j \in 1..m |-> n - 1 - ch[j]]
    <3>1. TurnedNode(nodes, node) = [node EXCEPT !.children = new]
      BY <2>3, <2>5 DEF TurnedNode, n
    <3>2. \A j \in 1..m : ch[j] \in 0..k - 2
      BY <2>2, <2>5 DEF PlaceOK
    <3>3. new \in [1..m -> Int]
      <4>1. \A j \in 1..m : n - 1 - ch[j] \in Int
        BY <3>2, <1>1
      <4>2. QED
        BY <4>1
    <3>4. new[1] # -1 /\ \A j \in 1..m : new[j] = n - 1 - ch[j]
      <4>1. 1 \in 1..m
        BY <2>2, <2>3
      <4>2. ch[1] \in 0..k - 2
        BY <3>2, <4>1
      <4>3. n - 1 - ch[1] # -1
        BY <4>2, <1>1
      <4>4. QED
        BY <4>1, <4>3
    <3> HIDE DEF new, ch, m, node
    <3>5. new \in Seq(Int)
      BY <2>3, <3>3, FunctionSeq
    <3>6. /\ TurnedNode(nodes, node) \in NodeType
          /\ TurnedNode(nodes, node).bounds = node.bounds
          /\ TurnedNode(nodes, node).children = new
      BY <2>1, <3>1, <3>5 DEF NodeType
    <3>7. ~isLeaf(TurnedNode(nodes, node))
      BY <3>4, <3>6 DEF isLeaf
    <3>8. QED
      BY <2>5, <3>2, <3>4, <3>6, <3>7 DEF node, m, ch
  <2>6. QED
    BY <2>4, <2>5
<1>4. tree \in Seq(NodeType) /\ Len(tree) = n
      /\ \A idx \in 0..n - 1 : tree[idx + 1] = TurnedNode(nodes, nodes[n - idx])
  <2>1. \A i \in 1..n : n + 1 - i \in 1..n
    BY <1>1
  <2>2. tree \in [1..n -> NodeType]
    BY <2>1, <1>2, <1>3
  <2>3. \A idx \in 0..n - 1 : idx + 1 \in 1..n /\ n + 1 - (idx + 1) = n - idx
    BY <1>1
  <2>4. \A idx \in 0..n - 1 : tree[idx + 1] = TurnedNode(nodes, nodes[n - idx])
    BY <2>3, <1>2
  <2>5. QED
    BY <2>2, <2>4, <1>1, FunctionSeq
<1>5. /\ parts \in [0..n - 1 -> SUBSET S] /\ parts[0] = S
      /\ \A idx \in 0..n - 1 : parts[idx] = part[n - idx] /\ n - idx \in 1..n
  <2>1. \A idx \in 0..n - 1 : n - idx \in 1..n
    BY <1>1
  <2>2. parts \in [0..n - 1 -> SUBSET S] /\ \A idx \in 0..n - 1 : parts[idx] = part[n - idx]
    BY <2>1, <1>1
  <2>3. 0 \in 0..n - 1 /\ n - 0 = n /\ n \in 1..n
    BY <1>1
  <2>4. parts[0] = part[n]
    BY <2>2, <2>3
  <2>5. part[n] = S
    BY <2>3, <1>1
  <2>6. QED
    BY <2>1, <2>2, <2>4, <2>5
<1> HIDE DEF parts
<1>6. ASSUME NEW idx \in 0..n - 1 PROVE BranchOK(tree, file, boxes, parts, idx)
  <2> DEFINE k == n - idx
             node == tree[idx + 1]
             m == Len(nodes[k].bounds)
  <2>1. k \in 1..n /\ parts[idx] = part[k] /\ k = n - idx
    BY <1>5
  <2>2. node = TurnedNode(nodes, nodes[k]) /\ NodeOK(file, boxes, part, nodes, k)
    BY <2>1, <1>1, <1>4
  <2> HIDE DEF k
  <2>3. /\ m # 0
        /\ \A j \in 1..m : PlaceOK(file, nodes, k, j)
        /\ \A j \in 1..m : Behind(file, part, nodes, k, j) # {}
        /\ \A j \in 1..m : \A x \in Behind(file, part, nodes, k, j) :
             x \in S /\ contains(nodes[k].bounds[j], boxes[x + 1])
        /\ \A i, j \in 1..m : i # j =>
             Behind(file, part, nodes, k, i) \cap Behind(file, part, nodes, k, j) = {}
        /\ \A x \in S : x \in part[k] <=> \E j \in 1..m : x \in Behind(file, part, nodes, k, j)
    BY <2>2 DEF NodeOK
  <2>4. /\ node.bounds = nodes[k].bounds
        /\ isLeaf(node) <=> isLeaf(nodes[k])
        /\ ~isLeaf(nodes[k]) => \A j \in 1..m : /\ node.children[j] = n - 1 - nodes[k].children[j]
                                                /\ nodes[k].children[j] \in 0..k - 2
    BY <2>1, <2>2, <1>3
  <2>5. Len(node.bounds) = m
    BY <2>4
  <2> HIDE DEF node, m
  <2>6. ASSUME NEW j \in 1..m
        PROVE  /\ Below(tree, file, parts, idx, j) = Behind(file, part, nodes, k, j)
               /\ IF isLeaf(node) THEN LeafOK(readLeaf(tree, file, idx, j - 1), boxes)
                                  ELSE node.children[j] \in idx + 1..n - 1
    <3>0. j \in Nat
      <4>1. m \in Nat
        BY <2>1, <1>1 DEF m, NodeType
      <4>2. QED
        BY <4>1
    <3>1. CASE isLeaf(node)
      <4> DEFINE a == (k - 1) * NUM_CHILDREN + j
      <4>1. readLeaf(tree, file, idx, j - 1) = file[a]
        BY <3>0, <1>1, <1>4, <2>1, ReadsLeaf
      <4>2. a \in 1..Len(file)
        BY <3>1, <2>3, <2>4 DEF PlaceOK
      <4>3. Behind(file, part, nodes, k, j) = IdsOf(file[a])
        BY <3>1, <2>4 DEF Behind
      <4>4. Below(tree, file, parts, idx, j) = IdsOf(file[a])
        BY <3>1, <4>1 DEF Below, node
      <4> HIDE DEF a
      <4>5. LeafOK(file[a], boxes)
        BY <4>2 DEF LeafFile
      <4>6. QED
        BY <3>1, <4>1, <4>3, <4>4, <4>5
    <3>2. CASE ~isLeaf(node)
      <4> DEFINE c == nodes[k].children[j]
      <4>1. node.children[j] = n - 1 - c /\ c \in 0..k - 2
        BY <3>2, <2>4
      <4>2. Behind(file, part, nodes, k, j) = part[c + 1]
        BY <3>2, <2>4 DEF Behind
      <4>3. Below(tree, file, parts, idx, j) = parts[node.children[j]]
        BY <3>2 DEF Below, node
      <4> HIDE DEF c
      <4>4. /\ n - 1 - c \in idx + 1..n - 1 /\ n - 1 - c \in 0..n - 1
            /\ n - (n - 1 - c) = c + 1
        BY <4>1, <2>1, <1>1
      <4>5. parts[n - 1 - c] = part[c + 1]
        <5>1. parts[n - 1 - c] = part[n - (n - 1 - c)]
          BY <4>4, <1>5
        <5>2. QED
          BY <5>1, <4>4
      <4>6. QED
        BY <3>2, <4>1, <4>2, <4>3, <4>4, <4>5
    <3>3. QED
      BY <3>1, <3>2
  <2>7. \A j \in 1..m : IF isLeaf(node) THEN LeafOK(readLeaf(tree, file, idx, j - 1), boxes)
                                        ELSE node.children[j] \in idx + 1..Len(tree) - 1
    BY <2>6, <1>4
  <2>8. \A j \in 1..m : Below(tree, file, parts, idx, j) # {}
    BY <2>3, <2>6
  <2>9. ASSUME NEW j \in 1..m, NEW x \in Below(tree, file, parts, idx, j)
        PROVE  x \in S /\ contains(node.bounds[j], boxes[x + 1])
    BY <2>3, <2>4, <2>6
  <2>10. \A i, j \in 1..m : i # j =>
            Below(tree, file, parts, idx, i) \cap Below(tree, file, parts, idx, j) = {}
    BY <2>3, <2>6
  <2>11. \A x \in S : x \in parts[idx] <=> \E j \in 1..m : x \in Below(tree, file, parts, idx, j)
    BY <2>1, <2>3, <2>6
  <2>12. QED
    BY <2>3, <2>5, <2>7, <2>8, <2>9, <2>10, <2>11 DEF BranchOK, node
<1>7. tree # << >>
  BY <1>1, <1>4
<1>8. TreeOK(tree, file, boxes, parts)
  BY <1>4, <1>5, <1>6, <1>7 DEF TreeOK
<1>9. QED
  BY <1>8 DEF tree

\* What is built of some boxes is a tree of them all.
LEMMA BuiltTree ==
    ASSUME NEW boxes \in Seq(Rects), boxes # << >>
    PROVE  \E part : TreeOK(build(boxes).tree, build(boxes).leaves, boxes, part)
<1> DEFINE file == Leaves(boxes)
           nodes == buildLevels(LeafNodes(file))
<1>1. LeafFile(file, boxes) /\ file # << >>
  BY LeavesAreWritten
<1>2. Stored(Leaves(Stored(boxes))) = file
  <2>1. Stored(boxes) = boxes
    BY StoredSame
  <2>2. file \in Seq(LeafType)
    BY <1>1 DEF LeafFile
  <2>3. QED
    BY <2>1, <2>2, StoredSame
<1>3. build(boxes) = [tree |-> Turned(nodes), leaves |-> file]
  BY <1>2 DEF build
<1> HIDE DEF file
<1>4. PICK part : Grown(file, boxes, nodes, Len(nodes) - 1, part)
  BY <1>1, LevelsEnd
<1> HIDE DEF nodes
<1>5. \E parts : TreeOK(Turned(nodes), file, boxes, parts)
  BY <1>1, <1>4, TurnedTree
<1>6. QED
  BY <1>3, <1>5

-----------------------------------------------------------------------------
(* The search in a leaf.                                                   *)

\* A list with one more.
LEMMA AppendLists ==
    ASSUME NEW S, NEW s, Lists(s, S), NEW x, x \notin S
    PROVE  Lists(Append(s, x), S \cup {x})
<1> DEFINE t == Append(s, x)
           n == Len(s)
           U == S \cup {x}
<1>1. s \in Seq(S) /\ n \in Nat /\ (\A y \in S : \E i \in 1..n : s[i] = y)
      /\ \A i, j \in 1..n : s[i] = s[j] => i = j
  BY DEF Lists
<1>2. s \in Seq(U) /\ x \in U
  BY <1>1, SeqOfElements
<1> HIDE DEF U
<1>3. t \in Seq(U) /\ Len(t) = n + 1 /\ t[n + 1] = x /\ \A i \in 1..n : t[i] = s[i]
  BY <1>2
<1>4. \A i \in 1..n : s[i] \in S
  BY <1>1
<1> HIDE DEF t, n
<1>5. ASSUME NEW y \in U PROVE \E i \in 1..n + 1 : t[i] = y
  <2>1. CASE y = x
    BY <2>1, <1>1, <1>3
  <2>2. CASE y \in S
    <3>1. PICK i \in 1..n : s[i] = y
      BY <2>2, <1>1
    <3>2. i \in 1..n + 1 /\ t[i] = y
      BY <3>1, <1>1, <1>3
    <3>3. QED
      BY <3>2
  <2>3. QED
    BY <2>1, <2>2 DEF U
<1>6. ASSUME NEW i \in 1..n + 1, NEW j \in 1..n + 1, t[i] = t[j] PROVE i = j
  <2>1. CASE i \in 1..n /\ j \in 1..n
    BY <2>1, <1>1, <1>3, <1>6
  <2>2. CASE i = n + 1 /\ j \in 1..n
    BY <2>2, <1>3, <1>4, <1>6
  <2>3. CASE i \in 1..n /\ j = n + 1
    BY <2>3, <1>3, <1>4, <1>6
  <2>4. CASE i = n + 1 /\ j = n + 1
    BY <2>4
  <2>5. QED
    BY <2>1, <2>2, <2>3, <2>4, <1>1
<1>7. QED
  BY <1>3, <1>5, <1>6 DEF Lists, t, U

LEMMA EmptyLists ==
    ASSUME NEW S, S = {}
    PROVE  Lists(<< >>, S)
  BY DEF Lists

\* The objects of a set that touch a rectangle.
Met(boxes, P, rect) == {x \in P : Touch(rect, boxes[x + 1])}

\* The search in a leaf finds each of its objects that touch the rectangle, once.
LEMMA LeafIsSearched ==
    ASSUME NEW boxes \in Seq(Rects), NEW leaf, LeafOK(leaf, boxes), NEW rect \in Rects
    PROVE  Lists(searchLeaf(leaf, rect), Met(boxes, IdsOf(leaf), rect))
<1> DEFINE ids == leaf.ids
           dat == leaf.data
           n == Len(ids)
           js == [j \in DOMAIN ids |-> j]
           V == Seq(Nat)
           goes(a, j) == IF intersects(rect, dat[j]) THEN Append(a, ids[j]) ELSE a
           W == CHOOSE iter : iter = [s \in SUBSET (DOMAIN js) |->
                    IF s = {} THEN << >>
                    ELSE LET x == Max(s)
                         IN  IF intersects(rect, leaf.data[js[x]])
                             THEN Append(iter[s \ {x}], leaf.ids[js[x]]) ELSE iter[s \ {x}]]
           step == [a \in V \X (1..n) |-> goes(a[1], a[2])]
<1>1. /\ leaf \in LeafType /\ Lists(ids, IdsOf(leaf)) /\ IdsOf(leaf) \subseteq 0..Len(boxes) - 1
      /\ Len(dat) = n /\ \A j \in 1..n : dat[j] = boxes[ids[j] + 1]
  BY DEF LeafOK
<1>2. ids \in Seq(Nat) /\ n \in Nat /\ DOMAIN ids = 1..n /\ \A j \in 1..n : ids[j] \in Nat
  BY <1>1 DEF LeafType
<1>3. DOMAIN js = 1..n /\ \A j \in 1..n : js[j] = j
  BY <1>2
<1>4. searchLeaf(leaf, rect) = W[DOMAIN js]
  BY DEF searchLeaf, FoldLeft, MapThenFoldSet
<1> HIDE DEF n, V, js
<1>5. \A a \in V : \A j \in 1..n : goes(a, j) \in V
  BY <1>2 DEF V
<1>6. << >> \in V
  BY DEF V
<1> HIDE DEF goes
<1>7. step \in [V \X (1..n) -> V]
  BY <1>5
<1>8. PICK it \in [SUBSET (1..n) -> V] : FoldsBy(it, n, << >>, step)
  <2> HIDE DEF step
  <2>1. QED
    BY <1>2, <1>6, <1>7, FoldExists
<1>9. ASSUME NEW s \in SUBSET (1..n), s # {}
      PROVE  step[<<it[s \ {Max(s)}], Max(s)>>] = goes(it[s \ {Max(s)}], Max(s))
  BY <1>9, <1>2, MaxOfSome
<1>10. it = [s \in SUBSET (1..n) |-> IF s = {} THEN << >> ELSE goes(it[s \ {Max(s)}], Max(s))]
  <2> HIDE DEF step
  <2>1. QED
    BY <1>8, <1>9 DEF FoldsBy
<1>11. ASSUME NEW f
       PROVE  [s \in SUBSET (DOMAIN js) |->
                 IF s = {} THEN << >>
                 ELSE LET x == Max(s)
                      IN  IF intersects(rect, leaf.data[js[x]])
                          THEN Append(f[s \ {x}], leaf.ids[js[x]]) ELSE f[s \ {x}]]
              = [s \in SUBSET (1..n) |-> IF s = {} THEN << >> ELSE goes(f[s \ {Max(s)}], Max(s))]
  <2>1. ASSUME NEW s \in SUBSET (1..n), s # {}
        PROVE  (LET x == Max(s)
                IN  IF intersects(rect, leaf.data[js[x]])
                    THEN Append(f[s \ {x}], leaf.ids[js[x]]) ELSE f[s \ {x}])
               = goes(f[s \ {Max(s)}], Max(s))
    <3>1. Max(s) \in 1..n
      BY <2>1, <1>2, MaxOfSome
    <3>2. js[Max(s)] = Max(s)
      BY <3>1, <1>3
    <3>3. QED
      BY <3>2 DEF goes
  <2>2. QED
    BY <2>1, <1>3
<1>12. W = [s \in SUBSET (1..n) |-> IF s = {} THEN << >> ELSE goes(W[s \ {Max(s)}], Max(s))]
  <2> DEFINE F(f) == [s \in SUBSET (DOMAIN js) |->
                 IF s = {} THEN << >>
                 ELSE LET x == Max(s)
                      IN  IF intersects(rect, leaf.data[js[x]])
                          THEN Append(f[s \ {x}], leaf.ids[js[x]]) ELSE f[s \ {x}]]
  <2>1. W = CHOOSE f : f = F(f)
    OBVIOUS
  <2>2. it = F(it)
    BY <1>10, <1>11
  <2> HIDE DEF W, F
  <2>3. W = F(W)
    BY <2>1, <2>2
  <2>4. QED
    BY <2>3, <1>11 DEF F
<1> HIDE DEF W
<1>13. W[{}] = << >>
  BY <1>12
<1>14. ASSUME NEW s \in SUBSET (1..n), s # {}, W[s \ {Max(s)}] \in V
       PROVE  W[s] = step[<<W[s \ {Max(s)}], Max(s)>>]
  <2>1. W[s] = goes(W[s \ {Max(s)}], Max(s))
    BY <1>12, <1>14
  <2>2. Max(s) \in 1..n
    BY <1>2, <1>14, MaxOfSome
  <2>3. QED
    BY <2>1, <2>2, <1>14
<1>15. \A a \in V : \A j \in 1..n : step[<<a, j>>] = goes(a, j)
  OBVIOUS
<1> HIDE DEF step
<1>16. PICK q : GoesBy(q, n, V, W[{}], step) /\ W[1..n] = q[n]
  <2>1. StepsBy(W, n, V, step)
    <3>1. W[{}] \in V
      BY <1>6, <1>13
    <3>2. QED
      BY <3>1, <1>2, <1>7, <1>14 DEF StepsBy
  <2>2. QED
    BY <2>1, FoldPlaces
<1>17. q \in [0..n -> V] /\ q[0] = << >>
  BY <1>13, <1>16 DEF GoesBy
<1>18. \A k \in 0..n - 1 : q[k + 1] = goes(q[k], k + 1)
  <2> SUFFICES ASSUME NEW k \in 0..n - 1 PROVE q[k + 1] = goes(q[k], k + 1)
    OBVIOUS
  <2>1. q[k + 1] = step[<<q[k], k + 1>>]
    BY <1>16 DEF GoesBy
  <2>2. k \in 0..n /\ k + 1 \in 1..n
    BY <1>2
  <2>3. q[k] \in V
    BY <2>2, <1>17
  <2>4. QED
    BY <2>1, <2>2, <2>3, <1>15
<1> DEFINE P(k) == {x \in Nat : \E j \in 1..k : ids[j] = x /\ intersects(rect, dat[j])}
           S == {k \in Nat : k <= n => Lists(q[k], P(k))}
<1> HIDE DEF P
<1>19. 0 \in S
  <2>1. P(0) = {}
    BY DEF P
  <2>2. Lists(q[0], P(0))
    BY <2>1, <1>17, EmptyLists
  <2>3. QED
    BY <2>2
<1>20. ASSUME NEW k \in S PROVE k + 1 \in S
  <2>1. k \in Nat
    OBVIOUS
  <2> SUFFICES ASSUME k + 1 <= n PROVE Lists(q[k + 1], P(k + 1))
    BY <2>1
  <2>2. k \in 0..n - 1 /\ k <= n /\ k + 1 \in 1..n
    BY <2>1, <1>2
  <2>3. Lists(q[k], P(k))
    BY <2>2
  <2> HIDE DEF S
  <2>4. q[k + 1] = goes(q[k], k + 1) /\ ids[k + 1] \in Nat
    BY <2>2, <1>2, <1>18
  <2>5. \A j \in 1..k + 1 : j \in 1..k \/ j = k + 1
    BY <2>1
  <2>6. \A j \in 1..k : j \in 1..k + 1 /\ j \in 1..n /\ j # k + 1
    BY <2>1, <2>2, <1>2
  <2>7. k + 1 \in 1..k + 1
    BY <2>1
  <2>8. CASE intersects(rect, dat[k + 1])
    <3>1. P(k + 1) = P(k) \cup {ids[k + 1]}
      BY <2>4, <2>5, <2>6, <2>7, <2>8 DEF P
    <3>2. ids[k + 1] \notin P(k)
      <4>1. \A j \in 1..k : ids[j] # ids[k + 1]
        BY <2>2, <2>6, <1>1 DEF Lists, n
      <4>2. QED
        BY <4>1 DEF P
    <3>3. q[k + 1] = Append(q[k], ids[k + 1])
      BY <2>4, <2>8 DEF goes
    <3>4. QED
      BY <3>1, <3>2, <3>3, <2>3, AppendLists
  <2>9. CASE ~intersects(rect, dat[k + 1])
    <3>1. P(k + 1) = P(k)
      BY <2>4, <2>5, <2>6, <2>9 DEF P
    <3>2. q[k + 1] = q[k]
      BY <2>4, <2>9 DEF goes
    <3>3. QED
      BY <3>1, <3>2, <2>3
  <2>10. QED
    BY <2>8, <2>9
<1> HIDE DEF S
<1>21. S = Nat
  <2>1. S \subseteq Nat
    BY DEF S
  <2>2. QED
    BY <2>1, <1>19, <1>20, SetInduction
<1>22. Lists(q[n], P(n))
  BY <1>2, <1>21 DEF S
<1>23. ASSUME NEW x PROVE x \in P(n) <=> x \in Met(boxes, IdsOf(leaf), rect)
  <2>1. ASSUME NEW j \in 1..n
        PROVE  /\ ids[j] \in IdsOf(leaf) /\ ids[j] \in Nat
               /\ intersects(rect, dat[j]) <=> Touch(rect, boxes[ids[j] + 1])
    <3>1. ids[j] \in IdsOf(leaf) /\ ids[j] \in Nat /\ dat[j] = boxes[ids[j] + 1]
      <4>1. ids \in Seq(IdsOf(leaf))
        BY <1>1 DEF Lists
      <4>2. ids[j] \in IdsOf(leaf)
        BY <4>1 DEF n
      <4>3. QED
        BY <4>2, <1>1, <1>2
    <3>2. boxes[ids[j] + 1] \in Rects
      <4>1. ids[j] \in 0..Len(boxes) - 1
        BY <3>1, <1>1
      <4>2. ids[j] + 1 \in 1..Len(boxes)
        BY <4>1
      <4>3. QED
        BY <4>2
    <3>3. QED
      BY <3>1, <3>2, RectangleTests
  <2>2. \A y \in IdsOf(leaf) : \E j \in 1..n : ids[j] = y
    BY <1>1 DEF Lists, n
  <2>3. QED
    BY <2>1, <2>2 DEF Met, P
<1>24. P(n) = Met(boxes, IdsOf(leaf), rect)
  BY <1>23
<1>25. searchLeaf(leaf, rect) = q[n]
  BY <1>3, <1>4, <1>16
<1>26. QED
  BY <1>22, <1>24, <1>25

-----------------------------------------------------------------------------
(* A walk down the tree: at some places of the nodes it goes on to the     *)
(* child, at the others it takes what it is given there.                   *)

Places(tree) ==
    {p \in (0..Len(tree) - 1) \X Nat : p[2] \in 1..Len(tree[p[1] + 1].bounds)}
Walk(tree, Go, Take, f, idx) ==
    FlattenSeq([i \in 1..Len(tree[idx + 1].bounds) |->
                  IF <<idx, i>> \in Go THEN f[tree[idx + 1].children[i]] ELSE Take[<<idx, i>>]])
Walks(tree, Go, Take, f) == f = [idx \in 0..Len(tree) - 1 |-> Walk(tree, Go, Take, f, idx)]
\* It goes on only where there is a child.
CanWalk(tree, Go, Take) ==
    /\ Go \subseteq {p \in Places(tree) : ~isLeaf(tree[p[1] + 1])}
    /\ Take \in [Places(tree) -> Seq(Nat)]

\* What is known of a place of the tree.
LEMMA PlaceInTree ==
    ASSUME NEW boxes \in Seq(Rects), NEW tree, NEW file, NEW part,
           TreeOK(tree, file, boxes, part), NEW idx \in 0..Len(tree) - 1
    PROVE  /\ Len(tree) \in Nat \ {0} /\ tree[idx + 1] \in NodeType
           /\ tree[idx + 1].bounds \in Seq(Rects) /\ Len(tree[idx + 1].bounds) \in Nat \ {0}
           /\ \A i \in 1..Len(tree[idx + 1].bounds) :
                /\ <<idx, i>> \in Places(tree) /\ tree[idx + 1].bounds[i] \in Rects
                /\ isLeaf(tree[idx + 1]) =>
                     LeafOK(readLeaf(tree, file, idx, i - 1), boxes)
                /\ ~isLeaf(tree[idx + 1]) =>
                     /\ tree[idx + 1].children[i] \in idx + 1..Len(tree) - 1
                     /\ tree[idx + 1].children[i] \in 0..Len(tree) - 1
<1> DEFINE n == Len(tree)
           node == tree[idx + 1]
           m == Len(node.bounds)
<1>1. tree \in Seq(NodeType) /\ tree # << >> /\ BranchOK(tree, file, boxes, part, idx)
  BY DEF TreeOK
<1>2. n \in Nat \ {0} /\ idx + 1 \in 1..n
  BY <1>1
<1>3. node \in NodeType
  BY <1>1, <1>2
<1>4. node.bounds \in Seq(Rects)
  BY <1>3 DEF NodeType
<1>5. m \in Nat /\ \A i \in 1..m : node.bounds[i] \in Rects
  BY <1>4
<1>6. m # 0 /\ \A j \in 1..m : IF isLeaf(node) THEN LeafOK(readLeaf(tree, file, idx, j - 1), boxes)
                                           ELSE node.children[j] \in idx + 1..n - 1
  BY <1>1 DEF BranchOK
<1>7. \A i \in 1..m : <<idx, i>> \in Places(tree)
  BY <1>5 DEF Places
<1> HIDE DEF n, node, m
<1>8. \A i \in 1..m : ~isLeaf(node) => /\ node.children[i] \in idx + 1..n - 1
                                        /\ node.children[i] \in 0..n - 1
  BY <1>2, <1>6 DEF n
<1>9. QED
  BY <1>2, <1>3, <1>4, <1>5, <1>6, <1>7, <1>8 DEF n, node, m

\* What a walk makes of a node are whole numbers, and only what it made of later nodes counts.
LEMMA WalkNode ==
    ASSUME NEW boxes \in Seq(Rects), NEW tree, NEW file, NEW part,
           TreeOK(tree, file, boxes, part), NEW Go, NEW Take, CanWalk(tree, Go, Take),
           NEW idx \in 0..Len(tree) - 1, NEW f \in [0..Len(tree) - 1 -> Seq(Nat)]
    PROVE  /\ Walk(tree, Go, Take, f, idx) \in Seq(Nat)
           /\ \A g \in [0..Len(tree) - 1 -> Seq(Nat)] :
                (\A j \in idx + 1..Len(tree) - 1 : f[j] = g[j]) =>
                  Walk(tree, Go, Take, f, idx) = Walk(tree, Go, Take, g, idx)
<1> DEFINE n == Len(tree)
           node == tree[idx + 1]
           m == Len(node.bounds)
           piece(h) == [i \in 1..m |-> IF <<idx, i>> \in Go THEN h[node.children[i]]
                                                            ELSE Take[<<idx, i>>]]
<1>1. /\ m \in Nat
      /\ \A i \in 1..m :
           /\ <<idx, i>> \in Places(tree)
           /\ ~isLeaf(node) => node.children[i] \in idx + 1..n - 1 /\ node.children[i] \in 0..n - 1
  BY PlaceInTree
<1>2. \A i \in 1..m : <<idx, i>> \in Go => ~isLeaf(node)
  <2> SUFFICES ASSUME NEW i \in 1..m, <<idx, i>> \in Go PROVE ~isLeaf(node)
    OBVIOUS
  <2> DEFINE p == <<idx, i>>
  <2>1. p \in {r \in Places(tree) : ~isLeaf(tree[r[1] + 1])}
    BY DEF CanWalk
  <2>2. ~isLeaf(tree[p[1] + 1])
    BY <2>1
  <2>3. QED
    BY <2>2
<1>3. \A i \in 1..m : Take[<<idx, i>>] \in Seq(Nat)
  BY <1>1 DEF CanWalk
<1>4. \A h : Walk(tree, Go, Take, h, idx) = FlattenSeq(piece(h))
  BY DEF Walk
<1> HIDE DEF node, m, n
<1>5. piece(f) \in Seq(Seq(Nat))
  <2>1. \A i \in 1..m : <<idx, i>> \in Go => f[node.children[i]] \in Seq(Nat)
    BY <1>1, <1>2 DEF n
  <2>2. piece(f) \in [1..m -> Seq(Nat)]
    BY <2>1, <1>3
  <2> HIDE DEF piece
  <2>3. QED
    BY <2>2, <1>1, FunctionSeq
<1>6. ASSUME NEW g \in [0..Len(tree) - 1 -> Seq(Nat)],
             \A j \in idx + 1..Len(tree) - 1 : f[j] = g[j]
      PROVE  piece(f) = piece(g)
  <2>1. \A i \in 1..m : <<idx, i>> \in Go => f[node.children[i]] = g[node.children[i]]
    BY <1>1, <1>2, <1>6 DEF n
  <2>2. QED
    BY <2>1
<1> HIDE DEF piece
<1>7. FlattenSeq(piece(f)) \in Seq(Nat)
  BY <1>5, FlattenPlaces
<1>8. QED
  BY <1>4, <1>6, <1>7

\* There is a walk.
LEMMA WalkExists ==
    ASSUME NEW boxes \in Seq(Rects), NEW tree, NEW file, NEW part,
           TreeOK(tree, file, boxes, part), NEW Go, NEW Take, CanWalk(tree, Go, Take)
    PROVE  \E f \in [0..Len(tree) - 1 -> Seq(Nat)] : Walks(tree, Go, Take, f)
<1> DEFINE n == Len(tree)
           V == Seq(Nat)
           F == [0..n - 1 -> V]
           step == [a \in (0..n - 1) \X F |-> Walk(tree, Go, Take, a[2], a[1])]
<1>1. n \in Nat
  BY DEF TreeOK
<1>2. V # {}
  <2>1. << >> \in V
    OBVIOUS
  <2>2. QED
    BY <2>1
<1>3. \A i \in 0..n - 1 : \A f \in F : Walk(tree, Go, Take, f, i) \in V
  BY WalkNode
<1>4. \A i \in 0..n - 1 : \A f, g \in F :
         (\A j \in i + 1..n - 1 : f[j] = g[j]) =>
           Walk(tree, Go, Take, f, i) = Walk(tree, Go, Take, g, i)
  <2>1. ASSUME NEW i \in 0..n - 1, NEW f \in F
        PROVE  \A g \in F : (\A j \in i + 1..n - 1 : f[j] = g[j]) =>
                              Walk(tree, Go, Take, f, i) = Walk(tree, Go, Take, g, i)
    BY WalkNode
  <2> HIDE DEF F, n
  <2>2. QED
    BY <2>1
<1> HIDE DEF n, V
<1>5. step \in [(0..n - 1) \X F -> V]
  BY <1>3
<1>6. \A i \in 0..n - 1 : \A f \in F : step[<<i, f>>] = Walk(tree, Go, Take, f, i)
  OBVIOUS
<1>7. \A i \in 0..n - 1 : \A f, g \in [0..n - 1 -> V] :
         (\A j \in i + 1..n - 1 : f[j] = g[j]) => step[<<i, f>>] = step[<<i, g>>]
  BY <1>4, <1>6
<1> HIDE DEF step
<1>8. PICK f \in [0..n - 1 -> V] : \A i \in 0..n - 1 : f[i] = step[<<i, f>>]
  <2>1. step \in [(0..n - 1) \X [0..n - 1 -> V] -> V]
    BY <1>5
  <2>2. Descends(n, V, step)
    BY <2>1, <1>1, <1>2, <1>7 DEF Descends
  <2>3. QED
    BY <2>2, DownwardRecursion
<1>9. \A i \in 0..n - 1 : f[i] = Walk(tree, Go, Take, f, i)
  BY <1>6, <1>8
<1>10. f = [i \in 0..n - 1 |-> Walk(tree, Go, Take, f, i)]
  BY <1>8, <1>9
<1>11. QED
  BY <1>8, <1>10 DEF Walks, n, V

\* When what it takes at a place lists what is wanted of what is below the place, the walk
\* lists what is wanted.
LEMMA WalkLists ==
    ASSUME NEW boxes \in Seq(Rects), NEW tree, NEW file, NEW part,
           TreeOK(tree, file, boxes, part), NEW Go, NEW Take, CanWalk(tree, Go, Take),
           NEW f, Walks(tree, Go, Take, f), NEW Wanted,
           \A idx \in 0..Len(tree) - 1 : \A i \in 1..Len(tree[idx + 1].bounds) :
             <<idx, i>> \notin Go =>
               Lists(Take[<<idx, i>>], Wanted \cap Below(tree, file, part, idx, i))
    PROVE  \A idx \in 0..Len(tree) - 1 : Lists(f[idx], Wanted \cap part[idx])
<1> DEFINE n == Len(tree)
           Good(k) == \A idx \in 0..n - 1 : idx >= n - k =>
                         Lists(f[idx], Wanted \cap part[idx])
           S == {k \in Nat : Good(k)}
<1>1. n \in Nat
  BY DEF TreeOK
<1>2. \A idx \in 0..n - 1 : f[idx] = Walk(tree, Go, Take, f, idx)
  BY DEF Walks
<1>3. 0 \in S
  BY <1>1
<1>4. ASSUME NEW k \in S PROVE k + 1 \in S
  <2>1. k \in Nat /\ \A idx \in 0..n - 1 : idx >= n - k => Lists(f[idx], Wanted \cap part[idx])
    OBVIOUS
  <2>1a. ASSUME Good(k + 1) PROVE k + 1 \in S
    <3> HIDE DEF Good
    <3>1. QED
      BY <2>1, <2>1a
  <2> SUFFICES ASSUME NEW idx \in 0..n - 1, idx >= n - (k + 1)
               PROVE  Lists(f[idx], Wanted \cap part[idx])
    BY <2>1a
  <2> HIDE DEF S
  <2> DEFINE node == tree[idx + 1]
             m == Len(node.bounds)
             pieces == [i \in 1..m |-> IF <<idx, i>> \in Go THEN f[node.children[i]]
                                                            ELSE Take[<<idx, i>>]]
             below(i) == Below(tree, file, part, idx, i)
             Q == [i \in 1..m |-> Wanted \cap below(i)]
  <2>2. f[idx] = FlattenSeq(pieces)
    BY <1>2 DEF Walk
  <2>3. /\ m \in Nat
        /\ \A i \in 1..m :
             /\ <<idx, i>> \in Places(tree)
             /\ ~isLeaf(node) => /\ node.children[i] \in idx + 1..n - 1
                                 /\ node.children[i] \in 0..n - 1
    BY PlaceInTree
  <2>4. /\ \A i, j \in 1..m : i # j => below(i) \cap below(j) = {}
        /\ \A i \in 1..m : below(i) \subseteq 0..Len(boxes) - 1
        /\ \A x \in 0..Len(boxes) - 1 : x \in part[idx] <=> \E j \in 1..m : x \in below(j)
    <3>1. BranchOK(tree, file, boxes, part, idx)
      BY DEF TreeOK
    <3>2. QED
      BY <3>1 DEF BranchOK
  <2>5. part[idx] \subseteq 0..Len(boxes) - 1
    BY DEF TreeOK
  <2>6. ASSUME NEW i \in 1..m PROVE Lists(pieces[i], Q[i])
    <3>1. CASE <<idx, i>> \in Go
      <4>1. ~isLeaf(node)
        <5> DEFINE p == <<idx, i>>
        <5>1. p \in {r \in Places(tree) : ~isLeaf(tree[r[1] + 1])}
          BY <3>1 DEF CanWalk
        <5>2. ~isLeaf(tree[p[1] + 1])
          BY <5>1
        <5>3. QED
          BY <5>2
      <4> DEFINE c == node.children[i]
      <4>2. c \in idx + 1..n - 1 /\ c \in 0..n - 1
        BY <2>3, <4>1
      <4>3. below(i) = part[c]
        BY <4>1 DEF Below
      <4>4. pieces[i] = f[c]
        BY <3>1
      <4> HIDE DEF c
      <4>5. c >= n - k
        BY <4>2, <2>1, <1>1
      <4>6. Lists(f[c], Wanted \cap part[c])
        BY <4>2, <4>5, <2>1
      <4>7. QED
        BY <4>3, <4>4, <4>6
    <3>2. CASE <<idx, i>> \notin Go
      <4>1. Lists(Take[<<idx, i>>], Wanted \cap below(i))
        BY <3>2
      <4>2. QED
        BY <3>2, <4>1
    <3>3. QED
      BY <3>1, <3>2
  <2> HIDE DEF below
  <2>7. \A i \in 1..m : Q[i] = Wanted \cap below(i) /\ Q[i] \subseteq Nat
    BY <2>4
  <2> HIDE DEF pieces, Q
  <2>8. pieces \in Seq(Seq(Nat)) /\ Len(pieces) = m
    <3>1. \A i \in 1..m : pieces[i] \in Seq(Nat)
      <4> SUFFICES ASSUME NEW i \in 1..m PROVE pieces[i] \in Seq(Nat)
        OBVIOUS
      <4>1. pieces[i] \in Seq(Q[i]) /\ Q[i] \subseteq Nat
        BY <2>6, <2>7 DEF Lists
      <4>2. \A l \in 1..Len(pieces[i]) : pieces[i][l] \in Nat
        BY <4>1
      <4>3. QED
        BY <4>1, <4>2, SeqOfElements
    <3>2. pieces \in [1..m -> Seq(Nat)]
      BY <3>1 DEF pieces
    <3>3. QED
      BY <3>2, <2>3, FunctionSeq
  <2>9. Q \in [1..Len(pieces) -> SUBSET Nat]
    <3>1. Q \in [1..m -> SUBSET Nat]
      BY <2>7 DEF Q
    <3>2. QED
      BY <3>1, <2>8
  <2>10. \A i, j \in 1..Len(pieces) : i # j => Q[i] \cap Q[j] = {}
    BY <2>4, <2>7, <2>8
  <2> DEFINE All == Wanted \cap part[idx]
  <2>11. \A x : x \in All <=> \E i \in 1..Len(pieces) : x \in Q[i]
    <3>1. \A x : x \in All <=> \E i \in 1..m : x \in Wanted /\ x \in below(i)
      BY <2>4, <2>5
    <3>2. QED
      BY <3>1, <2>7, <2>8
  <2> HIDE DEF All
  <2>12. \A i \in 1..Len(pieces) : Lists(pieces[i], Q[i])
    BY <2>6, <2>8
  <2>13. Lists(FlattenSeq(pieces), All)
    BY <2>8, <2>9, <2>10, <2>11, <2>12, FlattenLists
  <2>14. QED
    BY <2>2, <2>13 DEF All
<1> HIDE DEF S
<1>5. S = Nat
  <2>1. S \subseteq Nat
    BY DEF S
  <2>2. QED
    BY <2>1, <1>3, <1>4, SetInduction
<1>6. QED
  <2>1. n \in S
    BY <1>1, <1>5
  <2>2. \A idx \in 0..n - 1 : idx >= n - n
    BY <1>1
  <2>3. QED
    BY <2>1, <2>2 DEF S

-----------------------------------------------------------------------------
(* What the tree finds.                                                    *)

\* The ids below a node are those of its objects.
LEMMA SubTreeLists ==
    ASSUME NEW boxes \in Seq(Rects), NEW tree, NEW file, NEW part,
           TreeOK(tree, file, boxes, part)
    PROVE  \A idx \in 0..Len(tree) - 1 : Lists(getSubTree(tree, file)[idx], part[idx])
<1> DEFINE n == Len(tree)
           S == 0..Len(boxes) - 1
           F(f) == [idx \in 0..n - 1 |->
                      LET node == tree[idx + 1]
                      IN  FlattenSeq([i \in DOMAIN node.bounds |->
                            IF isLeaf(node) THEN readLeaf(tree, file, idx, i - 1).ids
                                            ELSE f[node.children[i]]])]
           Go == {p \in Places(tree) : ~isLeaf(tree[p[1] + 1])}
           Take == [p \in Places(tree) |->
                      IF isLeaf(tree[p[1] + 1]) THEN readLeaf(tree, file, p[1], p[2] - 1).ids
                                                ELSE << >>]
           sub == getSubTree(tree, file)
<1>1. sub = CHOOSE f : f = F(f)
  BY DEF getSubTree
<1> HIDE DEF sub
<1>2. ASSUME NEW idx \in 0..n - 1, NEW i \in 1..Len(tree[idx + 1].bounds)
      PROVE  /\ <<idx, i>> \in Places(tree)
             /\ <<idx, i>> \in Go <=> ~isLeaf(tree[idx + 1])
             /\ isLeaf(tree[idx + 1]) =>
                  /\ Take[<<idx, i>>] = readLeaf(tree, file, idx, i - 1).ids
                  /\ LeafOK(readLeaf(tree, file, idx, i - 1), boxes)
             /\ ~isLeaf(tree[idx + 1]) => Take[<<idx, i>>] = << >>
  <2> DEFINE p == <<idx, i>>
  <2>1. p \in Places(tree) /\ p[1] = idx /\ p[2] = i
    BY PlaceInTree
  <2>2. isLeaf(tree[idx + 1]) => LeafOK(readLeaf(tree, file, idx, i - 1), boxes)
    BY PlaceInTree
  <2>3. p \in Go <=> ~isLeaf(tree[p[1] + 1])
    BY <2>1
  <2>4. Take[p] = IF isLeaf(tree[p[1] + 1]) THEN readLeaf(tree, file, p[1], p[2] - 1).ids
                                            ELSE << >>
    BY <2>1
  <2>5. QED
    BY <2>1, <2>2, <2>3, <2>4
<1>3. CanWalk(tree, Go, Take)
  <2>1. ASSUME NEW p \in Places(tree) PROVE Take[p] \in Seq(Nat)
    <3>1. PICK idx \in 0..n - 1 : \E i \in Nat : /\ p = <<idx, i>>
                                                /\ i \in 1..Len(tree[idx + 1].bounds)
      BY DEF Places
    <3>2. PICK i \in Nat : p = <<idx, i>> /\ i \in 1..Len(tree[idx + 1].bounds)
      BY <3>1
    <3> HIDE DEF Take
    <3>3. CASE isLeaf(tree[idx + 1])
      <4>1. Take[p] = readLeaf(tree, file, idx, i - 1).ids
            /\ LeafOK(readLeaf(tree, file, idx, i - 1), boxes)
        BY <1>2, <3>2, <3>3
      <4>2. readLeaf(tree, file, idx, i - 1).ids \in Seq(Nat)
        BY <4>1 DEF LeafOK, LeafType
      <4>3. QED
        BY <4>1, <4>2
    <3>4. CASE ~isLeaf(tree[idx + 1])
      <4>1. Take[p] = << >>
        BY <1>2, <3>2, <3>4
      <4>2. QED
        BY <4>1
    <3>5. QED
      BY <3>3, <3>4
  <2>2. Take \in [Places(tree) -> Seq(Nat)]
    BY <2>1
  <2>3. QED
    BY <2>2 DEF CanWalk
<1> HIDE DEF Go, Take
<1>4. ASSUME NEW f PROVE F(f) = [idx \in 0..n - 1 |-> Walk(tree, Go, Take, f, idx)]
  <2>1. ASSUME NEW idx \in 0..n - 1
        PROVE  (LET node == tree[idx + 1]
                IN  FlattenSeq([i \in DOMAIN node.bounds |->
                      IF isLeaf(node) THEN readLeaf(tree, file, idx, i - 1).ids
                                      ELSE f[node.children[i]]]))
               = Walk(tree, Go, Take, f, idx)
    <3> DEFINE m == Len(tree[idx + 1].bounds)
    <3>1. DOMAIN tree[idx + 1].bounds = 1..m
      <4>1. tree[idx + 1].bounds \in Seq(Rects)
        BY PlaceInTree
      <4>2. QED
        BY <4>1
    <3>2. ASSUME NEW i \in 1..m
          PROVE  (IF isLeaf(tree[idx + 1]) THEN readLeaf(tree, file, idx, i - 1).ids
                                           ELSE f[tree[idx + 1].children[i]])
                 = (IF <<idx, i>> \in Go THEN f[tree[idx + 1].children[i]]
                                         ELSE Take[<<idx, i>>])
      BY <1>2
    <3>3. [i \in 1..m |-> IF isLeaf(tree[idx + 1]) THEN readLeaf(tree, file, idx, i - 1).ids
                                                   ELSE f[tree[idx + 1].children[i]]]
          = [i \in 1..m |-> IF <<idx, i>> \in Go THEN f[tree[idx + 1].children[i]]
                                                 ELSE Take[<<idx, i>>]]
      BY <3>2
    <3>4. QED
      BY <3>1, <3>3 DEF Walk
  <2>2. QED
    BY <2>1
<1> HIDE DEF F
<1>5. Walks(tree, Go, Take, sub)
  <2>1. PICK f : Walks(tree, Go, Take, f)
    BY <1>3, WalkExists
  <2>2. f = F(f)
    BY <2>1, <1>4 DEF Walks
  <2>3. sub = F(sub)
    BY <2>2, <1>1
  <2>4. QED
    BY <2>3, <1>4 DEF Walks
<1>6. ASSUME NEW idx \in 0..n - 1, NEW i \in 1..Len(tree[idx + 1].bounds), <<idx, i>> \notin Go
      PROVE  Lists(Take[<<idx, i>>], S \cap Below(tree, file, part, idx, i))
  <2> DEFINE leaf == readLeaf(tree, file, idx, i - 1)
  <2>1. isLeaf(tree[idx + 1]) /\ Take[<<idx, i>>] = leaf.ids /\ LeafOK(leaf, boxes)
    BY <1>2, <1>6
  <2>2. Below(tree, file, part, idx, i) = IdsOf(leaf)
    BY <2>1 DEF Below
  <2>3. Lists(leaf.ids, IdsOf(leaf)) /\ IdsOf(leaf) \subseteq S
    BY <2>1 DEF LeafOK
  <2> HIDE DEF S
  <2>4. S \cap IdsOf(leaf) = IdsOf(leaf)
    BY <2>3
  <2>5. QED
    BY <2>1, <2>2, <2>3, <2>4
<1> HIDE DEF S
<1>7. \A idx \in 0..n - 1 : Lists(sub[idx], S \cap part[idx])
  BY <1>3, <1>5, <1>6, WalkLists
<1>8. \A idx \in 0..n - 1 : S \cap part[idx] = part[idx]
  BY DEF TreeOK, S
<1>9. QED
  BY <1>7, <1>8 DEF sub

\* What a search meets at a place of a node.
LEMMA MetBelow ==
    ASSUME NEW boxes \in Seq(Rects), NEW tree, NEW file, NEW part,
           TreeOK(tree, file, boxes, part), NEW rect \in Rects,
           NEW idx \in 0..Len(tree) - 1, NEW i \in 1..Len(tree[idx + 1].bounds)
    PROVE  LET b == tree[idx + 1].bounds[i]
               P == Below(tree, file, part, idx, i)
           IN  /\ P # {} /\ P \subseteq 0..Len(boxes) - 1
               /\ ~intersects(rect, b) => Met(boxes, P, rect) = {}
               /\ contains(rect, b) => Met(boxes, P, rect) = P /\ intersects(rect, b)
<1> DEFINE b == tree[idx + 1].bounds[i]
           P == Below(tree, file, part, idx, i)
<1>1. b \in Rects
  BY PlaceInTree
<1>2. /\ P # {}
      /\ \A x \in P : x \in 0..Len(boxes) - 1 /\ contains(b, boxes[x + 1])
  <2>1. BranchOK(tree, file, boxes, part, idx)
    BY DEF TreeOK
  <2>2. QED
    BY <2>1 DEF BranchOK
<1> HIDE DEF b, P
<1>3. ASSUME NEW x \in P
      PROVE  /\ Touch(rect, boxes[x + 1]) => intersects(rect, b)
             /\ contains(rect, b) => Touch(rect, boxes[x + 1])
  <2>1. boxes[x + 1] \in Rects
    <3>1. x + 1 \in 1..Len(boxes)
      BY <1>2
    <3>2. QED
      BY <3>1
  <2>2. contains(b, boxes[x + 1])
    BY <1>2
  <2> DEFINE c == boxes[x + 1]
  <2> HIDE DEF c
  <2>3. /\ Touch(rect, c) => Touch(rect, b)
        /\ contains(rect, b) => Touch(rect, c)
    BY <1>1, <2>1, <2>2, TouchAndContain DEF c
  <2>4. intersects(rect, b) <=> Touch(rect, b)
    BY <1>1, RectangleTests
  <2>5. QED
    BY <2>3, <2>4 DEF c
<1>4. ~intersects(rect, b) => Met(boxes, P, rect) = {}
  BY <1>3 DEF Met
<1>5. ASSUME contains(rect, b) PROVE Met(boxes, P, rect) = P /\ intersects(rect, b)
  <2>1. \A x \in P : Touch(rect, boxes[x + 1])
    BY <1>3, <1>5
  <2>2. Met(boxes, P, rect) = P
    BY <2>1 DEF Met
  <2>3. QED
    BY <2>1, <2>2, <1>2, <1>3
<1>6. P \subseteq 0..Len(boxes) - 1
  BY <1>2
<1>7. QED
  BY <1>2, <1>4, <1>5, <1>6 DEF b, P

LEMMA ListsWithin ==
    ASSUME NEW M, NEW T, M \subseteq T, NEW s, Lists(s, M)
    PROVE  s \in Seq(T)
<1>1. s \in Seq(M)
  BY DEF Lists
<1>2. \A l \in 1..Len(s) : s[l] \in T
  BY <1>1
<1>3. QED
  BY <1>1, <1>2, SeqOfElements

\* The search finds what touches the rectangle of what belongs to a node, once.
LEMMA NodeIsSearched ==
    ASSUME NEW boxes \in Seq(Rects), NEW tree, NEW file, NEW part,
           TreeOK(tree, file, boxes, part), NEW rect \in Rects
    PROVE  \A idx \in 0..Len(tree) - 1 :
             Lists(SearchNode(tree, file, rect)[idx], Met(boxes, part[idx], rect))
<1> DEFINE n == Len(tree)
           S == 0..Len(boxes) - 1
           sub == getSubTree(tree, file)
           leaf(idx, i) == readLeaf(tree, file, idx, i - 1)
           inner(idx) == ~isLeaf(tree[idx + 1])
           b(idx, i) == tree[idx + 1].bounds[i]
           F(f) == [idx \in 0..n - 1 |->
                      LET node == tree[idx + 1]
                          below(i) ==
                            IF isLeaf(node)
                            THEN LET lf == readLeaf(tree, file, idx, i - 1)
                                 IN  IF contains(rect, node.bounds[i]) THEN lf.ids
                                                                       ELSE searchLeaf(lf, rect)
                            ELSE IF contains(rect, node.bounds[i])
                                 THEN getSubTree(tree, file)[node.children[i]]
                                 ELSE f[node.children[i]]
                      IN  FlattenSeq([i \in DOMAIN node.bounds |->
                            IF intersects(rect, node.bounds[i]) THEN below(i) ELSE << >>])]
           onward(idx, i) == inner(idx) /\ intersects(rect, b(idx, i)) /\ ~contains(rect, b(idx, i))
           given(idx, i) ==
             IF ~intersects(rect, b(idx, i)) \/ onward(idx, i) THEN << >>
             ELSE IF inner(idx) THEN sub[tree[idx + 1].children[i]]
             ELSE IF contains(rect, b(idx, i)) THEN leaf(idx, i).ids
             ELSE searchLeaf(leaf(idx, i), rect)
           Go == {p \in Places(tree) : onward(p[1], p[2])}
           Take == [p \in Places(tree) |-> given(p[1], p[2])]
           from == SearchNode(tree, file, rect)
           Wanted == Met(boxes, S, rect)
<1>1. from = CHOOSE f : f = F(f)
  BY DEF SearchNode
<1> HIDE DEF from, F
<1>2. ASSUME NEW idx \in 0..n - 1, NEW i \in 1..Len(tree[idx + 1].bounds)
      PROVE  /\ <<idx, i>> \in Places(tree)
             /\ <<idx, i>> \in Go <=> onward(idx, i)
             /\ Take[<<idx, i>>] = given(idx, i)
  <2> HIDE DEF onward, given
  <2> DEFINE p == <<idx, i>>
  <2>1. p \in Places(tree) /\ p[1] = idx /\ p[2] = i
    BY PlaceInTree
  <2>2. (p \in Go <=> onward(p[1], p[2])) /\ Take[p] = given(p[1], p[2])
    BY <2>1
  <2>3. QED
    BY <2>1, <2>2
<1>3. \A P \in SUBSET S : Wanted \cap P = Met(boxes, P, rect)
  BY DEF Met
<1> HIDE DEF Go, Take, S, Wanted
\* What is taken at a place.
<1>4. ASSUME NEW idx \in 0..n - 1, NEW i \in 1..Len(tree[idx + 1].bounds), ~onward(idx, i)
      PROVE  Lists(given(idx, i), Met(boxes, Below(tree, file, part, idx, i), rect))
  <2> DEFINE P == Below(tree, file, part, idx, i)
             c == tree[idx + 1].children[i]
  <2>1. /\ ~intersects(rect, b(idx, i)) => Met(boxes, P, rect) = {}
        /\ contains(rect, b(idx, i)) => Met(boxes, P, rect) = P /\ intersects(rect, b(idx, i))
    BY MetBelow
  <2>2. /\ ~inner(idx) => LeafOK(leaf(idx, i), boxes)
        /\ inner(idx) => c \in 0..n - 1
    BY PlaceInTree
  <2>3. P = IF inner(idx) THEN part[c] ELSE IdsOf(leaf(idx, i))
    BY DEF Below
  <2> HIDE DEF P, c, b, leaf, inner
  <2>4. CASE ~intersects(rect, b(idx, i))
    <3>1. given(idx, i) = << >> /\ Met(boxes, P, rect) = {}
      BY <2>1, <2>4
    <3> HIDE DEF given
    <3>2. QED
      BY <3>1, EmptyLists DEF P
  <2>5. CASE intersects(rect, b(idx, i)) /\ inner(idx)
    <3>1. contains(rect, b(idx, i))
      BY <1>4, <2>5
    <3>2. given(idx, i) = sub[c]
      BY <1>4, <2>5 DEF c
    <3> HIDE DEF given
    <3>3. Lists(sub[c], part[c])
      BY <2>2, <2>5, SubTreeLists
    <3>4. Met(boxes, P, rect) = part[c]
      BY <2>1, <2>3, <2>5, <3>1
    <3>5. QED
      BY <3>2, <3>3, <3>4 DEF P
  <2>6. CASE intersects(rect, b(idx, i)) /\ ~inner(idx)
    <3> DEFINE lf == leaf(idx, i)
    <3>1. LeafOK(lf, boxes) /\ P = IdsOf(lf)
      BY <2>2, <2>3, <2>6
    <3>2. CASE contains(rect, b(idx, i))
      <4>1. given(idx, i) = lf.ids
        BY <1>4, <2>6, <3>2
      <4> HIDE DEF given, lf
      <4>2. Lists(lf.ids, IdsOf(lf))
        BY <3>1 DEF LeafOK
      <4>3. QED
        BY <2>1, <3>1, <3>2, <4>1, <4>2 DEF P
    <3>3. CASE ~contains(rect, b(idx, i))
      <4>1. given(idx, i) = searchLeaf(lf, rect)
        BY <1>4, <2>6, <3>3
      <4> HIDE DEF given, lf
      <4>2. Lists(searchLeaf(lf, rect), Met(boxes, IdsOf(lf), rect))
        BY <3>1, LeafIsSearched
      <4>3. QED
        BY <3>1, <4>1, <4>2 DEF P
    <3>4. QED
      BY <3>2, <3>3
  <2>7. QED
    BY <2>4, <2>5, <2>6
<1>5. ASSUME NEW idx \in 0..n - 1, NEW i \in 1..Len(tree[idx + 1].bounds)
      PROVE  given(idx, i) \in Seq(Nat)
  <2>1. CASE onward(idx, i)
    <3>1. given(idx, i) = << >>
      BY <2>1
    <3> HIDE DEF given, onward, b, leaf, inner, sub
    <3>2. << >> \in Seq(Nat)
      OBVIOUS
    <3>3. QED
      BY <3>1, <3>2
  <2>2. CASE ~onward(idx, i)
    <3> DEFINE P == Below(tree, file, part, idx, i)
               s == given(idx, i)
    <3> HIDE DEF given, onward
    <3>1. Lists(s, Met(boxes, P, rect))
      BY <1>4, <2>2
    <3>2. P \subseteq 0..Len(boxes) - 1
      BY MetBelow
    <3> HIDE DEF s, P
    <3>3. 0..Len(boxes) - 1 \subseteq Nat
      OBVIOUS
    <3>4. Met(boxes, P, rect) \subseteq Nat
      BY <3>2, <3>3 DEF Met
    <3>6. s \in Seq(Nat)
      BY <3>1, <3>4, ListsWithin
    <3>7. QED
      BY <3>6 DEF s
  <2>3. QED
    BY <2>1, <2>2
<1> HIDE DEF given, b, leaf
<1>6. CanWalk(tree, Go, Take)
  <2>1. ASSUME NEW p \in Places(tree) PROVE Take[p] \in Seq(Nat) /\ (p \in Go => inner(p[1]))
    <3>1. PICK idx \in 0..n - 1 : \E i \in Nat : /\ p = <<idx, i>>
                                                /\ i \in 1..Len(tree[idx + 1].bounds)
      BY DEF Places
    <3>2. PICK i \in Nat : p = <<idx, i>> /\ i \in 1..Len(tree[idx + 1].bounds)
      BY <3>1
    <3>3. Take[p] = given(idx, i) /\ given(idx, i) \in Seq(Nat)
      BY <1>2, <1>5, <3>2
    <3>4. p \in Go => inner(idx)
      BY <1>2, <3>2
    <3>5. QED
      BY <3>2, <3>3, <3>4
  <2>2. Take \in [Places(tree) -> Seq(Nat)]
    BY <2>1 DEF Take
  <2>3. Go \subseteq {p \in Places(tree) : ~isLeaf(tree[p[1] + 1])}
    <3>1. Go \subseteq Places(tree)
      BY DEF Go
    <3>2. QED
      BY <2>1, <3>1
  <2>4. QED
    BY <2>2, <2>3 DEF CanWalk
<1>7. ASSUME NEW f PROVE F(f) = [idx \in 0..n - 1 |-> Walk(tree, Go, Take, f, idx)]
  <2> DEFINE body(idx) ==
               LET node == tree[idx + 1]
                   below(i) ==
                     IF isLeaf(node)
                     THEN LET lf == readLeaf(tree, file, idx, i - 1)
                          IN  IF contains(rect, node.bounds[i]) THEN lf.ids
                                                                ELSE searchLeaf(lf, rect)
                     ELSE IF contains(rect, node.bounds[i])
                          THEN getSubTree(tree, file)[node.children[i]]
                          ELSE f[node.children[i]]
               IN  FlattenSeq([i \in DOMAIN node.bounds |->
                     IF intersects(rect, node.bounds[i]) THEN below(i) ELSE << >>])
  <2>1. ASSUME NEW idx \in 0..n - 1 PROVE body(idx) = Walk(tree, Go, Take, f, idx)
    <3> DEFINE m == Len(tree[idx + 1].bounds)
               code(i) == IF intersects(rect, tree[idx + 1].bounds[i])
                          THEN IF isLeaf(tree[idx + 1])
                               THEN IF contains(rect, tree[idx + 1].bounds[i])
                                    THEN readLeaf(tree, file, idx, i - 1).ids
                                    ELSE searchLeaf(readLeaf(tree, file, idx, i - 1), rect)
                               ELSE IF contains(rect, tree[idx + 1].bounds[i])
                                    THEN getSubTree(tree, file)[tree[idx + 1].children[i]]
                                    ELSE f[tree[idx + 1].children[i]]
                          ELSE << >>
               walk(i) == IF <<idx, i>> \in Go THEN f[tree[idx + 1].children[i]]
                                               ELSE Take[<<idx, i>>]
    <3>1. DOMAIN tree[idx + 1].bounds = 1..m
      <4>1. tree[idx + 1].bounds \in Seq(Rects)
        BY PlaceInTree
      <4>2. QED
        BY <4>1
    <3>2. ASSUME NEW i \in 1..m PROVE code(i) = walk(i)
      <4>1. (<<idx, i>> \in Go <=> onward(idx, i)) /\ Take[<<idx, i>>] = given(idx, i)
        BY <1>2
      <4>2. walk(i) = IF onward(idx, i) THEN f[tree[idx + 1].children[i]] ELSE given(idx, i)
        BY <4>1
      <4>3. QED
        BY <4>2 DEF given, b, leaf
    <3>3. body(idx) = FlattenSeq([i \in 1..m |-> code(i)])
      BY <3>1
    <3>4. Walk(tree, Go, Take, f, idx) = FlattenSeq([i \in 1..m |-> walk(i)])
      BY DEF Walk
    <3> HIDE DEF code, walk, m, body
    <3>5. [i \in 1..m |-> code(i)] = [i \in 1..m |-> walk(i)]
      BY <3>2
    <3>6. QED
      BY <3>3, <3>4, <3>5
  <2>2. F(f) = [idx \in 0..n - 1 |-> body(idx)]
    BY DEF F
  <2> HIDE DEF body
  <2>3. QED
    BY <2>1, <2>2
<1>8. Walks(tree, Go, Take, from)
  <2>1. PICK f : Walks(tree, Go, Take, f)
    BY <1>6, WalkExists
  <2>2. f = F(f)
    BY <2>1, <1>7 DEF Walks
  <2>3. from = F(from)
    BY <2>2, <1>1
  <2>4. QED
    BY <2>3, <1>7 DEF Walks
<1>9. ASSUME NEW idx \in 0..n - 1, NEW i \in 1..Len(tree[idx + 1].bounds), <<idx, i>> \notin Go
      PROVE  Lists(Take[<<idx, i>>], Wanted \cap Below(tree, file, part, idx, i))
  <2> HIDE DEF onward
  <2> DEFINE P == Below(tree, file, part, idx, i)
  <2>1. P \in SUBSET S
    BY MetBelow DEF S
  <2>2. Wanted \cap P = Met(boxes, P, rect)
    BY <2>1, <1>3
  <2>3. Take[<<idx, i>>] = given(idx, i) /\ ~onward(idx, i)
    BY <1>2, <1>9
  <2>4. Lists(given(idx, i), Met(boxes, P, rect))
    BY <2>3, <1>4
  <2>5. QED
    BY <2>2, <2>3, <2>4
<1>10. \A idx \in 0..n - 1 : Lists(from[idx], Wanted \cap part[idx])
  BY <1>6, <1>8, <1>9, WalkLists
<1>11. \A idx \in 0..n - 1 : Wanted \cap part[idx] = Met(boxes, part[idx], rect)
  <2>1. \A idx \in 0..n - 1 : part[idx] \in SUBSET S
    BY DEF TreeOK, S
  <2>2. QED
    BY <2>1, <1>3
<1>12. QED
  BY <1>10, <1>11 DEF from

\* The search of the whole tree.
THEOREM TreeIsSearched ==
    ASSUME NEW boxes \in Seq(Rects), boxes # << >>, NEW rect \in Rects
    PROVE  Lists(search(build(boxes).tree, build(boxes).leaves, rect),
                 Met(boxes, 0..Len(boxes) - 1, rect))
<1> DEFINE tree == build(boxes).tree
           file == build(boxes).leaves
<1>1. PICK part : TreeOK(tree, file, boxes, part)
  BY BuiltTree
<1> HIDE DEF tree, file
<1>2. tree # << >> /\ 0 \in 0..Len(tree) - 1 /\ part[0] = 0..Len(boxes) - 1
  BY <1>1 DEF TreeOK
<1>3. Lists(SearchNode(tree, file, rect)[0], Met(boxes, part[0], rect))
  BY <1>1, <1>2, NodeIsSearched
<1>4. QED
  BY <1>2, <1>3 DEF search, tree, file

\* Whether a search below a node would find something.
Finds(tree, file, rect, f, idx) ==
    LET node == tree[idx + 1]
    IN  \E i \in DOMAIN node.bounds :
          \/ contains(rect, node.bounds[i])
          \/ /\ intersects(rect, node.bounds[i])
             /\ IF isLeaf(node)
                THEN searchLeaf(readLeaf(tree, file, idx, i - 1), rect) # << >>
                ELSE f[node.children[i]]

\* A list is empty when what it lists is.
LEMMA EmptyList ==
    ASSUME NEW S, NEW s, Lists(s, S)
    PROVE  s # << >> <=> S # {}
<1>1. s \in Seq(S) /\ \A x \in S : \E i \in 1..Len(s) : s[i] = x
  BY DEF Lists
<1>2. ASSUME s # << >> PROVE S # {}
  <2>1. 1 \in 1..Len(s)
    BY <1>1, <1>2
  <2>2. s[1] \in S
    BY <1>1, <2>1
  <2>3. QED
    BY <2>2
<1>3. ASSUME S # {} PROVE s # << >>
  <2>1. PICK x : x \in S
    BY <1>3
  <2>2. PICK i \in 1..Len(s) : s[i] = x
    BY <1>1, <2>1
  <2>3. Len(s) # 0
    BY <2>2, <1>1
  <2>4. QED
    BY <2>3, <1>1
<1>4. QED
  BY <1>2, <1>3

\* What is known of the nodes after one.
Told(tree, boxes, part, rect, f, idx) ==
    \A j \in idx + 1..Len(tree) - 1 : f[j] <=> Met(boxes, part[j], rect) # {}

\* It would when there is something to find below the node, if that is what is said of the
\* nodes that come later.
LEMMA FindsBelow ==
    ASSUME NEW boxes \in Seq(Rects), NEW tree, NEW file, NEW part,
           TreeOK(tree, file, boxes, part), NEW rect \in Rects, NEW f,
           NEW idx \in 0..Len(tree) - 1,
           Told(tree, boxes, part, rect, f, idx)
    PROVE  Finds(tree, file, rect, f, idx) <=> Met(boxes, part[idx], rect) # {}
<1> DEFINE node == tree[idx + 1]
           m == Len(node.bounds)
           below(i) == Below(tree, file, part, idx, i)
           yes(i) == \/ contains(rect, node.bounds[i])
                     \/ /\ intersects(rect, node.bounds[i])
                        /\ IF isLeaf(node)
                           THEN searchLeaf(readLeaf(tree, file, idx, i - 1), rect) # << >>
                           ELSE f[node.children[i]]
<1>1. DOMAIN node.bounds = 1..m
  <2>1. node.bounds \in Seq(Rects)
    BY PlaceInTree
  <2>2. QED
    BY <2>1
<1>2. Finds(tree, file, rect, f, idx) <=> \E i \in 1..m : yes(i)
  BY <1>1 DEF Finds
<1>3. /\ \A i \in 1..m : below(i) \subseteq 0..Len(boxes) - 1
      /\ \A x \in 0..Len(boxes) - 1 : x \in part[idx] <=> \E j \in 1..m : x \in below(j)
  <2>1. BranchOK(tree, file, boxes, part, idx)
    BY DEF TreeOK
  <2>2. QED
    BY <2>1 DEF BranchOK
<1>4. part[idx] \subseteq 0..Len(boxes) - 1
  BY DEF TreeOK
<1>5. ASSUME NEW i \in 1..m PROVE yes(i) <=> Met(boxes, below(i), rect) # {}
  <2> DEFINE b == node.bounds[i]
             P == below(i)
             c == node.children[i]
             lf == readLeaf(tree, file, idx, i - 1)
  <2>1. /\ P # {}
        /\ ~intersects(rect, b) => Met(boxes, P, rect) = {}
        /\ contains(rect, b) => Met(boxes, P, rect) = P /\ intersects(rect, b)
    <3>1. i \in 1..Len(tree[idx + 1].bounds)
      OBVIOUS
    <3> HIDE DEF yes, c, lf, m
    <3>2. /\ Below(tree, file, part, idx, i) # {}
          /\ Below(tree, file, part, idx, i) \subseteq 0..Len(boxes) - 1
          /\ ~intersects(rect, tree[idx + 1].bounds[i])
               => Met(boxes, Below(tree, file, part, idx, i), rect) = {}
          /\ contains(rect, tree[idx + 1].bounds[i])
               => Met(boxes, Below(tree, file, part, idx, i), rect)
                    = Below(tree, file, part, idx, i)
                  /\ intersects(rect, tree[idx + 1].bounds[i])
      <4> HIDE DEF node, b, P, below
      <4>1. QED
        BY <3>1, MetBelow
    <3>3. QED
      BY <3>2
  <2>2. /\ isLeaf(node) => LeafOK(lf, boxes)
        /\ ~isLeaf(node) => c \in idx + 1..Len(tree) - 1
    BY PlaceInTree
  <2>3. P = IF isLeaf(node) THEN IdsOf(lf) ELSE part[c]
    BY DEF Below
  <2>4. yes(i) <=> \/ contains(rect, b)
                   \/ /\ intersects(rect, b)
                      /\ IF isLeaf(node) THEN searchLeaf(lf, rect) # << >> ELSE f[c]
    OBVIOUS
  <2> HIDE DEF yes, P, b, c, lf, node
  <2>5. CASE isLeaf(node)
    <3>1. Lists(searchLeaf(lf, rect), Met(boxes, IdsOf(lf), rect))
      BY <2>2, <2>5, LeafIsSearched
    <3>2. searchLeaf(lf, rect) # << >> <=> Met(boxes, IdsOf(lf), rect) # {}
      BY <3>1, EmptyList
    <3>3. P = IdsOf(lf)
      BY <2>3, <2>5
    <3>4. yes(i) <=> Met(boxes, P, rect) # {}
      BY <2>1, <2>4, <2>5, <3>2, <3>3
    <3>5. QED
      BY <3>4 DEF P
  <2>6. CASE ~isLeaf(node)
    <3>1. f[c] <=> Met(boxes, part[c], rect) # {}
      BY <2>2, <2>6 DEF Told
    <3>2. P = part[c]
      BY <2>3, <2>6
    <3>3. yes(i) <=> Met(boxes, P, rect) # {}
      BY <2>1, <2>4, <2>6, <3>1, <3>2
    <3>4. QED
      BY <3>3 DEF P
  <2>7. QED
    BY <2>5, <2>6
<1> HIDE DEF yes, below, m
<1>6. (\E i \in 1..m : Met(boxes, below(i), rect) # {}) <=> Met(boxes, part[idx], rect) # {}
  <2>1. ASSUME NEW i \in 1..m, NEW x \in Met(boxes, below(i), rect)
        PROVE  x \in Met(boxes, part[idx], rect)
    BY <1>3 DEF Met
  <2>2. ASSUME NEW x \in Met(boxes, part[idx], rect)
        PROVE  \E i \in 1..m : x \in Met(boxes, below(i), rect)
    BY <1>3, <1>4 DEF Met
  <2>3. QED
    BY <2>1, <2>2
<1>7. QED
  BY <1>2, <1>5, <1>6

LEMMA NodeContains ==
    ASSUME NEW boxes \in Seq(Rects), NEW tree, NEW file, NEW part,
           TreeOK(tree, file, boxes, part), NEW rect \in Rects
    PROVE  \A idx \in 0..Len(tree) - 1 :
             ContainsNode(tree, file, rect)[idx] <=> Met(boxes, part[idx], rect) # {}
<1> DEFINE n == Len(tree)
           F(f) == [idx \in 0..n - 1 |-> Finds(tree, file, rect, f, idx)]
           from == ContainsNode(tree, file, rect)
           met(idx) == Met(boxes, part[idx], rect) # {}
           known == [idx \in 0..n - 1 |-> met(idx)]
<1>0. n \in Nat
  BY DEF TreeOK
<1>1. from = CHOOSE f : f = F(f)
  BY DEF ContainsNode, Finds
<1> HIDE DEF from
<1>2. \A idx \in 0..n - 1 : \A j \in idx + 1..n - 1 : j \in 0..n - 1
  BY <1>0
<1>3. \A j \in 0..n - 1 : known[j] <=> met(j)
  OBVIOUS
<1> HIDE DEF known
<1>4. \A idx \in 0..n - 1 : Finds(tree, file, rect, known, idx) <=> met(idx)
  <2> SUFFICES ASSUME NEW idx \in 0..n - 1 PROVE Finds(tree, file, rect, known, idx) <=> met(idx)
    OBVIOUS
  <2>1. \A j \in idx + 1..n - 1 : known[j] <=> met(j)
    BY <1>2, <1>3
  <2>2. Told(tree, boxes, part, rect, known, idx)
    BY <2>1 DEF Told, met
  <2>3. QED
    BY <2>2, FindsBelow DEF met
<1>5. known = F(known)
  <2> HIDE DEF met
  <2>1. \A idx \in 0..n - 1 : Finds(tree, file, rect, known, idx) = met(idx)
    BY <1>4 DEF Finds, met
  <2>2. F(known) = [idx \in 0..n - 1 |-> met(idx)]
    BY <2>1
  <2>3. QED
    BY <2>2 DEF known
<1> HIDE DEF F
<1>6. from = F(from)
  BY <1>1, <1>5
<1>7. \A idx \in 0..n - 1 : from[idx] <=> Finds(tree, file, rect, from, idx)
  BY <1>6 DEF F
<1> HIDE DEF met
<1> DEFINE Good(k) == \A idx \in 0..n - 1 : idx >= n - k => (from[idx] <=> met(idx))
           S == {k \in Nat : Good(k)}
<1>8. 0 \in S
  BY <1>0
<1>9. ASSUME NEW k \in S PROVE k + 1 \in S
  <2>1. k \in Nat /\ \A idx \in 0..n - 1 : idx >= n - k => (from[idx] <=> met(idx))
    OBVIOUS
  <2>2. ASSUME Good(k + 1) PROVE k + 1 \in S
    <3> HIDE DEF Good
    <3>1. QED
      BY <2>1, <2>2
  <2> SUFFICES ASSUME NEW idx \in 0..n - 1, idx >= n - (k + 1)
               PROVE  from[idx] <=> met(idx)
    BY <2>2
  <2> HIDE DEF S
  <2>3. \A j \in idx + 1..n - 1 : j >= n - k /\ j \in 0..n - 1
    BY <2>1, <1>0
  <2>4. \A j \in idx + 1..n - 1 : from[j] <=> met(j)
    BY <2>1, <2>3
  <2>5. Told(tree, boxes, part, rect, from, idx)
    BY <2>4 DEF Told, met
  <2>6. Finds(tree, file, rect, from, idx) <=> met(idx)
    BY <2>5, FindsBelow DEF met
  <2>7. QED
    BY <2>6, <1>7
<1> HIDE DEF S
<1>10. S = Nat
  <2>1. S \subseteq Nat
    BY DEF S
  <2>2. QED
    BY <2>1, <1>8, <1>9, SetInduction
<1>11. \A idx \in 0..n - 1 : from[idx] <=> met(idx)
  <2>1. n \in S
    BY <1>0, <1>10
  <2>2. \A idx \in 0..n - 1 : idx >= n - n
    BY <1>0
  <2>3. QED
    BY <2>1, <2>2 DEF S
<1>12. QED
  BY <1>11 DEF from, met

\* A tree has something for a rectangle when one of its objects touches the rectangle.
THEOREM TreeIsAsked ==
    ASSUME NEW boxes \in Seq(Rects), boxes # << >>, NEW rect \in Rects
    PROVE  TreeContains(build(boxes).tree, build(boxes).leaves, rect)
           <=> Met(boxes, 0..Len(boxes) - 1, rect) # {}
<1> DEFINE tree == build(boxes).tree
           file == build(boxes).leaves
<1>1. PICK part : TreeOK(tree, file, boxes, part)
  BY BuiltTree
<1> HIDE DEF tree, file
<1>2. tree # << >> /\ 0 \in 0..Len(tree) - 1 /\ part[0] = 0..Len(boxes) - 1
  BY <1>1 DEF TreeOK
<1>3. ContainsNode(tree, file, rect)[0] <=> Met(boxes, part[0], rect) # {}
  BY <1>1, <1>2, NodeContains
<1>4. QED
  BY <1>2, <1>3 DEF TreeContains, tree, file
=============================================================================
