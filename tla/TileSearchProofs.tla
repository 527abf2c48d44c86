-------------------------- MODULE TileSearchProofs --------------------------
(***************************************************************************)
(* Theorems about TileSearch for any documents, bounds and sizes of trees  *)
(* and files: what the importer keeps refers to what it keeps; what is     *)
(* saved is what is loaded; and a job finds the objects of its meta tile   *)
(* and no others.                                                          *)
(***************************************************************************)
EXTENDS TileSearch, TileRequestProofs, TreeSearchProofs

-----------------------------------------------------------------------------
(* The rectangle of a job.                                                 *)

\* Powers of two.
LEMMA PowerOfTwo == \A z \in Nat : 2^z \in Nat \ {0}
  BY PowerPositive

\* A rectangle from two corners is one, and so is one that has grown.
LEMMA RectType ==
    ASSUME NEW a \in Int, NEW b \in Int, NEW c \in Int, NEW d \in Int
    PROVE  Rect(a, b, c, d) \in Rects
  BY DEF Rect, Rects, Smaller, Larger

\* A rectangle that has grown is one.
LEMMA GrowType ==
    ASSUME NEW r \in Rects, NEW dx \in Int, NEW dy \in Int, dx >= 0, dy >= 0
    PROVE  grow(r, dx, dy) \in Rects
<1>1. /\ r.minX \in Int /\ r.minY \in Int /\ r.maxX \in Int /\ r.maxY \in Int
      /\ r.minX <= r.maxX /\ r.minY <= r.maxY
  BY DEF Rects
<1>2. /\ r.minX - dx \in Int /\ r.minY - dy \in Int /\ r.maxX + dx \in Int /\ r.maxY + dy \in Int
      /\ r.minX - dx <= r.maxX + dx /\ r.minY - dy <= r.maxY + dy
  BY <1>1
<1>3. QED
  BY <1>2 DEF grow, Rects

\* The corners of a tile have coordinates.
LEMMA CornerType ==
    ASSUME NEW tx \in Int, NEW ty \in Int, NEW zoom \in Nat
    PROVE  TileToMercator(tx, ty, zoom).x \in Int /\ TileToMercator(tx, ty, zoom).y \in Int
<1>1. Norm \in Nat \ {0}
  BY StoreAssumption
<1>2. 2^zoom \in Nat \ {0}
  BY PowerOfTwo
<1>3. tx * 2 * Norm \in Int /\ ty * 2 * Norm \in Int
  BY <1>1
<1>4. Quotient(tx * 2 * Norm, 2^zoom) \in Int /\ Quotient(ty * 2 * Norm, 2^zoom) \in Int
  BY <1>2, <1>3, QuotientType
<1>5. QED
  BY <1>1, <1>4 DEF TileToMercator, Point

\* The rectangle of some tiles is one.
LEMMA ComputedRect ==
    ASSUME NEW tx \in Int, NEW ty \in Int, NEW width \in Int, NEW height \in Int, NEW zoom \in Nat
    PROVE  computeRect(tx, ty, width, height, zoom) \in Rects
<1> DEFINE a == TileToMercator(tx, ty, zoom)
           b == TileToMercator(tx + width, ty + height, zoom)
           r == Rect(a.x, a.y, b.x, b.y)
           dx == Quotient(getWidth(r), Overlap)
           dy == Quotient(getHeight(r), Overlap)
<1>1. a.x \in Int /\ a.y \in Int /\ b.x \in Int /\ b.y \in Int
  BY CornerType
<1> HIDE DEF a, b
<1>2. r \in Rects
  BY <1>1, RectType
<1> HIDE DEF r
<1>3. getWidth(r) \in Int /\ getWidth(r) >= 0 /\ getHeight(r) \in Int /\ getHeight(r) >= 0
  BY <1>2 DEF getWidth, getHeight, Rects
<1>4. Overlap \in Nat \ {0}
  BY StoreAssumption
<1>5. dx \in Int /\ dx >= 0 /\ dy \in Int /\ dy >= 0
  BY <1>3, <1>4, QuotientType
<1> HIDE DEF dx, dy
<1>6. grow(r, dx, dy) \in Rects
  BY <1>2, <1>5, GrowType
<1>7. QED
  BY <1>6 DEF computeRect, a, b, r, dx, dy

\* The rectangle of a tile's meta tile is one.
LEMMA JobAsksForRect ==
    ASSUME NEW t, t.x \in Int, t.y \in Int, t.zoom \in Nat
    PROVE  JobRect(MetaOfTile(t)) \in Rects
<1> DEFINE id == [x |-> t.x, y |-> t.y, z |-> t.zoom, style |-> t.style, fmt |-> t.format]
           m == MI!MetaOf(id)
           meta == MetaOfTile(t)
<1>1. MetaTileLength \in Nat \ {0}
  BY StoreAssumption
<1>2. /\ m.x = (t.x \div MetaTileLength) * MetaTileLength
      /\ m.y = (t.y \div MetaTileLength) * MetaTileLength /\ m.z = t.zoom
  BY DEF MI!MetaOf
<1> HIDE DEF id, m
<1>3. m.x \in Int /\ m.y \in Int /\ m.z \in Nat
  <2>1. t.x \div MetaTileLength \in Int /\ t.y \div MetaTileLength \in Int
    BY <1>1, Division
  <2>2. QED
    BY <1>1, <1>2, <2>1
<1>4. 2^m.z \in Int
  BY <1>3, PowerOfTwo
<1>5. MI!Width(m) \in Int /\ MI!Height(m) \in Int
  BY <1>1, <1>3, <1>4 DEF MI!Width, MI!Height, MI!Side, MI!Extent
<1>6. /\ meta.x = m.x /\ meta.y = m.y /\ meta.zoom = m.z
      /\ meta.width = MI!Width(m) /\ meta.height = MI!Height(m)
  BY DEF MetaOfTile, m, id
<1> HIDE DEF meta
<1>7. computeRect(meta.x, meta.y, meta.width, meta.height, meta.zoom) \in Rects
  BY <1>3, <1>5, <1>6, ComputedRect
<1>8. QED
  BY <1>7 DEF JobRect, meta

-----------------------------------------------------------------------------
(* What is written to an archive is read from it.                          *)

\* The end of a page is not before what it is the end of.
LEMMA PageEnd ==
    ASSUME NEW n \in Nat
    PROVE  RoundPage(n) \in Nat /\ n <= RoundPage(n)
<1>1. PageBlocks \in Nat \ {0}
  BY StoreAssumption
<1>2. QED
  BY <1>1, CeilBounds DEF RoundPage

EntryType == [offset : Nat, length : Nat]
NextEntry(es, f) == [offset |-> RoundPage(FileEnd(es)), length |-> Len(f)]

\* The entry that comes next is one.
LEMMA NextEntryType ==
    ASSUME NEW es \in Seq(EntryType), NEW f, Len(f) \in Nat
    PROVE  NextEntry(es, f) \in EntryType
<1>1. FileEnd(es) \in Nat
  <2>1. CASE es = << >>
    BY <2>1 DEF FileEnd
  <2>2. CASE es # << >>
    <3>1. Len(es) \in 1..Len(es)
      BY <2>2
    <3>2. Last(es) \in EntryType
      BY <3>1 DEF Last
    <3>3. QED
      BY <2>2, <3>2 DEF FileEnd, EntryType
  <2>3. QED
    BY <2>1, <2>2
<1>2. QED
  BY <1>1, PageEnd DEF NextEntry, EntryType

\* The entries are made from file to file.
EntriesBy(es, files) ==
    /\ es \in [0..Len(files) -> Seq(EntryType)] /\ es[0] = << >>
    /\ \A k \in 0..Len(files) - 1 : es[k + 1] = Append(es[k], NextEntry(es[k], files[k + 1]))

\* Such entries are those of an archive.
LEMMA EntriesSteps ==
    ASSUME NEW B, NEW files \in Seq(Seq(B))
    PROVE  \E es : EntriesBy(es, files) /\ Entries(files) = es[Len(files)]
<1> DEFINE n == Len(files)
           V == Seq(EntryType)
           goes(a, j) == Append(a, NextEntry(a, files[j]))
           W == CHOOSE iter : iter = [s \in SUBSET (DOMAIN files) |->
                    IF s = {} THEN << >>
                    ELSE LET x == Max(s)
                         IN  Append(iter[s \ {x}],
                                    [offset |-> RoundPage(FileEnd(iter[s \ {x}])),
                                     length |-> Len(files[x])])]
           step == [a \in V \X (1..n) |-> goes(a[1], a[2])]
<1>1. n \in Nat /\ DOMAIN files = 1..n /\ \A j \in 1..n : Len(files[j]) \in Nat
  OBVIOUS
<1>2. Entries(files) = W[DOMAIN files]
  BY DEF Entries, FoldLeft, MapThenFoldSet
<1>3. W = CHOOSE iter : iter = [s \in SUBSET (1..n) |->
                    IF s = {} THEN << >> ELSE goes(iter[s \ {Max(s)}], Max(s))]
  BY <1>1 DEF NextEntry
<1> HIDE DEF n, V, W
<1>4. \A a \in V : \A j \in 1..n : goes(a, j) \in V
  <2> SUFFICES ASSUME NEW a \in V, NEW j \in 1..n PROVE goes(a, j) \in V
    OBVIOUS
  <2>1. NextEntry(a, files[j]) \in EntryType
    BY <1>1, NextEntryType DEF V
  <2>2. QED
    BY <2>1 DEF V
<1>5. << >> \in V
  BY DEF V
<1> HIDE DEF goes
<1>6. step \in [V \X (1..n) -> V]
  BY <1>4
<1>7. PICK it \in [SUBSET (1..n) -> V] : FoldsBy(it, n, << >>, step)
  <2> HIDE DEF step
  <2>1. QED
    BY <1>1, <1>5, <1>6, FoldExists
<1>8. ASSUME NEW s \in SUBSET (1..n), s # {}
      PROVE  step[<<it[s \ {Max(s)}], Max(s)>>] = goes(it[s \ {Max(s)}], Max(s))
  BY <1>8, <1>1, MaxOfSome
<1>9. it = [s \in SUBSET (1..n) |-> IF s = {} THEN << >> ELSE goes(it[s \ {Max(s)}], Max(s))]
  <2> HIDE DEF step
  <2>1. QED
    BY <1>7, <1>8 DEF FoldsBy
<1>10. W = [s \in SUBSET (1..n) |-> IF s = {} THEN << >> ELSE goes(W[s \ {Max(s)}], Max(s))]
  <2> DEFINE F(f) == [s \in SUBSET (1..n) |->
                        IF s = {} THEN << >> ELSE goes(f[s \ {Max(s)}], Max(s))]
  <2>1. W = CHOOSE f : f = F(f)
    BY <1>3
  <2>2. it = F(it)
    BY <1>9
  <2> HIDE DEF F
  <2>3. W = F(W)
    BY <2>1, <2>2
  <2>4. QED
    BY <2>3 DEF F
<1>11. W[{}] = << >>
  BY <1>10
<1>12. ASSUME NEW s \in SUBSET (1..n), s # {}, W[s \ {Max(s)}] \in V
       PROVE  W[s] = step[<<W[s \ {Max(s)}], Max(s)>>]
  <2>1. W[s] = goes(W[s \ {Max(s)}], Max(s))
    BY <1>10, <1>12
  <2>2. Max(s) \in 1..n
    BY <1>1, <1>12, MaxOfSome
  <2>3. QED
    BY <2>1, <2>2, <1>12
<1>13. \A a \in V : \A i \in 1..n : step[<<a, i>>] = goes(a, i)
  OBVIOUS
<1> HIDE DEF step
<1>14. PICK q : GoesBy(q, n, V, W[{}], step) /\ W[1..n] = q[n]
  <2>1. StepsBy(W, n, V, step)
    BY <1>1, <1>5, <1>6, <1>11, <1>12 DEF StepsBy
  <2>2. QED
    BY <2>1, FoldPlaces
<1>15. q \in [0..n -> V] /\ q[0] = << >>
  BY <1>11, <1>14 DEF GoesBy
<1>16. ASSUME NEW k \in 0..n - 1 PROVE q[k + 1] = goes(q[k], k + 1)
  <2>1. q[k + 1] = step[<<q[k], k + 1>>]
    BY <1>14 DEF GoesBy
  <2>2. k \in 0..n /\ k + 1 \in 1..n
    BY <1>1
  <2>3. QED
    BY <2>1, <2>2, <1>13, <1>15
<1>17. QED
  <2>1. \A k \in 0..n - 1 : q[k + 1] = Append(q[k], NextEntry(q[k], files[k + 1]))
    BY <1>16 DEF goes
  <2>2. Entries(files) = q[n]
    BY <1>1, <1>2, <1>14
  <2>3. QED
    BY <2>1, <2>2, <1>15 DEF EntriesBy, V, n

\* Padding keeps what is there, and fills the page.
LEMMA PaddedKeeps ==
    ASSUME NEW C, Padding \in C, NEW s \in Seq(C)
    PROVE  /\ Padded(s) \in Seq(C) /\ Len(Padded(s)) = RoundPage(Len(s))
           /\ Len(s) <= Len(Padded(s)) /\ \A i \in 1..Len(s) : Padded(s)[i] = s[i]
<1> DEFINE m == RoundPage(Len(s)) - Len(s)
           fill == [i \in 1..m |-> Padding]
<1>1. Len(s) \in Nat /\ RoundPage(Len(s)) \in Nat /\ Len(s) <= RoundPage(Len(s))
  BY PageEnd
<1>2. m \in Nat /\ Len(s) + m = RoundPage(Len(s))
  BY <1>1
<1>3. Padded(s) = s \o fill
  BY DEF Padded
<1> HIDE DEF m
<1>4. fill \in Seq(C) /\ Len(fill) = m
  BY <1>2
<1> HIDE DEF fill
<1>5. /\ s \o fill \in Seq(C) /\ Len(s \o fill) = Len(s) + Len(fill)
      /\ \A i \in 1..Len(s) : (s \o fill)[i] = s[i]
  BY <1>4
<1>6. QED
  BY <1>1, <1>2, <1>3, <1>4, <1>5

\* The archive grows from file to file.
ArchiveBy(as, files, C) ==
    /\ as \in [0..Len(files) -> Seq(C)] /\ as[0] = Padded(<<Entries(files)>>)
    /\ \A k \in 0..Len(files) - 1 : as[k + 1] = Padded(as[k] \o files[k + 1])

\* Such an archive is the one that is written.
LEMMA ArchiveSteps ==
    ASSUME NEW C, NEW files \in Seq(Seq(C)), Padding \in C, Entries(files) \in C
    PROVE  \E as : ArchiveBy(as, files, C) /\ ArchiveOf(files) = as[Len(files)]
<1> DEFINE n == Len(files)
           V == Seq(C)
           base == Padded(<<Entries(files)>>)
           goes(a, j) == Padded(a \o files[j])
           W == CHOOSE iter : iter = [s \in SUBSET (DOMAIN files) |->
                    IF s = {} THEN base
                    ELSE LET x == Max(s)
                         IN  Padded(iter[s \ {x}] \o files[x])]
           step == [a \in V \X (1..n) |-> goes(a[1], a[2])]
<1>1. n \in Nat /\ DOMAIN files = 1..n /\ \A j \in 1..n : files[j] \in Seq(C)
  OBVIOUS
<1>2. ArchiveOf(files) = W[DOMAIN files]
  BY DEF ArchiveOf, FoldLeft, MapThenFoldSet
<1>3. W = CHOOSE iter : iter = [s \in SUBSET (1..n) |->
                    IF s = {} THEN base ELSE goes(iter[s \ {Max(s)}], Max(s))]
  BY <1>1
<1>5. base \in V
  <2>1. <<Entries(files)>> \in Seq(C)
    OBVIOUS
  <2>2. QED
    BY <2>1, PaddedKeeps
<1>base. base = Padded(<<Entries(files)>>)
  OBVIOUS
<1> HIDE DEF n, V, W, base
<1>4. \A a \in V : \A j \in 1..n : goes(a, j) \in V
  <2> SUFFICES ASSUME NEW a \in V, NEW j \in 1..n PROVE goes(a, j) \in V
    OBVIOUS
  <2>1. a \o files[j] \in Seq(C)
    BY <1>1 DEF V
  <2>2. QED
    BY <2>1, PaddedKeeps DEF V
<1> HIDE DEF goes
<1>6. step \in [V \X (1..n) -> V]
  BY <1>4
<1>7. PICK it \in [SUBSET (1..n) -> V] : FoldsBy(it, n, base, step)
  <2> HIDE DEF step
  <2>1. QED
    BY <1>1, <1>5, <1>6, FoldExists
<1>8. ASSUME NEW s \in SUBSET (1..n), s # {}
      PROVE  step[<<it[s \ {Max(s)}], Max(s)>>] = goes(it[s \ {Max(s)}], Max(s))
  BY <1>8, <1>1, MaxOfSome
<1>9. it = [s \in SUBSET (1..n) |-> IF s = {} THEN base ELSE goes(it[s \ {Max(s)}], Max(s))]
  <2> HIDE DEF step
  <2>1. QED
    BY <1>7, <1>8 DEF FoldsBy
<1>10. W = [s \in SUBSET (1..n) |-> IF s = {} THEN base ELSE goes(W[s \ {Max(s)}], Max(s))]
  <2> DEFINE F(f) == [s \in SUBSET (1..n) |->
                        IF s = {} THEN base ELSE goes(f[s \ {Max(s)}], Max(s))]
  <2>1. W = CHOOSE f : f = F(f)
    BY <1>3
  <2>2. it = F(it)
    BY <1>9
  <2> HIDE DEF F
  <2>3. W = F(W)
    BY <2>1, <2>2
  <2>4. QED
    BY <2>3 DEF F
<1>11. W[{}] = base
  BY <1>10
<1>12. ASSUME NEW s \in SUBSET (1..n), s # {}, W[s \ {Max(s)}] \in V
       PROVE  W[s] = step[<<W[s \ {Max(s)}], Max(s)>>]
  <2>1. W[s] = goes(W[s \ {Max(s)}], Max(s))
    BY <1>10, <1>12
  <2>2. Max(s) \in 1..n
    BY <1>1, <1>12, MaxOfSome
  <2>3. QED
    BY <2>1, <2>2, <1>12
<1>13. \A a \in V : \A i \in 1..n : step[<<a, i>>] = goes(a, i)
  OBVIOUS
<1> HIDE DEF step
<1>14. PICK q : GoesBy(q, n, V, W[{}], step) /\ W[1..n] = q[n]
  <2>1. StepsBy(W, n, V, step)
    BY <1>1, <1>5, <1>6, <1>11, <1>12 DEF StepsBy
  <2>2. QED
    BY <2>1, FoldPlaces
<1>15. q \in [0..n -> V] /\ q[0] = base
  BY <1>11, <1>14 DEF GoesBy
<1>16. ASSUME NEW k \in 0..n - 1 PROVE q[k + 1] = goes(q[k], k + 1)
  <2>1. q[k + 1] = step[<<q[k], k + 1>>]
    BY <1>14 DEF GoesBy
  <2>2. k \in 0..n /\ k + 1 \in 1..n
    BY <1>1
  <2>3. QED
    BY <2>1, <2>2, <1>13, <1>15
<1>17. QED
  <2>1. \A k \in 0..n - 1 : q[k + 1] = Padded(q[k] \o files[k + 1])
    BY <1>16 DEF goes
  <2>2. ArchiveOf(files) = q[n]
    BY <1>1, <1>2, <1>14
  <2>3. QED
    BY <2>1, <2>2, <1>15, <1>base DEF ArchiveBy, V, n

\* The entries say where the files are.
Kept(es, as, files, k) ==
    /\ Len(es) = k /\ Len(as) = RoundPage(FileEnd(es)) /\ 1 <= Len(as) /\ as[1] = Entries(files)
    /\ \A i \in 1..k : /\ es[i].length = Len(files[i])
                       /\ es[i].offset + es[i].length <= Len(as)
                       /\ \A j \in 1..Len(files[i]) : as[es[i].offset + j] = files[i][j]

\* So the regions of an archive have the files, each its own.
LEMMA ArchiveRead ==
    ASSUME NEW C, NEW files \in Seq(Seq(C)), Padding \in C, Entries(files) \in C
    PROVE  /\ Entries(files) \in Seq(EntryType) /\ ArchiveOf(files) \in Seq(C)
           /\ Kept(Entries(files), ArchiveOf(files), files, Len(files))
<1> DEFINE n == Len(files)
<1>1. PICK es : EntriesBy(es, files) /\ Entries(files) = es[n]
  BY EntriesSteps
<1>2. PICK as : ArchiveBy(as, files, C) /\ ArchiveOf(files) = as[n]
  BY ArchiveSteps
<1>3. n \in Nat /\ \A j \in 1..n : files[j] \in Seq(C)
  OBVIOUS
<1>4. /\ es \in [0..n -> Seq(EntryType)] /\ es[0] = << >>
      /\ \A k \in 0..n - 1 : es[k + 1] = Append(es[k], NextEntry(es[k], files[k + 1]))
  BY <1>1 DEF EntriesBy
<1>5. /\ as \in [0..n -> Seq(C)] /\ as[0] = Padded(<<Entries(files)>>)
      /\ \A k \in 0..n - 1 : as[k + 1] = Padded(as[k] \o files[k + 1])
  BY <1>2 DEF ArchiveBy
<1> HIDE DEF n
<1> DEFINE S == {k \in Nat : k <= n => Kept(es[k], as[k], files, k)}
<1>6. 0 \in S
  <2> DEFINE s == <<Entries(files)>>
  <2>1. s \in Seq(C) /\ Len(s) = 1 /\ s[1] = Entries(files) /\ 1 \in 1..1
    OBVIOUS
  <2>2. as[0] = Padded(s)
    BY <1>5
  <2> HIDE DEF s
  <2>3. /\ Len(as[0]) = RoundPage(1) /\ 1 <= Len(as[0]) /\ as[0][1] = Entries(files)
    <3>1. /\ Padded(s) \in Seq(C) /\ Len(Padded(s)) = RoundPage(1)
          /\ 1 <= Len(Padded(s)) /\ \A i \in 1..Len(s) : Padded(s)[i] = s[i]
      <4>1. Len(s) = 1 /\ s \in Seq(C)
        BY <2>1
      <4>2. /\ Padded(s) \in Seq(C) /\ Len(Padded(s)) = RoundPage(Len(s))
            /\ Len(s) <= Len(Padded(s)) /\ \A i \in 1..Len(s) : Padded(s)[i] = s[i]
        BY <4>1, PaddedKeeps
      <4>3. QED
        BY <4>1, <4>2
    <3>2. QED
      BY <3>1, <2>1, <2>2
  <2>4. Len(es[0]) = 0 /\ FileEnd(es[0]) = 1
    BY <1>4 DEF FileEnd
  <2>5. QED
    <3>1. \A i \in 1..0 : FALSE
      OBVIOUS
    <3>2. Kept(es[0], as[0], files, 0)
      BY <2>3, <2>4, <3>1 DEF Kept
    <3>3. QED
      BY <3>2
<1>7. ASSUME NEW k \in S PROVE k + 1 \in S
  <2> HIDE DEF Kept
  <2>1. k \in Nat /\ (k <= n => Kept(es[k], as[k], files, k))
    OBVIOUS
  <2> SUFFICES ASSUME k + 1 <= n PROVE Kept(es[k + 1], as[k + 1], files, k + 1)
    <3>1. k + 1 \in Nat
      BY <2>1
    <3>2. QED
      BY <3>1
  <2>2. k \in 0..n - 1 /\ k + 1 \in 1..n /\ k \in 0..n /\ k + 1 \in 0..n /\ k <= n
    BY <1>3, <2>1
  <2> DEFINE e == es[k]
             a == as[k]
             f == files[k + 1]
             b == a \o f
             x == NextEntry(e, f)
  <2>3. e \in Seq(EntryType) /\ a \in Seq(C) /\ f \in Seq(C)
    BY <1>3, <1>4, <1>5, <2>2
  <2>4. es[k + 1] = Append(e, x) /\ as[k + 1] = Padded(b)
    BY <1>4, <1>5, <2>2
  <2>5. Kept(e, a, files, k)
    BY <2>1, <2>2
  <2>6. \A i \in 1..k + 1 : i # k + 1 => i \in 1..k
    BY <2>1
  <2>7. files[k + 1] = f
    OBVIOUS
  <2> HIDE DEF e, a, f
  <2>8. /\ Len(e) = k /\ Len(a) = RoundPage(FileEnd(e)) /\ 1 <= Len(a) /\ a[1] = Entries(files)
        /\ \A i \in 1..k : /\ e[i].length = Len(files[i])
                           /\ e[i].offset + e[i].length <= Len(a)
                           /\ \A j \in 1..Len(files[i]) : a[e[i].offset + j] = files[i][j]
    BY <2>5 DEF Kept
  <2>9. /\ b \in Seq(C) /\ Len(b) = Len(a) + Len(f) /\ \A j \in 1..Len(a) : b[j] = a[j]
        /\ \A j \in 1..Len(f) : b[Len(a) + j] = f[j]
    BY <2>3
  <2>10. x.offset = Len(a) /\ x.length = Len(f) /\ x \in EntryType
    <3>1. Len(f) \in Nat
      BY <2>3
    <3>2. x \in EntryType
      BY <2>3, <3>1, NextEntryType
    <3>3. QED
      BY <2>8, <3>2 DEF NextEntry
  <2> HIDE DEF b, x
  <2> DEFINE c == Padded(b)
             d == Append(e, x)
  <2>11. /\ c \in Seq(C) /\ Len(c) = RoundPage(Len(b)) /\ Len(b) <= Len(c)
         /\ \A j \in 1..Len(b) : c[j] = b[j]
    BY <2>9, PaddedKeeps
  <2>12. /\ d \in Seq(EntryType) /\ Len(d) = k + 1 /\ d[k + 1] = x /\ d # << >> /\ Last(d) = x
         /\ \A i \in 1..k : d[i] = e[i]
    <3>1. /\ d \in Seq(EntryType) /\ Len(d) = Len(e) + 1 /\ d[Len(e) + 1] = x
          /\ \A i \in 1..Len(e) : d[i] = e[i]
      BY <2>3, <2>10
    <3> HIDE DEF d
    <3>2. d # << >> /\ Last(d) = x
      BY <2>1, <2>8, <3>1 DEF Last
    <3>3. QED
      BY <2>8, <3>1, <3>2
  <2> HIDE DEF c, d
  <2>13. FileEnd(d) = Len(b)
    BY <2>9, <2>10, <2>12 DEF FileEnd
  <2>14. Len(a) \in Nat /\ Len(f) \in Nat /\ Len(b) \in Nat /\ Len(c) \in Nat
    BY <2>3, <2>9, <2>11
  <2>15. c[1] = Entries(files) /\ 1 <= Len(c)
    <3>1. 1 \in 1..Len(a) /\ 1 \in 1..Len(b)
      BY <2>8, <2>9, <2>14
    <3>2. QED
      BY <3>1, <2>8, <2>9, <2>11, <2>14
  <2>16. ASSUME NEW i \in 1..k + 1
         PROVE  /\ d[i].length = Len(files[i]) /\ d[i].offset + d[i].length <= Len(c)
                /\ \A j \in 1..Len(files[i]) : c[d[i].offset + j] = files[i][j]
    <3>1. CASE i = k + 1
      <4>1. d[i] = x /\ files[i] = f
        BY <2>12, <2>7, <3>1
      <4>2. ASSUME NEW j \in 1..Len(f) PROVE c[Len(a) + j] = f[j]
        <5>1. Len(a) + j \in 1..Len(b)
          BY <2>9, <2>14
        <5>2. QED
          BY <5>1, <2>9, <2>11
      <4>3. QED
        BY <4>1, <4>2, <2>9, <2>10, <2>11, <2>14
    <3>2. CASE i # k + 1
      <4>1. i \in 1..k
        BY <2>6, <3>2
      <4>2. d[i] = e[i] /\ e[i].length = Len(files[i]) /\ e[i].offset + e[i].length <= Len(a)
        BY <4>1, <2>8, <2>12
      <4>3. e[i].offset \in Nat /\ e[i].length \in Nat
        <5>1. e[i] \in EntryType
          BY <4>1, <2>3, <2>8
        <5>2. QED
          BY <5>1 DEF EntryType
      <4>4. ASSUME NEW j \in 1..Len(files[i]) PROVE c[e[i].offset + j] = files[i][j]
        <5>1. a[e[i].offset + j] = files[i][j]
          BY <4>1, <2>8
        <5>2. j \in 1..e[i].length
          BY <4>2
        <5>3. \A o, l \in Nat : o + l <= Len(a) => \A q \in 1..l : o + q \in 1..Len(a)
          BY <2>14
        <5>4. e[i].offset + e[i].length <= Len(a)
          BY <4>2
        <5>5. e[i].offset + j \in 1..Len(a)
          BY <4>3, <5>2, <5>3, <5>4
        <5>6. b[e[i].offset + j] = a[e[i].offset + j] /\ e[i].offset + j \in 1..Len(b)
          BY <5>5, <2>9, <2>14
        <5>7. QED
          BY <5>1, <5>6, <2>11
      <4>5. QED
        BY <4>2, <4>3, <4>4, <2>9, <2>11, <2>14
    <3>3. QED
      BY <3>1, <3>2
  <2>17. es[k + 1] = d /\ as[k + 1] = c
    BY <2>4 DEF c, d
  <2>18. Len(c) = RoundPage(FileEnd(d))
    BY <2>11, <2>13
  <2>19. Kept(d, c, files, k + 1)
    BY <2>12, <2>15, <2>16, <2>18 DEF Kept
  <2>20. QED
    BY <2>17, <2>19
<1> HIDE DEF S
<1>8. S = Nat
  <2>1. S \subseteq Nat
    BY DEF S
  <2>2. QED
    BY <2>1, <1>6, <1>7, SetInduction
<1>9. Kept(es[n], as[n], files, n)
  <2>1. n \in S /\ n <= n
    BY <1>3, <1>8
  <2>2. QED
    BY <2>1 DEF S
<1>10. es[n] \in Seq(EntryType) /\ as[n] \in Seq(C)
  <2>1. n \in 0..n
    BY <1>3
  <2>2. QED
    BY <2>1, <1>4, <1>5
<1>11. QED
  BY <1>1, <1>2, <1>9, <1>10 DEF n

\* A list, with one more element if a set has it.
LEMMA AddedIfThere ==
    ASSUME NEW K, NEW s, Lists(s, K), NEW S, NEW o, o \notin K
    PROVE  Lists(s \o (IF o \in S THEN <<o>> ELSE << >>), K \cup (S \cap {o}))
<1>1. s \in Seq(K)
  BY DEF Lists
<1>2. CASE o \in S
  <2>1. s \o <<o>> = Append(s, o)
    BY <1>1
  <2>2. Lists(Append(s, o), K \cup {o})
    BY AppendLists
  <2>3. K \cup (S \cap {o}) = K \cup {o} /\ (IF o \in S THEN <<o>> ELSE << >>) = <<o>>
    BY <1>2
  <2>4. QED
    BY <2>1, <2>2, <2>3
<1>3. CASE o \notin S
  <2>1. s \o << >> = s
    BY <1>1
  <2>2. K \cup (S \cap {o}) = K /\ (IF o \in S THEN <<o>> ELSE << >>) = << >>
    BY <1>3
  <2>3. QED
    BY <2>1, <2>2
<1>4. QED
  BY <1>2, <1>3

\* The kinds of objects that there are, each once.
LEMMA OrderedLists ==
    ASSUME NEW S, S \subseteq Objects
    PROVE  Lists(Ordered(S), S)
<1> DEFINE one(o) == IF o \in S THEN <<o>> ELSE << >>
           a == one("nodes")
           b == one("ways")
           c == one("relations")
           A == {} \cup (S \cap {"nodes"})
           B == A \cup (S \cap {"ways"})
           C == B \cup (S \cap {"relations"})
<1>1. Ordered(S) = (a \o b) \o c
  BY DEF Ordered
<1>2. << >> \o a = a
  <2>1. a \in Seq({"nodes"})
    OBVIOUS
  <2> HIDE DEF a
  <2>2. QED
    BY <2>1
<1>3. Lists(<< >> \o a, A)
  <2>1. Lists(<< >>, {}) /\ "nodes" \notin {}
    BY EmptyLists
  <2>2. QED
    BY <2>1, AddedIfThere, Zenon
<1>4. Lists(a \o b, B)
  <2>1. Lists(a, A)
    BY <1>2, <1>3
  <2>2. "ways" \notin A
    OBVIOUS
  <2> HIDE DEF a, A
  <2>3. QED
    BY <2>1, <2>2, AddedIfThere, Zenon
<1>5. Lists((a \o b) \o c, C)
  <2>1. "relations" \notin B
    OBVIOUS
  <2> HIDE DEF a, b, A, B
  <2>2. QED
    BY <1>4, <2>1, AddedIfThere, Zenon
<1>6. C = S
  BY DEF Objects
<1>7. QED
  BY <1>1, <1>5, <1>6

\* Where the elements of two sequences are when they are put end to end.
LEMMA EndToEnd ==
    ASSUME NEW T, NEW s \in Seq(T), NEW t \in Seq(T)
    PROVE  /\ s \o t \in Seq(T) /\ Len(s \o t) = Len(s) + Len(t)
           /\ \A i \in 1..Len(s) : (s \o t)[i] = s[i]
           /\ \A i \in 1..Len(t) : (s \o t)[Len(s) + i] = t[i]
  OBVIOUS

\* The objects that there are, and what they are looked up in.
Present(geo) == {o \in Objects : geo[o] # << >>}
Boxed(geo) == \A o \in Present(geo) : Boxes(geo)[o] \in Seq(Rects) /\ Boxes(geo)[o] # << >>
Built(geo) == [o \in Present(geo) |-> build(Boxes(geo)[o])]
Series(geo) == [objects |-> geo, trees |-> [o \in Present(geo) |-> Built(geo)[o].tree]]
Files(geo) == << <<Series(geo)>> \o [i \in 1..SerBlocks - 1 |-> Padding] >>
              \o [i \in DOMAIN Trees(geo) |-> Built(geo)[Trees(geo)[i]].leaves]

\* What is saved is an archive of these files.
LEMMA SavedFiles ==
    ASSUME NEW geo
    PROVE  /\ save(geo) = ArchiveOf(Files(geo)) /\ Trees(geo) = Ordered(Present(geo))
           /\ Lists(Trees(geo), Present(geo))
<1>1. Trees(geo) = Ordered(Present(geo))
  BY DEF Trees, Present
<1>2. Lists(Trees(geo), Present(geo))
  BY <1>1, OrderedLists DEF Present
<1>3. ToSet(Trees(geo)) = Present(geo)
  BY <1>2, ListedSet
<1>4. DOMAIN Built(geo) = Present(geo)
  BY DEF Built
<1>5. [o \in ToSet(Trees(geo)) |-> build(Boxes(geo)[o])] = Built(geo)
  BY <1>3 DEF Built
<1>6. [o \in DOMAIN Built(geo) |-> Built(geo)[o].tree] = [o \in Present(geo) |-> Built(geo)[o].tree]
  BY <1>4
<1>7. save(geo) = ArchiveOf(Files(geo))
  <2> DEFINE B == [o \in ToSet(Trees(geo)) |-> build(Boxes(geo)[o])]
             G(t, b) == ArchiveOf(<< <<[objects |-> geo, trees |-> t]>>
                                     \o [i \in 1..SerBlocks - 1 |-> Padding] >>
                                  \o [i \in DOMAIN Trees(geo) |-> b[Trees(geo)[i]].leaves])
             D(b) == [o \in DOMAIN b |-> b[o].tree]
  <2>1. save(geo) = G(D(B), B)
    BY DEF save
  <2>2. ArchiveOf(Files(geo)) = G([o \in Present(geo) |-> Built(geo)[o].tree], Built(geo))
    BY DEF Files, Series
  <2>3. B = Built(geo) /\ D(Built(geo)) = [o \in Present(geo) |-> Built(geo)[o].tree]
    BY <1>5, <1>6
  <2> HIDE DEF B, G, D
  <2>4. QED
    BY <2>1, <2>2, <2>3
<1>8. QED
  BY <1>1, <1>2, <1>7

\* The leaves of a tree are a file of them.
LEMMA LeavesType ==
    ASSUME NEW geo, Boxed(geo), NEW o \in Present(geo)
    PROVE  Built(geo)[o].leaves \in Seq(LeafType)
<1> DEFINE boxes == Boxes(geo)[o]
<1>1. boxes \in Seq(Rects) /\ boxes # << >>
  BY DEF Boxed
<1>2. Built(geo)[o] = build(boxes)
  BY DEF Built
<1> HIDE DEF boxes
<1>3. Leaves(boxes) \in Seq(LeafType)
  BY <1>1, LeavesAreWritten DEF LeafFile
<1>4. Stored(boxes) = boxes /\ Stored(Leaves(boxes)) = Leaves(boxes)
  BY <1>1, <1>3, StoredSame
<1>5. build(boxes).leaves = Leaves(boxes)
  BY <1>4 DEF build
<1>6. QED
  BY <1>2, <1>3, <1>5

\* The first file has the objects and the trees, the others the leaves.
BlocksOf(geo) == {Series(geo), Padding, Entries(Files(geo))} \cup LeafType

\* The files are files of blocks.
LEMMA FilesType ==
    ASSUME NEW geo, Boxed(geo)
    PROVE  /\ Files(geo) \in Seq(Seq(BlocksOf(geo))) /\ Len(Files(geo)) = Len(Trees(geo)) + 1
           /\ Len(Files(geo)[1]) >= 1 /\ Files(geo)[1][1] = Series(geo)
           /\ \A i \in 1..Len(Trees(geo)) :
                Files(geo)[i + 1] = Built(geo)[Trees(geo)[i]].leaves
<1> DEFINE C == BlocksOf(geo)
           ts == Trees(geo)
           m == SerBlocks - 1
           fill == [i \in 1..m |-> Padding]
           ser == <<Series(geo)>>
           first == ser \o fill
           rest == [i \in DOMAIN ts |-> Built(geo)[ts[i]].leaves]
           d == <<first>>
<1>1. ts \in Seq(Present(geo)) /\ Len(ts) \in Nat /\ DOMAIN ts = 1..Len(ts)
  BY SavedFiles DEF Lists
<1>2. \A i \in 1..Len(ts) : rest[i] \in Seq(C)
  <2> SUFFICES ASSUME NEW i \in 1..Len(ts) PROVE Built(geo)[ts[i]].leaves \in Seq(C)
    BY <1>1
  <2>1. ts[i] \in Present(geo)
    BY <1>1
  <2>2. Built(geo)[ts[i]].leaves \in Seq(LeafType)
    BY <2>1, LeavesType
  <2>3. LeafType \subseteq C
    BY DEF BlocksOf
  <2> HIDE DEF C
  <2>4. QED
    BY <2>2, <2>3
<1>3. Series(geo) \in C /\ Padding \in C
  BY DEF BlocksOf
<1> HIDE DEF C, ts
<1>4. /\ rest \in Seq(Seq(C)) /\ Len(rest) = Len(ts)
      /\ \A i \in 1..Len(ts) : rest[i] = Built(geo)[ts[i]].leaves
  <2>1. rest \in [1..Len(ts) -> Seq(C)] /\ \A i \in 1..Len(ts) : rest[i] = Built(geo)[ts[i]].leaves
    BY <1>1, <1>2
  <2> HIDE DEF rest
  <2>2. QED
    BY <1>1, <2>1, FunctionSeq
<1>5. m \in Nat
  BY StoreAssumption
<1> HIDE DEF m
<1>6. fill \in Seq(C)
  BY <1>3, <1>5
<1>7. ser \in Seq(C) /\ Len(ser) = 1 /\ ser[1] = Series(geo)
  BY <1>3
<1> HIDE DEF fill, ser
<1>8. first \in Seq(C) /\ Len(first) >= 1 /\ first[1] = Series(geo)
  <2>1. /\ ser \o fill \in Seq(C) /\ Len(ser \o fill) = Len(ser) + Len(fill)
        /\ \A i \in 1..Len(ser) : (ser \o fill)[i] = ser[i]
    BY <1>6, <1>7, EndToEnd
  <2>2. Len(fill) \in Nat /\ 1 \in 1..Len(ser)
    BY <1>6, <1>7
  <2>3. QED
    BY <1>7, <2>1, <2>2
<1> HIDE DEF first, rest
<1>9. d \in Seq(Seq(C)) /\ Len(d) = 1 /\ d[1] = first
  BY <1>8
<1>10. Files(geo) = d \o rest
  BY DEF Files, d, first, rest, ser, fill, m, ts
<1> HIDE DEF d
<1>11. /\ d \o rest \in Seq(Seq(C)) /\ Len(d \o rest) = Len(ts) + 1 /\ (d \o rest)[1] = first
       /\ \A i \in 1..Len(ts) : (d \o rest)[i + 1] = rest[i]
  <2>1. /\ d \o rest \in Seq(Seq(C)) /\ Len(d \o rest) = Len(d) + Len(rest)
        /\ \A i \in 1..Len(d) : (d \o rest)[i] = d[i]
        /\ \A i \in 1..Len(rest) : (d \o rest)[Len(d) + i] = rest[i]
    <3>1. d \in Seq(Seq(C)) /\ rest \in Seq(Seq(C))
      BY <1>4, <1>9
    <3> DEFINE T == Seq(C)
    <3>2. d \in Seq(T) /\ rest \in Seq(T)
      BY <3>1
    <3> HIDE DEF T
    <3>3. /\ d \o rest \in Seq(T) /\ Len(d \o rest) = Len(d) + Len(rest)
          /\ \A i \in 1..Len(d) : (d \o rest)[i] = d[i]
          /\ \A i \in 1..Len(rest) : (d \o rest)[Len(d) + i] = rest[i]
      BY <3>2, EndToEnd
    <3>4. QED
      BY <3>3 DEF T
  <2>2. 1 \in 1..Len(d) /\ \A i \in 1..Len(ts) : i + 1 = Len(d) + i
    BY <1>1, <1>9
  <2>3. Len(d) + Len(rest) = Len(ts) + 1
    BY <1>1, <1>4, <1>9
  <2>4. QED
    BY <1>4, <1>9, <2>1, <2>2, <2>3
<1>12. QED
  BY <1>4, <1>8, <1>10, <1>11 DEF C, ts

\* What is loaded is what was saved.
LEMMA SavedIsLoaded ==
    ASSUME NEW geo, Boxed(geo)
    PROVE  load(save(geo)) = [objects |-> geo,
                              trees |-> [o \in Present(geo) |-> Built(geo)[o].tree],
                              leaves |-> [o \in Present(geo) |-> Built(geo)[o].leaves]]
<1> DEFINE C == BlocksOf(geo)
           files == Files(geo)
           a == save(geo)
           entries == Entries(files)
           ts == Trees(geo)
           n == Len(files)
           ser == a[entries[1].offset + 1]
           region(e) == SubSeq(a, e.offset + 1, e.offset + e.length)
           place(o) == CHOOSE i \in DOMAIN ts : ts[i] = o
<1>1. /\ files \in Seq(Seq(C)) /\ n = Len(ts) + 1 /\ Len(files[1]) >= 1
      /\ files[1][1] = Series(geo)
      /\ \A i \in 1..Len(ts) : files[i + 1] = Built(geo)[ts[i]].leaves
  BY FilesType
<1>2. a = ArchiveOf(files) /\ ts = Ordered(Present(geo)) /\ Lists(ts, Present(geo))
  BY SavedFiles
<1>3. Padding \in C /\ entries \in C
  BY DEF BlocksOf
<1> HIDE DEF C, files
<1>4. /\ entries \in Seq(EntryType) /\ a \in Seq(C) /\ Kept(entries, a, files, n)
  BY <1>1, <1>2, <1>3, ArchiveRead
<1>5. /\ Len(ts) \in Nat /\ DOMAIN ts = 1..Len(ts) /\ \A i \in 1..Len(ts) : ts[i] \in Present(geo)
      /\ \A o \in Present(geo) : \E i \in 1..Len(ts) : ts[i] = o
  BY <1>2 DEF Lists
<1> HIDE DEF a, entries, ts, n
<1>6. /\ Len(entries) = n /\ a[1] = entries
      /\ \A i \in 1..n : /\ entries[i].length = Len(files[i])
                         /\ entries[i].offset + entries[i].length <= Len(a)
                         /\ \A j \in 1..Len(files[i]) : a[entries[i].offset + j] = files[i][j]
  BY <1>4 DEF Kept, entries
<1>7. n \in Nat /\ \A i \in 1..n : /\ entries[i].offset \in Nat /\ entries[i].length \in Nat
                                   /\ files[i] \in Seq(C)
  <2>1. n \in Nat /\ \A i \in 1..n : files[i] \in Seq(C)
    BY <1>1 DEF n
  <2>2. \A i \in 1..n : entries[i] \in EntryType
    BY <1>4, <1>6, <2>1
  <2>3. QED
    BY <2>1, <2>2 DEF EntryType
<1>8. ser = Series(geo)
  <2>1. 1 \in 1..n /\ 1 \in 1..Len(files[1])
    BY <1>1, <1>5, <1>7
  <2>2. QED
    BY <1>1, <1>6, <2>1
<1>9. ASSUME NEW i \in 1..n PROVE region(entries[i]) = files[i]
  <2> DEFINE f == files[i]
             e == entries[i]
             r == region(e)
  <2>1. /\ e.offset \in Nat /\ e.length = Len(f) /\ f \in Seq(C) /\ e.offset + e.length <= Len(a)
        /\ \A j \in 1..Len(f) : a[e.offset + j] = f[j]
    BY <1>6, <1>7
  <2>2. Len(f) \in Nat
    BY <2>1
  <2>3. r = SubSeq(a, e.offset + 1, e.offset + Len(f))
    BY <2>1
  <2> HIDE DEF f, e, r
  <2> DEFINE off == e.offset
             l == Len(f)
  <2>4. off \in Nat /\ l \in Nat /\ off + l <= Len(a) /\ Len(a) \in Nat
    BY <1>4, <2>1, <2>2
  <2>5. r = SubSeq(a, off + 1, off + l)
    BY <2>3
  <2> HIDE DEF off, l
  <2>6. /\ r \in Seq(C) /\ Len(r) = l /\ \A j \in 1..l : r[j] = a[off + j]
    <3>1. off + 1 >= 1 /\ (off + l) - (off + 1) + 1 = l /\ off + 1 \in Nat /\ off + l \in Nat
      BY <2>4
    <3>2. \A j \in 1..l : (off + 1) + j - 1 = off + j
      BY <2>4
    <3>3. \A j \in 1..l : off + j \in 1..Len(a)
      BY <2>4
    <3>4. r = [j \in 1..l |-> a[off + j]]
      BY <1>4, <2>4, <2>5, <3>1, <3>2
    <3>5. \A j \in 1..l : a[off + j] \in C
      BY <1>4, <3>3
    <3>6. r \in [1..l -> C]
      BY <3>4, <3>5
    <3>7. QED
      BY <2>4, <3>4, <3>6, FunctionSeq
  <2>7. /\ f \in Seq(C) /\ Len(f) = l /\ \A j \in 1..l : r[j] = f[j]
    BY <2>1, <2>6 DEF off, l
  <2>8. r = f
    BY <2>6, <2>7
  <2>9. QED
    BY <2>8 DEF r, e, f
<1> HIDE DEF region
<1>10. ASSUME NEW o \in Present(geo)
       PROVE  region(entries[place(o) + 1]) = Built(geo)[o].leaves
  <2>1. place(o) \in 1..Len(ts) /\ ts[place(o)] = o
    BY <1>5
  <2> HIDE DEF place
  <2>2. place(o) + 1 \in 1..n
    BY <1>1, <1>5, <2>1
  <2>3. files[place(o) + 1] = Built(geo)[o].leaves
    BY <1>1, <2>1
  <2>4. QED
    BY <1>9, <2>2, <2>3
<1>11. /\ ser.objects = geo /\ ser.trees = [o \in Present(geo) |-> Built(geo)[o].tree]
       /\ DOMAIN ser.trees = Present(geo)
  BY <1>8 DEF Series
<1>12. Ordered(DOMAIN ser.trees) = ts
  BY <1>2, <1>11
<1>13. load(a) = [objects |-> ser.objects, trees |-> ser.trees,
                  leaves |-> [o \in DOMAIN ser.trees |-> region(entries[place(o) + 1])]]
  <2> DEFINE where(pr, o) == CHOOSE i \in DOMAIN pr : pr[i] = o
             L(en, se, pr) ==
               [objects |-> se.objects, trees |-> se.trees,
                leaves |-> [o \in DOMAIN se.trees |->
                              SubSeq(a, en[where(pr, o) + 1].offset + 1,
                                     en[where(pr, o) + 1].offset + en[where(pr, o) + 1].length)]]
             s == a[a[1][1].offset + 1]
  <2>1. load(a) = L(a[1], s, Ordered(DOMAIN s.trees))
    BY DEF load
  <2>2. a[1] = entries /\ s = ser
    BY <1>6
  <2> HIDE DEF L, s
  <2>3. load(a) = L(entries, ser, ts)
    BY <1>12, <2>1, <2>2
  <2>4. QED
    BY <2>3 DEF L, region
<1> HIDE DEF ser, place
<1>14. [o \in DOMAIN ser.trees |-> region(entries[place(o) + 1])]
       = [o \in Present(geo) |-> Built(geo)[o].leaves]
  BY <1>10, <1>11
<1>15. load(a) = [objects |-> geo,
                  trees |-> [o \in Present(geo) |-> Built(geo)[o].tree],
                  leaves |-> [o \in Present(geo) |-> Built(geo)[o].leaves]]
  BY <1>11, <1>13, <1>14
<1>16. QED
  BY <1>15 DEF a

-----------------------------------------------------------------------------
(* Objects, and the boxes around them.                                     *)

\* Functions from some of a set.
Maps(K, T) == UNION {[S -> T] : S \in SUBSET K}
Tags  == Maps(Words, Words)
Roles == Maps(Nat, Words)

\* Ids that there are, counted from 0.
Ids(n) == Seq(0..n - 1)

NodeObject == [loc : Points, tags : Tags]
WayObject(n) == {w \in [tags : Tags, nodeIDs : Ids(n)] : w.nodeIDs # << >>}
PropsType(n, w) == [tags : Tags, nodeIDs : Ids(n), nodeRoles : Roles, wayIDs : Ids(w),
                    wayRoles : Roles]
RelationObject(n, w) == {r \in PropsType(n, w) : r.nodeIDs # << >> \/ r.wayIDs # << >>}

\* The references of objects are to objects that there are, and no way or relation is
\* without them.
GeoOK(geo) ==
    /\ geo.nodes \in Seq(NodeObject)
    /\ geo.ways \in Seq(WayObject(Len(geo.nodes)))
    /\ geo.relations \in Seq(RelationObject(Len(geo.nodes), Len(geo.ways)))

\* The rectangle of a point is one.
LEMMA PointRectType ==
    ASSUME NEW p \in Points
    PROVE  PointRect(p) \in Rects
<1>1. p.x \in Int /\ p.y \in Int
  BY DEF Points
<1>2. QED
  BY <1>1, RectType DEF PointRect

\* The rectangle around two is one.
LEMMA EncloseType ==
    ASSUME NEW r \in Rects, NEW s \in Rects
    PROVE  enclose(r, s) \in Rects
  BY DEF enclose, Rects, Smaller, Larger

\* The box around some boxes.
LEMMA BoxOfSome ==
    ASSUME NEW n \in Nat, n # 0, NEW f \in [1..n -> Rects]
    PROVE  BoundingBox(f) \in Rects
<1>1. f \in Seq(Rects) /\ Len(f) = n
  BY FunctionSeq
<1>2. f # << >>
  BY <1>1
<1>3. QED
  BY <1>1, <1>2, BoundingBoxContains

\* The box around nodes, ...
LEMMA NodesBoxType ==
    ASSUME NEW geo, GeoOK(geo), NEW ids \in Ids(Len(geo.nodes)), ids # << >>
    PROVE  NodesBox(geo, ids) \in Rects
<1> DEFINE f == [i \in DOMAIN ids |-> PointRect(geo.nodes[ids[i] + 1].loc)]
           n == Len(ids)
           N == Len(geo.nodes)
<1>1. n \in Nat /\ n # 0 /\ DOMAIN ids = 1..n /\ \A i \in 1..n : ids[i] \in 0..N - 1
  BY DEF Ids
<1>2. N \in Nat /\ \A i \in 1..N : geo.nodes[i] \in NodeObject
  BY DEF GeoOK
<1> HIDE DEF n, N
<1>3. ASSUME NEW i \in 1..n PROVE PointRect(geo.nodes[ids[i] + 1].loc) \in Rects
  <2>1. ids[i] + 1 \in 1..N
    BY <1>1, <1>2
  <2>2. geo.nodes[ids[i] + 1].loc \in Points
    BY <1>2, <2>1 DEF NodeObject
  <2>3. QED
    BY <2>2, PointRectType
<1>4. f \in [1..n -> Rects]
  BY <1>1, <1>3
<1> HIDE DEF f
<1>5. BoundingBox(f) \in Rects
  BY <1>1, <1>4, BoxOfSome
<1>6. QED
  BY <1>5 DEF NodesBox, f

\* ... around ways ...
LEMMA WaysBoxType ==
    ASSUME NEW geo, GeoOK(geo), NEW ids \in Ids(Len(geo.ways)), ids # << >>
    PROVE  WaysBox(geo, ids) \in Rects
<1> DEFINE f == [i \in DOMAIN ids |-> NodesBox(geo, geo.ways[ids[i] + 1].nodeIDs)]
           n == Len(ids)
           N == Len(geo.ways)
           T == WayObject(Len(geo.nodes))
<1>1. n \in Nat /\ n # 0 /\ DOMAIN ids = 1..n /\ \A i \in 1..n : ids[i] \in 0..N - 1
  BY DEF Ids
<1> HIDE DEF T
<1>2. N \in Nat /\ \A i \in 1..N : geo.ways[i] \in T
  BY DEF GeoOK, T
<1> HIDE DEF n, N
<1>3. ASSUME NEW i \in 1..n PROVE NodesBox(geo, geo.ways[ids[i] + 1].nodeIDs) \in Rects
  <2>1. ids[i] + 1 \in 1..N
    BY <1>1, <1>2
  <2> DEFINE w == geo.ways[ids[i] + 1]
  <2>2. w \in T
    BY <1>2, <2>1
  <2> HIDE DEF w
  <2>3. w.nodeIDs \in Ids(Len(geo.nodes)) /\ w.nodeIDs # << >>
    BY <2>2 DEF T, WayObject
  <2>4. NodesBox(geo, w.nodeIDs) \in Rects
    BY <2>3, NodesBoxType
  <2>5. QED
    BY <2>4 DEF w
<1>4. f \in [1..n -> Rects]
  BY <1>1, <1>3
<1> HIDE DEF f
<1>5. BoundingBox(f) \in Rects
  BY <1>1, <1>4, BoxOfSome
<1>6. QED
  BY <1>5 DEF WaysBox, f

\* ... and around the members of a relation.
LEMMA RelationBoxType ==
    ASSUME NEW geo, GeoOK(geo), NEW rel \in RelationObject(Len(geo.nodes), Len(geo.ways))
    PROVE  RelationBox(geo, rel) \in Rects
<1> DEFINE n == rel.nodeIDs
           w == rel.wayIDs
<1>1. n \in Ids(Len(geo.nodes)) /\ w \in Ids(Len(geo.ways)) /\ (n # << >> \/ w # << >>)
  BY DEF RelationObject, PropsType
<1>2. RelationBox(geo, rel) = CASE w = << >> -> NodesBox(geo, n)
                                [] n = << >> -> WaysBox(geo, w)
                                [] OTHER -> enclose(NodesBox(geo, n), WaysBox(geo, w))
  BY DEF RelationBox
<1> HIDE DEF n, w
<1>3. (n # << >> => NodesBox(geo, n) \in Rects) /\ (w # << >> => WaysBox(geo, w) \in Rects)
  BY <1>1, NodesBoxType, WaysBoxType
<1>4. CASE w = << >>
  BY <1>1, <1>2, <1>3, <1>4
<1>5. CASE w # << >> /\ n = << >>
  BY <1>1, <1>2, <1>3, <1>5
<1>6. CASE w # << >> /\ n # << >>
  <2>1. RelationBox(geo, rel) = enclose(NodesBox(geo, n), WaysBox(geo, w))
    BY <1>2, <1>6
  <2>2. QED
    BY <2>1, <1>3, <1>6, EncloseType
<1>7. QED
  BY <1>4, <1>5, <1>6

\* Every object has its box.
LEMMA BoxesAreRects ==
    ASSUME NEW geo, GeoOK(geo)
    PROVE  \A o \in Objects : /\ Boxes(geo)[o] \in Seq(Rects)
                              /\ Len(geo[o]) \in Nat /\ Len(Boxes(geo)[o]) = Len(geo[o])
                              /\ geo[o] # << >> => Boxes(geo)[o] # << >>
                              /\ geo[o] = << >> => Len(geo[o]) = 0
<1>1. /\ Len(geo.nodes) \in Nat /\ DOMAIN geo.nodes = 1..Len(geo.nodes)
      /\ geo.nodes # << >> => Len(geo.nodes) # 0
      /\ \A i \in 1..Len(geo.nodes) : geo.nodes[i] \in NodeObject
  BY DEF GeoOK
<1>2. /\ Len(geo.ways) \in Nat /\ DOMAIN geo.ways = 1..Len(geo.ways)
      /\ geo.ways # << >> => Len(geo.ways) # 0
      /\ \A i \in 1..Len(geo.ways) : geo.ways[i] \in WayObject(Len(geo.nodes))
  <2> DEFINE T == WayObject(Len(geo.nodes))
  <2>1. geo.ways \in Seq(T)
    BY DEF GeoOK
  <2> HIDE DEF T
  <2>2. /\ Len(geo.ways) \in Nat /\ DOMAIN geo.ways = 1..Len(geo.ways)
        /\ geo.ways # << >> => Len(geo.ways) # 0
        /\ \A i \in 1..Len(geo.ways) : geo.ways[i] \in T
    BY <2>1
  <2>3. QED
    BY <2>2 DEF T
<1>3. /\ Len(geo.relations) \in Nat /\ DOMAIN geo.relations = 1..Len(geo.relations)
      /\ geo.relations # << >> => Len(geo.relations) # 0
      /\ \A i \in 1..Len(geo.relations) :
           geo.relations[i] \in RelationObject(Len(geo.nodes), Len(geo.ways))
  <2> DEFINE T == RelationObject(Len(geo.nodes), Len(geo.ways))
  <2>1. geo.relations \in Seq(T)
    BY DEF GeoOK
  <2> HIDE DEF T
  <2>2. /\ Len(geo.relations) \in Nat /\ DOMAIN geo.relations = 1..Len(geo.relations)
        /\ geo.relations # << >> => Len(geo.relations) # 0
        /\ \A i \in 1..Len(geo.relations) : geo.relations[i] \in T
    BY <2>1
  <2>3. QED
    BY <2>2 DEF T
<1> DEFINE a == [i \in DOMAIN geo.nodes |-> PointRect(geo.nodes[i].loc)]
           b == [i \in DOMAIN geo.ways |-> NodesBox(geo, geo.ways[i].nodeIDs)]
           c == [i \in DOMAIN geo.relations |-> RelationBox(geo, geo.relations[i])]
<1>4. Boxes(geo).nodes = a /\ Boxes(geo).ways = b /\ Boxes(geo).relations = c
  BY DEF Boxes
<1>5. a \in [1..Len(geo.nodes) -> Rects]
  <2>1. ASSUME NEW i \in 1..Len(geo.nodes) PROVE PointRect(geo.nodes[i].loc) \in Rects
    <3>1. geo.nodes[i].loc \in Points
      BY <1>1 DEF NodeObject
    <3>2. QED
      BY <3>1, PointRectType
  <2>2. QED
    BY <2>1, <1>1
<1>6. b \in [1..Len(geo.ways) -> Rects]
  <2>1. ASSUME NEW i \in 1..Len(geo.ways) PROVE NodesBox(geo, geo.ways[i].nodeIDs) \in Rects
    <3>1. geo.ways[i].nodeIDs \in Ids(Len(geo.nodes)) /\ geo.ways[i].nodeIDs # << >>
      BY <1>2 DEF WayObject
    <3>2. QED
      BY <3>1, NodesBoxType
  <2>2. QED
    BY <2>1, <1>2
<1>7. c \in [1..Len(geo.relations) -> Rects]
  <2>1. ASSUME NEW i \in 1..Len(geo.relations) PROVE RelationBox(geo, geo.relations[i]) \in Rects
    BY <1>3, RelationBoxType
  <2>2. QED
    BY <2>1, <1>3
<1> HIDE DEF a, b, c
<1>8. /\ a \in Seq(Rects) /\ Len(a) = Len(geo.nodes)
      /\ b \in Seq(Rects) /\ Len(b) = Len(geo.ways)
      /\ c \in Seq(Rects) /\ Len(c) = Len(geo.relations)
  BY <1>1, <1>2, <1>3, <1>5, <1>6, <1>7, FunctionSeq
<1>9. geo["nodes"] = geo.nodes /\ geo["ways"] = geo.ways /\ geo["relations"] = geo.relations
  OBVIOUS
<1> SUFFICES ASSUME NEW o \in Objects
             PROVE  /\ Boxes(geo)[o] \in Seq(Rects)
                    /\ Len(geo[o]) \in Nat /\ Len(Boxes(geo)[o]) = Len(geo[o])
                    /\ geo[o] # << >> => Boxes(geo)[o] # << >>
                    /\ geo[o] = << >> => Len(geo[o]) = 0
  OBVIOUS
<1>10. CASE o = "nodes"
  BY <1>1, <1>4, <1>8, <1>10
<1>11. CASE o = "ways"
  BY <1>2, <1>4, <1>8, <1>11
<1>12. CASE o = "relations"
  BY <1>3, <1>4, <1>8, <1>12
<1>13. QED
  BY <1>10, <1>11, <1>12 DEF Objects

\* What is looked up in the loaded geodata is found.
LEMMA LookedUp ==
    ASSUME NEW geo, GeoOK(geo), NEW geodata, geodata = load(save(geo)), NEW rect \in Rects
    PROVE  /\ geodata.objects = geo
           /\ \A o \in Objects : Lists(getIDs(geodata, o, rect), Touching(geo, o, rect))
           /\ containsData(geodata, rect) <=> \E o \in Objects : Touching(geo, o, rect) # {}
<1>1. \A o \in Objects : /\ Boxes(geo)[o] \in Seq(Rects)
                         /\ Len(geo[o]) \in Nat /\ Len(Boxes(geo)[o]) = Len(geo[o])
                         /\ geo[o] # << >> => Boxes(geo)[o] # << >>
                         /\ geo[o] = << >> => Len(geo[o]) = 0
  BY BoxesAreRects
<1>2. Boxed(geo)
  BY <1>1 DEF Boxed, Present
<1>3. geodata = [objects |-> geo,
                 trees |-> [o \in Present(geo) |-> Built(geo)[o].tree],
                 leaves |-> [o \in Present(geo) |-> Built(geo)[o].leaves]]
  BY <1>2, SavedIsLoaded
<1>4. /\ geodata.objects = geo /\ DOMAIN geodata.trees = Present(geo)
      /\ \A o \in Present(geo) : /\ geodata.trees[o] = build(Boxes(geo)[o]).tree
                                 /\ geodata.leaves[o] = build(Boxes(geo)[o]).leaves
  BY <1>3 DEF Built
<1>5. ASSUME NEW o \in Objects
      PROVE  Touching(geo, o, rect) = Met(Boxes(geo)[o], 0..Len(geo[o]) - 1, rect)
  BY DEF Touching, Met, Touch
<1>6. ASSUME NEW o \in Present(geo)
      PROVE  /\ Lists(search(geodata.trees[o], geodata.leaves[o], rect), Touching(geo, o, rect))
             /\ TreeContains(geodata.trees[o], geodata.leaves[o], rect)
                <=> Touching(geo, o, rect) # {}
  <2> DEFINE boxes == Boxes(geo)[o]
  <2>1. /\ o \in Objects /\ boxes \in Seq(Rects) /\ boxes # << >> /\ Len(boxes) = Len(geo[o])
    BY <1>1 DEF Present
  <2>2. Touching(geo, o, rect) = Met(boxes, 0..Len(boxes) - 1, rect)
    BY <1>5, <2>1
  <2>3. geodata.trees[o] = build(boxes).tree /\ geodata.leaves[o] = build(boxes).leaves
    BY <1>4
  <2> HIDE DEF boxes
  <2>4. /\ Lists(search(build(boxes).tree, build(boxes).leaves, rect),
                 Met(boxes, 0..Len(boxes) - 1, rect))
        /\ TreeContains(build(boxes).tree, build(boxes).leaves, rect)
           <=> Met(boxes, 0..Len(boxes) - 1, rect) # {}
    BY <2>1, TreeIsSearched, TreeIsAsked
  <2>5. QED
    BY <2>2, <2>3, <2>4
<1>7. ASSUME NEW o \in Objects, o \notin Present(geo) PROVE Touching(geo, o, rect) = {}
  <2>1. geo[o] = << >>
    BY <1>7 DEF Present
  <2>2. Len(geo[o]) = 0
    BY <1>1, <2>1
  <2>3. QED
    BY <2>2 DEF Touching
<1>8. ASSUME NEW o \in Objects
      PROVE  Lists(getIDs(geodata, o, rect), Touching(geo, o, rect))
  <2>1. CASE o \in Present(geo)
    <3>1. getIDs(geodata, o, rect) = search(geodata.trees[o], geodata.leaves[o], rect)
      BY <2>1, <1>4 DEF getIDs
    <3>2. QED
      BY <3>1, <2>1, <1>6
  <2>2. CASE o \notin Present(geo)
    <3>1. getIDs(geodata, o, rect) = << >>
      BY <2>2, <1>4 DEF getIDs
    <3>2. QED
      BY <3>1, <2>2, <1>7, EmptyLists
  <2>3. QED
    BY <2>1, <2>2
<1>9. containsData(geodata, rect) <=> \E o \in Present(geo) : Touching(geo, o, rect) # {}
  BY <1>4, <1>6 DEF containsData
<1>10. (\E o \in Present(geo) : Touching(geo, o, rect) # {})
       <=> \E o \in Objects : Touching(geo, o, rect) # {}
  BY <1>7 DEF Present
<1>11. QED
  BY <1>4, <1>8, <1>9, <1>10

-----------------------------------------------------------------------------
(* The importer.                                                           *)

\* What is known of a map, place by place.
LEMMA MapPlaces ==
    ASSUME NEW K, NEW T, NEW m
    PROVE  m \in Maps(K, T) <=> m \in [DOMAIN m -> T] /\ DOMAIN m \subseteq K
  BY DEF Maps

\* A map with one more key, or with another value for one.
LEMMA PutType ==
    ASSUME NEW K, NEW T, NEW m \in Maps(K, T), NEW key \in K, NEW value \in T
    PROVE  Put(m, key, value) \in Maps(K, T)
<1> DEFINE p == Put(m, key, value)
<1>1. m \in [DOMAIN m -> T] /\ DOMAIN m \subseteq K
  BY MapPlaces
<1>2. p = [x \in DOMAIN m \cup {key} |-> IF x = key THEN value ELSE m[x]]
  BY DEF Put
<1> HIDE DEF p
<1>3. DOMAIN p \subseteq K /\ p \in [DOMAIN p -> T]
  BY <1>1, <1>2
<1>4. QED
  BY <1>3, MapPlaces DEF p

\* Nothing is known at first.
LEMMA NoMap ==
    ASSUME NEW K, NEW T
    PROVE  << >> \in Maps(K, T)
<1>1. << >> \in [{} -> T] /\ DOMAIN << >> = {}
  OBVIOUS
<1>2. QED
  BY <1>1, MapPlaces

\* One more id.
LEMMA IdsGrow ==
    ASSUME NEW n \in Nat, NEW ids \in Ids(n), NEW id \in 0..n - 1
    PROVE  Append(ids, id) \in Ids(n)
  BY DEF Ids

\* What may go wrong.
Errors == {"none", "InputFormatException", "BadOsmIdException", "fault"}

\* The importer while it reads the properties of an entity.
Importers(base) ==
    [nodes : {base.nodes}, ways : {base.ways}, relations : {base.relations},
     nodeIds : {base.nodeIds}, wayIds : {base.wayIds}, clipped : {base.clipped},
     storage : SUBSET Words, props : PropsType(Len(base.nodes), Len(base.ways)),
     error : Errors]

\* What has an id is among the objects.
Known(base) ==
    /\ Len(base.nodes) \in Nat /\ Len(base.ways) \in Nat
    /\ \A id \in DOMAIN base.nodeIds : base.nodeIds[id] \in 0..Len(base.nodes) - 1
    /\ \A id \in DOMAIN base.wayIds : base.wayIds[id] \in 0..Len(base.ways) - 1

\* A string is resolved to a string.
LEMMA ResolvedType ==
    ASSUME NEW storage \in SUBSET Words, NEW str \in Words
    PROVE  Resolved(storage, str) \in Words
<1>1. CASE str \in storage \/ ~\E s \in storage : Hash[s] = Hash[str]
  BY <1>1 DEF Resolved
<1>2. CASE str \notin storage /\ \E s \in storage : Hash[s] = Hash[str]
  <2> DEFINE c == CHOOSE s \in storage : Hash[s] = Hash[str]
  <2>1. c \in storage
    BY <1>2
  <2>2. Resolved(storage, str) = c
    BY <1>2 DEF Resolved
  <2>3. QED
    BY <2>1, <2>2
<1>3. QED
  BY <1>1, <1>2

\* An exception leaves the importer what it was, ...
LEMMA ThrowType ==
    ASSUME NEW base, NEW p \in Importers(base), NEW what \in Errors
    PROVE  Throw(p, what) \in Importers(base)
  BY DEF Throw, Importers

\* ... and so does a string that is stored.
LEMMA InternType ==
    ASSUME NEW base, NEW p \in Importers(base), NEW str \in Words
    PROVE  Intern(p, str) \in Importers(base)
<1>1. p.storage \in SUBSET Words
  BY DEF Importers
<1>2. Resolved(p.storage, str) \in Words
  BY <1>1, ResolvedType
<1>3. p.storage \cup {Resolved(p.storage, str)} \in SUBSET Words
  BY <1>1, <1>2
<1>4. QED
  BY <1>3 DEF Intern, Importers

\* Other properties for the same importer.
LEMMA PropsReplaced ==
    ASSUME NEW base, NEW p \in Importers(base),
           NEW r \in PropsType(Len(base.nodes), Len(base.ways))
    PROVE  [p EXCEPT !.props = r] \in Importers(base)
<1> DEFINE P == PropsType(Len(base.nodes), Len(base.ways))
<1> HIDE DEF P
<1>1. p \in [nodes : {base.nodes}, ways : {base.ways}, relations : {base.relations},
             nodeIds : {base.nodeIds}, wayIds : {base.wayIds}, clipped : {base.clipped},
             storage : SUBSET Words, props : P, error : Errors] /\ r \in P
  BY DEF Importers, P
<1>2. [p EXCEPT !.props = r]
      \in [nodes : {base.nodes}, ways : {base.ways}, relations : {base.relations},
          nodeIds : {base.nodeIds}, wayIds : {base.wayIds}, clipped : {base.clipped},
          storage : SUBSET Words, props : P, error : Errors]
  BY <1>1
<1>3. QED
  BY <1>2 DEF Importers, P

\* A tag is read.
LEMMA ParseTagType ==
    ASSUME NEW base, NEW p \in Importers(base), NEW prop,
           {prop.k, prop.v} \subseteq {NoValue} \cup Words
    PROVE  ParseTag(p, prop) \in Importers(base)
<1>1. CASE NoValue \in {prop.k, prop.v}
  <2>1. ParseTag(p, prop) = Throw(p, "InputFormatException")
    BY <1>1 DEF ParseTag
  <2>2. QED
    BY <2>1, ThrowType DEF Errors
<1>2. CASE NoValue \notin {prop.k, prop.v}
  <2> DEFINE q == Intern(Intern(p, prop.k), prop.v)
             r == q.props
             k == Resolved(q.storage, prop.k)
             v == Resolved(q.storage, prop.v)
             s == [r EXCEPT !.tags = Put(r.tags, k, v)]
  <2>1. prop.k \in Words /\ prop.v \in Words
    BY <1>2
  <2>2. q \in Importers(base)
    BY <2>1, InternType
  <2>3. ParseTag(p, prop) = [q EXCEPT !.props = s]
    BY <1>2 DEF ParseTag
  <2> HIDE DEF q
  <2>4. r \in PropsType(Len(base.nodes), Len(base.ways)) /\ q.storage \in SUBSET Words
    BY <2>2 DEF Importers
  <2>5. k \in Words /\ v \in Words
    BY <2>1, <2>4, ResolvedType
  <2> HIDE DEF r, k, v
  <2>6. r.tags \in Maps(Words, Words)
    BY <2>4 DEF PropsType, Tags
  <2>7. Put(r.tags, k, v) \in Maps(Words, Words)
    BY <2>5, <2>6, PutType
  <2>8. s \in PropsType(Len(base.nodes), Len(base.ways))
    BY <2>4, <2>7 DEF PropsType, Tags
  <2> HIDE DEF s
  <2>9. QED
    BY <2>2, <2>3, <2>8, PropsReplaced
<1>3. QED
  BY <1>1, <1>2

\* A reference is to what is known, or an error.
LEMMA ReferenceType ==
    ASSUME NEW base, NEW p \in Importers(base), NEW ids, NEW prop
    PROVE  /\ Reference(p, ids, prop) \in Importers(base)
           /\ Reference(p, ids, prop).error = "none" =>
                 Reference(p, ids, prop) = p /\ prop.k \in DOMAIN ids
<1>1. /\ Throw(p, "InputFormatException") \in Importers(base)
      /\ Throw(p, "BadOsmIdException") \in Importers(base)
  BY ThrowType DEF Errors
<1>2. /\ Throw(p, "InputFormatException").error # "none"
      /\ Throw(p, "BadOsmIdException").error # "none"
  BY DEF Throw, Importers
<1>3. QED
  BY <1>1, <1>2 DEF Reference

\* A reference of a way is read.
LEMMA ParseNdType ==
    ASSUME NEW base, Known(base), NEW p \in Importers(base), NEW prop
    PROVE  ParseNd(p, prop) \in Importers(base)
<1> DEFINE q == Reference(p, p.nodeIds, prop)
           r == q.props
           id == q.nodeIds[prop.k]
           s == [r EXCEPT !.nodeIDs = Append(r.nodeIDs, id)]
<1>1. q \in Importers(base) /\ (q.error = "none" => q = p /\ prop.k \in DOMAIN p.nodeIds)
  BY ReferenceType
<1>2. ParseNd(p, prop) = IF q.error # "none" THEN q ELSE [q EXCEPT !.props = s]
  BY DEF ParseNd
<1> HIDE DEF q
<1>3. CASE q.error # "none"
  BY <1>1, <1>2, <1>3
<1>4. CASE q.error = "none"
  <2>1. q.nodeIds = base.nodeIds /\ r \in PropsType(Len(base.nodes), Len(base.ways))
    BY <1>1 DEF Importers
  <2>2. prop.k \in DOMAIN base.nodeIds
    BY <1>1, <1>4, <2>1
  <2>3. id \in 0..Len(base.nodes) - 1 /\ Len(base.nodes) \in Nat
    BY <2>1, <2>2 DEF Known
  <2> HIDE DEF r, id
  <2>4. r.nodeIDs \in Ids(Len(base.nodes))
    BY <2>1 DEF PropsType
  <2>5. Append(r.nodeIDs, id) \in Ids(Len(base.nodes))
    BY <2>3, <2>4, IdsGrow
  <2>6. s \in PropsType(Len(base.nodes), Len(base.ways))
    BY <2>1, <2>5 DEF PropsType
  <2>7. ParseNd(p, prop) = [q EXCEPT !.props = s]
    BY <1>2, <1>4
  <2> HIDE DEF s
  <2>8. [q EXCEPT !.props = s] \in Importers(base)
    BY <1>1, <2>6, PropsReplaced
  <2>9. QED
    BY <2>7, <2>8
<1>5. QED
  BY <1>3, <1>4

\* A member that is known has its role, or there is an error.
LEMMA WithRoleType ==
    ASSUME NEW base, NEW p \in Importers(base), NEW ids, NEW prop,
           prop.v \in {NoValue} \cup Words
    PROVE  /\ WithRole(p, ids, prop) \in Importers(base)
           /\ WithRole(p, ids, prop).error = "none" => prop.k \in DOMAIN ids /\ prop.v \in Words
<1> DEFINE q == Reference(p, ids, prop)
<1>1. q \in Importers(base) /\ (q.error = "none" => q = p /\ prop.k \in DOMAIN ids)
  BY ReferenceType
<1>2. /\ q.error # "none" => WithRole(p, ids, prop) = q
      /\ q.error = "none" /\ prop.v = NoValue =>
           WithRole(p, ids, prop) = Throw(q, "InputFormatException")
      /\ q.error = "none" /\ prop.v # NoValue => WithRole(p, ids, prop) = Intern(q, prop.v)
  BY DEF WithRole
<1> HIDE DEF q
<1>3. CASE q.error # "none"
  BY <1>1, <1>2, <1>3
<1>4. CASE q.error = "none" /\ prop.v = NoValue
  <2>1. /\ Throw(q, "InputFormatException") \in Importers(base)
        /\ Throw(q, "InputFormatException").error # "none"
    <3>1. Throw(q, "InputFormatException") \in Importers(base)
      BY <1>1, ThrowType DEF Errors
    <3>2. Throw(q, "InputFormatException").error = "InputFormatException"
      BY <1>1 DEF Throw, Importers
    <3>3. QED
      BY <3>1, <3>2
  <2>2. QED
    BY <1>2, <1>4, <2>1
<1>5. CASE q.error = "none" /\ prop.v # NoValue
  <2>1. Intern(q, prop.v) \in Importers(base)
    BY <1>1, <1>5, InternType
  <2>2. QED
    BY <1>1, <1>2, <1>5, <2>1
<1>6. QED
  BY <1>3, <1>4, <1>5

\* A member of a relation is read.
LEMMA ParseMemberType ==
    ASSUME NEW base, Known(base), NEW p \in Importers(base), NEW prop,
           prop.v \in {NoValue} \cup Words
    PROVE  ParseMember(p, prop) \in Importers(base)
<1> DEFINE N == Len(base.nodes)
           W == Len(base.ways)
<1>1. N \in Nat /\ W \in Nat
  BY DEF Known
<1>2. CASE prop.type = "node"
  <2> DEFINE q == WithRole(p, p.nodeIds, prop)
             r == q.props
             id == q.nodeIds[prop.k]
             role == Resolved(q.storage, prop.v)
             s == [r EXCEPT !.nodeIDs = Append(r.nodeIDs, id),
                            !.nodeRoles = Put(r.nodeRoles, id, role)]
  <2>1. /\ q \in Importers(base)
        /\ q.error = "none" => prop.k \in DOMAIN p.nodeIds /\ prop.v \in Words
    BY WithRoleType
  <2>2. ParseMember(p, prop) = IF q.error # "none" THEN q
           ELSE [q EXCEPT !.props.nodeIDs = Append(@, id), !.props.nodeRoles = Put(@, id, role)]
    BY <1>2 DEF ParseMember
  <2> HIDE DEF q
  <2>3. CASE q.error # "none"
    BY <2>1, <2>2, <2>3
  <2>4. CASE q.error = "none"
    <3>1. /\ q.nodeIds = base.nodeIds /\ r \in PropsType(N, W) /\ q.storage \in SUBSET Words
          /\ p.nodeIds = base.nodeIds
      BY <2>1 DEF Importers
    <3>2. prop.k \in DOMAIN base.nodeIds /\ prop.v \in Words
      BY <2>1, <2>4, <3>1
    <3>3. id \in 0..N - 1
      BY <3>1, <3>2 DEF Known
    <3>4. role \in Words
      BY <3>1, <3>2, ResolvedType
    <3>5. [q EXCEPT !.props.nodeIDs = Append(@, id), !.props.nodeRoles = Put(@, id, role)]
          = [q EXCEPT !.props = s]
      <4> HIDE DEF id, role
      <4>1. r \in [tags : Tags, nodeIDs : Ids(N), nodeRoles : Roles, wayIDs : Ids(W),
                    wayRoles : Roles]
        BY <3>1 DEF PropsType
      <4>2. QED
        BY <2>1, <4>1 DEF Importers
    <3> HIDE DEF id, role, r, N, W
    <3>6. r.nodeIDs \in Ids(N) /\ r.nodeRoles \in Maps(Nat, Words) /\ id \in Nat
      BY <1>1, <3>1, <3>3 DEF PropsType, Roles
    <3>7. Append(r.nodeIDs, id) \in Ids(N) /\ Put(r.nodeRoles, id, role) \in Maps(Nat, Words)
      BY <1>1, <3>3, <3>4, <3>6, IdsGrow, PutType
    <3>8. s \in PropsType(N, W)
      BY <3>1, <3>7 DEF PropsType, Roles
    <3> HIDE DEF s
    <3>9. [q EXCEPT !.props = s] \in Importers(base)
      BY <2>1, <3>8, PropsReplaced DEF N, W
    <3>10. ParseMember(p, prop) = [q EXCEPT !.props = s]
      BY <2>2, <2>4, <3>5
    <3>11. QED
      BY <3>9, <3>10
  <2>5. QED
    BY <2>3, <2>4
<1>3. CASE prop.type = "way"
  <2> DEFINE q == WithRole(p, p.wayIds, prop)
             r == q.props
             id == q.wayIds[prop.k]
             role == Resolved(q.storage, prop.v)
             s == [r EXCEPT !.wayIDs = Append(r.wayIDs, id),
                            !.wayRoles = Put(r.wayRoles, id, role)]
  <2>1. /\ q \in Importers(base)
        /\ q.error = "none" => prop.k \in DOMAIN p.wayIds /\ prop.v \in Words
    BY WithRoleType
  <2>2. ParseMember(p, prop) = IF q.error # "none" THEN q
           ELSE [q EXCEPT !.props.wayIDs = Append(@, id), !.props.wayRoles = Put(@, id, role)]
    BY <1>3 DEF ParseMember
  <2> HIDE DEF q
  <2>3. CASE q.error # "none"
    BY <2>1, <2>2, <2>3
  <2>4. CASE q.error = "none"
    <3>1. /\ q.wayIds = base.wayIds /\ r \in PropsType(N, W) /\ q.storage \in SUBSET Words
          /\ p.wayIds = base.wayIds
      BY <2>1 DEF Importers
    <3>2. prop.k \in DOMAIN base.wayIds /\ prop.v \in Words
      BY <2>1, <2>4, <3>1
    <3>3. id \in 0..W - 1
      BY <3>1, <3>2 DEF Known
    <3>4. role \in Words
      BY <3>1, <3>2, ResolvedType
    <3>5. [q EXCEPT !.props.wayIDs = Append(@, id), !.props.wayRoles = Put(@, id, role)]
          = [q EXCEPT !.props = s]
      <4> HIDE DEF id, role
      <4>1. r \in [tags : Tags, nodeIDs : Ids(N), nodeRoles : Roles, wayIDs : Ids(W),
                    wayRoles : Roles]
        BY <3>1 DEF PropsType
      <4>2. QED
        BY <2>1, <4>1 DEF Importers
    <3> HIDE DEF id, role, r, N, W
    <3>6. r.wayIDs \in Ids(W) /\ r.wayRoles \in Maps(Nat, Words) /\ id \in Nat
      BY <1>1, <3>1, <3>3 DEF PropsType, Roles
    <3>7. Append(r.wayIDs, id) \in Ids(W) /\ Put(r.wayRoles, id, role) \in Maps(Nat, Words)
      BY <1>1, <3>3, <3>4, <3>6, IdsGrow, PutType
    <3>8. s \in PropsType(N, W)
      BY <3>1, <3>7 DEF PropsType, Roles
    <3> HIDE DEF s
    <3>9. [q EXCEPT !.props = s] \in Importers(base)
      BY <2>1, <3>8, PropsReplaced DEF N, W
    <3>10. ParseMember(p, prop) = [q EXCEPT !.props = s]
      BY <2>2, <2>4, <3>5
    <3>11. QED
      BY <3>9, <3>10
  <2>5. QED
    BY <2>3, <2>4
<1>4. CASE prop.type # "node" /\ prop.type # "way"
  <2>1. ParseMember(p, prop) \in {p, Throw(p, "InputFormatException")}
    BY <1>4 DEF ParseMember
  <2>2. Throw(p, "InputFormatException") \in Importers(base)
    BY ThrowType DEF Errors
  <2>3. QED
    BY <2>1, <2>2
<1>5. QED
  BY <1>2, <1>3, <1>4

\* What may be a property.
IsProp(prop) ==
    /\ prop.name = "tag" => {prop.k, prop.v} \subseteq {NoValue} \cup Words
    /\ prop.name = "member" => prop.v \in {NoValue} \cup Words

\* Whatever the property is, the importer is one that reads.
LEMMA ParsePropertyType ==
    ASSUME NEW base, Known(base), NEW p \in Importers(base), NEW prop, IsProp(prop), NEW target
    PROVE  ParseProperty(target, p, prop) \in Importers(base)
<1>1. CASE p.error # "none"
  BY <1>1 DEF ParseProperty
<1>2. CASE p.error = "none" /\ prop.name = "tag"
  <2>1. ParseProperty(target, p, prop) = ParseTag(p, prop)
    BY <1>2 DEF ParseProperty
  <2>2. {prop.k, prop.v} \subseteq {NoValue} \cup Words
    BY <1>2 DEF IsProp
  <2>3. QED
    BY <2>1, <2>2, ParseTagType
<1>3. CASE p.error = "none" /\ prop.name = "nd" /\ target = "way"
  BY <1>3, ParseNdType DEF ParseProperty
<1>4. CASE p.error = "none" /\ prop.name = "member" /\ target = "relation"
  <2>1. ParseProperty(target, p, prop) = ParseMember(p, prop)
    BY <1>4 DEF ParseProperty
  <2>2. prop.v \in {NoValue} \cup Words
    BY <1>4 DEF IsProp
  <2>3. QED
    BY <2>1, <2>2, ParseMemberType
<1>5. QED
  BY <1>1, <1>2, <1>3, <1>4 DEF ParseProperty

\* What may be properties.
AreProps(props) ==
    Len(props) \in Nat /\ DOMAIN props = 1..Len(props) /\ \A i \in DOMAIN props : IsProp(props[i])

\* The importer that has begun with an entity.
LEMMA BeginsReading ==
    ASSUME NEW base, Known(base), base.storage \in SUBSET Words, base.error \in Errors,
           base = [nodes |-> base.nodes, ways |-> base.ways, relations |-> base.relations,
                   nodeIds |-> base.nodeIds, wayIds |-> base.wayIds, clipped |-> base.clipped,
                   storage |-> base.storage, props |-> base.props, error |-> base.error]
    PROVE  [base EXCEPT !.props = NoProps] \in Importers(base)
<1> DEFINE N == Len(base.nodes)
           W == Len(base.ways)
<1>1. N \in Nat /\ W \in Nat
  BY DEF Known
<1>2. << >> \in Ids(N) /\ << >> \in Ids(W) /\ << >> \in Tags /\ << >> \in Roles
  BY <1>1, NoMap DEF Ids, Tags, Roles
<1> HIDE DEF N, W
<1>3. NoProps \in PropsType(N, W)
  BY <1>2 DEF NoProps, PropsType
<1>4. [base EXCEPT !.props = NoProps]
      = [nodes |-> base.nodes, ways |-> base.ways, relations |-> base.relations,
         nodeIds |-> base.nodeIds, wayIds |-> base.wayIds, clipped |-> base.clipped,
         storage |-> base.storage, props |-> NoProps, error |-> base.error]
  OBVIOUS
<1>5. QED
  BY <1>3, <1>4 DEF Importers, N, W

\* However many properties there are, the importer goes on.
LEMMA ParsePropertiesType ==
    ASSUME NEW base, Known(base), [base EXCEPT !.props = NoProps] \in Importers(base),
           NEW target, NEW props, AreProps(props)
    PROVE  parseProperties(base, target, props) \in Importers(base)
<1> DEFINE n == Len(props)
           V == Importers(base)
           first == [base EXCEPT !.props = NoProps]
           goes(a, j) == ParseProperty(target, a, props[j])
           W == CHOOSE iter : iter = [s \in SUBSET (DOMAIN props) |->
                    IF s = {} THEN first
                    ELSE LET x == Max(s)
                         IN  ParseProperty(target, iter[s \ {x}], props[x])]
           step == [a \in V \X (1..n) |-> goes(a[1], a[2])]
<1>1. n \in Nat /\ DOMAIN props = 1..n /\ \A j \in 1..n : IsProp(props[j])
  BY DEF AreProps
<1>2. parseProperties(base, target, props) = W[DOMAIN props]
  BY DEF parseProperties, FoldLeft, MapThenFoldSet
<1>3. W = CHOOSE iter : iter = [s \in SUBSET (1..n) |->
                    IF s = {} THEN first ELSE goes(iter[s \ {Max(s)}], Max(s))]
  BY <1>1
<1>5. first \in V
  OBVIOUS
<1> HIDE DEF n, V, W, first
<1>4. \A a \in V : \A j \in 1..n : goes(a, j) \in V
  BY <1>1, ParsePropertyType DEF V
<1> HIDE DEF goes
<1>6. step \in [V \X (1..n) -> V]
  BY <1>4
<1>7. PICK it \in [SUBSET (1..n) -> V] : FoldsBy(it, n, first, step)
  <2> HIDE DEF step
  <2>1. QED
    BY <1>1, <1>5, <1>6, FoldExists
<1>8. ASSUME NEW s \in SUBSET (1..n), s # {}
      PROVE  step[<<it[s \ {Max(s)}], Max(s)>>] = goes(it[s \ {Max(s)}], Max(s))
  BY <1>8, <1>1, MaxOfSome
<1>9. it = [s \in SUBSET (1..n) |-> IF s = {} THEN first ELSE goes(it[s \ {Max(s)}], Max(s))]
  <2> HIDE DEF step
  <2>1. QED
    BY <1>7, <1>8 DEF FoldsBy
<1>10. W = [s \in SUBSET (1..n) |-> IF s = {} THEN first ELSE goes(W[s \ {Max(s)}], Max(s))]
  <2> DEFINE F(f) == [s \in SUBSET (1..n) |->
                        IF s = {} THEN first ELSE goes(f[s \ {Max(s)}], Max(s))]
  <2>1. W = CHOOSE f : f = F(f)
    BY <1>3
  <2>2. it = F(it)
    BY <1>9
  <2> HIDE DEF F
  <2>3. W = F(W)
    BY <2>1, <2>2
  <2>4. QED
    BY <2>3 DEF F
<1>11. W[{}] = first
  BY <1>10
<1>12. ASSUME NEW s \in SUBSET (1..n), s # {}, W[s \ {Max(s)}] \in V
       PROVE  W[s] = step[<<W[s \ {Max(s)}], Max(s)>>]
  <2>1. W[s] = goes(W[s \ {Max(s)}], Max(s))
    BY <1>10, <1>12
  <2>2. Max(s) \in 1..n
    BY <1>1, <1>12, MaxOfSome
  <2>3. QED
    BY <2>1, <2>2, <1>12
<1>13. \A a \in V : \A i \in 1..n : step[<<a, i>>] = goes(a, i)
  OBVIOUS
<1> HIDE DEF step
<1>14. PICK q : GoesBy(q, n, V, W[{}], step) /\ W[1..n] = q[n]
  <2>1. StepsBy(W, n, V, step)
    BY <1>1, <1>5, <1>6, <1>11, <1>12 DEF StepsBy
  <2>2. QED
    BY <2>1, FoldPlaces
<1>15. q[n] \in V
  <2>1. n \in 0..n
    BY <1>1
  <2>2. QED
    BY <2>1, <1>14 DEF GoesBy
<1>16. QED
  BY <1>1, <1>2, <1>14, <1>15 DEF V

\* The importer between two entities.
ParserOK(p) ==
    /\ p \in [nodes : Seq(NodeObject), ways : Seq(WayObject(Len(p.nodes))),
              relations : Seq(RelationObject(Len(p.nodes), Len(p.ways))),
              nodeIds : {p.nodeIds}, wayIds : {p.wayIds}, clipped : {p.clipped},
              storage : SUBSET Words, props : {p.props}, error : Errors]
    /\ Known(p)

\* Reading properties leaves the objects alone.
LEMMA StillOK ==
    ASSUME NEW p, ParserOK(p), NEW q \in Importers(p)
    PROVE  ParserOK(q)
<1>1. /\ q.nodes = p.nodes /\ q.ways = p.ways /\ q.relations = p.relations
      /\ q.nodeIds = p.nodeIds /\ q.wayIds = p.wayIds /\ q.storage \in SUBSET Words
      /\ q.error \in Errors
      /\ q = [nodes |-> q.nodes, ways |-> q.ways, relations |-> q.relations,
              nodeIds |-> q.nodeIds, wayIds |-> q.wayIds, clipped |-> q.clipped,
              storage |-> q.storage, props |-> q.props, error |-> q.error]
  BY DEF Importers
<1>2. /\ p.nodes \in Seq(NodeObject) /\ p.ways \in Seq(WayObject(Len(p.nodes)))
      /\ p.relations \in Seq(RelationObject(Len(p.nodes), Len(p.ways)))
  BY DEF ParserOK
<1>3. Known(q)
  BY <1>1 DEF Known, ParserOK
<1>4. q \in [nodes : Seq(NodeObject), ways : Seq(WayObject(Len(q.nodes))),
             relations : Seq(RelationObject(Len(q.nodes), Len(q.ways))),
             nodeIds : {q.nodeIds}, wayIds : {q.wayIds}, clipped : {q.clipped},
             storage : SUBSET Words, props : {q.props}, error : Errors]
  BY <1>1, <1>2
<1>5. QED
  BY <1>3, <1>4 DEF ParserOK

\* What is read of an entity's properties.
LEMMA PropertiesRead ==
    ASSUME NEW p, ParserOK(p), NEW target, NEW props, AreProps(props)
    PROVE  /\ parseProperties(p, target, props) \in Importers(p)
           /\ ParserOK(parseProperties(p, target, props))
<1>1. /\ p.storage \in SUBSET Words /\ p.error \in Errors /\ Known(p)
      /\ p = [nodes |-> p.nodes, ways |-> p.ways, relations |-> p.relations,
              nodeIds |-> p.nodeIds, wayIds |-> p.wayIds, clipped |-> p.clipped,
              storage |-> p.storage, props |-> p.props, error |-> p.error]
  BY DEF ParserOK
<1>2. [p EXCEPT !.props = NoProps] \in Importers(p)
  BY <1>1, BeginsReading
<1>3. parseProperties(p, target, props) \in Importers(p)
  BY <1>1, <1>2, ParsePropertiesType
<1>4. QED
  BY <1>3, StillOK

\* More objects leave the references what they are.
LEMMA TypesGrow ==
    ASSUME NEW n \in Nat, NEW w \in Nat, NEW n1 \in Nat, NEW w1 \in Nat, n <= n1, w <= w1
    PROVE  /\ WayObject(n) \subseteq WayObject(n1)
           /\ RelationObject(n, w) \subseteq RelationObject(n1, w1)
<1>1. 0..n - 1 \subseteq 0..n1 - 1 /\ 0..w - 1 \subseteq 0..w1 - 1
  OBVIOUS
<1>2. \A S, T : S \subseteq T => Seq(S) \subseteq Seq(T)
  <2> SUFFICES ASSUME NEW S, NEW T, S \subseteq T, NEW s \in Seq(S) PROVE s \in Seq(T)
    OBVIOUS
  <2>1. \A i \in 1..Len(s) : s[i] \in T
    OBVIOUS
  <2>2. QED
    BY <2>1, SeqOfElements
<1>3. Ids(n) \subseteq Ids(n1) /\ Ids(w) \subseteq Ids(w1)
  BY <1>1, <1>2 DEF Ids
<1>4. QED
  BY <1>3 DEF WayObject, RelationObject, PropsType

\* A sequence of a set is one of a larger set.
LEMMA SeqGrows ==
    ASSUME NEW S, NEW T, S \subseteq T, NEW s \in Seq(S)
    PROVE  s \in Seq(T)
<1>1. \A i \in 1..Len(s) : s[i] \in T
  OBVIOUS
<1>2. QED
  BY <1>1, SeqOfElements

\* A key that is new, or keeps its value, has a value as the others have.
LEMMA PutNewPlaces ==
    ASSUME NEW m, NEW key, NEW value, NEW T, value \in T, \A i \in DOMAIN m : m[i] \in T
    PROVE  \A i \in DOMAIN PutNew(m, key, value) : PutNew(m, key, value)[i] \in T
  BY DEF PutNew, Put

\* The fields of an importer.
Shaped(q) ==
    q = [nodes |-> q.nodes, ways |-> q.ways, relations |-> q.relations, nodeIds |-> q.nodeIds,
         wayIds |-> q.wayIds, clipped |-> q.clipped, storage |-> q.storage, props |-> q.props,
         error |-> q.error]

\* The importer has these fields.
LEMMA ParserIsShaped ==
    ASSUME NEW q, ParserOK(q)
    PROVE  Shaped(q)
  BY DEF Shaped, ParserOK

\* A node, a way and a relation are added.
WithNode(q, id, node) ==
    [q EXCEPT !.nodeIds = PutNew(@, id, Len(q.nodes)), !.nodes = Append(@, node)]
WithWay(q, id, way) ==
    [q EXCEPT !.wayIds = PutNew(@, id, Len(q.ways)), !.ways = Append(@, way)]
WithRelation(q, relation) == [q EXCEPT !.relations = Append(@, relation)]

\* With one more node all references are still in range, ...
LEMMA NodeAdded ==
    ASSUME NEW q, ParserOK(q), NEW id, NEW node \in NodeObject
    PROVE  ParserOK(WithNode(q, id, node))
<1> DEFINE r == WithNode(q, id, node)
           ids == PutNew(q.nodeIds, id, Len(q.nodes))
           nodes == Append(q.nodes, node)
           N == Len(q.nodes)
           W == Len(q.ways)
<1>1. /\ q \in [nodes : Seq(NodeObject), ways : Seq(WayObject(N)),
                relations : Seq(RelationObject(N, W)),
                nodeIds : {q.nodeIds}, wayIds : {q.wayIds}, clipped : {q.clipped},
                storage : SUBSET Words, props : {q.props}, error : Errors]
      /\ N \in Nat /\ W \in Nat
      /\ \A i \in DOMAIN q.nodeIds : q.nodeIds[i] \in 0..N - 1
      /\ \A i \in DOMAIN q.wayIds : q.wayIds[i] \in 0..W - 1
  BY DEF ParserOK, Known
<1> HIDE DEF N, W
<1>2. nodes \in Seq(NodeObject) /\ Len(nodes) = N + 1
  BY <1>1 DEF N
<1>3. \A i \in DOMAIN ids : ids[i] \in 0..N
  <2>1. N \in 0..N /\ \A i \in DOMAIN q.nodeIds : q.nodeIds[i] \in 0..N
    BY <1>1
  <2>2. ids = PutNew(q.nodeIds, id, N)
    BY DEF N
  <2> HIDE DEF ids
  <2>3. QED
    BY <2>1, <2>2, PutNewPlaces
<1> HIDE DEF ids, nodes
<1>4. /\ r.nodes = nodes /\ r.nodeIds = ids /\ r.ways = q.ways /\ r.wayIds = q.wayIds
      /\ r.relations = q.relations
      /\ r = [nodes |-> nodes, ways |-> q.ways, relations |-> q.relations, nodeIds |-> ids,
              wayIds |-> q.wayIds, clipped |-> q.clipped, storage |-> q.storage,
              props |-> q.props, error |-> q.error]
  <2>1. Shaped(q)
    BY ParserIsShaped
  <2>2. r = [q EXCEPT !.nodeIds = ids, !.nodes = nodes]
    BY DEF WithNode, ids, nodes
  <2> HIDE DEF r
  <2>3. QED
    BY <2>1, <2>2 DEF Shaped
<1>5. q.ways \in Seq(WayObject(N + 1)) /\ q.relations \in Seq(RelationObject(N + 1, W))
  <2>1. N + 1 \in Nat /\ N <= N + 1 /\ W <= W
    BY <1>1
  <2>2. /\ WayObject(N) \subseteq WayObject(N + 1)
        /\ RelationObject(N, W) \subseteq RelationObject(N + 1, W)
    BY <1>1, <2>1, TypesGrow
  <2>3. q.ways \in Seq(WayObject(N)) /\ q.relations \in Seq(RelationObject(N, W))
    BY <1>1
  <2>4. QED
    BY <2>2, <2>3, SeqGrows
<1>6. q.storage \in SUBSET Words /\ q.error \in Errors
  BY <1>1
<1> HIDE DEF r
<1>7. Len(r.nodes) = N + 1 /\ Len(r.ways) = W
  BY <1>2, <1>4 DEF W
<1>8. r \in [nodes : Seq(NodeObject), ways : Seq(WayObject(N + 1)),
             relations : Seq(RelationObject(N + 1, W)),
             nodeIds : {r.nodeIds}, wayIds : {r.wayIds}, clipped : {r.clipped},
             storage : SUBSET Words, props : {r.props}, error : Errors]
  BY <1>2, <1>4, <1>5, <1>6
<1>9. Known(r)
  <2>1. (N + 1) - 1 = N /\ N + 1 \in Nat
    <3>1. N \in Nat
      BY <1>1
    <3>2. QED
      BY <3>1
  <2>2. QED
    BY <1>1, <1>3, <1>4, <1>7, <2>1 DEF Known
<1>10. QED
  BY <1>7, <1>8, <1>9 DEF ParserOK, r

\* ... and with one more way, ...
LEMMA WayAdded ==
    ASSUME NEW q, ParserOK(q), NEW id, NEW way \in WayObject(Len(q.nodes))
    PROVE  ParserOK(WithWay(q, id, way))
<1> DEFINE r == WithWay(q, id, way)
           ids == PutNew(q.wayIds, id, Len(q.ways))
           ways == Append(q.ways, way)
           N == Len(q.nodes)
           W == Len(q.ways)
<1>1. /\ q \in [nodes : Seq(NodeObject), ways : Seq(WayObject(N)),
                relations : Seq(RelationObject(N, W)),
                nodeIds : {q.nodeIds}, wayIds : {q.wayIds}, clipped : {q.clipped},
                storage : SUBSET Words, props : {q.props}, error : Errors]
      /\ N \in Nat /\ W \in Nat
      /\ \A i \in DOMAIN q.nodeIds : q.nodeIds[i] \in 0..N - 1
      /\ \A i \in DOMAIN q.wayIds : q.wayIds[i] \in 0..W - 1
      /\ way \in WayObject(N)
  BY DEF ParserOK, Known
<1> HIDE DEF N, W
<1>2. ways \in Seq(WayObject(N)) /\ Len(ways) = W + 1
  <2> DEFINE T == WayObject(N)
  <2>1. q.ways \in Seq(T) /\ way \in T
    BY <1>1
  <2> HIDE DEF T
  <2>2. ways \in Seq(T) /\ Len(ways) = W + 1
    BY <2>1 DEF W
  <2>3. QED
    BY <2>2 DEF T
<1>3. \A i \in DOMAIN ids : ids[i] \in 0..W
  <2>1. W \in 0..W /\ \A i \in DOMAIN q.wayIds : q.wayIds[i] \in 0..W
    BY <1>1
  <2>2. ids = PutNew(q.wayIds, id, W)
    BY DEF W
  <2> HIDE DEF ids
  <2>3. QED
    BY <2>1, <2>2, PutNewPlaces
<1> HIDE DEF ids, ways
<1>4. /\ r.ways = ways /\ r.wayIds = ids /\ r.nodes = q.nodes /\ r.nodeIds = q.nodeIds
      /\ r.relations = q.relations
      /\ r = [nodes |-> q.nodes, ways |-> ways, relations |-> q.relations,
              nodeIds |-> q.nodeIds, wayIds |-> ids, clipped |-> q.clipped,
              storage |-> q.storage, props |-> q.props, error |-> q.error]
  <2>1. Shaped(q)
    BY ParserIsShaped
  <2>2. r = [q EXCEPT !.wayIds = ids, !.ways = ways]
    BY DEF WithWay, ids, ways
  <2> HIDE DEF r
  <2>3. QED
    BY <2>1, <2>2 DEF Shaped
<1>5. q.relations \in Seq(RelationObject(N, W + 1))
  <2>1. W + 1 \in Nat /\ N <= N /\ W <= W + 1
    BY <1>1
  <2>2. RelationObject(N, W) \subseteq RelationObject(N, W + 1)
    BY <1>1, <2>1, TypesGrow
  <2>3. q.relations \in Seq(RelationObject(N, W))
    BY <1>1
  <2>4. QED
    BY <2>2, <2>3, SeqGrows
<1>6. q.storage \in SUBSET Words /\ q.error \in Errors /\ q.nodes \in Seq(NodeObject)
  BY <1>1
<1> HIDE DEF r
<1>7. Len(r.nodes) = N /\ Len(r.ways) = W + 1
  BY <1>2, <1>4 DEF N
<1>8. r \in [nodes : Seq(NodeObject), ways : Seq(WayObject(N)),
             relations : Seq(RelationObject(N, W + 1)),
             nodeIds : {r.nodeIds}, wayIds : {r.wayIds}, clipped : {r.clipped},
             storage : SUBSET Words, props : {r.props}, error : Errors]
  BY <1>2, <1>4, <1>5, <1>6
<1>9. Known(r)
  <2>1. (W + 1) - 1 = W /\ W + 1 \in Nat
    <3>1. W \in Nat
      BY <1>1
    <3>2. QED
      BY <3>1
  <2>2. QED
    BY <1>1, <1>3, <1>4, <1>7, <2>1 DEF Known
<1>10. QED
  BY <1>7, <1>8, <1>9 DEF ParserOK, r

\* ... and with one more relation.
LEMMA RelationAdded ==
    ASSUME NEW q, ParserOK(q), NEW relation \in RelationObject(Len(q.nodes), Len(q.ways))
    PROVE  ParserOK(WithRelation(q, relation))
<1> DEFINE r == WithRelation(q, relation)
           N == Len(q.nodes)
           W == Len(q.ways)
           T == RelationObject(N, W)
           relations == Append(q.relations, relation)
<1>1. /\ q \in [nodes : Seq(NodeObject), ways : Seq(WayObject(N)), relations : Seq(T),
               nodeIds : {q.nodeIds}, wayIds : {q.wayIds}, clipped : {q.clipped},
               storage : SUBSET Words, props : {q.props}, error : Errors]
      /\ relation \in T /\ Known(q)
  BY DEF ParserOK
<1> HIDE DEF T
<1>2. relations \in Seq(T)
  BY <1>1
<1>3. r = [nodes |-> q.nodes, ways |-> q.ways, relations |-> relations,
           nodeIds |-> q.nodeIds, wayIds |-> q.wayIds, clipped |-> q.clipped,
           storage |-> q.storage, props |-> q.props, error |-> q.error]
  <2>1. Shaped(q)
    BY ParserIsShaped
  <2>2. r = [q EXCEPT !.relations = relations]
    BY DEF WithRelation
  <2> HIDE DEF r, relations
  <2>3. QED
    BY <2>1, <2>2 DEF Shaped
<1> HIDE DEF r, relations
<1>4. r \in [nodes : Seq(NodeObject), ways : Seq(WayObject(N)), relations : Seq(T),
             nodeIds : {r.nodeIds}, wayIds : {r.wayIds}, clipped : {r.clipped},
             storage : SUBSET Words, props : {r.props}, error : Errors]
  BY <1>1, <1>2, <1>3
<1>5. r.nodes = q.nodes /\ r.ways = q.ways /\ r.nodeIds = q.nodeIds /\ r.wayIds = q.wayIds
  BY <1>3
<1>6. Known(r)
  BY <1>1, <1>5 DEF Known
<1>7. QED
  BY <1>4, <1>5, <1>6 DEF ParserOK, r, T, N, W

\* They are when there is an error, ...
LEMMA ThrownOK ==
    ASSUME NEW p, ParserOK(p), NEW what \in Errors
    PROVE  ParserOK([p EXCEPT !.error = what])
<1> DEFINE q == [p EXCEPT !.error = what]
           N == Len(p.nodes)
           W == Len(p.ways)
<1>1. /\ p \in [nodes : Seq(NodeObject), ways : Seq(WayObject(N)),
                relations : Seq(RelationObject(N, W)),
                nodeIds : {p.nodeIds}, wayIds : {p.wayIds}, clipped : {p.clipped},
                storage : SUBSET Words, props : {p.props}, error : Errors]
      /\ Known(p)
  BY DEF ParserOK
<1> HIDE DEF N, W
<1>2. /\ q.nodes = p.nodes /\ q.ways = p.ways /\ q.nodeIds = p.nodeIds /\ q.wayIds = p.wayIds
      /\ q \in [nodes : Seq(NodeObject), ways : Seq(WayObject(N)),
                relations : Seq(RelationObject(N, W)),
                nodeIds : {q.nodeIds}, wayIds : {q.wayIds}, clipped : {q.clipped},
                storage : SUBSET Words, props : {q.props}, error : Errors]
  BY <1>1
<1> HIDE DEF q
<1>3. Known(q)
  BY <1>1, <1>2 DEF Known
<1>4. QED
  BY <1>2, <1>3 DEF ParserOK, N, W, q

\* ... and when a node is clipped.
LEMMA ClippedOK ==
    ASSUME NEW p, ParserOK(p), NEW ids
    PROVE  ParserOK([p EXCEPT !.clipped = ids])
<1> DEFINE q == [p EXCEPT !.clipped = ids]
           N == Len(p.nodes)
           W == Len(p.ways)
<1>1. /\ p \in [nodes : Seq(NodeObject), ways : Seq(WayObject(N)),
                relations : Seq(RelationObject(N, W)),
                nodeIds : {p.nodeIds}, wayIds : {p.wayIds}, clipped : {p.clipped},
                storage : SUBSET Words, props : {p.props}, error : Errors]
      /\ Known(p)
  BY DEF ParserOK
<1> HIDE DEF N, W
<1>2. /\ q.nodes = p.nodes /\ q.ways = p.ways /\ q.nodeIds = p.nodeIds /\ q.wayIds = p.wayIds
      /\ q \in [nodes : Seq(NodeObject), ways : Seq(WayObject(N)),
                relations : Seq(RelationObject(N, W)),
                nodeIds : {q.nodeIds}, wayIds : {q.wayIds}, clipped : {q.clipped},
                storage : SUBSET Words, props : {q.props}, error : Errors]
  BY <1>1
<1> HIDE DEF q
<1>3. Known(q)
  BY <1>1, <1>2 DEF Known
<1>4. QED
  BY <1>2, <1>3 DEF ParserOK, N, W, q

\* An entity leaves the importer as it should be.
LEMMA NodeRead ==
    ASSUME NEW p, ParserOK(p), NEW node, node.loc \in {NoValue} \cup Points,
           AreProps(node.props), NEW bounds
    PROVE  ParserOK(parseNode(p, node, bounds))
<1> DEFINE q == parseProperties(p, "node", node.props)
           made == [loc |-> node.loc, tags |-> q.props.tags]
<1>1. q \in Importers(p) /\ ParserOK(q)
  BY PropertiesRead
<1>2. parseNode(p, node, bounds) =
        IF NoValue \in {node.id, node.loc} THEN Throw(p, "InputFormatException")
        ELSE IF ~contains(bounds, PointRect(node.loc))
        THEN [p EXCEPT !.clipped = @ \cup {node.id}]
        ELSE IF q.error # "none" THEN q ELSE WithNode(q, node.id, made)
  BY DEF parseNode, WithNode
<1> HIDE DEF q, made
<1>3. ParserOK(Throw(p, "InputFormatException"))
  BY ThrownOK DEF Throw, Errors
<1>4. ParserOK([p EXCEPT !.clipped = @ \cup {node.id}])
  BY ClippedOK
<1>5. ASSUME NoValue \notin {node.id, node.loc} PROVE ParserOK(WithNode(q, node.id, made))
  <2>1. node.loc \in Points
    BY <1>5
  <2>2. q.props.tags \in Tags
    BY <1>1 DEF Importers, PropsType
  <2>3. made \in NodeObject
    BY <2>1, <2>2 DEF made, NodeObject
  <2>4. QED
    BY <1>1, <2>3, NodeAdded
<1>6. QED
  BY <1>1, <1>2, <1>3, <1>4, <1>5

\* The same for ways, ...
LEMMA WayRead ==
    ASSUME NEW p, ParserOK(p), NEW way, AreProps(way.props)
    PROVE  ParserOK(parseWay(p, way))
<1> DEFINE q == parseProperties(p, "way", way.props)
           made == [tags |-> q.props.tags, nodeIDs |-> q.props.nodeIDs]
<1>1. q \in Importers(p) /\ ParserOK(q)
  BY PropertiesRead
<1>2. parseWay(p, way) =
        IF way.id = NoValue THEN Throw(p, "InputFormatException")
        ELSE IF q.error # "none" \/ q.props.nodeIDs = << >> THEN q ELSE WithWay(q, way.id, made)
  BY DEF parseWay, WithWay
<1> HIDE DEF q, made
<1>3. ParserOK(Throw(p, "InputFormatException"))
  BY ThrownOK DEF Throw, Errors
<1>4. ASSUME q.props.nodeIDs # << >> PROVE ParserOK(WithWay(q, way.id, made))
  <2>1. q.props.tags \in Tags /\ q.props.nodeIDs \in Ids(Len(p.nodes)) /\ q.nodes = p.nodes
    BY <1>1 DEF Importers, PropsType
  <2>2. made \in WayObject(Len(q.nodes))
    BY <1>4, <2>1 DEF made, WayObject
  <2>3. QED
    BY <1>1, <2>2, WayAdded
<1>5. QED
  BY <1>1, <1>2, <1>3, <1>4

\* ... for relations ...
LEMMA RelationRead ==
    ASSUME NEW p, ParserOK(p), NEW relation, AreProps(relation.props)
    PROVE  ParserOK(parseRelation(p, relation))
<1> DEFINE q == parseProperties(p, "relation", relation.props)
<1>1. q \in Importers(p) /\ ParserOK(q)
  BY PropertiesRead
<1>2. parseRelation(p, relation) =
        IF relation.id = NoValue THEN Throw(p, "InputFormatException")
        ELSE IF q.error # "none" \/ (q.props.nodeIDs = << >> /\ q.props.wayIDs = << >>) THEN q
        ELSE WithRelation(q, q.props)
  BY DEF parseRelation, WithRelation
<1> HIDE DEF q
<1>3. ParserOK(Throw(p, "InputFormatException"))
  BY ThrownOK DEF Throw, Errors
<1>4. ASSUME q.props.nodeIDs # << >> \/ q.props.wayIDs # << >>
      PROVE  ParserOK(WithRelation(q, q.props))
  <2>1. /\ q.props \in PropsType(Len(p.nodes), Len(p.ways)) /\ q.nodes = p.nodes /\ q.ways = p.ways
    BY <1>1 DEF Importers
  <2>2. q.props \in RelationObject(Len(q.nodes), Len(q.ways))
    BY <1>4, <2>1 DEF RelationObject
  <2>3. QED
    BY <1>1, <2>2, RelationAdded
<1>5. QED
  BY <1>1, <1>2, <1>3, <1>4

\* ... and for any entity.
LEMMA EntityRead ==
    ASSUME NEW p, ParserOK(p), NEW entity, IsEntity(entity), NEW bounds, NEW check
    PROVE  ParserOK(ParseEntity(p, entity, bounds, check))
<1> DEFINE q == parseEntity(p, entity, bounds, check)
<1>1. AreProps(entity.props) /\ (entity.name = "node" => entity.loc \in {NoValue} \cup Points)
  BY DEF IsEntity, AreProps, IsProp
<1>2. ParserOK(q)
  <2>1. CASE entity.name = "bounds"
    BY <2>1 DEF parseEntity
  <2>2. CASE entity.name = "node"
    <3>1. q = parseNode(p, entity, bounds)
      BY <2>2 DEF parseEntity
    <3>2. QED
      BY <2>2, <3>1, <1>1, NodeRead
  <2>3. CASE entity.name = "way"
    <3>1. q = parseWay(p, entity)
      BY <2>3 DEF parseEntity
    <3>2. QED
      BY <3>1, <1>1, WayRead
  <2>4. CASE entity.name = "relation"
    <3>1. q = parseRelation(p, entity)
      BY <2>4 DEF parseEntity
    <3>2. QED
      BY <3>1, <1>1, RelationRead
  <2>5. CASE entity.name \notin {"bounds", "node", "way", "relation"}
    <3>1. q = Throw(p, IF check THEN "InputFormatException" ELSE "fault")
      BY <2>5 DEF parseEntity
    <3>2. (IF check THEN "InputFormatException" ELSE "fault") \in Errors
      BY DEF Errors
    <3>3. QED
      BY <3>1, <3>2, ThrownOK DEF Throw
  <2>6. QED
    BY <2>1, <2>2, <2>3, <2>4, <2>5
<1>3. ParseEntity(p, entity, bounds, check) =
        IF q.error = "BadOsmIdException" THEN [q EXCEPT !.error = "none"] ELSE q
  BY DEF ParseEntity
<1> HIDE DEF q
<1>4. ParserOK([q EXCEPT !.error = "none"])
  BY <1>2, ThrownOK DEF Errors
<1>5. QED
  BY <1>2, <1>3, <1>4

-----------------------------------------------------------------------------
(* From the document to what a job finds.                                  *)

\* The objects that have been read.
Read(p) == [nodes |-> p.nodes, ways |-> p.ways, relations |-> p.relations]

\* Their references are in range.
LEMMA ReadIsOK ==
    ASSUME NEW p, ParserOK(p)
    PROVE  GeoOK(Read(p))
<1>1. /\ p.nodes \in Seq(NodeObject) /\ p.ways \in Seq(WayObject(Len(p.nodes)))
      /\ p.relations \in Seq(RelationObject(Len(p.nodes), Len(p.ways)))
  BY DEF ParserOK
<1>2. Read(p).nodes = p.nodes /\ Read(p).ways = p.ways /\ Read(p).relations = p.relations
  BY DEF Read
<1>3. QED
  BY <1>1, <1>2 DEF GeoOK

\* The importer begins without objects.
LEMMA EmptyParserIsOK == ParserOK(EmptyParser)
<1> DEFINE p == EmptyParser
<1>1. /\ p.nodes = << >> /\ p.ways = << >> /\ p.relations = << >> /\ p.nodeIds = << >>
      /\ p.wayIds = << >> /\ p.storage = Precached /\ p.error = "none" /\ Shaped(p)
  BY DEF EmptyParser, Shaped
<1>2. Len(<< >>) = 0 /\ DOMAIN << >> = {} /\ \A T : << >> \in Seq(T)
  OBVIOUS
<1> HIDE DEF p
<1>3. Known(p)
  BY <1>1, <1>2 DEF Known
<1>4. p.storage \in SUBSET Words /\ p.error \in Errors
  BY <1>1, WordAssumption DEF Errors
<1>5. p \in [nodes : Seq(NodeObject), ways : Seq(WayObject(Len(p.nodes))),
             relations : Seq(RelationObject(Len(p.nodes), Len(p.ways))),
             nodeIds : {p.nodeIds}, wayIds : {p.wayIds}, clipped : {p.clipped},
             storage : SUBSET Words, props : {p.props}, error : Errors]
  BY <1>1, <1>2, <1>4 DEF Shaped
<1>6. QED
  BY <1>3, <1>5 DEF ParserOK, p

\* What is on a tile, and what there is of it in the hands of a job.
OnTile(geodata, t, o) == Touching(geodata.objects, o, JobRect(MetaOfTile(t)))
FindsAll(geodata, t, f) ==
    DOMAIN f = Objects /\ \A o \in Objects : Lists(f[o], OnTile(geodata, t, o))
SomeThere(geodata, t) == \E o \in Objects : OnTile(geodata, t, o) # {}

\* A job on the geodata that was saved and loaded finds what is on its tile.
LEMMA JobFinds ==
    ASSUME NEW p, ParserOK(p), NEW geodata, geodata = load(save(Read(p))),
           NEW t, t.x \in Int, t.y \in Int, t.zoom \in Nat
    PROVE  /\ FindsAll(geodata, t, Look(geodata, JobRect(MetaOfTile(t))))
           /\ containsData(geodata, JobRect(MetaOfTile(t))) <=> SomeThere(geodata, t)
<1> DEFINE rect == JobRect(MetaOfTile(t))
           geo == Read(p)
<1>1. rect \in Rects /\ GeoOK(geo)
  BY JobAsksForRect, ReadIsOK
<1>2. DOMAIN NothingFound = Objects
  BY DEF NothingFound, Objects
<1>3. /\ DOMAIN Look(geodata, rect) = Objects
      /\ \A o \in Objects : Look(geodata, rect)[o] = getIDs(geodata, o, rect)
  BY <1>2 DEF Look
<1>4. \A o \in Objects : OnTile(geodata, t, o) = Touching(geodata.objects, o, rect)
  BY DEF OnTile
<1> HIDE DEF rect, geo
<1>5. geodata = load(save(geo))
  BY DEF geo
<1>6. /\ geodata.objects = geo
      /\ \A o \in Objects : Lists(getIDs(geodata, o, rect), Touching(geo, o, rect))
      /\ containsData(geodata, rect) <=> \E o \in Objects : Touching(geo, o, rect) # {}
  BY <1>1, <1>5, LookedUp
<1>7. FindsAll(geodata, t, Look(geodata, rect))
  BY <1>3, <1>4, <1>6 DEF FindsAll
<1>8. containsData(geodata, rect) <=> SomeThere(geodata, t)
  BY <1>4, <1>6 DEF SomeThere
<1>9. QED
  BY <1>7, <1>8 DEF rect

\* The server has loaded the geodata.
Served == {"parse sheet", "read", "identify"} \cup JobStages
SearchInv ==
    /\ TileInv
    /\ ParserOK(parser)
    /\ stage = "load" => archive = save(Read(parser))
    /\ stage \in Served => data = load(save(Read(parser)))
    /\ stage \in RenderStages => FindsAll(data, tile, found) /\ SomeThere(data, tile)
    /\ stage = "empty" => ~SomeThere(data, tile)

\* Each step is one of the request's.
LEMMA SearchIsRequest ==
    ASSUME [SearchNext]_<<turn, asked, searched>>
    PROVE  [RequestNext]_<<turn, asked>>
<1>1. ASSUME NEW entity, Imports(entity) PROVE RequestNext
  BY <1>1 DEF Imports, RequestNext, Prepares, Prepared, TurnOf
<1>2. CASE SaveObjects
  BY <1>2 DEF SaveObjects, RequestNext, Prepares, Prepared, TurnOf
<1>3. CASE LoadObjects
  BY <1>3 DEF LoadObjects, RequestNext, Prepares, TurnOf
<1>4. CASE FindObjects
  BY <1>4 DEF FindObjects, RequestNext, JobGoesOn, JobStages, TurnOf
<1>5. CASE ReadsText
  BY <1>5 DEF ReadsText, RequestNext, Prepares, Prepared, TurnOf
<1>6. CASE ReadsSheet
  BY <1>6 DEF ReadsSheet, RequestNext, Prepares, TurnOf
<1>7. CASE ReadsRequest
  BY <1>7 DEF ReadsRequest, RequestNext
<1>8. CASE Renders
  BY <1>8 DEF Renders, RequestNext, JobGoesOn, RenderStages
<1>9. CASE UNCHANGED <<turn, asked, searched>>
  BY <1>9
<1>10. QED
  BY <1>1, <1>2, <1>3, <1>4, <1>5, <1>6, <1>7, <1>8, <1>9 DEF SearchNext

\* No step changes the invariant.
LEMMA SearchInvSteps ==
    ASSUME SearchInv, [SearchNext]_<<turn, asked, searched>>
    PROVE  SearchInv'
<1>1. TileInv'
  <2>1. TileInv /\ [RequestNext]_<<turn, asked>>
    BY SearchIsRequest DEF SearchInv
  <2>2. QED
    BY <2>1, TileInvSteps
<1>2. ASSUME NEW entity, IsEntity(entity), Imports(entity) PROVE SearchInv'
  <2>1. stage' \in {"import", "import failed"}
    BY <1>2 DEF Imports, TurnOf
  <2>2. parser' = ParseEntity(parser, entity, sc.bounds, sc.check)
    BY <1>2 DEF Imports
  <2>3. ParserOK(parser')
    BY <1>2, <2>2, EntityRead DEF SearchInv
  <2>4. QED
    BY <1>1, <2>1, <2>3 DEF SearchInv, Served, RenderStages, JobStages
<1>3. CASE SaveObjects
  <2>1. stage' = "load" /\ parser' = parser /\ archive' = save(Read(parser))
    BY <1>3 DEF SaveObjects, TurnOf, Read
  <2>2. QED
    BY <1>1, <2>1 DEF SearchInv, Served, RenderStages, JobStages
<1>4. CASE LoadObjects
  <2>1. stage = "load" /\ stage' = "parse sheet" /\ parser' = parser /\ data' = load(archive)
    BY <1>4 DEF LoadObjects, TurnOf
  <2>2. archive = save(Read(parser))
    BY <2>1 DEF SearchInv
  <2>3. QED
    BY <1>1, <2>1, <2>2 DEF SearchInv, RenderStages, JobStages
<1>5. CASE FindObjects
  <2> DEFINE rect == JobRect(MetaOfTile(tile))
  <2>1. /\ stage = "query" /\ tile' = tile /\ parser' = parser /\ data' = data
        /\ stage' = IF containsData(data, rect) THEN "match" ELSE "empty"
        /\ found' = IF containsData(data, rect) THEN Look(data, rect) ELSE NothingFound
    BY <1>5 DEF FindObjects, TurnOf, Meta, asked
  <2>2. /\ tile.x \in Int /\ tile.y \in Int /\ tile.zoom \in Nat
    <3>1. tile.zoom \in 0..MaxZoom /\ tile.x \in Int /\ tile.y \in Int
      BY <2>1, TileOnMap DEF SearchInv, JobStages
    <3>2. QED
      BY <3>1, UrlAssumption
  <2>3. data = load(save(Read(parser))) /\ ParserOK(parser)
    BY <2>1 DEF SearchInv, Served, JobStages
  <2>4. /\ FindsAll(data, tile, Look(data, rect))
        /\ containsData(data, rect) <=> SomeThere(data, tile)
    BY <2>2, <2>3, JobFinds
  <2> HIDE DEF rect
  <2>5. CASE containsData(data, rect)
    <3>1. stage' = "match" /\ FindsAll(data', tile', found') /\ SomeThere(data', tile')
      BY <2>1, <2>4, <2>5
    <3>2. QED
      BY <1>1, <2>1, <2>3, <3>1 DEF SearchInv
  <2>6. CASE ~containsData(data, rect)
    <3>1. stage' = "empty" /\ ~SomeThere(data', tile')
      BY <2>1, <2>4, <2>6
    <3>2. QED
      BY <1>1, <2>1, <2>3, <3>1 DEF SearchInv, RenderStages
  <2>7. QED
    BY <2>5, <2>6
<1>6. CASE ReadsText
  <2>1. stage' \in {"import", "import failed", "hangs"}
    BY <1>6 DEF ReadsText, TurnOf
  <2>2. parser' = parser \/ parser' = Throw(parser, "InputFormatException")
    BY <1>6 DEF ReadsText
  <2>3. ParserOK(parser')
    BY <2>2, ThrownOK DEF SearchInv, Throw, Errors
  <2>4. QED
    BY <1>1, <2>1, <2>3 DEF SearchInv, Served, RenderStages, JobStages
<1>7. CASE ReadsSheet
  <2>1. /\ stage = "parse sheet" /\ stage' \in {"read", "no sheet", "killed"}
        /\ parser' = parser /\ data' = data
    BY <1>7 DEF ReadsSheet, TurnOf, searched
  <2>2. QED
    BY <1>1, <2>1 DEF SearchInv, Served, RenderStages, JobStages
<1>8. CASE ReadsRequest
  <2>1. parser' = parser /\ data' = data
    BY <1>8 DEF ReadsRequest, searched
  <2>2. stage \in {"read", "identify"}
    BY <1>8 DEF ReadsRequest, ReadPiece, Quiet, IdentifyTile
  <2>3. stage' \in {"read", "identify", "refused", "unanswered", "query"}
    BY <1>8 DEF ReadsRequest, ReadPiece, Quiet, IdentifyTile
  <2>4. QED
    BY <1>1, <2>1, <2>2, <2>3 DEF SearchInv, Served, RenderStages, JobStages
<1>9. CASE Renders
  <2>1. /\ stage \in RenderStages /\ stage' \in RenderStages
        /\ parser' = parser /\ data' = data /\ found' = found /\ tile' = tile
    BY <1>9 DEF Renders, TurnOf, searched, asked
  <2>2. QED
    BY <1>1, <2>1 DEF SearchInv, Served, RenderStages, JobStages
<1>10. CASE UNCHANGED <<turn, asked, searched>>
  <2>1. /\ stage' = stage /\ tile' = tile /\ parser' = parser /\ data' = data /\ found' = found
        /\ archive' = archive
    BY <1>10 DEF turn, asked, searched
  <2>2. QED
    BY <1>1, <2>1 DEF SearchInv
<1>11. QED
  BY <1>2, <1>3, <1>4, <1>5, <1>6, <1>7, <1>8, <1>9, <1>10 DEF SearchNext

\* It holds from the start.
LEMMA SearchInvHolds == SearchSpec => []SearchInv
<1>1. (\E scenario \in Scenarios : BeginsWith(scenario)) /\ NothingLoaded => SearchInv
  <2> SUFFICES ASSUME NEW scenario \in Scenarios, BeginsWith(scenario), NothingLoaded
               PROVE  SearchInv
    OBVIOUS
  <2>1. TileInv
    BY DEF BeginsWith, TileInv, JobStages
  <2>2. ParserOK(parser)
    BY EmptyParserIsOK DEF NothingLoaded
  <2>3. QED
    BY <2>1, <2>2 DEF BeginsWith, SearchInv, Served, RenderStages, JobStages
<1>2. SearchInv /\ [SearchNext]_<<turn, asked, searched>> => SearchInv'
  BY SearchInvSteps
<1>3. QED
  BY <1>1, <1>2, PTL DEF SearchSpec

\* A search is part of a request: its steps are steps of TileRequest, so that what is proved
\* of requests is true here.
THEOREM SearchServesRequests == SearchSpec => RequestSpec
<1>1. [SearchNext]_<<turn, asked, searched>> => [RequestNext]_<<turn, asked>>
  BY SearchIsRequest
<1>2. QED
  BY <1>1, PTL DEF SearchSpec, RequestSpec

\* However the entities of a document refer to each other, to themselves or to what is not
\* there, the objects that the importer keeps refer to objects that it keeps.
THEOREM ReferencesAreKept == SearchSpec => []GeoOK(Read(parser))
<1>1. SearchInv => GeoOK(Read(parser))
  BY ReadIsOK DEF SearchInv
<1>2. QED
  BY <1>1, SearchInvHolds, PTL

\* The objects a job finds are those that touch the rectangle of its meta tile.
THEOREM ObjectsAreFound == SearchSpec => []SearchExact
<1>1. SearchInv => SearchExact
  <2> SUFFICES ASSUME SearchInv PROVE SearchExact
    OBVIOUS
  <2>1. \A o : OnTile(data, tile, o) = Touching(data.objects, o, JobRect(Meta))
    BY DEF OnTile, Meta
  <2>2. DOMAIN NothingFound = Objects
    BY DEF NothingFound, Objects
  <2>3. ASSUME stage = "match"
        PROVE  /\ \A o \in DOMAIN found :
                    /\ ToSet(found[o]) = Touching(data.objects, o, JobRect(Meta))
                    /\ Len(found[o]) = Cardinality(ToSet(found[o]))
               /\ SomeThere(data, tile)
    <3>1. FindsAll(data, tile, found) /\ SomeThere(data, tile)
      BY <2>3 DEF SearchInv, RenderStages, JobStages
    <3>2. ASSUME NEW o \in DOMAIN found
          PROVE  /\ ToSet(found[o]) = Touching(data.objects, o, JobRect(Meta))
                 /\ Len(found[o]) = Cardinality(ToSet(found[o]))
      <4>1. Lists(found[o], OnTile(data, tile, o))
        BY <3>1, <3>2 DEF FindsAll
      <4>2. /\ ToSet(found[o]) = OnTile(data, tile, o)
            /\ Cardinality(OnTile(data, tile, o)) = Len(found[o])
        BY <4>1, ListedSet
      <4>3. QED
        BY <2>1, <4>2
    <3>3. QED
      BY <3>1, <3>2
  <2>4. stage = "empty" => ~SomeThere(data, tile)
    BY DEF SearchInv
  <2>5. SomeThere(data, tile)
        <=> ~\A o \in DOMAIN NothingFound : Touching(data.objects, o, JobRect(Meta)) = {}
    BY <2>1, <2>2 DEF SomeThere
  <2>6. QED
    BY <2>3, <2>4, <2>5 DEF SearchExact
<1>2. QED
  BY <1>1, SearchInvHolds, PTL
=============================================================================
