---------------------------- MODULE RenderingProofs ---------------------------
(***************************************************************************)
(* Theorems about Rendering, for any workers, tiles, stylesheets and cache *)
(* size.                                                                   *)
(***************************************************************************)
EXTENDS Rendering, FiniteSetTheorems, SequenceTheorems, TLAPS

Labels == {"idle", "stylesheet", "find", "lookup", "evict", "check", "deliver", "setImage",
           "answer"}
Steps  == {"none", "files", "cache", "stylesheet", "parse"}

-----------------------------------------------------------------------------
(* Types, and who has the lock.                                            *)

\* What a CacheOfOneStylesheet may hold.
Maps == UNION {[D -> Objects] : D \in SUBSET Ids}

CacheTypes ==
    /\ AllCaches \in [Styles -> Maps \cup {NoCache}]
    /\ RecentlyUsedList \in Seq(Objects)
    /\ GlobalCacheLock \in Workers \cup {Free}
    /\ ti \in Ids \cup {Free}
    /\ cache \in Maps \cup {Attached}
    /\ image \in [Objects -> Images \cup {NoImage}]
    /\ holds \in [Workers -> Seq(Objects)]
    /\ disk \in [Ids -> Images \cup {NoImage}]

JobTypes ==
    /\ pc \in [Workers -> Labels]
    /\ job \in [Workers -> Metas \cup {NoMeta}]
    /\ allRendered \in [Workers -> BOOLEAN]
    /\ canvas \in [Workers -> Images \cup {Blank}]
    /\ next \in [Workers -> Nat]

StyleTypes ==
    /\ parsedStylesheets \in [Styles -> 0 .. MaxLoads]
    /\ present \in SUBSET Styles
    /\ loads \in 1 .. MaxLoads
    /\ event.step \in Steps
    /\ event = Idle <=> event.step = "none"
    /\ event.step # "none" =>
          /\ event \in [type : Events, style : Styles, step : Steps]
          /\ event.type # "removed" => loads < MaxLoads
    /\ event.step = "parse" => event.type # "removed"

\* How many tiles a job asks for, and which.
Size(w)   == IF empty(w) THEN 1 ELSE Len(TilesOf[job[w]])
Nth(w, k) == IF empty(w) THEN EmptyID[MetaStyle[job[w]]] ELSE TilesOf[job[w]][k]

\* The worker inside getTile, the identifier it asks for, and the map it works on.
Locked ==
    /\ \A w \in Workers : GlobalCacheLock = w <=> pc[w] \in {"lookup", "evict"}
    /\ GlobalCacheLock = Free => cache = Attached
    /\ \A w \in Workers : pc[w] = "lookup" =>
          /\ ti = Wanted(w)
          /\ cache = Attached => AllCaches[StyleOf[ti]] # NoCache

\* Where a job is, and how many tiles it has got.
PlaceOf(w) ==
    /\ pc[w] = "idle" => job[w] = NoMeta /\ holds[w] = << >>
    /\ pc[w] # "idle" => job[w] \in Metas
    /\ pc[w] \in {"find", "lookup"} => Len(holds[w]) < Size(w)
    /\ pc[w] \in {"evict", "check"} => Len(holds[w]) \in 1 .. Size(w)
    /\ pc[w] = "stylesheet" => Len(holds[w]) = IF empty(w) THEN 0 ELSE Size(w)
    /\ pc[w] \in {"deliver", "setImage", "answer"} => Len(holds[w]) = Size(w)
    /\ pc[w] = "deliver" => next[w] < Size(w) /\ ~empty(w)
    /\ pc[w] \in {"setImage", "answer"} => next[w] \in 1 .. Size(w)
    /\ pc[w] \in {"idle", "stylesheet", "find", "lookup", "evict", "check"} => next[w] = 0
Places == \A w \in Workers : PlaceOf(w)

Types == CacheTypes /\ JobTypes /\ StyleTypes /\ Locked /\ Places

-----------------------------------------------------------------------------
(* Maps and lists.                                                         *)

\* The map of a stylesheet that has just been loaded.
LEMMA EmptyMap == << >> \in Maps /\ DOMAIN << >> = {}
<1>1. << >> = [i \in {} |-> 0]
  OBVIOUS
<1>2. << >> \in [{} -> Objects]
  BY <1>1
<1>3. {} \in SUBSET Ids
  OBVIOUS
<1> QED
  BY <1>1, <1>2, <1>3 DEF Maps

\* What a map is.
LEMMA MapType ==
    ASSUME NEW M \in Maps
    PROVE  /\ DOMAIN M \in SUBSET Ids
           /\ \A i \in DOMAIN M : M[i] \in Objects
           /\ M \in [DOMAIN M -> Objects]
BY DEF Maps

\* An entry more.
LEMMA PutType ==
    ASSUME NEW M \in Maps, NEW i \in Ids, NEW o \in Objects
    PROVE  /\ Put(M, i, o) \in Maps
           /\ DOMAIN Put(M, i, o) = DOMAIN M \cup {i}
           /\ Put(M, i, o)[i] = o
           /\ \A k \in DOMAIN M \ {i} : Put(M, i, o)[k] = M[k]
<1>1. DOMAIN M \cup {i} \in SUBSET Ids
  BY MapType
<1>2. Put(M, i, o) \in [DOMAIN M \cup {i} -> Objects]
  BY MapType DEF Put
<1> QED
  BY <1>1, <1>2 DEF Put, Maps

\* An entry less.
LEMMA DropType ==
    ASSUME NEW M \in Maps, NEW i
    PROVE  /\ Drop(M, i) \in Maps
           /\ DOMAIN Drop(M, i) = DOMAIN M \ {i}
           /\ \A k \in DOMAIN M \ {i} : Drop(M, i)[k] = M[k]
<1>1. DOMAIN M \ {i} \in SUBSET Ids
  BY MapType
<1>2. Drop(M, i) \in [DOMAIN M \ {i} -> Objects]
  BY MapType DEF Drop, Funcs!Restrict
<1> QED
  BY <1>1, <1>2 DEF Drop, Funcs!Restrict, Maps

\* No map is the value that stands for a missing one.
LEMMA NotMaps == NoCache \notin Maps /\ Attached \notin Maps
BY CacheAssumption DEF Maps

\* The map of a stylesheet, empty where there is none.
LEMMA MapOfType ==
    ASSUME NEW M \in Maps \cup {NoCache}
    PROVE  Map(M) \in Maps /\ (M \in Maps => Map(M) = M) /\ Map(M) # NoCache
BY EmptyMap, NotMaps DEF Map

\* The list without its last element.
LEMMA FrontType ==
    ASSUME NEW S, NEW s \in Seq(S), Len(s) > 0
    PROVE  /\ Seqs!Front(s) \in Seq(S) /\ Len(Seqs!Front(s)) = Len(s) - 1
           /\ \A k \in 1 .. Len(s) - 1 : Seqs!Front(s)[k] = s[k]
           /\ Seqs!Last(s) \in S /\ Seqs!Last(s) = s[Len(s)]
<1>1. Len(s) \in Nat /\ \A i \in 1 .. Len(s) : s[i] \in S
  BY LenProperties, ElementOfSeq
<1>2. /\ SubSeq(s, 1, Len(s) - 1) \in Seq(S)
      /\ Len(SubSeq(s, 1, Len(s) - 1)) = Len(s) - 1
      /\ \A k \in 1 .. Len(s) - 1 : SubSeq(s, 1, Len(s) - 1)[k] = s[k]
  <2> DEFINE n == Len(s) - 1
  <2>1. n \in Nat /\ \A i \in 1 .. n : s[i] \in S
    BY <1>1
  <2> HIDE DEF n
  <2>2. SubSeq(s, 1, n) \in Seq(S) /\ Len(SubSeq(s, 1, n)) = n
    BY <2>1, SubSeqProperties
  <2>3. \A k \in 1 .. n : SubSeq(s, 1, n)[k] = s[k]
    BY <2>1, SubSeqProperties
  <2> QED
    BY <2>2, <2>3 DEF n
<1> QED
  BY <1>1, <1>2 DEF Seqs!Front, Seqs!Last

\* A new first element.
LEMMA ConsType ==
    ASSUME NEW S, NEW s \in Seq(S), NEW x \in S
    PROVE  /\ <<x>> \o s \in Seq(S) /\ Len(<<x>> \o s) = Len(s) + 1
           /\ \A k \in 1 .. Len(s) + 1 : (<<x>> \o s)[k] = IF k = 1 THEN x ELSE s[k - 1]
<1>1. <<x>> \in Seq(S) /\ Len(<<x>>) = 1 /\ <<x>>[1] = x /\ Len(s) \in Nat
  BY LenProperties
<1>2. /\ <<x>> \o s \in Seq(S) /\ Len(<<x>> \o s) = 1 + Len(s)
      /\ \A k \in 1 .. 1 + Len(s) : (<<x>> \o s)[k] = IF k <= 1 THEN <<x>>[k] ELSE s[k - 1]
  BY <1>1, ConcatProperties
<1> QED
  BY <1>1, <1>2

\* What RemoveAt leaves, and in which order.
LEMMA RemoveAtType ==
    ASSUME NEW S, NEW s \in Seq(S), NEW i \in 1 .. Len(s)
    PROVE  /\ Seqs!RemoveAt(s, i) \in Seq(S) /\ Len(Seqs!RemoveAt(s, i)) = Len(s) - 1
           /\ \A k \in 1 .. Len(s) - 1 :
                 Seqs!RemoveAt(s, i)[k] = IF k < i THEN s[k] ELSE s[k + 1]
<1>1. Len(s) \in Nat
  BY LenProperties
<1> DEFINE a == SubSeq(s, 1, i - 1)
           b == SubSeq(s, i + 1, Len(s))
<1>2. /\ a \in Seq(S) /\ b \in Seq(S) /\ Len(a) = i - 1 /\ Len(b) = Len(s) - i
      /\ \A k \in 1 .. i - 1 : a[k] = s[k]
      /\ \A k \in 1 .. Len(s) - i : b[k] = s[k + i]
  BY <1>1, SubSeqProperties, ElementOfSeq
<1>3. Seqs!RemoveAt(s, i) = a \o b
  BY DEF Seqs!RemoveAt
<1> HIDE DEF a, b
<1>4. a \o b \in Seq(S) /\ Len(a \o b) = Len(s) - 1
  <2>1. a \o b \in Seq(S) /\ Len(a \o b) = Len(a) + Len(b)
    BY <1>2, ConcatProperties
  <2> QED
    BY <1>1, <1>2, <2>1
<1>6. \A k \in 1 .. Len(a) + Len(b) : (a \o b)[k] = IF k <= Len(a) THEN a[k] ELSE b[k - Len(a)]
  BY <1>2, ConcatProperties
<1>5. ASSUME NEW k \in 1 .. Len(s) - 1
      PROVE  (a \o b)[k] = IF k < i THEN s[k] ELSE s[k + 1]
  <2>1. k \in 1 .. Len(a) + Len(b)
    BY <1>1, <1>2
  <2>2. CASE k < i
    <3>1. k \in 1 .. i - 1
      BY <1>1, <2>2
    <3> QED
      BY <1>2, <1>6, <2>1, <2>2, <3>1
  <2>3. CASE ~(k < i)
    <3>1. k - (i - 1) \in 1 .. Len(s) - i
      BY <1>1, <2>3
    <3> QED
      BY <1>1, <1>2, <1>6, <2>1, <2>3, <3>1
  <2> QED
    BY <2>2, <2>3
<1> QED
  BY <1>1, <1>3, <1>4, <1>5
-----------------------------------------------------------------------------
(* The types are kept.                                                     *)

\* The two outcomes of LookUp.
WorkMap == IF cache = Attached THEN AllCaches[StyleOf[ti]] ELSE cache
Hit(w, p) ==
    /\ ti \in DOMAIN WorkMap /\ RecentlyUsedList[p] = WorkMap[ti]
    /\ RecentlyUsedList' = <<RecentlyUsedList[p]>> \o Seqs!RemoveAt(RecentlyUsedList, p)
    /\ holds' = [holds EXCEPT ![w] = Append(@, RecentlyUsedList[p])]
    /\ UNCHANGED <<AllCaches, cache, image, GlobalCacheLock, ti, disk>>
Miss(w, o) ==
    /\ o.id = ti /\ o \notin Live /\ ti \notin DOMAIN WorkMap
    /\ image' = [image EXCEPT ![o] = IF ti \in LowZoom THEN disk[ti] ELSE NoImage]
    /\ RecentlyUsedList' = <<o>> \o RecentlyUsedList
    /\ holds' = [holds EXCEPT ![w] = Append(@, o)]
    /\ \/ /\ cache = Attached /\ cache' = cache
          /\ AllCaches' = [AllCaches EXCEPT ![StyleOf[ti]] = Put(@, ti, o)]
       \/ /\ cache # Attached /\ AllCaches' = AllCaches
          /\ cache' = Put(cache, ti, o)
    /\ UNCHANGED <<GlobalCacheLock, ti, disk>>

\* What the types say of a job that is not idle.
LEMMA JobFacts ==
    ASSUME Types, NEW w \in Workers, pc[w] # "idle"
    PROVE  /\ job[w] \in Metas /\ MetaStyle[job[w]] \in Styles
           /\ Size(w) \in Nat \ {0} /\ Len(holds[w]) \in Nat
           /\ \A k \in 1 .. Size(w) : Nth(w, k) \in Ids /\ StyleOf[Nth(w, k)] = MetaStyle[job[w]]
           /\ Wanted(w) = Nth(w, Len(holds[w]) + 1)
<1>1. job[w] \in Metas
  BY DEF Types, Places, PlaceOf
<1>2. TilesOf[job[w]] \in Seq(Ids) /\ MetaStyle[job[w]] \in Styles
  BY <1>1, RenderingAssumption
<1>3. /\ Len(TilesOf[job[w]]) \in Nat /\ DOMAIN TilesOf[job[w]] = 1 .. Len(TilesOf[job[w]])
      /\ ~empty(w) => Len(TilesOf[job[w]]) \in Nat \ {0}
      /\ \A k \in 1 .. Len(TilesOf[job[w]]) : TilesOf[job[w]][k] \in Ids
  BY <1>2, LenProperties, EmptySeq, ElementOfSeq DEF empty
<1>4. Size(w) \in Nat \ {0}
  BY <1>3 DEF Size
<1>5. holds[w] \in Seq(Objects)
  BY DEF Types, CacheTypes
<1>6. Len(holds[w]) \in Nat
  BY <1>5, LenProperties
<1>7. ASSUME NEW k \in 1 .. Size(w)
      PROVE  Nth(w, k) \in Ids /\ StyleOf[Nth(w, k)] = MetaStyle[job[w]]
  <2>1. CASE empty(w)
    BY <2>1, <1>2, RenderingAssumption, CacheAssumption DEF Nth
  <2>2. CASE ~empty(w)
    <3>1. k \in DOMAIN TilesOf[job[w]] /\ TilesOf[job[w]][k] \in Ids
      BY <2>2, <1>3 DEF Size
    <3> QED
      BY <2>2, <3>1, <1>1, RenderingAssumption DEF Nth
  <2> QED
    BY <2>1, <2>2
<1>8. Wanted(w) = Nth(w, Len(holds[w]) + 1)
  BY DEF Wanted, Nth
<1> QED
  BY <1>1, <1>2, <1>4, <1>6, <1>7, <1>8

\* The tile a worker asks getTile for belongs to its stylesheet.
LEMMA WantedType ==
    ASSUME Types, NEW w \in Workers, pc[w] \in {"find", "lookup"}
    PROVE  Wanted(w) \in Ids /\ StyleOf[Wanted(w)] \in Styles
<1>1. Len(holds[w]) < Size(w)
  BY DEF Types, Places, PlaceOf
<1>2. Len(holds[w]) + 1 \in 1 .. Size(w)
  BY <1>1, JobFacts
<1> QED
  BY <1>2, JobFacts

\* The two ways find goes: the tile is there and moves to the front, or a new one is added.
LEMMA LookUpCases ==
    ASSUME Types, NEW w \in Workers, pc[w] = "lookup", LookUp(w)
    PROVE  /\ ti \in Ids /\ StyleOf[ti] \in Styles /\ GlobalCacheLock = w
           /\ WorkMap \in Maps /\ (cache = Attached => WorkMap = AllCaches[StyleOf[ti]])
           /\ \/ \E p \in 1 .. Len(RecentlyUsedList) : Hit(w, p)
              \/ \E o \in Objects : Miss(w, o)
<1>1. ti \in Ids /\ StyleOf[ti] \in Styles /\ GlobalCacheLock = w
  BY WantedType DEF Types, Locked, LookUp
<1>2. WorkMap \in Maps
  BY <1>1 DEF WorkMap, Types, Locked, CacheTypes
<1>3. CASE ti \in DOMAIN WorkMap
  <2>1. DOMAIN RecentlyUsedList = 1 .. Len(RecentlyUsedList)
    BY LenProperties DEF Types, CacheTypes
  <2>2. \E p \in DOMAIN RecentlyUsedList : Hit(w, p)
    BY <1>3 DEF LookUp, WorkMap, Hit
  <2> QED
    BY <1>1, <1>2, <2>1, <2>2 DEF WorkMap
<1>4. CASE ti \notin DOMAIN WorkMap
  <2>1. Unused(ti) # {}
    BY <1>4 DEF LookUp, WorkMap
  <2>2. NewTile(ti) \in Unused(ti)
    BY <2>1 DEF NewTile
  <2>3. NewTile(ti) \in Objects /\ NewTile(ti).id = ti /\ NewTile(ti) \notin Live
    BY <2>2 DEF Unused
  <2>4. /\ image' = [image EXCEPT ![NewTile(ti)] = IF ti \in LowZoom THEN disk[ti] ELSE NoImage]
        /\ RecentlyUsedList' = <<NewTile(ti)>> \o RecentlyUsedList
        /\ holds' = [holds EXCEPT ![w] = Append(@, NewTile(ti))]
        /\ UNCHANGED <<GlobalCacheLock, ti, disk>>
    BY <1>4 DEF LookUp, WorkMap
  <2>5. CASE cache = Attached
    <3>1. AllCaches' = [AllCaches EXCEPT ![StyleOf[ti]] = Put(@, ti, NewTile(ti))] /\ cache' = cache
      BY <1>4, <2>5 DEF LookUp, WorkMap
    <3>2. Miss(w, NewTile(ti))
      BY <1>4, <2>3, <2>4, <2>5, <3>1 DEF Miss
    <3> QED
      BY <1>1, <1>2, <2>3, <3>2 DEF WorkMap
  <2>6. CASE cache # Attached
    <3>1. AllCaches' = AllCaches /\ cache' = Put(cache, ti, NewTile(ti))
      BY <1>4, <2>6 DEF LookUp, WorkMap
    <3>2. Miss(w, NewTile(ti))
      BY <1>4, <2>3, <2>4, <2>6, <3>1 DEF Miss
    <3> QED
      BY <1>1, <1>2, <2>3, <3>2 DEF WorkMap
  <2> QED
    BY <2>5, <2>6
<1> QED
  BY <1>3, <1>4

\* The tile at the back of the list, and the list without it.
LEMMA OldestType ==
    ASSUME CacheTypes, Len(RecentlyUsedList) > CacheSize
    PROVE  /\ Len(RecentlyUsedList) \in Nat \ {0}
           /\ oldest = RecentlyUsedList[Len(RecentlyUsedList)]
           /\ oldest \in Objects /\ oldId \in Ids /\ StyleOf[oldId] \in Styles
           /\ Seqs!Front(RecentlyUsedList) \in Seq(Objects)
           /\ Len(Seqs!Front(RecentlyUsedList)) = Len(RecentlyUsedList) - 1
           /\ \A k \in 1 .. Len(RecentlyUsedList) - 1 :
                 Seqs!Front(RecentlyUsedList)[k] = RecentlyUsedList[k]
<1>1. RecentlyUsedList \in Seq(Objects)
  BY DEF CacheTypes
<1>2. Len(RecentlyUsedList) \in Nat \ {0}
  BY <1>1, LenProperties, CacheAssumption
<1>3. oldest \in Objects /\ oldest = RecentlyUsedList[Len(RecentlyUsedList)]
  BY <1>1, <1>2, FrontType DEF oldest
<1>4. oldId \in Ids /\ StyleOf[oldId] \in Styles
  BY <1>3, CacheAssumption DEF oldId, Objects
<1> QED
  BY <1>1, <1>2, <1>3, <1>4, FrontType

\* The two maps an eviction may take the entry from, without it.
LEMMA WithoutOldestIs ==
    ASSUME CacheTypes, Len(RecentlyUsedList) > CacheSize
    PROVE  /\ WithoutOldest \in [Styles -> Maps \cup {NoCache}]
           /\ \A s \in Styles : WithoutOldest[s] =
                 IF s = StyleOf[oldId] /\ AllCaches[s] # NoCache THEN Drop(AllCaches[s], oldId)
                 ELSE AllCaches[s]
<1> DEFINE A == [s \in Styles |->
                   IF s = StyleOf[oldId] /\ AllCaches[s] # NoCache THEN Drop(AllCaches[s], oldId)
                   ELSE AllCaches[s]]
<1>1. WithoutOldest = A
  BY OldestType DEF WithoutOldest, CacheTypes
<1>2. \A s \in Styles : AllCaches[s] # NoCache => Drop(AllCaches[s], oldId) \in Maps
  BY DropType DEF CacheTypes
<1>3. \A s \in Styles : A[s] \in Maps \cup {NoCache}
  BY <1>2 DEF CacheTypes
<1> QED
  BY <1>1, <1>3

\* The two maps that may get the entry of an unrendered tile again.
LEMMA WithOldestIs ==
    ASSUME CacheTypes, Len(RecentlyUsedList) > CacheSize
    PROVE  /\ WithOldest \in [Styles -> Maps \cup {NoCache}]
           /\ \A s \in Styles : WithOldest[s] =
                 IF s = StyleOf[oldId] /\ AllCaches[s] # NoCache
                 THEN Put(AllCaches[s], oldId, oldest) ELSE AllCaches[s]
<1> DEFINE A == [s \in Styles |->
                   IF s = StyleOf[oldId] /\ AllCaches[s] # NoCache
                   THEN Put(AllCaches[s], oldId, oldest) ELSE AllCaches[s]]
<1>1. WithOldest = A
  BY OldestType DEF WithOldest, CacheTypes
<1>2. \A s \in Styles : AllCaches[s] # NoCache => Put(AllCaches[s], oldId, oldest) \in Maps
  <2>1. oldId \in Ids /\ oldest \in Objects
    BY OldestType
  <2>2. \A s \in Styles : AllCaches[s] # NoCache => AllCaches[s] \in Maps
    BY DEF CacheTypes
  <2> QED
    BY <2>1, <2>2, PutType
<1>3. \A s \in Styles : A[s] \in Maps \cup {NoCache}
  BY <1>2 DEF CacheTypes
<1> QED
  BY <1>1, <1>3

\* The end of getTile.
LEMMA ReleaseType ==
    ASSUME CacheTypes, Release
    PROVE  image' \in [Objects -> Images \cup {NoImage}]
BY DEF CacheTypes, Release

\* Every step keeps the types of the cache.
LEMMA CacheTypesStep ==
    ASSUME Types, [Next]_vars
    PROVE  CacheTypes'
<1> USE DEF Types
<1>1. CASE UNCHANGED cacheVars
  BY <1>1 DEF cacheVars, CacheTypes
<1>2. ASSUME NEW w \in Workers, GetTileFind(w) PROVE CacheTypes'
  <2>1. FindCache(w, Wanted(w)) /\ Wanted(w) \in Ids /\ StyleOf[Wanted(w)] \in Styles
    BY <1>2, WantedType DEF GetTileFind
  <2>2. Map(AllCaches[StyleOf[Wanted(w)]]) \in Maps
    BY <2>1, MapOfType DEF CacheTypes
  <2> QED
    BY <2>1, <2>2 DEF FindCache, CacheTypes
<1>3. ASSUME NEW w \in Workers, GetTileLookUp(w) PROVE CacheTypes'
  <2>1. pc[w] = "lookup" /\ LookUp(w)
    BY <1>3 DEF GetTileLookUp
  <2>2. ti \in Ids /\ StyleOf[ti] \in Styles /\ WorkMap \in Maps
    BY <2>1, LookUpCases
  <2>3. ASSUME NEW p \in 1 .. Len(RecentlyUsedList), Hit(w, p) PROVE CacheTypes'
    <3>1. RecentlyUsedList[p] \in Objects
      BY ElementOfSeq DEF CacheTypes
    <3>2. RecentlyUsedList' \in Seq(Objects)
      BY <2>3, <3>1, RemoveAtType, ConsType DEF Hit, CacheTypes
    <3>3. holds' \in [Workers -> Seq(Objects)]
      BY <2>3, <3>1, AppendProperties DEF Hit, CacheTypes
    <3> QED
      BY <2>3, <3>2, <3>3 DEF Hit, CacheTypes
  <2>4. ASSUME NEW o \in Objects, Miss(w, o) PROVE CacheTypes'
    <3>1. RecentlyUsedList' \in Seq(Objects)
      BY <2>4, ConsType DEF Miss, CacheTypes
    <3>2. holds' \in [Workers -> Seq(Objects)]
      BY <2>4, AppendProperties DEF Miss, CacheTypes
    <3>3. image' \in [Objects -> Images \cup {NoImage}]
      BY <2>2, <2>4 DEF Miss, CacheTypes
    <3>4. Put(WorkMap, ti, o) \in Maps
      BY <2>2, PutType
    <3>5. AllCaches' \in [Styles -> Maps \cup {NoCache}] /\ cache' \in Maps \cup {Attached}
      <4>1. CASE cache = Attached
        <5>1. AllCaches' = [AllCaches EXCEPT ![StyleOf[ti]] = Put(WorkMap, ti, o)]
              /\ cache' = cache
          BY <2>4, <4>1 DEF Miss, WorkMap
        <5> QED
          BY <3>4, <5>1 DEF CacheTypes
      <4>2. CASE cache # Attached
        <5>1. AllCaches' = AllCaches /\ cache' = Put(WorkMap, ti, o)
          BY <2>4, <4>2 DEF Miss, WorkMap
        <5> QED
          BY <3>4, <5>1 DEF CacheTypes
      <4> QED
        BY <4>1, <4>2
    <3> QED
      BY <2>4, <3>1, <3>2, <3>3, <3>5 DEF Miss, CacheTypes
  <2> QED
    BY <2>1, <2>3, <2>4, LookUpCases
<1>4. ASSUME NEW w \in Workers, GetTileEvict(w) PROVE CacheTypes'
  <2>1. Evict(w) /\ Len(RecentlyUsedList) > CacheSize
    BY <1>4 DEF GetTileEvict, Evict
  <2>2. WithoutOldest \in [Styles -> Maps \cup {NoCache}]
    BY <2>1, WithoutOldestIs
  <2>3. disk' \in [Ids -> Images \cup {NoImage}]
    BY <2>1, OldestType DEF Evict, Written, CacheTypes
  <2> QED
    BY <2>1, <2>2, <2>3, OldestType, ReleaseType DEF Evict, CacheTypes
<1>5. ASSUME NEW w \in Workers, KeepUnrendered(w) PROVE CacheTypes'
  <2>1. Len(RecentlyUsedList) > CacheSize
    BY <1>5 DEF KeepUnrendered
  <2>2. WithOldest \in [Styles -> Maps \cup {NoCache}]
    BY <2>1, WithOldestIs
  <2>3. <<oldest>> \o Seqs!Front(RecentlyUsedList) \in Seq(Objects)
    BY <2>1, OldestType, ConsType
  <2> QED
    BY <1>5, <2>1, <2>2, <2>3, OldestType, ReleaseType DEF KeepUnrendered, CacheTypes
<1>6. ASSUME NEW w \in Workers, Unlock(w) PROVE CacheTypes'
  BY <1>6, ReleaseType DEF Unlock, CacheTypes
<1>7. ASSUME NEW w \in Workers, SetImage(w) PROVE CacheTypes'
  BY <1>7 DEF SetImage, CacheTypes, JobTypes, Blank
<1>8. ASSUME NEW w \in Workers, AnswerTile(w) PROVE CacheTypes'
  <2>1. UNCHANGED <<AllCaches, RecentlyUsedList, GlobalCacheLock, ti, cache, disk>>
    BY <1>8 DEF AnswerTile
  <2>2. holds' \in [Workers -> Seq(Objects)]
    BY <1>8, EmptySeq DEF AnswerTile, CacheTypes
  <2>3. next[w] \in Nat /\ Len(holds[w]) \in Nat
    BY LenProperties DEF CacheTypes, JobTypes
  <2>4. next[w] < Len(holds[w]) \/ next[w] = Len(holds[w])
    BY <1>8, <2>3 DEF AnswerTile, Places, PlaceOf
  <2>5. image' \in [Objects -> Images \cup {NoImage}]
    BY <1>8, <2>4, ReleaseType DEF AnswerTile, CacheTypes
  <2> QED
    BY <2>1, <2>2, <2>5 DEF CacheTypes
<1>9. CASE DeleteFiles
  BY <1>9 DEF DeleteFiles, RemoveFiles, CacheTypes
<1>10. CASE DeleteCache
  <2>1. event.style \in Styles
    BY <1>10 DEF DeleteCache, StyleTypes
  <2> QED
    BY <1>10, <2>1, ReleaseType DEF DeleteCache, EraseCache, CacheTypes
<1>11. ASSUME NEW w \in Workers, GetTileDone(w) PROVE KeepUnrendered(w) \/ Unlock(w)
  BY <1>11 DEF GetTileDone
<1>12. ASSUME NEW w \in Workers,
              \/ \E m \in Metas : StartJob(w, m)
              \/ GetStylesheet(w) \/ CheckTile(w) \/ CheckEmpty(w) \/ DeliverTile(w)
       PROVE  UNCHANGED cacheVars
  BY <1>12 DEF StartJob, GetStylesheet, CheckTile, CheckEmpty, DeliverTile
<1>13. ASSUME \/ \E type \in Events, s \in Styles : Begin(type, s)
              \/ EraseStylesheet \/ LoadStylesheet \/ UNCHANGED vars
       PROVE  UNCHANGED cacheVars
  BY <1>13 DEF Begin, EraseStylesheet, LoadStylesheet, vars
<1>14. ASSUME NEW w \in Workers, Worker(w) PROVE CacheTypes'
  BY <1>1, <1>2, <1>3, <1>4, <1>5, <1>6, <1>7, <1>8, <1>11, <1>12, <1>14 DEF Worker
<1> QED
  BY <1>1, <1>9, <1>10, <1>13, <1>14 DEF Next, StylesheetThread

\* Every step keeps the types of the jobs.
LEMMA JobTypesStep ==
    ASSUME Types, [Next]_vars
    PROVE  JobTypes'
<1> USE DEF Types, JobTypes, Goto, Labels
<1>1. CASE UNCHANGED jobVars
  BY <1>1 DEF jobVars
<1>2. ASSUME NEW w \in Workers, NEW m \in Metas, StartJob(w, m) PROVE JobTypes'
  BY <1>2 DEF StartJob
<1>3. ASSUME NEW w \in Workers, GetStylesheet(w) PROVE JobTypes'
  <2>1. job[w] \in Metas /\ MetaStyle[job[w]] \in Styles
    BY <1>3, JobFacts DEF GetStylesheet
  <2>2. [of |-> job[w], load |-> parsedStylesheets[MetaStyle[job[w]]]] \in Images
    BY <2>1 DEF Images, StyleTypes
  <2> QED
    BY <1>3, <2>2 DEF GetStylesheet
<1>4. ASSUME NEW w \in Workers, GetTileFind(w) \/ GetTileLookUp(w) \/ GetTileDone(w)
      PROVE  JobTypes'
  BY <1>4 DEF GetTileFind, GetTileLookUp, GetTileDone
<1>5. ASSUME NEW w \in Workers, CheckTile(w) PROVE JobTypes'
  <2>1. RenderedSoFar(w) \in BOOLEAN
    BY DEF RenderedSoFar, isRendered
  <2> QED
    BY <1>5, <2>1 DEF CheckTile
<1>6. ASSUME NEW w \in Workers, CheckEmpty(w) \/ DeliverTile(w) PROVE JobTypes'
  BY <1>6 DEF CheckEmpty, DeliverTile
<1>7. ASSUME NEW w \in Workers, SetImage(w) PROVE JobTypes'
  BY <1>7 DEF SetImage
<1>8. ASSUME NEW w \in Workers, AnswerTile(w) PROVE JobTypes'
  <2>1. CASE next[w] < Len(holds[w])
    <3>1. pc' = [pc EXCEPT ![w] = "deliver"] /\ UNCHANGED <<job, allRendered, canvas, next>>
      BY <1>8, <2>1 DEF AnswerTile
    <3> QED
      BY <3>1
  <2>2. CASE ~(next[w] < Len(holds[w]))
    <3>1. /\ pc' = [pc EXCEPT ![w] = "idle"]
          /\ job' = [job EXCEPT ![w] = NoMeta]
          /\ allRendered' = [allRendered EXCEPT ![w] = TRUE]
          /\ canvas' = [canvas EXCEPT ![w] = Blank]
          /\ next' = [next EXCEPT ![w] = 0]
      BY <1>8, <2>2 DEF AnswerTile
    <3> QED
      BY <3>1
  <2> QED
    BY <2>1, <2>2
<1>9. ASSUME NEW w \in Workers, GetTileEvict(w) PROVE UNCHANGED jobVars
  BY <1>9 DEF GetTileEvict
<1>10. ASSUME StylesheetThread \/ UNCHANGED vars PROVE UNCHANGED jobVars
  BY <1>10 DEF StylesheetThread, Begin, DeleteFiles, DeleteCache, EraseStylesheet, LoadStylesheet,
     vars
<1>11. ASSUME NEW w \in Workers, Worker(w) PROVE JobTypes'
  BY <1>1, <1>2, <1>3, <1>4, <1>5, <1>6, <1>7, <1>8, <1>9, <1>11 DEF Worker
<1> QED
  BY <1>1, <1>10, <1>11 DEF Next

\* A worker changes nothing of the StylesheetManager.
LEMMA WorkerKeepsStyles ==
    ASSUME NEW w \in Workers, Worker(w)
    PROVE  UNCHANGED styleVars
BY DEF Worker, StartJob, GetStylesheet, GetTileFind, GetTileLookUp, GetTileEvict, GetTileDone,
   CheckTile, CheckEmpty, DeliverTile, SetImage, AnswerTile

\* Every step keeps the types of the StylesheetManager.
LEMMA StyleTypesStep ==
    ASSUME Types, [Next]_vars
    PROVE  StyleTypes'
<1> USE DEF Types, StyleTypes, Steps
<1>1. CASE UNCHANGED styleVars
  BY <1>1 DEF styleVars
<1>2. ASSUME NEW type \in Events, NEW s \in Styles, Begin(type, s) PROVE StyleTypes'
  <2>1. type \in {"added", "removed", "modified"} /\ "none" \notin {"added", "removed", "modified"}
    BY RenderingAssumption
  <2>2. UNCHANGED <<parsedStylesheets, loads>> /\ present' \in SUBSET Styles
    BY <1>2 DEF Begin
  <2>3. event' = [type |-> type, style |-> s, step |-> IF type = "added" THEN "parse" ELSE "files"]
    BY <1>2 DEF Begin
  <2>4. /\ event'.step \in {"parse", "files"} /\ event' # Idle
        /\ event' \in [type : Events, style : Styles, step : Steps]
        /\ event'.type = type
        /\ event'.step = "parse" => type # "removed"
    BY <2>1, <2>3 DEF Idle
  <2>5. type # "removed" => loads < MaxLoads
    BY <1>2 DEF Begin
  <2> QED
    BY <2>2, <2>4, <2>5
<1>3. ASSUME DeleteFiles \/ DeleteCache PROVE StyleTypes'
  BY <1>3 DEF DeleteFiles, DeleteCache, Idle
<1>4. CASE EraseStylesheet
  <2>1. event.step = "stylesheet" /\ event.style \in Styles /\ event.type \in Events
    BY <1>4 DEF EraseStylesheet
  <2>2. parsedStylesheets' \in [Styles -> 0 .. MaxLoads] /\ UNCHANGED <<present, loads>>
    BY <1>4, <2>1, RenderingAssumption DEF EraseStylesheet
  <2>3. CASE event.type = "modified"
    BY <1>4, <2>1, <2>2, <2>3 DEF EraseStylesheet, Idle
  <2>4. CASE event.type # "modified"
    <3>1. event' = Idle
      BY <1>4, <2>4 DEF EraseStylesheet
    <3> QED
      BY <2>2, <3>1 DEF Idle
  <2> QED
    BY <2>3, <2>4
<1>5. CASE LoadStylesheet
  <2>1. event.step = "parse" /\ event.style \in Styles /\ loads < MaxLoads
    BY <1>5 DEF LoadStylesheet
  <2>2. loads + 1 \in 1 .. MaxLoads /\ loads + 1 \in 0 .. MaxLoads
    BY <2>1, RenderingAssumption
  <2>3. parsedStylesheets' \in [Styles -> 0 .. MaxLoads] /\ loads' \in 1 .. MaxLoads
    BY <1>5, <2>1, <2>2 DEF LoadStylesheet
  <2>4. event' = Idle /\ present' = present
    BY <1>5 DEF LoadStylesheet
  <2> QED
    BY <2>3, <2>4 DEF Idle
<1> QED
  BY <1>1, <1>2, <1>3, <1>4, <1>5, WorkerKeepsStyles DEF Next, StylesheetThread, vars

\* Only the worker inside getTile has GlobalCacheLock, before and after every step.
LEMMA LockedStep ==
    ASSUME Types, [Next]_vars
    PROVE  Locked'
<1> USE DEF Types
<1>0. Free \notin Workers
  BY CacheAssumption
<1>1. ASSUME UNCHANGED <<AllCaches, GlobalCacheLock, ti, cache>>,
             \A v \in Workers : /\ pc'[v] \in {"lookup", "evict"} <=> pc[v] \in {"lookup", "evict"}
                                /\ pc'[v] = "lookup" => pc[v] = "lookup" /\ Wanted(v)' = Wanted(v)
      PROVE  Locked'
  BY <1>1 DEF Locked
<1>2. ASSUME NEW w \in Workers, NEW l \in Labels \ {"lookup", "evict"},
             pc[w] \notin {"lookup", "evict"}, Goto(w, l),
             UNCHANGED <<AllCaches, GlobalCacheLock, ti, cache>>,
             \A v \in Workers \ {w} : holds'[v] = holds[v] /\ job'[v] = job[v]
      PROVE  Locked'
  BY <1>1, <1>2 DEF Goto, JobTypes, Wanted, empty
<1>3. ASSUME NEW w \in Workers, GetTileFind(w) PROVE Locked'
  <2>1. /\ pc[w] = "find" /\ pc' = [pc EXCEPT ![w] = "lookup"] /\ GlobalCacheLock = Free
        /\ GlobalCacheLock' = w /\ ti' = Wanted(w) /\ cache' = Attached
        /\ UNCHANGED <<holds, job>>
        /\ AllCaches' = [AllCaches EXCEPT ![StyleOf[Wanted(w)]] = Map(@)]
    BY <1>3 DEF GetTileFind, FindCache, Goto
  <2>2. StyleOf[Wanted(w)] \in Styles /\ Wanted(w)' = Wanted(w)
    BY <2>1, WantedType DEF Wanted, empty
  <2>3. AllCaches'[StyleOf[Wanted(w)]] # NoCache
    BY <2>1, <2>2, MapOfType DEF CacheTypes
  <2> QED
    BY <1>0, <2>1, <2>2, <2>3 DEF Locked, JobTypes
<1>4. ASSUME NEW w \in Workers, GetTileLookUp(w) PROVE Locked'
  <2>1. pc[w] = "lookup" /\ pc' = [pc EXCEPT ![w] = "evict"] /\ UNCHANGED GlobalCacheLock
    BY <1>4 DEF GetTileLookUp, Goto, LookUp
  <2> QED
    BY <1>0, <2>1 DEF Locked, JobTypes
<1>5. ASSUME NEW w \in Workers, GetTileEvict(w) PROVE Locked'
  <2>1. pc[w] = "evict" /\ UNCHANGED <<pc, GlobalCacheLock>>
    BY <1>5 DEF GetTileEvict, Evict, jobVars
  <2> QED
    BY <1>0, <2>1 DEF Locked, JobTypes
<1>6. ASSUME NEW w \in Workers, GetTileDone(w) PROVE Locked'
  <2>1. /\ pc[w] = "evict" /\ pc' = [pc EXCEPT ![w] = "check"]
        /\ GlobalCacheLock' = Free /\ cache' = Attached
    BY <1>6 DEF GetTileDone, Goto, KeepUnrendered, Unlock
  <2> QED
    BY <1>0, <2>1 DEF Locked, JobTypes
<1>7. ASSUME NEW w \in Workers, NEW m \in Metas, StartJob(w, m) PROVE Locked'
  BY <1>2, <1>7 DEF StartJob, cacheVars, Labels, JobTypes
<1>8. ASSUME NEW w \in Workers, GetStylesheet(w) PROVE Locked'
  BY <1>2, <1>8 DEF GetStylesheet, cacheVars, Labels
<1>9. ASSUME NEW w \in Workers, CheckTile(w) PROVE Locked'
  BY <1>2, <1>9 DEF CheckTile, cacheVars, Labels
<1>10. ASSUME NEW w \in Workers, CheckEmpty(w) PROVE Locked'
  BY <1>2, <1>10 DEF CheckEmpty, cacheVars, Labels
<1>11. ASSUME NEW w \in Workers, DeliverTile(w) PROVE Locked'
  BY <1>2, <1>11 DEF DeliverTile, cacheVars, Labels
<1>12. ASSUME NEW w \in Workers, SetImage(w) PROVE Locked'
  BY <1>2, <1>12 DEF SetImage, Labels
<1>13. ASSUME NEW w \in Workers, AnswerTile(w) PROVE Locked'
  BY <1>2, <1>13 DEF AnswerTile, Labels, CacheTypes, JobTypes
<1>14. CASE DeleteCache
  <2>1. UNCHANGED <<pc, job, holds, GlobalCacheLock, ti>> /\ event.style \in Styles
    BY <1>14 DEF DeleteCache, EraseCache, jobVars, StyleTypes
  <2>2. AllCaches' = [AllCaches EXCEPT ![event.style] = NoCache]
    BY <1>14 DEF DeleteCache, EraseCache
  <2>3. cache' = IF GlobalCacheLock # Free /\ cache = Attached /\ StyleOf[ti] = event.style
                    /\ AllCaches[event.style] # NoCache
                 THEN AllCaches[event.style] ELSE cache
    BY <1>14 DEF DeleteCache, EraseCache
  <2>4. \A w \in Workers : Wanted(w)' = Wanted(w)
    BY <2>1 DEF Wanted, empty
  <2>5. GlobalCacheLock' = Free => cache' = Attached
    BY <2>1, <2>3 DEF Locked
  <2>6. ASSUME NEW w \in Workers, pc[w] = "lookup", cache' = Attached
        PROVE  AllCaches'[StyleOf[ti]] # NoCache
    <3>1. cache = Attached /\ AllCaches[StyleOf[ti]] # NoCache /\ GlobalCacheLock # Free
      BY <1>0, <2>3, <2>6, NotMaps DEF Locked, CacheTypes
    <3>2. StyleOf[ti] # event.style
      BY <2>1, <2>3, <2>6, <3>1, NotMaps DEF CacheTypes
    <3> QED
      BY <2>2, <3>1, <3>2 DEF CacheTypes
  <2> QED
    BY <2>1, <2>4, <2>5, <2>6 DEF Locked
<1>15. ASSUME \/ \E type \in Events, s \in Styles : Begin(type, s)
              \/ DeleteFiles \/ EraseStylesheet \/ LoadStylesheet \/ UNCHANGED vars
       PROVE  Locked'
  <2>1. UNCHANGED <<AllCaches, GlobalCacheLock, ti, cache, pc, job, holds>>
    BY <1>15 DEF Begin, DeleteFiles, RemoveFiles, EraseStylesheet, LoadStylesheet, cacheVars,
       jobVars, vars
  <2> QED
    BY <1>1, <2>1 DEF Wanted, empty
<1>16. ASSUME NEW w \in Workers, Worker(w) PROVE Locked'
  BY <1>3, <1>4, <1>5, <1>6, <1>7, <1>8, <1>9, <1>10, <1>11, <1>12, <1>13, <1>16 DEF Worker
<1> QED
  BY <1>14, <1>15, <1>16 DEF Next, StylesheetThread

\* How a worker that is not idle goes on, or where the others stay.
LEMMA PlaceFrame ==
    ASSUME NEW v \in Workers, PlaceOf(v), pc'[v] = pc[v], job'[v] = job[v],
           holds'[v] = holds[v], next'[v] = next[v]
    PROVE  PlaceOf(v)'
BY DEF PlaceOf, Size, empty

\* The others stay where they are.
LEMMA PlacesMove ==
    ASSUME Places, NEW w \in Workers, PlaceOf(w)',
           \A v \in Workers \ {w} :
              pc'[v] = pc[v] /\ job'[v] = job[v] /\ holds'[v] = holds[v] /\ next'[v] = next[v]
    PROVE  Places'
BY PlaceFrame DEF Places

\* Every step keeps what the place of a job says of its variables.
LEMMA PlacesStep ==
    ASSUME Types, [Next]_vars
    PROVE  Places'
<1> USE DEF Types, JobTypes, CacheTypes
<1>1. ASSUME UNCHANGED <<pc, job, holds, next>> PROVE Places'
  BY <1>1, PlaceFrame DEF Places
<1>2. ASSUME NEW w \in Workers
      PROVE  /\ PlaceOf(w) /\ Len(holds[w]) \in Nat /\ next[w] \in Nat
             /\ job[w] \in Metas => Size(w) \in Nat \ {0} /\ Len(TilesOf[job[w]]) \in Nat
  <2>1. PlaceOf(w) /\ Len(holds[w]) \in Nat /\ next[w] \in Nat
    BY LenProperties DEF Places
  <2>2. ASSUME job[w] \in Metas PROVE Size(w) \in Nat \ {0} /\ Len(TilesOf[job[w]]) \in Nat
    <3>1. TilesOf[job[w]] \in Seq(Ids)
      BY <2>2, RenderingAssumption
    <3> QED
      BY <3>1, LenProperties, EmptySeq DEF Size, empty
  <2> QED
    BY <2>1, <2>2
<1>3. ASSUME NEW w \in Workers, NEW m \in Metas, StartJob(w, m) PROVE Places'
  <2>1. /\ pc[w] = "idle" /\ job' = [job EXCEPT ![w] = m] /\ UNCHANGED <<holds, next>>
        /\ pc' = [pc EXCEPT ![w] = IF TilesOf[m] = << >> THEN "stylesheet" ELSE "find"]
    BY <1>3 DEF StartJob, cacheVars, Goto
  <2>2. holds[w] = << >> /\ next[w] = 0 /\ Len(holds[w]) = 0
    BY <1>2, <2>1, EmptySeq DEF PlaceOf
  <2>3. Len(TilesOf[m]) \in Nat /\ (TilesOf[m] # << >> => Len(TilesOf[m]) > 0)
    BY RenderingAssumption, LenProperties, EmptySeq
  <2>4. job'[w] = m /\ pc'[w] = (IF TilesOf[m] = << >> THEN "stylesheet" ELSE "find")
    BY <2>1
  <2>5. PlaceOf(w)'
    BY <2>1, <2>2, <2>3, <2>4 DEF PlaceOf, Size, empty
  <2> QED
    BY <2>1, <2>5, PlacesMove
<1>4. ASSUME NEW w \in Workers, GetStylesheet(w) PROVE Places'
  <2>1. /\ pc[w] = "stylesheet" /\ UNCHANGED <<holds, next, job>>
        /\ pc' = [pc EXCEPT ![w] = IF empty(w) THEN "find" ELSE "deliver"]
    BY <1>4 DEF GetStylesheet, cacheVars, Goto
  <2>2. PlaceOf(w)'
    BY <1>2, <2>1 DEF PlaceOf, Size, empty
  <2> QED
    BY <2>1, <2>2, PlacesMove
<1>5. ASSUME NEW w \in Workers, GetTileFind(w) PROVE Places'
  <2>1. /\ pc[w] = "find" /\ UNCHANGED <<holds, next, job>>
        /\ pc' = [pc EXCEPT ![w] = "lookup"]
    BY <1>5 DEF GetTileFind, FindCache, Goto
  <2>2. PlaceOf(w)'
    BY <1>2, <2>1 DEF PlaceOf, Size, empty
  <2> QED
    BY <2>1, <2>2, PlacesMove
<1>6. ASSUME NEW w \in Workers, GetTileLookUp(w) PROVE Places'
  <2>1. /\ pc[w] = "lookup" /\ UNCHANGED <<next, job>> /\ LookUp(w)
        /\ pc' = [pc EXCEPT ![w] = "evict"]
    BY <1>6 DEF GetTileLookUp, Goto
  <2>2. \E o \in Objects : holds' = [holds EXCEPT ![w] = Append(@, o)]
    <3>1. ASSUME NEW p \in 1 .. Len(RecentlyUsedList), Hit(w, p)
          PROVE  \E o \in Objects : holds' = [holds EXCEPT ![w] = Append(@, o)]
      <4>1. RecentlyUsedList[p] \in Objects
        BY ElementOfSeq
      <4> QED
        BY <3>1, <4>1 DEF Hit
    <3>2. ASSUME NEW o \in Objects, Miss(w, o) PROVE holds' = [holds EXCEPT ![w] = Append(@, o)]
      BY <3>2 DEF Miss
    <3> QED
      BY <2>1, <3>1, <3>2, LookUpCases
  <2>3. Len(holds'[w]) = Len(holds[w]) + 1
    BY <2>2, AppendProperties
  <2>4. Len(holds[w]) < Size(w) /\ Size(w) \in Nat
    BY <1>2, <2>1 DEF PlaceOf
  <2>5. Len(holds[w]) + 1 \in 1 .. Size(w)
    BY <1>2, <2>4
  <2>6. Size(w)' = Size(w)
    BY <2>1 DEF Size, empty
  <2>7. PlaceOf(w)'
    BY <1>2, <2>1, <2>3, <2>5, <2>6 DEF PlaceOf
  <2> QED
    BY <2>1, <2>2, <2>7, PlacesMove
<1>7. ASSUME NEW w \in Workers, GetTileDone(w) PROVE Places'
  <2>1. /\ pc[w] = "evict" /\ UNCHANGED <<holds, next, job>>
        /\ pc' = [pc EXCEPT ![w] = "check"]
    BY <1>7 DEF GetTileDone, KeepUnrendered, Unlock, Goto
  <2>2. PlaceOf(w)'
    BY <1>2, <2>1 DEF PlaceOf, Size, empty
  <2> QED
    BY <2>1, <2>2, PlacesMove
<1>8. ASSUME NEW w \in Workers, CheckTile(w) PROVE Places'
  <2>1. /\ pc[w] = "check" /\ UNCHANGED <<holds, next, job>> /\ ~empty(w)
        /\ \/ Len(holds[w]) < Len(TilesOf[job[w]]) /\ pc' = [pc EXCEPT ![w] = "find"]
           \/ /\ ~(Len(holds[w]) < Len(TilesOf[job[w]]))
              /\ pc' = [pc EXCEPT ![w] = "deliver"] \/ pc' = [pc EXCEPT ![w] = "stylesheet"]
    BY <1>8 DEF CheckTile, cacheVars, Goto
  <2>2. Size(w)' = Size(w) /\ Size(w) = Len(TilesOf[job[w]]) /\ (empty(w)' <=> empty(w))
    BY <2>1 DEF Size, empty
  <2>3. Len(holds[w]) \in 1 .. Size(w) /\ next[w] = 0 /\ job[w] \in Metas
    BY <1>2, <2>1 DEF PlaceOf
  <2>4. Size(w) \in Nat \ {0} /\ Len(holds[w]) \in Nat
    BY <1>2, <2>3
  <2>5. CASE Len(holds[w]) < Len(TilesOf[job[w]]) /\ pc' = [pc EXCEPT ![w] = "find"]
    <3>1. pc'[w] = "find"
      BY <2>5
    <3>2. PlaceOf(w)'
      BY <2>1, <2>2, <2>3, <2>5, <3>1 DEF PlaceOf
    <3> QED
      BY <2>1, <2>5, <3>2, PlacesMove
  <2>6. ASSUME ~(Len(holds[w]) < Len(TilesOf[job[w]])), NEW l \in {"deliver", "stylesheet"},
               pc' = [pc EXCEPT ![w] = l]
        PROVE  Places'
    <3>1. Len(holds[w]) = Size(w) /\ pc'[w] = l
      BY <2>2, <2>3, <2>4, <2>6
    <3>2. PlaceOf(w)'
      BY <2>1, <2>2, <2>3, <2>4, <3>1 DEF PlaceOf
    <3> QED
      BY <2>1, <2>6, <3>2, PlacesMove
  <2> QED
    BY <2>1, <2>5, <2>6
<1>9. ASSUME NEW w \in Workers, CheckEmpty(w) PROVE Places'
  <2>1. /\ pc[w] = "check" /\ UNCHANGED <<holds, job>> /\ empty(w)
        /\ next' = [next EXCEPT ![w] = 1]
        /\ pc' = [pc EXCEPT ![w] = "answer"] \/ pc' = [pc EXCEPT ![w] = "setImage"]
    BY <1>9 DEF CheckEmpty, cacheVars, Goto
  <2>2. Size(w)' = Size(w) /\ Size(w) = 1 /\ (empty(w)' <=> empty(w))
    BY <2>1 DEF Size, empty
  <2>3. Len(holds[w]) = 1 /\ job[w] \in Metas
    <3>1. Len(holds[w]) \in 1 .. Size(w) /\ job[w] \in Metas
      BY <1>2, <2>1 DEF PlaceOf
    <3> QED
      BY <2>2, <3>1
  <2>4. pc'[w] \in {"answer", "setImage"} /\ next'[w] = 1
    BY <2>1
  <2>5. PlaceOf(w)'
    BY <2>1, <2>2, <2>3, <2>4 DEF PlaceOf
  <2> QED
    BY <2>1, <2>5, PlacesMove
<1>10. ASSUME NEW w \in Workers, DeliverTile(w) PROVE Places'
  <2>1. /\ pc[w] = "deliver" /\ UNCHANGED <<holds, job>>
        /\ next' = [next EXCEPT ![w] = @ + 1]
        /\ pc' = [pc EXCEPT ![w] = "answer"] \/ pc' = [pc EXCEPT ![w] = "setImage"]
    BY <1>10 DEF DeliverTile, cacheVars, Goto
  <2>2. Size(w)' = Size(w)
    BY <2>1 DEF Size, empty
  <2>3. /\ Len(holds[w]) = Size(w) /\ job[w] \in Metas /\ next[w] < Size(w)
        /\ next[w] \in Nat /\ Size(w) \in Nat
    BY <1>2, <2>1 DEF PlaceOf
  <2>4. pc'[w] \in {"answer", "setImage"} /\ next'[w] \in 1 .. Size(w)
    BY <2>1, <2>3
  <2>5. PlaceOf(w)'
    BY <2>1, <2>2, <2>3, <2>4 DEF PlaceOf
  <2> QED
    BY <2>1, <2>5, PlacesMove
<1>11. ASSUME NEW w \in Workers, SetImage(w) PROVE Places'
  <2>1. /\ pc[w] = "setImage" /\ UNCHANGED <<holds, next, job>>
        /\ pc' = [pc EXCEPT ![w] = "answer"]
    BY <1>11 DEF SetImage, Goto
  <2>2. PlaceOf(w)'
    BY <1>2, <2>1 DEF PlaceOf, Size, empty
  <2> QED
    BY <2>1, <2>2, PlacesMove
<1>12. ASSUME NEW w \in Workers, AnswerTile(w) PROVE Places'
  <2>1. /\ pc[w] = "answer" /\ job[w] \in Metas /\ Len(holds[w]) = Size(w)
        /\ next[w] \in 1 .. Size(w) /\ Size(w) \in Nat
    BY <1>2, <1>12 DEF AnswerTile, PlaceOf
  <2>2. CASE next[w] < Len(holds[w])
    <3>1. pc' = [pc EXCEPT ![w] = "deliver"] /\ UNCHANGED <<job, next, holds>>
      BY <1>12, <2>2 DEF AnswerTile, Goto
    <3>2. ~empty(w)
      BY <2>1, <2>2 DEF Size
    <3>3. Size(w)' = Size(w) /\ (empty(w)' <=> empty(w))
      BY <3>1 DEF Size, empty
    <3>4. PlaceOf(w)'
      BY <2>1, <2>2, <3>1, <3>2, <3>3 DEF PlaceOf
    <3> QED
      BY <3>1, <3>4, PlacesMove
  <2>3. CASE ~(next[w] < Len(holds[w]))
    <3>1. /\ pc' = [pc EXCEPT ![w] = "idle"] /\ job' = [job EXCEPT ![w] = NoMeta]
          /\ next' = [next EXCEPT ![w] = 0] /\ holds' = [holds EXCEPT ![w] = << >>]
      BY <1>12, <2>3 DEF AnswerTile, Goto
    <3>2. pc'[w] = "idle" /\ job'[w] = NoMeta /\ next'[w] = 0 /\ holds'[w] = << >>
      BY <3>1
    <3>3. PlaceOf(w)'
      BY <3>2 DEF PlaceOf
    <3> QED
      BY <3>1, <3>3, PlacesMove
  <2> QED
    BY <2>2, <2>3
<1>13. ASSUME NEW w \in Workers, GetTileEvict(w) PROVE Places'
  BY <1>1, <1>13 DEF GetTileEvict, Evict, jobVars
<1>14. ASSUME StylesheetThread \/ UNCHANGED vars PROVE UNCHANGED <<pc, job, holds, next>>
  BY <1>14 DEF StylesheetThread, Begin, DeleteFiles, RemoveFiles, DeleteCache, EraseCache,
     EraseStylesheet, LoadStylesheet, cacheVars, jobVars, vars
<1>15. ASSUME NEW w \in Workers, Worker(w) PROVE Places'
  BY <1>3, <1>4, <1>5, <1>6, <1>7, <1>8, <1>9, <1>10, <1>11, <1>12, <1>13, <1>15 DEF Worker
<1> QED
  BY <1>1, <1>14, <1>15 DEF Next

\* The initial state has the types.
LEMMA TypesInit == Init => Types
<1> SUFFICES ASSUME Init PROVE Types
  OBVIOUS
<1>1. CacheTypes
  BY EmptySeq, CacheAssumption DEF Init, CacheInit, CacheTypes
<1>2. JobTypes /\ StyleTypes
  BY RenderingAssumption DEF Init, JobTypes, StyleTypes, Labels, Steps, Idle
<1>3. Locked /\ Places
  BY CacheAssumption DEF Init, CacheInit, Locked, Places, PlaceOf
<1> QED
  BY <1>1, <1>2, <1>3 DEF Types

\* Every step keeps the types.
LEMMA TypesStep == Types /\ [Next]_vars => Types'
BY CacheTypesStep, JobTypesStep, StyleTypesStep, LockedStep, PlacesStep DEF Types

-----------------------------------------------------------------------------
(* The list, and what is in use.                                           *)

Listed(l, o) == \E p \in 1 .. Len(l) : l[p] = o
Once(l)      == \A p, q \in 1 .. Len(l) : l[p] = l[q] => p = q

\* What getTile makes of the list: a new tile comes to its front, one of its tiles moves
\* to the front, the last one leaves.
Pushed(l, m, o) ==
    /\ Len(m) = Len(l) + 1
    /\ \A k \in 1 .. Len(l) + 1 : m[k] = IF k = 1 THEN o ELSE l[k - 1]
Moved(l, m, p) ==
    /\ Len(m) = Len(l)
    /\ \A k \in 1 .. Len(l) :
          m[k] = IF k = 1 THEN l[p] ELSE IF k <= p THEN l[k - 1] ELSE l[k]
Popped(l, m) ==
    /\ Len(m) = Len(l) - 1
    /\ \A k \in 1 .. Len(l) - 1 : m[k] = l[k]

\* A tile that is found moves to the front.
LEMMA HitMoves ==
    ASSUME CacheTypes, NEW w \in Workers, NEW p \in 1 .. Len(RecentlyUsedList), Hit(w, p)
    PROVE  Moved(RecentlyUsedList, RecentlyUsedList', p)
<1> DEFINE l == RecentlyUsedList
           r == Seqs!RemoveAt(l, p)
<1>1. l \in Seq(Objects) /\ Len(l) \in Nat /\ l[p] \in Objects
  BY LenProperties, ElementOfSeq DEF CacheTypes
<1>2. /\ r \in Seq(Objects) /\ Len(r) = Len(l) - 1
      /\ \A k \in 1 .. Len(l) - 1 : r[k] = IF k < p THEN l[k] ELSE l[k + 1]
  BY <1>1, RemoveAtType
<1>3. /\ Len(<<l[p]>> \o r) = Len(r) + 1
      /\ \A k \in 1 .. Len(r) + 1 : (<<l[p]>> \o r)[k] = IF k = 1 THEN l[p] ELSE r[k - 1]
  BY <1>1, <1>2, ConsType
<1>4. RecentlyUsedList' = <<l[p]>> \o r
  BY DEF Hit
<1> HIDE DEF l, r
<1>5. Len(RecentlyUsedList') = Len(l)
  BY <1>1, <1>2, <1>3, <1>4
<1>6. ASSUME NEW k \in 1 .. Len(l)
      PROVE  RecentlyUsedList'[k] = IF k = 1 THEN l[p] ELSE IF k <= p THEN l[k - 1] ELSE l[k]
  <2>1. k \in 1 .. Len(r) + 1
    BY <1>1, <1>2
  <2>2. CASE k = 1
    BY <1>3, <1>4, <2>1, <2>2
  <2>3. CASE k # 1
    <3>1. k - 1 \in 1 .. Len(l) - 1 /\ (k - 1) + 1 = k /\ (k - 1 < p <=> k <= p)
      BY <1>1, <2>3 DEF l
    <3> QED
      BY <1>2, <1>3, <1>4, <2>1, <2>3, <3>1
  <2> QED
    BY <2>2, <2>3
<1> QED
  BY <1>5, <1>6 DEF Moved, l

\* A tile that is not found gets to the front.
LEMMA MissPushes ==
    ASSUME CacheTypes, NEW w \in Workers, NEW o \in Objects, Miss(w, o)
    PROVE  Pushed(RecentlyUsedList, RecentlyUsedList', o)
BY ConsType DEF CacheTypes, Miss, Pushed

\* An unrendered tile at the back moves to the front.
LEMMA KeepMoves ==
    ASSUME CacheTypes, NEW w \in Workers, KeepUnrendered(w)
    PROVE  Moved(RecentlyUsedList, RecentlyUsedList', Len(RecentlyUsedList))
<1> DEFINE l == RecentlyUsedList
           f == Seqs!Front(l)
<1>1. Len(l) > CacheSize /\ RecentlyUsedList' = <<oldest>> \o f
  BY DEF KeepUnrendered
<1>2. /\ Len(l) \in Nat \ {0} /\ oldest = l[Len(l)] /\ oldest \in Objects
      /\ f \in Seq(Objects) /\ Len(f) = Len(l) - 1
      /\ \A k \in 1 .. Len(l) - 1 : f[k] = l[k]
  BY <1>1, OldestType
<1>3. /\ Len(<<oldest>> \o f) = Len(f) + 1
      /\ \A k \in 1 .. Len(f) + 1 : (<<oldest>> \o f)[k] = IF k = 1 THEN oldest ELSE f[k - 1]
  BY <1>2, ConsType
<1> HIDE DEF l, f
<1>4. ASSUME NEW k \in 1 .. Len(l)
      PROVE  RecentlyUsedList'[k] = IF k = 1 THEN l[Len(l)] ELSE l[k - 1]
  <2>1. k \in 1 .. Len(f) + 1
    BY <1>2
  <2>2. k # 1 => k - 1 \in 1 .. Len(l) - 1
    BY <1>2
  <2> QED
    BY <1>1, <1>2, <1>3, <2>1, <2>2
<1>5. \A k \in 1 .. Len(l) : k <= Len(l)
  BY <1>2
<1> QED
  BY <1>1, <1>2, <1>3, <1>4, <1>5 DEF Moved, l

\* A rendered tile at the back leaves the list.
LEMMA EvictPops ==
    ASSUME CacheTypes, NEW w \in Workers, Evict(w)
    PROVE  Popped(RecentlyUsedList, RecentlyUsedList')
BY OldestType DEF Evict, Popped

\* Which tiles are in the list then.
LEMMA PushedList ==
    ASSUME NEW l, Len(l) \in Nat, NEW m, NEW o, Pushed(l, m, o), Once(l), ~Listed(l, o)
    PROVE  Once(m) /\ \A x : Listed(m, x) <=> x = o \/ Listed(l, x)
<1> DEFINE n == Len(l)
<1>2. 1 \in 1 .. n + 1 /\ (\A k \in 1 .. n + 1 : k # 1 => k - 1 \in 1 .. n)
      /\ (\A k \in 1 .. n : k + 1 \in 1 .. n + 1 /\ k + 1 # 1 /\ (k + 1) - 1 = k)
  OBVIOUS
<1>3. /\ Len(m) = n + 1 /\ m[1] = o
      /\ \A k \in 1 .. n + 1 : k # 1 => m[k] = l[k - 1]
      /\ \A k \in 1 .. n : m[k + 1] = l[k]
  BY <1>2 DEF Pushed
<1>4. \A k \in 1 .. n : l[k] # o
  BY DEF Listed
<1>5. ASSUME NEW p \in 1 .. n + 1, NEW q \in 1 .. n + 1, m[p] = m[q]
      PROVE  p = q
  <2>1. CASE p = 1 \/ q = 1
    BY <1>2, <1>3, <1>4, <1>5, <2>1
  <2>2. CASE p # 1 /\ q # 1
    <3>1. l[p - 1] = l[q - 1] /\ p - 1 \in 1 .. n /\ q - 1 \in 1 .. n
      BY <1>2, <1>3, <1>5, <2>2
    <3>2. p - 1 = q - 1
      BY <3>1 DEF Once
    <3> QED
      BY <3>2
  <2> QED
    BY <2>1, <2>2
<1>6. ASSUME NEW x, Listed(m, x) PROVE x = o \/ Listed(l, x)
  <2>1. PICK p \in 1 .. n + 1 : m[p] = x
    BY <1>3, <1>6 DEF Listed
  <2> QED
    BY <1>2, <1>3, <2>1 DEF Listed
<1>7. ASSUME NEW x, x = o \/ Listed(l, x) PROVE Listed(m, x)
  <2>1. CASE x = o
    BY <1>2, <1>3, <2>1 DEF Listed
  <2>2. CASE Listed(l, x)
    <3>1. PICK p \in 1 .. n : l[p] = x
      BY <2>2 DEF Listed
    <3> QED
      BY <1>2, <1>3, <3>1 DEF Listed
  <2> QED
    BY <1>7, <2>1, <2>2
<1> QED
  BY <1>3, <1>5, <1>6, <1>7 DEF Once

\* A list in which a tile moved has the same tiles, each once.
LEMMA MovedList ==
    ASSUME NEW l, Len(l) \in Nat, NEW m, NEW p \in 1 .. Len(l), Moved(l, m, p), Once(l)
    PROVE  Once(m) /\ \A x : Listed(m, x) <=> Listed(l, x)
<1> DEFINE n == Len(l)
           from(k) == IF k = 1 THEN p ELSE IF k <= p THEN k - 1 ELSE k
           to(k)   == IF k = p THEN 1 ELSE IF k < p THEN k + 1 ELSE k
<1>2. \A k \in 1 .. n : from(k) \in 1 .. n /\ m[k] = l[from(k)]
  BY DEF Moved
<1>3. \A k \in 1 .. n : to(k) \in 1 .. n /\ from(to(k)) = k
  OBVIOUS
<1>4. \A j, k \in 1 .. n : from(j) = from(k) => j = k
  OBVIOUS
<1>5. Len(m) = n
  BY DEF Moved
<1>6. Once(m)
  BY <1>2, <1>4, <1>5 DEF Once
<1> HIDE DEF from, to
<1>7. ASSUME NEW x, Listed(m, x) PROVE Listed(l, x)
  BY <1>2, <1>5, <1>7 DEF Listed
<1>8. ASSUME NEW x, Listed(l, x) PROVE Listed(m, x)
  <2>1. PICK k \in 1 .. n : l[k] = x
    BY <1>8 DEF Listed
  <2>2. to(k) \in 1 .. n /\ m[to(k)] = x
    BY <1>2, <1>3, <2>1
  <2> QED
    BY <1>5, <2>2 DEF Listed
<1> QED
  BY <1>6, <1>7, <1>8

\* A list that lost its last tile has the other ones, each once.
LEMMA PoppedList ==
    ASSUME NEW l, Len(l) \in Nat \ {0}, NEW m, Popped(l, m), Once(l)
    PROVE  Once(m) /\ \A x : Listed(m, x) <=> Listed(l, x) /\ x # l[Len(l)]
<1> DEFINE n == Len(l)
<1>2. Len(m) = n - 1 /\ \A k \in 1 .. n - 1 : m[k] = l[k]
  BY DEF Popped
<1>3. n \in 1 .. n /\ \A k \in 1 .. n - 1 : k \in 1 .. n /\ k # n
  OBVIOUS
<1>4. \A k \in 1 .. n : k = n \/ k \in 1 .. n - 1
  OBVIOUS
<1>5. \A j, k \in 1 .. n : l[j] = l[k] => j = k
  BY DEF Once
<1>6. Once(m)
  BY <1>2, <1>3, <1>5 DEF Once
<1>7. ASSUME NEW x, Listed(m, x) PROVE Listed(l, x) /\ x # l[n]
  <2>1. PICK k \in 1 .. n - 1 : m[k] = x
    BY <1>2, <1>7 DEF Listed
  <2> QED
    BY <1>2, <1>3, <1>5, <2>1 DEF Listed
<1>8. ASSUME NEW x, Listed(l, x), x # l[n] PROVE Listed(m, x)
  <2>1. PICK k \in 1 .. n : l[k] = x
    BY <1>8 DEF Listed
  <2>2. k \in 1 .. n - 1
    BY <1>4, <1>8, <2>1
  <2> QED
    BY <1>2, <2>1, <2>2 DEF Listed
<1> QED
  BY <1>6, <1>7, <1>8

\* A tile in a map, a list or the hand of a worker is in use, and not a new one.
LEMMA InUse ==
    ASSUME CacheTypes
    PROVE  /\ \A o : Listed(RecentlyUsedList, o) => o \in Live
           /\ \A w \in Workers : \A k \in 1 .. Len(holds[w]) : holds[w][k] \in Live
<1>1. ASSUME NEW o, Listed(RecentlyUsedList, o) PROVE o \in Live
  <2>1. DOMAIN RecentlyUsedList = 1 .. Len(RecentlyUsedList)
    BY LenProperties DEF CacheTypes
  <2>2. o \in Seqs!ToSet(RecentlyUsedList)
    BY <1>1, <2>1 DEF Listed, Seqs!ToSet
  <2> QED
    BY <2>2 DEF Live
<1>2. ASSUME NEW w \in Workers, NEW k \in 1 .. Len(holds[w]) PROVE holds[w][k] \in Live
  <2>1. DOMAIN holds[w] = 1 .. Len(holds[w])
    BY LenProperties DEF CacheTypes
  <2>2. holds[w][k] \in Seqs!ToSet(holds[w])
    BY <2>1 DEF Seqs!ToSet
  <2>3. holds[w][k] \in Held
    BY <2>2 DEF Held
  <2> QED
    BY <2>3 DEF Live
<1> QED
  BY <1>1, <1>2

\* The same of the next state.
LEMMA InUseNext ==
    ASSUME CacheTypes'
    PROVE  /\ \A o : Listed(RecentlyUsedList', o) => o \in Live'
           /\ \A w \in Workers : \A k \in 1 .. Len(holds'[w]) : holds'[w][k] \in Live'
<1>1. ASSUME NEW o, Listed(RecentlyUsedList', o) PROVE o \in Live'
  <2>1. DOMAIN RecentlyUsedList' = 1 .. Len(RecentlyUsedList')
    BY LenProperties DEF CacheTypes
  <2>2. o \in Seqs!ToSet(RecentlyUsedList')
    BY <1>1, <2>1 DEF Listed, Seqs!ToSet
  <2> QED
    BY <2>2 DEF Live
<1>2. ASSUME NEW w \in Workers, NEW k \in 1 .. Len(holds'[w]) PROVE holds'[w][k] \in Live'
  <2>1. DOMAIN holds'[w] = 1 .. Len(holds'[w])
    BY LenProperties DEF CacheTypes
  <2>2. holds'[w][k] \in Seqs!ToSet(holds'[w])
    BY <2>1 DEF Seqs!ToSet
  <2>3. holds'[w][k] \in Held'
    BY <2>2 DEF Held
  <2> QED
    BY <2>3 DEF Live
<1> QED
  BY <1>1, <1>2
-----------------------------------------------------------------------------
(* Entries lead to the list.                                               *)

Entries(M, s, l) == \A i \in DOMAIN M : StyleOf[i] = s /\ M[i].id = i /\ Listed(l, M[i])

\* EntriesLive, and the same for the map of a getTile that has not found its tile yet
\* when deleteTiles drops the map from AllCaches.
EntryInv ==
    /\ Once(RecentlyUsedList)
    /\ \A s \in Styles : AllCaches[s] # NoCache => Entries(AllCaches[s], s, RecentlyUsedList)
    /\ \A w \in Workers : pc[w] = "lookup" /\ cache # Attached =>
          Entries(cache, StyleOf[ti], RecentlyUsedList)

\* Entries that lead to a list lead to one that has its tiles.
LEMMA EntriesLonger ==
    ASSUME NEW M, NEW s, NEW l, NEW m, Entries(M, s, l), \A x : Listed(l, x) => Listed(m, x)
    PROVE  Entries(M, s, m)
BY DEF Entries

\* With an entry whose tile is in the list.
LEMMA EntriesPut ==
    ASSUME NEW M \in Maps, NEW o \in Objects, NEW l, NEW m, Entries(M, StyleOf[o.id], l),
           o.id \in Ids, \A x : Listed(l, x) => Listed(m, x), Listed(m, o)
    PROVE  Entries(Put(M, o.id, o), StyleOf[o.id], m)
<1>1. PICK i \in Ids : i = o.id
  OBVIOUS
<1> DEFINE P == Put(M, i, o)
<1>2. DOMAIN P = DOMAIN M \cup {i} /\ P[i] = o /\ \A k \in DOMAIN M \ {i} : P[k] = M[k]
  BY PutType
<1> HIDE DEF P
<1>3. Entries(P, StyleOf[i], m)
  BY <1>1, <1>2 DEF Entries
<1> QED
  BY <1>1, <1>3 DEF P

\* Without the entry of the tile that left the list.
LEMMA EntriesDrop ==
    ASSUME NEW M \in Maps, NEW o, NEW l, NEW m, NEW s, Entries(M, s, l),
           \A x : Listed(m, x) <=> Listed(l, x) /\ x # o
    PROVE  Entries(IF s = StyleOf[o.id] THEN Drop(M, o.id) ELSE M, s, m)
<1>1. CASE s = StyleOf[o.id]
  <2> DEFINE D == Drop(M, o.id)
  <2>1. DOMAIN D = DOMAIN M \ {o.id} /\ \A k \in DOMAIN D : D[k] = M[k]
    BY DropType
  <2> HIDE DEF D
  <2>2. Entries(D, s, m)
    BY <2>1 DEF Entries
  <2> QED
    BY <1>1, <2>2 DEF D
<1>2. CASE s # StyleOf[o.id]
  <2>1. Entries(M, s, m)
    BY <1>2 DEF Entries
  <2> QED
    BY <1>2, <2>1
<1> QED
  BY <1>1, <1>2

\* Every step keeps the entries leading to the list.
LEMMA EntryStep ==
    ASSUME Types, EntryInv, [Next]_vars
    PROVE  EntryInv'
<1> USE DEF Types
<1> DEFINE l == RecentlyUsedList
<1>0. Free \notin Workers /\ Len(l) \in Nat
  BY CacheAssumption, LenProperties DEF CacheTypes
<1>1. ASSUME UNCHANGED <<AllCaches, RecentlyUsedList, ti, cache>>,
             \A v \in Workers : pc'[v] = "lookup" => pc[v] = "lookup"
      PROVE  EntryInv'
  BY <1>1 DEF EntryInv
<1>2. ASSUME NEW w \in Workers, GetTileFind(w) PROVE EntryInv'
  <2>1. /\ cache' = Attached /\ UNCHANGED RecentlyUsedList
        /\ AllCaches' = [AllCaches EXCEPT ![StyleOf[Wanted(w)]] = Map(@)]
        /\ pc[w] = "find"
    BY <1>2 DEF GetTileFind, FindCache
  <2>2. StyleOf[Wanted(w)] \in Styles
    BY <2>1, WantedType
  <2>3. ASSUME NEW s \in Styles PROVE AllCaches'[s] = AllCaches[s] \/ AllCaches'[s] = << >>
    BY <2>1, <2>2 DEF CacheTypes, Map
  <2>4. Entries(<< >>, 0, l) /\ \A s \in Styles : Entries(<< >>, s, l)
    BY EmptyMap DEF Entries
  <2>5. ASSUME NEW s \in Styles, AllCaches'[s] # NoCache PROVE Entries(AllCaches'[s], s, l)
    BY <2>3, <2>4, <2>5 DEF EntryInv
  <2> QED
    BY <2>1, <2>5 DEF EntryInv
<1>3. ASSUME NEW w \in Workers, GetTileLookUp(w) PROVE EntryInv'
  <2>1. pc[w] = "lookup" /\ LookUp(w) /\ pc' = [pc EXCEPT ![w] = "evict"]
    BY <1>3 DEF GetTileLookUp, Goto
  <2>2. GlobalCacheLock = w /\ ti \in Ids /\ StyleOf[ti] \in Styles /\ WorkMap \in Maps
    BY <2>1, LookUpCases
  <2>3. \A v \in Workers : pc'[v] # "lookup"
    BY <2>1, <2>2 DEF Locked, JobTypes
  <2>4. Entries(WorkMap, StyleOf[ti], l)
    BY <2>1, <2>2 DEF EntryInv, WorkMap, Locked
  <2>5. ASSUME NEW p \in 1 .. Len(RecentlyUsedList), Hit(w, p) PROVE EntryInv'
    <3>1. Once(l') /\ \A x : Listed(l, x) => Listed(l', x)
      BY <1>0, <2>5, HitMoves, MovedList DEF EntryInv
    <3>2. AllCaches' = AllCaches
      BY <2>5 DEF Hit
    <3> QED
      BY <2>3, <3>1, <3>2, EntriesLonger DEF EntryInv
  <2>6. ASSUME NEW o \in Objects, Miss(w, o) PROVE EntryInv'
    <3>1. Once(l') /\ \A x : Listed(l', x) <=> x = o \/ Listed(l, x)
      BY <1>0, <2>6, MissPushes, PushedList, InUse DEF EntryInv, Miss
    <3>2. o.id = ti
      BY <2>6 DEF Miss
    <3>3. Entries(Put(WorkMap, ti, o), StyleOf[ti], l')
      BY <2>2, <2>4, <3>1, <3>2, EntriesPut
    <3>4. ASSUME NEW s \in Styles, AllCaches'[s] # NoCache PROVE Entries(AllCaches'[s], s, l')
      <4>1. CASE cache = Attached /\ s = StyleOf[ti]
        <5>1. AllCaches'[s] = Put(WorkMap, ti, o)
          BY <2>2, <2>6, <4>1 DEF Miss, WorkMap, CacheTypes
        <5> QED
          BY <3>3, <4>1, <5>1
      <4>2. CASE ~(cache = Attached /\ s = StyleOf[ti])
        <5>1. AllCaches'[s] = AllCaches[s]
          BY <2>2, <2>6, <4>2 DEF Miss, CacheTypes
        <5> QED
          BY <3>1, <3>4, <5>1, EntriesLonger DEF EntryInv
      <4> QED
        BY <4>1, <4>2
    <3> QED
      BY <2>3, <3>1, <3>4 DEF EntryInv
  <2> QED
    BY <2>1, <2>5, <2>6, LookUpCases
<1>4. ASSUME NEW w \in Workers, GetTileEvict(w) PROVE EntryInv'
  <2>1. /\ Evict(w) /\ Len(l) > CacheSize /\ GlobalCacheLock = w /\ pc[w] = "evict"
        /\ AllCaches' = WithoutOldest /\ pc' = pc
    BY <1>4 DEF GetTileEvict, Evict, jobVars
  <2>2. \A v \in Workers : pc'[v] # "lookup"
    BY <2>1 DEF Locked
  <2>3. Once(l') /\ \A x : Listed(l', x) <=> Listed(l, x) /\ x # oldest
    BY <2>1, EvictPops, PoppedList, OldestType DEF EntryInv
  <2>4. ASSUME NEW s \in Styles, AllCaches'[s] # NoCache PROVE Entries(AllCaches'[s], s, l')
    <3>1. AllCaches'[s] = IF s = StyleOf[oldId] /\ AllCaches[s] # NoCache
                          THEN Drop(AllCaches[s], oldId) ELSE AllCaches[s]
      BY <2>1, WithoutOldestIs
    <3>2. AllCaches[s] # NoCache
      BY <2>4, <3>1
    <3>3. AllCaches[s] \in Maps /\ Entries(AllCaches[s], s, l)
      BY <3>2 DEF EntryInv, CacheTypes
    <3>4. Entries(IF s = StyleOf[oldId] THEN Drop(AllCaches[s], oldId) ELSE AllCaches[s], s, l')
      BY <2>3, <3>3, EntriesDrop DEF oldId
    <3> QED
      BY <3>1, <3>2, <3>4
  <2> QED
    BY <2>2, <2>3, <2>4 DEF EntryInv
<1>5. ASSUME NEW w \in Workers, KeepUnrendered(w) PROVE EntryInv'
  <2>1. Len(l) > CacheSize /\ AllCaches' = WithOldest /\ cache' = Attached
    BY <1>5 DEF KeepUnrendered
  <2>2. Len(l) \in 1 .. Len(l) /\ Listed(l, oldest) /\ oldest \in Objects /\ oldId \in Ids
    BY <2>1, OldestType DEF Listed
  <2>3. Once(l') /\ \A x : Listed(l', x) <=> Listed(l, x)
    BY <1>0, <1>5, <2>2, KeepMoves, MovedList DEF EntryInv
  <2>4. ASSUME NEW s \in Styles, AllCaches'[s] # NoCache PROVE Entries(AllCaches'[s], s, l')
    <3>1. AllCaches'[s] = IF s = StyleOf[oldId] /\ AllCaches[s] # NoCache
                          THEN Put(AllCaches[s], oldId, oldest) ELSE AllCaches[s]
      BY <2>1, WithOldestIs
    <3>2. AllCaches[s] # NoCache
      BY <2>4, <3>1
    <3>3. AllCaches[s] \in Maps /\ Entries(AllCaches[s], s, l)
      BY <3>2 DEF EntryInv, CacheTypes
    <3>4. CASE s = StyleOf[oldId]
      BY <2>2, <2>3, <3>1, <3>2, <3>3, <3>4, EntriesPut DEF oldId
    <3>5. CASE s # StyleOf[oldId]
      BY <2>3, <3>1, <3>3, <3>5, EntriesLonger
    <3> QED
      BY <3>4, <3>5
  <2> QED
    BY <2>1, <2>3, <2>4 DEF EntryInv
<1>6. ASSUME NEW w \in Workers, GetTileDone(w) PROVE EntryInv'
  <2>1. CASE Unlock(w)
    <3>1. cache' = Attached /\ UNCHANGED <<AllCaches, RecentlyUsedList>>
      BY <2>1 DEF Unlock
    <3> QED
      BY <3>1 DEF EntryInv
  <2> QED
    BY <1>5, <1>6, <2>1 DEF GetTileDone
<1>7. CASE DeleteCache
  <2>1. /\ UNCHANGED <<RecentlyUsedList, ti, pc, GlobalCacheLock>> /\ event.style \in Styles
        /\ AllCaches' = [AllCaches EXCEPT ![event.style] = NoCache]
        /\ cache' = IF GlobalCacheLock # Free /\ cache = Attached /\ StyleOf[ti] = event.style
                       /\ AllCaches[event.style] # NoCache
                    THEN AllCaches[event.style] ELSE cache
    BY <1>7 DEF DeleteCache, EraseCache, jobVars, StyleTypes
  <2>2. \A s \in Styles : AllCaches'[s] # NoCache => AllCaches'[s] = AllCaches[s]
    BY <2>1 DEF CacheTypes
  <2>3. ASSUME NEW v \in Workers, pc'[v] = "lookup", cache' # Attached
        PROVE  Entries(cache', StyleOf[ti], l)
    BY <2>1, <2>3 DEF EntryInv
  <2> QED
    BY <2>1, <2>2, <2>3 DEF EntryInv
<1>8. ASSUME \/ \E type \in Events, s \in Styles : Begin(type, s)
             \/ DeleteFiles \/ EraseStylesheet \/ LoadStylesheet \/ UNCHANGED vars
      PROVE  UNCHANGED <<AllCaches, RecentlyUsedList, ti, cache, pc>>
  BY <1>8 DEF Begin, DeleteFiles, RemoveFiles, EraseStylesheet, LoadStylesheet, cacheVars,
     jobVars, vars
<1>9. ASSUME NEW w \in Workers,
             \/ \E m \in Metas : StartJob(w, m)
             \/ GetStylesheet(w) \/ CheckTile(w) \/ CheckEmpty(w) \/ DeliverTile(w)
             \/ SetImage(w) \/ AnswerTile(w)
      PROVE  EntryInv'
  <2>1. UNCHANGED <<AllCaches, RecentlyUsedList, ti, cache>>
    BY <1>9 DEF StartJob, GetStylesheet, CheckTile, CheckEmpty, DeliverTile, SetImage, AnswerTile,
       cacheVars
  <2>2. \E a \in Labels \ {"lookup"} : pc' = [pc EXCEPT ![w] = a]
    BY <1>9 DEF StartJob, GetStylesheet, CheckTile, CheckEmpty, DeliverTile, SetImage, AnswerTile,
       Goto, Labels
  <2>3. \A v \in Workers : pc'[v] = "lookup" => pc[v] = "lookup"
    BY <2>2 DEF JobTypes
  <2> QED
    BY <1>1, <2>1, <2>3
<1>10. ASSUME NEW w \in Workers, Worker(w) PROVE EntryInv'
  BY <1>2, <1>3, <1>4, <1>6, <1>9, <1>10 DEF Worker
<1> QED
  BY <1>1, <1>7, <1>8, <1>10 DEF Next, StylesheetThread

\* At the start there are no entries.
LEMMA EntryInit == Init => EntryInv
BY EmptySeq, CacheAssumption DEF Init, CacheInit, EntryInv, Once

\* What the invariant says of AllCaches.
LEMMA EntryImplies ==
    ASSUME Types, EntryInv
    PROVE  EntriesLive
<1> USE DEF Types
<1>1. DOMAIN RecentlyUsedList = 1 .. Len(RecentlyUsedList)
  BY LenProperties DEF CacheTypes
<1>2. Funcs!IsInjective(RecentlyUsedList)
  BY <1>1 DEF Funcs!IsInjective, EntryInv, Once
<1>3. ASSUME NEW s \in Styles, NEW i \in DOMAIN Map(AllCaches[s])
      PROVE  AllCaches[s][i] \in Seqs!ToSet(RecentlyUsedList) /\ AllCaches[s][i].id = i
  <2>1. AllCaches[s] # NoCache
    BY <1>3, EmptyMap DEF Map
  <2>2. i \in DOMAIN AllCaches[s]
    BY <1>3, <2>1 DEF Map
  <2> QED
    BY <1>1, <2>1, <2>2 DEF EntryInv, Entries, Listed, Seqs!ToSet
<1> QED
  BY <1>2, <1>3 DEF EntriesLive

-----------------------------------------------------------------------------
(* Images.                                                                 *)

\* What a step may do to the image of a tile: nothing, unless the tile is released, the
\* worker that has drawn it sets it, or getTile has just created it.
Sets(w, o) ==
    /\ SetImage(w) /\ holds[w][next[w]] = o /\ image'[o] = canvas[w]
    /\ next[w] \in 1 .. Len(holds[w])
Creates(w, o) ==
    /\ GetTileLookUp(w) /\ Miss(w, o) /\ o.id \in Ids
    /\ image'[o] = IF o.id \in LowZoom THEN disk[o.id] ELSE NoImage

\* Where the picture of a tile in memory comes from.
LEMMA ImageStep ==
    ASSUME Types, [Next]_vars, NEW o \in Objects
    PROVE  \/ image'[o] = image[o]
           \/ image'[o] = NoImage /\ o \notin Live'
           \/ \E w \in Workers : Sets(w, o) \/ Creates(w, o)
<1> USE DEF Types
<1> DEFINE Goal == \/ image'[o] = image[o]
                   \/ image'[o] = NoImage /\ o \notin Live'
                   \/ \E w \in Workers : Sets(w, o) \/ Creates(w, o)
<1>1. CASE UNCHANGED image
  BY <1>1
<1>2. CASE Release
  BY <1>2 DEF Release
<1>3. ASSUME NEW w \in Workers, SetImage(w) PROVE Goal
  <2>1. /\ image' = [image EXCEPT ![holds[w][next[w]]] = canvas[w]]
        /\ next[w] \in 1 .. Size(w) /\ Len(holds[w]) = Size(w)
    BY <1>3 DEF SetImage, Places, PlaceOf
  <2>2. holds[w] \in Seq(Objects)
    BY DEF CacheTypes
  <2>3. holds[w][next[w]] \in Objects
    BY <2>1, <2>2, ElementOfSeq
  <2>4. CASE o = holds[w][next[w]]
    <3>1. image'[o] = canvas[w]
      BY <2>1, <2>3, <2>4 DEF CacheTypes
    <3>2. Sets(w, o)
      BY <1>3, <2>1, <2>4, <3>1 DEF Sets
    <3> QED
      BY <3>2
  <2>5. CASE o # holds[w][next[w]]
    BY <2>1, <2>5 DEF CacheTypes
  <2> QED
    BY <2>4, <2>5
<1>4. ASSUME NEW w \in Workers, GetTileLookUp(w) PROVE Goal
  <2>1. pc[w] = "lookup" /\ LookUp(w)
    BY <1>4 DEF GetTileLookUp
  <2>2. ti \in Ids
    BY <2>1, LookUpCases
  <2>3. ASSUME NEW p, Hit(w, p) PROVE UNCHANGED image
    BY <2>3 DEF Hit
  <2>4. ASSUME NEW x \in Objects, Miss(w, x) PROVE Goal
    <3>1. image' = [image EXCEPT ![x] = IF ti \in LowZoom THEN disk[ti] ELSE NoImage] /\ x.id = ti
      BY <2>4 DEF Miss
    <3>2. CASE x = o
      <4>1. image'[o] = IF o.id \in LowZoom THEN disk[o.id] ELSE NoImage
        BY <3>1, <3>2 DEF CacheTypes
      <4>2. Creates(w, o)
        BY <1>4, <2>2, <2>4, <3>1, <3>2, <4>1 DEF Creates
      <4> QED
        BY <4>2
    <3>3. CASE x # o
      BY <3>1, <3>3 DEF CacheTypes
    <3> QED
      BY <3>2, <3>3
  <2> QED
    BY <1>1, <2>1, <2>3, <2>4, LookUpCases
<1>5. ASSUME NEW w \in Workers, AnswerTile(w) PROVE UNCHANGED image \/ Release
  <2>1. next[w] \in Nat /\ Len(holds[w]) \in Nat
    BY LenProperties DEF CacheTypes, JobTypes
  <2>2. next[w] < Len(holds[w]) \/ next[w] = Len(holds[w])
    BY <1>5, <2>1 DEF AnswerTile, Places, PlaceOf
  <2> QED
    BY <1>5, <2>2 DEF AnswerTile
<1>6. ASSUME NEW w \in Workers, GetTileEvict(w) \/ GetTileDone(w) PROVE Release
  BY <1>6 DEF GetTileEvict, GetTileDone, Evict, KeepUnrendered, Unlock
<1>7. ASSUME NEW w \in Workers,
             \/ \E m \in Metas : StartJob(w, m)
             \/ GetStylesheet(w) \/ GetTileFind(w) \/ CheckTile(w) \/ CheckEmpty(w)
             \/ DeliverTile(w)
      PROVE  UNCHANGED image
  BY <1>7 DEF StartJob, GetStylesheet, GetTileFind, FindCache, CheckTile, CheckEmpty, DeliverTile,
     cacheVars
<1>8. ASSUME StylesheetThread \/ UNCHANGED vars PROVE UNCHANGED image \/ Release
  BY <1>8 DEF StylesheetThread, Begin, DeleteFiles, RemoveFiles, DeleteCache, EraseCache,
     EraseStylesheet, LoadStylesheet, cacheVars, vars
<1> HIDE DEF Goal
<1>9. ASSUME NEW w \in Workers, Worker(w) PROVE Goal
  BY <1>1, <1>2, <1>3, <1>4, <1>5, <1>6, <1>7, <1>9 DEF Worker, Goal
<1> QED
  BY <1>1, <1>2, <1>8, <1>9 DEF Next, Goal

\* The file of a tile: what it was, nothing, or the image of a tile in memory.
LEMMA DiskStep ==
    ASSUME Types, [Next]_vars, NEW i \in Ids
    PROVE  \/ disk'[i] = disk[i] \/ disk'[i] = NoImage
           \/ \E o \in Objects : o.id = i /\ disk'[i] = image[o]
<1> USE DEF Types
<1>1. ASSUME NEW w \in Workers, GetTileEvict(w)
      PROVE  disk'[i] = disk[i] \/ \E o \in Objects : o.id = i /\ disk'[i] = image[o]
  <2>1. PICK j \in Written : disk' = [disk EXCEPT ![oldId] = j]
    BY <1>1 DEF GetTileEvict, Evict
  <2>2. oldest \in Objects /\ oldId \in Ids /\ oldest.id = oldId
    BY <1>1, OldestType DEF GetTileEvict, Evict, oldId
  <2>3. j = image[oldest] \/ j = disk[oldId]
    BY DEF Written
  <2> QED
    BY <2>1, <2>2, <2>3 DEF CacheTypes
<1>2. ASSUME NEW w \in Workers, KeepUnrendered(w) PROVE disk'[i] = disk[i] \/ disk'[i] = NoImage
  BY <1>2, OldestType DEF KeepUnrendered, CacheTypes
<1>3. CASE DeleteFiles
  BY <1>3 DEF DeleteFiles, RemoveFiles
<1>4. ASSUME NEW w \in Workers, Worker(w), ~GetTileEvict(w), ~KeepUnrendered(w)
      PROVE  UNCHANGED disk
  BY <1>4 DEF Worker, StartJob, GetStylesheet, GetTileFind, FindCache, GetTileLookUp, LookUp,
     GetTileDone, Unlock, CheckTile, CheckEmpty, DeliverTile, SetImage, AnswerTile, cacheVars
<1>5. ASSUME \/ \E type \in Events, s \in Styles : Begin(type, s)
             \/ DeleteCache \/ EraseStylesheet \/ LoadStylesheet \/ UNCHANGED vars
      PROVE  UNCHANGED disk
  BY <1>5 DEF Begin, DeleteCache, EraseCache, EraseStylesheet, LoadStylesheet, cacheVars, vars
<1> QED
  BY <1>1, <1>2, <1>3, <1>4, <1>5 DEF Next, StylesheetThread

-----------------------------------------------------------------------------
(* What the images show.                                                   *)

\* The image is a picture the tile i may have: of the meta tile it belongs to, or of a
\* meta tile without data, of whose stylesheet it is the empty tile.
PictureOf(pic, i) ==
    /\ pic.of \in Metas
    /\ TilesOf[pic.of] = << >> => i = EmptyID[MetaStyle[pic.of]]
    /\ TilesOf[pic.of] # << >> => \E k \in 1 .. Len(TilesOf[pic.of]) : TilesOf[pic.of][k] = i

Pictures ==
    /\ \A o \in Objects : image[o] # NoImage => PictureOf(image[o], o.id)
    /\ \A i \in Ids : disk[i] # NoImage => PictureOf(disk[i], i)

\* The first n of these tiles are rendered.
Done(im, h, n) == \A k \in 1 .. n : im[h[k]] # NoImage

\* A job has got the tiles of its meta tile in their order.  What it has drawn on its
\* canvas is its meta tile; if it has drawn nothing, it has found every tile rendered.
JobInv(w) ==
    /\ \A k \in 1 .. Len(holds[w]) : holds[w][k].id = Nth(w, k)
    /\ pc[w] = "idle" => canvas[w] = NoImage
    /\ canvas[w] # NoImage => canvas[w].of = job[w]
    /\ empty(w) /\ pc[w] \notin {"idle", "stylesheet"} => canvas[w] # NoImage
    /\ pc[w] = "setImage" => canvas[w] # NoImage
    /\ pc[w] \in {"find", "lookup"} /\ allRendered[w] => Done(image, holds[w], Len(holds[w]))
    /\ pc[w] \in {"evict", "check"} /\ allRendered[w] => Done(image, holds[w], Len(holds[w]) - 1)
    /\ pc[w] \in {"deliver", "setImage", "answer"} /\ canvas[w] = NoImage =>
          Done(image, holds[w], Len(holds[w]))
    /\ pc[w] = "answer" => image[holds[w][next[w]]] # NoImage

JobsInv == \A w \in Workers : JobInv(w)

ShowInv == Pictures /\ JobsInv

\* The tile a job cuts from its canvas is a tile of the job.
LEMMA CanvasShows ==
    ASSUME Types, NEW w \in Workers, JobInv(w), pc[w] # "idle", canvas[w] # NoImage,
           NEW k \in 1 .. Len(holds[w]), Len(holds[w]) = Size(w)
    PROVE  PictureOf(canvas[w], holds[w][k].id)
<1>1. job[w] \in Metas /\ canvas[w].of = job[w] /\ holds[w][k].id = Nth(w, k)
  BY JobFacts DEF JobInv
<1>2. empty(w) => Nth(w, k) = EmptyID[MetaStyle[job[w]]]
  BY DEF Nth
<1>3. ~empty(w) => Nth(w, k) = TilesOf[job[w]][k] /\ k \in 1 .. Len(TilesOf[job[w]])
  BY DEF Nth, Size
<1> QED
  BY <1>1, <1>2, <1>3 DEF PictureOf, empty

\* Every step keeps the pictures in memory and in files the right ones.
LEMMA PicturesStep ==
    ASSUME Types, ShowInv, [Next]_vars
    PROVE  Pictures'
<1> USE DEF Types, ShowInv
<1>1. ASSUME NEW i \in Ids, disk'[i] # NoImage PROVE PictureOf(disk'[i], i)
  BY <1>1, DiskStep DEF Pictures
<1>2. ASSUME NEW o \in Objects, image'[o] # NoImage PROVE PictureOf(image'[o], o.id)
  <2>1. ASSUME NEW w \in Workers, Sets(w, o) PROVE PictureOf(image'[o], o.id)
    <3>1. pc[w] = "setImage" /\ image'[o] = canvas[w] /\ holds[w][next[w]] = o
      BY <2>1 DEF Sets, SetImage
    <3>2. next[w] \in 1 .. Len(holds[w]) /\ Len(holds[w]) = Size(w) /\ pc[w] # "idle"
      BY <2>1, <3>1 DEF Sets, Places, PlaceOf
    <3> QED
      BY <1>2, <3>1, <3>2, CanvasShows DEF JobsInv
  <2>2. ASSUME NEW w \in Workers, Creates(w, o) PROVE PictureOf(image'[o], o.id)
    BY <1>2, <2>2 DEF Creates, Pictures
  <2> QED
    BY <1>2, <2>1, <2>2, ImageStep DEF Pictures
<1> QED
  BY <1>1, <1>2 DEF Pictures

\* A rendered tile that stays in use stays rendered.
LEMMA StaysRendered ==
    ASSUME Types, JobsInv, [Next]_vars, NEW o \in Objects, o \in Live, o \in Live',
           image[o] # NoImage
    PROVE  image'[o] # NoImage
<1>1. ASSUME NEW w \in Workers, Sets(w, o) PROVE image'[o] # NoImage
  BY <1>1 DEF Sets, SetImage, JobsInv, JobInv
<1>2. ASSUME NEW w \in Workers, Creates(w, o) PROVE FALSE
  BY <1>2 DEF Creates, Miss
<1> QED
  BY <1>1, <1>2, ImageStep

\* A rendered tile stays rendered while a worker has it in hand.
LEMMA HeldStaysRendered ==
    ASSUME Types, JobsInv, [Next]_vars, NEW w \in Workers, NEW v \in Workers,
           NEW k \in 1 .. Len(holds[w]), NEW j \in 1 .. Len(holds'[v]),
           holds'[v][j] = holds[w][k], image[holds[w][k]] # NoImage
    PROVE  image'[holds'[v][j]] # NoImage
<1>1. CacheTypes /\ CacheTypes'
  BY CacheTypesStep DEF Types
<1>2. holds[w] \in Seq(Objects)
  BY <1>1 DEF CacheTypes
<1>3. holds[w][k] \in Objects
  BY <1>2, ElementOfSeq
<1> QED
  BY <1>1, <1>3, InUse, InUseNext, StaysRendered

\* The invariant of a job at which a step passes by.
LEMMA JobFrame ==
    ASSUME Types, JobsInv, [Next]_vars, NEW v \in Workers,
           pc'[v] = pc[v], job'[v] = job[v], holds'[v] = holds[v], next'[v] = next[v],
           allRendered'[v] = allRendered[v], canvas'[v] = canvas[v]
    PROVE  JobInv(v)'
<1> USE DEF Types
<1>1. JobInv(v)
  BY DEF JobsInv
<1>2. Len(holds[v]) \in Nat
  BY LenProperties DEF CacheTypes
<1>3. ASSUME NEW n \in Int, n <= Len(holds[v]), Done(image, holds[v], n)
      PROVE  Done(image', holds'[v], n)
  <2>1. \A k \in 1 .. n : k \in 1 .. Len(holds[v]) /\ image[holds[v][k]] # NoImage
    BY <1>2, <1>3 DEF Done
  <2>2. ASSUME NEW k \in 1 .. n PROVE image'[holds'[v][k]] # NoImage
    BY <2>1, <2>2, HeldStaysRendered
  <2> QED
    BY <2>2 DEF Done
<1>4. /\ Done(image, holds[v], Len(holds[v])) => Done(image', holds'[v], Len(holds'[v]))
      /\ Done(image, holds[v], Len(holds[v]) - 1) => Done(image', holds'[v], Len(holds'[v]) - 1)
  BY <1>2, <1>3
<1>5. pc[v] = "answer" => image'[holds'[v][next'[v]]] # NoImage
  <2>1. ASSUME pc[v] = "answer" PROVE image'[holds'[v][next'[v]]] # NoImage
    <3>1. next[v] \in 1 .. Len(holds[v])
      BY <2>1 DEF Places, PlaceOf
    <3>2. image[holds[v][next[v]]] # NoImage
      BY <1>1, <2>1 DEF JobInv
    <3> QED
      BY <3>1, <3>2, HeldStaysRendered
  <2> QED
    BY <2>1
<1> QED
  BY <1>1, <1>4, <1>5 DEF JobInv, Nth, empty

\* The tiles a job has finished stay finished.
LEMMA DoneStays ==
    ASSUME Types, JobsInv, [Next]_vars, NEW w \in Workers, NEW n \in Int,
           n <= Len(holds[w]), n <= Len(holds'[w]), \A k \in 1 .. n : holds'[w][k] = holds[w][k],
           Done(image, holds[w], n)
    PROVE  Done(image', holds'[w], n)
<1>1. Len(holds[w]) \in Nat /\ Len(holds'[w]) \in Nat
  BY CacheTypesStep, LenProperties DEF Types, CacheTypes
<1>2. \A k \in 1 .. n : /\ k \in 1 .. Len(holds[w]) /\ k \in 1 .. Len(holds'[w])
                        /\ image[holds[w][k]] # NoImage
  BY <1>1 DEF Done
<1>3. ASSUME NEW k \in 1 .. n PROVE image'[holds'[w][k]] # NoImage
  BY <1>2, <1>3, HeldStaysRendered
<1> QED
  BY <1>3 DEF Done

\* A step that passes all jobs by.
LEMMA JobsMove ==
    ASSUME Types, JobsInv, [Next]_vars, NEW w \in Workers, JobInv(w)',
           \A v \in Workers \ {w} :
              /\ pc'[v] = pc[v] /\ job'[v] = job[v] /\ holds'[v] = holds[v] /\ next'[v] = next[v]
              /\ allRendered'[v] = allRendered[v] /\ canvas'[v] = canvas[v]
    PROVE  JobsInv'
BY JobFrame DEF JobsInv

\* The tile a job has just got.
LEMMA LookUpGot ==
    ASSUME Types, EntryInv, NEW w \in Workers, GetTileLookUp(w)
    PROVE  /\ \E o \in Objects : o.id = ti /\ holds' = [holds EXCEPT ![w] = Append(@, o)]
           /\ pc[w] = "lookup" /\ ti = Nth(w, Len(holds[w]) + 1)
<1> USE DEF Types
<1>1. pc[w] = "lookup" /\ LookUp(w)
  BY DEF GetTileLookUp
<1>2. ti \in Ids /\ StyleOf[ti] \in Styles /\ WorkMap \in Maps /\ ti = Nth(w, Len(holds[w]) + 1)
  BY <1>1, LookUpCases, JobFacts DEF Locked
<1>3. Entries(WorkMap, StyleOf[ti], RecentlyUsedList)
  BY <1>1, <1>2 DEF EntryInv, WorkMap, Locked
<1>4. ASSUME NEW p \in 1 .. Len(RecentlyUsedList), Hit(w, p)
      PROVE  \E o \in Objects : o.id = ti /\ holds' = [holds EXCEPT ![w] = Append(@, o)]
  <2>1. RecentlyUsedList[p] \in Objects
    BY ElementOfSeq DEF CacheTypes
  <2>2. RecentlyUsedList[p].id = ti
    BY <1>3, <1>4 DEF Entries, Hit
  <2> QED
    BY <1>4, <2>1, <2>2 DEF Hit
<1>5. ASSUME NEW o \in Objects, Miss(w, o)
      PROVE  \E x \in Objects : x.id = ti /\ holds' = [holds EXCEPT ![w] = Append(@, x)]
  BY <1>5 DEF Miss
<1> QED
  BY <1>1, <1>2, <1>4, <1>5, LookUpCases

\* Every step keeps what the place of a job says of its tiles and its canvas.
LEMMA JobsStep ==
    ASSUME Types, EntryInv, ShowInv, [Next]_vars
    PROVE  JobsInv'
<1> USE DEF Types, ShowInv
<1>1. ASSUME NEW w \in Workers
      PROVE  /\ JobInv(w) /\ PlaceOf(w) /\ Len(holds[w]) \in Nat /\ next[w] \in Nat
             /\ holds[w] \in Seq(Objects)
  BY LenProperties DEF JobsInv, Places, JobTypes, CacheTypes
<1>2. ASSUME UNCHANGED <<pc, job, holds, next, allRendered, canvas>> PROVE JobsInv'
  BY <1>2, JobFrame DEF JobsInv
<1>3. ASSUME NEW w \in Workers, NEW m \in Metas, StartJob(w, m) PROVE JobsInv'
  <2>1. /\ pc[w] = "idle" /\ job' = [job EXCEPT ![w] = m]
        /\ pc' = [pc EXCEPT ![w] = IF TilesOf[m] = << >> THEN "stylesheet" ELSE "find"]
        /\ UNCHANGED <<holds, next, allRendered, canvas>>
    BY <1>3 DEF StartJob, cacheVars, Goto
  <2>2. Len(holds'[w]) = 0 /\ canvas'[w] = NoImage /\ job'[w] = m
        /\ pc'[w] = IF TilesOf[m] = << >> THEN "stylesheet" ELSE "find"
    BY <1>1, <2>1, EmptySeq DEF PlaceOf, JobInv, JobTypes
  <2>3. JobInv(w)'
    BY <2>2 DEF JobInv, Done, empty
  <2> QED
    BY <2>1, <2>3, JobsMove DEF JobTypes
<1>4. ASSUME NEW w \in Workers, GetStylesheet(w) PROVE JobsInv'
  <2>1. /\ pc[w] = "stylesheet" /\ UNCHANGED <<job, holds, next, allRendered>>
        /\ pc' = [pc EXCEPT ![w] = IF empty(w) THEN "find" ELSE "deliver"]
        /\ canvas' = [canvas EXCEPT ![w] =
                         [of |-> job[w], load |-> parsedStylesheets[MetaStyle[job[w]]]]]
    BY <1>4 DEF GetStylesheet, cacheVars, Goto
  <2>2. job[w] \in Metas /\ MetaStyle[job[w]] \in Styles
    BY <2>1, JobFacts
  <2>3. [of |-> job[w], load |-> parsedStylesheets[MetaStyle[job[w]]]] \in Images
    BY <2>2 DEF StyleTypes, Images
  <2>4. canvas'[w] # NoImage /\ canvas'[w].of = job'[w]
    BY <2>1, <2>3, RenderingAssumption DEF JobTypes
  <2>5. pc'[w] = (IF empty(w) THEN "find" ELSE "deliver") /\ (empty(w)' <=> empty(w))
    BY <2>1 DEF JobTypes, empty
  <2>6. \A k \in 1 .. Len(holds'[w]) : holds'[w][k].id = Nth(w, k)'
    BY <1>1, <2>1 DEF JobInv, Nth, empty
  <2>7. empty(w) => Len(holds'[w]) = 0
    BY <1>1, <2>1 DEF PlaceOf
  <2>8. JobInv(w)'
    BY <2>4, <2>5, <2>6, <2>7 DEF JobInv, Done
  <2> QED
    BY <2>1, <2>8, JobsMove DEF JobTypes
<1>5. ASSUME NEW w \in Workers, GetTileFind(w) PROVE JobsInv'
  <2>1. /\ pc[w] = "find" /\ UNCHANGED <<job, holds, next, allRendered, canvas, image>>
        /\ pc' = [pc EXCEPT ![w] = "lookup"]
    BY <1>5 DEF GetTileFind, FindCache, Goto
  <2>2. JobInv(w)'
    BY <1>1, <2>1 DEF JobInv, JobTypes, empty, Nth
  <2> QED
    BY <2>1, <2>2, JobsMove DEF JobTypes
<1>6. ASSUME NEW w \in Workers, GetTileLookUp(w) PROVE JobsInv'
  <2>1. /\ pc[w] = "lookup" /\ UNCHANGED <<job, next, allRendered, canvas>>
        /\ pc' = [pc EXCEPT ![w] = "evict"] /\ ti = Nth(w, Len(holds[w]) + 1)
    BY <1>6, LookUpGot DEF GetTileLookUp, Goto
  <2>2. PICK o \in Objects : o.id = ti /\ holds' = [holds EXCEPT ![w] = Append(@, o)]
    BY <1>6, LookUpGot
  <2>3. holds'[w] = Append(holds[w], o)
    BY <2>2 DEF CacheTypes
  <2>4. /\ Len(holds'[w]) = Len(holds[w]) + 1 /\ holds'[w][Len(holds[w]) + 1] = o
        /\ \A k \in 1 .. Len(holds[w]) : holds'[w][k] = holds[w][k]
    BY <1>1, <2>3, AppendProperties
  <2>5. ASSUME NEW k \in 1 .. Len(holds'[w]) PROVE holds'[w][k].id = Nth(w, k)'
    <3>1. Nth(w, k)' = Nth(w, k)
      BY <2>1 DEF Nth, empty
    <3>2. k = Len(holds[w]) + 1 \/ k \in 1 .. Len(holds[w])
      BY <1>1, <2>4
    <3> QED
      BY <1>1, <2>1, <2>2, <2>4, <3>1, <3>2 DEF JobInv
  <2>6. allRendered'[w] => Done(image', holds'[w], Len(holds'[w]) - 1)
    <3>1. Len(holds'[w]) - 1 = Len(holds[w]) /\ Len(holds[w]) \in Int
          /\ Len(holds[w]) <= Len(holds[w]) /\ Len(holds[w]) <= Len(holds'[w])
      BY <1>1, <2>4
    <3>2. allRendered[w] => Done(image, holds[w], Len(holds[w]))
      BY <1>1, <2>1 DEF JobInv
    <3> QED
      BY <2>1, <2>4, <3>1, <3>2, DoneStays
  <2>7. pc'[w] = "evict" /\ canvas'[w] = canvas[w] /\ job'[w] = job[w] /\ (empty(w)' <=> empty(w))
    BY <2>1 DEF JobTypes, empty
  <2>8. JobInv(w)'
    BY <1>1, <2>1, <2>5, <2>6, <2>7 DEF JobInv
  <2> QED
    BY <2>1, <2>2, <2>8, JobsMove DEF JobTypes, CacheTypes
<1>7. ASSUME NEW w \in Workers, GetTileEvict(w) PROVE JobsInv'
  BY <1>2, <1>7 DEF GetTileEvict, Evict, jobVars
<1>8. ASSUME NEW w \in Workers, GetTileDone(w) PROVE JobsInv'
  <2>1. /\ pc[w] = "evict" /\ UNCHANGED <<job, holds, next, allRendered, canvas>>
        /\ pc' = [pc EXCEPT ![w] = "check"]
    BY <1>8 DEF GetTileDone, KeepUnrendered, Unlock, Goto
  <2>2. allRendered[w] => Done(image', holds'[w], Len(holds'[w]) - 1)
    <3>1. Len(holds[w]) - 1 \in Int /\ Len(holds[w]) - 1 <= Len(holds[w])
      BY <1>1
    <3>2. allRendered[w] => Done(image, holds[w], Len(holds[w]) - 1)
      BY <1>1, <2>1 DEF JobInv
    <3> QED
      BY <2>1, <3>1, <3>2, DoneStays
  <2>3. JobInv(w)'
    BY <1>1, <2>1, <2>2 DEF JobInv, JobTypes, empty, Nth
  <2> QED
    BY <2>1, <2>3, JobsMove DEF JobTypes
<1>9. ASSUME NEW w \in Workers, CheckTile(w) PROVE JobsInv'
  <2>1. /\ pc[w] = "check" /\ ~empty(w) /\ UNCHANGED <<job, holds, next, canvas, image>>
        /\ allRendered' = [allRendered EXCEPT ![w] = RenderedSoFar(w)]
        /\ pc' = [pc EXCEPT ![w] = IF Len(holds[w]) < Len(TilesOf[job[w]]) THEN "find"
                                   ELSE IF RenderedSoFar(w) THEN "deliver" ELSE "stylesheet"]
    BY <1>9 DEF CheckTile, cacheVars, Goto
  <2>2. Len(holds[w]) \in Nat /\ Len(holds[w]) >= 1 /\ lastGot(w) = holds[w][Len(holds[w])]
    BY <1>1, <2>1, JobFacts DEF PlaceOf, lastGot, Seqs!Last
  <2>3. RenderedSoFar(w) => Done(image, holds[w], Len(holds[w]))
    <3>1. ASSUME RenderedSoFar(w), NEW k \in 1 .. Len(holds[w]) PROVE image[holds[w][k]] # NoImage
      <4>1. allRendered[w] /\ image[holds[w][Len(holds[w])]] # NoImage
        BY <2>2, <3>1 DEF RenderedSoFar, isRendered
      <4>2. Done(image, holds[w], Len(holds[w]) - 1)
        BY <1>1, <2>1, <4>1 DEF JobInv
      <4>3. k = Len(holds[w]) \/ k \in 1 .. Len(holds[w]) - 1
        BY <2>2
      <4> QED
        BY <4>1, <4>2, <4>3 DEF Done
    <3> QED
      BY <3>1 DEF Done
  <2>4. allRendered'[w] = RenderedSoFar(w)
    BY <2>1 DEF JobTypes
  <2>5. /\ pc'[w] = (IF Len(holds[w]) < Len(TilesOf[job[w]]) THEN "find"
                     ELSE IF RenderedSoFar(w) THEN "deliver" ELSE "stylesheet")
        /\ empty(w)' <=> empty(w)
    BY <2>1 DEF JobTypes, empty
  <2>6. \A k \in 1 .. Len(holds'[w]) : holds'[w][k].id = Nth(w, k)'
    BY <1>1, <2>1 DEF JobInv, Nth, empty
  <2>7. canvas'[w] # NoImage => canvas'[w].of = job'[w]
    BY <1>1, <2>1 DEF JobInv
  <2> HIDE DEF ShowInv, Types
  <2>8. JobInv(w)'
    <3>1. Done(image', holds'[w], Len(holds'[w])) <=> Done(image, holds[w], Len(holds[w]))
      BY <2>1
    <3>2. pc'[w] = "find" \/ (pc'[w] = "deliver" /\ RenderedSoFar(w)) \/ pc'[w] = "stylesheet"
      BY <2>5
    <3> QED
      BY <2>1, <2>3, <2>4, <2>5, <2>6, <2>7, <3>1, <3>2 DEF JobInv
  <2> USE DEF Types, ShowInv
  <2> QED
    BY <2>1, <2>8, JobsMove DEF JobTypes
<1>10. ASSUME NEW w \in Workers, CheckEmpty(w) PROVE JobsInv'
  <2>1. /\ pc[w] = "check" /\ empty(w) /\ UNCHANGED <<job, holds, allRendered, canvas, image>>
        /\ next' = [next EXCEPT ![w] = 1]
        /\ pc' = [pc EXCEPT ![w] = IF isRendered(lastGot(w)) THEN "answer" ELSE "setImage"]
    BY <1>10 DEF CheckEmpty, cacheVars, Goto
  <2>2. Len(holds[w]) = 1 /\ lastGot(w) = holds[w][1]
    <3>1. Len(holds[w]) \in 1 .. 1
      BY <1>1, <2>1 DEF PlaceOf, Size
    <3>2. Len(holds[w]) = 1
      BY <3>1
    <3> QED
      BY <3>2 DEF lastGot, Seqs!Last
  <2>3. /\ pc'[w] = (IF image[holds[w][1]] # NoImage THEN "answer" ELSE "setImage")
        /\ next'[w] = 1 /\ (empty(w)' <=> empty(w))
    BY <2>1, <2>2 DEF JobTypes, empty, isRendered
  <2>4. canvas[w] # NoImage /\ canvas[w].of = job[w]
    BY <1>1, <2>1 DEF JobInv
  <2>5. \A k \in 1 .. Len(holds'[w]) : holds'[w][k].id = Nth(w, k)'
    BY <1>1, <2>1 DEF JobInv, Nth, empty
  <2>6. JobInv(w)'
    BY <2>1, <2>3, <2>4, <2>5 DEF JobInv
  <2> QED
    BY <2>1, <2>6, JobsMove DEF JobTypes
<1>11. ASSUME NEW w \in Workers, DeliverTile(w) PROVE JobsInv'
  <2>1. /\ pc[w] = "deliver" /\ UNCHANGED <<job, holds, allRendered, canvas, image>>
        /\ next' = [next EXCEPT ![w] = @ + 1]
        /\ pc' = [pc EXCEPT ![w] = IF isRendered(holds[w][next[w] + 1]) THEN "answer"
                                   ELSE "setImage"]
    BY <1>11 DEF DeliverTile, cacheVars, Goto
  <2>2. next'[w] = next[w] + 1 /\ next[w] + 1 \in 1 .. Len(holds[w])
    BY <1>1, <2>1, JobFacts DEF PlaceOf, JobTypes
  <2>3. /\ pc'[w] = (IF image[holds[w][next[w] + 1]] # NoImage THEN "answer" ELSE "setImage")
        /\ empty(w)' <=> empty(w)
    BY <2>1 DEF JobTypes, empty, isRendered
  <2>4. canvas[w] = NoImage => Done(image, holds[w], Len(holds[w]))
    BY <1>1, <2>1 DEF JobInv
  <2>5. image[holds[w][next[w] + 1]] = NoImage => canvas[w] # NoImage
    BY <2>2, <2>4 DEF Done
  <2>6. /\ \A k \in 1 .. Len(holds'[w]) : holds'[w][k].id = Nth(w, k)'
        /\ canvas[w] # NoImage => canvas[w].of = job[w]
        /\ empty(w) => canvas[w] # NoImage
    BY <1>1, <2>1 DEF JobInv, Nth, empty
  <2>7. JobInv(w)'
    BY <2>1, <2>2, <2>3, <2>4, <2>5, <2>6 DEF JobInv
  <2> QED
    BY <2>1, <2>7, JobsMove DEF JobTypes
<1>12. ASSUME NEW w \in Workers, SetImage(w) PROVE JobsInv'
  <2>1. /\ pc[w] = "setImage" /\ UNCHANGED <<job, holds, next, allRendered, canvas>>
        /\ pc' = [pc EXCEPT ![w] = "answer"]
        /\ image' = [image EXCEPT ![holds[w][next[w]]] = canvas[w]]
    BY <1>12 DEF SetImage, Goto
  <2>2. next[w] \in 1 .. Len(holds[w])
    BY <1>1, <2>1 DEF PlaceOf
  <2>3. holds[w][next[w]] \in Objects /\ canvas[w] # NoImage /\ canvas[w].of = job[w]
    BY <1>1, <2>1, <2>2, ElementOfSeq DEF JobInv
  <2>4. image'[holds'[w][next'[w]]] # NoImage
    BY <2>1, <2>3 DEF CacheTypes
  <2>5. pc'[w] = "answer" /\ (empty(w)' <=> empty(w))
    BY <2>1 DEF JobTypes, empty
  <2>6. \A k \in 1 .. Len(holds'[w]) : holds'[w][k].id = Nth(w, k)'
    BY <1>1, <2>1 DEF JobInv, Nth, empty
  <2>7. JobInv(w)'
    BY <2>1, <2>3, <2>4, <2>5, <2>6 DEF JobInv
  <2> QED
    BY <2>1, <2>7, JobsMove DEF JobTypes
<1>13. ASSUME NEW w \in Workers, AnswerTile(w) PROVE JobsInv'
  <2>1. CASE next[w] < Len(holds[w])
    <3>1. /\ pc[w] = "answer" /\ pc' = [pc EXCEPT ![w] = "deliver"]
          /\ UNCHANGED <<job, allRendered, canvas, next, holds, image>>
      BY <1>13, <2>1 DEF AnswerTile, Goto
    <3>2. JobInv(w)'
      BY <1>1, <3>1 DEF JobInv, JobTypes, empty, Nth
    <3> QED
      BY <3>1, <3>2, JobsMove DEF JobTypes
  <2>2. CASE ~(next[w] < Len(holds[w]))
    <3>1. /\ pc' = [pc EXCEPT ![w] = "idle"] /\ job' = [job EXCEPT ![w] = NoMeta]
          /\ allRendered' = [allRendered EXCEPT ![w] = TRUE]
          /\ canvas' = [canvas EXCEPT ![w] = Blank]
          /\ next' = [next EXCEPT ![w] = 0] /\ holds' = [holds EXCEPT ![w] = << >>]
      BY <1>13, <2>2 DEF AnswerTile, Goto
    <3>2. pc'[w] = "idle" /\ canvas'[w] = NoImage /\ Len(holds'[w]) = 0
      BY <3>1, EmptySeq DEF JobTypes, CacheTypes, Blank
    <3>3. JobInv(w)'
      BY <3>2 DEF JobInv
    <3> QED
      BY <3>1, <3>3, JobsMove DEF JobTypes, CacheTypes
  <2> QED
    BY <2>1, <2>2
<1>14. ASSUME StylesheetThread \/ UNCHANGED vars
       PROVE  UNCHANGED <<pc, job, holds, next, allRendered, canvas>>
  BY <1>14 DEF StylesheetThread, Begin, DeleteFiles, RemoveFiles, DeleteCache, EraseCache,
     EraseStylesheet, LoadStylesheet, cacheVars, jobVars, vars
<1>15. ASSUME NEW w \in Workers, Worker(w) PROVE JobsInv'
  BY <1>3, <1>4, <1>5, <1>6, <1>7, <1>8, <1>9, <1>10, <1>11, <1>12, <1>13, <1>15 DEF Worker
<1> QED
  BY <1>2, <1>14, <1>15 DEF Next

\* At the start there are no pictures.
LEMMA ShowInit == Init => ShowInv
<1> SUFFICES ASSUME Init PROVE ShowInv
  OBVIOUS
<1>1. Pictures
  BY DEF Init, CacheInit, Pictures
<1>2. ASSUME NEW w \in Workers PROVE JobInv(w)
  <2>1. pc[w] = "idle" /\ canvas[w] = NoImage /\ Len(holds[w]) = 0
    BY EmptySeq DEF Init, CacheInit, Blank
  <2> QED
    BY <2>1 DEF JobInv
<1> QED
  BY <1>1, <1>2 DEF ShowInv, JobsInv

\* Every step keeps what the pictures show.
LEMMA ShowStep == Types /\ EntryInv /\ ShowInv /\ [Next]_vars => ShowInv'
BY PicturesStep, JobsStep DEF ShowInv

\* The right picture of a tile shows the meta tile it was asked for with.
LEMMA PictureShows ==
    ASSUME NEW m \in Metas, NEW t, NEW pic, pic # NoImage, PictureOf(pic, t),
           TilesOf[m] = << >> => t = EmptyID[MetaStyle[m]],
           TilesOf[m] # << >> => \E k \in 1 .. Len(TilesOf[m]) : TilesOf[m][k] = t
    PROVE  Shows(pic, m)
<1>1. PICK n \in Metas : n = pic.of
  BY DEF PictureOf
<1>2. TilesOf \in [Metas -> Seq(Ids)] /\ MetaStyle[m] \in Styles /\ MetaStyle[n] \in Styles
  BY RenderingAssumption
<1>3. DOMAIN TilesOf[m] = 1 .. Len(TilesOf[m]) /\ DOMAIN TilesOf[n] = 1 .. Len(TilesOf[n])
  BY <1>2, LenProperties
<1>4. /\ TilesOf[n] = << >> => t = EmptyID[MetaStyle[n]]
      /\ TilesOf[n] # << >> => \E k \in DOMAIN TilesOf[n] : TilesOf[n][k] = t
  BY <1>1, <1>3 DEF PictureOf
<1>5. \A k \in DOMAIN TilesOf[m] : TilesOf[m][k] # EmptyID[MetaStyle[n]]
  BY <1>2, RenderingAssumption
<1>6. \A k \in DOMAIN TilesOf[n] : TilesOf[n][k] # EmptyID[MetaStyle[m]]
  BY <1>2, RenderingAssumption
<1>7. CASE TilesOf[m] = << >>
  <2>1. TilesOf[n] = << >> /\ EmptyID[MetaStyle[n]] = EmptyID[MetaStyle[m]]
    BY <1>4, <1>6, <1>7
  <2>2. StyleOf[EmptyID[MetaStyle[n]]] = MetaStyle[n] /\ StyleOf[EmptyID[MetaStyle[m]]] = MetaStyle[m]
    BY <1>2, RenderingAssumption
  <2> QED
    BY <1>1, <1>7, <2>1, <2>2 DEF Shows
<1>8. CASE TilesOf[m] # << >>
  <2>1. PICK k \in DOMAIN TilesOf[m] : TilesOf[m][k] = t
    BY <1>3, <1>8
  <2>2. PICK j \in DOMAIN TilesOf[n] : TilesOf[n][j] = t
    BY <1>4, <1>5, <2>1
  <2>3. n = m
    BY <2>1, <2>2, RenderingAssumption
  <2> QED
    BY <1>1, <1>8, <2>3 DEF Shows
<1> QED
  BY <1>7, <1>8

\* What the invariant says of the answers.
LEMMA ShowImplies ==
    ASSUME Types, ShowInv
    PROVE  AnswersShowTile
<1> SUFFICES ASSUME NEW w \in Workers, pc[w] = "answer"
             PROVE  Shows(image[holds[w][next[w]]], job[w])
  BY DEF AnswersShowTile
<1>1. /\ next[w] \in 1 .. Len(holds[w]) /\ next[w] \in 1 .. Size(w) /\ holds[w] \in Seq(Objects)
      /\ job[w] \in Metas
  BY JobFacts DEF Types, Places, PlaceOf, CacheTypes
<1>2. PICK o \in Objects : o = holds[w][next[w]]
  BY <1>1, ElementOfSeq
<1>3. image[o] # NoImage /\ o.id = Nth(w, next[w])
  BY <1>1, <1>2 DEF ShowInv, JobsInv, JobInv
<1>4. PictureOf(image[o], Nth(w, next[w]))
  BY <1>3 DEF ShowInv, Pictures
<1>5. /\ TilesOf[job[w]] = << >> => Nth(w, next[w]) = EmptyID[MetaStyle[job[w]]]
      /\ TilesOf[job[w]] # << >> =>
            next[w] \in 1 .. Len(TilesOf[job[w]]) /\ TilesOf[job[w]][next[w]] = Nth(w, next[w])
  BY <1>1 DEF Nth, Size, empty
<1> QED
  BY <1>1, <1>2, <1>3, <1>4, <1>5, PictureShows
-----------------------------------------------------------------------------
(* A change of a stylesheet.                                               *)

\* The tiles of the stylesheet have been dropped from memory, and its new version is
\* not there yet.
Sweeping(s) == event.step \in {"stylesheet", "parse"} /\ event.style = s

\* A job with data draws after it has got its tiles.
Undrawn ==
    \A w \in Workers :
        pc[w] \in {"find", "lookup", "evict", "check"} /\ ~empty(w) => canvas[w] = NoImage

\* Neither the tile nor a canvas it may be cut from is out of date, and while the
\* stylesheet changes there is no such picture.
UpToDate(s, o) ==
    /\ image[o] # NoImage => ~Sweeping(s) /\ image[o].load = parsedStylesheets[s]
    /\ \A w \in Workers : \A k \in 1 .. Len(holds[w]) :
          holds[w][k] = o /\ canvas[w] # NoImage =>
              ~Sweeping(s) /\ canvas[w].load = parsedStylesheets[s]

\* This holds of every entry above the low zoom levels of a stylesheet that is loaded.
MemoryInv ==
    \A s \in Styles : AllCaches[s] # NoCache =>
        \A i \in DOMAIN AllCaches[s] \ LowZoom : UpToDate(s, AllCaches[s][i])

\* Every step keeps a job from drawing before it has got its tiles.
LEMMA UndrawnStep ==
    ASSUME Types, JobsInv, Undrawn, [Next]_vars
    PROVE  Undrawn'
<1> USE DEF Types, JobTypes, Goto
<1>1. ASSUME NEW w \in Workers, pc'[w] \in {"find", "lookup", "evict", "check"}, ~empty(w)',
             pc[w] \in {"find", "lookup", "evict", "check"} \/ pc[w] = "idle" \/ empty(w),
             canvas'[w] = canvas[w], job'[w] = job[w] \/ pc[w] = "idle"
      PROVE  canvas'[w] = NoImage
  BY <1>1 DEF Undrawn, JobsInv, JobInv, empty
<1>2. ASSUME NEW w \in Workers, NEW v \in Workers, Worker(v),
             pc'[w] \in {"find", "lookup", "evict", "check"}, ~empty(w)'
      PROVE  canvas'[w] = NoImage
  <2>1. CASE v # w
    <3>1. pc'[w] = pc[w] /\ job'[w] = job[w] /\ canvas'[w] = canvas[w]
      <4>1. CASE \/ \E m \in Metas : StartJob(v, m)
                 \/ GetStylesheet(v) \/ GetTileFind(v) \/ GetTileLookUp(v) \/ GetTileDone(v)
        BY <2>1, <4>1 DEF StartJob, GetStylesheet, GetTileFind, GetTileLookUp, GetTileDone
      <4>2. CASE GetTileEvict(v) \/ CheckTile(v) \/ CheckEmpty(v) \/ DeliverTile(v) \/ SetImage(v)
        BY <2>1, <4>2 DEF GetTileEvict, CheckTile, CheckEmpty, DeliverTile, SetImage, jobVars
      <4>3. CASE AnswerTile(v)
        BY <2>1, <4>3 DEF AnswerTile
      <4> QED
        BY <1>2, <4>1, <4>2, <4>3 DEF Worker
    <3> QED
      BY <1>1, <1>2, <3>1
  <2>2. CASE v = w
    <3>1. ASSUME NEW m \in Metas, StartJob(w, m) PROVE canvas'[w] = NoImage
      BY <1>1, <1>2, <3>1 DEF StartJob
    <3>2. CASE GetStylesheet(w)
      BY <1>2, <3>2 DEF GetStylesheet, empty
    <3>3. CASE GetTileFind(w) \/ GetTileLookUp(w) \/ GetTileEvict(w) \/ GetTileDone(w)
      BY <1>1, <1>2, <3>3 DEF GetTileFind, GetTileLookUp, GetTileEvict, GetTileDone, jobVars
    <3>4. CASE CheckTile(w)
      BY <1>1, <1>2, <3>4 DEF CheckTile
    <3>5. CASE CheckEmpty(w) \/ DeliverTile(w) \/ SetImage(w) \/ AnswerTile(w)
      BY <1>2, <3>5 DEF CheckEmpty, DeliverTile, SetImage, AnswerTile
    <3> QED
      BY <1>2, <2>2, <3>1, <3>2, <3>3, <3>4, <3>5 DEF Worker
  <2> QED
    BY <2>1, <2>2
<1>3. ASSUME StylesheetThread \/ UNCHANGED vars PROVE UNCHANGED jobVars
  BY <1>3 DEF StylesheetThread, Begin, DeleteFiles, DeleteCache, EraseStylesheet, LoadStylesheet,
     vars
<1>4. ASSUME UNCHANGED jobVars PROVE Undrawn'
  BY <1>4 DEF Undrawn, jobVars, empty
<1> QED
  BY <1>2, <1>3, <1>4 DEF Next, Undrawn

\* Where the entry of a tile above the low zoom levels comes from.
LEMMA EntryFrom ==
    ASSUME Types, EntryInv, [Next]_vars, NEW s \in Styles, AllCaches'[s] # NoCache,
           NEW i \in DOMAIN AllCaches'[s] \ LowZoom
    PROVE  \/ /\ AllCaches[s] # NoCache /\ i \in DOMAIN AllCaches[s]
              /\ AllCaches'[s][i] = AllCaches[s][i]
           \/ \E w \in Workers : Creates(w, AllCaches'[s][i]) /\ AllCaches'[s][i] \in Objects
<1> USE DEF Types
<1> DEFINE Old == /\ AllCaches[s] # NoCache /\ i \in DOMAIN AllCaches[s]
                  /\ AllCaches'[s][i] = AllCaches[s][i]
           New == \E w \in Workers : Creates(w, AllCaches'[s][i]) /\ AllCaches'[s][i] \in Objects
<1>1. CASE AllCaches'[s] = AllCaches[s]
  BY <1>1
<1>2. ASSUME NEW w \in Workers, GetTileFind(w) PROVE Old
  <2>1. AllCaches' = [AllCaches EXCEPT ![StyleOf[Wanted(w)]] = Map(@)] /\ pc[w] = "find"
    BY <1>2 DEF GetTileFind, FindCache
  <2>2. StyleOf[Wanted(w)] \in Styles
    BY <2>1, WantedType
  <2>3. AllCaches'[s] = AllCaches[s] \/ AllCaches'[s] = Map(AllCaches[s])
    BY <2>1, <2>2 DEF CacheTypes
  <2> QED
    BY <2>3, EmptyMap DEF Map
<1>3. ASSUME NEW w \in Workers, GetTileLookUp(w) PROVE Old \/ New
  <2>1. pc[w] = "lookup" /\ LookUp(w)
    BY <1>3 DEF GetTileLookUp
  <2>2. /\ ti \in Ids /\ StyleOf[ti] \in Styles /\ WorkMap \in Maps
        /\ cache = Attached => WorkMap = AllCaches[StyleOf[ti]]
    BY <2>1, LookUpCases
  <2>3. ASSUME NEW o \in Objects, Miss(w, o) PROVE Old \/ New
    <3>1. CASE cache = Attached /\ s = StyleOf[ti]
      <4>1. AllCaches'[s] = Put(WorkMap, ti, o) /\ AllCaches[s] = WorkMap
        BY <2>2, <2>3, <3>1 DEF Miss, CacheTypes
      <4>2. /\ DOMAIN Put(WorkMap, ti, o) = DOMAIN WorkMap \cup {ti}
            /\ Put(WorkMap, ti, o)[ti] = o
            /\ \A k \in DOMAIN WorkMap \ {ti} : Put(WorkMap, ti, o)[k] = WorkMap[k]
        BY <2>2, PutType
      <4>3. CASE i = ti
        <5>1. AllCaches'[s][i] = o
          BY <4>1, <4>2, <4>3
        <5>2. image'[o] = IF o.id \in LowZoom THEN disk[o.id] ELSE NoImage
          BY <2>2, <2>3 DEF Miss, CacheTypes
        <5>3. Creates(w, o)
          BY <1>3, <2>2, <2>3, <5>2 DEF Creates, Miss
        <5> QED
          BY <5>1, <5>3
      <4>4. CASE i # ti
        <5>1. i \in DOMAIN WorkMap /\ AllCaches'[s][i] = WorkMap[i]
          BY <4>1, <4>2, <4>4
        <5> QED
          BY <2>2, <4>1, <5>1, NotMaps
      <4> QED
        BY <4>3, <4>4
    <3>2. CASE ~(cache = Attached /\ s = StyleOf[ti])
      <4>1. AllCaches'[s] = AllCaches[s]
        BY <2>3, <3>2 DEF Miss, CacheTypes
      <4> QED
        BY <4>1
    <3> QED
      BY <3>1, <3>2
  <2>4. ASSUME NEW p, Hit(w, p) PROVE AllCaches' = AllCaches
    BY <2>4 DEF Hit
  <2> HIDE DEF Old, New
  <2> QED
    BY <1>1, <2>1, <2>3, <2>4, LookUpCases DEF Old, New
<1>4. ASSUME NEW w \in Workers, GetTileEvict(w) PROVE Old
  <2>1. Len(RecentlyUsedList) > CacheSize /\ AllCaches' = WithoutOldest
    BY <1>4 DEF GetTileEvict, Evict
  <2>2. AllCaches'[s] = IF s = StyleOf[oldId] /\ AllCaches[s] # NoCache
                        THEN Drop(AllCaches[s], oldId) ELSE AllCaches[s]
    BY <2>1, WithoutOldestIs
  <2>3. AllCaches[s] # NoCache => AllCaches[s] \in Maps
    BY DEF CacheTypes
  <2>4. CASE s = StyleOf[oldId] /\ AllCaches[s] # NoCache
    <3> DEFINE M == AllCaches[s]
    <3>1. /\ DOMAIN Drop(M, oldId) = DOMAIN M \ {oldId}
          /\ \A k \in DOMAIN M \ {oldId} : Drop(M, oldId)[k] = M[k]
      BY <2>3, <2>4, DropType
    <3> QED
      BY <2>2, <2>4, <3>1
  <2>5. CASE ~(s = StyleOf[oldId] /\ AllCaches[s] # NoCache)
    BY <2>2, <2>5
  <2> QED
    BY <2>4, <2>5
<1>5. ASSUME NEW w \in Workers, KeepUnrendered(w) PROVE Old
  <2>1. Len(RecentlyUsedList) > CacheSize /\ AllCaches' = WithOldest /\ oldId \in LowZoom
    BY <1>5 DEF KeepUnrendered
  <2>2. AllCaches'[s] = IF s = StyleOf[oldId] /\ AllCaches[s] # NoCache
                        THEN Put(AllCaches[s], oldId, oldest) ELSE AllCaches[s]
    BY <2>1, WithOldestIs
  <2>3. AllCaches[s] # NoCache => AllCaches[s] \in Maps
    BY DEF CacheTypes
  <2>4. CASE s = StyleOf[oldId] /\ AllCaches[s] # NoCache
    <3> DEFINE M == AllCaches[s]
    <3>0. M \in Maps /\ oldId \in Ids /\ oldest \in Objects
      BY <2>1, <2>3, <2>4, OldestType
    <3> HIDE DEF M
    <3>1. /\ DOMAIN Put(M, oldId, oldest) = DOMAIN M \cup {oldId}
          /\ \A k \in DOMAIN M \ {oldId} : Put(M, oldId, oldest)[k] = M[k]
      BY <3>0, PutType
    <3> USE DEF M
    <3>2. i # oldId
      BY <2>1
    <3> QED
      BY <2>2, <2>4, <3>1, <3>2
  <2>5. CASE ~(s = StyleOf[oldId] /\ AllCaches[s] # NoCache)
    BY <2>2, <2>5
  <2> QED
    BY <2>4, <2>5
<1>6. ASSUME NEW w \in Workers, GetTileDone(w) PROVE Old
  <2>1. CASE Unlock(w)
    BY <2>1 DEF Unlock
  <2> QED
    BY <1>5, <1>6, <2>1 DEF GetTileDone
<1>7. ASSUME DeleteCache PROVE Old
  <2>1. AllCaches' = [AllCaches EXCEPT ![event.style] = NoCache] /\ event.style \in Styles
    BY <1>7 DEF DeleteCache, EraseCache, StyleTypes
  <2> QED
    BY <2>1 DEF CacheTypes
<1>8. ASSUME NEW w \in Workers,
             \/ \E m \in Metas : StartJob(w, m)
             \/ GetStylesheet(w) \/ CheckTile(w) \/ CheckEmpty(w) \/ DeliverTile(w)
             \/ SetImage(w) \/ AnswerTile(w)
      PROVE  AllCaches' = AllCaches
  BY <1>8 DEF StartJob, GetStylesheet, CheckTile, CheckEmpty, DeliverTile, SetImage, AnswerTile,
     cacheVars
<1>9. ASSUME \/ \E type \in Events, x \in Styles : Begin(type, x)
             \/ DeleteFiles \/ EraseStylesheet \/ LoadStylesheet \/ UNCHANGED vars
      PROVE  AllCaches' = AllCaches
  BY <1>9 DEF Begin, DeleteFiles, RemoveFiles, EraseStylesheet, LoadStylesheet, cacheVars, vars
<1> HIDE DEF Old, New
<1>10. AllCaches' = AllCaches => Old
  BY DEF Old
<1>11. ASSUME NEW w \in Workers, Worker(w) PROVE Old \/ New
  BY <1>2, <1>3, <1>4, <1>6, <1>8, <1>10, <1>11 DEF Worker
<1>12. Old \/ New
  BY <1>7, <1>9, <1>10, <1>11 DEF Next, StylesheetThread
<1> QED
  BY <1>12 DEF Old, New

\* What the stylesheet thread does to a stylesheet whose tiles it has not dropped: without
\* the event "added", it does not load a stylesheet over one that tiles were drawn with.
LEMMA StyleKept ==
    ASSUME Types, [Next]_vars, "added" \notin Events, NEW s \in Styles,
           AllCaches'[s] # NoCache, ~Sweeping(s)
    PROVE  ~Sweeping(s)' /\ parsedStylesheets'[s] = parsedStylesheets[s]
<1> USE DEF Types
<1>1. CASE UNCHANGED styleVars
  BY <1>1 DEF styleVars, Sweeping
<1>2. ASSUME NEW type \in Events, NEW x \in Styles, Begin(type, x)
      PROVE  ~Sweeping(s)' /\ parsedStylesheets'[s] = parsedStylesheets[s]
  <2>1. type # "added"
    OBVIOUS
  <2> QED
    BY <1>2, <2>1 DEF Begin, Sweeping
<1>3. CASE DeleteFiles
  BY <1>3 DEF DeleteFiles, Sweeping, StyleTypes, Idle
<1>4. CASE DeleteCache
  <2>1. event.style \in Styles /\ event.step = "cache"
    BY <1>4 DEF DeleteCache, StyleTypes
  <2>2. AllCaches'[event.style] = NoCache
    BY <1>4, <2>1 DEF DeleteCache, EraseCache, CacheTypes
  <2> QED
    BY <1>4, <2>1, <2>2 DEF DeleteCache, Sweeping, StyleTypes
<1>5. CASE EraseStylesheet
  <2>1. event.style \in Styles /\ event.style # s
    BY <1>5 DEF EraseStylesheet, StyleTypes, Sweeping
  <2>2. parsedStylesheets'[s] = parsedStylesheets[s]
    BY <1>5, <2>1 DEF EraseStylesheet, StyleTypes
  <2>3. event'.style = event.style \/ event' = Idle
    BY <1>5 DEF EraseStylesheet, StyleTypes
  <2> QED
    BY <2>1, <2>2, <2>3 DEF Sweeping, Idle
<1>6. CASE LoadStylesheet
  <2>1. event.style \in Styles /\ event.style # s /\ event' = Idle
    BY <1>6 DEF LoadStylesheet, StyleTypes, Sweeping
  <2>2. parsedStylesheets'[s] = parsedStylesheets[s]
    BY <1>6, <2>1 DEF LoadStylesheet, StyleTypes
  <2> QED
    BY <2>1, <2>2 DEF Sweeping, Idle
<1> QED
  BY <1>1, <1>2, <1>3, <1>4, <1>5, <1>6, WorkerKeepsStyles DEF Next, StylesheetThread, vars

\* A tile above the low zoom levels that a job with a canvas has after the step: it had
\* both before, or it had the tile and draws.
LEMMA CanvasFrom ==
    ASSUME Types, EntryInv, ShowInv, Undrawn, [Next]_vars, NEW v \in Workers,
           NEW k \in 1 .. Len(holds'[v]), holds'[v][k].id \notin LowZoom, canvas'[v] # NoImage
    PROVE  /\ k \in 1 .. Len(holds[v]) /\ holds'[v][k] = holds[v][k]
           /\ \/ canvas'[v] = canvas[v]
              \/ /\ GetStylesheet(v) /\ pc[v] = "stylesheet"
                 /\ canvas'[v].load = parsedStylesheets[MetaStyle[job[v]]]
<1> USE DEF Types, ShowInv, JobTypes
<1> DEFINE Same == k \in 1 .. Len(holds[v]) /\ holds'[v][k] = holds[v][k]
           Drawn == /\ GetStylesheet(v) /\ pc[v] = "stylesheet"
                    /\ canvas'[v].load = parsedStylesheets[MetaStyle[job[v]]]
<1>1. ASSUME NEW w \in Workers, GetTileLookUp(w) PROVE Same /\ canvas'[v] = canvas[v]
  <2>1. /\ pc[w] = "lookup" /\ UNCHANGED canvas /\ ti = Nth(w, Len(holds[w]) + 1)
    BY <1>1, LookUpGot DEF GetTileLookUp
  <2>2. PICK o \in Objects : o.id = ti /\ holds' = [holds EXCEPT ![w] = Append(@, o)]
    BY <1>1, LookUpGot
  <2>3. CASE v # w
    BY <2>1, <2>2, <2>3 DEF CacheTypes
  <2>4. CASE v = w
    <3>1. empty(w)
      BY <2>1, <2>4 DEF Undrawn
    <3>2. Nth(w, Len(holds[w]) + 1) = EmptyID[MetaStyle[job[w]]]
      BY <3>1 DEF Nth
    <3>3. MetaStyle[job[w]] \in Styles
      BY <2>1, JobFacts
    <3>4. o.id \in LowZoom
      BY <2>1, <2>2, <3>2, <3>3, RenderingAssumption
    <3>5. Len(holds[w]) = 0
      <4>1. Len(holds[w]) < 1 /\ Len(holds[w]) \in Nat
        BY <2>1, <3>1, JobFacts DEF Places, PlaceOf, Size
      <4> QED
        BY <4>1
    <3>6. holds'[v] = Append(holds[w], o) /\ holds[w] \in Seq(Objects)
      BY <2>2, <2>4 DEF CacheTypes
    <3>7. Len(holds'[v]) = 1 /\ holds'[v][1] = o
      BY <3>5, <3>6, AppendProperties
    <3>8. k = 1
      BY <3>7
    <3> QED
      BY <3>4, <3>7, <3>8
  <2> QED
    BY <2>3, <2>4
<1>2. ASSUME NEW w \in Workers, GetStylesheet(w) PROVE Same /\ (canvas'[v] = canvas[v] \/ Drawn)
  <2>1. /\ UNCHANGED holds /\ pc[w] = "stylesheet"
        /\ canvas' = [canvas EXCEPT ![w] =
                         [of |-> job[w], load |-> parsedStylesheets[MetaStyle[job[w]]]]]
    BY <1>2 DEF GetStylesheet, cacheVars
  <2>2. CASE v # w
    BY <2>1, <2>2
  <2>3. CASE v = w
    BY <1>2, <2>1, <2>3
  <2> QED
    BY <2>2, <2>3
<1>3. ASSUME NEW w \in Workers, AnswerTile(w) PROVE Same /\ canvas'[v] = canvas[v]
  <2>1. CASE next[w] < Len(holds[w])
    BY <1>3, <2>1 DEF AnswerTile
  <2>2. CASE ~(next[w] < Len(holds[w]))
    <3>1. canvas' = [canvas EXCEPT ![w] = Blank] /\ holds' = [holds EXCEPT ![w] = << >>]
      BY <1>3, <2>2 DEF AnswerTile
    <3>2. v # w
      BY <3>1 DEF Blank
    <3> QED
      BY <3>1, <3>2 DEF CacheTypes
  <2> QED
    BY <2>1, <2>2
<1>4. ASSUME UNCHANGED <<holds, canvas>> PROVE Same /\ canvas'[v] = canvas[v]
  BY <1>4
<1>5. ASSUME NEW w \in Workers,
             \/ \E m \in Metas : StartJob(w, m)
             \/ GetTileFind(w) \/ GetTileEvict(w) \/ GetTileDone(w) \/ CheckTile(w)
             \/ CheckEmpty(w) \/ DeliverTile(w) \/ SetImage(w)
      PROVE  UNCHANGED <<holds, canvas>>
  BY <1>5 DEF StartJob, GetTileFind, FindCache, GetTileEvict, Evict, GetTileDone, KeepUnrendered,
     Unlock, CheckTile, CheckEmpty, DeliverTile, SetImage, cacheVars, jobVars
<1>6. ASSUME StylesheetThread \/ UNCHANGED vars PROVE UNCHANGED <<holds, canvas>>
  BY <1>6 DEF StylesheetThread, Begin, DeleteFiles, RemoveFiles, DeleteCache, EraseCache,
     EraseStylesheet, LoadStylesheet, cacheVars, jobVars, vars
<1> HIDE DEF Same, Drawn
<1>7. Same /\ (canvas'[v] = canvas[v] \/ Drawn)
  <2>1. ASSUME NEW w \in Workers, Worker(w) PROVE Same /\ (canvas'[v] = canvas[v] \/ Drawn)
    BY <1>1, <1>2, <1>3, <1>4, <1>5, <2>1 DEF Worker
  <2> QED
    BY <1>4, <1>6, <2>1 DEF Next
<1> QED
  BY <1>7 DEF Same, Drawn

\* Every step keeps the tiles that a later getTile may find up to date.
LEMMA MemoryStep ==
    ASSUME Types, EntryInv, ShowInv, Undrawn, MemoryInv, [Next]_vars, "added" \notin Events
    PROVE  MemoryInv'
<1> USE DEF Types, ShowInv
<1>0. CacheTypes'
  BY CacheTypesStep
<1> SUFFICES ASSUME NEW s \in Styles, AllCaches'[s] # NoCache,
                    NEW i \in DOMAIN AllCaches'[s] \ LowZoom
             PROVE  UpToDate(s, AllCaches[s][i])'
  BY DEF MemoryInv
<1>1. AllCaches'[s] \in Maps
  BY <1>0 DEF CacheTypes
<1>2. EntryInv'
  BY EntryStep
<1>3. /\ AllCaches'[s][i] \in Objects /\ AllCaches'[s][i].id = i /\ StyleOf[i] = s
      /\ i \in Ids
  BY <1>1, <1>2, MapType DEF EntryInv, Entries
<1> DEFINE o == AllCaches'[s][i]
           Good == /\ image'[o] # NoImage => ~Sweeping(s)' /\ image'[o].load = parsedStylesheets'[s]
                   /\ \A w \in Workers : \A k \in 1 .. Len(holds'[w]) :
                         holds'[w][k] = o /\ canvas'[w] # NoImage =>
                             ~Sweeping(s)' /\ canvas'[w].load = parsedStylesheets'[s]
<1>4. ASSUME AllCaches[s] # NoCache, i \in DOMAIN AllCaches[s],
             AllCaches'[s][i] = AllCaches[s][i]
      PROVE  Good
  <2>1. UpToDate(s, o) /\ Listed(RecentlyUsedList, o)
    BY <1>4 DEF MemoryInv, EntryInv, Entries
  <2>2. o \in Live
    BY <2>1, InUse
  <2>3. ASSUME image'[o] # NoImage
        PROVE  ~Sweeping(s)' /\ image'[o].load = parsedStylesheets'[s]
    <3>1. image'[o] = image[o] \/ \E w \in Workers : Sets(w, o) \/ Creates(w, o)
      BY <1>3, <2>3, ImageStep
    <3>2. \A w \in Workers : ~Creates(w, o)
      BY <2>2 DEF Creates, Miss
    <3>3. CASE image'[o] = image[o]
      BY <2>1, <2>3, <3>3, StyleKept DEF UpToDate
    <3>4. ASSUME NEW w \in Workers, Sets(w, o)
          PROVE  ~Sweeping(s)' /\ image'[o].load = parsedStylesheets'[s]
      <4>1. /\ image'[o] = canvas[w] /\ next[w] \in 1 .. Len(holds[w])
            /\ holds[w][next[w]] = o
        BY <3>4 DEF Sets
      <4>2. ~Sweeping(s) /\ canvas[w].load = parsedStylesheets[s]
        BY <2>1, <2>3, <4>1 DEF UpToDate
      <4> QED
        BY <4>1, <4>2, StyleKept
    <3> QED
      BY <3>1, <3>2, <3>3, <3>4
  <2>4. ASSUME NEW w \in Workers, NEW k \in 1 .. Len(holds'[w]), holds'[w][k] = o,
               canvas'[w] # NoImage
        PROVE  ~Sweeping(s)' /\ canvas'[w].load = parsedStylesheets'[s]
    <3>1. holds'[w][k].id \notin LowZoom
      BY <1>3, <2>4
    <3>2. /\ k \in 1 .. Len(holds[w]) /\ holds[w][k] = o
          /\ \/ canvas'[w] = canvas[w]
             \/ /\ GetStylesheet(w) /\ pc[w] = "stylesheet"
                /\ canvas'[w].load = parsedStylesheets[MetaStyle[job[w]]]
      BY <2>4, <3>1, CanvasFrom
    <3>3. CASE canvas'[w] = canvas[w]
      BY <2>1, <2>4, <3>2, <3>3, StyleKept DEF UpToDate
    <3>4. CASE /\ GetStylesheet(w) /\ pc[w] = "stylesheet"
               /\ canvas'[w].load = parsedStylesheets[MetaStyle[job[w]]]
      <4>1. Len(holds[w]) = Size(w)
        BY <3>2, <3>4 DEF Places, PlaceOf, Size
      <4>2. o.id = Nth(w, k)
        BY <3>2 DEF JobsInv, JobInv
      <4>3. MetaStyle[job[w]] = s
        BY <1>3, <3>2, <3>4, <4>1, <4>2, JobFacts
      <4>4. ~Sweeping(s)
        BY <3>4 DEF GetStylesheet, NotLocked, Sweeping
      <4> QED
        BY <3>4, <4>3, <4>4, StyleKept
    <3> QED
      BY <3>2, <3>3, <3>4
  <2> QED
    BY <2>3, <2>4
<1>5. ASSUME NEW w \in Workers, Creates(w, o) PROVE Good
  <2>1. image'[o] = NoImage /\ o \notin Live
    BY <1>3, <1>5 DEF Creates, Miss
  <2>2. ASSUME NEW v \in Workers, NEW k \in 1 .. Len(holds'[v]), holds'[v][k] = o,
               canvas'[v] # NoImage
        PROVE  FALSE
    <3>1. holds'[v][k].id \notin LowZoom
      BY <1>3, <2>2
    <3>2. k \in 1 .. Len(holds[v]) /\ holds[v][k] = o
      BY <2>2, <3>1, CanvasFrom
    <3> QED
      BY <2>1, <3>2, InUse
  <2> QED
    BY <2>1, <2>2
<1>6. Good
  BY <1>4, <1>5, EntryFrom
<1> QED
  BY <1>6 DEF UpToDate

\* What the invariant says of the tiles the cache returns.
LEMMA MemoryImplies ==
    ASSUME Types, EntryInv, MemoryInv
    PROVE  MemoryTilesFresh
<1> SUFFICES ASSUME NEW i \in Ids \ LowZoom, i \in DOMAIN Map(AllCaches[StyleOf[i]]),
                    isRendered(Map(AllCaches[StyleOf[i]])[i])
             PROVE  image[Map(AllCaches[StyleOf[i]])[i]].load = parsedStylesheets[StyleOf[i]]
  BY DEF MemoryTilesFresh, Fresh
<1>1. AllCaches[StyleOf[i]] # NoCache
  BY EmptyMap DEF Map
<1>2. Map(AllCaches[StyleOf[i]]) = AllCaches[StyleOf[i]] /\ StyleOf[i] \in Styles
  BY <1>1, CacheAssumption DEF Map
<1> QED
  BY <1>1, <1>2 DEF MemoryInv, UpToDate, isRendered

\* At the start nothing was drawn.
LEMMA MemoryInit == Init => Undrawn /\ MemoryInv
BY DEF Init, CacheInit, Undrawn, MemoryInv
-----------------------------------------------------------------------------
(* Theorems.                                                               *)

\* The inductive invariant.
RenderingInv == Types /\ EntryInv /\ ShowInv

\* What the following theorems rest on: the types, who has GlobalCacheLock and how far
\* each job is; that the entries of AllCaches, and of the map a getTile still works on,
\* lead to the list; and what the pictures in memory, in files and on canvases show.
THEOREM Invariance == Spec => []RenderingInv
<1>1. Init => RenderingInv
  BY TypesInit, EntryInit, ShowInit DEF RenderingInv
<1>2. RenderingInv /\ [Next]_vars => RenderingInv'
  BY TypesStep, EntryStep, ShowStep DEF RenderingInv
<1> QED
  BY <1>1, <1>2, PTL DEF Spec

\* Every iterator in AllCaches is valid and leads to its entry's tile, whatever getTile
\* and deleteTiles, which does not take GlobalCacheLock, do at the same time.
THEOREM IteratorsValid == Spec => []EntriesLive
<1>1. RenderingInv => EntriesLive
  BY EntryImplies DEF RenderingInv
<1> QED
  BY <1>1, Invariance, PTL

\* A request is answered with the picture of its own meta tile or the empty tile of its
\* stylesheet, and never with a tile that has no picture.
THEOREM RightPictures == Spec => []AnswersShowTile
<1>1. RenderingInv => AnswersShowTile
  BY ShowImplies DEF RenderingInv
<1> QED
  BY <1>1, Invariance, PTL

\* When stylesheets only change or disappear, no tile above the low zoom levels that
\* the cache returns afterwards was drawn with an old one.
THEOREM NoOldTilesInMemory ==
    ASSUME "added" \notin Events
    PROVE  Spec => []MemoryTilesFresh
<1>1. Init => Undrawn /\ MemoryInv
  BY MemoryInit
<1>2. RenderingInv /\ Undrawn /\ MemoryInv /\ [Next]_vars => Undrawn' /\ MemoryInv'
  BY UndrawnStep, MemoryStep DEF RenderingInv, ShowInv
<1>3. RenderingInv /\ MemoryInv => MemoryTilesFresh
  BY MemoryImplies DEF RenderingInv
<1> QED
  BY <1>1, <1>2, <1>3, Invariance, PTL DEF Spec

-----------------------------------------------------------------------------
(***************************************************************************)
(* How long RecentlyUsedList of Rendering becomes, for any workers, tiles, *)
(* stylesheets and cache size.                                             *)
(***************************************************************************)

(* Counting.                                                               *)

\* A set is no larger than another one in which each of its elements has a place.
LEMMA Placed ==
    ASSUME NEW S, NEW T, IsFiniteSet(T), NEW f \in [S -> T],
           \A x, y \in S : f[x] = f[y] => x = y
    PROVE  /\ IsFiniteSet(S) /\ Cardinality(S) \in Nat /\ Cardinality(T) \in Nat
           /\ Cardinality(S) <= Cardinality(T)
<1>1. f \in Injection(S, T)
  BY DEF Injection, IsInjective
<1> QED
  BY <1>1, FS_Injection, FS_CardinalityType

\* A part of a finite set is finite and no larger.
LEMMA Inside ==
    ASSUME NEW S, NEW T, IsFiniteSet(T), S \subseteq T
    PROVE  /\ IsFiniteSet(S) /\ Cardinality(S) \in Nat /\ Cardinality(T) \in Nat
           /\ Cardinality(S) <= Cardinality(T)
BY FS_Subset, FS_CardinalityType

\* How many numbers there are from a + 1 to b.
LEMMA UpTo ==
    ASSUME NEW a \in Nat, NEW b \in Nat, a <= b
    PROVE  IsFiniteSet(a + 1 .. b) /\ Cardinality(a + 1 .. b) = b - a
<1>1. PICK c \in Int : c = a + 1
  OBVIOUS
<1>2. IsFiniteSet(c .. b) /\ Cardinality(c .. b) = IF c > b THEN 0 ELSE b - c + 1
  BY FS_Interval
<1>3. (IF c > b THEN 0 ELSE b - c + 1) = b - a
  BY <1>1
<1> QED
  BY <1>1, <1>2, <1>3

\* The first places of a list, counted.
LEMMA FirstOnes ==
    ASSUME NEW b \in Nat
    PROVE  IsFiniteSet(1 .. b) /\ Cardinality(1 .. b) = b
<1>1. IsFiniteSet(1 .. b) /\ Cardinality(1 .. b) = IF 1 > b THEN 0 ELSE b - 1 + 1
  BY FS_Interval
<1>2. (IF 1 > b THEN 0 ELSE b - 1 + 1) = b
  OBVIOUS
<1> QED
  BY <1>1, <1>2

\* The elements of U that come after the first p elements of the list.
Behind(l, U, p) == {o \in U : \E q \in p + 1 .. Len(l) : l[q] = o}

\* At most the places behind p are behind p.
LEMMA BehindSize ==
    ASSUME NEW l, Len(l) \in Nat, NEW U, NEW p \in Nat, p <= Len(l)
    PROVE  /\ IsFiniteSet(Behind(l, U, p)) /\ Cardinality(Behind(l, U, p)) \in Nat
           /\ Cardinality(Behind(l, U, p)) <= Len(l) - p
<1> DEFINE S == Behind(l, U, p)
           T == p + 1 .. Len(l)
           f == [o \in S |-> CHOOSE q \in T : l[q] = o]
<1>1. \A o \in S : f[o] \in T /\ l[f[o]] = o
  BY DEF Behind
<1>2. IsFiniteSet(T) /\ Cardinality(T) = Len(l) - p
  BY UpTo
<1>3. f \in [S -> T]
  BY <1>1
<1> HIDE DEF f, S, T
<1>4. \A x, y \in S : f[x] = f[y] => x = y
  BY <1>1
<1>5. IsFiniteSet(S) /\ Cardinality(S) \in Nat /\ Cardinality(S) <= Cardinality(T)
  BY <1>2, <1>3, <1>4, Placed
<1> QED
  BY <1>2, <1>5 DEF S

\* How far the tiles of the list have moved, and may still move: each tile of U behind a
\* tile moves it on by two places at most, when a getTile adds a tile to the front and
\* moves the tile of U, the last one of the list then, there too.
Weights(l, U, n) == \A p \in 1 .. Len(l) : p + 2 * Cardinality(Behind(l, U, p)) <= n

\* What moves on by one place costs one; the front needs room for k unfinished tiles.
LEMMA WeightsGrow ==
    ASSUME NEW l, Len(l) \in Nat, NEW U, NEW n \in Nat, Weights(l, U, n),
           NEW m, NEW V, NEW k \in Nat, Len(m) \in Nat,
           IsFiniteSet(Behind(m, V, 0)), Cardinality(Behind(m, V, 0)) <= k, 2 * k <= n,
           \A p \in 2 .. Len(m) :
              \/ p \in 1 .. Len(l) /\ Behind(m, V, p) \subseteq Behind(l, U, p)
              \/ p - 1 \in 1 .. Len(l) /\ Behind(m, V, p) \subseteq Behind(l, U, p - 1)
    PROVE  Weights(m, V, n + 1)
<1> SUFFICES ASSUME NEW p \in 1 .. Len(m)
             PROVE  p + 2 * Cardinality(Behind(m, V, p)) <= n + 1
  BY DEF Weights
<1>1. CASE p = 1
  <2>1. Behind(m, V, 1) \subseteq Behind(m, V, 0)
    BY DEF Behind
  <2>2. Cardinality(Behind(m, V, 1)) \in Nat /\ Cardinality(Behind(m, V, 0)) \in Nat
        /\ Cardinality(Behind(m, V, 1)) <= Cardinality(Behind(m, V, 0))
    BY <2>1, Inside
  <2> QED
    BY <1>1, <2>2
<1>2. ASSUME p # 1, NEW q \in 1 .. Len(l), q = p \/ q = p - 1,
             Behind(m, V, p) \subseteq Behind(l, U, q)
      PROVE  p + 2 * Cardinality(Behind(m, V, p)) <= n + 1
  <2>1. IsFiniteSet(Behind(l, U, q))
    BY BehindSize
  <2>2. /\ Cardinality(Behind(m, V, p)) \in Nat /\ Cardinality(Behind(l, U, q)) \in Nat
        /\ Cardinality(Behind(m, V, p)) <= Cardinality(Behind(l, U, q))
    BY <1>2, <2>1, Inside
  <2>3. q + 2 * Cardinality(Behind(l, U, q)) <= n
    BY DEF Weights
  <2> QED
    BY <1>2, <2>2, <2>3
<1>3. p # 1 => p \in 2 .. Len(m)
  OBVIOUS
<1> QED
  BY <1>1, <1>2, <1>3

\* A new tile at the front.
LEMMA WeightsPush ==
    ASSUME NEW l, Len(l) \in Nat, NEW U, NEW n \in Nat, Weights(l, U, n),
           NEW m, NEW V, NEW k \in Nat, NEW o, Pushed(l, m, o),
           \A x \in V : Listed(l, x) => x \in U,
           IsFiniteSet(Behind(m, V, 0)), Cardinality(Behind(m, V, 0)) <= k, 2 * k <= n
    PROVE  Weights(m, V, n + 1)
<1>1. Len(m) = Len(l) + 1 /\ Len(m) \in Nat
  BY DEF Pushed
<1>2. \A q \in 2 .. Len(m) : q - 1 \in 1 .. Len(l) /\ m[q] = l[q - 1]
  BY <1>1 DEF Pushed
<1>3. ASSUME NEW p \in 2 .. Len(m), NEW x \in Behind(m, V, p) PROVE x \in Behind(l, U, p - 1)
  <2>1. PICK q \in p + 1 .. Len(m) : m[q] = x
    BY DEF Behind
  <2>2. q \in 2 .. Len(m) /\ q - 1 \in p .. Len(l)
    BY <1>1
  <2>3. l[q - 1] = x /\ q - 1 \in 1 .. Len(l)
    BY <1>2, <2>1, <2>2
  <2>4. x \in U
    BY <2>3 DEF Listed, Behind
  <2> QED
    BY <2>2, <2>3, <2>4 DEF Behind
<1> QED
  BY <1>1, <1>2, <1>3, WeightsGrow

\* A tile of the list moves to the front.
LEMMA WeightsMove ==
    ASSUME NEW l, Len(l) \in Nat, NEW U, NEW n \in Nat, Weights(l, U, n),
           NEW m, NEW k \in Nat, NEW p \in 1 .. Len(l), Moved(l, m, p),
           IsFiniteSet(Behind(m, U, 0)), Cardinality(Behind(m, U, 0)) <= k, 2 * k <= n
    PROVE  Weights(m, U, n + 1)
<1>1. Len(m) = Len(l)
  BY DEF Moved
<1>2. \A q \in 2 .. Len(m) : q - 1 \in 1 .. Len(l) /\ q \in 1 .. Len(l)
                             /\ m[q] = IF q <= p THEN l[q - 1] ELSE l[q]
  BY <1>1 DEF Moved
<1>3. ASSUME NEW r \in 2 .. Len(m)
      PROVE  \/ Behind(m, U, r) \subseteq Behind(l, U, r)
             \/ Behind(m, U, r) \subseteq Behind(l, U, r - 1)
  <2>1. CASE r <= p
    <3>1. ASSUME NEW x \in Behind(m, U, r) PROVE x \in Behind(l, U, r - 1)
      <4>1. PICK q \in r + 1 .. Len(m) : m[q] = x
        BY DEF Behind
      <4>2. q \in 2 .. Len(m) /\ q - 1 \in (r - 1) + 1 .. Len(l) /\ q \in (r - 1) + 1 .. Len(l)
        BY <1>1
      <4>3. l[q - 1] = x \/ l[q] = x
        BY <1>2, <4>1, <4>2
      <4> QED
        BY <4>2, <4>3 DEF Behind
    <3> QED
      BY <3>1
  <2>2. CASE ~(r <= p)
    <3>1. ASSUME NEW x \in Behind(m, U, r) PROVE x \in Behind(l, U, r)
      <4>1. PICK q \in r + 1 .. Len(m) : m[q] = x
        BY DEF Behind
      <4>2. q \in 2 .. Len(m) /\ ~(q <= p) /\ q \in r + 1 .. Len(l)
        BY <1>1, <2>2
      <4>3. l[q] = x
        BY <1>2, <4>1, <4>2
      <4> QED
        BY <4>2, <4>3 DEF Behind
    <3> QED
      BY <3>1
  <2> QED
    BY <2>1, <2>2
<1> QED
  BY <1>1, <1>2, <1>3, WeightsGrow

\* The last tile leaves, or the list stays as it is, and tiles leave U.
LEMMA WeightsShrink ==
    ASSUME NEW l, Len(l) \in Nat, NEW U, NEW n, Weights(l, U, n),
           NEW m, NEW V, Len(m) \in Nat, Len(m) <= Len(l),
           \A q \in 1 .. Len(m) : m[q] = l[q],
           \A x \in V : Listed(m, x) => x \in U,
           n \in Nat
    PROVE  Weights(m, V, n)
<1> SUFFICES ASSUME NEW p \in 1 .. Len(m)
             PROVE  p + 2 * Cardinality(Behind(m, V, p)) <= n
  BY DEF Weights
<1>1. Behind(m, V, p) \subseteq Behind(l, U, p)
  <2>1. ASSUME NEW x \in Behind(m, V, p) PROVE x \in Behind(l, U, p)
    <3>1. PICK q \in p + 1 .. Len(m) : m[q] = x
      BY DEF Behind
    <3>2. q \in 1 .. Len(m) /\ q \in p + 1 .. Len(l)
      OBVIOUS
    <3>3. l[q] = x /\ Listed(m, x)
      BY <3>1, <3>2 DEF Listed
    <3> QED
      BY <3>2, <3>3 DEF Behind
  <2> QED
    BY <2>1
<1>2. p \in 1 .. Len(l) /\ p \in Nat /\ p <= Len(l)
  OBVIOUS
<1>3. /\ Cardinality(Behind(m, V, p)) \in Nat /\ Cardinality(Behind(l, U, p)) \in Nat
      /\ Cardinality(Behind(m, V, p)) <= Cardinality(Behind(l, U, p))
  BY <1>1, <1>2, BehindSize, Inside
<1>4. p + 2 * Cardinality(Behind(l, U, p)) <= n
  BY <1>2 DEF Weights
<1> QED
  BY <1>3, <1>4

\* The last tile, one of U, moves to the front.
LEMMA WeightsKeep ==
    ASSUME NEW l, Len(l) \in Nat \ {0}, NEW U, NEW n \in Nat, Weights(l, U, n + 1),
           l[Len(l)] \in U, Once(l),
           NEW m, Moved(l, m, Len(l)), NEW V, \A x \in V : Listed(l, x) => x \in U,
           NEW k \in Nat, IsFiniteSet(Behind(l, U, 0)), Cardinality(Behind(l, U, 0)) <= k,
           2 * k <= n
    PROVE  Weights(m, V, n)
<1> DEFINE L == Len(l)
           b == l[L]
<1>1. /\ Len(m) = L /\ m[1] = b
      /\ \A q \in 2 .. L : m[q] = l[q - 1] /\ q - 1 \in 1 .. L - 1 /\ q \in 1 .. L
  BY DEF Moved
<1>2. \A p, q \in 1 .. L : l[p] = l[q] => p = q
  BY DEF Once
<1>3. ASSUME NEW p \in 1 .. L, NEW x \in Behind(m, V, p) PROVE x \in Behind(l, U, p - 1) \ {b}
  <2>1. PICK q \in p + 1 .. L : m[q] = x
    BY <1>1 DEF Behind
  <2>2. q \in 2 .. L /\ q - 1 \in (p - 1) + 1 .. L /\ q - 1 # L /\ L \in 1 .. L
        /\ q - 1 \in 1 .. L
    OBVIOUS
  <2>3. l[q - 1] = x
    BY <1>1, <2>1, <2>2
  <2>4. x # b
    BY <1>2, <2>2, <2>3
  <2>5. x \in U
    BY <2>2, <2>3 DEF Listed, Behind
  <2> QED
    BY <2>2, <2>3, <2>4, <2>5 DEF Behind
<1> SUFFICES ASSUME NEW p \in 1 .. L
             PROVE  p + 2 * Cardinality(Behind(m, V, p)) <= n
  BY <1>1 DEF Weights
<1>4. p - 1 \in Nat /\ p - 1 <= L /\ L \in (p - 1) + 1 .. L
  OBVIOUS
<1> DEFINE S == Behind(l, U, p - 1)
<1>5. IsFiniteSet(S) /\ Cardinality(S) \in Nat /\ b \in S
  BY <1>4, BehindSize DEF Behind
<1>6. IsFiniteSet(S \ {b}) /\ Cardinality(S \ {b}) = Cardinality(S) - 1
  BY <1>5, FS_RemoveElement
<1>7. Behind(m, V, p) \subseteq S \ {b}
  BY <1>3
<1> HIDE DEF S
<1>8. Cardinality(Behind(m, V, p)) \in Nat /\ Cardinality(Behind(m, V, p)) <= Cardinality(S) - 1
  BY <1>6, <1>7, Inside
<1>9. CASE p = 1
  <2>1. Cardinality(S) <= k
    BY <1>9 DEF S
  <2> QED
    BY <1>5, <1>8, <1>9, <2>1
<1>10. CASE p # 1
  <2>1. p - 1 \in 1 .. L
    BY <1>10
  <2>2. (p - 1) + 2 * Cardinality(S) <= n + 1
    BY <2>1 DEF Weights, S
  <2> QED
    BY <1>5, <1>8, <2>2
<1> QED
  BY <1>9, <1>10

\* A list that is short enough.
LEMMA WeightsShort ==
    ASSUME NEW l, Len(l) \in Nat, NEW U, NEW c \in Nat, Len(l) <= c, NEW k \in Nat,
           IsFiniteSet(Behind(l, U, 0)), Cardinality(Behind(l, U, 0)) <= k
    PROVE  Weights(l, U, c + k)
<1> SUFFICES ASSUME NEW p \in 1 .. Len(l)
             PROVE  p + 2 * Cardinality(Behind(l, U, p)) <= c + k
  BY DEF Weights
<1>1. /\ Cardinality(Behind(l, U, p)) \in Nat
      /\ Cardinality(Behind(l, U, p)) <= Len(l) - p
  BY BehindSize
<1>2. Behind(l, U, p) \subseteq Behind(l, U, 0)
  BY DEF Behind
<1>3. /\ Cardinality(Behind(l, U, 0)) \in Nat
      /\ Cardinality(Behind(l, U, p)) <= Cardinality(Behind(l, U, 0))
  BY <1>2, Inside
<1> QED
  BY <1>1, <1>3

-----------------------------------------------------------------------------
(* The low tiles of a job.                                                 *)

\* The set of the places of the low tiles in a meta tile.
LowPlaces(m) == {i \in DOMAIN TilesOf[m] : TilesOf[m][i] \in LowZoom}

\* A meta tile has a finite number of low tiles.
LEMMA LowTilesType ==
    ASSUME NEW m \in Metas
    PROVE  /\ LowTiles(m) \in Nat
           /\ DOMAIN TilesOf[m] = 1 .. Len(TilesOf[m]) /\ Len(TilesOf[m]) \in Nat
           /\ IsFiniteSet(LowPlaces(m)) /\ Cardinality(LowPlaces(m)) \in Nat
<1>1. TilesOf[m] \in Seq(Ids)
  BY RenderingAssumption
<1>2. Len(TilesOf[m]) \in Nat /\ DOMAIN TilesOf[m] = 1 .. Len(TilesOf[m])
  BY <1>1, LenProperties
<1>3. IsFiniteSet(1 .. Len(TilesOf[m]))
  BY <1>2, FS_Interval
<1>4. LowPlaces(m) \subseteq 1 .. Len(TilesOf[m])
  BY <1>2 DEF LowPlaces
<1>5. IsFiniteSet(LowPlaces(m)) /\ Cardinality(LowPlaces(m)) \in Nat
  BY <1>3, <1>4, Inside
<1> QED
  BY <1>2, <1>5 DEF LowTiles, LowPlaces

\* There is a meta tile with the most low tiles.
LEMMA LowTilesMost == LowTilesPerJob \in Nat /\ \A m \in Metas : LowTiles(m) <= LowTilesPerJob
<1> DEFINE f == [m \in Metas |-> 1 .. LowTiles(m)]
           R == {1 .. LowTiles(m) : m \in Metas}
           D == UNION R
           n == Cardinality(D)
<1>1. \A m \in Metas : LowTiles(m) \in Nat
  BY LowTilesType
<1>2. f \in Surjection(Metas, R)
  BY DEF Surjection
<1>3. IsFiniteSet(R)
  <2> HIDE DEF f, R
  <2> QED
    BY <1>2, FS_Surjection, RenderingAssumption
<1>4. \A T \in R : IsFiniteSet(T)
  <2>1. \A m \in Metas : IsFiniteSet(1 .. LowTiles(m))
    BY <1>1, FS_Interval
  <2> QED
    BY <2>1
<1>5. IsFiniteSet(D) /\ n \in Nat
  <2>1. IsFiniteSet(D)
    <3> HIDE DEF R
    <3> QED
      BY <1>3, <1>4, FS_UNION
  <2> HIDE DEF D
  <2> QED
    BY <2>1, FS_CardinalityType
<1>6. \A x \in D : x \in Nat /\ x # 0 /\ \E m \in Metas : x <= LowTiles(m)
  BY <1>1
<1>7. ASSUME NEW m \in Metas, NEW x \in Nat, x <= LowTiles(m) PROVE x <= n
  <2>1. 1 .. x \subseteq D
    BY <1>1, <1>7
  <2>3. Cardinality(1 .. x) = x
    BY FirstOnes
  <2> HIDE DEF D
  <2> QED
    BY <1>5, <2>1, <2>3, Inside
<1>8. \A m \in Metas : LowTiles(m) <= n
  BY <1>1, <1>7
<1>9. \E m \in Metas : LowTiles(m) = n
  <2>1. CASE n \in D
    <3>1. PICK m \in Metas : n <= LowTiles(m)
      <4> HIDE DEF n, D
      <4> QED
        BY <1>6, <2>1
    <3>2. LowTiles(m) \in Nat /\ LowTiles(m) <= n /\ n <= LowTiles(m)
      BY <1>1, <1>8, <3>1
    <3> HIDE DEF n
    <3> QED
      BY <1>5, <3>2
  <2>2. CASE n \notin D
    <3>1. \A x \in D : x <= n /\ x # n
      <4> HIDE DEF n, D
      <4> QED
        BY <1>6, <1>7, <2>2
    <3>2. CASE n = 0
      <4>1. PICK m \in Metas : TRUE
        BY RenderingAssumption
      <4>2. LowTiles(m) \in Nat /\ LowTiles(m) <= 0
        BY <1>1, <1>8, <3>2
      <4>3. LowTiles(m) = 0
        BY <4>2
      <4> QED
        BY <3>2, <4>3
    <3>3. CASE n # 0
      <4> HIDE DEF n, D
      <4>1. n - 1 \in Nat
        BY <1>5, <3>3
      <4>2. D \subseteq 1 .. n - 1
        BY <1>5, <1>6, <3>1
      <4>3. IsFiniteSet(1 .. n - 1) /\ Cardinality(1 .. n - 1) = n - 1
        BY <4>1, FirstOnes
      <4>4. Cardinality(D) <= n - 1
        BY <4>1, <4>2, <4>3, Inside
      <4> QED
        BY <1>5, <4>4 DEF n
    <3> QED
      BY <3>2, <3>3
  <2> QED
    BY <2>1, <2>2
<1> HIDE DEF n
<1>10. \E k \in {LowTiles(m) : m \in Metas} : \A m \in Metas : LowTiles(m) <= k
  BY <1>8, <1>9
<1>11. /\ LowTilesPerJob \in {LowTiles(m) : m \in Metas}
       /\ \A m \in Metas : LowTiles(m) <= LowTilesPerJob
  BY <1>10 DEF LowTilesPerJob
<1> QED
  BY <1>1, <1>11

\* The bound on the list is a number.
LEMMA MaxLengthType ==
    /\ Cardinality(Workers) \in Nat /\ LowTilesPerJob \in Nat
    /\ LowInHand \in Nat /\ MaxLength \in Nat
    /\ CacheSize + LowInHand <= MaxLength /\ 2 * LowInHand <= MaxLength
<1>1. Cardinality(Workers) \in Nat /\ LowTilesPerJob \in Nat /\ CacheSize \in Nat
  BY LowTilesMost, FS_CardinalityType, RenderingAssumption, CacheAssumption
<1>2. PICK c \in Nat, n \in Nat : c = Cardinality(Workers) /\ n = LowTilesPerJob
  BY <1>1
<1>3. c * n \in Nat
  OBVIOUS
<1>4. LowInHand \in Nat
  BY <1>2, <1>3 DEF LowInHand
<1> QED
  BY <1>1, <1>4 DEF MaxLength
-----------------------------------------------------------------------------
(* What the jobs have in hand.                                             *)

\* The tiles that are to be written to a file when they are evicted, but cannot.
Unfinished == {o \in Objects : o.id \in LowZoom /\ image[o] = NoImage}

\* The tiles a worker has got.
InHand(w) == {o \in Objects : \E k \in 1 .. Len(holds[w]) : holds[w][k] = o}

\* A job has no more low tiles in hand than its meta tile has.
LEMMA LowInHandOf ==
    ASSUME Types, JobsInv, NEW w \in Workers
    PROVE  /\ IsFiniteSet(InHand(w) \cap Unfinished)
           /\ Cardinality(InHand(w) \cap Unfinished) \in Nat
           /\ Cardinality(InHand(w) \cap Unfinished) <= LowTilesPerJob
<1> DEFINE S == InHand(w) \cap Unfinished
           m == job[w]
<1>0. LowTilesPerJob \in Nat
  BY LowTilesMost
<1>1. PlaceOf(w) /\ Len(holds[w]) \in Nat
  BY LenProperties DEF Types, CacheTypes, Places
<1>2. CASE pc[w] = "idle"
  <2>1. Len(holds[w]) = 0
    BY <1>1, <1>2, EmptySeq DEF PlaceOf
  <2>2. S = {}
    BY <2>1 DEF InHand
  <2> QED
    BY <1>0, <2>2, FS_EmptySet
<1>3. CASE pc[w] # "idle"
  <2>1. m \in Metas /\ Size(w) \in Nat \ {0}
    BY <1>3, JobFacts
  <2>2. Len(holds[w]) <= Size(w)
    <3>1. pc[w] \in Labels
      BY DEF Types, JobTypes
    <3> QED
      BY <1>1, <1>3, <2>1, <3>1 DEF PlaceOf, Labels
  <2>3. \A k \in 1 .. Len(holds[w]) : holds[w][k].id = Nth(w, k)
    BY DEF JobsInv, JobInv
  <2> DEFINE T == IF empty(w) THEN {1} ELSE LowPlaces(m)
             f == [o \in S |-> CHOOSE k \in T : k \in 1 .. Len(holds[w]) /\ holds[w][k] = o]
  <2>4. ASSUME NEW o \in S PROVE f[o] \in T /\ holds[w][f[o]] = o
    <3>1. PICK k \in 1 .. Len(holds[w]) : holds[w][k] = o
      BY DEF InHand
    <3>2. k \in T
      <4>1. CASE empty(w)
        <5>1. k = 1
          BY <2>1, <2>2, <4>1 DEF Size
        <5> QED
          BY <4>1, <5>1
      <4>2. CASE ~empty(w)
        <5>1. o.id = TilesOf[m][k] /\ o.id \in LowZoom
          BY <2>3, <3>1, <4>2 DEF Nth, Unfinished
        <5>2. k \in 1 .. Len(TilesOf[m])
          BY <2>1, <2>2, <1>1, <4>2 DEF Size
        <5> QED
          BY <2>1, <4>2, <5>1, <5>2, LowTilesType DEF LowPlaces
      <4> QED
        BY <4>1, <4>2
    <3> HIDE DEF T
    <3> QED
      BY <3>1, <3>2
  <2>5. IsFiniteSet(T) /\ Cardinality(T) = LowTiles(m)
    <3>1. CASE empty(w)
      BY <3>1, FS_Singleton DEF LowTiles, empty
    <3>2. CASE ~empty(w)
      BY <2>1, <3>2, LowTilesType DEF LowTiles, empty, LowPlaces
    <3> QED
      BY <3>1, <3>2
  <2>6. f \in [S -> T]
    BY <2>4
  <2> HIDE DEF f, S, T
  <2>7. \A x, y \in S : f[x] = f[y] => x = y
    BY <2>4
  <2>8. IsFiniteSet(S) /\ Cardinality(S) \in Nat /\ Cardinality(S) <= Cardinality(T)
    BY <2>5, <2>6, <2>7, Placed
  <2>9. LowTiles(m) <= LowTilesPerJob /\ LowTiles(m) \in Nat
    BY <2>1, LowTilesMost, LowTilesType
  <2> QED
    BY <1>0, <2>5, <2>8, <2>9 DEF S
<1> QED
  BY <1>2, <1>3

\* All workers together.
LEMMA UnfinishedInHand ==
    ASSUME Types, JobsInv, NEW S, \A o \in S : o \in Unfinished /\ \E w \in Workers : o \in InHand(w)
    PROVE  IsFiniteSet(S) /\ Cardinality(S) \in Nat /\ Cardinality(S) <= LowInHand
<1> DEFINE N == 1 .. LowTilesPerJob
           H(w) == InHand(w) \cap Unfinished
           g == [w \in Workers |-> CHOOSE h \in [H(w) -> N] : \A x, y \in H(w) : h[x] = h[y] => x = y]
           v == [o \in S |-> CHOOSE w \in Workers : o \in InHand(w)]
           f == [o \in S |-> <<v[o], g[v[o]][o]>>]
<1>1. LowTilesPerJob \in Nat /\ IsFiniteSet(N) /\ Cardinality(N) = LowTilesPerJob
  <2>1. LowTilesPerJob \in Nat
    BY LowTilesMost
  <2> QED
    BY <2>1, FirstOnes
<1>2. ASSUME NEW w \in Workers
      PROVE  \E h \in [H(w) -> N] : \A x, y \in H(w) : h[x] = h[y] => x = y
  <2>1. IsFiniteSet(H(w)) /\ Cardinality(H(w)) \in Nat /\ Cardinality(H(w)) <= LowTilesPerJob
    BY LowInHandOf
  <2> DEFINE c == Cardinality(H(w))
             I == 1 .. c
  <2> HIDE DEF H
  <2>2. PICK b \in Bijection(I, H(w)) : TRUE
    BY <2>1, FS_CardinalityType DEF ExistsBijection
  <2>3. b \in [I -> H(w)] /\ \A x \in H(w) : \E i \in I : b[i] = x
    BY <2>2 DEF Bijection, Injection, Surjection
  <2> DEFINE h == [x \in H(w) |-> CHOOSE i \in I : b[i] = x]
  <2>4. \A x \in H(w) : h[x] \in I /\ b[h[x]] = x
    BY <2>3
  <2>5. I \subseteq N
    BY <1>1, <2>1
  <2>6. h \in [H(w) -> N]
    BY <2>4, <2>5
  <2> HIDE DEF h
  <2>7. \A x, y \in H(w) : h[x] = h[y] => x = y
    BY <2>4
  <2> QED
    BY <2>6, <2>7
<1>3. \A w \in Workers : g[w] \in [H(w) -> N] /\ \A x, y \in H(w) : g[w][x] = g[w][y] => x = y
  <2> HIDE DEF H, N
  <2> QED
    BY <1>2
<1>4. \A o \in S : v[o] \in Workers /\ o \in H(v[o])
  BY DEF InHand
<1> HIDE DEF g, v, H, N
<1>5. f \in [S -> Workers \X N]
  BY <1>3, <1>4
<1>6. ASSUME NEW x \in S, NEW y \in S, f[x] = f[y] PROVE x = y
  <2>1. v[x] = v[y] /\ g[v[x]][x] = g[v[y]][y]
    BY <1>6
  <2> QED
    BY <1>3, <1>4, <2>1
<1>7. IsFiniteSet(Workers \X N) /\ Cardinality(Workers \X N) = LowInHand
  BY <1>1, FS_Product, RenderingAssumption DEF LowInHand
<1> HIDE DEF f
<1> QED
  BY <1>5, <1>6, <1>7, Placed

-----------------------------------------------------------------------------
(* An unfinished tile in the list is in the hand of a worker.              *)

\* The tiles a job has already delivered are rendered.
Delivered(w) ==
    /\ pc[w] = "deliver" => Done(image, holds[w], next[w])
    /\ pc[w] \in {"setImage", "answer"} => Done(image, holds[w], next[w] - 1)
DeliveredInv == \A w \in Workers : Delivered(w)

\* An unfinished tile in the list is in the hand of the worker that draws it.
HandInv ==
    \A o \in Objects : Listed(RecentlyUsedList, o) /\ image[o] = NoImage =>
        \E w \in Workers : o \in InHand(w)

\* A job at the answer to its k-th tile has k rendered tiles.
LEMMA AnswerDone ==
    ASSUME Types, JobsInv, DeliveredInv, NEW w \in Workers, pc[w] = "answer"
    PROVE  Done(image, holds[w], next[w]) /\ next[w] \in 1 .. Len(holds[w])
<1>1. next[w] \in 1 .. Len(holds[w])
  BY DEF Types, Places, PlaceOf
<1>2. image[holds[w][next[w]]] # NoImage /\ Done(image, holds[w], next[w] - 1)
  BY DEF JobsInv, JobInv, DeliveredInv, Delivered
<1>3. \A k \in 1 .. next[w] : k = next[w] \/ k \in 1 .. next[w] - 1
  BY <1>1
<1> QED
  BY <1>1, <1>2, <1>3 DEF Done

\* The tiles a job has delivered stay rendered in a step that passes it by.
LEMMA DeliveredFrame ==
    ASSUME Types, JobsInv, DeliveredInv, [Next]_vars, NEW v \in Workers,
           pc'[v] = pc[v], holds'[v] = holds[v], next'[v] = next[v]
    PROVE  Delivered(v)'
<1>1. /\ next[v] \in Nat /\ next[v] - 1 \in Int
      /\ pc[v] \in {"deliver", "setImage", "answer"} =>
            next[v] <= Len(holds[v]) /\ next[v] - 1 <= Len(holds[v])
  <2>1. next[v] \in Nat /\ Len(holds[v]) \in Nat
    BY LenProperties DEF Types, JobTypes, CacheTypes
  <2> QED
    BY <2>1 DEF Types, Places, PlaceOf
<1>2. ASSUME pc[v] = "deliver" PROVE Done(image', holds'[v], next[v])
  <2>1. Done(image, holds[v], next[v])
    BY <1>2 DEF DeliveredInv, Delivered
  <2> QED
    BY <1>1, <1>2, <2>1, DoneStays
<1>3. ASSUME pc[v] \in {"setImage", "answer"} PROVE Done(image', holds'[v], next[v] - 1)
  <2>1. Done(image, holds[v], next[v] - 1)
    BY <1>3 DEF DeliveredInv, Delivered
  <2> QED
    BY <1>1, <1>3, <2>1, DoneStays
<1> QED
  BY <1>2, <1>3 DEF Delivered

\* A step that passes all jobs by.
LEMMA DeliveredMove ==
    ASSUME Types, JobsInv, DeliveredInv, [Next]_vars, NEW w \in Workers, Delivered(w)',
           \A v \in Workers \ {w} : pc'[v] = pc[v] /\ holds'[v] = holds[v] /\ next'[v] = next[v]
    PROVE  DeliveredInv'
BY DeliveredFrame DEF DeliveredInv

\* No step takes the picture of a tile that its job has delivered.
LEMMA DeliveredStep ==
    ASSUME Types, JobsInv, DeliveredInv, [Next]_vars
    PROVE  DeliveredInv'
<1> USE DEF Types, JobTypes, Goto
<1>1. ASSUME UNCHANGED <<pc, holds, next>> PROVE DeliveredInv'
  BY <1>1, DeliveredFrame DEF DeliveredInv
<1>2. ASSUME NEW w \in Workers, NEW a \in Labels \ {"deliver", "setImage", "answer"},
             pc' = [pc EXCEPT ![w] = a],
             \A v \in Workers \ {w} : holds'[v] = holds[v] /\ next'[v] = next[v]
      PROVE  DeliveredInv'
  <2>1. Delivered(w)'
    BY <1>2 DEF Delivered, Labels
  <2> QED
    BY <1>2, <2>1, DeliveredMove
<1>3. ASSUME NEW w \in Workers, pc' = [pc EXCEPT ![w] = "deliver"], UNCHANGED <<holds, next>>,
             next[w] = 0
      PROVE  DeliveredInv'
  <2>1. Delivered(w)'
    BY <1>3 DEF Delivered, Done
  <2> QED
    BY <1>3, <2>1, DeliveredMove
<1>4. ASSUME NEW w \in Workers, NEW m \in Metas, StartJob(w, m) PROVE DeliveredInv'
  BY <1>2, <1>4 DEF StartJob, cacheVars, Labels
<1>5. ASSUME NEW w \in Workers, GetStylesheet(w) PROVE DeliveredInv'
  <2>1. pc[w] = "stylesheet" /\ UNCHANGED <<holds, next>> /\ next[w] = 0
    BY <1>5 DEF GetStylesheet, cacheVars, Places, PlaceOf
  <2>2. pc' = [pc EXCEPT ![w] = "find"] \/ pc' = [pc EXCEPT ![w] = "deliver"]
    BY <1>5 DEF GetStylesheet
  <2> QED
    BY <1>2, <1>3, <2>1, <2>2 DEF Labels
<1>6. ASSUME NEW w \in Workers, GetTileFind(w) \/ GetTileDone(w) PROVE DeliveredInv'
  <2>1. UNCHANGED <<holds, next>>
    BY <1>6 DEF GetTileFind, FindCache, GetTileDone, KeepUnrendered, Unlock
  <2>2. pc' = [pc EXCEPT ![w] = "lookup"] \/ pc' = [pc EXCEPT ![w] = "check"]
    BY <1>6 DEF GetTileFind, GetTileDone
  <2> QED
    BY <1>2, <2>1, <2>2 DEF Labels
<1>7. ASSUME NEW w \in Workers, GetTileLookUp(w) PROVE DeliveredInv'
  <2>1. UNCHANGED next /\ pc' = [pc EXCEPT ![w] = "evict"] /\ pc[w] = "lookup" /\ LookUp(w)
    BY <1>7 DEF GetTileLookUp
  <2>2. \A v \in Workers \ {w} : holds'[v] = holds[v]
    BY <2>1, LookUpCases DEF Hit, Miss, CacheTypes
  <2> QED
    BY <1>2, <2>1, <2>2 DEF Labels
<1>8. ASSUME NEW w \in Workers, GetTileEvict(w) PROVE DeliveredInv'
  BY <1>1, <1>8 DEF GetTileEvict, Evict, jobVars
<1>9. ASSUME NEW w \in Workers, CheckTile(w) PROVE DeliveredInv'
  <2>1. pc[w] = "check" /\ UNCHANGED <<holds, next>> /\ next[w] = 0
    BY <1>9 DEF CheckTile, cacheVars, Places, PlaceOf
  <2>2. \/ pc' = [pc EXCEPT ![w] = "find"] \/ pc' = [pc EXCEPT ![w] = "stylesheet"]
        \/ pc' = [pc EXCEPT ![w] = "deliver"]
    BY <1>9 DEF CheckTile
  <2> QED
    BY <1>2, <1>3, <2>1, <2>2 DEF Labels
<1>10. ASSUME NEW w \in Workers, CheckEmpty(w) PROVE DeliveredInv'
  <2>1. UNCHANGED holds /\ next' = [next EXCEPT ![w] = 1]
    BY <1>10 DEF CheckEmpty, cacheVars
  <2>2. pc' = [pc EXCEPT ![w] = "answer"] \/ pc' = [pc EXCEPT ![w] = "setImage"]
    BY <1>10 DEF CheckEmpty
  <2>3. next'[w] - 1 = 0 /\ pc'[w] # "deliver"
    BY <2>1, <2>2
  <2>4. Delivered(w)'
    BY <2>3 DEF Delivered, Done
  <2> QED
    BY <2>1, <2>2, <2>4, DeliveredMove
<1>11. ASSUME NEW w \in Workers, DeliverTile(w) PROVE DeliveredInv'
  <2>1. /\ pc[w] = "deliver" /\ UNCHANGED <<holds, image>> /\ next' = [next EXCEPT ![w] = @ + 1]
    BY <1>11 DEF DeliverTile, cacheVars
  <2>2. pc' = [pc EXCEPT ![w] = "answer"] \/ pc' = [pc EXCEPT ![w] = "setImage"]
    BY <1>11 DEF DeliverTile
  <2>3. next'[w] - 1 = next[w] /\ pc'[w] # "deliver"
    BY <2>1, <2>2
  <2>4. Done(image', holds'[w], next[w])
    BY <2>1 DEF DeliveredInv, Delivered
  <2>5. Delivered(w)'
    BY <2>3, <2>4 DEF Delivered
  <2> QED
    BY <2>1, <2>2, <2>5, DeliveredMove
<1>12. ASSUME NEW w \in Workers, SetImage(w) PROVE DeliveredInv'
  <2>1. pc[w] = "setImage" /\ UNCHANGED <<holds, next>> /\ pc' = [pc EXCEPT ![w] = "answer"]
    BY <1>12 DEF SetImage
  <2>2. next[w] \in 1 .. Len(holds[w]) /\ Done(image, holds[w], next[w] - 1)
    BY <2>1 DEF DeliveredInv, Delivered, Places, PlaceOf
  <2>3. Len(holds[w]) \in Nat
    BY LenProperties DEF CacheTypes
  <2>4. next[w] - 1 \in Int /\ next[w] - 1 <= Len(holds[w])
    BY <2>2, <2>3
  <2>5. Done(image', holds'[w], next[w] - 1)
    BY <2>1, <2>2, <2>4, DoneStays
  <2>6. Delivered(w)'
    BY <2>1, <2>5 DEF Delivered
  <2> QED
    BY <2>1, <2>6, DeliveredMove
<1>13. ASSUME NEW w \in Workers, AnswerTile(w) PROVE DeliveredInv'
  <2>1. CASE next[w] < Len(holds[w])
    <3>1. /\ pc[w] = "answer" /\ pc' = [pc EXCEPT ![w] = "deliver"]
          /\ UNCHANGED <<next, holds, image>>
      BY <1>13, <2>1 DEF AnswerTile
    <3>2. Done(image, holds[w], next[w])
      BY <3>1, AnswerDone
    <3>3. Delivered(w)'
      BY <3>1, <3>2 DEF Delivered
    <3> QED
      BY <3>1, <3>3, DeliveredMove
  <2>2. CASE ~(next[w] < Len(holds[w]))
    <3>1. /\ pc' = [pc EXCEPT ![w] = "idle"] /\ next' = [next EXCEPT ![w] = 0]
          /\ holds' = [holds EXCEPT ![w] = << >>]
      BY <1>13, <2>2 DEF AnswerTile
    <3> QED
      BY <1>2, <3>1 DEF Labels, CacheTypes
  <2> QED
    BY <2>1, <2>2
<1>14. ASSUME StylesheetThread \/ UNCHANGED vars PROVE UNCHANGED <<pc, holds, next>>
  BY <1>14 DEF StylesheetThread, Begin, DeleteFiles, RemoveFiles, DeleteCache, EraseCache,
     EraseStylesheet, LoadStylesheet, cacheVars, jobVars, vars
<1>15. ASSUME NEW w \in Workers, Worker(w) PROVE DeliveredInv'
  BY <1>4, <1>5, <1>6, <1>7, <1>8, <1>9, <1>10, <1>11, <1>12, <1>13, <1>15 DEF Worker
<1> QED
  BY <1>1, <1>14, <1>15 DEF Next

\* How the list changes.
ListMiss(w) ==
    \E o \in Objects : /\ Pushed(RecentlyUsedList, RecentlyUsedList', o) /\ Miss(w, o)
ListHit ==
    /\ \E p \in 1 .. Len(RecentlyUsedList) : Moved(RecentlyUsedList, RecentlyUsedList', p)
    /\ UNCHANGED image

\* What find and the push_front of getTile do to the list.
LEMMA LookUpList ==
    ASSUME Types, NEW w \in Workers, GetTileLookUp(w)
    PROVE  ListMiss(w) \/ ListHit
<1>1. CacheTypes /\ pc[w] = "lookup" /\ LookUp(w)
  BY DEF Types, GetTileLookUp
<1>2. ASSUME NEW p \in 1 .. Len(RecentlyUsedList), Hit(w, p) PROVE ListHit
  <2>1. Moved(RecentlyUsedList, RecentlyUsedList', p)
    BY <1>1, <1>2, HitMoves
  <2>2. UNCHANGED image
    BY <1>2 DEF Hit
  <2> QED
    BY <2>1, <2>2 DEF ListHit
<1>3. ASSUME NEW o \in Objects, Miss(w, o) PROVE ListMiss(w)
  BY <1>1, <1>3, MissPushes DEF ListMiss
<1> QED
  BY <1>1, <1>2, <1>3, LookUpCases

\* Only getTile changes the list.
LEMMA ListStep ==
    ASSUME Types, [Next]_vars
    PROVE  \/ UNCHANGED RecentlyUsedList /\ \A v \in Workers : pc'[v] = "evict" <=> pc[v] = "evict"
           \/ \E w \in Workers : GetTileLookUp(w) \/ GetTileEvict(w) \/ GetTileDone(w)
<1> USE DEF Types, JobTypes, Goto
<1>1. ASSUME UNCHANGED <<RecentlyUsedList, pc>>
      PROVE  UNCHANGED RecentlyUsedList /\ \A v \in Workers : pc'[v] = "evict" <=> pc[v] = "evict"
  BY <1>1
<1>2. ASSUME NEW w \in Workers,
             \/ \E m \in Metas : StartJob(w, m)
             \/ GetStylesheet(w) \/ GetTileFind(w) \/ CheckTile(w) \/ CheckEmpty(w)
             \/ DeliverTile(w) \/ SetImage(w) \/ AnswerTile(w)
      PROVE  UNCHANGED RecentlyUsedList /\ \A v \in Workers : pc'[v] = "evict" <=> pc[v] = "evict"
  <2>1. UNCHANGED RecentlyUsedList /\ pc[w] # "evict"
    BY <1>2 DEF StartJob, GetStylesheet, GetTileFind, FindCache, CheckTile, CheckEmpty, DeliverTile,
       SetImage, AnswerTile, cacheVars
  <2>2. \E a \in Labels \ {"evict"} : pc' = [pc EXCEPT ![w] = a]
    BY <1>2 DEF StartJob, GetStylesheet, GetTileFind, CheckTile, CheckEmpty, DeliverTile,
       SetImage, AnswerTile, Labels
  <2> QED
    BY <2>1, <2>2
<1>3. ASSUME StylesheetThread \/ UNCHANGED vars PROVE UNCHANGED <<RecentlyUsedList, pc>>
  BY <1>3 DEF StylesheetThread, Begin, DeleteFiles, RemoveFiles, DeleteCache, EraseCache,
     EraseStylesheet, LoadStylesheet, cacheVars, jobVars, vars
<1> QED
  BY <1>1, <1>2, <1>3 DEF Next, Worker

\* The tiles of a list that has been through a step.
LEMMA ListFrom ==
    ASSUME Types, EntryInv, [Next]_vars, NEW o, Listed(RecentlyUsedList', o)
    PROVE  \/ Listed(RecentlyUsedList, o)
           \/ \E w \in Workers : GetTileLookUp(w) /\ Miss(w, o)
<1> DEFINE l == RecentlyUsedList
<1>0. Len(l) \in Nat /\ Once(l) /\ CacheTypes
  BY LenProperties DEF Types, CacheTypes, EntryInv
<1>1. ASSUME NEW p \in 1 .. Len(l), Moved(l, l', p) PROVE Listed(l, o)
  BY <1>0, <1>1, MovedList
<1>2. ASSUME NEW w \in Workers, GetTileLookUp(w)
      PROVE  Listed(l, o) \/ \E v \in Workers : GetTileLookUp(v) /\ Miss(v, o)
  <2>1. CASE ListHit
    BY <1>1, <2>1 DEF ListHit
  <2>2. ASSUME NEW x \in Objects, Pushed(l, l', x), Miss(w, x)
        PROVE  Listed(l, o) \/ \E v \in Workers : GetTileLookUp(v) /\ Miss(v, o)
    <3>1. ~Listed(l, x)
      BY <1>0, <2>2, InUse DEF Miss
    <3>2. o = x \/ Listed(l, o)
      BY <1>0, <2>2, <3>1, PushedList
    <3> QED
      BY <1>2, <2>2, <3>2
  <2> QED
    BY <1>2, <2>1, <2>2, LookUpList DEF ListMiss
<1>3. ASSUME NEW w \in Workers, Evict(w) PROVE Listed(l, o)
  BY <1>0, <1>3, EvictPops, PoppedList, OldestType DEF Evict
<1>4. ASSUME NEW w \in Workers, KeepUnrendered(w) PROVE Listed(l, o)
  <2>1. Len(l) \in 1 .. Len(l)
    BY <1>0, <1>4, OldestType DEF KeepUnrendered
  <2> QED
    BY <1>0, <1>1, <1>4, <2>1, KeepMoves
<1>5. ASSUME UNCHANGED RecentlyUsedList PROVE Listed(l, o)
  BY <1>5
<1>6. ASSUME NEW w \in Workers, GetTileEvict(w) PROVE Listed(l, o)
  BY <1>3, <1>6 DEF GetTileEvict
<1>7. ASSUME NEW w \in Workers, GetTileDone(w) PROVE Listed(l, o)
  BY <1>4, <1>5, <1>7 DEF GetTileDone, Unlock
<1> QED
  BY <1>2, <1>5, <1>6, <1>7, ListStep

\* What a worker has in hand stays there, until its job ends.
LEMMA HandKept ==
    ASSUME Types, [Next]_vars, NEW w \in Workers, NEW o \in InHand(w)
    PROVE  o \in InHand(w)' \/ (AnswerTile(w) /\ ~(next[w] < Len(holds[w])))
<1> USE DEF Types
<1>0. PICK k \in 1 .. Len(holds[w]) : holds[w][k] = o
  BY DEF InHand
<1>1. ASSUME holds'[w] = holds[w] PROVE o \in InHand(w)'
  BY <1>1 DEF InHand
<1>2. ASSUME NEW v \in Workers, NEW x \in Objects, holds' = [holds EXCEPT ![v] = Append(@, x)]
      PROVE  o \in InHand(w)'
  <2>1. CASE v # w
    BY <1>1, <1>2, <2>1 DEF CacheTypes
  <2>2. CASE v = w
    <3>1. holds'[w] = Append(holds[w], x) /\ holds[w] \in Seq(Objects)
      BY <1>2, <2>2 DEF CacheTypes
    <3>2. k \in 1 .. Len(holds'[w]) /\ holds'[w][k] = o
      BY <1>0, <3>1, AppendProperties, LenProperties
    <3> QED
      BY <3>2 DEF InHand
  <2> QED
    BY <2>1, <2>2
<1>3. ASSUME NEW v \in Workers, GetTileLookUp(v) PROVE o \in InHand(w)'
  <2>1. CacheTypes /\ pc[v] = "lookup" /\ LookUp(v)
    BY <1>3 DEF GetTileLookUp
  <2>2. ASSUME NEW p \in 1 .. Len(RecentlyUsedList), Hit(v, p) PROVE o \in InHand(w)'
    <3>1. RecentlyUsedList[p] \in Objects
      BY ElementOfSeq DEF CacheTypes
    <3>2. holds' = [holds EXCEPT ![v] = Append(@, RecentlyUsedList[p])]
      BY <2>2 DEF Hit
    <3> QED
      BY <1>2, <3>1, <3>2
  <2>3. ASSUME NEW x \in Objects, Miss(v, x) PROVE o \in InHand(w)'
    BY <1>2, <2>3 DEF Miss
  <2> QED
    BY <2>1, <2>2, <2>3, LookUpCases
<1>4. ASSUME NEW v \in Workers, AnswerTile(v)
      PROVE  o \in InHand(w)' \/ (AnswerTile(w) /\ ~(next[w] < Len(holds[w])))
  <2>1. CASE next[v] < Len(holds[v])
    BY <1>1, <1>4, <2>1 DEF AnswerTile
  <2>2. CASE ~(next[v] < Len(holds[v])) /\ v # w
    <3>1. holds' = [holds EXCEPT ![v] = << >>]
      BY <1>4, <2>2 DEF AnswerTile
    <3> QED
      BY <1>1, <2>2, <3>1 DEF CacheTypes
  <2> QED
    BY <1>4, <2>1, <2>2
<1>5. ASSUME NEW v \in Workers,
             \/ \E m \in Metas : StartJob(v, m)
             \/ GetStylesheet(v) \/ GetTileFind(v) \/ GetTileEvict(v) \/ GetTileDone(v)
             \/ CheckTile(v) \/ CheckEmpty(v) \/ DeliverTile(v) \/ SetImage(v)
      PROVE  UNCHANGED holds
  BY <1>5 DEF StartJob, GetStylesheet, GetTileFind, FindCache, GetTileEvict, Evict, GetTileDone,
     KeepUnrendered, Unlock, CheckTile, CheckEmpty, DeliverTile, SetImage, cacheVars
<1>6. ASSUME StylesheetThread \/ UNCHANGED vars PROVE UNCHANGED holds
  BY <1>6 DEF StylesheetThread, Begin, DeleteFiles, RemoveFiles, DeleteCache, EraseCache,
     EraseStylesheet, LoadStylesheet, cacheVars, vars
<1>7. UNCHANGED holds => o \in InHand(w)'
  BY <1>1
<1> QED
  BY <1>3, <1>4, <1>5, <1>6, <1>7 DEF Next, Worker

\* An unfinished tile gets into the list only through a worker that has it in hand.
LEMMA HandStep ==
    ASSUME Types, EntryInv, JobsInv, DeliveredInv, HandInv, [Next]_vars
    PROVE  HandInv'
<1>0. CacheTypes /\ CacheTypes'
  BY CacheTypesStep DEF Types
<1> SUFFICES ASSUME NEW o \in Objects, Listed(RecentlyUsedList', o), image'[o] = NoImage
             PROVE  \E w \in Workers : o \in InHand(w)'
  BY DEF HandInv
<1>1. ASSUME Listed(RecentlyUsedList, o) PROVE \E w \in Workers : o \in InHand(w)'
  <2>1. o \in Live /\ o \in Live'
    BY <1>0, <1>1, InUse, InUseNext
  <2>2. image[o] = NoImage
    BY <2>1, StaysRendered
  <2>3. PICK w \in Workers : o \in InHand(w)
    BY <1>1, <2>2 DEF HandInv
  <2>4. CASE AnswerTile(w) /\ ~(next[w] < Len(holds[w]))
    <3>1. Done(image, holds[w], next[w]) /\ next[w] \in 1 .. Len(holds[w])
      BY <2>4, AnswerDone DEF AnswerTile
    <3>2. Len(holds[w]) \in Nat
      BY <1>0, LenProperties DEF CacheTypes
    <3>3. next[w] = Len(holds[w])
      BY <2>4, <3>1, <3>2
    <3>4. \A k \in 1 .. Len(holds[w]) : image[holds[w][k]] # NoImage
      BY <3>1, <3>3 DEF Done
    <3> QED
      BY <2>2, <2>3, <3>4 DEF InHand
  <2> QED
    BY <2>3, <2>4, HandKept
<1>2. ASSUME NEW w \in Workers, GetTileLookUp(w), Miss(w, o) PROVE o \in InHand(w)'
  <2>1. holds'[w] = Append(holds[w], o) /\ holds[w] \in Seq(Objects)
    BY <1>0, <1>2 DEF Miss, CacheTypes
  <2>2. Len(holds[w]) + 1 \in 1 .. Len(holds'[w]) /\ holds'[w][Len(holds[w]) + 1] = o
    BY <2>1, AppendProperties, LenProperties
  <2> QED
    BY <2>2 DEF InHand
<1> QED
  BY <1>1, <1>2, ListFrom
-----------------------------------------------------------------------------
(* The bound.                                                              *)

FewUnfinished ==
    /\ IsFiniteSet(Behind(RecentlyUsedList, Unfinished, 0))
    /\ Cardinality(Behind(RecentlyUsedList, Unfinished, 0)) <= LowInHand

\* There are no more unfinished tiles in the list than low tiles in hand.
LEMMA Few == Types /\ JobsInv /\ HandInv => FewUnfinished
<1> SUFFICES ASSUME Types, JobsInv, HandInv PROVE FewUnfinished
  OBVIOUS
<1> DEFINE S == Behind(RecentlyUsedList, Unfinished, 0)
<1>1. ASSUME NEW o \in S PROVE o \in Unfinished /\ \E w \in Workers : o \in InHand(w)
  <2>1. o \in Unfinished /\ Listed(RecentlyUsedList, o)
    BY DEF Behind, Listed
  <2> QED
    BY <2>1 DEF HandInv, Unfinished
<1> HIDE DEF S
<1>2. IsFiniteSet(S) /\ Cardinality(S) <= LowInHand
  BY <1>1, UnfinishedInHand
<1> QED
  BY <1>2 DEF FewUnfinished, S

\* The same of the next state.
LEMMA FewNext == Types' /\ JobsInv' /\ HandInv' => FewUnfinished'
BY Few, PTL

\* Inside getTile, between the push_front and the eviction, the list may be one too long.
BoundInv ==
    /\ (\E w \in Workers : pc[w] = "evict") =>
          Weights(RecentlyUsedList, Unfinished, MaxLength + 1)
    /\ (\A w \in Workers : pc[w] # "evict") => Weights(RecentlyUsedList, Unfinished, MaxLength)

\* A tile that was and is in the list and has no picture had none before.
LEMMA UnfinishedBefore ==
    ASSUME Types, JobsInv, [Next]_vars, NEW o \in Unfinished', Listed(RecentlyUsedList, o),
           Listed(RecentlyUsedList', o)
    PROVE  o \in Unfinished
<1>1. CacheTypes /\ CacheTypes'
  BY CacheTypesStep DEF Types
<1>2. o \in Objects /\ o.id \in LowZoom /\ image'[o] = NoImage
  BY DEF Unfinished
<1>3. o \in Live /\ o \in Live'
  BY <1>1, InUse, InUseNext
<1> QED
  BY <1>2, <1>3, StaysRendered DEF Unfinished

\* No step of getTile takes a tile of the list past its bound.
LEMMA BoundStep ==
    ASSUME Types, EntryInv, JobsInv, HandInv, BoundInv, [Next]_vars,
           Types', EntryInv', JobsInv', HandInv'
    PROVE  BoundInv'
<1> USE DEF Types
<1> DEFINE l == RecentlyUsedList
<1>0. /\ Len(l) \in Nat /\ Len(l') \in Nat /\ Once(l) /\ CacheTypes
      /\ MaxLength \in Nat /\ MaxLength + 1 \in Nat /\ LowInHand \in Nat
      /\ CacheSize + LowInHand <= MaxLength /\ 2 * LowInHand <= MaxLength
  BY LenProperties, MaxLengthType DEF CacheTypes, EntryInv
<1>1. FewUnfinished /\ FewUnfinished'
  BY Few, FewNext
<1>2. ASSUME NEW n \in Nat, Weights(l, Unfinished, n), Len(l') <= Len(l),
             \A q \in 1 .. Len(l') : l'[q] = l[q]
      PROVE  Weights(l', Unfinished', n)
  <2>1. ASSUME NEW o \in Unfinished', Listed(l', o) PROVE o \in Unfinished
    <3>1. Listed(l, o)
      BY <1>0, <1>2, <2>1 DEF Listed
    <3> QED
      BY <2>1, <3>1, UnfinishedBefore
  <2> QED
    BY <1>0, <1>2, <2>1, WeightsShrink
<1>3. CASE UNCHANGED l /\ \A v \in Workers : pc'[v] = "evict" <=> pc[v] = "evict"
  <2>1. Len(l') <= Len(l) /\ \A q \in 1 .. Len(l') : l'[q] = l[q]
    BY <1>0, <1>3
  <2>2. Weights(l, Unfinished, MaxLength) => Weights(l', Unfinished', MaxLength)
    BY <1>0, <1>2, <2>1
  <2>3. Weights(l, Unfinished, MaxLength + 1) => Weights(l', Unfinished', MaxLength + 1)
    BY <1>0, <1>2, <2>1
  <2> QED
    BY <1>3, <2>2, <2>3 DEF BoundInv
<1>4. ASSUME NEW w \in Workers, GetTileLookUp(w) PROVE BoundInv'
  <2>1. pc[w] = "lookup" /\ pc' = [pc EXCEPT ![w] = "evict"]
    BY <1>4 DEF GetTileLookUp, Goto
  <2>2. \A v \in Workers : pc[v] # "evict"
    BY <2>1 DEF Locked
  <2>3. Weights(l, Unfinished, MaxLength)
    BY <2>2 DEF BoundInv
  <2>4. CASE ListHit
    <3>1. PICK p \in 1 .. Len(l) : Moved(l, l', p)
      BY <2>4 DEF ListHit
    <3>2. Unfinished' = Unfinished
      BY <2>4 DEF ListHit, Unfinished
    <3>3. /\ IsFiniteSet(Behind(l', Unfinished, 0))
          /\ Cardinality(Behind(l', Unfinished, 0)) <= LowInHand
      BY <1>1, <3>2 DEF FewUnfinished
    <3>4. Weights(l', Unfinished, MaxLength + 1)
      BY <1>0, <2>3, <3>1, <3>3, WeightsMove
    <3> QED
      BY <2>1, <3>2, <3>4 DEF BoundInv, JobTypes
  <2>5. CASE ListMiss(w)
    <3>1. PICK o \in Objects : Pushed(l, l', o) /\ Miss(w, o)
      BY <2>5 DEF ListMiss
    <3>2. ASSUME NEW x \in Unfinished', Listed(l, x) PROVE x \in Unfinished
      <4>1. ~Listed(l, o)
        BY <1>0, <3>1, InUse DEF Miss
      <4>2. Listed(l', x)
        BY <1>0, <3>1, <3>2, <4>1, PushedList
      <4> QED
        BY <3>2, <4>2, UnfinishedBefore
    <3>3. /\ IsFiniteSet(Behind(l', Unfinished', 0))
          /\ Cardinality(Behind(l', Unfinished', 0)) <= LowInHand
      BY <1>1 DEF FewUnfinished
    <3>4. Weights(l', Unfinished', MaxLength + 1)
      BY <1>0, <2>3, <3>1, <3>2, <3>3, WeightsPush
    <3> QED
      BY <2>1, <3>4 DEF BoundInv, JobTypes
  <2> QED
    BY <1>4, <2>4, <2>5, LookUpList
<1>5. ASSUME NEW w \in Workers, GetTileEvict(w) PROVE BoundInv'
  <2>1. pc[w] = "evict" /\ UNCHANGED pc /\ Evict(w)
    BY <1>5 DEF GetTileEvict, jobVars
  <2>2. Popped(l, l')
    BY <1>0, <2>1, EvictPops
  <2>3. Len(l') <= Len(l) /\ \A q \in 1 .. Len(l') : l'[q] = l[q]
    BY <1>0, <2>2 DEF Popped
  <2>4. Weights(l', Unfinished', MaxLength + 1)
    BY <1>0, <1>2, <2>1, <2>3 DEF BoundInv
  <2> QED
    BY <2>1, <2>4 DEF BoundInv
<1>6. ASSUME NEW w \in Workers, GetTileDone(w) PROVE BoundInv'
  <2>1. pc[w] = "evict" /\ pc' = [pc EXCEPT ![w] = "check"]
    BY <1>6 DEF GetTileDone, Goto
  <2>2. \A v \in Workers : pc'[v] # "evict"
    BY <2>1, CacheAssumption DEF Locked, JobTypes
  <2>3. CASE KeepUnrendered(w)
    <3>1. Len(l) > CacheSize /\ oldId \in LowZoom /\ ~isRendered(oldest)
      BY <2>3 DEF KeepUnrendered
    <3>2. Len(l) \in Nat \ {0} /\ Len(l) \in 1 .. Len(l) /\ l[Len(l)] \in Unfinished
      BY <1>0, <3>1, OldestType DEF oldId, isRendered, Unfinished
    <3>3. Moved(l, l', Len(l))
      BY <1>0, <2>3, KeepMoves
    <3>4. ASSUME NEW x \in Unfinished', Listed(l, x) PROVE x \in Unfinished
      <4>1. Listed(l', x)
        BY <1>0, <3>2, <3>3, <3>4, MovedList
      <4> QED
        BY <3>4, <4>1, UnfinishedBefore
    <3>5. Weights(l, Unfinished, MaxLength + 1)
      BY <2>1 DEF BoundInv
    <3>6. Weights(l', Unfinished', MaxLength)
      BY <1>0, <1>1, <3>2, <3>3, <3>4, <3>5, WeightsKeep DEF FewUnfinished
    <3> QED
      BY <2>2, <3>6 DEF BoundInv
  <2>4. CASE Unlock(w)
    <3>1. l' = l /\ Len(l') <= CacheSize
      BY <2>4 DEF Unlock, SmallEnough
    <3>2. CacheSize \in Nat
      BY CacheAssumption
    <3>3. Weights(l', Unfinished', CacheSize + LowInHand)
      BY <1>0, <1>1, <3>1, <3>2, WeightsShort DEF FewUnfinished
    <3>4. ASSUME NEW p \in 1 .. Len(l')
          PROVE  p + 2 * Cardinality(Behind(l', Unfinished', p)) <= MaxLength
      <4>1. p + 2 * Cardinality(Behind(l', Unfinished', p)) <= CacheSize + LowInHand
        BY <3>3 DEF Weights
      <4>2. Cardinality(Behind(l', Unfinished', p)) \in Nat
        BY <1>0, BehindSize
      <4> QED
        BY <1>0, <3>2, <4>1, <4>2
    <3>5. Weights(l', Unfinished', MaxLength)
      BY <3>4 DEF Weights
    <3> QED
      BY <2>2, <3>5 DEF BoundInv
  <2> QED
    BY <1>6, <2>3, <2>4 DEF GetTileDone
<1> QED
  BY <1>3, <1>4, <1>5, <1>6, ListStep

\* What the weights say of the length of the list.
LEMMA ListLength ==
    ASSUME Types, BoundInv
    PROVE  /\ Len(RecentlyUsedList) \in Nat /\ Len(RecentlyUsedList) <= MaxLength + 1
           /\ CacheBounded
<1> DEFINE l == RecentlyUsedList
<1>1. Len(l) \in Nat /\ MaxLength \in Nat
  BY LenProperties, MaxLengthType DEF Types, CacheTypes
<1>2. ASSUME NEW n \in Nat, Weights(l, Unfinished, n) PROVE Len(l) <= n
  <2>1. CASE Len(l) = 0
    BY <2>1
  <2>2. CASE Len(l) # 0
    <3>1. Len(l) \in 1 .. Len(l)
      BY <1>1, <2>2
    <3>2. Len(l) + 2 * Cardinality(Behind(l, Unfinished, Len(l))) <= n
      BY <1>2, <3>1 DEF Weights
    <3>3. Cardinality(Behind(l, Unfinished, Len(l))) \in Nat
      BY <1>1, BehindSize
    <3> QED
      BY <1>1, <3>2, <3>3
  <2> QED
    BY <2>1, <2>2
<1>3. CASE \E w \in Workers : pc[w] = "evict"
  <2>1. Len(l) <= MaxLength + 1
    BY <1>1, <1>2, <1>3 DEF BoundInv
  <2>2. GlobalCacheLock # Free
    BY <1>3, CacheAssumption DEF Types, Locked
  <2> QED
    BY <1>1, <2>1, <2>2 DEF CacheBounded
<1>4. CASE \A w \in Workers : pc[w] # "evict"
  BY <1>1, <1>2, <1>4 DEF BoundInv, CacheBounded
<1> QED
  BY <1>3, <1>4
-----------------------------------------------------------------------------
(* The Tile objects for an identifier.                                     *)

\* Also a map that AllCaches has dropped keeps its tiles under their identifiers.
CacheIds == cache # Attached => \A k \in DOMAIN cache : cache[k].id = k

\* A map that getTile works on has each tile under its own identifier.
LEMMA CacheIdsStep ==
    ASSUME Types, EntryInv, CacheIds, [Next]_vars
    PROVE  CacheIds'
<1> USE DEF Types
<1>1. ASSUME cache' = cache \/ cache' = Attached PROVE CacheIds'
  BY <1>1 DEF CacheIds
<1>2. ASSUME NEW w \in Workers, GetTileLookUp(w) PROVE CacheIds'
  <2>1. pc[w] = "lookup" /\ LookUp(w)
    BY <1>2 DEF GetTileLookUp
  <2>2. ti \in Ids /\ WorkMap \in Maps
    BY <2>1, LookUpCases
  <2>3. ASSUME NEW o \in Objects, Miss(w, o) PROVE CacheIds'
    <3>1. CASE cache = Attached
      BY <1>1, <2>3, <3>1 DEF Miss
    <3>2. CASE cache # Attached
      <4>1. cache' = Put(cache, ti, o) /\ o.id = ti
        BY <2>3, <3>2 DEF Miss
      <4>2. cache \in Maps
        BY <3>2 DEF CacheTypes
      <4>3. /\ DOMAIN Put(cache, ti, o) = DOMAIN cache \cup {ti} /\ Put(cache, ti, o)[ti] = o
            /\ \A k \in DOMAIN cache \ {ti} : Put(cache, ti, o)[k] = cache[k]
        BY <2>2, <4>2, PutType
      <4>4. ASSUME NEW k \in DOMAIN cache' PROVE cache'[k].id = k
        BY <3>2, <4>1, <4>3 DEF CacheIds
      <4> QED
        BY <4>4 DEF CacheIds
    <3> QED
      BY <3>1, <3>2
  <2>4. ASSUME NEW p, Hit(w, p) PROVE CacheIds'
    BY <1>1, <2>4 DEF Hit
  <2> QED
    BY <2>1, <2>3, <2>4, LookUpCases
<1>3. CASE DeleteCache
  <2>1. cache' = cache \/ (cache' = AllCaches[event.style] /\ AllCaches[event.style] # NoCache)
    BY <1>3 DEF DeleteCache, EraseCache
  <2>2. event.style \in Styles
    BY <1>3 DEF DeleteCache, StyleTypes
  <2>3. ASSUME cache' = AllCaches[event.style], AllCaches[event.style] # NoCache PROVE CacheIds'
    BY <2>2, <2>3 DEF CacheIds, EntryInv, Entries
  <2> QED
    BY <1>1, <2>1, <2>3
<1>4. ASSUME NEW w \in Workers, Worker(w), ~GetTileLookUp(w) PROVE cache' = cache \/ cache' = Attached
  BY <1>4 DEF Worker, StartJob, GetStylesheet, GetTileFind, FindCache, GetTileEvict, Evict,
     GetTileDone, KeepUnrendered, Unlock, CheckTile, CheckEmpty, DeliverTile, SetImage, AnswerTile,
     cacheVars
<1>5. ASSUME \/ \E type \in Events, s \in Styles : Begin(type, s)
             \/ DeleteFiles \/ EraseStylesheet \/ LoadStylesheet \/ UNCHANGED vars
      PROVE  cache' = cache
  BY <1>5 DEF Begin, DeleteFiles, RemoveFiles, EraseStylesheet, LoadStylesheet, cacheVars, vars
<1> QED
  BY <1>1, <1>2, <1>3, <1>4, <1>5 DEF Next, StylesheetThread

\* A job asks for each of its tiles once.
LEMMA OnePerJob ==
    ASSUME Types, JobsInv, NEW w \in Workers, NEW x \in InHand(w), NEW y \in InHand(w), x.id = y.id
    PROVE  x = y
<1>1. PICK j \in 1 .. Len(holds[w]), k \in 1 .. Len(holds[w]) : holds[w][j] = x /\ holds[w][k] = y
  BY DEF InHand
<1>2. Nth(w, j) = Nth(w, k)
  BY <1>1 DEF JobsInv, JobInv
<1>3. Len(holds[w]) \in Nat /\ PlaceOf(w) /\ pc[w] \in Labels
  BY LenProperties DEF Types, CacheTypes, JobTypes, Places
<1>4. pc[w] # "idle"
  <2>1. Len(holds[w]) # 0
    BY <1>1, <1>3
  <2> QED
    BY <1>3, <2>1, EmptySeq DEF PlaceOf
<1>5. job[w] \in Metas /\ Size(w) \in Nat
  BY <1>4, JobFacts
<1>6. Len(holds[w]) <= Size(w)
  BY <1>3, <1>4, <1>5 DEF PlaceOf, Labels
<1>7. CASE empty(w)
  <2>1. j = 1 /\ k = 1
    BY <1>3, <1>6, <1>7 DEF Size
  <2> QED
    BY <1>1, <2>1
<1>8. CASE ~empty(w)
  <2>1. DOMAIN TilesOf[job[w]] = 1 .. Len(TilesOf[job[w]]) /\ Len(TilesOf[job[w]]) \in Nat
    BY <1>5, LowTilesType
  <2>2. j \in DOMAIN TilesOf[job[w]] /\ k \in DOMAIN TilesOf[job[w]]
    BY <1>3, <1>6, <1>8, <2>1 DEF Size
  <2>3. TilesOf[job[w]][j] = TilesOf[job[w]][k]
    BY <1>2, <1>8 DEF Nth
  <2>4. j = k
    BY <1>5, <2>2, <2>3, RenderingAssumption
  <2> QED
    BY <1>1, <2>4
<1> QED
  BY <1>7, <1>8

\* There is always a Tile object left for getTile to create.
LEMMA SomeUnused ==
    ASSUME Types, EntryInv, JobsInv, BoundInv, CacheIds, NEW i \in Ids,
           MaxCopies > MaxLength + Cardinality(Workers) + 2
    PROVE  Unused(i) # {}
<1> SUFFICES ASSUME Unused(i) = {} PROVE FALSE
  OBVIOUS
<1> DEFINE l == RecentlyUsedList
           C == {o \in Objects : o.id = i}
           A == Behind(l, C, 0)
           B == {o \in C : cache # Attached /\ i \in DOMAIN cache /\ o = cache[i]}
           W == {o \in C : \E w \in Workers : o \in InHand(w)}
<1>0. CacheTypes /\ Len(l) \in Nat /\ Len(l) <= MaxLength + 1 /\ MaxLength \in Nat
      /\ Cardinality(Workers) \in Nat /\ MaxCopies \in Nat
  BY ListLength, MaxLengthType, CacheAssumption DEF Types
<1>1. ASSUME NEW o \in C PROVE o \in A \/ o \in B \/ o \in W
  <2>1. o \in Live
    BY DEF Unused
  <2>2. ASSUME Listed(l, o) PROVE o \in A
    BY <2>2 DEF Listed, Behind
  <2>3. CASE o \in Seqs!ToSet(RecentlyUsedList)
    <3>1. DOMAIN RecentlyUsedList = 1 .. Len(RecentlyUsedList)
      BY LenProperties DEF Types, CacheTypes
    <3>2. Listed(l, o)
      BY <2>3, <3>1 DEF Seqs!ToSet, Listed
    <3> QED
      BY <2>2, <3>2
  <2>4. CASE o \in InMaps
    <3>1. PICK s \in Styles : o \in Funcs!Range(Map(AllCaches[s]))
      BY <2>4 DEF InMaps
    <3>2. PICK k \in DOMAIN Map(AllCaches[s]) : o = Map(AllCaches[s])[k]
      BY <3>1 DEF Funcs!Range
    <3>3. AllCaches[s] # NoCache
      BY <3>2, EmptyMap DEF Map
    <3>4. k \in DOMAIN AllCaches[s] /\ o = AllCaches[s][k]
      BY <3>2, <3>3 DEF Map
    <3>5. Listed(l, o)
      BY <3>3, <3>4 DEF EntryInv, Entries
    <3> QED
      BY <2>2, <3>5
  <2>5. CASE o \in InWork
    <3>1. cache # Attached /\ o \in Funcs!Range(cache)
      BY <2>5 DEF InWork
    <3>2. PICK k \in DOMAIN cache : o = cache[k]
      BY <3>1 DEF Funcs!Range
    <3>3. k = i
      BY <3>1, <3>2 DEF CacheIds
    <3> QED
      BY <3>1, <3>2, <3>3
  <2>6. CASE o \in Held
    <3>1. PICK w \in Workers : o \in Seqs!ToSet(holds[w])
      BY <2>6 DEF Held
    <3>2. DOMAIN holds[w] = 1 .. Len(holds[w])
      BY LenProperties DEF Types, CacheTypes
    <3>3. o \in InHand(w)
      BY <3>1, <3>2 DEF Seqs!ToSet, InHand
    <3> QED
      BY <3>3
  <2> QED
    BY <2>1, <2>3, <2>4, <2>5, <2>6 DEF Live
<1>2. IsFiniteSet(A) /\ Cardinality(A) \in Nat /\ Cardinality(A) <= MaxLength + 1
  <2> HIDE DEF C
  <2>1. IsFiniteSet(A) /\ Cardinality(A) \in Nat /\ Cardinality(A) <= Len(l) - 0
    BY <1>0, BehindSize
  <2> QED
    BY <1>0, <2>1
<1>3. IsFiniteSet(B) /\ Cardinality(B) \in Nat /\ Cardinality(B) <= 1
  <2>1. B \subseteq {cache[i]}
    OBVIOUS
  <2>2. IsFiniteSet({cache[i]}) /\ Cardinality({cache[i]}) = 1
    BY FS_Singleton
  <2> HIDE DEF B
  <2> QED
    BY <2>1, <2>2, Inside
<1>4. IsFiniteSet(W) /\ Cardinality(W) \in Nat /\ Cardinality(W) <= Cardinality(Workers)
  <2> DEFINE f == [o \in W |-> CHOOSE w \in Workers : o \in InHand(w)]
  <2>1. \A o \in W : f[o] \in Workers /\ o \in InHand(f[o]) /\ o.id = i
    OBVIOUS
  <2>2. f \in [W -> Workers]
    BY <2>1
  <2> HIDE DEF f, W
  <2>3. \A x, y \in W : f[x] = f[y] => x = y
    BY <2>1, OnePerJob
  <2>4. IsFiniteSet(Workers)
    BY RenderingAssumption
  <2> QED
    BY ONLY <2>2, <2>3, <2>4, Placed, Zenon
<1>5. IsFiniteSet(A \cup B) /\ Cardinality(A \cup B) \in Nat /\ Cardinality(A \cup B) <= MaxLength + 2
  <2> HIDE DEF A, B
  <2>1. /\ IsFiniteSet(A \cup B)
        /\ Cardinality(A \cup B) = Cardinality(A) + Cardinality(B) - Cardinality(A \cap B)
    BY <1>2, <1>3, FS_Union
  <2>2. Cardinality(A \cap B) \in Nat /\ Cardinality(A \cup B) \in Nat
    BY <1>2, <2>1, FS_Intersection, FS_CardinalityType
  <2> QED
    BY <1>0, <1>2, <1>3, <2>1, <2>2
<1> DEFINE T == (A \cup B) \cup W
<1>6. IsFiniteSet(T) /\ Cardinality(T) \in Nat
      /\ Cardinality(T) <= MaxLength + 2 + Cardinality(Workers)
  <2> DEFINE D == A \cup B
  <2>0. T = D \cup W
    OBVIOUS
  <2>1. IsFiniteSet(D) /\ Cardinality(D) \in Nat /\ Cardinality(D) <= MaxLength + 2
    BY <1>5
  <2> HIDE DEF D, W, T
  <2>2. /\ IsFiniteSet(T)
        /\ Cardinality(T) = Cardinality(D) + Cardinality(W) - Cardinality(D \cap W)
    BY <1>4, <2>0, <2>1, FS_Union
  <2>3. Cardinality(D \cap W) \in Nat /\ Cardinality(T) \in Nat
    BY <2>1, <2>2, FS_Intersection, FS_CardinalityType
  <2> QED
    BY <1>0, <1>4, <2>1, <2>2, <2>3
<1> DEFINE g == [n \in 1 .. MaxCopies |-> [id |-> i, no |-> n]]
<1>7. \A n \in 1 .. MaxCopies : g[n] \in C /\ g[n].no = n
  BY DEF Objects
<1>8. g \in [1 .. MaxCopies -> T]
  <2>1. C \subseteq T
    BY <1>1
  <2> HIDE DEF C, T
  <2> QED
    BY <1>7, <2>1
<1> HIDE DEF g, T, C
<1>9. \A m, n \in 1 .. MaxCopies : g[m] = g[n] => m = n
  BY <1>7
<1>10. Cardinality(1 .. MaxCopies) <= Cardinality(T)
  BY <1>6, <1>8, <1>9, Placed
<1>11. Cardinality(1 .. MaxCopies) = MaxCopies
  BY <1>0, FirstOnes
<1> QED
  BY <1>0, <1>6, <1>10, <1>11
-----------------------------------------------------------------------------
(* Theorems.                                                               *)

\* The inductive invariant of the bound, beside RenderingInv.
LengthInv == DeliveredInv /\ HandInv /\ BoundInv /\ CacheIds

\* At the start the list is empty.
LEMMA LengthInit == Init => LengthInv
<1> SUFFICES ASSUME Init PROVE LengthInv
  OBVIOUS
<1>1. Len(RecentlyUsedList) = 0 /\ cache = Attached /\ \A w \in Workers : pc[w] = "idle"
  BY EmptySeq DEF Init, CacheInit
<1>2. DeliveredInv /\ CacheIds
  BY <1>1 DEF DeliveredInv, Delivered, CacheIds
<1>3. HandInv /\ BoundInv
  BY <1>1 DEF HandInv, Listed, BoundInv, Weights
<1> QED
  BY <1>2, <1>3 DEF LengthInv

\* Every step preserves the bound and what it rests on.
LEMMA LengthStep == RenderingInv /\ LengthInv /\ [Next]_vars => LengthInv'
<1> SUFFICES ASSUME RenderingInv, LengthInv, [Next]_vars PROVE LengthInv'
  OBVIOUS
<1>1. Types /\ EntryInv /\ ShowInv /\ JobsInv
  BY DEF RenderingInv, ShowInv
<1>2. Types' /\ EntryInv' /\ JobsInv'
  BY <1>1, TypesStep, EntryStep, JobsStep
<1>3. DeliveredInv' /\ HandInv' /\ CacheIds'
  BY <1>1, DeliveredStep, HandStep, CacheIdsStep DEF LengthInv
<1>4. BoundInv'
  BY <1>1, <1>2, <1>3, BoundStep DEF LengthInv
<1> QED
  BY <1>3, <1>4 DEF LengthInv

\* However long the eviction is put off by tiles that jobs are still drawing, the list
\* stays within CacheSize, or the number of such tiles if it is larger, and that number.
THEOREM BoundedList == Spec => []CacheBounded
<1>1. RenderingInv /\ LengthInv => CacheBounded
  BY ListLength DEF RenderingInv, LengthInv
<1> QED
  BY <1>1, LengthInit, LengthStep, Invariance, PTL DEF Spec

\* The variables keep their types, only the worker inside getTile has GlobalCacheLock,
\* and an identifier never has more Tile objects than places in the list, a map that was
\* dropped and the workers account for, so that with MaxCopies above that the bound
\* never keeps getTile from creating a tile.
THEOREM TypeCorrectness ==
    ASSUME MaxCopies > MaxLength + Cardinality(Workers) + 2
    PROVE  Spec => []TypeOK
<1>1. ASSUME RenderingInv, LengthInv PROVE TypeOK
  <2>1. Types /\ EntryInv /\ JobsInv /\ BoundInv /\ CacheIds
    BY <1>1 DEF RenderingInv, ShowInv, LengthInv
  <2>2. CacheTypes /\ JobTypes /\ StyleTypes /\ Locked
    BY <2>1 DEF Types
  <2>3. ASSUME NEW s \in Styles, AllCaches[s] # NoCache
        PROVE  /\ DOMAIN AllCaches[s] \subseteq {i \in Ids : StyleOf[i] = s}
               /\ Funcs!Range(AllCaches[s]) \subseteq Objects
    <3>1. AllCaches[s] \in Maps
      BY <2>2, <2>3 DEF CacheTypes
    <3>2. DOMAIN AllCaches[s] \subseteq Ids /\ \A i \in DOMAIN AllCaches[s] : AllCaches[s][i] \in Objects
      BY <3>1, MapType
    <3>3. \A i \in DOMAIN AllCaches[s] : StyleOf[i] = s
      BY <2>1, <2>3 DEF EntryInv, Entries
    <3> QED
      BY <3>2, <3>3 DEF Funcs!Range
  <2>4. ASSUME NEW q \in Seq(Objects) PROVE Seqs!ToSet(q) \subseteq Objects
    BY LenProperties, ElementOfSeq DEF Seqs!ToSet
  <2>5. /\ Seqs!ToSet(RecentlyUsedList) \subseteq Objects
        /\ \A w \in Workers : Seqs!ToSet(holds[w]) \subseteq Objects
    BY <2>2, <2>4 DEF CacheTypes
  <2>6. \A i \in Ids : Unused(i) # {}
    BY <2>1, SomeUnused
  <2>7. \A w \in Workers : GlobalCacheLock = w <=> pc[w] \in {"lookup", "evict"}
    BY <2>2 DEF Locked
  <2> QED
    BY <2>2, <2>3, <2>5, <2>6, <2>7 DEF TypeOK, CacheTypes, JobTypes, StyleTypes, Blank
<1>2. RenderingInv /\ LengthInv => TypeOK
  BY <1>1
<1> QED
  BY <1>2, LengthInit, LengthStep, Invariance, PTL DEF Spec
=============================================================================
