----------------------------- MODULE TileCache -----------------------------
(***************************************************************************)
(* Cache: the tiles in memory and on disk.                                 *)
(*                                                                         *)
(* A tile is found through AllCaches, a map of maps, and its age through   *)
(* RecentlyUsedList.  Both hold shared_ptrs to Tile objects; an entry of a *)
(* map also holds an iterator into the list, which must stay valid.        *)
(* getTile works under GlobalCacheLock, deleteTiles does not, so that a    *)
(* stylesheet can be dropped between any two steps of getTile.             *)
(*                                                                         *)
(* A Tile object is its identifier with a number that tells it from other  *)
(* live objects for the same identifier.  The iterator of an entry is      *)
(* modelled by the entry's tile: no tile is in the list twice.             *)
(***************************************************************************)
EXTENDS Integers, Sequences

CONSTANTS
    Workers,        \* the threads that call getTile
    Ids,            \* tile identifiers
    Styles,         \* stylesheet paths
    StyleOf,        \* tile identifier -> its stylesheet path
    LowZoom,        \* the identifiers with zoom <= opt::server::cache_keep_tile
    CacheSize,      \* opt::server::cache_size
    PathHasSlash,   \* opt::server::cache_path ends with a separator
    MaxCopies,      \* bound: the Tile objects for an identifier alive at one time
    NoImage,        \* the image of a tile that is not rendered, a missing file
    NoCache,        \* the stylesheet has no CacheOfOneStylesheet
    Free,           \* GlobalCacheLock is not held
    Attached        \* the map getTile works on is the one in AllCaches

Objects == [id : Ids, no : 1 .. MaxCopies]

ASSUME CacheAssumption ==
    /\ StyleOf \in [Ids -> Styles]
    /\ LowZoom \subseteq Ids
    /\ CacheSize \in Nat \ {0}
    /\ PathHasSlash \in BOOLEAN
    /\ MaxCopies \in Nat \ {0}
    /\ Free \notin Workers
    /\ \A D \in SUBSET Ids : NoCache \notin [D -> Objects] /\ Attached \notin [D -> Objects]

VARIABLES
    AllCaches,        \* stylesheet -> [identifier -> Tile object], or NoCache
    RecentlyUsedList, \* Tile objects, the most recently used one first
    GlobalCacheLock,  \* the worker inside getTile
    ti,               \* the identifier it was called with
    cache,            \* its local: Attached, or a map that AllCaches has dropped
    image,            \* Tile object -> its image
    holds,            \* worker -> the tiles its job has got, in order
    disk              \* identifier -> the image in its file

cacheVars == <<AllCaches, RecentlyUsedList, GlobalCacheLock, ti, cache, image, holds, disk>>

Seqs  == INSTANCE SequencesExt
Funcs == INSTANCE Functions

Map(M) == IF M = NoCache THEN << >> ELSE M
Drop(M, id) == Funcs!Restrict(M, DOMAIN M \ {id})
Put(M, id, o) == [k \in DOMAIN M \cup {id} |-> IF k = id THEN o ELSE M[k]]

\* Objects a shared_ptr refers to.  The others are deallocated.
InMaps == UNION {Funcs!Range(Map(AllCaches[s])) : s \in Styles}
InWork == IF cache = Attached THEN {} ELSE Funcs!Range(cache)
Held   == UNION {Seqs!ToSet(holds[w]) : w \in Workers}
Live   == Seqs!ToSet(RecentlyUsedList) \cup InMaps \cup InWork \cup Held

\* After a step that may have released some.
Release == image' = [o \in Objects |-> IF o \in Live' THEN image[o] ELSE NoImage]

\* make_shared<Tile>: an object that is not in use, if the bound leaves one.
Unused(id)  == {o \in Objects : o.id = id} \ Live
NewTile(id) == CHOOSE o \in Unused(id) : TRUE

isRendered(o) == image[o] # NoImage

CacheInit ==
    /\ AllCaches = [s \in Styles |-> NoCache]
    /\ RecentlyUsedList = << >>
    /\ GlobalCacheLock = Free
    /\ ti = Free
    /\ cache = Attached
    /\ image = [o \in Objects |-> NoImage]
    /\ holds = [w \in Workers |-> << >>]
    /\ disk = [i \in Ids |-> NoImage]
-----------------------------------------------------------------------------
(* getTile, in three parts.                                                *)

\* Lock, and find or create the map of the stylesheet.
FindCache(w, id) ==
    /\ GlobalCacheLock = Free
    /\ GlobalCacheLock' = w /\ ti' = id
    /\ cache' = Attached
    /\ AllCaches' = [AllCaches EXCEPT ![StyleOf[id]] = Map(@)]
    /\ UNCHANGED <<RecentlyUsedList, image, holds, disk>>

\* Find or create the tile in that map.  A new tile of a low zoom level gets its
\* image from its file, if there is one.
LookUp(w) ==
    /\ GlobalCacheLock = w
    /\ LET M == IF cache = Attached THEN AllCaches[StyleOf[ti]] ELSE cache
       IN  IF ti \in DOMAIN M
           THEN /\ \E p \in DOMAIN RecentlyUsedList :
                     /\ RecentlyUsedList[p] = M[ti]
                     /\ RecentlyUsedList' = <<M[ti]>> \o Seqs!RemoveAt(RecentlyUsedList, p)
                /\ holds' = [holds EXCEPT ![w] = Append(@, M[ti])]
                /\ UNCHANGED <<AllCaches, cache, image>>
           ELSE LET o == NewTile(ti)
                IN  /\ Unused(ti) # {}
                    /\ image' = [image EXCEPT ![o] =
                                    IF ti \in LowZoom THEN disk[ti] ELSE NoImage]
                    /\ RecentlyUsedList' = <<o>> \o RecentlyUsedList
                    /\ holds' = [holds EXCEPT ![w] = Append(@, o)]
                    /\ IF cache = Attached
                       THEN /\ AllCaches' = [AllCaches EXCEPT ![StyleOf[ti]] = Put(M, ti, o)]
                            /\ UNCHANGED cache
                       ELSE /\ cache' = Put(M, ti, o)
                            /\ UNCHANGED AllCaches
    /\ UNCHANGED <<GlobalCacheLock, ti, disk>>

oldest == Seqs!Last(RecentlyUsedList)
oldId  == oldest.id

\* AllCaches without the entry for the identifier of the oldest tile.
EvictListOnly == AllCaches   \* mutant: the entry stays when its tile leaves the list
WithoutOldest ==
    [AllCaches EXCEPT ![StyleOf[oldId]] = IF @ = NoCache THEN @ ELSE Drop(@, oldId)]

\* The images its file may have after writeFile: the new one, or the old one if the
\* file does not open.  An unrendered tile is only evicted in the second case.
Written == IF oldId \in LowZoom /\ isRendered(oldest)
           THEN {image[oldest], disk[oldId]} ELSE {disk[oldId]}

\* One round of the loop that evicts: the oldest tile goes, to its file if the zoom
\* level is low.
Evict(w) ==
    /\ GlobalCacheLock = w /\ Len(RecentlyUsedList) > CacheSize
    /\ \E i \in Written : disk' = [disk EXCEPT ![oldId] = i]
    /\ AllCaches' = WithoutOldest
    /\ RecentlyUsedList' = Seqs!Front(RecentlyUsedList)
    /\ UNCHANGED <<GlobalCacheLock, ti, cache, holds>>
    /\ Release

\* AllCaches with an entry for the oldest tile, instead of one there may be.
WithOldest ==
    [AllCaches EXCEPT ![StyleOf[oldId]] = IF @ = NoCache THEN @ ELSE Put(@, oldId, oldest)]

\* Mutant: returns from inside the loop, without unlock.
KeepUnrenderedLocked(w) ==
    /\ GlobalCacheLock = w /\ Len(RecentlyUsedList) > CacheSize
    /\ oldId \in LowZoom /\ ~isRendered(oldest)
    /\ disk' = [disk EXCEPT ![oldId] = NoImage]
    /\ AllCaches' = WithOldest
    /\ RecentlyUsedList' = <<oldest>> \o Seqs!Front(RecentlyUsedList)
    /\ UNCHANGED <<GlobalCacheLock, ti, cache, holds>>
    /\ Release

\* Mutant: the tile is not removed from the back of the list.
KeepUnrenderedTwice(w) ==
    /\ GlobalCacheLock = w /\ Len(RecentlyUsedList) > CacheSize
    /\ oldId \in LowZoom /\ ~isRendered(oldest)
    /\ disk' = [disk EXCEPT ![oldId] = NoImage]
    /\ AllCaches' = WithOldest
    /\ RecentlyUsedList' = <<oldest>> \o RecentlyUsedList
    /\ GlobalCacheLock' = Free /\ ti' = Free /\ cache' = Attached
    /\ UNCHANGED holds
    /\ Release

\* The oldest tile should go to its file but is not rendered: the file, just opened,
\* is removed again, the tile becomes the most recently used one, and getTile returns.
KeepUnrendered(w) ==
    /\ GlobalCacheLock = w /\ Len(RecentlyUsedList) > CacheSize
    /\ oldId \in LowZoom /\ ~isRendered(oldest)
    /\ disk' = [disk EXCEPT ![oldId] = NoImage]
    /\ AllCaches' = WithOldest
    /\ RecentlyUsedList' = <<oldest>> \o Seqs!Front(RecentlyUsedList)
    /\ GlobalCacheLock' = Free /\ ti' = Free /\ cache' = Attached
    /\ UNCHANGED holds
    /\ Release

\* The test of the loop.
SmallEnough == Len(RecentlyUsedList) <= CacheSize

Unlock(w) ==
    /\ GlobalCacheLock = w /\ SmallEnough
    /\ GlobalCacheLock' = Free /\ ti' = Free /\ cache' = Attached
    /\ UNCHANGED <<AllCaches, RecentlyUsedList, holds, disk>>
    /\ Release
-----------------------------------------------------------------------------
(* deleteTiles, without the lock.                                          *)

\* The directory it removes is named cache_path + path; the files are under
\* cache_path + "/" + path.
RemoveFiles(s) ==
    /\ disk' = [i \in Ids |-> IF PathHasSlash /\ StyleOf[i] = s THEN NoImage ELSE disk[i]]
    /\ UNCHANGED <<AllCaches, RecentlyUsedList, GlobalCacheLock, ti, cache, image, holds>>

\* AllCaches.erase: a getTile in progress keeps the map it has found alive.
EraseCache(s) ==
    /\ AllCaches' = [AllCaches EXCEPT ![s] = NoCache]
    /\ cache' = IF GlobalCacheLock # Free /\ cache = Attached /\ StyleOf[ti] = s
                   /\ AllCaches[s] # NoCache
                THEN AllCaches[s] ELSE cache
    /\ UNCHANGED <<RecentlyUsedList, GlobalCacheLock, ti, holds, disk>>
    /\ Release
=============================================================================
