----------------------------- MODULE Rendering -----------------------------
(***************************************************************************)
(* Job, Cache and StylesheetManager together: what ends up in the cache    *)
(* while jobs render and stylesheets change.                               *)
(*                                                                         *)
(* Workers run jobs (Job::process, Job::deliver).  The stylesheet thread   *)
(* runs onFileSystemEvent under the write lock of stylesheetsLock; a job   *)
(* that asks for a stylesheet waits for it, one that uses the cache does   *)
(* not.  The stylesheet of a path is known by the number of its load.      *)
(***************************************************************************)
EXTENDS TileCache, FiniteSets

CONSTANTS
    Metas,        \* meta tiles
    TilesOf,      \* meta tile -> its identifiers in order, << >> if it has no data
    MetaStyle,    \* meta tile -> its stylesheet path
    EmptyID,      \* stylesheet path -> the identifier CreateEmptyTID returns
    Events,       \* the file system events that may happen
    MaxLoads,     \* bound: how often stylesheets are loaded in a behaviour
    NoMeta        \* the worker has no job

Images == [of : Metas, load : 0 .. MaxLoads]

\* A tile belongs to one meta tile, of its stylesheet, and the empty tile to none: its
\* coordinates are negative, also its zoom level.
ASSUME RenderingAssumption ==
    /\ IsFiniteSet(Workers)
    /\ IsFiniteSet(Metas) /\ Metas # {}
    /\ TilesOf \in [Metas -> Seq(Ids)] /\ MetaStyle \in [Metas -> Styles]
    /\ \A m, n \in Metas : \A i \in DOMAIN TilesOf[m], j \in DOMAIN TilesOf[n] :
          TilesOf[m][i] = TilesOf[n][j] => m = n /\ i = j
    /\ \A m \in Metas : \A i \in DOMAIN TilesOf[m] : StyleOf[TilesOf[m][i]] = MetaStyle[m]
    /\ EmptyID \in [Styles -> LowZoom]
    /\ \A s \in Styles : StyleOf[EmptyID[s]] = s
    /\ \A m \in Metas, s \in Styles : \A i \in DOMAIN TilesOf[m] : TilesOf[m][i] # EmptyID[s]
    /\ Events \subseteq {"added", "removed", "modified"}
    /\ MaxLoads \in Nat \ {0}
    /\ NoMeta \notin Metas /\ NoImage \notin Images

VARIABLES
    parsedStylesheets, \* stylesheet -> the number of its load, 0: the fallback
    present,           \* the paths whose file is in the stylesheet folder
    loads,             \* number of loads so far
    event,             \* what the stylesheet thread, and its lock, are busy with
    pc,                \* worker -> the step it is at
    job,               \* worker -> the meta tile of its job
    allRendered,       \* worker -> initTiles' flag, then Job::cached
    canvas,            \* worker -> what its job has drawn, as an image
    next               \* worker -> index of the tile deliver is at

jobVars   == <<pc, job, allRendered, canvas, next>>
styleVars == <<parsedStylesheets, present, loads, event>>
vars      == <<cacheVars, jobVars, styleVars>>

Idle  == [type |-> "none", style |-> NoMeta, step |-> "none"]
Blank == NoImage

Init ==
    /\ CacheInit
    /\ parsedStylesheets = [s \in Styles |-> 1]
    /\ present = Styles
    /\ loads = 1
    /\ event = Idle
    /\ pc = [w \in Workers |-> "idle"]
    /\ job = [w \in Workers |-> NoMeta]
    /\ allRendered = [w \in Workers |-> TRUE]
    /\ canvas = [w \in Workers |-> Blank]
    /\ next = [w \in Workers |-> 0]

Goto(w, label) == pc' = [pc EXCEPT ![w] = label]

empty(w) == TilesOf[job[w]] = << >>

\* The identifier the job asks the cache for next.
Wanted(w) == IF empty(w) THEN EmptyID[MetaStyle[job[w]]]
                         ELSE TilesOf[job[w]][Len(holds[w]) + 1]

lastGot(w) == Seqs!Last(holds[w])
-----------------------------------------------------------------------------
(* Jobs.                                                                   *)

\* process finds out whether there is data.  If not, deliver calls computeEmpty,
\* which asks for the stylesheet first; if there is, initTiles asks for the tiles.
StartJob(w, m) ==
    /\ pc[w] = "idle"
    /\ job' = [job EXCEPT ![w] = m]
    /\ Goto(w, IF TilesOf[m] = << >> THEN "stylesheet" ELSE "find")
    /\ UNCHANGED <<cacheVars, styleVars, allRendered, canvas, next>>

\* Mutant: remove and add lock the stylesheets one after the other.
UnlockedBetween == event.step \in {"none", "parse"}
\* A reader gets the lock when no event is being handled.
NotLocked == event.step = "none"

\* getStylesheet, and what is drawn with it: the meta tile, or the empty tile.  The
\* drawing does not depend on anything other threads do.
GetStylesheet(w) ==
    /\ pc[w] = "stylesheet" /\ NotLocked
    /\ canvas' = [canvas EXCEPT ![w] =
                     [of |-> job[w], load |-> parsedStylesheets[MetaStyle[job[w]]]]]
    /\ Goto(w, IF empty(w) THEN "find" ELSE "deliver")
    /\ UNCHANGED <<cacheVars, styleVars, job, allRendered, next>>

GetTileFind(w) ==
    /\ pc[w] = "find"
    /\ FindCache(w, Wanted(w))
    /\ Goto(w, "lookup")
    /\ UNCHANGED <<styleVars, job, allRendered, canvas, next>>

GetTileLookUp(w) ==
    /\ pc[w] = "lookup"
    /\ LookUp(w)
    /\ Goto(w, "evict")
    /\ UNCHANGED <<styleVars, job, allRendered, canvas, next>>

GetTileEvict(w) ==
    /\ pc[w] = "evict"
    /\ Evict(w)
    /\ UNCHANGED <<styleVars, jobVars>>

GetTileDone(w) ==
    /\ pc[w] = "evict"
    /\ KeepUnrendered(w) \/ Unlock(w)
    /\ Goto(w, "check")
    /\ UNCHANGED <<styleVars, job, allRendered, canvas, next>>

\* initTiles: whether the tile is rendered, and on to the next one.
RenderedLast(w) == isRendered(lastGot(w))   \* mutant: forgets the earlier tiles
RenderedSoFar(w) == allRendered[w] /\ isRendered(lastGot(w))

CheckTile(w) ==
    /\ pc[w] = "check" /\ ~empty(w)
    /\ allRendered' = [allRendered EXCEPT ![w] = RenderedSoFar(w)]
    /\ Goto(w, IF Len(holds[w]) < Len(TilesOf[job[w]]) THEN "find"
               ELSE IF RenderedSoFar(w) THEN "deliver" ELSE "stylesheet")
    /\ UNCHANGED <<cacheVars, styleVars, job, canvas, next>>

\* computeEmpty tests whether the tile is rendered, deliver does for each tile of the
\* meta tile.
CheckEmpty(w) ==
    /\ pc[w] = "check" /\ empty(w)
    /\ next' = [next EXCEPT ![w] = 1]
    /\ Goto(w, IF isRendered(lastGot(w)) THEN "answer" ELSE "setImage")
    /\ UNCHANGED <<cacheVars, styleVars, job, allRendered, canvas>>

DeliverTile(w) ==
    /\ pc[w] = "deliver"
    /\ next' = [next EXCEPT ![w] = @ + 1]
    /\ Goto(w, IF isRendered(holds[w][next[w] + 1]) THEN "answer" ELSE "setImage")
    /\ UNCHANGED <<cacheVars, styleVars, job, allRendered, canvas>>

\* sliceTile and renderEmptyTile end with setImage, long after the test.
SetImage(w) ==
    /\ pc[w] = "setImage"
    /\ image' = [image EXCEPT ![holds[w][next[w]]] = canvas[w]]
    /\ Goto(w, "answer")
    /\ UNCHANGED <<AllCaches, RecentlyUsedList, GlobalCacheLock, ti, cache, holds, disk,
                   styleVars, job, allRendered, canvas, next>>

\* The requests for the tile are answered with it; after the last one the job ends.
AnswerTile(w) ==
    /\ pc[w] = "answer"
    /\ IF next[w] < Len(holds[w])
       THEN /\ Goto(w, "deliver")
            /\ UNCHANGED <<job, allRendered, canvas, next, holds, image>>
       ELSE /\ Goto(w, "idle")
            /\ job' = [job EXCEPT ![w] = NoMeta]
            /\ allRendered' = [allRendered EXCEPT ![w] = TRUE]
            /\ canvas' = [canvas EXCEPT ![w] = Blank]
            /\ next' = [next EXCEPT ![w] = 0]
            /\ holds' = [holds EXCEPT ![w] = << >>]
    /\ UNCHANGED <<AllCaches, RecentlyUsedList, GlobalCacheLock, ti, cache, disk, styleVars>>
    /\ next[w] = Len(holds[w]) => Release

Worker(w) ==
    \/ \E m \in Metas : StartJob(w, m)
    \/ GetStylesheet(w) \/ GetTileFind(w) \/ GetTileLookUp(w) \/ GetTileEvict(w)
    \/ GetTileDone(w) \/ CheckTile(w) \/ CheckEmpty(w) \/ DeliverTile(w)
    \/ SetImage(w) \/ AnswerTile(w)
-----------------------------------------------------------------------------
(* The stylesheet thread: onFileSystemEvent.                               *)

\* A file appears, disappears or changes, and the event is handled under the write
\* lock.  Until the stylesheet was parsed without an error, getStylesheet returns the
\* fallback for its path.
Begin(type, s) ==
    /\ event = Idle
    /\ type \in Events
    /\ type = "added" <=> s \notin present
    /\ type # "removed" => loads < MaxLoads
    /\ present' = IF type = "removed" THEN present \ {s} ELSE present \cup {s}
    /\ event' = [type |-> type, style |-> s,
                 step |-> IF type = "added" THEN "parse" ELSE "files"]
    /\ UNCHANGED <<cacheVars, jobVars, parsedStylesheets, loads>>

\* onRemovedStylesheet: the two halves of deleteTiles, then the stylesheet.
DeleteFiles ==
    /\ event.step = "files"
    /\ RemoveFiles(event.style)
    /\ event' = [event EXCEPT !.step = "cache"]
    /\ UNCHANGED <<jobVars, parsedStylesheets, present, loads>>

DeleteCache ==
    /\ event.step = "cache"
    /\ EraseCache(event.style)
    /\ event' = [event EXCEPT !.step = "stylesheet"]
    /\ UNCHANGED <<jobVars, parsedStylesheets, present, loads>>

EraseStylesheet ==
    /\ event.step = "stylesheet"
    /\ parsedStylesheets' = [parsedStylesheets EXCEPT ![event.style] = 0]
    /\ event' = IF event.type = "modified" THEN [event EXCEPT !.step = "parse"] ELSE Idle
    /\ UNCHANGED <<cacheVars, jobVars, present, loads>>

\* onNewStylesheet: parsing may fail or time out, which leaves no stylesheet.
LoadStylesheet ==
    /\ event.step = "parse"
    /\ \/ /\ parsedStylesheets' = [parsedStylesheets EXCEPT ![event.style] = loads + 1]
          /\ loads' = loads + 1
       \/ UNCHANGED <<parsedStylesheets, loads>>
    /\ event' = Idle
    /\ UNCHANGED <<cacheVars, jobVars, present>>

StylesheetThread ==
    \/ \E type \in Events, s \in Styles : Begin(type, s)
    \/ DeleteFiles \/ DeleteCache \/ EraseStylesheet \/ LoadStylesheet

Next == StylesheetThread \/ \E w \in Workers : Worker(w)

Spec == Init /\ [][Next]_vars
-----------------------------------------------------------------------------
(* Properties.                                                             *)

\* The variables keep their types, MaxCopies is never reached, and
\* GlobalCacheLock, which getTile locks and unlocks by hand, is held by the worker that
\* is inside getTile and by nobody else.
TypeOK ==
    /\ \A s \in Styles : AllCaches[s] # NoCache =>
          /\ DOMAIN AllCaches[s] \subseteq {i \in Ids : StyleOf[i] = s}
          /\ Funcs!Range(AllCaches[s]) \subseteq Objects
    /\ Seqs!ToSet(RecentlyUsedList) \subseteq Objects
    /\ GlobalCacheLock \in Workers \cup {Free}
    /\ ti \in Ids \cup {Free}
    /\ \A w \in Workers : GlobalCacheLock = w <=> pc[w] \in {"lookup", "evict"}
    /\ image \in [Objects -> Images \cup {NoImage}]
    /\ \A w \in Workers : Seqs!ToSet(holds[w]) \subseteq Objects
    /\ disk \in [Ids -> Images \cup {NoImage}]
    /\ parsedStylesheets \in [Styles -> 0 .. MaxLoads]
    /\ job \in [Workers -> Metas \cup {NoMeta}]
    /\ canvas \in [Workers -> Images \cup {Blank}]
    /\ \A i \in Ids : Unused(i) # {}

\* The iterator of every entry is valid and leads to the entry's tile, which has the
\* entry's identifier: otherwise a hit would erase through a dangling iterator, or
\* answer with another tile.  That needs each tile to be in the list only once.
EntriesLive ==
    /\ Funcs!IsInjective(RecentlyUsedList)
    /\ \A s \in Styles : \A i \in DOMAIN Map(AllCaches[s]) :
          /\ AllCaches[s][i] \in Seqs!ToSet(RecentlyUsedList)
          /\ AllCaches[s][i].id = i

\* What a request is answered with is the picture of its meta tile, or the empty tile
\* of its stylesheet; in particular it is not null, which HttpRequest::answer would
\* dereference.  A tile somebody else is rendering is never taken for a rendered one,
\* and no job cuts a tile from a canvas it has not drawn on.
Shows(i, m) ==
    /\ i # NoImage
    /\ IF TilesOf[m] = << >>
       THEN TilesOf[i.of] = << >> /\ MetaStyle[i.of] = MetaStyle[m]
       ELSE i.of = m
AnswersShowTile ==
    \A w \in Workers : pc[w] = "answer" => Shows(image[holds[w][next[w]]], job[w])

\* Whether the tile AllCaches has under i was drawn with the current stylesheet.
Fresh(i) ==
    LET M == Map(AllCaches[StyleOf[i]])
    IN  i \in DOMAIN M /\ isRendered(M[i]) =>
            image[M[i]].load = parsedStylesheets[StyleOf[i]]

\* When a change of a stylesheet has been handled, no tile above the low zoom levels
\* that the cache returns shows the old one, whatever jobs were under way ("lock is
\* outside of functions calls so that remove + add (== changed) can be atomic").
MemoryTilesFresh == event = Idle => \A i \in Ids \ LowZoom : Fresh(i)

\* The same for every tile ("stylesheets are updated at runtime (changes are detected
\* automatically)", README).
TilesFresh == event = Idle => \A i \in Ids : Fresh(i)

\* When onRemovedStylesheet has removed the files of a stylesheet, none is left
\* ("Deletes all cached Tiles of the Stylesheet with the given path", cache.cpp).
DeletesAllFiles ==
    [][DeleteFiles => \A i \in Ids : StyleOf[i] = event.style => disk'[i] = NoImage]_vars

\* The eviction stops at an unrendered tile of a low zoom level, and the list stays
\* too long.  There are no more such tiles than the jobs of all workers can have in hand
\* at one time, and the list exceeds CacheSize, or that number if it is larger, by no
\* more than that number: what one call leaves, later ones evict.
LowTiles(m) == IF TilesOf[m] = << >> THEN 1
               ELSE Cardinality({i \in DOMAIN TilesOf[m] : TilesOf[m][i] \in LowZoom})
LowTilesPerJob == CHOOSE n \in {LowTiles(m) : m \in Metas} :
                      \A m \in Metas : LowTiles(m) <= n
LowInHand == Cardinality(Workers) * LowTilesPerJob
MaxLength == LowInHand + IF CacheSize > LowInHand THEN CacheSize ELSE LowInHand
CacheBounded == GlobalCacheLock = Free => Len(RecentlyUsedList) <= MaxLength
=============================================================================
