# alaCarte in TLA+

This directory holds a specification of the alaCarte tile server: TLA+ modules
translated from its source, TLC configurations that check them on small instances,
and theorems that TLAPS checks for every value of the constants.

alaCarte (`README.md` of the repository) renders OpenStreetMap tiles on demand. The
server loads an imported map (`Geodata`), watches a folder of MapCSS stylesheets,
accepts HTTP requests for tiles, and renders squares of 4 x 4 tiles (meta tiles) with
a pool of worker threads. Tiles are kept in memory and, at low zoom levels, on disk.
A second program imports the map.

The models are of two kinds. The parts that run concurrently - the manager with its
workers, the cache, the connections, the loading of stylesheets - have a module each with
one action per critical section. The parts that compute - reading a document, a request, a
url, a stylesheet; building and searching the trees; matching, drawing, cutting the tiles -
are operators, which one module, `MapPipeline`, calls in the order the programs do.

## 1. Inventory

Three kinds of threads run in the server:

- the **network thread** is in `HttpServer::listen`: it accepts connections, reads and
  parses requests, puts them into the queue of the `RequestManager`, writes replies, and
  after a signal stops everything (`AlacarteServerApp::onRun`);
- the **stylesheet thread** runs `StylesheetManager::onFileSystemEvent`, one event of the
  **monitor's thread** at a time; each parsing of a stylesheet has a thread of its own,
  which is waited for with a timeout and may outlive it;
- the **workers**, `num_threads` of them, run the handlers posted to the
  `RequestManager`'s `io_service`.

| Component | State | Operations | Meets | What is hard, and what makes it correct |
|---|---|---|---|---|
| `RequestManager` with `RunningQueue` | two queues, handlers posted, canvas factories, list of running jobs, counter of prerendering threads | `enqueue` (two), `processNextRequest`, `stop` | everybody | Entries and handlers are paired although they are pushed and posted in two steps; factories are exclusive; a request that is accepted is answered once, also when it joins somebody else's job; prerendering covers the map and its end is noticed |
| `MetaIdentifier`, `TileIdentifier` | none (values) | `Create`, `contains`, `getIdentifiers`, `getSubIdentifiers` | all | Squares are clipped at the edge of the world, children must cover the parent; coordinates come from the url |
| `Job` | its requests, tiles, canvas, `empty`, `cached` | `addRequest`, `process`, `deliver` | `RequestManager`, `Cache`, `StylesheetManager`, `Renderer` | Tiles are shared with other jobs and may be rendered by them between two tests |
| `Cache`, `Tile` | map of maps, list by age, files, the default tile | `getTile`, `deleteTiles`, `getDefaultTile` | jobs, stylesheet thread, error replies | `deleteTiles` and `getDefaultTile` take no lock; map and list must agree; eviction to disk |
| `StylesheetManager` | parsed stylesheets | `startStylesheetObserving`, `getStylesheet`, `hasStylesheet`, `onFileSystemEvent`, `stopStylesheetObserving` | jobs, `Cache`, `RequestManager`, the monitor | After a change no old tile may be served; change is remove and add; the folder is scanned before it is watched; a handler may still run when the monitor is reset |
| `HttpServer`, `HttpRequest` | sockets, `answered`, the reply | accept, read, `answer`, write, `quit` | `RequestManager` | Workers answer while the network thread closes sockets; buffers must outlive the write |
| `RequestParser` | a state and the request so far | `parse` of a piece of a request | `HttpRequest` | Pieces may be cut anywhere |
| `Renderer` and object renderers | canvases | `renderMetaTile`, `sliceTile`, `renderEmptyTile` | `Job` | Three lists are merged by z-index within layers; ways of a relation are put together to rings; labels must not overlap, and must agree across meta tiles |
| `Stylesheet`, `Rule`, selectors, `Style`, `Eval` | none after parsing | `match`, `overmerge`, `finish`, evaluation | `Job` | Selectors climb from objects to what contains them; cascading order; an object matched by several selectors of a rule |
| MapCSS parser | the result and the exception of a parse | `Stylesheet::Load` | stylesheet thread | The thread that parses outlives a timeout; conditions, zoom ranges and expressions |
| `Geodata`, `RTree`, `Archive` | arrays, trees, mapped files | `containsData`, `get*IDs`, `build`, `load`, `serialize` | `Job`, importer | Full and partial nodes, index arithmetic, borders of rectangles, offsets in the file |
| `CachedString` | a table of strings | look up or insert | stylesheets, importer | Upgrade of a lock, equal hashes |
| `Statistic` | averages, a buffer | `start`, `stop`, `finished`, `printStatistic` | `Job` | Measured once per job |
| `Importer` | maps of ids | `parse*` | the xml parser, `Geodata` | References to objects that were clipped or come later, ids that are there twice |
| xml parser (`extras/eaglexml`) | a buffer over a stream, a stack of open tags | `parse`, `parse_next`, attributes | importer | The text arrives in segments that end anywhere, and the buffer wraps over texts that are in use |
| directory monitor (`extras/dirwatch`) | inotify's queue, events | `async_monitor`, `popfront_event`, `destroy` | `StylesheetManager` | The thread that waits must be woken when the monitor is destroyed |
| `AlacarteServerApp`, `Configuration` | options | `startupDiagnostic`, `onRun` | | Order of starting and stopping |

`PROJECT.json` lists each with its state of work, and under `hazards` every place where
the code can go wrong in a way that a test would hardly reach.

## 2. Plan

Modules are ordered by how much of the server's own behaviour they carry.

| | Module | Contents | State |
|---|---|---|---|
| 1 | `MetaTiles` | geometry of meta tiles, pure operators | done |
| 2 | `RequestManager` | queues, handlers, factories, running list, life of a job | done |
| 3 | `RequestService` | what the manager promises: abstract specification of 2 | done |
| 4 | `RequestManagerProofs` | theorems about 2: its invariants, that it implements 3, the geometry of 1 they need, and that the children of a meta tile cover it | done |
| 5 | `TileCache` | `Cache` step by step | done |
| 6 | `Rendering` | composes 5 with `Job` and `StylesheetManager` | done, without the first scan |
| 7 | `HttpConnection` | sockets, reads, writes, `answered`, `quit`, default tile, buffers of a write | done |
| 8 | `StylesheetTable`, `StylesheetLoading` | what the table of stylesheets promises; starting, watching, parsing threads, timeout, exceptions, stopping | done |
| 9 | `RequestParser`, `TileUrl` | the parser for every cut of a request, the url, against a parse of the whole | done |
| 10 | `Rectangles`, `RTree`, `GeoStore` | building and search against a linear search, the file | done |
| 11 | `EvalExpr`, `Styles`, `Selectors`, `MapCss` | expressions, attributes, selectors, the grammar of stylesheets | done |
| 12 | `Drawing` | layers, z-index, rings, labels, slices | done |
| 13 | `XmlStream`, `XmlParser`, `OsmImport`, `OsmReader` | the stream, the pull parser, the importer, and the importer fed by the parser | done |
| 14 | `MapPipeline` | composes 9 to 13, 18 and 21 | done |
| 15 | `StylesheetLoadingProofs` | theorems about 8: types, the refinement, what ends the process | done |
| 16 | `HttpConnectionProofs` | the invariants of 7 | done |
| 17 | `RenderingProofs` | the invariants of 5 and 6: iterators, pictures, outdated tiles; how long the list becomes | done |
| 18 | `TileRequest` | composes the modules of 9: a request, from its first character to its tile; extended by 14 | done |
| 19 | `FoldLemmas` | lemmas about the folds and sequences that the operators are made of | done |
| 20 | `TileRequestProofs` | theorems about 9 and 18: any request in any pieces, any url | done |
| 21 | `TileSearch` | composes 10, the importer of 13 and 18: from the entities of a document to what a job finds; extended by 14 | done |
| 22 | `TreeSearchProofs`, `TileSearchProofs` | theorems about 10 and 21: any tree, any document, any file | done |

Each promise has an abstract specification (`RequestService`, `StylesheetTable`) or, for
the computing parts, a definition that reads the input as a whole (`Request`, `Spells`,
`Says`, `Touching`, `Means`, `AsWritten`, `Seen`), which the result of the steps is compared
with. Section 6 says which of the properties are also proved.

## 3. The modules and the code

### MetaTiles

A tile identifier is a record of position, zoom, stylesheet and format; a
`MetaIdentifier` is the record of its north-west tile. `MetaOf` is the constructor's
rounding, `Side` its clipping, `Identifiers` its list of tiles, `Contains` and
`SubIdentifiers` the methods of that name (children in the order they are pushed).
Coordinates are not negative (`TileIdentifier::Create` tests them), so `\div` is the
division of the code. `MetaSize` is `META_TILE_SIZE` and a parameter.

### RequestManager

One action is one critical section, or one unlocked access to shared state, of one
thread. `pc[w]` is the place a worker is at:

| Label | Code | Action |
|---|---|---|
| `idle` | waiting in `io_service::run` | `TakeHandler` |
| `user` | `nextUserRequest` up to the unlock | `PopUser` |
| `create` | both `Create` calls and their exceptions | `Create` |
| `pre` | `nextPreRenderRequest` up to the unlock | `PopPre` |
| `factory` | the factory, the canvas, the `Job` | `TakeFactory` |
| `start` | `RunningQueue::start`, one for each kind | `StartUser`, `StartPre` |
| `process`, `finished` | `Job::process`, `RunningQueue::finished` | `Process`, `Finished` |
| `deliver` | `Job::deliver` | `Deliver`, `Delivered` |
| `return` | the factory goes back, the `Job` is destroyed | `Return` |
| `sub`, `post` | the loop that enqueues children | `EnqueueChild`, `PostChild` |
| `check_threads`, `check_queue` | the two unlocked reads and the report | `Leave`, `CheckThreads`, `CheckQueue` |

`posted` counts the handlers in the `io_service`; `http` and `ssm` hold what the network
thread and the stylesheet thread have pushed and not yet posted. `Stop` is
`io_service::stop`, after which no worker takes a handler; the join follows from the
workers going idle. What `TileIdentifier::Create` makes of a url is chosen from
`Resolve[r]`, because it depends on the stylesheets at that moment. `Job::empty` starts
with any value, since the constructor leaves it uninitialised. Two
`MetaIdentifier` objects are equal for `RunningQueue::start` only if they are one object;
each queue entry owns its object, therefore `SameIdentifier(v, w) == v = w`.

`RequestService` is the abstract specification: a request is accepted or refused once,
refused only while at least `MaxQueue` others wait for their answer, and an accepted
one is answered once. The refinement maps `reply` and `stopped` to themselves.

### TileCache and Rendering

A `Tile` object is its identifier with a number that tells live objects for one
identifier apart (after `deleteTiles` a job may hold one while the cache creates
another). An entry of the cache holds its tile and an iterator into the list; the
iterator is modelled by the tile it points to, which is sound as long as no tile is in
the list twice, and `EntriesLive` checks exactly that. Objects nobody refers to (`Live`:
the list, the maps, the map a `getTile` works on, the tiles of jobs) are
forgotten (`Release`), and a new `Tile` is one that is not in use (`Unused`).

`getTile` is split into `FindCache`, `LookUp`, one `Evict` per round of its loop and
`KeepUnrendered` or `Unlock`, because `deleteTiles` does not take `GlobalCacheLock` and
may erase the map of a stylesheet between any two of them; `cache` is the local
`shared_ptr` that keeps an erased map alive. `RemoveFiles` and `EraseCache` are the two
halves of `deleteTiles`. A single access to a shared map or pointer is one step; what a
data race inside such an access may do is not modelled. A file that does not open leaves
the old file (`Written`).

`Rendering` adds the jobs and the stylesheet thread. An image records the meta tile it
was drawn for and the load of the stylesheet it was drawn with (0 for the fallback).
`StartJob` may start any job at any time: prerendering entries outlive the stylesheet
they were made for, and user requests choose their tiles freely. That a tile belongs to one
meta tile and the empty tile, whose coordinates are negative, to none
(`RenderingAssumption`) is what `MetaIdentifier` and `computeEmpty` make sure of.
`event.step` says how
far `onFileSystemEvent` has got under the write lock; `GetStylesheet` waits for that lock,
`getTile` does not. A load may fail, by a syntax error or the timeout.

### HttpConnection

`op[r]` is the one asynchronous operation of a connection: none, a read or write that is
outstanding, or the outcome its handler has yet to be called with. The network thread runs
one handler at a time (`HandleAccept`, `HandleRequest`, `HandleMore`, `HandleEnd`, `Quit`);
handlers that are ready run in any order. Closing a socket aborts an operation that is
outstanding and leaves one that has completed alone, which is what makes `quit` hard.
`HandleRequest` is `handleRead` when the parser says complete or bad, with
`RequestManager::enqueue`; `HandleEnd` is `handleRead` on an error and `handleWrite`.

An answer is given by any thread, in the steps `default`, `create`, `load`
(`getDefaultTile`, for error replies), `fill` (`answer(tile)`: the length, and
`remote_endpoint`, which throws when the socket is closed and may when the client is
gone) and `write` (`toBuffers` and `async_write`). `ended` is the exception or fault that
ends the process; nothing happens afterwards. An exception of the network thread, which
`Application::start` catches to end the program, is not told apart from one of a worker.

A worker's job is reduced to what decides when images are set and replies written:
`render` (requests join it), `deliver` (the test whether the tile is rendered), `draw`
(`setImage`), `respond`. `TileOf` maps areas to tiles; empty meta tiles of one style
share their tile. An image is known by how often the image of its tile was set;
the one that is replaced is freed, since only the tile refers to it. Prerendering jobs,
eviction and the lock that `enqueue` holds while it refuses a request are left out.

### StylesheetLoading and StylesheetTable

Three threads and those that parse. `main` is where the main thread is (`configure`,
`diagnose`, `geodata`: `Application::start` and `startupDiagnostic`, which may end the
program; `start`, `scan`, `watch`: `startStylesheetObserving`, under the write lock; `listen`;
`stop`, `join`: `stopStylesheetObserving`). `monitor` is the one operation of the monitor:
`pending` while its thread waits for an event, `posted` until the handler runs, `run` while
a stylesheet is loaded, `end` before the handler asks for the next event through
`monitorService`, which is null when `service` is `FALSE`. `load` is the running
`Stylesheet::Load`, for the scan or for the handler; `load.step` goes from `open` (an
exception when the file is gone) to `parse` and `done`, or `Timeout` leaves its thread to
`late`. A handler that loads takes the write lock that the scan holds, which is why one
`load` suffices (`TypeOK` states the discipline).

Authors create, write, delete and replace files, and edit files of the same name in
subdirectories (which the monitor reports with their stem). `missed` is a history
variable: the names whose last change the code does not act upon, because it came between
the listing and the watch, was a renaming, or was the removal of a nested file. `Converges`
is stated for all other names, and so says exactly which changes are lost; `history` does
the same for `DiesForCause`.

`StylesheetTable` promises that what enters the table is what its file held when the reader
that is installed opened it. The refinement maps `reader` to `load.read`, the file that was
opened last: a late thread's stylesheet must not get in.

### From the document to the tile

`MapPipeline` runs one scenario (a document, a stylesheet, a request) through the importer
and the server, one call after the other. The modules it uses hold pure operators, each
named after the function it translates where there is one. Two of them are components
with specifications of their own, which `MapPipeline` extends:

- `TileRequest` (`RequestSpec`): the reading of a request in the pieces that the network
  delivers, and the identification of the tile;
- `TileSearch` (`SearchSpec`): the importer takes in one entity after the other and saves the
  objects with their trees, the server loads the file, and when a request has named its
  tile, the job looks for what is on the tile's meta tile. It composes `TileRequest` with
  `OsmImport` and `GeoStore`.

`MapPipeline` builds its actions from theirs: `ReadSome`, `GoesQuiet` and `Identify` are
`ReadPiece`, `Quiet` and `IdentifyTile`; `ImportEntity`, `Save`, `Load` and `Query` are
`Imports`, `SaveObjects`, `LoadObjects` and `FindObjects`; each with the pipeline's other
variables. Every other action moves the turn with `TurnOf` as one of the rest of
`SearchNext` allows (`ReadsText`, `ReadsSheet`, `Renders`), so that each step of the
pipeline is a step of `SearchSpec`. `Imports` takes any entity (`IsEntity`); the pipeline
gives it the next one of the document.

| Module | Extends | Code | Operators |
|---|---|---|---|
| `RequestParser` | | `RequestParser::parse`, `consume` | `Consume`, `Parse`; reference `Request` |
| `TileUrl` | | `TileIdentifier::Create` | `stringToInt`, `Create`; reference `Spells` |
| `TileRequest` | `RequestParser`, `TileUrl` | `HttpRequest::handleRead`, `RequestManager::enqueue` | `ReadPiece`, `Quiet`, `IdentifyTile` |
| `Rectangles` | | `FixedRect` | `intersects`, `contains`, `enclose`, ... |
| `XmlStream` | | buffer, segments and characters of `eaglexml` | `read_segments`, `save_node`, `skip`, ... |
| `XmlParser` | `XmlStream` | `xml_document`, `xml_node` of `eaglexml` | `parse_next`, `parse_node_attributes`, ... |
| `OsmImport` | `Rectangles` | `OsmXmlParser`, `StringStorage` | `parseNode`, `parseWay`, ...; reference `Says` |
| `OsmReader` | `OsmImport`, an instance of `XmlParser` | `importXML`, `parseEntities` | `ReadNext` |
| `RTree` | `Rectangles` | `RTree::build`, `search`, `contains` | the same |
| `GeoStore` | `RTree` | `Geodata`, `Archive`, `tileToMercator`, `Job::computeRect` | `save`, `load`, `getIDs`, `computeRect`; reference `Touching` |
| `TileSearch` | `TileRequest`, `OsmImport`, `GeoStore` | `parseEntities`, `onRun` of both programs, `Job::process` | `Imports`, `SaveObjects`, `LoadObjects`, `FindObjects` |
| `EvalExpr` | | `EvalGrammer`, the nodes of `server/eval` | `parseEval`, `Eval`; reference `AsWritten` |
| `Styles` | `EvalExpr` | `StyleTemplate`, `Style`, `Eval<T>` | `NewEval`, `overmerge`, `FinishAll` |
| `Selectors` | `Styles` | `server/selector` | `RuleMatch` |
| `MapCss` | `Selectors` | `MapCssGrammar`, `MapCssParser::load` | `LoadSheet`; reference `Means` |
| `Drawing` | `MapCss`, `GeoStore` | `Renderer` and its object renderers | `DrawObjects`, `DrawTexts`, `sliceTile`; reference `Seen` |

The data are abstracted to what the properties tell apart:

- **Texts** are pairs of a kind and a value (`<<"int", 7>>`, `<<"dec", 5>>` for 2.5,
  `<<"word", "x">>`), so that a conversion is what it does: an int is read from a text, a
  prefix of one, or not; an empty text leaves the variable as it was (`sc.unset`).
- **Requests** and **urls** are sequences of characters, one representative of each class
  that `consume` tells apart. `stringToInt` wraps at `IntBits`.
- **Stylesheets** are tokens; the grammar's alternatives and their order are kept, also that
  declarations may be missing between semicolons and values between commas. `StylesMatch`
  says of a sheet without a flaw that it is not refused, and of the styles all but the lists
  of dashes.
- **Documents** are symbols: the markup one by one, a name or a text as one symbol or,
  where it shall be cut, as several (`Spelling`). The stream has a buffer of `buffer` symbols,
  filled a `segment` at a time; a text is a place in it, so that a text which is not saved
  when the buffer wraps is read as whatever is there then.
- **Coordinates** are small integers and the projection is linear (the code's is in floating
  point); rectangles keep the code's strict and non-strict comparisons.
- A **picture** is the sequence of marks drawn on it: which object, fill, casing, stroke,
  icon or text. A slice is the part of it, and what the slice showed before where the
  background is not opaque, because the surface is not cleared between tiles.

Things the translation keeps because they matter: the tree is built upwards and turned
round, with the indices of children counted from the other end (`Turned`), and a leaf is
found in the file from the place of its node (`readLeaf`). The searches are functions of the
node they begin at, since the code's stack visits what a recursion would; `buildLevels` adds a
level as often as there are leaf nodes at most, which is more than enough (`LevelsEnd`); files start at a new page; an
object that comes to the end of a chain of selectors more than once is styled that often;
layers are `z / 100`, which in C++ puts the z-indices -99 to 99, two layers, into one
(renderer.cpp:204); and of the xml parser

- only the active node's texts are saved when the buffer wraps, therefore the importer must
  read an entity's attributes before its children;
- a declaration that is not known leaves its status illegal (eaglexml.hpp:2391, 2477), which
  a release build does not notice: before the first child the children are dropped, between
  siblings the importer never ends (`written = "unrecognized"`);
- `StringStack` reads before its segment when a segment has become empty
  (eaglexml.hpp:2974): a document nested deeply enough is refused (`written = "nested"`);
- the name of the last end tag is never read.

## 4. What is checked

| Run | Instance | What it shows |
|---|---|---|
| `manager_safety` | 2 workers, 3 requests, queue of 2, a stylesheet loaded twice, prerendering to zoom 2, 4 x 4 meta tiles, no data at zoom 1 | `NoIdleHandler`, `FactoriesSafe`, `OneHolder`, `DeliverAnswersAll`, `UserJobsJoin`, `EndIsReported`, and that the manager implements `RequestService` (`ServiceSpec`) |
| `manager_liveness` | 2 workers, 1 request, 2 x 2 meta tiles, prerendering to zoom 2 with three of the four squares there empty | `ServiceAnswers`, `PrerenderCovers` |
| `manager_mixed` | as the first, one request for svg | finding 1: `DeliverAnswersAll` fails |
| `manager_duplicate` | as the first | finding 2: `NoDuplicateJobs` fails |
| `cache_safety` | 2 workers, a meta tile with two tiles above the low zoom levels and one without data, a cache of 1, the stylesheet modified once | `EntriesLive`, `AnswersShowTile`, `MemoryTilesFresh`, `CacheBounded`; `TypeOK` with the discipline of the hand-made lock |
| `cache_empty` | 2 workers, the meta tile without data | finding 3: `TilesFresh` fails |
| `cache_disk` | 1 worker, a low and a high meta tile, a cache path without a trailing slash | finding 4: `DeletesAllFiles` fails |
| `cache_added` | 2 workers, a stylesheet that is removed and added | finding 5: `MemoryTilesFresh` fails |
| `http_safety` | 2 workers, 2 connections, a queue of 1, two areas that share the empty tile | `OneHolder`: a connection is in exactly one hand; `Registered`: open sockets are registered, none after `quit`; `EndsForCause`: what may end the process; and, with fairness, `Served` and `ShutsDown` |
| `http_buffers` | as above | finding 6: `BuffersValid` fails |
| `stylesheets` | one stylesheet and the hidden fallback, three edits, at any time from before the scan to the end | `KeepsPromise` (the refinement of `StylesheetTable`); `DiesForCause`: what may end the process; with fairness `LockReleased`, `StopEnds` and `Converges` |
| `map_pipeline` | 5397 scenarios, see below | `ParsesRequests`, `UrlNamesTile`: reading a request in pieces and its url; `ReadsAsWritten`, `ImportsDocument`: the document through segments and buffers, and what the server loads of it; `SearchExact`: the trees; `StylesMatch`, `EvaluatesAsWritten`: the cascade and expressions; `DrawnInOrder`, `RingsClosed`, `LabelsApart`, `BorderLabelsWhole`, `SlicesShowTile`: the picture |

Every property of a passing run has a mutant of the code that violates it under the same
configuration (the operators commented `mutant`).

**Bounds.** Two workers are enough for every pairwise race, and the code has no step
that waits for a third. Three requests fill a queue of two and leave one to be refused,
let one join a running job while another is queued, and give one that is malformed or of
an unknown format. Two loads make two prerenderings of one area overlap. One case needs a
third: in `http_safety` two threads may make the default tile at once, but only two clients
can be answered, so that nobody is left to find the tile that is never loaded. The theorem
`EndsAreCaused`, for any number of threads, includes it. The zoom levels 0 to 2
have meta tiles that are clipped and ones that are not. In the cache runs a cache of one
evicts on nearly every call; `MaxCopies` bounds the live `Tile` objects of an identifier
and `TypeOK` shows that it is never reached, which the theorem `TypeCorrectness` says of
every instance where it is larger than `MaxLength + Cardinality(Workers) + 2` (8 in
`cache_safety`, hence 9); `MaxLoads` bounds the changes of the
stylesheet. With one low tile per job a list of four is the bound of `CacheBounded` there. Workers are interchangeable and nothing is chosen by their order, so symmetry
is used, except in the liveness run, which checks temporal formulas.

In `stylesheets` three edits let a file be deleted, created and written while one load, and
the late thread of another, are under way; a second stylesheet would share the one handler
and the one lock, and `Hidden` gives the names the handler passes over.

`map_pipeline` enumerates families of scenarios, each of which varies one part of a default
document, sheet and request: requests cut in two at every place, in single characters, and
with each character replaced by one of each class; urls at the borders, negative, empty and
too large for `IntBits = 8`; every document of up to three of nine entities, and each flaw;
one document in five forms through segments of 3 to 9 symbols, and cut off at each place;
trees of one to eleven entries (leaves of two, nodes of two children: four levels); each
type of object with each condition and zoom range; chains of two and three selectors; two
rules that speak of the same attributes; sheets that are rejected, and sheets with empty
declarations and empty values of lists; all pairs of operators;
layers -1 to 1 with z-indices that reach into the neighbours'; labels at the borders of
meta tiles and up to three in a crowd; and relations of ways in any order and direction, some
of which form rings and some of which, as 1-2, 4-1 and 2-1, meet in a third way. The
constants are as small as lets a tree have levels, a buffer wrap and a label cross a border:
zoom levels 0 to 3, meta tiles of 2 x 2 tiles of length 8, a map of 32 x 32. The
premises of the properties are met in the families made for them (that an `Ended` stage
other than `sent` is reached, that rings form, that labels touch neighbours); the mutants
show it, since each is caught.

In the connection runs two clients suffice to fill the queue and be refused, to join
a job, and to write two replies from one tile; a third would only wait.

**Fairness.** Weak fairness of `PostUser`, `PostRoot` and every `Worker(w)`: the operating
system runs a thread that can run, and no thread of the manager waits for
anything but short critical sections. No client, stylesheet or operator is obliged to do
anything, so `Enqueue`, `LoadStyle` and `Stop` have no fairness; the liveness properties
are conditional on the server not being stopped, because `io_service::stop` drops the
handlers that are queued. With more requests user requests could put prerendering off for as
long as clients keep sending; with finitely many requests this cannot go on, which is why
`PrerenderCovers` holds. In `HttpConnection` each handler that is ready is run in the end
(weak fairness of each, because `io_service` serves a queue), and so is every thread; clients
owe nothing: they may be silent for ever, never read their reply, or leave. `Served`
therefore promises that the write is started, and `ShutsDown` rests on `quit` aborting
what clients would leave pending. In `StylesheetLoading` the main thread, the monitor's with
the handler, and a load that is waited for run (weak fairness of each); authors, the
operator's signal (`ListenReturns`) and a late thread owe nothing, so that `Converges` speaks
of the time after the last edit only. `MapPipeline` is sequential and has no liveness; a
scenario that does not end would be an infinite behaviour of an acyclic graph.

**Deadlock** is checked in all runs but `map_pipeline`, where each scenario ends; in
`StylesheetLoading` the end is the step `Over`. In `RequestManager` the states in which every thread
rests are named `Quiescent` and have the stuttering step `Rest`.

## 5. Findings

1. `RunningQueue::start` (request_manager.cpp:56) attaches a request to a running job
   when `MetaIdentifier::contains` holds, which ignores the format. The job looks requests
   up under identifiers of its own format: the request is never answered. The passing run
   has one format, where `DeliverAnswersAll` holds.
2. For prerendering the same function compares pointers (request_manager.cpp:43), which
   are never equal: two jobs render the same tiles, contrary to "check if tiles are
   already in progress". User requests do join (`UserJobsJoin`).
3. `computeEmpty` (job.cpp:117) takes the stylesheet before the tile; a change in between
   leaves an outdated empty tile in the cache.
4. `deleteTiles` (cache.cpp:207) omits the separator between the cache path and the
   stylesheet; with the default path no file is deleted. `MemoryTilesFresh` is therefore
   stated for tiles that are never on disk, and `TilesFresh` for all.
5. A stylesheet that is added (stylesheet_manager.cpp:190) does not drop tiles that were
   drawn with the fallback for its path since it was removed.

6. Testing whether a tile is rendered and setting its image are two steps (job.cpp:220,
   job.cpp:121). Two jobs that share a tile (the empty tile, or one meta tile of finding 2)
   replace the image from which the first one's reply is being written, although
   http_request.hpp:80-82 requires that it stays. The default tile has the same gap.

## 6. What is proved

### RequestManagerProofs

`RequestManagerProofs` proves, for every finite set of workers, every set of requests,
stylesheets and formats, every `Resolve`, `NoData`, `MetaSize > 0`, `PrerenderLevel`,
`MaxQueue` and `MaxLoads`, under the assumptions `ManagerAssumption` and
`MetaSizeAssumption`:

- `Invariance`: `Spec => []IInv`;
- `TypeCorrect`: `Spec => []TypeOK`;
- `HandlersFindWork`: `Spec => []NoIdleHandler`;
- `FactoriesAreSafe`: `Spec => []FactoriesSafe`.

`TypeOK` is not inductive: that the counter of prerendering threads does not become
negative needs that it counts the workers between `PopPre` and `Leave`, and that `Head` is
taken of a non-empty queue of factories needs that there are as many factories as workers.
`IInv` adds

- `ThreadCount`: the counter equals the number of workers that are prerendering;
- `FactoryCount`: factories in the queue and workers that hold one add up to the number
  of workers; since a worker that is about to take one holds none, one is there;
- `FactoriesDistinct`: no factory is in the queue twice, or in the queue and in a hand;
- `LocalOK`: which of a worker's variables are set at which label;
- the equation of `NoIdleHandler`: posted and unposted handlers, and workers that have
  taken one and not yet an entry, equal the entries of both queues. Its first conjunct
  follows: a worker at `pre` has its own share of the equation, and it saw the user queue
  empty, but an entry may have been pushed since, so both conjuncts are carried along.

The proofs of the counting parts rest on lemmas about how moving one worker from one
label to another changes the set of workers at a group of labels (`AtMoves`, `AtStays`,
`MoveOne`), and on `Frames`, which says for each action which worker moves where. The
remaining parts go over the actions one by one (`TypeStep`, `LocalStep`, `HandlerStep`,
`ThreadStep`, `FactoryStep`).

**The service.** Under the same assumptions, `ImplementsService`: `Spec => ServiceSpec`.

A step that answers a request is a step of the service only if the request is pending, and
a refusal only if `MaxQueue` requests wait. Both rest on `HolderInv`: a request in the
queue, in a worker's hand or in a job is pending and in no other place. The queue then is
an injection into the pending requests (`QueueWaits`), so that its length is at most their
number; that they are finitely many, although `Requests` may be infinite, is
`FiniteWaiting`. `ServiceStep` maps the actions: `Enqueue` to `Accept` or `Refuse`,
`Create` with a bad url and `Deliver` to `Respond`, `Stop` to `Stop`, the others stutter.

**Requests and places.** The other invariants of the run `manager_safety`:

- `ReportsEnd`: `Spec => []EndIsReported`;
- `RequestsJoin`: `Spec => []UserJobsJoin`, if `InWorld`;
- `JobsAnswerAll`: `Spec => []DeliverAnswersAll`, if `InWorld` and `OneFormat`;
- `RequestsAreKept`: `Spec => []OneHolder`, if `InWorld` and `OneFormat`;

and, of the operators of `MetaTiles`, for any `MetaSize`:

- `ChildrenCover`: a tile one zoom level below a meta tile is in exactly one of the squares
  `SubIdentifiers` lists, and a tile of those is below the meta tile.

`InWorld` says that a url names a tile of the map or is refused, which
`TileIdentifier::Create` tests (`UrlNamesTile` of the pipeline). `OneFormat` is what finding 1
violates: `Contains` ignores the format, `Identifiers` does not, and with two formats
the last two theorems are false. The instance of `manager_safety` satisfies both.

The geometry is in three lemmas: a tile of the map lies in its own meta tile (`ContainsOwn`,
which rests on `RoundDown`), a tile contained in a meta tile of its format is one of its
identifiers (`ContainsIsIdentifier`), and meta tiles of one area contain the same tiles
(`SameAreaContains`). The inductive invariants are `ListInv` (the running list holds
different workers, all between `StartUser` or `StartPre` and `Finished`; a seeker has the meta tile of its tile;
`UserJobsJoin`, which only the order of the list, kept by `RemoveAtElements`, makes
inductive), `AttachedOK` (only running jobs hold requests, and for tiles they deliver),
`PendingHeld` (a pending request is somewhere; with `HolderInv`, which says at most once,
it is `OneHolder`), and `EndOK`: from a load to the report, the queue holds an entry, somebody
prerenders, or somebody is about to look. A worker that reads the
counter and finds it not zero leaves another prerendering worker behind, by `ThreadCount`.

`ChildrenCover` is what makes prerendering by descent complete: from the root, step by step,
every tile is below exactly one square of each zoom level, unless a square above it is empty. It
holds in one direction (`HalvesCover`), for which the next level must have twice as many columns
(`ExtentDoubles`, by counting subsets, since the provers know nothing of powers), and
`SubIdentifiersAre` says that the tests of the code leave out exactly the squares
beyond the edge.

### HttpConnectionProofs

For any sets of workers, connections and areas, any `TileOf` and any limit of the queue,
under `ConnectionAssumption`:

- `TypeCorrect`: `Spec => []TypeOK`;
- `SocketsAreRegistered`: `Spec => []Registered`;
- `ConnectionsAreHeld`: `Spec => []OneHolder`;
- `EndsAreCaused`: `Spec => []EndsForCause`.

`TypeOK` needs `ThreadOK`, what a thread holds at the step it is at: a request exactly while it
answers, an area from taking a request to the end of its job. `Registered` and `OneHolder` need
each other. That an accepted socket is still open when its handler runs needs that it has no
operation yet (`Incoming`); that it has none needs that nobody had it before its client
came (`LifeOf`), which needs the sockets. `LifeOf` tells a connection's life: it is in one
kind of place; once it is answered nothing but its write is left, so that no worker ever finds
it answered already (`FillAnswers`); it is somewhere while it is registered, and has an aborted
operation only after `quit`, when none is registered. `Distinct` adds that no place of one
kind is taken twice. `PlaceQuiet` covers the steps in which nobody moves, and one lemma each
the seven that move a connection. For `EndsForCause` there is `ImageInv`: tiles of jobs have
their image when an answer begins, and the default tile in use has its image or a
thread that is about to read it; only another one, made at the same time, never has.

### StylesheetLoadingProofs

For every set of stylesheets, of hidden ones and every `MaxEdits`, under
`StylesheetAssumption`:

- `Invariance`: `Spec => []IInv`;
- `TypeCorrect`: `Spec => []TypeOK`, with the discipline of the one load;
- `ImplementsTable`: `Spec => KeepsPromise`, the refinement of `StylesheetTable`;
- `DeathHasCause`: `Spec => []DiesForCause`.

`TypeOK` says that a load of the main thread implies the scan, and a load of the handler
the handler's running. Neither is inductive: that the handler cannot start a load during
the scan needs `Control`, by which the monitor has no operation before the watch or after
the join. `Control` adds that a load that has opened its file has read that file, which is
what the table is given, and that the pointer to the monitor is null only while the main
thread joins. `FilesStay` is the invariant behind `DiesForCause`: while nothing was
removed, every file that is reported, being handled or about to be opened exists. There is
one lemma for each thread (`AuthorsStep`, `MainStep`, `MonitorStep`, `LoadStep`), and for
the refinement one that says which step of the table each of its actions is
(`AuthorsEdit`: `Edit`; `MainKeepsPromise`: `Provide`; `MonitorKeepsPromise`: `Drop`;
`LoadKeepsPromise`: `Open` and `Install`).

### RenderingProofs

For every finite set of workers and of meta tiles, any stylesheets, tiles, `CacheSize`,
`MaxLoads` and `Events`, whether the cache path ends in a slash or not, under
`CacheAssumption` and `RenderingAssumption`:

- `Invariance`: `Spec => []RenderingInv`;
- `IteratorsValid`: `Spec => []EntriesLive`;
- `RightPictures`: `Spec => []AnswersShowTile`;
- `NoOldTilesInMemory`: `Spec => []MemoryTilesFresh`, if `"added"` is not in `Events`.

`RenderingInv` has three parts, each inductive with those before it.

`Types` is the types, with `Locked` (only the worker inside `getTile` has `GlobalCacheLock`;
the map it looks its tile up in is the one of its stylesheet or one that `deleteTiles` has
dropped) and `Places` (where a job is, and how many of its tiles it has got).

`EntryInv` is `EntriesLive` and what makes it inductive: entries lead to the list also in the map
that a `getTile` still works on when `deleteTiles` drops it from `AllCaches`. That such a map
stays sound rests on the lock: between `find` and `push_front` nobody else evicts. Afterwards it
is not needed any more, because the eviction looks the map up again. The list has each
tile once (`Once`), and the three things that happen to it, a new first element, a tile that
moves to the front, the last one that leaves, are the lemmas `PushedList`, `MovedList` and
`PoppedList`.

`ShowInv` is what pictures show. `Pictures`: the picture of a tile, in memory or in its file, is
of the meta tile it belongs to, or, for an empty tile, of one without data. `JobsInv`: a job
has got its tiles in their order, what is on its canvas is its own meta tile, and while
`allRendered` is set, every tile it has got had a picture. This is an invariant only because
a picture is never taken away from a tile in use (`StaysRendered`), and that is the reason why
a job that finds its tiles rendered may answer with them without a canvas.

`MemoryInv` says, of every entry above the low zoom levels, that neither its picture nor a
canvas it may still be cut from is out of date; while the stylesheet is between the two halves of
its change there is no such entry. It needs `Undrawn`: a job with data draws after it has got
its tiles, so that the tile it cuts from an old canvas is one that `deleteTiles` has
dropped. The tile without data is drawn before it is got, which is finding 3, and is a low
one. The hypothesis excludes finding 5, for which `cache_added` shows that the property fails.

**How long the list becomes.** Under the same assumptions:

- `BoundedList`: `Spec => []CacheBounded`;
- `TypeCorrectness`: `Spec => []TypeOK`, if `MaxCopies > MaxLength + Cardinality(Workers) + 2`.

That the list exceeds `CacheSize` by at most `LowInHand`, the low tiles that all jobs can have
in hand, is a bound one may expect, but an attempt to prove it fails: with two workers that draw
three meta tiles of two low tiles each and `CacheSize` 1, TLC finds a list of six, one more.
A `getTile` that meets an unrendered tile at the back moves it to the front and stops, so
that rendered tiles behind which it was go on waiting. `MaxLength` is
`LowInHand + max(CacheSize, LowInHand)`, which is the same as before when the cache is
larger than what the jobs have in hand: by default (1024 tiles, 16 in a meta tile) with up to
64 workers.

The argument gives the tile at place `p` of the list the weight of `p` plus twice the number
of unfinished tiles behind it (`Weights`): one call of `getTile` moves a tile on by one place for the
new tile and by another one when it puts an unfinished tile from the back to the front, and
then there is one less behind. A tile at the front weighs no more than one place and all
unfinished tiles of the list, twice, and that they are at most
`LowInHand` is the counting lemma `UnfinishedInHand`, which needs `HandInv`: an unfinished
tile in the list is in the hand of the worker that draws it. This needs in turn
`DeliveredInv`, that a job which ends leaves none of its tiles without a picture. `BoundInv` says
that no weight exceeds `MaxLength` outside the eviction, and `MaxLength + 1` in it; the last tile's
weight is the length of the list.

For `TypeCorrectness` an identifier's objects are counted: those in the list, among them all
entries of `AllCaches`, one in a map that was dropped while `getTile` works on it
(`CacheIds`), and one for each worker (`OnePerJob`).

### TileRequestProofs

For any scenarios of pieces of characters and urls of texts (`ScenarioAssumption`), any
`MaxZoom` and any `IntBits > 0` (`UrlAssumption`):

- `RequestsAreParsed`: `RequestSpec => []ParsesRequests`;
- `UrlsNameTiles`: `RequestSpec => []UrlNamesTile`;

and, of the parser alone, `AcceptsRequests`.

**The parser.** `AcceptsRequests` says of every text, without a bound on its length: the
parser accepts it if and only if it begins with a request of the grammar (`Request`, which
reads a text as a whole: a request line, headers and lines that continue them, an empty
line).

The grammar speaks of parts of a text, the parser of the next character. In between are sets of
places: for each state of the parser the places of the text where it is in that state
(`AtMethod`, `AtUri`, ...). `ReadsOn` shows that they follow from each other as the
tables of the parser do, which makes "the state after k characters is s" the same as "k is a
place of s" (`ReadsAll`, by induction over k). On the other side, the places are told by
the parts that the text has before them: `FirstLineHasParts`, `HeaderHasParts` and
`ContHasParts`, each with the lemma that these parts are what the grammar calls a request
line, a header and a continuation. Lines go in a circle: a header begins where the parser has
read the line before, which it has where that line began. The sets are therefore defined
for any set of places where lines begin (`LinesBegin`), and `LinesDoBegin` shows that
the grammar's own (`LineStarts`, behind each line end) are such places, which rests on `NoEndInside`:
no line end hides inside a line. With `RequestByStarts`, the grammar told
with these places, the two sides meet in `EndsRequest`.

`ParseGoesOn` says that parsing a text in two parts is parsing the whole.

**The specification.** The invariant of the first theorem is `ReadInv`: the parser is where
`Parse` of all that has come is. `ParseGoesOn` keeps it, `FlattenBegins` says that what has
come begins what will have come, and `AcceptsRequests` gives the property. The invariant of
the second, `TileInv`, is that a tile is what `Create` makes of the url. `NumberIsSpelled` then says that the int that is
computed digit by digit with overflow is the number that the text spells, if that
one fits: both are congruent modulo 2^IntBits all along the fold (`DigitsRead`), and two
numbers of an int that are congruent are the same (`CongruentInInt`). `CreateCases` and
`UrlSpells` do the rest, from the order of the tests in `Create`.

`RequestSpec` is what the theorems are about; the run `map_pipeline` checks both
properties of `MapPipeline`, which has the same actions.

### TreeSearchProofs

For any sequence of rectangles, any `LeafElements > 0` and `NUM_CHILDREN > 1`
(`TreeAssumption`) and any rectangle that is asked for:

- `TreeIsSearched`: `search` in the tree that `build` makes lists the objects that touch the
  rectangle, each once;
- `TreeIsAsked`: `TreeContains` holds just when there is one.

`Lists(s, S)` says that `s` has the elements of `S`, each in one place. The leaves list all
objects (`LeavesListAll`): sorting lists what it sorts (`SortedLists`), the pieces of a
sequence have its elements (`ListChunks`), and end to end they list them again (`FlattenLists`).
A tree is a map from its nodes to the sets of objects that belong to them, `part`. While it grows,
the nodes of the newest level share all objects among them, each node's bounding boxes
contain its objects (`WithinNode`), and a child comes before its parent; these are `Grown`, which
`NextLevel` keeps. Since a node has more than one child the levels become narrower
(`FewerAbove`), and so the fold ends with one node to which all objects belong (`LevelsEnd`).
`TurnedTree` turns this round: the root is first, children come after their parents and
a leaf is read at the place it was written (`ReadsLeaf`), which with the index arithmetic is
`TreeOK`. Because children come later the recursive functions exist (`WalkExists`, by
induction from the last node), and `WalkLists` says once, for `getSubTree` and
for `search`, that a walk lists what is wanted when what it takes at each place does. `MetBelow` gives
what a node may conclude from the box of an entry: nothing below it touches the rectangle when
the box does not, everything does when the box is inside. It rests on `RectangleTests`,
which says what the strict and non-strict comparisons of the code amount to.

### TileSearchProofs

For any documents (`DocumentAssumption`: entities of any ids, places and texts, in any number),
any bounds, and any sizes of pages, blocks, leaves, nodes and meta tiles (`StoreAssumption`,
`TreeAssumption`, `WordAssumption`), under those of `TileRequestProofs`:

- `SearchServesRequests`: `SearchSpec => RequestSpec`;
- `ReferencesAreKept`: `SearchSpec => []GeoOK(Read(parser))`, where `GeoOK` says that the
  nodes of ways and the members of relations are among the objects that are kept, and that no
  way and no relation is without any;
- `ObjectsAreFound`: `SearchSpec => []SearchExact`.

The inductive invariant is `SearchInv`. It says of the importer that its references lead to
its objects (`ParserOK`); of the file, while it is the file's turn, that it is what saving these
objects makes; of the server that it has what loading such a file gives; and of the job from the
match on that it has found what is on its meta tile, or that the tile is empty when nothing is.
`SearchExact` alone is not inductive, since it speaks of the data that were loaded and nothing in
it says that their trees belong to their objects.

- **The importer.** An id is put into the maps only together with its object, and never moved, so
  that lists that grow keep all references good (`TypesGrow`, `SeqGrows`); `NodeAdded`,
  `WayAdded` and `RelationAdded` are the three cases. Reading properties leaves the objects
  alone and collects good references only, also when it is cut short by one that does not
  resolve (`PropertiesRead`, by induction over the properties).
- **The file.** The regions of an archive have the files that were added, each its own
  (`ArchiveRead`, by induction over the files: a page that begins never overlaps what is
  there, and padding keeps it). From this, `SavedIsLoaded`: `load(save(geo))` has the objects, the
  trees and the leaves of `geo`. That data are read where they were written rests on the
  order in which trees are saved and read being the same (`OrderedLists`).
- **The boxes.** The rectangle of an object with good references is a rectangle
  (`BoxesAreRects`), which the trees need of it. This is where it matters that ways without nodes
  and relations without members are dropped: the box of nothing would be made of a
  key that is not there.
- **The job.** The rectangle of a meta tile is a rectangle (`JobAsksForRect`, which needs
  that tiles grow by their overlap and powers of two are positive). `JobFinds` puts these
  together with `TreeIsSearched` and `TreeIsAsked`.

The run `map_pipeline` checks `SearchExact` of `MapPipeline`, whose steps are steps of
`SearchSpec`.

### FoldLemmas

The operators of the community modules that the models use are defined by `CHOOSE` over
functions (`MapThenFoldSet` under `FoldLeft`, `FlattenSeq`). The library has theorems about
neither; these lemmas give what is chosen: the function of a fold exists (`FoldExists`, by
induction over the places, with `SetInduction`), and `FlattenSeq` puts sequences end to end
(`FlattenExists`, `FlattenPlaces`), each element in exactly one place. `PowerDoubles` gets the powers
of two from the number of subsets, because the provers know nothing of powers.

### What is not proved

Only model-checked are

- all liveness properties (`ServiceAnswers`, `PrerenderCovers`, `Served`, `ShutsDown`,
  `LockReleased`, `StopEnds`, `Converges`), because the prover has no support for fairness;
- that each step of `MapPipeline` is one of `SearchSpec`: its actions are built from those of
  `TileSearch`, but the module reaches RECURSIVE operators, about which the prover can say
  nothing;
- of the pipeline, `TypeOK`, `ReadsAsWritten`, `ImportsDocument`, `StylesMatch`,
  `EvaluatesAsWritten`, `DrawnInOrder`, `LabelsApart`, `RingsClosed`, `SlicesShowTile` and
  `BorderLabelsWhole`. They speak of documents, stylesheets, expressions and pictures whose
  operators are recursive as the grammars and nested elements are, so that a proof would
  be an induction over that data. `TreeSearchProofs` does one by hand, over the
  places in a tree; the others stay with TLC.

The theorems about trees and files hold for every size, but of the model's numbers:
coordinates are integers and the projection is linear.

## 7. What is not modelled

- Exceptions of the file system in `getTile` and `writeFile`, which would leave
  `GlobalCacheLock` locked (cache.cpp:112), and tile files that are written in part
  (cache.cpp:72); both are hazards without a property. Those of answering are in
  `HttpConnection`, those of parsing threads in `StylesheetLoading`.
- What a data race inside one access to a socket, a `shared_ptr` or a container may do. The
  access of `FindCache` is `find` and the use of its iterator (cache.cpp:103-106): what
  `deleteTiles` erases between the two is freed memory, which has no next state.
- The projection in floating point, Cairo, and the shape of lines (dashes, caps, images):
  a mark says that something is drawn, not its pixels. Nothing in the checks rests on them.
- The characters of MapCSS tokens: comments, colours, `url(...)` and identifiers are
  Boost Spirit's work below the tokens.
- `StringStorage`'s upgrade of its lock (cached_string.cpp:38): the table is modelled as one
  thread sees it, equal hashes included.
- `Statistic` and logging, which no other part depends on.
- Data nodes, comments and validation of the xml parser that the importer does not ask for;
  their texts are read past.
- The directory monitors for other operating systems.
- `Configuration`'s options one by one; only what ends the program or starts it.

## 8. Running

    tlc -workers 2 -config MCRequestManager_safety.cfg MCRequestManager
    tlc -workers 2 -config MCRendering_safety.cfg MCRendering
    tlc -workers 2 -config MCHttpConnection_safety.cfg MCHttpConnection
    tlc -workers 2 -config MCStylesheetLoading_stylesheets.cfg MCStylesheetLoading
    tlc -workers 2 -config MCMapPipeline_map_pipeline.cfg MCMapPipeline
    tlapm RequestManagerProofs.tla
    tlapm StylesheetLoadingProofs.tla
    tlapm HttpConnectionProofs.tla
    tlapm RenderingProofs.tla
    tlapm FoldLemmas.tla
    tlapm TileRequestProofs.tla
    tlapm TreeSearchProofs.tla
    tlapm TileSearchProofs.tla

The first two runs have about 1.6 million states each and take one to two minutes, and so
does the third, which checks liveness over 240 000 states. The fourth has 550 000 states and
takes a minute, the fifth 100 320 states, most of whose work is in the operators, and
a minute. The proofs take about a quarter of an hour.
