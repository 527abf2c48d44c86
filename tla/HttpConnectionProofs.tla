------------------------- MODULE HttpConnectionProofs -------------------------
(***************************************************************************)
(* Theorems about HttpConnection for any number of workers, clients and    *)
(* areas, and any limit of the queue.                                      *)
(***************************************************************************)
EXTENDS HttpConnection, FiniteSetTheorems, SequenceTheorems, TLAPS

Labels == {"run", "join", "stopped", "idle", "render", "deliver", "draw", "respond"}
          \cup Answering
LabelsOf(th) == Answering \cup IF th = Net THEN {"run", "join", "stopped"}
                               ELSE {"idle", "render", "deliver", "draw", "respond"}
Objects == Tiles \cup Threads

\* The parts of TypeOK.
NetTypes   == /\ acceptor \in BOOLEAN /\ signalled \in BOOLEAN
              /\ accept \in {"none", "pending", "ok", "error", "aborted"}
              /\ nextRequest \in Connections \cup {NoConnection}
              /\ requests \subseteq Connections
ConnTypes  == /\ open \subseteq Connections
              /\ peer \in [Connections -> {"none", "there", "left"}]
              /\ op \in [Connections -> Completed \cup {"none", "read", "write"}]
ReplyTypes == /\ answered \in [Connections -> BOOLEAN]
              /\ reply \in [Connections -> [tile : Objects \cup {NoTile},
                                            size : Nat, body : Nat]]
QueueTypes == queue \in Seq(Connections) /\ Len(queue) <= MaxQueue
TileTypes  == DefaultTile \in Threads \cup {NoTile} /\ image \in [Objects -> Nat]
PcTypes    == pc \in [Threads -> Labels] /\ \A th \in Threads : pc[th] \in LabelsOf(th)
HandTypes  == /\ cur \in [Threads -> Connections \cup {NoConnection}]
              /\ tile \in [Threads -> Objects \cup {NoTile}]
              /\ area \in [Workers -> Areas \cup {NoArea}]
              /\ attached \in [Workers -> SUBSET Connections]
Types == /\ NetTypes /\ ConnTypes /\ ReplyTypes /\ QueueTypes /\ TileTypes /\ PcTypes
         /\ HandTypes /\ ended \in {"no", "no image", "no endpoint"}

\* What a thread has at the step it is at.
ThreadOK ==
    /\ \A th \in Threads : pc[th] \in Answering <=> cur[th] # NoConnection
    /\ \A th \in Threads : pc[th] = "fill" => tile[th] \in Objects
    /\ \A th \in Threads : pc[th] = "load" => DefaultTile \in Threads
    /\ \A th \in Threads : pc[th] = "write" => reply[cur[th]].tile \in Objects
    /\ \A w \in Workers : pc[w] = "idle" => area[w] = NoArea
    /\ \A w \in Workers : area[w] = NoArea => attached[w] = {}
    /\ \A w \in Workers :
          pc[w] \in {"render", "deliver", "draw", "respond"} => area[w] \in Areas
    /\ accept = "ok" => nextRequest \in Connections
-----------------------------------------------------------------------------
\* What a step leaves alone, part by part.
LEMMA Frames ==
    /\ UNCHANGED netVars => /\ acceptor' = acceptor /\ accept' = accept
                            /\ nextRequest' = nextRequest /\ requests' = requests
                            /\ signalled' = signalled
    /\ UNCHANGED connVars => open' = open /\ peer' = peer /\ op' = op
    /\ UNCHANGED replyVars => answered' = answered /\ reply' = reply
    /\ UNCHANGED tileVars => DefaultTile' = DefaultTile /\ image' = image
    /\ UNCHANGED jobVars => area' = area /\ attached' = attached
    /\ UNCHANGED threadVars => pc' = pc /\ cur' = cur /\ tile' = tile
BY DEF netVars, connVars, replyVars, tileVars, jobVars, threadVars

\* The types as the proofs need them imply the checked ones.
LEMMA TypesSuffice == Types => TypeOK
<1>1. pc[Net] \in LabelsOf(Net) => pc[Net] \in {"run", "join", "stopped"} \cup Answering
  BY DEF LabelsOf
<1>2. ASSUME NEW w \in Workers, pc[w] \in LabelsOf(w)
      PROVE  pc[w] \in {"idle", "render", "deliver", "draw", "respond"} \cup Answering
  BY <1>2, ConnectionAssumption DEF LabelsOf
<1> QED
  BY <1>1, <1>2 DEF Types, TypeOK, NetTypes, ConnTypes, ReplyTypes, QueueTypes, TileTypes,
     PcTypes, HandTypes, Objects, Threads

\* The initial state has them.
LEMMA TypesInit == Init => Types
<1> SUFFICES ASSUME Init PROVE Types
  OBVIOUS
<1> USE ConnectionAssumption DEF Init
<1>1. NetTypes /\ ConnTypes
  BY DEF NetTypes, ConnTypes
<1>2. ReplyTypes
  BY DEF ReplyTypes
<1>3. QueueTypes
  BY DEF QueueTypes
<1>4. TileTypes
  BY DEF TileTypes, Objects
<1>5. PcTypes
  BY DEF PcTypes, Labels, LabelsOf, Threads
<1>6. HandTypes
  BY DEF HandTypes
<1> QED
  BY <1>1, <1>2, <1>3, <1>4, <1>5, <1>6 DEF Types

\* A part of the types stays when its variables do.
LEMMA TypeFrames ==
    ASSUME Types
    PROVE  /\ UNCHANGED netVars => NetTypes'
           /\ UNCHANGED connVars => ConnTypes'
           /\ UNCHANGED replyVars => ReplyTypes'
           /\ UNCHANGED queue => QueueTypes'
           /\ UNCHANGED tileVars => TileTypes'
           /\ UNCHANGED pc => PcTypes'
           /\ UNCHANGED <<cur, tile, jobVars>> => HandTypes'
BY Frames DEF Types, NetTypes, ConnTypes, ReplyTypes, QueueTypes, TileTypes, PcTypes, HandTypes

\* One thread goes on to a label of its own.
LEMMA Moves ==
    ASSUME PcTypes, NEW th \in Threads, NEW l \in LabelsOf(th), Goto(th, l)
    PROVE  /\ PcTypes'
           /\ pc'[th] = l
           /\ \A u \in Threads \ {th} : pc'[u] = pc[u]
<1>1. l \in Labels
  BY DEF Labels, LabelsOf
<1>2. pc' = [pc EXCEPT ![th] = l] /\ pc \in [Threads -> Labels]
  BY DEF Goto, PcTypes
<1> QED
  BY <1>1, <1>2 DEF PcTypes

\* An operation starts, or fails at once.
LEMMA Starts ==
    ASSUME ConnTypes, NEW r \in Connections, NEW kind \in {"read", "write"}, Started(r, kind)
    PROVE  /\ op' \in [Connections -> Completed \cup {"none", "read", "write"}]
           /\ op'[r] \in {kind, Failed[kind]} /\ op'[r] # "none" 
           /\ \A c \in Connections \ {r} : op'[c] = op[c]
BY DEF Started, Failed, ConnTypes, Completed, Received

\* After an answer the thread has no request and is where it was before.
LEMMA Returns ==
    ASSUME PcTypes, HandTypes, NEW th \in Threads, Return(th)
    PROVE  /\ PcTypes'
           /\ pc'[th] = IF th = Net THEN "run" ELSE IF area[th] = NoArea THEN "idle"
                                                                      ELSE "respond"
           /\ cur' \in [Threads -> Connections \cup {NoConnection}]
           /\ cur'[th] = NoConnection
           /\ tile' \in [Threads -> Objects \cup {NoTile}]
           /\ \A u \in Threads \ {th} : pc'[u] = pc[u] /\ cur'[u] = cur[u] /\ tile'[u] = tile[u]
<1> DEFINE l == IF th = Net THEN "run" ELSE IF area[th] = NoArea THEN "idle" ELSE "respond"
<1>1. l \in LabelsOf(th) /\ Goto(th, l)
  BY DEF LabelsOf, Return
<1> HIDE DEF l
<1>2. PcTypes' /\ pc'[th] = l /\ \A u \in Threads \ {th} : pc'[u] = pc[u]
  BY <1>1, Moves
<1>3. /\ cur' = [cur EXCEPT ![th] = NoConnection] /\ tile' = [tile EXCEPT ![th] = NoTile]
      /\ cur \in [Threads -> Connections \cup {NoConnection}]
      /\ tile \in [Threads -> Objects \cup {NoTile}]
  BY DEF Return, HandTypes
<1> QED
  BY <1>2, <1>3 DEF l

\* The front of the queue is taken.
LEMMA QueueTail ==
    ASSUME QueueTypes, queue # << >>, queue' = Tail(queue)
    PROVE  /\ QueueTypes' /\ Head(queue) \in Connections /\ Head(queue) = queue[1]
           /\ DOMAIN queue = 1 .. Len(queue) /\ 1 \in DOMAIN queue
           /\ \A i \in DOMAIN queue' : i + 1 \in DOMAIN queue /\ queue'[i] = queue[i + 1]
                                       /\ i \in Int /\ i >= 1
           /\ \A i \in DOMAIN queue : i # 1 => i - 1 \in DOMAIN queue'
                                               /\ queue'[i - 1] = queue[i]
<1>1. queue \in Seq(Connections) /\ Len(queue) \in Nat /\ Len(queue) >= 1
      /\ DOMAIN queue = 1 .. Len(queue)
  BY DEF QueueTypes
<1>2. queue' \in Seq(Connections) /\ Len(queue') = Len(queue) - 1
      /\ DOMAIN queue' = 1 .. Len(queue) - 1 /\ Head(queue) = queue[1]
      /\ \A i \in 1 .. Len(queue) - 1 : queue'[i] = queue[i + 1]
  BY <1>1, HeadTailProperties
<1>3. MaxQueue \in Nat /\ Len(queue) <= MaxQueue
  BY ConnectionAssumption DEF QueueTypes
<1>4. QueueTypes'
  BY <1>1, <1>2, <1>3 DEF QueueTypes
<1>5. \A i \in DOMAIN queue : i # 1 => i - 1 \in 1 .. Len(queue) - 1 /\ (i - 1) + 1 = i
  BY <1>1
<1> QED
  BY <1>1, <1>2, <1>4, <1>5

\* The queue gets an entry within its limit.
LEMMA QueueAppend ==
    ASSUME QueueTypes, ~QueueFull, NEW r \in Connections, queue' = Append(queue, r)
    PROVE  /\ QueueTypes'
           /\ \A i \in DOMAIN queue' : \/ i \in DOMAIN queue /\ queue'[i] = queue[i]
                                       \/ i = Len(queue) + 1 /\ queue'[i] = r
           /\ \A i \in DOMAIN queue : i \in DOMAIN queue' /\ queue'[i] = queue[i]
           /\ Len(queue) + 1 \in DOMAIN queue' /\ queue'[Len(queue) + 1] = r
<1>1. queue \in Seq(Connections) /\ Len(queue) \in Nat /\ DOMAIN queue = 1 .. Len(queue)
  BY DEF QueueTypes
<1>2. Len(queue) < MaxQueue /\ MaxQueue \in Nat
  BY <1>1, ConnectionAssumption DEF QueueFull
<1>3. queue' \in Seq(Connections) /\ Len(queue') = Len(queue) + 1
      /\ DOMAIN queue' = 1 .. Len(queue) + 1
      /\ \A i \in 1 .. Len(queue) : queue'[i] = queue[i]
      /\ queue'[Len(queue) + 1] = r
  BY <1>1, AppendProperties
<1>4. QueueTypes'
  BY <1>1, <1>2, <1>3 DEF QueueTypes
<1> QED
  BY <1>1, <1>3, <1>4

\* An image is set once more.
LEMMA ImageSet ==
    ASSUME TileTypes, NEW t \in Objects, image' = [image EXCEPT ![t] = @ + 1]
    PROVE  /\ image' \in [Objects -> Nat]
           /\ image'[t] # 0 /\ \A u \in Objects : image[u] # 0 => image'[u] # 0
<1>1. image \in [Objects -> Nat] /\ image[t] \in Nat
  BY DEF TileTypes
<1>2. image[t] + 1 \in Nat /\ image[t] + 1 # 0
  BY <1>1
<1> QED
  BY <1>1, <1>2

\* Every step keeps the types.
LEMMA TypeStep ==
    ASSUME Types, ThreadOK, [Next]_vars
    PROVE  Types'
<1> USE DEF Types
<1>1. CASE UNCHANGED vars
  BY <1>1, TypeFrames DEF vars, threadVars
<1>2. CASE Connect
  <2>1. NetTypes'
    BY <1>2 DEF Connect, NetTypes
  <2>2. ConnTypes'
    BY <1>2 DEF Connect, ConnTypes, NetTypes
  <2> QED
    BY <1>2, <2>1, <2>2, TypeFrames DEF Connect, threadVars
<1>3. CASE AcceptFails \/ Signal
  <2>1. NetTypes'
    BY <1>3 DEF AcceptFails, Signal, NetTypes
  <2> QED
    BY <1>3, <2>1, TypeFrames DEF AcceptFails, Signal, threadVars
<1>4. ASSUME NEW r \in Connections, Completes(r) \/ ClientLeaves(r) PROVE Types'
  <2>1. ConnTypes'
    BY <1>4 DEF Completes, ClientLeaves, ConnTypes, Completed
  <2> QED
    BY <1>4, <2>1, TypeFrames DEF Completes, ClientLeaves, threadVars
<1>5. CASE HandleAccept
  <2>1. NetTypes'
    <3>1. CASE ~acceptor
      BY <1>5, <3>1 DEF HandleAccept, NetTypes
    <3>2. CASE acceptor /\ accept = "ok"
      <4>1. /\ requests' = requests \cup {nextRequest} /\ accept' = "pending"
            /\ nextRequest' \in Connections \cup {NoConnection}
            /\ UNCHANGED <<acceptor, signalled>>
        BY <1>5, <3>2 DEF HandleAccept
      <4> QED
        BY <3>2, <4>1 DEF NetTypes, ThreadOK
    <3>3. CASE acceptor /\ accept # "ok"
      BY <1>5, <3>3 DEF HandleAccept, NetTypes
    <3> QED
      BY <3>1, <3>2, <3>3 DEF NetTypes
  <2>2. ConnTypes'
    <3>1. UNCHANGED <<open, peer>>
      BY <1>5 DEF HandleAccept
    <3>2. ASSUME acceptor, accept = "ok" PROVE ConnTypes'
      <4>1. Started(nextRequest, "read")
        BY <1>5, <3>2 DEF HandleAccept
      <4>2. nextRequest \in Connections
        BY <3>2 DEF ThreadOK
      <4> QED
        BY <3>1, <4>1, <4>2, Starts DEF ConnTypes
    <3>3. ASSUME ~(acceptor /\ accept = "ok") PROVE op' = op
      BY <1>5, <3>3 DEF HandleAccept
    <3> QED
      BY <3>1, <3>2, <3>3 DEF ConnTypes
  <2> QED
    BY <1>5, <2>1, <2>2, TypeFrames DEF HandleAccept, threadVars
<1>6. ASSUME NEW r \in Connections, HandleRequest(r) PROVE Types'
  <2>1. ConnTypes'
    BY <1>6 DEF HandleRequest, ConnTypes
  <2>2. CASE queue' = Append(queue, r) /\ ~QueueFull /\ UNCHANGED <<pc, cur>>
    <3>1. QueueTypes'
      BY <2>2, QueueAppend
    <3> QED
      BY <1>6, <2>1, <2>2, <3>1, TypeFrames DEF HandleRequest, threadVars
  <2>3. CASE cur' = [cur EXCEPT ![Net] = r] /\ Goto(Net, "default") /\ UNCHANGED queue
    <3>1. PcTypes'
      BY <2>3, Moves DEF Threads, LabelsOf, Answering
    <3>2. HandTypes'
      BY <1>6, <2>3, Frames DEF HandTypes, HandleRequest
    <3> QED
      BY <1>6, <2>1, <2>3, <3>1, <3>2, TypeFrames DEF HandleRequest
  <2> QED
    BY <1>6, <2>2, <2>3 DEF HandleRequest
<1>7. ASSUME NEW r \in Connections, HandleMore(r) PROVE Types'
  <2>1. ConnTypes'
    BY <1>7, Starts DEF HandleMore, ConnTypes
  <2> QED
    BY <1>7, <2>1, TypeFrames DEF HandleMore, threadVars
<1>8. ASSUME NEW r \in Connections, HandleEnd(r) PROVE Types'
  <2>1. ConnTypes' /\ NetTypes'
    BY <1>8 DEF HandleEnd, StopRequest, ConnTypes, NetTypes
  <2> QED
    BY <1>8, <2>1, TypeFrames DEF HandleEnd, threadVars
<1>9. CASE Quit
  <2>1. ConnTypes'
    BY <1>9 DEF Quit, Aborted, ConnTypes, Completed
  <2>2. NetTypes'
    BY <1>9 DEF Quit, NetTypes
  <2> QED
    BY <1>9, <2>1, <2>2, TypeFrames DEF Quit, threadVars
<1>10. CASE ListenReturns \/ Joined
  <2>1. PcTypes'
    BY <1>10, Moves DEF ListenReturns, Joined, Threads, LabelsOf
  <2> QED
    BY <1>10, <2>1, TypeFrames DEF ListenReturns, Joined
<1>11. ASSUME NEW th \in Threads, FindDefault(th) PROVE Types'
  <2>1. PcTypes'
    BY <1>11, Moves DEF FindDefault, LabelsOf, Answering
  <2>2. HandTypes'
    BY <1>11, Frames DEF FindDefault, HandTypes, TileTypes, Objects
  <2> QED
    BY <1>11, <2>1, <2>2, TypeFrames DEF FindDefault
<1>12. ASSUME NEW th \in Threads, CreateDefault(th) PROVE Types'
  <2>1. PcTypes'
    BY <1>12, Moves DEF CreateDefault, LabelsOf, Answering
  <2>2. TileTypes'
    BY <1>12 DEF CreateDefault, TileTypes
  <2> QED
    BY <1>12, <2>1, <2>2, TypeFrames DEF CreateDefault
<1>13. ASSUME NEW th \in Threads, LoadDefault(th) PROVE Types'
  <2>1. PcTypes'
    BY <1>13, Moves DEF LoadDefault, LabelsOf, Answering
  <2>2. TileTypes'
    BY <1>13, ImageSet DEF LoadDefault, TileTypes, ThreadOK, Objects
  <2>3. HandTypes'
    BY <1>13, Frames DEF LoadDefault, HandTypes, TileTypes, Objects
  <2> QED
    BY <1>13, <2>1, <2>2, <2>3, TypeFrames DEF LoadDefault
<1>14. ASSUME NEW th \in Threads, Fill(th) PROVE Types'
  <2>1. cur[th] \in Connections /\ tile[th] \in Objects /\ image[tile[th]] \in Nat
    BY <1>14, ConnectionAssumption DEF Fill, ThreadOK, Answering, HandTypes, TileTypes
  <2>2. CASE Return(th) /\ UNCHANGED <<reply, ended>>
    <3>1. HandTypes' /\ PcTypes'
      BY <1>14, <2>2, Returns, Frames DEF Fill, HandTypes
    <3> QED
      BY <1>14, <2>2, <3>1, TypeFrames DEF Fill, replyVars
  <2>3. CASE ended' \in {"no image", "no endpoint"} /\ UNCHANGED <<reply, threadVars>>
    BY <1>14, <2>3, TypeFrames DEF Fill, replyVars, threadVars
  <2>4. CASE /\ reply' = [reply EXCEPT ![cur[th]].tile = tile[th], ![cur[th]].size = image[tile[th]]]
             /\ Goto(th, "write") /\ UNCHANGED <<ended, cur, tile>>
    <3>1. PcTypes'
      BY <2>4, Moves DEF LabelsOf, Answering
    <3>2. ReplyTypes'
      BY <1>14, <2>1, <2>4 DEF Fill, ReplyTypes
    <3> QED
      BY <1>14, <2>4, <3>1, <3>2, TypeFrames DEF Fill
  <2> QED
    BY <1>14, <2>2, <2>3, <2>4 DEF Fill
<1>15. ASSUME NEW th \in Threads, Write(th) PROVE Types'
  <2>1. cur[th] \in Connections /\ reply[cur[th]].tile \in Objects
        /\ image[reply[cur[th]].tile] \in Nat
    BY <1>15, ConnectionAssumption DEF Write, ThreadOK, Answering, HandTypes, TileTypes
  <2>2. ReplyTypes'
    BY <1>15, <2>1 DEF Write, ReplyTypes
  <2>3. ConnTypes'
    BY <1>15, <2>1, Starts DEF Write, ConnTypes
  <2>4. HandTypes' /\ PcTypes'
    BY <1>15, Returns, Frames DEF Write, HandTypes
  <2> QED
    BY <1>15, <2>2, <2>3, <2>4, TypeFrames DEF Write
<1>16. ASSUME NEW w \in Workers, TakeBad(w) PROVE Types'
  <2>1. QueueTypes' /\ Head(queue) \in Connections
    BY <1>16, QueueTail DEF TakeBad
  <2>2. PcTypes'
    BY <1>16, Moves DEF TakeBad, LabelsOf, Answering, Threads
  <2>3. HandTypes'
    BY <1>16, <2>1, Frames DEF TakeBad, HandTypes
  <2> QED
    BY <1>16, <2>1, <2>2, <2>3, TypeFrames DEF TakeBad
<1>17. ASSUME NEW w \in Workers, NEW a \in Areas, Take(w, a) PROVE Types'
  <2>1. QueueTypes' /\ Head(queue) \in Connections
    BY <1>17, QueueTail DEF Take
  <2>2. PcTypes'
    <3>1. "render" \in LabelsOf(w) /\ w \in Threads
      BY ConnectionAssumption DEF LabelsOf, Threads
    <3> QED
      BY <1>17, <3>1, Moves, TypeFrames DEF Take
  <2>3. HandTypes'
    <3>1. UNCHANGED <<cur, tile>>
      BY <1>17 DEF Take
    <3>2. attached' \in [Workers -> SUBSET Connections]
      <4>1. \/ \E v \in Workers : attached' = [attached EXCEPT ![v] = @ \cup {Head(queue)}]
            \/ attached' = [attached EXCEPT ![w] = {Head(queue)}]
        BY <1>17 DEF Take, Rendering
      <4>2. attached \in [Workers -> SUBSET Connections] /\ Head(queue) \in Connections
        BY <2>1 DEF HandTypes
      <4> QED
        BY <4>1, <4>2
    <3>3. area' \in [Workers -> Areas \cup {NoArea}]
      BY <1>17 DEF Take, HandTypes
    <3> QED
      BY <3>1, <3>2, <3>3 DEF HandTypes
  <2> QED
    BY <1>17, <2>1, <2>2, <2>3, TypeFrames DEF Take
<1>18. ASSUME NEW w \in Workers, Finished(w) \/ Deliver(w) PROVE Types'
  <2>1. {"deliver", "draw", "respond"} \subseteq LabelsOf(w) /\ w \in Threads
    BY ConnectionAssumption DEF LabelsOf, Threads
  <2>2. PcTypes'
    BY <1>18, <2>1, Moves DEF Finished, Deliver
  <2> QED
    BY <1>18, <2>2, TypeFrames DEF Finished, Deliver
<1>19. ASSUME NEW w \in Workers, SetImage(w) PROVE Types'
  <2>1. "respond" \in LabelsOf(w) /\ w \in Threads
    BY ConnectionAssumption DEF LabelsOf, Threads
  <2>2. PcTypes'
    BY <1>19, <2>1, Moves DEF SetImage
  <2>3. TileTypes'
    <3>1. TileOf[area[w]] \in Objects /\ DefaultTile' = DefaultTile
      BY <1>19 DEF SetImage, ThreadOK, Tiles, Objects
    <3> QED
      BY <1>19, <3>1, ImageSet DEF SetImage, TileTypes
  <2> QED
    BY <1>19, <2>2, <2>3, TypeFrames DEF SetImage
<1>20. ASSUME NEW w \in Workers, Respond(w) PROVE Types'
  <2>1. "fill" \in LabelsOf(w) /\ w \in Threads
    BY DEF LabelsOf, Threads, Answering
  <2>2. PcTypes'
    BY <1>20, <2>1, Moves DEF Respond
  <2>3. TileOf[area[w]] \in Objects
    BY <1>20 DEF Respond, ThreadOK, Tiles, Objects
  <2>4. HandTypes'
    BY <1>20, <2>3 DEF Respond, HandTypes
  <2> QED
    BY <1>20, <2>2, <2>4, TypeFrames DEF Respond
<1>21. ASSUME NEW w \in Workers, JobDone(w) PROVE Types'
  <2>1. "idle" \in LabelsOf(w) /\ w \in Threads
    BY ConnectionAssumption DEF LabelsOf, Threads
  <2>2. PcTypes'
    BY <1>21, <2>1, Moves DEF JobDone
  <2>3. HandTypes'
    BY <1>21 DEF JobDone, HandTypes
  <2> QED
    BY <1>21, <2>2, <2>3, TypeFrames DEF JobDone
<1> QED
  BY <1>1, <1>2, <1>3, <1>4, <1>5, <1>6, <1>7, <1>8, <1>9, <1>10, <1>11, <1>12, <1>13, <1>14,
     <1>15, <1>16, <1>17, <1>18, <1>19, <1>20, <1>21
     DEF Next, Network, World, Worker, Answer, Over, Threads
-----------------------------------------------------------------------------
\* Nobody is at work at first.
LEMMA ThreadInit == Init => ThreadOK
BY ConnectionAssumption DEF Init, ThreadOK, Threads, Answering

\* A step that moves no thread and changes nothing the threads rely on.
LEMMA ThreadFrame ==
    ASSUME Types, ThreadOK, UNCHANGED threadVars, UNCHANGED jobVars,
           UNCHANGED reply, UNCHANGED DefaultTile,
           accept' = "ok" => nextRequest' \in Connections
    PROVE  ThreadOK'
BY Frames DEF ThreadOK

\* Only th moves: what ThreadOK says of the others stays.
LEMMA ThreadMoves ==
    ASSUME Types, ThreadOK, NEW th \in Threads,
           \A u \in Threads \ {th} : pc'[u] = pc[u] /\ cur'[u] = cur[u] /\ tile'[u] = tile[u],
           DefaultTile # NoTile => DefaultTile' \in Threads,
           \A r \in Connections : reply[r].tile \in Objects => reply'[r].tile \in Objects,
           UNCHANGED <<accept, nextRequest>>,
           \A w \in Workers \ {th} : area'[w] = area[w]
                                     /\ (area[w] = NoArea => attached'[w] = {}),
           pc'[th] \in Answering <=> cur'[th] # NoConnection,
           pc'[th] = "fill" => tile'[th] \in Objects,
           pc'[th] = "load" => DefaultTile' \in Threads,
           pc'[th] = "write" => reply'[cur'[th]].tile \in Objects,
           th \in Workers => /\ pc'[th] = "idle" => area'[th] = NoArea
                             /\ area'[th] = NoArea => attached'[th] = {}
                             /\ pc'[th] \in {"render", "deliver", "draw", "respond"} =>
                                   area'[th] \in Areas
    PROVE  ThreadOK'
<1>1. \A u \in Threads : pc'[u] \in Answering <=> cur'[u] # NoConnection
  BY DEF ThreadOK
<1>2. \A u \in Threads : pc'[u] = "fill" => tile'[u] \in Objects
  BY DEF ThreadOK
<1>3. \A u \in Threads : pc'[u] = "load" => DefaultTile' \in Threads
  BY ConnectionAssumption DEF ThreadOK
<1>4. \A u \in Threads : pc'[u] = "write" => reply'[cur'[u]].tile \in Objects
  <2> SUFFICES ASSUME NEW u \in Threads \ {th}, pc'[u] = "write"
               PROVE  reply'[cur'[u]].tile \in Objects
    OBVIOUS
  <2>1. pc[u] = "write" /\ cur'[u] = cur[u]
    OBVIOUS
  <2>2. cur[u] \in Connections
    BY <2>1 DEF ThreadOK, Types, HandTypes, Answering
  <2> QED
    BY <2>1, <2>2 DEF ThreadOK
<1>5. \A w \in Workers : /\ pc'[w] = "idle" => area'[w] = NoArea
                         /\ area'[w] = NoArea => attached'[w] = {}
                         /\ pc'[w] \in {"render", "deliver", "draw", "respond"} =>
                               area'[w] \in Areas
  BY DEF ThreadOK, Threads
<1>6. accept' = "ok" => nextRequest' \in Connections
  BY DEF ThreadOK
<1> QED
  BY <1>1, <1>2, <1>3, <1>4, <1>5, <1>6 DEF ThreadOK

\* Every step keeps that.
LEMMA ThreadStep ==
    ASSUME Types, ThreadOK, [Next]_vars
    PROVE  ThreadOK'
<1> USE DEF Types
<1>1. CASE UNCHANGED vars
  BY <1>1, ThreadFrame, Frames DEF vars, ThreadOK
<1>2. CASE Connect
  <2>1. nextRequest' \in Connections
    BY <1>2 DEF Connect, NetTypes
  <2> QED
    BY <1>2, <2>1, ThreadFrame, Frames DEF Connect
<1>3. CASE AcceptFails \/ Signal \/ Quit
  BY <1>3, ThreadFrame, Frames DEF AcceptFails, Signal, Quit, ThreadOK
<1>4. ASSUME NEW r \in Connections, Completes(r) \/ ClientLeaves(r) \/ HandleMore(r) \/ HandleEnd(r)
      PROVE  ThreadOK'
  BY <1>4, ThreadFrame, Frames DEF Completes, ClientLeaves, HandleMore, HandleEnd, ThreadOK
<1>5. CASE HandleAccept
  <2>1. accept' # "ok"
    BY <1>5 DEF HandleAccept
  <2> QED
    BY <1>5, <2>1, ThreadFrame, Frames DEF HandleAccept
<1>6. ASSUME NEW r \in Connections, HandleRequest(r) PROVE ThreadOK'
  <2>1. CASE UNCHANGED <<pc, cur>>
    BY <1>6, <2>1, ThreadFrame, Frames DEF HandleRequest, threadVars, ThreadOK
  <2>2. CASE cur' = [cur EXCEPT ![Net] = r] /\ Goto(Net, "default")
    <3>1. pc'[Net] = "default" /\ cur'[Net] = r /\ r # NoConnection /\ Net \in Threads \ Workers
          /\ \A u \in Threads \ {Net} : pc'[u] = pc[u] /\ cur'[u] = cur[u]
      BY <2>2, Moves, ConnectionAssumption DEF Threads, LabelsOf, Answering, HandTypes
    <3>2. UNCHANGED <<tile, DefaultTile, reply, accept, nextRequest, area, attached>>
      BY <1>6, Frames DEF HandleRequest
    <3> QED
      BY <3>1, <3>2, ThreadMoves DEF ThreadOK, TileTypes, Answering
  <2> QED
    BY <1>6, <2>1, <2>2 DEF HandleRequest
<1>7. CASE ListenReturns \/ Joined
  <2>1. PICK l \in {"join", "stopped"} : pc[Net] \in {"run", "join"} /\ Goto(Net, l)
    BY <1>7 DEF ListenReturns, Joined
  <2>2. pc'[Net] = l /\ Net \in Threads \ Workers /\ \A u \in Threads \ {Net} : pc'[u] = pc[u]
    BY <2>1, Moves, ConnectionAssumption DEF Threads, LabelsOf
  <2>3. UNCHANGED <<tile, DefaultTile, reply, accept, nextRequest, area, attached, cur>>
    BY <1>7, Frames DEF ListenReturns, Joined
  <2>4. pc'[Net] \notin Answering /\ cur'[Net] = NoConnection
    BY <2>1, <2>2, <2>3 DEF ThreadOK, Answering, Threads
  <2> QED
    BY <2>2, <2>3, <2>4, ThreadMoves DEF ThreadOK, TileTypes, Answering
<1>8. ASSUME NEW th \in Threads, FindDefault(th) \/ CreateDefault(th) \/ LoadDefault(th)
      PROVE  ThreadOK'
  <2>1. PICK l \in {"create", "load", "fill"} : Goto(th, l) /\ pc[th] \in {"default", "create", "load"}
    BY <1>8 DEF FindDefault, CreateDefault, LoadDefault
  <2>2. pc'[th] = l /\ \A u \in Threads \ {th} : pc'[u] = pc[u]
    BY <2>1, Moves DEF LabelsOf, Answering
  <2>3. UNCHANGED <<reply, accept, nextRequest, area, attached, cur>>
    BY <1>8, Frames DEF FindDefault, CreateDefault, LoadDefault
  <2>4. \A u \in Threads \ {th} : tile'[u] = tile[u]
    BY <1>8, Frames DEF FindDefault, CreateDefault, LoadDefault, HandTypes
  <2>5. pc'[th] = "fill" => tile'[th] \in Objects
    <3>1. CASE FindDefault(th)
      BY <2>1, <3>1 DEF FindDefault, Goto, PcTypes, HandTypes, TileTypes, Objects
    <3>2. CASE CreateDefault(th)
      BY <3>2 DEF CreateDefault, Goto, PcTypes
    <3>3. CASE LoadDefault(th)
      BY <3>3 DEF LoadDefault, HandTypes, ThreadOK, Objects
    <3> QED
      BY <1>8, <3>1, <3>2, <3>3
  <2>6. pc'[th] = "load" => DefaultTile' \in Threads
    <3>1. CASE FindDefault(th)
      BY <3>1 DEF FindDefault, Goto, PcTypes
    <3>2. CASE CreateDefault(th)
      BY <3>2 DEF CreateDefault
    <3>3. CASE LoadDefault(th)
      BY <3>3 DEF LoadDefault, Goto, PcTypes
    <3> QED
      BY <1>8, <3>1, <3>2, <3>3
  <2>7. DefaultTile # NoTile => DefaultTile' \in Threads
    BY <1>8, Frames DEF FindDefault, CreateDefault, LoadDefault, TileTypes
  <2>8. pc'[th] \in Answering /\ cur'[th] # NoConnection /\ pc'[th] # "write" /\ pc'[th] # "idle"
    BY <2>1, <2>2, <2>3 DEF ThreadOK, Answering
  <2>9. th \in Workers => (area[th] = NoArea => attached[th] = {})
    BY DEF ThreadOK
  <2> QED
    BY <2>2, <2>3, <2>4, <2>5, <2>6, <2>7, <2>8, <2>9, ThreadMoves DEF ThreadOK, Answering
<1>9. ASSUME NEW th \in Threads, Fill(th) PROVE ThreadOK'
  <2>1. UNCHANGED <<accept, nextRequest, area, attached, DefaultTile>>
        /\ cur[th] \in Connections /\ tile[th] \in Objects /\ pc[th] = "fill"
    BY <1>9, Frames DEF Fill, ThreadOK, Answering, HandTypes
  <2>2. CASE Return(th) /\ UNCHANGED reply
    <3>1. /\ pc'[th] = IF th = Net THEN "run" ELSE IF area[th] = NoArea THEN "idle"
                                                                      ELSE "respond"
          /\ cur'[th] = NoConnection
          /\ \A u \in Threads \ {th} : pc'[u] = pc[u] /\ cur'[u] = cur[u] /\ tile'[u] = tile[u]
      BY <2>2, Returns
    <3>2. th \in Workers => th # Net /\ area[th] \in Areas \cup {NoArea}
      BY ConnectionAssumption DEF HandTypes
    <3> QED
      BY <2>1, <2>2, <3>1, <3>2, ThreadMoves DEF ThreadOK, TileTypes, Answering
  <2>3. CASE UNCHANGED <<reply, threadVars>>
    BY <1>9, <2>3, ThreadFrame, Frames DEF Fill, ThreadOK
  <2>4. CASE /\ reply' = [reply EXCEPT ![cur[th]].tile = tile[th], ![cur[th]].size = image[tile[th]]]
             /\ Goto(th, "write") /\ UNCHANGED <<cur, tile>>
    <3>1. pc'[th] = "write" /\ \A u \in Threads \ {th} : pc'[u] = pc[u]
      BY <2>4, Moves DEF LabelsOf, Answering
    <3>2. /\ reply'[cur[th]].tile = tile[th]
          /\ \A r \in Connections : reply[r].tile \in Objects => reply'[r].tile \in Objects
      BY <2>1, <2>4 DEF ReplyTypes
    <3> QED
      BY <2>1, <2>4, <3>1, <3>2, ThreadMoves DEF ThreadOK, TileTypes, Answering
  <2> QED
    BY <1>9, <2>2, <2>3, <2>4 DEF Fill
<1>10. ASSUME NEW th \in Threads, Write(th) PROVE ThreadOK'
  <2>1. UNCHANGED <<accept, nextRequest, area, attached, DefaultTile>>
        /\ cur[th] \in Connections /\ Return(th)
    BY <1>10, Frames DEF Write, ThreadOK, Answering, HandTypes
  <2>2. /\ pc'[th] = IF th = Net THEN "run" ELSE IF area[th] = NoArea THEN "idle"
                                                                    ELSE "respond"
        /\ cur'[th] = NoConnection
        /\ \A u \in Threads \ {th} : pc'[u] = pc[u] /\ cur'[u] = cur[u] /\ tile'[u] = tile[u]
    BY <2>1, Returns
  <2>3. th \in Workers => th # Net /\ area[th] \in Areas \cup {NoArea}
    BY ConnectionAssumption DEF HandTypes
  <2>4. \A r \in Connections : reply'[r].tile = reply[r].tile
    BY <1>10, <2>1 DEF Write, ReplyTypes
  <2> QED
    BY <2>1, <2>2, <2>3, <2>4, ThreadMoves DEF ThreadOK, TileTypes, Answering
<1>11. ASSUME NEW w \in Workers, TakeBad(w) PROVE ThreadOK'
  <2>1. UNCHANGED <<accept, nextRequest, area, attached, DefaultTile, reply, tile>>
        /\ Head(queue) \in Connections /\ w \in Threads
    BY <1>11, Frames, QueueTail DEF TakeBad, Threads
  <2>2. pc'[w] = "default" /\ cur'[w] = Head(queue)
        /\ \A u \in Threads \ {w} : pc'[u] = pc[u] /\ cur'[u] = cur[u]
    BY <1>11, <2>1, Moves DEF TakeBad, LabelsOf, Answering, HandTypes
  <2>3. area[w] = NoArea => attached[w] = {}
    BY DEF ThreadOK
  <2> QED
    BY <2>1, <2>2, <2>3, ConnectionAssumption, ThreadMoves DEF ThreadOK, TileTypes, Answering
<1>12. ASSUME NEW w \in Workers, NEW a \in Areas, Take(w, a) PROVE ThreadOK'
  <2>1. UNCHANGED <<accept, nextRequest, DefaultTile, reply, tile, cur>>
        /\ w \in Threads /\ pc[w] = "idle" /\ cur[w] = NoConnection
    BY <1>12, Frames DEF Take, Threads, ThreadOK, Answering
  <2>2. CASE /\ attached' = [attached EXCEPT ![w] = {Head(queue)}]
             /\ area' = [area EXCEPT ![w] = a] /\ Goto(w, "render")
    <3>1. pc'[w] = "render" /\ \A u \in Threads \ {w} : pc'[u] = pc[u]
      BY <2>1, <2>2, Moves, ConnectionAssumption DEF LabelsOf
    <3>2. area'[w] = a /\ \A v \in Workers \ {w} : area'[v] = area[v] /\ attached'[v] = attached[v]
      BY <2>2 DEF HandTypes
    <3>3. a # NoArea
      BY ConnectionAssumption
    <3> QED
      BY <2>1, <3>1, <3>2, <3>3, ThreadMoves DEF ThreadOK, TileTypes, Answering
  <2>3. CASE /\ \E v \in Rendering(a) : attached' = [attached EXCEPT ![v] = @ \cup {Head(queue)}]
             /\ UNCHANGED <<pc, area>>
    <3>1. PICK v \in Rendering(a) : attached' = [attached EXCEPT ![v] = @ \cup {Head(queue)}]
      BY <2>3
    <3>2. v \in Workers /\ area[v] # NoArea
      BY ConnectionAssumption DEF Rendering
    <3>3. \A u \in Workers : area[u] = NoArea => attached'[u] = {}
      BY <3>1, <3>2 DEF ThreadOK, HandTypes
    <3> QED
      BY <2>1, <2>3, <3>3 DEF ThreadOK
  <2> QED
    BY <1>12, <2>2, <2>3 DEF Take
<1>13. ASSUME NEW w \in Workers, Finished(w) \/ Deliver(w) \/ SetImage(w) PROVE ThreadOK'
  <2>1. PICK l \in {"deliver", "draw", "respond"} : Goto(w, l)
    BY <1>13 DEF Finished, Deliver, SetImage
  <2>2. /\ UNCHANGED <<accept, nextRequest, DefaultTile, reply, tile, cur, area, attached>>
        /\ w \in Threads /\ cur[w] = NoConnection /\ area[w] \in Areas
    BY <1>13, Frames DEF Finished, Deliver, SetImage, Threads, ThreadOK, Answering
  <2>3. pc'[w] = l /\ \A u \in Threads \ {w} : pc'[u] = pc[u]
    BY <2>1, <2>2, Moves, ConnectionAssumption DEF LabelsOf
  <2>4. area[w] # NoArea
    BY <2>2, ConnectionAssumption
  <2> QED
    BY <2>2, <2>3, <2>4, ThreadMoves DEF ThreadOK, TileTypes, Answering
<1>14. ASSUME NEW w \in Workers, Respond(w) PROVE ThreadOK'
  <2>1. PICK r \in attached[w] : /\ attached' = [attached EXCEPT ![w] = @ \ {r}]
                                 /\ cur' = [cur EXCEPT ![w] = r]
    BY <1>14 DEF Respond
  <2>2. /\ UNCHANGED <<accept, nextRequest, DefaultTile, reply, area>>
        /\ w \in Threads /\ area[w] \in Areas /\ r \in Connections
    BY <1>14, Frames DEF Respond, Threads, ThreadOK, HandTypes
  <2>3. /\ pc'[w] = "fill" /\ tile'[w] = TileOf[area[w]] /\ cur'[w] = r
        /\ \A u \in Threads \ {w} : pc'[u] = pc[u] /\ cur'[u] = cur[u] /\ tile'[u] = tile[u]
    BY <1>14, <2>1, <2>2, Moves DEF Respond, LabelsOf, Answering, HandTypes
  <2>4. TileOf[area[w]] \in Objects /\ area[w] # NoArea /\ r # NoConnection
    BY <2>2, ConnectionAssumption DEF Objects, Tiles
  <2>5. \A v \in Workers \ {w} : attached'[v] = attached[v]
    BY <2>1 DEF HandTypes
  <2> QED
    BY <2>2, <2>3, <2>4, <2>5, ThreadMoves DEF ThreadOK, TileTypes, Answering
<1>15. ASSUME NEW w \in Workers, JobDone(w) PROVE ThreadOK'
  <2>1. /\ UNCHANGED <<accept, nextRequest, DefaultTile, reply, tile, cur, attached>>
        /\ w \in Threads /\ cur[w] = NoConnection /\ attached[w] = {}
    BY <1>15, Frames DEF JobDone, Threads, ThreadOK, Answering
  <2>2. pc'[w] = "idle" /\ \A u \in Threads \ {w} : pc'[u] = pc[u]
    BY <1>15, <2>1, Moves, ConnectionAssumption DEF JobDone, LabelsOf
  <2>3. area'[w] = NoArea /\ \A v \in Workers \ {w} : area'[v] = area[v]
    BY <1>15 DEF JobDone, HandTypes
  <2> QED
    BY <2>1, <2>2, <2>3, ThreadMoves DEF ThreadOK, TileTypes, Answering
<1> QED
  BY <1>1, <1>2, <1>3, <1>4, <1>5, <1>6, <1>7, <1>8, <1>9, <1>10, <1>11, <1>12, <1>13, <1>14,
     <1>15 DEF Next, Network, World, Worker, Answer, Over, Threads

\* Both hold of every state.
LEMMA TypesHold == Spec => [](Types /\ ThreadOK)
<1>1. Init => Types /\ ThreadOK
  BY TypesInit, ThreadInit
<1>2. Types /\ ThreadOK /\ [Next]_vars => (Types /\ ThreadOK)'
  BY TypeStep, ThreadStep
<1> QED
  BY <1>1, <1>2, PTL DEF Spec

\* The variables keep their types and the queue its limit, in every reachable state.
THEOREM TypeCorrect == Spec => []TypeOK
  BY TypesHold, TypesSuffice, PTL

-----------------------------------------------------------------------------
(***************************************************************************)
(* Who has a connection in hand, and which sockets are open: theorems      *)
(* about HttpConnection for any number of workers, clients and areas.      *)
(***************************************************************************)

\* A socket is open only after its client has come; the connection that is being
\* accepted is not registered, and is open once it has been accepted.
RegInv ==
    /\ Registered
    /\ \A r \in Connections : peer[r] = "none" => r \notin open
    /\ nextRequest \notin requests
    /\ accept = "ok" => nextRequest \in open
    /\ accept \in {"pending", "error", "aborted"} /\ nextRequest \in Connections =>
          peer[nextRequest] = "none"

-----------------------------------------------------------------------------
InOp(r)     == op[r] # "none"
InQueue(r)  == \E i \in DOMAIN queue : queue[i] = r
InJob(r)    == \E w \in Workers : r \in attached[w]
InAnswer(r) == \E th \in Threads : cur[th] = r
Nowhere(r)  == ~InOp(r) /\ ~InQueue(r) /\ ~InJob(r) /\ ~InAnswer(r)

Stays(r) ==
    /\ InOp(r)' <=> InOp(r)
    /\ InQueue(r)' <=> InQueue(r)
    /\ InJob(r)' <=> InJob(r)
    /\ InAnswer(r)' <=> InAnswer(r)

\* No place of one kind is taken twice by the same connection.
Distinct ==
    /\ \A i, j \in DOMAIN queue : queue[i] = queue[j] => i = j
    /\ \A v, w \in Workers : \A r \in attached[v] : r \in attached[w] => v = w
    /\ \A t, u \in Threads : cur[t] \in Connections /\ cur[t] = cur[u] => t = u

\* The operations of a connection that has been answered.
Last == {"none", "write", "writeOk", "writeError", "aborted"}

\* A connection is in one kind of place.  Before its client has come it is nowhere;
\* once it is answered nothing but the write is left of it; while it is registered it
\* is somewhere; its socket is open while it is somewhere, until the acceptor closes.
LifeOf(r) ==
    /\ InOp(r) => ~InQueue(r) /\ ~InJob(r) /\ ~InAnswer(r)
    /\ InQueue(r) => ~InJob(r) /\ ~InAnswer(r)
    /\ InJob(r) => ~InAnswer(r)
    /\ peer[r] = "none" => Nowhere(r) /\ ~answered[r]
    /\ answered[r] => ~InQueue(r) /\ ~InJob(r) /\ ~InAnswer(r) /\ op[r] \in Last
    /\ r \in requests => ~Nowhere(r)
    /\ acceptor /\ ~Nowhere(r) => r \in open
    /\ op[r] = "aborted" => ~acceptor

\* The connection that has been accepted and is not registered yet is nowhere.
Incoming == accept = "ok" => Nowhere(nextRequest) /\ ~answered[nextRequest]

PlaceInv == Distinct /\ Incoming /\ \A r \in Connections : LifeOf(r)
-----------------------------------------------------------------------------
\* At the start no connection is registered.
LEMMA RegInit == Init => RegInv
BY DEF Init, RegInv, Registered

\* Every step keeps what is registered with the service.
LEMMA RegStep ==
    ASSUME Types, ThreadOK, PlaceInv, RegInv, [Next]_vars
    PROVE  RegInv'
<1> USE DEF Types, NetTypes, ConnTypes
<1>1. CASE UNCHANGED <<acceptor, accept, nextRequest, requests, open, peer>>
  BY <1>1 DEF RegInv, Registered
<1>2. CASE Connect
  <2>1. /\ UNCHANGED <<acceptor, nextRequest, requests>>
        /\ open' = open \cup {nextRequest} /\ nextRequest \in Connections
        /\ accept' = "ok" /\ \A r \in Connections : peer'[r] = "none" => peer[r] = "none"
        /\ peer'[nextRequest] # "none"
    BY <1>2 DEF Connect
  <2> QED
    BY <2>1 DEF RegInv, Registered
<1>3. CASE AcceptFails
  <2>1. /\ UNCHANGED <<acceptor, nextRequest, requests, open, peer>>
        /\ accept = "pending" /\ accept' = "error"
    BY <1>3 DEF AcceptFails, connVars
  <2> QED
    BY <2>1 DEF RegInv, Registered
<1>4. ASSUME NEW r \in Connections, ClientLeaves(r) PROVE RegInv'
  <2>1. /\ UNCHANGED <<acceptor, accept, nextRequest, requests, open>>
        /\ peer' = [peer EXCEPT ![r] = "left"] /\ peer[r] = "there"
    BY <1>4 DEF ClientLeaves, netVars
  <2> QED
    BY <2>1 DEF RegInv, Registered
<1>5. CASE HandleAccept
  <2>1. UNCHANGED <<acceptor, open, peer>>
    BY <1>5 DEF HandleAccept
  <2>2. CASE ~acceptor
    <3>1. UNCHANGED <<nextRequest, requests>> /\ accept' = "none"
      BY <1>5, <2>2 DEF HandleAccept
    <3> QED
      BY <2>1, <3>1 DEF RegInv, Registered
  <2>3. CASE acceptor /\ accept # "ok"
    <3>1. UNCHANGED <<nextRequest, requests>> /\ accept' = "pending"
          /\ accept \in {"error", "aborted"}
      BY <1>5, <2>3 DEF HandleAccept
    <3> QED
      BY <2>1, <3>1 DEF RegInv, Registered
  <2>4. CASE acceptor /\ accept = "ok"
    <3>1. /\ requests' = requests \cup {nextRequest} /\ accept' = "pending"
          /\ nextRequest \in Connections
          /\ \/ nextRequest' = NoConnection
             \/ nextRequest' \in Connections /\ peer[nextRequest'] = "none"
      BY <1>5, <2>4 DEF HandleAccept, ThreadOK
    <3>2. nextRequest \in open /\ nextRequest' # nextRequest
      BY <2>4, <3>1, ConnectionAssumption DEF RegInv
    <3>3. nextRequest' \notin requests
      <4>1. CASE nextRequest' = NoConnection
        BY <4>1, ConnectionAssumption
      <4>2. CASE nextRequest' \in Connections /\ peer[nextRequest'] = "none"
        BY <3>2, <4>2 DEF RegInv, Registered
      <4> QED
        BY <3>1, <4>1, <4>2
    <3>4. acceptor'
      BY <2>1, <2>4
    <3>5. Registered'
      BY <2>1, <3>1, <3>2, <3>3, <3>4 DEF RegInv, Registered
    <3> QED
      BY <2>1, <3>1, <3>2, <3>3, <3>5, ConnectionAssumption DEF RegInv
  <2> QED
    BY <2>2, <2>3, <2>4
<1>6. ASSUME NEW r \in Connections, HandleEnd(r) PROVE RegInv'
  <2>1. UNCHANGED <<acceptor, accept, nextRequest, peer>>
        /\ \/ UNCHANGED <<requests, open>>
           \/ requests' = requests \ {r} /\ open' = open \ {r} /\ op[r] # "none"
    BY <1>6 DEF HandleEnd, StopRequest
  <2>2. CASE UNCHANGED <<requests, open>>
    BY <2>1, <2>2 DEF RegInv, Registered
  <2>3. CASE requests' = requests \ {r} /\ open' = open \ {r}
    <3>1. \A c \in Connections \ {nextRequest} : c \in open' <=> c \in requests'
      BY <2>3 DEF RegInv, Registered
    <3>2. accept = "ok" => r # nextRequest
      <4> SUFFICES ASSUME accept = "ok", r = nextRequest PROVE FALSE
        OBVIOUS
      <4> QED
        BY <1>6 DEF HandleEnd, PlaceInv, Incoming, Nowhere, InOp
    <3> QED
      BY <2>1, <2>3, <3>1, <3>2 DEF RegInv, Registered
  <2> QED
    BY <2>1, <2>2, <2>3
<1>7. CASE Quit
  BY <1>7 DEF Quit, RegInv, Registered
<1>8. ASSUME \/ Signal \/ ListenReturns \/ Joined \/ Over \/ UNCHANGED vars
             \/ \E r \in Connections : Completes(r) \/ HandleRequest(r) \/ HandleMore(r)
             \/ \E th \in Threads : Answer(th)
             \/ \E w \in Workers, a \in Areas : TakeBad(w) \/ Take(w, a)
             \/ \E w \in Workers : TakeBad(w) \/ Finished(w) \/ Deliver(w) \/ SetImage(w)
                                   \/ Respond(w) \/ JobDone(w)
      PROVE  UNCHANGED <<acceptor, accept, nextRequest, requests, open, peer>>
  BY <1>8 DEF Signal, ListenReturns, Joined, Over, vars, Completes, HandleRequest, HandleMore,
     Answer, FindDefault, CreateDefault, LoadDefault, Fill, Write, TakeBad, Take, Finished,
     Deliver, SetImage, Respond, JobDone, netVars, connVars
<1> QED
  BY <1>1, <1>2, <1>3, <1>4, <1>5, <1>6, <1>7, <1>8
     DEF Next, Network, World, Worker, Threads
-----------------------------------------------------------------------------
\* Nothing moves, and the connection goes on in its life.
LEMMA LifeStays ==
    ASSUME NEW r \in Connections, LifeOf(r), Stays(r),
           peer'[r] = "none" => peer[r] = "none",
           answered'[r] => answered[r],
           op[r] \in Last => op'[r] \in Last,
           r \in requests' => r \in requests,
           acceptor' => acceptor /\ (r \in open => r \in open')
                                 /\ (op'[r] = "aborted" => op[r] = "aborted")
    PROVE  LifeOf(r)'
BY DEF LifeOf, Stays, Nowhere

\* A step in which nobody moves.
LEMMA QuietStep ==
    ASSUME PlaceInv, UNCHANGED <<queue, cur, attached, answered>>,
           \A r \in Connections :
              /\ op'[r] = "none" <=> op[r] = "none"
              /\ peer'[r] = "none" => peer[r] = "none"
              /\ op[r] \in Last => op'[r] \in Last
              /\ r \in requests' => r \in requests
              /\ acceptor' => acceptor /\ (r \in open => r \in open')
                                       /\ (op'[r] = "aborted" => op[r] = "aborted"),
           accept' = "ok" => nextRequest' \in Connections /\ Nowhere(nextRequest')
                             /\ ~answered[nextRequest']
    PROVE  PlaceInv'
<1>1. \A r \in Connections : Stays(r)
  BY DEF Stays, InOp, InQueue, InJob, InAnswer
<1>2. \A r \in Connections : answered'[r] => answered[r]
  OBVIOUS
<1>3. \A r \in Connections : LifeOf(r)'
  BY <1>1, <1>2, LifeStays DEF PlaceInv
<1>4. Distinct'
  BY DEF PlaceInv, Distinct
<1>5. Incoming'
  BY <1>1, <1>2 DEF Incoming, Stays, Nowhere
<1> QED
  BY <1>3, <1>4, <1>5 DEF PlaceInv

\* A step in which one connection moves that was somewhere.
LEMMA MoveStep ==
    ASSUME PlaceInv, NEW x \in Connections, ~Nowhere(x),
           accept = "ok" => nextRequest \in Connections,
           UNCHANGED <<acceptor, peer, accept, nextRequest>>,
           \A r \in Connections \ {x} :
              /\ Stays(r) /\ op'[r] = op[r] /\ answered'[r] = answered[r]
              /\ r \in requests' => r \in requests
              /\ r \in open => r \in open',
           Distinct', LifeOf(x)'
    PROVE  PlaceInv'
<1>1. \A r \in Connections \ {x} : answered'[r] => answered[r]
  OBVIOUS
<1>2. acceptor' => acceptor
  OBVIOUS
<1>3. \A r \in Connections : LifeOf(r)'
  BY <1>1, <1>2, LifeStays DEF PlaceInv
<1>4. Incoming'
  <2> SUFFICES ASSUME accept = "ok" PROVE Nowhere(nextRequest)' /\ ~answered'[nextRequest]
    BY DEF Incoming
  <2>1. nextRequest \in Connections \ {x} /\ Nowhere(nextRequest) /\ ~answered[nextRequest]
    BY DEF PlaceInv, Incoming
  <2>2. nextRequest' = nextRequest
    OBVIOUS
  <2> QED
    BY <1>1, <2>1, <2>2 DEF Stays, Nowhere
<1> QED
  BY <1>3, <1>4 DEF PlaceInv
-----------------------------------------------------------------------------
\* At the start no request is anywhere.
LEMMA PlaceInit == Init => PlaceInv
<1> SUFFICES ASSUME Init PROVE PlaceInv
  OBVIOUS
<1>1. /\ queue = << >> /\ accept = "pending" /\ requests = {}
      /\ \A r \in Connections : op[r] = "none" /\ ~answered[r] /\ peer[r] = "none"
      /\ \A th \in Threads : cur[th] = NoConnection
      /\ \A w \in Workers : attached[w] = {}
  BY DEF Init
<1>2. \A r \in Connections : Nowhere(r)
  BY <1>1, ConnectionAssumption DEF Nowhere, InOp, InQueue, InJob, InAnswer
<1>3. \A r \in Connections : LifeOf(r)
  BY <1>1, <1>2 DEF LifeOf, Nowhere, Last
<1>4. Distinct
  BY <1>1, ConnectionAssumption DEF Distinct
<1> QED
  BY <1>1, <1>3, <1>4 DEF PlaceInv, Incoming

\* The steps in which nobody moves.
LEMMA PlaceQuiet ==
    ASSUME Types, ThreadOK, RegInv, PlaceInv,
           \/ UNCHANGED vars \/ Connect \/ AcceptFails \/ Signal \/ Quit
           \/ ListenReturns \/ Joined
           \/ HandleAccept /\ ~(acceptor /\ accept = "ok")
           \/ \E r \in Connections : Completes(r) \/ ClientLeaves(r) \/ HandleMore(r)
           \/ \E th \in Threads : FindDefault(th) \/ CreateDefault(th) \/ LoadDefault(th)
           \/ \E th \in Threads : Fill(th) /\ ~Return(th)
           \/ \E w \in Workers : Finished(w) \/ Deliver(w) \/ SetImage(w) \/ JobDone(w)
    PROVE  PlaceInv'
<1> USE DEF Types, NetTypes, ConnTypes
<1>1. CASE UNCHANGED <<queue, cur, attached, answered, op, acceptor, peer, requests, open,
                       accept, nextRequest>>
  <2>1. accept' = "ok" => nextRequest' \in Connections /\ Nowhere(nextRequest')
                          /\ ~answered[nextRequest']
    BY <1>1 DEF ThreadOK, PlaceInv, Incoming
  <2>2. acceptor' => acceptor
    BY <1>1
  <2> QED
    BY <1>1, <2>1, <2>2, QuietStep
<1>2. CASE Connect
  <2>1. /\ UNCHANGED <<queue, cur, attached, answered, op, acceptor, requests>>
        /\ open' = open \cup {nextRequest} /\ nextRequest' = nextRequest
        /\ nextRequest \in Connections /\ peer[nextRequest] = "none"
    BY <1>2, Frames DEF Connect, RegInv
  <2>2. Nowhere(nextRequest) /\ ~answered[nextRequest]
    BY <2>1 DEF PlaceInv, LifeOf
  <2>3. \A r \in Connections : peer'[r] = "none" => peer[r] = "none"
    BY <1>2 DEF Connect
  <2>4. acceptor' => acceptor
    BY <2>1
  <2> QED
    BY <2>1, <2>2, <2>3, <2>4, QuietStep
<1>3. CASE AcceptFails
  <2>1. UNCHANGED <<queue, cur, attached, answered, op, acceptor, peer, requests, open>>
        /\ accept' = "error"
    BY <1>3, Frames DEF AcceptFails
  <2>2. acceptor' => acceptor
    BY <2>1
  <2> QED
    BY <2>1, <2>2, QuietStep
<1>4. CASE Quit
  <2>1. /\ UNCHANGED <<queue, cur, attached, answered, peer, nextRequest>>
        /\ ~acceptor' /\ requests' = {} /\ op' = Aborted(requests)
        /\ accept' = "ok" => accept = "ok"
    BY <1>4, Frames DEF Quit
  <2>2. \A r \in Connections : /\ op'[r] = "none" <=> op[r] = "none"
                               /\ op[r] \in Last => op'[r] \in Last
    BY <2>1 DEF Aborted, Last
  <2>3. accept' = "ok" => nextRequest' \in Connections /\ Nowhere(nextRequest')
                          /\ ~answered[nextRequest']
    BY <2>1 DEF ThreadOK, PlaceInv, Incoming
  <2> QED
    BY <2>1, <2>2, <2>3, QuietStep
<1>5. CASE HandleAccept /\ ~(acceptor /\ accept = "ok")
  <2>1. UNCHANGED <<queue, cur, attached, answered, op, acceptor, peer, requests, open>>
        /\ accept' # "ok"
    BY <1>5, Frames DEF HandleAccept
  <2>2. acceptor' => acceptor
    BY <2>1
  <2> QED
    BY <2>1, <2>2, QuietStep
<1>6. ASSUME NEW x \in Connections, Completes(x) \/ ClientLeaves(x) \/ HandleMore(x)
      PROVE  PlaceInv'
  <2>1. UNCHANGED <<queue, cur, attached, answered, acceptor, requests, open, accept,
                    nextRequest>>
    BY <1>6, Frames DEF Completes, ClientLeaves, HandleMore
  <2>2. \A r \in Connections : peer'[r] = "none" => peer[r] = "none"
    BY <1>6 DEF Completes, ClientLeaves, HandleMore
  <2>3. \A r \in Connections : /\ op'[r] = "none" <=> op[r] = "none"
                               /\ op[r] \in Last => op'[r] \in Last
                               /\ op'[r] = "aborted" => op[r] = "aborted"
    BY <1>6 DEF Completes, ClientLeaves, HandleMore, Started, Failed, Last, Received
  <2>4. accept' = "ok" => nextRequest' \in Connections /\ Nowhere(nextRequest')
                          /\ ~answered[nextRequest']
    BY <2>1 DEF ThreadOK, PlaceInv, Incoming
  <2>5. acceptor' => acceptor
    BY <2>1
  <2> QED
    BY <2>1, <2>2, <2>3, <2>4, <2>5, QuietStep
<1>7. ASSUME \/ UNCHANGED vars \/ Signal \/ ListenReturns \/ Joined
             \/ \E th \in Threads : FindDefault(th) \/ CreateDefault(th) \/ LoadDefault(th)
             \/ \E th \in Threads : Fill(th) /\ ~Return(th)
             \/ \E w \in Workers : Finished(w) \/ Deliver(w) \/ SetImage(w) \/ JobDone(w)
      PROVE  UNCHANGED <<queue, cur, attached, answered, op, acceptor, peer, requests, open,
                         accept, nextRequest>>
  BY <1>7, Frames DEF vars, Signal, ListenReturns, Joined, FindDefault, CreateDefault,
     LoadDefault, Fill, Finished, Deliver, SetImage, JobDone
<1> QED
  BY <1>1, <1>2, <1>3, <1>4, <1>5, <1>6, <1>7
-----------------------------------------------------------------------------
\* A thread that is about to answer finds that nobody has answered.
LEMMA FillAnswers ==
    ASSUME Types, ThreadOK, PlaceInv, NEW th \in Threads, Fill(th)
    PROVE  ~Return(th) /\ cur[th] \in Connections
<1>1. cur[th] \in Connections /\ cur[th] # NoConnection
  BY ConnectionAssumption DEF Fill, ThreadOK, Answering, Types, HandTypes
<1>2. InAnswer(cur[th])
  BY DEF InAnswer
<1>3. ~answered[cur[th]]
  BY <1>1, <1>2 DEF PlaceInv, LifeOf
<1>4. cur' = cur
  BY <1>3, Frames DEF Fill
<1>5. ASSUME Return(th) PROVE cur'[th] = NoConnection
  BY <1>5, Returns DEF Types
<1> QED
  BY <1>1, <1>4, <1>5

\* An accepted connection begins to be read.
LEMMA PlaceAccept ==
    ASSUME Types, ThreadOK, RegInv, PlaceInv, HandleAccept, acceptor, accept = "ok"
    PROVE  PlaceInv'
<1>0. PICK n \in Connections : n = nextRequest
  BY DEF ThreadOK
<1>1. n \in Connections /\ Nowhere(n) /\ ~answered[n] /\ n \in open /\ peer[n] # "none"
  BY <1>0 DEF PlaceInv, Incoming, RegInv
<1>2. /\ UNCHANGED <<queue, cur, attached, answered, acceptor, peer, open>>
      /\ requests' = requests \cup {n} /\ accept' = "pending" /\ Started(n, "read")
  BY <1>0, Frames DEF HandleAccept
<1>3. op'[n] \in {"read", "readError"} /\ \A r \in Connections \ {n} : op'[r] = op[r]
  BY <1>1, <1>2, Starts DEF Failed, Types
<1>4. LifeOf(n)'
  <2>1. InOp(n)' /\ ~InQueue(n)' /\ ~InJob(n)' /\ ~InAnswer(n)'
    BY <1>1, <1>2, <1>3 DEF Nowhere, InOp, InQueue, InJob, InAnswer
  <2>2. ~answered'[n] /\ peer'[n] # "none" /\ n \in open' /\ op'[n] # "aborted"
    BY <1>1, <1>2, <1>3
  <2> QED
    BY <2>1, <2>2 DEF LifeOf, Nowhere
<1>5. acceptor' => acceptor
  BY <1>2
<1>6. \A r \in Connections \ {n} : Stays(r)
  BY <1>2, <1>3 DEF Stays, InOp, InQueue, InJob, InAnswer
<1>7. \A r \in Connections : LifeOf(r)'
  BY <1>2, <1>3, <1>4, <1>5, <1>6, LifeStays DEF PlaceInv
<1>8. Distinct' /\ Incoming'
  BY <1>2 DEF PlaceInv, Distinct, Incoming
<1> QED
  BY <1>7, <1>8 DEF PlaceInv

\* A request goes from its read to the queue, or to the network thread.
LEMMA PlaceRequest ==
    ASSUME Types, ThreadOK, PlaceInv, NEW x \in Connections, HandleRequest(x)
    PROVE  PlaceInv'
<1>1. /\ op[x] \in {"complete", "bad"} /\ op' = [op EXCEPT ![x] = "none"]
      /\ UNCHANGED <<acceptor, accept, nextRequest, requests, open, peer, answered, attached>>
  BY Frames DEF HandleRequest
<1>2. op'[x] = "none" /\ \A r \in Connections \ {x} : op'[r] = op[r]
  BY <1>1 DEF Types, ConnTypes
<1>3. InOp(x) /\ ~InQueue(x) /\ ~InJob(x) /\ ~InAnswer(x) /\ ~answered[x]
  BY <1>1 DEF PlaceInv, LifeOf, InOp, Last
<1>4. peer[x] # "none" /\ (acceptor => x \in open) /\ ~Nowhere(x)
  BY <1>3 DEF PlaceInv, LifeOf, Nowhere
<1>5. accept = "ok" => nextRequest \in Connections
  BY DEF ThreadOK
<1>6. ASSUME InQueue(x)' <=> ~InAnswer(x)' PROVE LifeOf(x)'
  <2>1. ~InOp(x)' /\ ~InJob(x)'
    BY <1>1, <1>2, <1>3 DEF InOp, InJob
  <2>2. ~answered'[x] /\ peer'[x] # "none" /\ (acceptor' => x \in open')
    BY <1>1, <1>3, <1>4
  <2> QED
    BY <1>2, <1>6, <2>1, <2>2 DEF LifeOf, Nowhere
<1>7. CASE queue' = Append(queue, x) /\ ~QueueFull /\ UNCHANGED <<pc, cur>>
  <2>1. /\ \A i \in DOMAIN queue' : \/ i \in DOMAIN queue /\ queue'[i] = queue[i]
                                    \/ i = Len(queue) + 1 /\ queue'[i] = x
        /\ \A i \in DOMAIN queue : i \in DOMAIN queue' /\ queue'[i] = queue[i]
        /\ Len(queue) + 1 \in DOMAIN queue' /\ queue'[Len(queue) + 1] = x
    BY <1>7, QueueAppend DEF Types
  <2>2. InQueue(x)' /\ ~InAnswer(x)'
    BY <1>3, <1>7, <2>1 DEF InQueue, InAnswer
  <2>3. \A r \in Connections \ {x} : InQueue(r)' <=> InQueue(r)
    BY <2>1 DEF InQueue
  <2>4. \A r \in Connections \ {x} :
           /\ Stays(r) /\ op'[r] = op[r] /\ answered'[r] = answered[r]
           /\ r \in requests' => r \in requests
           /\ r \in open => r \in open'
    BY <1>1, <1>2, <1>7, <2>3 DEF Stays, InOp, InJob, InAnswer
  <2>5. \A i, j \in DOMAIN queue' : queue'[i] = queue'[j] => i = j
    BY <1>3, <2>1 DEF PlaceInv, Distinct, InQueue
  <2>6. Distinct'
    BY <1>1, <1>7, <2>5 DEF PlaceInv, Distinct
  <2>7. LifeOf(x)'
    BY <1>6, <2>2
  <2> QED
    BY <1>1, <1>4, <1>5, <2>4, <2>6, <2>7, MoveStep
<1>8. CASE cur' = [cur EXCEPT ![Net] = x] /\ Goto(Net, "default") /\ UNCHANGED queue
  <2>1. Net \in Threads /\ pc[Net] = "run"
    BY DEF Threads, HandleRequest
  <2>2. cur[Net] = NoConnection
    BY <2>1 DEF ThreadOK, Answering
  <2>3. cur'[Net] = x /\ \A th \in Threads \ {Net} : cur'[th] = cur[th]
    BY <1>8, <2>1 DEF Types, HandTypes
  <2>4. InAnswer(x)' /\ ~InQueue(x)'
    BY <1>3, <1>8, <2>1, <2>3 DEF InQueue, InAnswer
  <2>5. \A r \in Connections \ {x} : InAnswer(r)' <=> InAnswer(r)
    BY <2>1, <2>2, <2>3, ConnectionAssumption DEF InAnswer
  <2>6. \A r \in Connections \ {x} :
           /\ Stays(r) /\ op'[r] = op[r] /\ answered'[r] = answered[r]
           /\ r \in requests' => r \in requests
           /\ r \in open => r \in open'
    BY <1>1, <1>2, <1>8, <2>5 DEF Stays, InOp, InJob, InQueue
  <2>7. \A t, u \in Threads : cur'[t] \in Connections /\ cur'[t] = cur'[u] => t = u
    BY <1>3, <2>3 DEF PlaceInv, Distinct, InAnswer
  <2>8. Distinct'
    BY <1>1, <1>8, <2>7 DEF PlaceInv, Distinct
  <2> QED
    BY <1>1, <1>4, <1>5, <1>6, <2>4, <2>6, <2>8, MoveStep
<1> QED
  BY <1>7, <1>8 DEF HandleRequest

\* An operation ends for good: unless quit has aborted it the connection is closed.
LEMMA PlaceEnd ==
    ASSUME Types, ThreadOK, RegInv, PlaceInv, NEW x \in Connections, HandleEnd(x)
    PROVE  PlaceInv'
<1>1. /\ op[x] \in {"readError", "writeOk", "writeError", "aborted"}
      /\ op' = [op EXCEPT ![x] = "none"]
      /\ UNCHANGED <<acceptor, accept, nextRequest, peer, answered, attached, queue, cur>>
      /\ \/ op[x] = "aborted" /\ UNCHANGED <<requests, open>>
         \/ requests' = requests \ {x} /\ open' = open \ {x}
  BY Frames DEF HandleEnd, StopRequest
<1>2. op'[x] = "none" /\ \A r \in Connections \ {x} : op'[r] = op[r]
  BY <1>1 DEF Types, ConnTypes
<1>3. InOp(x) /\ ~Nowhere(x) /\ ~InQueue(x) /\ ~InJob(x) /\ ~InAnswer(x)
  BY <1>1 DEF PlaceInv, LifeOf, InOp, Nowhere
<1>4. peer[x] # "none"
  BY <1>3 DEF PlaceInv, LifeOf
<1>5. x \notin requests'
  <2>1. CASE op[x] = "aborted" /\ UNCHANGED requests
    BY <2>1 DEF PlaceInv, LifeOf, RegInv, Registered
  <2> QED
    BY <1>1, <2>1
<1>6. Nowhere(x)'
  BY <1>1, <1>2, <1>3 DEF Nowhere, InOp, InQueue, InJob, InAnswer
<1>7. LifeOf(x)'
  BY <1>1, <1>2, <1>4, <1>5, <1>6 DEF LifeOf, Nowhere, Last
<1>8. \A r \in Connections \ {x} :
         /\ Stays(r) /\ op'[r] = op[r] /\ answered'[r] = answered[r]
         /\ r \in requests' => r \in requests
         /\ r \in open => r \in open'
  BY <1>1, <1>2 DEF Stays, InOp, InQueue, InJob, InAnswer
<1>9. Distinct'
  BY <1>1 DEF PlaceInv, Distinct
<1> QED
  BY <1>1, <1>3, <1>7, <1>8, <1>9, MoveStep DEF ThreadOK

\* An answer is written: the connection is left to its write.
LEMMA PlaceWrite ==
    ASSUME Types, ThreadOK, PlaceInv, NEW th \in Threads, Write(th)
    PROVE  PlaceInv'
<1>1. PICK x \in Connections : cur[th] = x /\ x # NoConnection
  BY ConnectionAssumption DEF Write, ThreadOK, Answering, Types, HandTypes
<1>2. /\ UNCHANGED <<acceptor, accept, nextRequest, requests, open, peer, queue, attached>>
      /\ answered' = [answered EXCEPT ![x] = TRUE] /\ Started(x, "write") /\ Return(th)
  BY <1>1, Frames DEF Write
<1>3. op'[x] \in {"write", "writeError"} /\ \A r \in Connections \ {x} : op'[r] = op[r]
  BY <1>2, Starts DEF Failed, Types
<1>4. cur'[th] = NoConnection /\ \A u \in Threads \ {th} : cur'[u] = cur[u]
  BY <1>2, Returns DEF Types
<1>5. InAnswer(x) /\ ~Nowhere(x) /\ \A u \in Threads \ {th} : cur[u] # x
  BY <1>1 DEF InAnswer, Nowhere, PlaceInv, Distinct
<1>6. ~InQueue(x) /\ ~InJob(x) /\ peer[x] # "none" /\ (acceptor => x \in open)
  BY <1>5 DEF PlaceInv, LifeOf
<1>7. InOp(x)' /\ ~InQueue(x)' /\ ~InJob(x)' /\ ~InAnswer(x)'
  BY <1>1, <1>2, <1>3, <1>4, <1>5, <1>6 DEF InOp, InQueue, InJob, InAnswer
<1>8. op'[x] \in Last /\ op'[x] # "aborted" /\ peer'[x] # "none" /\ (acceptor' => x \in open')
  BY <1>2, <1>3, <1>6 DEF Last
<1>9. LifeOf(x)'
  BY <1>7, <1>8 DEF LifeOf, Nowhere
<1>10. \A r \in Connections \ {x} : InAnswer(r)' <=> InAnswer(r)
  BY <1>1, <1>4, ConnectionAssumption DEF InAnswer
<1>11. \A r \in Connections \ {x} :
          /\ Stays(r) /\ op'[r] = op[r] /\ answered'[r] = answered[r]
          /\ r \in requests' => r \in requests
          /\ r \in open => r \in open'
  BY <1>2, <1>3, <1>10 DEF Stays, InOp, InQueue, InJob
<1>12. \A t, u \in Threads : cur'[t] \in Connections /\ cur'[t] = cur'[u] => t = u
  BY <1>4, ConnectionAssumption DEF PlaceInv, Distinct
<1>13. Distinct'
  BY <1>2, <1>12 DEF PlaceInv, Distinct
<1> QED
  BY <1>2, <1>5, <1>9, <1>11, <1>13, MoveStep DEF ThreadOK

\* The first of the queue leaves it, and nobody else does.
LEMMA QueueLeft ==
    ASSUME Types, PlaceInv, queue # << >>, queue' = Tail(queue)
    PROVE  /\ Head(queue) \in Connections /\ InQueue(Head(queue))
           /\ \A i \in DOMAIN queue' : queue'[i] # Head(queue)
           /\ \A r \in Connections \ {Head(queue)} : InQueue(r)' <=> InQueue(r)
           /\ \A i, j \in DOMAIN queue' : queue'[i] = queue'[j] => i = j
<1>1. /\ Head(queue) \in Connections /\ Head(queue) = queue[1] /\ 1 \in DOMAIN queue
      /\ \A i \in DOMAIN queue' : i + 1 \in DOMAIN queue /\ queue'[i] = queue[i + 1]
                                  /\ i \in Int /\ i >= 1
      /\ \A i \in DOMAIN queue : i # 1 => i - 1 \in DOMAIN queue' /\ queue'[i - 1] = queue[i]
  BY QueueTail DEF Types
<1>2. \A i, j \in DOMAIN queue : queue[i] = queue[j] => i = j
  BY DEF PlaceInv, Distinct
<1>3. \A i \in DOMAIN queue' : i + 1 # 1
  BY <1>1
<1>4. \A i \in DOMAIN queue' : queue'[i] # Head(queue)
  BY <1>1, <1>2, <1>3
<1>5. \A i, j \in DOMAIN queue' : queue'[i] = queue'[j] => i = j
  <2> TAKE i, j \in DOMAIN queue'
  <2> HAVE queue'[i] = queue'[j]
  <2>1. i + 1 = j + 1
    BY <1>1, <1>2
  <2> QED
    BY <1>1, <2>1
<1>6. \A r \in Connections \ {Head(queue)} : InQueue(r)' <=> InQueue(r)
  BY <1>1 DEF InQueue
<1> QED
  BY <1>1, <1>4, <1>5, <1>6 DEF InQueue

\* A connection with one more place but op, queue and answered unchanged otherwise.
LEMMA LifeMoves ==
    ASSUME NEW x \in Connections, LifeOf(x), ~Nowhere(x), ~InOp(x), ~answered[x],
           UNCHANGED <<acceptor, requests, open, peer, op, answered>>,
           ~InQueue(x)', InJob(x)' <=> ~InAnswer(x)'
    PROVE  LifeOf(x)'
<1>1. ~InOp(x)' /\ ~answered'[x] /\ op'[x] # "aborted" /\ peer'[x] # "none"
      /\ (acceptor' => x \in open')
  BY DEF LifeOf, InOp, Nowhere
<1> QED
  BY <1>1 DEF LifeOf, Nowhere

\* A request with a bad url goes from the queue to the worker that answers it.
LEMMA PlaceTakeBad ==
    ASSUME Types, ThreadOK, PlaceInv, NEW w \in Workers, TakeBad(w)
    PROVE  PlaceInv'
<1>1. /\ UNCHANGED <<acceptor, accept, nextRequest, requests, open, peer, op, answered, attached>>
      /\ queue # << >> /\ queue' = Tail(queue) /\ cur' = [cur EXCEPT ![w] = Head(queue)]
      /\ w \in Threads /\ pc[w] = "idle"
  BY Frames DEF TakeBad, Threads
<1>2. PICK x \in Connections : x = Head(queue) /\ InQueue(x)
  BY <1>1, QueueLeft
<1>3. /\ \A i \in DOMAIN queue' : queue'[i] # x
      /\ \A r \in Connections \ {x} : InQueue(r)' <=> InQueue(r)
      /\ \A i, j \in DOMAIN queue' : queue'[i] = queue'[j] => i = j
  BY <1>1, <1>2, QueueLeft
<1>4. cur[w] = NoConnection /\ cur'[w] = x /\ \A u \in Threads \ {w} : cur'[u] = cur[u]
  BY <1>1, <1>2 DEF ThreadOK, Answering, Types, HandTypes
<1>5. ~InOp(x) /\ ~InJob(x) /\ ~InAnswer(x) /\ ~answered[x] /\ ~Nowhere(x) /\ LifeOf(x)
  BY <1>2 DEF PlaceInv, LifeOf, Nowhere
<1>6. ~InQueue(x)' /\ ~InJob(x)' /\ InAnswer(x)'
  BY <1>1, <1>3, <1>4, <1>5 DEF InQueue, InJob, InAnswer
<1>7. LifeOf(x)'
  BY <1>1, <1>5, <1>6, LifeMoves
<1>8. \A r \in Connections \ {x} : InAnswer(r)' <=> InAnswer(r)
  BY <1>1, <1>4, ConnectionAssumption DEF InAnswer
<1>9. \A r \in Connections \ {x} :
         /\ Stays(r) /\ op'[r] = op[r] /\ answered'[r] = answered[r]
         /\ r \in requests' => r \in requests
         /\ r \in open => r \in open'
  BY <1>1, <1>3, <1>8 DEF Stays, InOp, InJob
<1>10. \A t, u \in Threads : cur'[t] \in Connections /\ cur'[t] = cur'[u] => t = u
  BY <1>4, <1>5 DEF PlaceInv, Distinct, InAnswer
<1>11. Distinct'
  BY <1>1, <1>3, <1>10 DEF PlaceInv, Distinct
<1> QED
  BY <1>1, <1>5, <1>7, <1>9, <1>11, MoveStep DEF ThreadOK

\* Any other request goes from the queue to a job, a new one or one that renders.
LEMMA PlaceTake ==
    ASSUME Types, ThreadOK, PlaceInv, NEW w \in Workers, NEW a \in Areas, Take(w, a)
    PROVE  PlaceInv'
<1>1. /\ UNCHANGED <<acceptor, accept, nextRequest, requests, open, peer, op, answered, cur>>
      /\ queue # << >> /\ queue' = Tail(queue) /\ pc[w] = "idle"
  BY Frames DEF Take
<1>2. PICK x \in Connections : x = Head(queue) /\ InQueue(x)
  BY <1>1, QueueLeft
<1>3. /\ \A i \in DOMAIN queue' : queue'[i] # x
      /\ \A r \in Connections \ {x} : InQueue(r)' <=> InQueue(r)
      /\ \A i, j \in DOMAIN queue' : queue'[i] = queue'[j] => i = j
  BY <1>1, <1>2, QueueLeft
<1>4. PICK v \in Workers : attached' = [attached EXCEPT ![v] = attached[v] \cup {x}]
  <2>1. CASE Rendering(a) # {}
    BY <1>2, <2>1 DEF Take, Rendering
  <2>2. CASE Rendering(a) = {}
    <3>1. attached[w] = {}
      BY <1>1 DEF ThreadOK
    <3>2. attached[w] \cup {x} = {Head(queue)}
      BY <1>2, <3>1
    <3> QED
      BY <2>2, <3>2 DEF Take
  <2> QED
    BY <2>1, <2>2
<1>5. attached'[v] = attached[v] \cup {x} /\ \A u \in Workers \ {v} : attached'[u] = attached[u]
  BY <1>4 DEF Types, HandTypes
<1>6. ~InOp(x) /\ ~InJob(x) /\ ~InAnswer(x) /\ ~answered[x] /\ ~Nowhere(x) /\ LifeOf(x)
  BY <1>2 DEF PlaceInv, LifeOf, Nowhere
<1>7. ~InQueue(x)' /\ InJob(x)' /\ ~InAnswer(x)'
  BY <1>1, <1>3, <1>5, <1>6 DEF InQueue, InJob, InAnswer
<1>8. LifeOf(x)'
  BY <1>1, <1>6, <1>7, LifeMoves
<1>9. \A r \in Connections \ {x} : InJob(r)' <=> InJob(r)
  BY <1>5 DEF InJob
<1>10. \A r \in Connections \ {x} :
         /\ Stays(r) /\ op'[r] = op[r] /\ answered'[r] = answered[r]
         /\ r \in requests' => r \in requests
         /\ r \in open => r \in open'
  BY <1>1, <1>3, <1>9 DEF Stays, InOp, InAnswer
<1>11. \A t, u \in Workers : \A r \in attached'[t] : r \in attached'[u] => t = u
  BY <1>5, <1>6 DEF PlaceInv, Distinct, InJob
<1>12. Distinct'
  BY <1>1, <1>3, <1>11 DEF PlaceInv, Distinct
<1> QED
  BY <1>1, <1>6, <1>8, <1>10, <1>12, MoveStep DEF ThreadOK

\* A request goes from its job to the answer of the job's worker.
LEMMA PlaceRespond ==
    ASSUME Types, ThreadOK, PlaceInv, NEW w \in Workers, Respond(w)
    PROVE  PlaceInv'
<1>1. /\ UNCHANGED <<acceptor, accept, nextRequest, requests, open, peer, op, answered, queue>>
      /\ w \in Threads /\ pc[w] = "respond"
  BY Frames DEF Respond, Threads
<1>2. PICK x \in attached[w] : /\ attached' = [attached EXCEPT ![w] = attached[w] \ {x}]
                               /\ cur' = [cur EXCEPT ![w] = x]
  BY DEF Respond
<1>3. x \in Connections
  BY <1>2 DEF Types, HandTypes
<1>4. cur[w] = NoConnection /\ cur'[w] = x /\ \A u \in Threads \ {w} : cur'[u] = cur[u]
  BY <1>1, <1>2 DEF ThreadOK, Answering, Types, HandTypes
<1>5. attached'[w] = attached[w] \ {x} /\ \A u \in Workers \ {w} : attached'[u] = attached[u]
  BY <1>2 DEF Types, HandTypes
<1>6. InJob(x) /\ \A u \in Workers \ {w} : x \notin attached[u]
  BY <1>2 DEF InJob, PlaceInv, Distinct
<1>7. ~InOp(x) /\ ~InQueue(x) /\ ~InAnswer(x) /\ ~answered[x] /\ ~Nowhere(x) /\ LifeOf(x)
  BY <1>3, <1>6 DEF PlaceInv, LifeOf, Nowhere
<1>8. ~InQueue(x)' /\ ~InJob(x)' /\ InAnswer(x)'
  BY <1>1, <1>4, <1>5, <1>6, <1>7 DEF InQueue, InJob, InAnswer
<1>9. LifeOf(x)'
  BY <1>1, <1>3, <1>7, <1>8, LifeMoves
<1>10. \A r \in Connections \ {x} : /\ InAnswer(r)' <=> InAnswer(r)
                                    /\ InJob(r)' <=> InJob(r)
  BY <1>1, <1>4, <1>5, ConnectionAssumption DEF InAnswer, InJob
<1>11. \A r \in Connections \ {x} :
         /\ Stays(r) /\ op'[r] = op[r] /\ answered'[r] = answered[r]
         /\ r \in requests' => r \in requests
         /\ r \in open => r \in open'
  BY <1>1, <1>10 DEF Stays, InOp, InQueue
<1>12. \A t, u \in Threads : cur'[t] \in Connections /\ cur'[t] = cur'[u] => t = u
  BY <1>4, <1>7 DEF PlaceInv, Distinct, InAnswer
<1>13. \A t, u \in Workers : \A r \in attached'[t] : r \in attached'[u] => t = u
  BY <1>5 DEF PlaceInv, Distinct
<1>14. Distinct'
  BY <1>1, <1>12, <1>13 DEF PlaceInv, Distinct
<1> QED
  BY <1>1, <1>3, <1>7, <1>9, <1>11, <1>14, MoveStep DEF ThreadOK

\* Every step keeps the places.
LEMMA PlaceStep ==
    ASSUME Types, ThreadOK, RegInv, PlaceInv, [Next]_vars
    PROVE  PlaceInv'
<1>1. ASSUME NEW th \in Threads, Fill(th) PROVE ~Return(th)
  BY <1>1, FillAnswers
<1>2. ASSUME NEW th \in Threads, Answer(th) PROVE PlaceInv'
  <2>1. CASE FindDefault(th) \/ CreateDefault(th) \/ LoadDefault(th)
    BY <2>1, PlaceQuiet
  <2>2. CASE Fill(th)
    BY <1>1, <2>2, PlaceQuiet
  <2>3. CASE Write(th)
    BY <2>3, PlaceWrite
  <2> QED
    BY <1>2, <2>1, <2>2, <2>3 DEF Answer
<1>3. ASSUME NEW w \in Workers, Worker(w) PROVE PlaceInv'
  <2>1. CASE TakeBad(w) \/ Respond(w)
    BY <2>1, PlaceTakeBad, PlaceRespond
  <2>2. ASSUME NEW a \in Areas, Take(w, a) PROVE PlaceInv'
    BY <2>2, PlaceTake
  <2>3. CASE Finished(w) \/ Deliver(w) \/ SetImage(w) \/ JobDone(w)
    BY <2>3, PlaceQuiet
  <2>4. CASE Answer(w)
    BY <1>2, <2>4 DEF Threads
  <2> QED
    BY <1>3, <2>1, <2>2, <2>3, <2>4 DEF Worker
<1>4. ASSUME Network PROVE PlaceInv'
  <2>1. CASE HandleAccept
    BY <2>1, PlaceAccept, PlaceQuiet
  <2>2. CASE Quit \/ ListenReturns \/ Joined
    BY <2>2, PlaceQuiet
  <2>3. CASE Answer(Net)
    BY <1>2, <2>3 DEF Threads
  <2>4. ASSUME NEW r \in Connections, HandleRequest(r) \/ HandleMore(r) \/ HandleEnd(r)
        PROVE  PlaceInv'
    BY <2>4, PlaceRequest, PlaceEnd, PlaceQuiet
  <2> QED
    BY <1>4, <2>1, <2>2, <2>3, <2>4 DEF Network
<1>5. ASSUME World PROVE PlaceInv'
  BY <1>5, PlaceQuiet DEF World
<1> QED
  BY <1>3, <1>4, <1>5, PlaceQuiet DEF Next, Over
-----------------------------------------------------------------------------
HttpInv == Types /\ ThreadOK /\ RegInv /\ PlaceInv

\* The inductive invariant holds in every state.
LEMMA PlacesHold == Spec => []HttpInv
<1>1. Init => HttpInv
  BY TypesInit, ThreadInit, RegInit, PlaceInit DEF HttpInv
<1>2. HttpInv /\ [Next]_vars => HttpInv'
  BY TypeStep, ThreadStep, RegStep, PlaceStep DEF HttpInv
<1> QED
  BY <1>1, <1>2, PTL DEF Spec

\* Sockets are open exactly while they are registered, apart from the one that is
\* being accepted, and none is registered once quit has run: for any number of clients.
THEOREM SocketsAreRegistered == Spec => []Registered
<1>1. HttpInv => Registered
  BY DEF HttpInv, RegInv
<1> QED
  BY <1>1, PlacesHold, PTL

\* The places of a connection, counted.
LEMMA HoldersCounted ==
    ASSUME HttpInv, NEW r \in Connections
    PROVE  /\ Cardinality(Holders(r)) <= 1
           /\ r \in requests => Holders(r) # {}
<1>1. LifeOf(r) /\ Distinct
  BY DEF HttpInv, PlaceInv
<1>2. ASSUME NEW x \in Holders(r)
      PROVE  \/ InOp(r) /\ x = <<"operation", r>>
             \/ \E i \in DOMAIN queue : queue[i] = r /\ x = <<"queue", i>>
             \/ \E w \in Workers : r \in attached[w] /\ x = <<"job", w>>
             \/ \E th \in Threads : cur[th] = r /\ x = <<"answer", th>>
  BY <1>2 DEF Holders, InOp
<1>3. ASSUME NEW x \in Holders(r), NEW y \in Holders(r)
      PROVE  x = y
  <2>1. CASE InOp(r)
    BY <1>1, <1>2, <1>3, <2>1 DEF LifeOf, InQueue, InJob, InAnswer
  <2>2. CASE InQueue(r)
    BY <1>1, <1>2, <1>3, <2>2 DEF LifeOf, InQueue, InJob, InAnswer, Distinct
  <2>3. CASE InJob(r)
    BY <1>1, <1>2, <1>3, <2>3 DEF LifeOf, InQueue, InJob, InAnswer, Distinct
  <2>4. CASE InAnswer(r)
    BY <1>1, <1>2, <1>3, <2>4 DEF LifeOf, InQueue, InJob, InAnswer, Distinct
  <2> QED
    BY <1>2, <2>1, <2>2, <2>3, <2>4 DEF InQueue, InJob, InAnswer
<1>4. Holders(r) = {} \/ \E x \in Holders(r) : Holders(r) = {x}
  BY <1>3
<1>5. Cardinality(Holders(r)) <= 1
  BY <1>4, FS_EmptySet, FS_Singleton
<1>6. ASSUME r \in requests PROVE Holders(r) # {}
  <2>1. ~Nowhere(r)
    BY <1>1, <1>6 DEF LifeOf
  <2> QED
    BY <2>1 DEF Nowhere, Holders, InOp, InQueue, InJob, InAnswer
<1> QED
  BY <1>5, <1>6

\* A connection the server keeps is in exactly one hand, in every reachable state and
\* for any number of threads and clients.
THEOREM ConnectionsAreHeld == Spec => []OneHolder
<1>1. HttpInv => OneHolder
  BY HoldersCounted DEF OneHolder
<1> QED
  BY <1>1, PlacesHold, PTL
-----------------------------------------------------------------------------
\* A tile that is being answered with has its image, unless it is a default tile; the
\* default tile in use has its image or a thread that is about to read it.
ImageInv ==
    /\ \A th \in Threads : pc[th] = "fill" /\ tile[th] \in Tiles => image[tile[th]] # 0
    /\ \A w \in Workers : area[w] \in Areas /\ pc[w] \in Answering \cup {"respond"} =>
          image[TileOf[area[w]]] # 0
    /\ DefaultTile # NoTile => image[DefaultTile] # 0 \/ \E th \in Threads : pc[th] = "load"

\* At the start no answer is under way.
LEMMA ImageInit == Init => ImageInv
BY ConnectionAssumption DEF Init, ImageInv, Answering, Threads

\* Only th moves, and images are not unset.
LEMMA ImageMoves ==
    ASSUME Types, ImageInv, NEW th \in Threads,
           \A u \in Threads \ {th} : pc'[u] = pc[u] /\ tile'[u] = tile[u],
           \A t \in Objects : image[t] # 0 => image'[t] # 0,
           \A w \in Workers \ {th} : area'[w] = area[w],
           DefaultTile' # NoTile =>
              \/ pc'[th] = "load" \/ image'[DefaultTile'] # 0
              \/ DefaultTile' = DefaultTile /\ pc[th] # "load",
           pc'[th] = "fill" /\ tile'[th] \in Tiles => image'[tile'[th]] # 0,
           /\ th \in Workers /\ area'[th] \in Areas
           /\ pc'[th] \in Answering \cup {"respond"}
           => image'[TileOf[area'[th]]] # 0
    PROVE  ImageInv'
<1>1. \A u \in Threads : pc'[u] = "fill" /\ tile'[u] \in Tiles => image'[tile'[u]] # 0
  BY DEF ImageInv, Objects
<1>2. \A w \in Workers : area'[w] \in Areas /\ pc'[w] \in Answering \cup {"respond"} =>
          image'[TileOf[area'[w]]] # 0
  <2> SUFFICES ASSUME NEW w \in Workers \ {th}, area[w] \in Areas,
                      pc[w] \in Answering \cup {"respond"}
               PROVE  image'[TileOf[area[w]]] # 0
    BY DEF Threads
  <2>1. image[TileOf[area[w]]] # 0 /\ TileOf[area[w]] \in Objects
    BY DEF ImageInv, Objects, Tiles
  <2> QED
    BY <2>1
<1>3. DefaultTile' # NoTile => image'[DefaultTile'] # 0 \/ \E u \in Threads : pc'[u] = "load"
  <2> SUFFICES ASSUME DefaultTile' # NoTile, DefaultTile' = DefaultTile, pc[th] # "load",
                      image'[DefaultTile] = 0
               PROVE  \E u \in Threads : pc'[u] = "load"
    OBVIOUS
  <2>1. DefaultTile \in Objects
    BY DEF Types, TileTypes, Objects
  <2>2. PICK u \in Threads : pc[u] = "load"
    BY <2>1 DEF ImageInv
  <2> QED
    BY <2>2
<1> QED
  BY <1>1, <1>2, <1>3 DEF ImageInv

\* The steps of answering.
LEMMA ImageAnswer ==
    ASSUME Types, ThreadOK, ImageInv, NEW th \in Threads, Answer(th)
    PROVE  ImageInv'
<1> USE DEF Types
<1>0. /\ pc[th] \in Answering /\ area' = area /\ image \in [Objects -> Nat]
      /\ th \in Workers /\ area[th] \in Areas => image[TileOf[area[th]]] # 0
  BY Frames DEF Answer, FindDefault, CreateDefault, LoadDefault, Fill, Write, Answering,
     TileTypes, ImageInv
<1>1. CASE FindDefault(th)
  <2>1. PICK l \in {"create", "fill"} : Goto(th, l) /\ (l = "fill" => tile'[th] = DefaultTile)
    BY <1>1 DEF FindDefault, HandTypes
  <2>2. pc'[th] = l /\ \A u \in Threads \ {th} : pc'[u] = pc[u]
    BY <2>1, Moves DEF LabelsOf, Answering
  <2>3. UNCHANGED <<image, DefaultTile>> /\ pc[th] # "load"
        /\ \A u \in Threads \ {th} : tile'[u] = tile[u]
    BY <1>1, Frames DEF FindDefault, HandTypes
  <2>4. DefaultTile \notin Tiles
    BY ConnectionAssumption DEF TileTypes
  <2> QED
    BY <1>0, <2>1, <2>2, <2>3, <2>4, ImageMoves
<1>2. CASE CreateDefault(th)
  <2>1. pc'[th] = "load" /\ \A u \in Threads \ {th} : pc'[u] = pc[u]
    BY <1>2, Moves DEF CreateDefault, LabelsOf, Answering
  <2>2. UNCHANGED <<image, tile>>
    BY <1>2 DEF CreateDefault
  <2> QED
    BY <1>0, <2>1, <2>2, ImageMoves
<1>3. CASE LoadDefault(th)
  <2>1. pc'[th] = "fill" /\ \A u \in Threads \ {th} : pc'[u] = pc[u]
    BY <1>3, Moves DEF LoadDefault, LabelsOf, Answering
  <2>2. DefaultTile \in Objects /\ DefaultTile' = DefaultTile
    BY <1>3 DEF LoadDefault, ThreadOK, Objects
  <2>3. image'[DefaultTile] # 0 /\ \A u \in Objects : image[u] # 0 => image'[u] # 0
    BY <1>3, <2>2, ImageSet DEF LoadDefault
  <2>4. tile'[th] = DefaultTile /\ \A u \in Threads \ {th} : tile'[u] = tile[u]
    BY <1>3 DEF LoadDefault, HandTypes
  <2>5. \A a \in Areas : TileOf[a] \in Objects
    BY DEF Objects, Tiles
  <2> QED
    BY <1>0, <2>1, <2>2, <2>3, <2>4, <2>5, ImageMoves
<1>4. CASE Fill(th) \/ Write(th)
  <2>1. UNCHANGED <<image, DefaultTile>> /\ pc[th] # "load"
    BY <1>4, Frames DEF Fill, Write
  <2>2. CASE Return(th)
    <3>1. pc'[th] \notin {"fill", "load"}
          /\ \A u \in Threads \ {th} : pc'[u] = pc[u] /\ tile'[u] = tile[u]
      BY <2>2, Returns
    <3> QED
      BY <1>0, <2>1, <3>1, ImageMoves
  <2>3. CASE UNCHANGED threadVars
    BY <1>0, <2>1, <2>3, Frames DEF ImageInv
  <2>4. CASE Goto(th, "write") /\ UNCHANGED tile
    <3>1. pc'[th] = "write" /\ \A u \in Threads \ {th} : pc'[u] = pc[u]
      BY <2>4, Moves DEF LabelsOf, Answering
    <3> QED
      BY <1>0, <2>1, <2>4, <3>1, ImageMoves
  <2> QED
    BY <1>4, <2>2, <2>3, <2>4 DEF Fill, Write
<1> QED
  BY <1>1, <1>2, <1>3, <1>4 DEF Answer

\* The steps of jobs.
LEMMA ImageJob ==
    ASSUME Types, ThreadOK, ImageInv, NEW w \in Workers,
           \/ TakeBad(w) \/ \E a \in Areas : Take(w, a)
           \/ Finished(w) \/ Deliver(w) \/ SetImage(w) \/ Respond(w) \/ JobDone(w)
    PROVE  ImageInv'
<1> USE DEF Types
<1>0. w \in Threads /\ DefaultTile' = DefaultTile /\ \A a \in Areas : TileOf[a] \in Objects
  BY Frames DEF Threads, TakeBad, Take, Finished, Deliver, SetImage, Respond, JobDone,
     Objects, Tiles
<1>1. CASE TakeBad(w)
  <2>1. pc'[w] = "default" /\ \A u \in Threads \ {w} : pc'[u] = pc[u]
    BY <1>0, <1>1, Moves DEF TakeBad, LabelsOf, Answering
  <2>2. UNCHANGED <<image, tile, area>> /\ pc[w] = "idle" /\ area[w] = NoArea
    BY <1>1, Frames DEF TakeBad, ThreadOK
  <2> QED
    BY <1>0, <2>1, <2>2, ConnectionAssumption, ImageMoves
<1>2. ASSUME NEW a \in Areas, Take(w, a) PROVE ImageInv'
  <2>1. UNCHANGED <<image, tile>> /\ pc[w] = "idle"
    BY <1>2, Frames DEF Take
  <2>2. CASE UNCHANGED <<pc, area>>
    BY <1>0, <2>1, <2>2 DEF ImageInv
  <2>3. CASE area' = [area EXCEPT ![w] = a] /\ Goto(w, "render")
    <3>1. pc'[w] = "render" /\ \A u \in Threads \ {w} : pc'[u] = pc[u]
      BY <1>0, <2>3, ConnectionAssumption, Moves DEF LabelsOf
    <3>2. \A v \in Workers \ {w} : area'[v] = area[v]
      BY <2>3 DEF HandTypes
    <3>3. "render" \notin Answering \cup {"respond", "load", "fill"}
      BY DEF Answering
    <3> QED
      BY <1>0, <2>1, <3>1, <3>2, <3>3, ImageMoves
  <2> QED
    BY <1>2, <2>2, <2>3 DEF Take
<1>3. CASE Finished(w) \/ Deliver(w)
  <2>1. PICK l \in {"deliver", "draw", "respond"} :
           Goto(w, l) /\ (l = "respond" => image[TileOf[area[w]]] # 0)
    BY <1>3 DEF Finished, Deliver
  <2>2. pc'[w] = l /\ \A u \in Threads \ {w} : pc'[u] = pc[u]
    BY <1>0, <2>1, ConnectionAssumption, Moves DEF LabelsOf
  <2>3. UNCHANGED <<image, tile, area>> /\ pc[w] # "load"
    BY <1>3, Frames DEF Finished, Deliver
  <2>4. l \notin Answering
    BY DEF Answering
  <2> QED
    BY <1>0, <2>1, <2>2, <2>3, <2>4, ImageMoves DEF Answering
<1>4. CASE SetImage(w)
  <2>1. pc'[w] = "respond" /\ \A u \in Threads \ {w} : pc'[u] = pc[u]
    BY <1>0, <1>4, ConnectionAssumption, Moves DEF SetImage, LabelsOf
  <2>2. UNCHANGED <<tile, area>> /\ pc[w] = "draw" /\ area[w] \in Areas
    BY <1>4, Frames DEF SetImage, ThreadOK
  <2>3. image'[TileOf[area[w]]] # 0 /\ \A u \in Objects : image[u] # 0 => image'[u] # 0
    BY <1>0, <1>4, <2>2, ImageSet DEF SetImage
  <2> QED
    BY <1>0, <2>1, <2>2, <2>3, ImageMoves
<1>5. CASE Respond(w)
  <2>1. pc'[w] = "fill" /\ \A u \in Threads \ {w} : pc'[u] = pc[u]
    BY <1>0, <1>5, Moves DEF Respond, LabelsOf, Answering
  <2>2. UNCHANGED <<image, area>> /\ pc[w] = "respond" /\ area[w] \in Areas
    BY <1>5, Frames DEF Respond, ThreadOK
  <2>3. tile'[w] = TileOf[area[w]] /\ \A u \in Threads \ {w} : tile'[u] = tile[u]
    BY <1>0, <1>5 DEF Respond, HandTypes
  <2>4. image[TileOf[area[w]]] # 0
    BY <2>2 DEF ImageInv
  <2> QED
    BY <1>0, <2>1, <2>2, <2>3, <2>4, ImageMoves
<1>6. CASE JobDone(w)
  <2>1. pc'[w] = "idle" /\ \A u \in Threads \ {w} : pc'[u] = pc[u]
    BY <1>0, <1>6, ConnectionAssumption, Moves DEF JobDone, LabelsOf
  <2>2. UNCHANGED <<image, tile>> /\ pc[w] = "respond"
        /\ \A v \in Workers \ {w} : area'[v] = area[v]
    BY <1>6, Frames DEF JobDone, HandTypes
  <2>3. "idle" \notin Answering \cup {"respond", "load", "fill"}
    BY DEF Answering
  <2> QED
    BY <1>0, <2>1, <2>2, <2>3, ImageMoves
<1> QED
  BY <1>1, <1>2, <1>3, <1>4, <1>5, <1>6

\* Every step keeps the images.
LEMMA ImageStep ==
    ASSUME Types, ThreadOK, ImageInv, [Next]_vars
    PROVE  ImageInv'
<1> USE DEF Types
<1>1. CASE UNCHANGED <<pc, tile, area, image, DefaultTile>>
  BY <1>1 DEF ImageInv
<1>2. ASSUME NEW r \in Connections, HandleRequest(r) PROVE ImageInv'
  <2>1. UNCHANGED <<tile, area, image, DefaultTile>>
    BY <1>2, Frames DEF HandleRequest
  <2>2. CASE Goto(Net, "default")
    <3>1. /\ Net \in Threads \ Workers /\ pc[Net] = "run" /\ pc'[Net] = "default"
          /\ \A u \in Threads \ {Net} : pc'[u] = pc[u]
      BY <1>2, <2>2, ConnectionAssumption, Moves DEF HandleRequest, Threads, LabelsOf, Answering
    <3> QED
      BY <2>1, <3>1, ImageMoves
  <2> QED
    BY <1>1, <1>2, <2>1, <2>2 DEF HandleRequest
<1>3. CASE ListenReturns \/ Joined
  <2>1. PICK l \in {"join", "stopped"} : pc[Net] \in {"run", "join"} /\ Goto(Net, l)
    BY <1>3 DEF ListenReturns, Joined
  <2>2. /\ Net \in Threads \ Workers /\ pc'[Net] = l
        /\ \A u \in Threads \ {Net} : pc'[u] = pc[u]
    BY <2>1, ConnectionAssumption, Moves DEF Threads, LabelsOf
  <2>3. UNCHANGED <<tile, area, image, DefaultTile>>
    BY <1>3, Frames DEF ListenReturns, Joined
  <2> QED
    BY <2>1, <2>2, <2>3, ImageMoves
<1>4. ASSUME \/ UNCHANGED vars \/ World \/ Over \/ HandleAccept \/ Quit
             \/ \E r \in Connections : HandleMore(r) \/ HandleEnd(r)
      PROVE  UNCHANGED <<pc, tile, area, image, DefaultTile>>
  BY <1>4, Frames DEF vars, World, Connect, AcceptFails, Signal, Completes, ClientLeaves, Over,
     HandleAccept, Quit, HandleMore, HandleEnd
<1>5. ASSUME NEW w \in Workers, Worker(w) PROVE ImageInv'
  <2>1. CASE Answer(w)
    BY <2>1, ImageAnswer DEF Threads
  <2>2. CASE ~Answer(w)
    BY <1>5, <2>2, ImageJob DEF Worker
  <2> QED
    BY <2>1, <2>2
<1>6. ASSUME Network PROVE ImageInv'
  <2>1. CASE Answer(Net)
    BY <2>1, ImageAnswer DEF Threads
  <2> QED
    BY <1>1, <1>2, <1>3, <1>4, <1>6, <2>1 DEF Network
<1> QED
  BY <1>1, <1>4, <1>5, <1>6 DEF Next
-----------------------------------------------------------------------------
\* Only the answers of a connection that is gone, or with a tile without an image, end
\* the process.
LEMMA EndStep ==
    ASSUME HttpInv, ImageInv, EndsForCause, [Next]_vars
    PROVE  EndsForCause'
<1> USE DEF HttpInv, Types
<1>1. CASE UNCHANGED vars
  <2>1. UNCHANGED <<ended, pc, cur, tile, peer, acceptor, DefaultTile>>
    BY <1>1, Frames DEF vars
  <2>2. ~acceptor => ~acceptor'
    BY <2>1
  <2> QED
    BY <2>1, <2>2 DEF EndsForCause
<1>2. CASE ended' = "no"
  BY <1>2 DEF EndsForCause
<1>3. ASSUME NEW th \in Threads, Fill(th), ended' # "no" PROVE EndsForCause'
  <2>1. /\ cur[th] \in Connections /\ InAnswer(cur[th]) /\ pc[th] = "fill" /\ ended = "no"
        /\ tile[th] \in Objects
    BY <1>3, FillAnswers DEF InAnswer, Fill, Up, ThreadOK
  <2>2. /\ UNCHANGED <<pc, cur, tile, peer, acceptor, DefaultTile>>
        /\ \/ ended' = "no image" /\ image[tile[th]] = 0
           \/ ended' = "no endpoint" /\ (cur[th] \notin open \/ peer[cur[th]] = "left")
    BY <1>3, <2>1, Frames DEF Fill
  <2>3. CASE ended' = "no endpoint"
    <3>1. cur[th] \notin open => ~acceptor
      BY <2>1 DEF PlaceInv, LifeOf, Nowhere
    <3>2. \E u \in Threads : pc[u] = "fill" /\ (peer[cur[u]] = "left" \/ ~acceptor)
      BY <2>1, <2>2, <2>3, <3>1
    <3>3. \E u \in Threads : pc'[u] = "fill" /\ (peer'[cur'[u]] = "left" \/ ~acceptor')
      BY <2>2, <3>2
    <3> QED
      BY <2>3, <3>3 DEF EndsForCause
  <2>4. CASE ended' = "no image"
    <3>1. image[tile[th]] = 0 /\ tile[th] \in Threads
      BY <2>1, <2>2, <2>4 DEF ImageInv, Objects
    <3>2. \E u \in Threads : \/ pc[u] = "load"
                             \/ pc[u] = "fill" /\ tile[u] \in Threads \ {DefaultTile}
      <4>1. CASE tile[th] = DefaultTile
        BY <3>1, <4>1, ConnectionAssumption DEF ImageInv
      <4>2. CASE tile[th] # DefaultTile
        BY <2>1, <3>1, <4>2
      <4> QED
        BY <4>1, <4>2
    <3> QED
      BY <2>2, <2>4, <3>2 DEF EndsForCause
  <2> QED
    BY <2>2, <2>3, <2>4
<1>4. ASSUME \/ Network /\ ~Answer(Net)
             \/ World
             \/ \E w \in Workers : Worker(w) /\ ~Answer(w)
      PROVE  ended' = "no"
  BY <1>4 DEF Network, World, Worker, Up, Connect, AcceptFails, Signal, Completes, ClientLeaves,
     HandleAccept, HandleRequest, HandleMore, HandleEnd, Quit, ListenReturns, Joined, TakeBad,
     Take, Finished, Deliver, SetImage, Respond, JobDone
<1>5. ASSUME NEW th \in Threads, Answer(th) PROVE EndsForCause'
  <2>1. CASE Fill(th)
    BY <1>2, <1>3, <2>1
  <2>2. CASE ~Fill(th)
    BY <1>2, <1>5, <2>2 DEF Answer, FindDefault, CreateDefault, LoadDefault, Write, Up
  <2> QED
    BY <2>1, <2>2
<1> QED
  BY <1>1, <1>2, <1>4, <1>5 DEF Next, Over, Network, Worker, Threads

\* The server ends by an exception or a fault only for the causes that EndsForCause
\* names, for any number of threads and clients.
THEOREM EndsAreCaused == Spec => []EndsForCause
<1>1. Init => ImageInv /\ EndsForCause
  BY ImageInit DEF Init, EndsForCause
<1>2. HttpInv /\ ImageInv /\ EndsForCause /\ [Next]_vars => (ImageInv /\ EndsForCause)'
  BY ImageStep, EndStep DEF HttpInv
<1> QED
  BY <1>1, <1>2, PlacesHold, PTL DEF Spec
=============================================================================
