--------------------------- MODULE HttpConnection ---------------------------
(***************************************************************************)
(* HttpServer, HttpRequest and the default tile of the Cache: the life of  *)
(* a connection.                                                           *)
(*                                                                         *)
(* The network thread runs the completion handlers of accepts, reads and   *)
(* writes, in any order, and the handler of the signal, which closes       *)
(* everything.  Workers answer requests meanwhile: they start the write.   *)
(* A reply refers to the image of its Tile; the buffers of the write do    *)
(* not own it.  Two areas may share a Tile (the empty tile of their        *)
(* style), and every error reply uses the default tile.                    *)
(*                                                                         *)
(* RequestManager has the queues in detail; here a job is what decides     *)
(* when replies are written and images are set.                            *)
(***************************************************************************)
EXTENDS Integers, Sequences, FiniteSets

CONSTANTS
    Workers, Net,   \* the worker threads and the network thread
    Connections,    \* bound: the clients that may connect
    Areas,          \* the meta tiles that urls may name
    TileOf,         \* area -> the Tile its replies show
    MaxQueue,       \* opt::server::max_queue_size
    NoConnection, NoArea, NoTile

Threads == Workers \cup {Net}
Tiles   == {TileOf[a] : a \in Areas}

ASSUME ConnectionAssumption ==
    /\ Net \notin Workers
    /\ Tiles \cap Threads = {}
    /\ MaxQueue \in Nat \ {0}
    /\ NoConnection \notin Connections /\ NoArea \notin Areas
    /\ NoTile \notin Tiles \cup Threads

VARIABLES
    acceptor,     \* whether the acceptor is open
    accept,       \* the asynchronous accept: "none", "pending" or its outcome
    nextRequest,  \* the HttpRequest the accept is for
    requests,     \* HttpServer::requests
    open,         \* the connections whose socket is open
    peer,         \* connection -> its client: "none", "there" or "left"
    op,           \* connection -> its asynchronous operation, or its outcome
    answered,     \* connection -> HttpRequest::answered
    reply,        \* connection -> tile, image Content-Length tells, image written
    queue,        \* requests in the RequestManager
    signalled,    \* the operator sent a signal
    ended,        \* "no", or the exception or fault that ended the process
    DefaultTile,  \* the Tile object, named after the thread that made it
    image,        \* Tile -> how often its image was set, 0: not rendered
    pc,           \* thread -> the step it is at
    cur,          \* thread -> the request it answers
    tile,         \* thread -> the tile it answers with
    area,         \* worker -> the area of its job
    attached      \* worker -> Job::requests

netVars    == <<acceptor, accept, nextRequest, requests, signalled>>
connVars   == <<open, peer, op>>
replyVars  == <<answered, reply>>
tileVars   == <<DefaultTile, image>>
jobVars    == <<area, attached>>
threadVars == <<pc, cur, tile>>
vars == <<netVars, connVars, replyVars, queue, ended, tileVars, jobVars, threadVars>>

Received  == {"complete", "bad", "more"}
Completed == Received \cup {"readError", "writeOk", "writeError", "aborted"}
Answering == {"default", "create", "load", "fill", "write"}

Init ==
    /\ acceptor = TRUE /\ accept = "pending" /\ nextRequest \in Connections
    /\ requests = {} /\ open = {}
    /\ peer = [r \in Connections |-> "none"]
    /\ op = [r \in Connections |-> "none"]
    /\ answered = [r \in Connections |-> FALSE]
    /\ reply = [r \in Connections |-> [tile |-> NoTile, size |-> 0, body |-> 0]]
    /\ queue = << >> /\ signalled = FALSE /\ ended = "no"
    /\ DefaultTile = NoTile
    /\ image = [t \in Tiles \cup Threads |-> 0]
    /\ pc = [th \in Threads |-> IF th = Net THEN "run" ELSE "idle"]
    /\ cur = [th \in Threads |-> NoConnection]
    /\ tile = [th \in Threads |-> NoTile]
    /\ area = [w \in Workers |-> NoArea]
    /\ attached = [w \in Workers |-> {}]

\* The process is running.
Up == ended = "no"

Goto(th, label) == pc' = [pc EXCEPT ![th] = label]
-----------------------------------------------------------------------------
(* Clients, the operating system and the operator.                         *)

Connect ==
    /\ Up /\ accept = "pending" /\ nextRequest # NoConnection
    /\ accept' = "ok"
    /\ open' = open \cup {nextRequest}
    /\ peer' = [peer EXCEPT ![nextRequest] = "there"]
    /\ UNCHANGED <<acceptor, nextRequest, requests, signalled, op, replyVars,
                   queue, ended, tileVars, jobVars, threadVars>>

AcceptFails ==
    /\ Up /\ accept = "pending"
    /\ accept' = "error"
    /\ UNCHANGED <<acceptor, nextRequest, requests, signalled, connVars, replyVars,
                   queue, ended, tileVars, jobVars, threadVars>>

\* A read or write ends.  What a client sent before it left may still arrive; when
\* it has left, reads fail in the end, and writes may.
Completes(r) ==
    /\ Up
    /\ \/ op[r] = "read" /\ \E o \in Received : op' = [op EXCEPT ![r] = o]
       \/ op[r] = "read" /\ peer[r] = "left" /\ op' = [op EXCEPT ![r] = "readError"]
       \/ op[r] = "write" /\ op' = [op EXCEPT ![r] = "writeOk"]
       \/ op[r] = "write" /\ peer[r] = "left" /\ op' = [op EXCEPT ![r] = "writeError"]
    /\ UNCHANGED <<netVars, open, peer, replyVars, queue, ended, tileVars, jobVars,
                   threadVars>>

ClientLeaves(r) ==
    /\ Up /\ peer[r] = "there"
    /\ peer' = [peer EXCEPT ![r] = "left"]
    /\ UNCHANGED <<netVars, open, op, replyVars, queue, ended, tileVars, jobVars,
                   threadVars>>

Signal ==
    /\ Up /\ ~signalled
    /\ signalled' = TRUE
    /\ UNCHANGED <<acceptor, accept, nextRequest, requests, connVars, replyVars,
                   queue, ended, tileVars, jobVars, threadVars>>
-----------------------------------------------------------------------------
(* The network thread.                                                     *)

\* Closing a socket aborts its operation, unless that has completed already.
Aborted(closed) ==
    [r \in Connections |-> IF r \in closed /\ op[r] \in {"read", "write"}
                           THEN "aborted" ELSE op[r]]

\* Starting an operation on a socket that was closed completes it with an error.
Failed == [read |-> "readError", write |-> "writeError"]
Started(r, kind) ==
    op' = [op EXCEPT ![r] = IF r \in open THEN kind ELSE Failed[kind]]

\* HttpServer::stopRequest, called by the handler of r's only operation.
StopRequestOpen(r) ==   \* mutant: the socket stays open
    /\ requests' = requests \ {r}
    /\ op' = [op EXCEPT ![r] = "none"]
    /\ UNCHANGED open
StopRequest(r) ==
    /\ requests' = requests \ {r}
    /\ open' = open \ {r}
    /\ op' = [op EXCEPT ![r] = "none"]

\* handle_accept, with startCollectingData and start_accept.
HandleAccept ==
    /\ Up /\ pc[Net] = "run" /\ accept \in {"ok", "error", "aborted"}
    /\ IF ~acceptor
       THEN accept' = "none" /\ UNCHANGED <<nextRequest, requests, op>>
       ELSE /\ IF accept = "ok"
               THEN /\ requests' = requests \cup {nextRequest}
                    /\ Started(nextRequest, "read")
                    /\ LET unused == {r \in Connections : peer[r] = "none"}
                       IN  nextRequest' \in IF unused = {} THEN {NoConnection}
                                                           ELSE unused
               ELSE UNCHANGED <<requests, op, nextRequest>>
            /\ accept' = "pending"
    /\ UNCHANGED <<acceptor, signalled, open, peer, replyVars, queue, ended,
                   tileVars, jobVars, threadVars>>

QueueFullLate == Len(queue) > MaxQueue   \* mutant: off by one
QueueFull == Len(queue) >= MaxQueue

\* handleRead when a request is complete or bad: it goes to the RequestManager, or
\* is answered here (RequestManager::enqueue answers when the queue is full).  Its
\* test of "answered" is the one that Fill makes.
HandleRequest(r) ==
    /\ Up /\ pc[Net] = "run" /\ op[r] \in {"complete", "bad"}
    /\ op' = [op EXCEPT ![r] = "none"]
    /\ IF op[r] = "complete" /\ ~QueueFull
       THEN queue' = Append(queue, r) /\ UNCHANGED <<pc, cur>>
       ELSE /\ cur' = [cur EXCEPT ![Net] = r]
            /\ Goto(Net, "default")
            /\ UNCHANGED queue
    /\ UNCHANGED <<netVars, open, peer, replyVars, ended, tileVars, jobVars, tile>>

\* handleRead when more is to be read: readSome.
HandleMoreForgotten(r) ==    \* mutant: nothing is read
    /\ Up /\ pc[Net] = "run" /\ op[r] = "more"
    /\ op' = [op EXCEPT ![r] = "none"]
    /\ UNCHANGED <<netVars, open, peer, replyVars, queue, ended, tileVars, jobVars,
                   threadVars>>
HandleMore(r) ==
    /\ Up /\ pc[Net] = "run" /\ op[r] = "more"
    /\ Started(r, "read")
    /\ UNCHANGED <<netVars, open, peer, replyVars, queue, ended, tileVars, jobVars,
                   threadVars>>

\* handleRead on an error and handleWrite: stopRequest, except for what close aborted.
HandleEnd(r) ==
    /\ Up /\ pc[Net] = "run"
    /\ op[r] \in {"readError", "writeOk", "writeError", "aborted"}
    /\ IF op[r] = "aborted"
       THEN op' = [op EXCEPT ![r] = "none"] /\ UNCHANGED <<requests, open>>
       ELSE StopRequest(r)
    /\ UNCHANGED <<acceptor, accept, nextRequest, signalled, peer, replyVars, queue,
                   ended, tileVars, jobVars, threadVars>>

\* HttpServer::quit.
QuitAcceptorOnly ==   \* mutant: the open requests are not closed
    /\ Up /\ pc[Net] = "run" /\ signalled /\ acceptor
    /\ acceptor' = FALSE
    /\ accept' = IF accept = "pending" THEN "aborted" ELSE accept
    /\ UNCHANGED <<nextRequest, requests, signalled, connVars, replyVars, queue, ended,
                   tileVars, jobVars, threadVars>>
Quit ==
    /\ Up /\ pc[Net] = "run" /\ signalled /\ acceptor
    /\ acceptor' = FALSE
    /\ accept' = IF accept = "pending" THEN "aborted" ELSE accept
    /\ op' = Aborted(requests)
    /\ open' = open \ requests
    /\ requests' = {}
    /\ UNCHANGED <<nextRequest, signalled, peer, replyVars, queue, ended, tileVars,
                   jobVars, threadVars>>

\* io_service::run returns when no operation is outstanding; then RequestManager::stop
\* stops the workers' io_service and joins them.
ListenReturns ==
    /\ Up /\ pc[Net] = "run" /\ ~acceptor /\ accept = "none"
    /\ \A r \in Connections : op[r] = "none"
    /\ Goto(Net, "join")
    /\ UNCHANGED <<netVars, connVars, replyVars, queue, ended, tileVars, jobVars, cur,
                   tile>>

Joined ==
    /\ Up /\ pc[Net] = "join" /\ \A w \in Workers : pc[w] = "idle"
    /\ Goto(Net, "stopped")
    /\ UNCHANGED <<netVars, connVars, replyVars, queue, ended, tileVars, jobVars, cur,
                   tile>>
-----------------------------------------------------------------------------
(* Answering, by any thread: answer(status), getDefaultTile, answer(tile). *)

\* The thread has answered, or logged that somebody else had.
Return(th) ==
    /\ Goto(th, IF th = Net THEN "run" ELSE IF area[th] = NoArea THEN "idle"
                                                               ELSE "respond")
    /\ cur' = [cur EXCEPT ![th] = NoConnection]
    /\ tile' = [tile EXCEPT ![th] = NoTile]

FindDefault(th) ==
    /\ Up /\ pc[th] = "default"
    /\ IF DefaultTile = NoTile
       THEN Goto(th, "create") /\ UNCHANGED tile
       ELSE Goto(th, "fill") /\ tile' = [tile EXCEPT ![th] = DefaultTile]
    /\ UNCHANGED <<netVars, connVars, replyVars, queue, ended, tileVars, jobVars, cur>>

CreateDefault(th) ==
    /\ Up /\ pc[th] = "create"
    /\ DefaultTile' = th
    /\ Goto(th, "load")
    /\ UNCHANGED <<netVars, connVars, replyVars, queue, ended, image, jobVars, cur,
                   tile>>

\* The file has been read; startupDiagnostic has made sure that it exists.
LoadDefaultUnset(th) ==   \* mutant: the image is read and not set
    /\ Up /\ pc[th] = "load"
    /\ tile' = [tile EXCEPT ![th] = DefaultTile]
    /\ Goto(th, "fill")
    /\ UNCHANGED <<netVars, connVars, replyVars, queue, ended, tileVars, jobVars, cur>>
LoadDefault(th) ==
    /\ Up /\ pc[th] = "load"
    /\ image' = [image EXCEPT ![DefaultTile] = @ + 1]
    /\ tile' = [tile EXCEPT ![th] = DefaultTile]
    /\ Goto(th, "fill")
    /\ UNCHANGED <<netVars, connVars, replyVars, queue, ended, DefaultTile, jobVars,
                   cur>>

\* answer(tile) up to the log: getImage()->size() of a Tile without an image is a
\* fault; remote_endpoint() throws when the socket is closed, and may when the
\* client is gone.  Nothing catches the exception in a worker.
Fill(th) ==
    /\ Up /\ pc[th] = "fill"
    /\ LET r == cur[th]  t == tile[th]
       IN  \/ answered[r] /\ Return(th) /\ UNCHANGED <<reply, ended>>
           \/ /\ ~answered[r] /\ image[t] = 0 /\ ended' = "no image"
              /\ UNCHANGED <<reply, threadVars>>
           \/ /\ ~answered[r] /\ image[t] # 0 /\ (r \notin open \/ peer[r] = "left")
              /\ ended' = "no endpoint"
              /\ UNCHANGED <<reply, threadVars>>
           \/ /\ ~answered[r] /\ image[t] # 0 /\ r \in open
              /\ reply' = [reply EXCEPT ![r].tile = t, ![r].size = image[t]]
              /\ Goto(th, "write")
              /\ UNCHANGED <<ended, cur, tile>>
    /\ UNCHANGED <<netVars, connVars, answered, queue, tileVars, jobVars>>

\* answer(), with Reply::toBuffers and async_write.
Write(th) ==
    /\ Up /\ pc[th] = "write"
    /\ LET r == cur[th]
       IN  /\ answered' = [answered EXCEPT ![r] = TRUE]
           /\ reply' = [reply EXCEPT ![r].body = image[reply[r].tile]]
           /\ Started(r, "write")
    /\ Return(th)
    /\ UNCHANGED <<netVars, open, peer, queue, ended, tileVars, jobVars>>

Answer(th) == FindDefault(th) \/ CreateDefault(th) \/ LoadDefault(th) \/ Fill(th)
              \/ Write(th)
-----------------------------------------------------------------------------
(* The workers.                                                            *)

Rendering(a) == {w \in Workers : pc[w] = "render" /\ area[w] = a}

\* The workers' io_service has not been stopped.  (enqueue refuses a request under
\* the lock of the queue; that workers wait for it then is not modelled.)
TakesWork == pc[Net] \notin {"join", "stopped"}

\* A request is taken; its url is bad, or names an area for which a job starts unless
\* one is rendering.
TakeBad(w) ==
    /\ Up /\ pc[w] = "idle" /\ TakesWork /\ queue # << >>
    /\ queue' = Tail(queue)
    /\ cur' = [cur EXCEPT ![w] = Head(queue)]
    /\ Goto(w, "default")
    /\ UNCHANGED <<netVars, connVars, replyVars, ended, tileVars, jobVars, tile>>

TakeLeftOut(w, a) ==   \* mutant: a request that finds a running job is forgotten
    /\ Up /\ pc[w] = "idle" /\ TakesWork /\ queue # << >>
    /\ queue' = Tail(queue)
    /\ IF Rendering(a) # {}
       THEN UNCHANGED <<pc, area, attached>>
       ELSE /\ attached' = [attached EXCEPT ![w] = {Head(queue)}]
            /\ area' = [area EXCEPT ![w] = a]
            /\ Goto(w, "render")
    /\ UNCHANGED <<netVars, connVars, replyVars, ended, tileVars, cur, tile>>
Take(w, a) ==
    /\ Up /\ pc[w] = "idle" /\ TakesWork /\ queue # << >>
    /\ queue' = Tail(queue)
    /\ IF Rendering(a) # {}
       THEN /\ \E v \in Rendering(a) :
                  attached' = [attached EXCEPT ![v] = @ \cup {Head(queue)}]
            /\ UNCHANGED <<pc, area>>
       ELSE /\ attached' = [attached EXCEPT ![w] = {Head(queue)}]
            /\ area' = [area EXCEPT ![w] = a]
            /\ Goto(w, "render")
    /\ UNCHANGED <<netVars, connVars, replyVars, ended, tileVars, cur, tile>>

\* The job leaves the running list.
Finished(w) ==
    /\ Up /\ pc[w] = "render"
    /\ Goto(w, "deliver")
    /\ UNCHANGED <<netVars, connVars, replyVars, queue, ended, tileVars, jobVars, cur,
                   tile>>

\* Job::deliver: the test whether the Tile is rendered, setting its image, and the
\* answers to the job's requests.
Deliver(w) ==
    /\ Up /\ pc[w] = "deliver"
    /\ Goto(w, IF image[TileOf[area[w]]] = 0 THEN "draw" ELSE "respond")
    /\ UNCHANGED <<netVars, connVars, replyVars, queue, ended, tileVars, jobVars, cur,
                   tile>>

SetImage(w) ==
    /\ Up /\ pc[w] = "draw"
    /\ image' = [image EXCEPT ![TileOf[area[w]]] = @ + 1]
    /\ Goto(w, "respond")
    /\ UNCHANGED <<netVars, connVars, replyVars, queue, ended, DefaultTile, jobVars,
                   cur, tile>>

Respond(w) ==
    /\ Up /\ pc[w] = "respond"
    /\ \E r \in attached[w] :
         /\ attached' = [attached EXCEPT ![w] = @ \ {r}]
         /\ cur' = [cur EXCEPT ![w] = r]
    /\ tile' = [tile EXCEPT ![w] = TileOf[area[w]]]
    /\ Goto(w, "fill")
    /\ UNCHANGED <<netVars, connVars, replyVars, queue, ended, tileVars, area>>

JobDone(w) ==
    /\ Up /\ pc[w] = "respond" /\ attached[w] = {}
    /\ area' = [area EXCEPT ![w] = NoArea]
    /\ Goto(w, "idle")
    /\ UNCHANGED <<netVars, connVars, replyVars, queue, ended, tileVars, attached, cur,
                   tile>>

Worker(w) ==
    \/ TakeBad(w) \/ \E a \in Areas : Take(w, a)
    \/ Finished(w) \/ Deliver(w) \/ SetImage(w) \/ Respond(w) \/ JobDone(w) \/ Answer(w)
-----------------------------------------------------------------------------
Network ==
    \/ HandleAccept \/ Quit \/ ListenReturns \/ Joined \/ Answer(Net)
    \/ \E r \in Connections : HandleRequest(r) \/ HandleMore(r) \/ HandleEnd(r)

World ==
    \/ Connect \/ AcceptFails \/ Signal
    \/ \E r \in Connections : Completes(r) \/ ClientLeaves(r)

\* The process is over.
Over == (~Up \/ pc[Net] = "stopped") /\ UNCHANGED vars

Next == Network \/ World \/ Over \/ \E w \in Workers : Worker(w)

Spec == Init /\ [][Next]_vars

\* A thread that can run runs, and every handler that is ready is run in the end.
\* Clients and the operator do as they like.
Fairness ==
    /\ \A w \in Workers : WF_vars(Worker(w))
    /\ WF_vars(Answer(Net))
    /\ WF_vars(HandleAccept)
    /\ WF_vars(Quit)
    /\ WF_vars(ListenReturns \/ Joined)
    /\ \A r \in Connections :
          WF_vars(HandleRequest(r) \/ HandleMore(r) \/ HandleEnd(r))

FairSpec == Spec /\ Fairness
-----------------------------------------------------------------------------
(* Properties.                                                             *)

\* The variables keep their types, and the queue its limit: only the network thread
\* fills it, between the test of its size and the push.
TypeOK ==
    /\ acceptor \in BOOLEAN /\ signalled \in BOOLEAN
    /\ accept \in {"none", "pending", "ok", "error", "aborted"}
    /\ nextRequest \in Connections \cup {NoConnection}
    /\ requests \subseteq Connections /\ open \subseteq Connections
    /\ peer \in [Connections -> {"none", "there", "left"}]
    /\ op \in [Connections -> Completed \cup {"none", "read", "write"}]
    /\ answered \in [Connections -> BOOLEAN]
    /\ reply \in [Connections -> [tile : Tiles \cup Threads \cup {NoTile},
                                  size : Nat, body : Nat]]
    /\ queue \in Seq(Connections) /\ Len(queue) <= MaxQueue
    /\ ended \in {"no", "no image", "no endpoint"}
    /\ DefaultTile \in Threads \cup {NoTile}
    /\ image \in [Tiles \cup Threads -> Nat]
    /\ pc[Net] \in {"run", "join", "stopped"} \cup Answering
    /\ \A w \in Workers :
          pc[w] \in {"idle", "render", "deliver", "draw", "respond"} \cup Answering
    /\ cur \in [Threads -> Connections \cup {NoConnection}]
    /\ tile \in [Threads -> Tiles \cup Threads \cup {NoTile}]
    /\ area \in [Workers -> Areas \cup {NoArea}]
    /\ attached \in [Workers -> SUBSET Connections]

\* Who has a connection in hand: an operation, the queue, a job, or an answer.
Holders(r) ==
    {<<"operation", r>> : o \in {op[r]} \ {"none"}}
    \cup {<<"queue", i>> : i \in {j \in DOMAIN queue : queue[j] = r}}
    \cup {<<"job", w>> : w \in {v \in Workers : r \in attached[v]}}
    \cup {<<"answer", th>> : th \in {u \in Threads : cur[u] = r}}

\* A connection the server keeps is in exactly one hand, through every order of reads,
\* refusals, joined jobs, answers and closing: nobody forgets it with its socket open,
\* no two threads answer it, and no second operation starts on its socket.
OneHolder ==
    \A r \in Connections :
        /\ Cardinality(Holders(r)) <= 1
        /\ r \in requests => Holders(r) # {}

\* Sockets are open exactly while they are registered, apart from the one that is
\* being accepted, and once quit has run none is registered again, whatever had
\* completed before it and is handled after it.
Registered ==
    /\ \A r \in Connections \ {nextRequest} : r \in open <=> r \in requests
    /\ ~acceptor => requests = {}

\* The server ends by an exception only when a client or quit closed the connection
\* of the request being answered, and by a fault only while another thread is about
\* to load the default tile it has published, or after two threads have made the
\* default tile at once: a third may then have found the one that is never loaded.
EndsForCause ==
    /\ ended = "no endpoint" =>
          \E th \in Threads : pc[th] = "fill" /\ (peer[cur[th]] = "left" \/ ~acceptor)
    /\ ended = "no image" =>
          \E th \in Threads : \/ pc[th] = "load"
                              \/ pc[th] = "fill" /\ tile[th] \in Threads \ {DefaultTile}

\* "The buffers do not own the underlying memory blocks, therefore the reply object
\* must remain valid and not be changed until the write operation has completed."
\* An image is freed when it is replaced; the length must be that of the image sent.
BuffersValid ==
    \A r \in Connections : op[r] = "write" =>
        /\ reply[r].body = image[reply[r].tile]
        /\ reply[r].size = reply[r].body

\* A complete request gets its answer, unless its connection is closed first or the
\* process ends.
Served ==
    \A r \in Connections :
        op[r] = "complete" ~> (op[r] = "write" \/ r \notin requests \/ ended # "no")

\* After a signal listen returns and the manager's threads are joined, although
\* clients may be silent for ever; or the process ends by an exception.
ShutsDown == signalled ~> (pc[Net] = "stopped" \/ ended # "no")
=============================================================================
