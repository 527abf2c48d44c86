--------------------------- MODULE RequestManager ---------------------------
(***************************************************************************)
(* RequestManager, its RunningQueue and the life of a Job.                 *)
(*                                                                         *)
(* The network thread and the stylesheet thread put work into two queues   *)
(* and post one handler, processNextRequest, into an io_service for every  *)
(* entry.  A fixed pool of workers runs the handlers.  A handler serves a  *)
(* user request if there is one and a prerendering request otherwise.  A   *)
(* request for a tile of a meta tile that is being rendered is attached to *)
(* the running job instead of starting another one.                        *)
(*                                                                         *)
(* Every action below is one critical section, or one unlocked access to   *)
(* shared state, of one thread.                                            *)
(***************************************************************************)
EXTENDS MetaTiles, FiniteSets

CONSTANTS
    Workers,         \* the worker threads
    Requests,        \* the HTTP requests clients may send
    Resolve,         \* request -> what TileIdentifier::Create may make of it
    NoData,          \* positions <<x, y, z>> of the meta tiles without data
    PNG,             \* the format that is prerendered
    PrerenderLevel,  \* opt::server::prerender_level
    MaxQueue,        \* opt::server::max_queue_size
    MaxLoads,        \* bound: how often a stylesheet is loaded in a behaviour
    NoRequest,       \* a worker's request variable when it serves none
    NoMeta,          \* a worker's meta tile when it has none
    Malformed,       \* TileIdentifier::Create throws MalformedURLException
    UnknownFormat    \* TileIdentifier::Create throws UnknownImageFormatException

Outcomes == TileIds \cup {Malformed, UnknownFormat}

ASSUME ManagerAssumption ==
    /\ IsFiniteSet(Workers) /\ Workers # {}
    /\ NoRequest \notin Requests
    /\ \A r \in Requests : Resolve[r] # {} /\ \A o \in Resolve[r] : o \in Outcomes
    /\ PNG \in Formats
    /\ PrerenderLevel \in Nat
    /\ MaxQueue \in Nat \ {0}    \* startupDiagnostic refuses 0
    /\ MaxLoads \in Nat

VARIABLES
    userRequests,       \* queue of requests
    preRenderRequests,  \* queue of meta tiles
    posted,             \* handlers in jobPool no worker has taken yet
    stopped,            \* jobPool.stop() was called
    factories,          \* queue of idle RenderCanvasFactory objects
    running,            \* RunningQueue::jobs; a worker runs one job at a time
    currentPrerenderingThreads,
    prerenderReported,  \* prerender_stop is later than the last job's end
    reply,              \* request -> state of the reply
    http,               \* request the network thread pushed, not yet posted
    loads,              \* style -> how often it was loaded
    ssm,                \* the stylesheet thread pushed, and did not post yet
    pc,                 \* worker -> the step it is at
    req,                \* worker -> the request it serves
    ti,                 \* worker -> what Create returned
    mid,                \* worker -> the meta tile of its job
    factory,            \* worker -> the factory it took
    empty,              \* worker -> Job::empty
    requests,           \* worker -> Job::requests, as <<identifier, request>>
    todo                \* worker -> children it has yet to enqueue

queues  == <<userRequests, preRenderRequests, posted>>
shared  == <<stopped, factories, running, currentPrerenderingThreads,
             prerenderReported>>
others  == <<reply, http, loads, ssm>>
local   == <<req, ti, mid, factory, empty, requests, todo>>
vars    == <<queues, shared, others, pc, local>>

Sent     == {"pending", "ok", "unavailable", "forbidden", "not_implemented"}
Final    == Sent \ {"pending"}
Labels   == {"idle", "user", "create", "pre", "factory", "start", "process",
             "finished", "deliver", "return", "sub", "post",
             "check_threads", "check_queue"}

\* Whether Geodata::containsData holds for the job's rectangle.
ContainsData(m) == <<m.x, m.y, m.z>> \notin NoData

Init ==
    /\ userRequests = << >>
    /\ preRenderRequests = << >>
    /\ posted = 0
    /\ stopped = FALSE
    \* one factory per worker; a factory is named after the worker it came with
    /\ factories \in {f \in [1 .. Cardinality(Workers) -> Workers] :
                         \A i, j \in DOMAIN f : f[i] = f[j] => i = j}
    /\ running = << >>
    /\ currentPrerenderingThreads = 0
    /\ prerenderReported = FALSE
    /\ reply = [r \in Requests |-> "none"]
    /\ http = NoRequest
    /\ loads = [s \in Styles |-> 0]
    /\ ssm = FALSE
    /\ pc = [w \in Workers |-> "idle"]
    /\ req = [w \in Workers |-> NoRequest]
    /\ ti = [w \in Workers |-> Malformed]
    /\ mid = [w \in Workers |-> NoMeta]
    /\ factory = [w \in Workers |-> w]
    /\ empty = [w \in Workers |-> FALSE]
    /\ requests = [w \in Workers |-> {}]
    /\ todo = [w \in Workers |-> << >>]

Goto(w, label) == pc' = [pc EXCEPT ![w] = label]

\* HttpRequest::answer: a second answer is logged and dropped.
Answer(r, status) ==
    reply' = [reply EXCEPT ![r] = IF @ \in Final THEN @ ELSE status]

-----------------------------------------------------------------------------
(* The network thread: RequestManager::enqueue(HttpRequest).               *)

QueueFullEarly == Len(userRequests) + 1 >= MaxQueue   \* mutant: off by one
QueueFull == Len(userRequests) >= MaxQueue

\* Mutant: no return after the 503.
EnqueueFallsThrough(r) ==
    /\ ~stopped /\ http = NoRequest /\ reply[r] = "none"
    /\ IF QueueFull THEN Answer(r, "unavailable")
                    ELSE reply' = [reply EXCEPT ![r] = "pending"]
    /\ userRequests' = Append(userRequests, r)
    /\ http' = r
    /\ UNCHANGED <<preRenderRequests, posted, shared, loads, ssm, pc, local>>

Enqueue(r) ==
    /\ ~stopped /\ http = NoRequest /\ reply[r] = "none"
    /\ IF QueueFull
       THEN /\ Answer(r, "unavailable")
            /\ UNCHANGED <<userRequests, http>>
       ELSE /\ userRequests' = Append(userRequests, r)
            /\ reply' = [reply EXCEPT ![r] = "pending"]
            /\ http' = r
    /\ UNCHANGED <<preRenderRequests, posted, shared, loads, ssm, pc, local>>

\* Mutant: the handler is not posted.
PostUserForgotten ==
    /\ http # NoRequest
    /\ http' = NoRequest
    /\ UNCHANGED <<queues, shared, reply, loads, ssm, pc, local>>

PostUser ==
    /\ http # NoRequest
    /\ http' = NoRequest
    /\ posted' = posted + 1
    /\ UNCHANGED <<userRequests, preRenderRequests, shared, reply, loads, ssm,
                   pc, local>>

\* HttpServer::listen has returned; the same thread stops the manager.
Stop ==
    /\ ~stopped /\ http = NoRequest
    /\ stopped' = TRUE
    /\ UNCHANGED <<queues, factories, running, currentPrerenderingThreads,
                   prerenderReported, others, pc, local>>

(* The stylesheet thread: the end of onNewStylesheet calls enqueue.        *)

\* Mutant: a stylesheet that is loaded again is not enqueued, its handler is posted.
LoadStyleOnce(s) ==
    /\ ~ssm /\ loads[s] < MaxLoads
    /\ loads' = [loads EXCEPT ![s] = @ + 1]
    /\ preRenderRequests' = IF loads[s] = 0
                            THEN Append(preRenderRequests, Root(s, PNG))
                            ELSE preRenderRequests
    /\ ssm' = TRUE
    /\ UNCHANGED <<userRequests, posted, shared, reply, http, pc, local>>

LoadStyle(s) ==
    /\ ~ssm /\ loads[s] < MaxLoads
    /\ loads' = [loads EXCEPT ![s] = @ + 1]
    /\ preRenderRequests' = Append(preRenderRequests, Root(s, PNG))
    /\ ssm' = TRUE
    /\ UNCHANGED <<userRequests, posted, shared, reply, http, pc, local>>

PostRoot ==
    /\ ssm
    /\ ssm' = FALSE
    /\ posted' = posted + 1
    /\ UNCHANGED <<userRequests, preRenderRequests, shared, reply, http, loads,
                   pc, local>>

-----------------------------------------------------------------------------
(* The workers: processNextRequest.                                        *)

\* io_service::run takes a handler, unless the service was stopped.
TakeHandler(w) ==
    /\ pc[w] = "idle" /\ ~stopped /\ posted > 0
    /\ posted' = posted - 1
    /\ Goto(w, "user")
    /\ UNCHANGED <<userRequests, preRenderRequests, shared, others, local>>

\* nextUserRequest, up to the unlock.
PopUser(w) ==
    /\ pc[w] = "user"
    /\ IF userRequests = << >>
       THEN /\ Goto(w, "pre")
            /\ UNCHANGED <<userRequests, req>>
       ELSE /\ req' = [req EXCEPT ![w] = Head(userRequests)]
            /\ userRequests' = Tail(userRequests)
            /\ Goto(w, "create")
    /\ UNCHANGED <<preRenderRequests, posted, shared, others, ti, mid, factory,
                   empty, requests, todo>>

\* TileIdentifier::Create and MetaIdentifier::Create.  What a url resolves to
\* depends on the stylesheets loaded at that moment.
Create(w) ==
    /\ pc[w] = "create"
    /\ \E o \in Resolve[req[w]] :
         IF o \in {Malformed, UnknownFormat}
         THEN /\ Answer(req[w], IF o = Malformed THEN "forbidden"
                                                 ELSE "not_implemented")
              /\ req' = [req EXCEPT ![w] = NoRequest]
              /\ Goto(w, "idle")
              /\ UNCHANGED <<ti, mid>>
         ELSE /\ ti' = [ti EXCEPT ![w] = o]
              /\ mid' = [mid EXCEPT ![w] = MetaOf(o)]
              /\ Goto(w, "factory")
              /\ UNCHANGED <<reply, req>>
    /\ UNCHANGED <<queues, shared, http, loads, ssm, factory, empty, requests,
                   todo>>

\* Mutant: currentPrerenderingThreads is not incremented.
PopPreUncounted(w) ==
    /\ pc[w] = "pre"
    /\ preRenderRequests # << >>
    /\ mid' = [mid EXCEPT ![w] = Head(preRenderRequests)]
    /\ preRenderRequests' = Tail(preRenderRequests)
    /\ Goto(w, "factory")
    /\ UNCHANGED <<userRequests, posted, shared, others, req, ti, factory, empty,
                   requests, todo>>

\* nextPreRenderRequest, up to the unlock.  An empty queue is an error that is
\* logged: "Trying to run a job, but there is none."
PopPre(w) ==
    /\ pc[w] = "pre"
    /\ IF preRenderRequests = << >>
       THEN /\ Goto(w, "idle")
            /\ UNCHANGED <<preRenderRequests, currentPrerenderingThreads, mid>>
       ELSE /\ mid' = [mid EXCEPT ![w] = Head(preRenderRequests)]
            /\ preRenderRequests' = Tail(preRenderRequests)
            /\ currentPrerenderingThreads' = currentPrerenderingThreads + 1
            /\ Goto(w, "factory")
    /\ UNCHANGED <<userRequests, posted, stopped, factories, running,
                   prerenderReported, others, req, ti, factory, empty,
                   requests, todo>>

\* The front of the factories, which the code takes without a test, and the Job
\* constructor, which leaves Job::empty uninitialised.
TakeFactory(w) ==
    /\ pc[w] = "factory"
    /\ factory' = [factory EXCEPT ![w] = Head(factories)]
    /\ factories' = Tail(factories)
    /\ \E b \in BOOLEAN : empty' = [empty EXCEPT ![w] = b]
    /\ Goto(w, "start")
    /\ UNCHANGED <<queues, stopped, running, currentPrerenderingThreads,
                   prerenderReported, others, req, ti, mid, requests, todo>>

\* RunningQueue::start for a user request: join the first job that contains the
\* tile, or become a running job.
StartUser(w) ==
    /\ pc[w] = "start" /\ req[w] # NoRequest
    /\ LET pair == <<ti[w], req[w]>>
           joins(i) == Contains(mid[running[i]], ti[w])
       IN  \/ \E i \in DOMAIN running :
                /\ joins(i) /\ \A j \in 1 .. i - 1 : ~joins(j)
                /\ requests' = [requests EXCEPT ![running[i]] = @ \cup {pair}]
                /\ Goto(w, "return")
                /\ UNCHANGED running
           \/ /\ \A i \in DOMAIN running : ~joins(i)
              /\ requests' = [requests EXCEPT ![w] = {pair}]
              /\ running' = Append(running, w)
              /\ Goto(w, "process")
    /\ UNCHANGED <<queues, stopped, factories, currentPrerenderingThreads,
                   prerenderReported, others, req, ti, mid, factory, empty,
                   todo>>

\* RunningQueue::start for prerendering compares shared_ptrs, that is, object
\* identities.  The MetaIdentifier in hand was made for this queue entry, so the
\* only job that could hold the same object is this worker's own.
SameIdentifier(v, w) == v = w

StartPre(w) ==
    /\ pc[w] = "start" /\ req[w] = NoRequest
    /\ IF \E i \in DOMAIN running : SameIdentifier(running[i], w)
       THEN Goto(w, "return") /\ UNCHANGED running
       ELSE Goto(w, "process") /\ running' = Append(running, w)
    /\ UNCHANGED <<queues, stopped, factories, currentPrerenderingThreads,
                   prerenderReported, others, local>>

\* Job::process.  Its work on the cache and the stylesheets is modelled elsewhere.
Process(w) ==
    /\ pc[w] = "process"
    /\ empty' = [empty EXCEPT ![w] = ~ContainsData(mid[w])]
    /\ Goto(w, "finished")
    /\ UNCHANGED <<queues, shared, others, req, ti, mid, factory, requests, todo>>

Seqs == INSTANCE SequencesExt

\* Mutant: the factory, and its canvas, go back before the tiles are cut from it.
FinishedReleases(w) ==
    /\ pc[w] = "finished"
    /\ \E i \in DOMAIN running :
         running[i] = w /\ running' = Seqs!RemoveAt(running, i)
    /\ factories' = Append(factories, factory[w])
    /\ Goto(w, "deliver")
    /\ UNCHANGED <<queues, stopped, currentPrerenderingThreads,
                   prerenderReported, others, local>>

\* RunningQueue::finished: the job, which is in the list once, is removed; from
\* here on nobody can join it.
Finished(w) ==
    /\ pc[w] = "finished"
    /\ \E i \in DOMAIN running :
         running[i] = w /\ running' = Seqs!RemoveAt(running, i)
    /\ Goto(w, "deliver")
    /\ UNCHANGED <<queues, stopped, factories, currentPrerenderingThreads,
                   prerenderReported, others, local>>

\* Job::deliver goes over the identifiers of the meta tile and answers the requests
\* filed under each.  A pair leaves "requests" when the loop has been through it.
Deliver(w) ==
    /\ pc[w] = "deliver"
    /\ \E p \in requests[w] :
         /\ p[1] \in Identifiers(mid[w])
         /\ Answer(p[2], "ok")
         /\ requests' = [requests EXCEPT ![w] = @ \ {p}]
    /\ UNCHANGED <<queues, shared, http, loads, ssm, pc, req, ti, mid, factory,
                   empty, todo>>

Delivered(w) ==
    /\ pc[w] = "deliver"
    /\ \A p \in requests[w] : p[1] \notin Identifiers(mid[w])
    /\ Goto(w, "return")
    /\ UNCHANGED <<queues, shared, others, local>>

\* The factory goes back.  A user request is then done with, and the Job is
\* destroyed with whatever it still holds; prerendering goes on to the children.
Return(w) ==
    /\ pc[w] = "return"
    /\ factories' = Append(factories, factory[w])
    /\ requests' = [requests EXCEPT ![w] = {}]
    /\ IF req[w] # NoRequest
       THEN /\ req' = [req EXCEPT ![w] = NoRequest]
            /\ mid' = [mid EXCEPT ![w] = NoMeta]
            /\ Goto(w, "idle")
            /\ UNCHANGED todo
       ELSE /\ todo' = [todo EXCEPT ![w] =
                  IF ~empty[w] /\ mid[w].z < PrerenderLevel
                  THEN SubIdentifiers(mid[w]) ELSE << >>]
            /\ Goto(w, "sub")
            /\ UNCHANGED <<req, mid>>
    /\ ti' = [ti EXCEPT ![w] = Malformed]
    /\ factory' = [factory EXCEPT ![w] = w]
    /\ empty' = [empty EXCEPT ![w] = FALSE]
    /\ UNCHANGED <<queues, stopped, running, currentPrerenderingThreads,
                   prerenderReported, others>>

\* The loop that enqueues the children: each is pushed, then posted.
EnqueueChild(w) ==
    /\ pc[w] = "sub" /\ todo[w] # << >>
    /\ preRenderRequests' = Append(preRenderRequests, Head(todo[w]))
    /\ todo' = [todo EXCEPT ![w] = Tail(@)]
    /\ Goto(w, "post")
    /\ UNCHANGED <<userRequests, posted, shared, others, req, ti, mid, factory,
                   empty, requests>>

PostChild(w) ==
    /\ pc[w] = "post"
    /\ posted' = posted + 1
    /\ Goto(w, "sub")
    /\ UNCHANGED <<userRequests, preRenderRequests, shared, others, local>>

Leave(w) ==
    /\ pc[w] = "sub" /\ todo[w] = << >>
    /\ currentPrerenderingThreads' = currentPrerenderingThreads - 1
    /\ prerenderReported' = FALSE
    /\ mid' = [mid EXCEPT ![w] = NoMeta]
    /\ Goto(w, "check_threads")
    /\ UNCHANGED <<queues, stopped, factories, running, others, req, ti,
                   factory, empty, requests, todo>>

\* Mutant: tests the counter as it was before the decrement.
CheckThreadsBefore(w) ==
    /\ pc[w] = "check_threads"
    /\ Goto(w, IF currentPrerenderingThreads + 1 = 0 THEN "check_queue" ELSE "idle")
    /\ UNCHANGED <<queues, shared, others, local>>

\* "Prerendering finished" is reported after two reads without a lock.
CheckThreads(w) ==
    /\ pc[w] = "check_threads"
    /\ Goto(w, IF currentPrerenderingThreads = 0 THEN "check_queue" ELSE "idle")
    /\ UNCHANGED <<queues, shared, others, local>>

CheckQueue(w) ==
    /\ pc[w] = "check_queue"
    /\ prerenderReported' = (prerenderReported \/ preRenderRequests = << >>)
    /\ Goto(w, "idle")
    /\ UNCHANGED <<queues, stopped, factories, running,
                   currentPrerenderingThreads, others, local>>

-----------------------------------------------------------------------------
Worker(w) ==
    \/ TakeHandler(w) \/ PopUser(w) \/ Create(w) \/ PopPre(w) \/ TakeFactory(w)
    \/ StartUser(w) \/ StartPre(w) \/ Process(w) \/ Finished(w) \/ Deliver(w)
    \/ Delivered(w) \/ Return(w) \/ EnqueueChild(w) \/ PostChild(w) \/ Leave(w)
    \/ CheckThreads(w) \/ CheckQueue(w)

\* Nothing is left to do: every thread waits for the world outside.
Quiescent ==
    /\ \A w \in Workers : pc[w] = "idle"
    /\ stopped \/ posted = 0
    /\ http = NoRequest /\ ~ssm

Rest == Quiescent /\ UNCHANGED vars

Next ==
    \/ \E r \in Requests : Enqueue(r)
    \/ \E s \in Styles : LoadStyle(s)
    \/ PostUser \/ PostRoot \/ Stop \/ Rest
    \/ \E w \in Workers : Worker(w)

Spec == Init /\ [][Next]_vars

\* The operating system runs every thread that can run.  Nothing makes a client
\* send a request, a stylesheet appear or an operator stop the server.
Fairness ==
    /\ WF_vars(PostUser)
    /\ WF_vars(PostRoot)
    /\ \A w \in Workers : WF_vars(Worker(w))

FairSpec == Spec /\ Fairness
-----------------------------------------------------------------------------
(* Properties.                                                             *)

At(labels) == {w \in Workers : pc[w] \in labels}

\* The variables keep their types, a worker past Create or PopPre has a meta
\* tile, and the counter is never negative.
TypeOK ==
    /\ userRequests \in Seq(Requests)
    /\ preRenderRequests \in Seq(MetaIds)
    /\ posted \in Nat
    /\ stopped \in BOOLEAN
    /\ factories \in Seq(Workers)
    /\ running \in Seq(Workers)
    /\ currentPrerenderingThreads \in Nat
    /\ prerenderReported \in BOOLEAN
    /\ reply \in [Requests -> Sent \cup {"none"}]
    /\ http \in Requests \cup {NoRequest}
    /\ loads \in [Styles -> 0 .. MaxLoads]
    /\ ssm \in BOOLEAN
    /\ pc \in [Workers -> Labels]
    /\ req \in [Workers -> Requests \cup {NoRequest}]
    /\ ti \in [Workers -> Outcomes]
    /\ mid \in [Workers -> MetaIds \cup {NoMeta}]
    /\ factory \in [Workers -> Workers]
    /\ empty \in [Workers -> BOOLEAN]
    /\ requests \in [Workers -> SUBSET (TileIds \X Requests)]
    /\ todo \in [Workers -> Seq(MetaIds)]
    /\ \A w \in At({"factory", "start", "process", "finished", "deliver", "return",
                   "sub", "post"}) : mid[w] \in MetaIds

\* Pushes whose handler has not been posted yet.
Unposted == (IF http = NoRequest THEN 0 ELSE 1) + (IF ssm THEN 1 ELSE 0)
            + Cardinality(At({"post"}))

\* A handler that finds no user request finds a prerendering request, in every
\* interleaving of the threads that push, post and pop: the error "Trying to run
\* a job, but there is none." is never logged.  And there is one handler, posted,
\* about to be posted or looking at the queues, for every entry of the queues: no
\* entry is left behind.
NoIdleHandler ==
    /\ Cardinality(At({"pre"})) <= Len(preRenderRequests)
    /\ posted + Unposted + Cardinality(At({"user", "pre"}))
          = Len(userRequests) + Len(preRenderRequests)

\* The factories queue is never empty when a worker takes its front (which would be
\* undefined), and no two workers draw with the same factory and its canvas.
Drawing == At({"start", "process", "finished", "deliver", "return"})
FactoriesSafe ==
    /\ At({"factory"}) # {} => factories # << >>
    /\ \A v, w \in Drawing : factory[v] = factory[w] => v = w
    /\ \A i \in DOMAIN factories, w \in Drawing : factories[i] # factory[w]

\* Where an unanswered request may be.
QueuedAt(r)   == {i \in DOMAIN userRequests : userRequests[i] = r}
InHandOf(r)   == {w \in At({"create", "factory", "start"}) : req[w] = r}
AttachedTo(r) == {w \in Workers : \E p \in requests[w] : p[2] = r}

\* An accepted request waits in exactly one place, a queue entry, a worker or a
\* job, until it is answered, and an answered one is in none: nobody forgets it
\* and nobody answers it twice ("Tried to answer an already answered
\* HttpRequest").  In particular no request joins a job that has been delivered.
Places(r) == ({"queue"} \X QueuedAt(r)) \cup ({"worker"} \X InHandOf(r))
                \cup ({"job"} \X AttachedTo(r))
OneHolder ==
    \A r \in Requests :
        IF reply[r] = "pending" THEN \E p \in Places(r) : Places(r) = {p}
                                ELSE Places(r) = {}

\* When a job is through with deliver, it has answered every request that was
\* attached to it ("answers the requets for the computed tiles", job.cpp).
DeliverAnswersAll ==
    \A w \in At({"return"}) : requests[w] = {}

SameArea(m, n) == m.x = n.x /\ m.y = n.y /\ m.z = n.z /\ m.style = n.style

\* A user request never starts a job beside a running one for the same area: of two
\* jobs in the running list for one area, the later one is a prerendering job.
UserJobsJoin ==
    \A i, j \in DOMAIN running :
        i < j /\ SameArea(mid[running[i]], mid[running[j]])
            => req[running[j]] = NoRequest

\* No two jobs for the same area run at once, as the comment at both calls of
\* RunningQueue::start says: "check if tiles are already in progress".
NoDuplicateJobs ==
    \A i, j \in DOMAIN running :
        SameArea(mid[running[i]], mid[running[j]]) => i = j

\* However the unlocked reads of the last prerendering workers interleave, one of
\* them reports the end: when nothing is left to prerender and every thread rests,
\* the report is later than the last prerendering job.
EndIsReported ==
    Quiescent /\ ~stopped /\ (\E s \in Styles : loads[s] > 0) => prerenderReported

\* The RequestManager implements its abstract service.
Service == INSTANCE RequestService WITH reply <- reply, stopped <- stopped
ServiceSpec == Service!Spec

\* ... and, unless it is stopped, answers every request it has accepted.
ServiceAnswers == Service!FairSpec

=============================================================================
