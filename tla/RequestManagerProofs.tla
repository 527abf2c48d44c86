------------------------- MODULE RequestManagerProofs -------------------------
(***************************************************************************)
(* Theorems about RequestManager for any number of workers and requests,   *)
(* any tile size, queue limit and prerender level.                         *)
(*                                                                         *)
(* TypeOK is not inductive: that the prerendering counter stays a natural  *)
(* number, and that a worker finds a factory, rest on counting the workers *)
(* at each step.  IInv states those counts next to the types.              *)
(***************************************************************************)
EXTENDS RequestManager, FiniteSetTheorems, SequenceTheorems, TLAPS

\* The prerendering workers that currentPrerenderingThreads counts.
Prerendering ==
    {w \in Workers : \/ pc[w] \in {"sub", "post"}
                     \/ /\ pc[w] \in {"factory", "start", "process", "finished",
                                      "deliver", "return"}
                        /\ req[w] = NoRequest}
ThreadCount == currentPrerenderingThreads = Cardinality(Prerendering)

\* Every factory is in the queue or with a drawing worker.
FactoryCount == Len(factories) + Cardinality(Drawing) = Cardinality(Workers)
FactoriesDistinct ==
    /\ \A i, j \in DOMAIN factories : factories[i] = factories[j] => i = j
    /\ \A v, w \in Drawing : factory[v] = factory[w] => v = w
    /\ \A i \in DOMAIN factories, w \in Drawing : factories[i] # factory[w]

\* What a worker carries from one step to the next.
LocalOK ==
    \A w \in Workers :
        /\ pc[w] = "create" => req[w] \in Requests
        /\ pc[w] \in {"idle", "user", "pre", "sub", "post", "check_threads",
                      "check_queue"} => req[w] = NoRequest
        /\ pc[w] \in {"factory", "start"} /\ req[w] # NoRequest => ti[w] \in TileIds

IInv == TypeOK /\ LocalOK /\ NoIdleHandler /\ ThreadCount /\ FactoryCount
        /\ FactoriesDistinct

Count(b) == IF b THEN 1 ELSE 0

-----------------------------------------------------------------------------
(* How the number of workers at a step changes when one of them moves.     *)

\* Two sets of workers that differ at most in w.
LEMMA MoveOne ==
    ASSUME IsFiniteSet(Workers), NEW w \in Workers, NEW S, NEW T,
           S \in SUBSET Workers, T \in SUBSET Workers, S \ {w} = T \ {w}
    PROVE  /\ Cardinality(S) \in Nat /\ Cardinality(T) \in Nat
           /\ Cardinality(T) = Cardinality(S) - Count(w \in S) + Count(w \in T)
<1>1. IsFiniteSet(S) /\ IsFiniteSet(T)
  BY FS_Subset
<1>2. Cardinality(S) \in Nat /\ Cardinality(T) \in Nat
  BY <1>1, FS_CardinalityType
<1>3. Cardinality(S \ {w}) = IF w \in S THEN Cardinality(S) - 1 ELSE Cardinality(S)
  BY <1>1, FS_RemoveElement
<1>4. Cardinality(T \ {w}) = IF w \in T THEN Cardinality(T) - 1 ELSE Cardinality(T)
  BY <1>1, FS_RemoveElement
<1>5. Cardinality(S \ {w}) = Cardinality(T \ {w})
  OBVIOUS
<1> QED
  BY <1>2, <1>3, <1>4, <1>5 DEF Count

\* The workers at the labels L, before and after w goes to label l.
LEMMA AtMoves ==
    ASSUME IsFiniteSet(Workers), pc \in [Workers -> Labels], NEW w \in Workers,
           NEW l, pc' = [pc EXCEPT ![w] = l], NEW L
    PROVE  /\ Cardinality(At(L)) \in Nat /\ Cardinality(At(L)') \in Nat
           /\ Cardinality(At(L)') =
                 Cardinality(At(L)) - Count(pc[w] \in L) + Count(l \in L)
<1>1. At(L) \in SUBSET Workers /\ At(L)' \in SUBSET Workers
  BY DEF At
<1>2. At(L) \ {w} = At(L)' \ {w}
  BY DEF At
<1>3. (w \in At(L) <=> pc[w] \in L) /\ (w \in At(L)' <=> l \in L)
  BY DEF At
<1> QED
  BY <1>1, <1>2, <1>3, MoveOne DEF Count

\* Nobody moves.
LEMMA AtStays ==
    ASSUME pc' = pc, NEW L
    PROVE  At(L)' = At(L)
BY DEF At

\* The number of workers at the labels L is a natural number.
LEMMA AtFinite ==
    ASSUME IsFiniteSet(Workers), NEW L
    PROVE  Cardinality(At(L)) \in Nat
<1>1. At(L) \in SUBSET Workers
  BY DEF At
<1> QED
  BY <1>1, FS_Subset, FS_CardinalityType

\* What the names of the variable groups leave unchanged.
LEMMA Frames ==
    /\ UNCHANGED queues => /\ userRequests' = userRequests /\ posted' = posted
                           /\ preRenderRequests' = preRenderRequests
    /\ UNCHANGED shared => /\ stopped' = stopped /\ factories' = factories
                           /\ running' = running
                           /\ currentPrerenderingThreads' = currentPrerenderingThreads
                           /\ prerenderReported' = prerenderReported
    /\ UNCHANGED others => /\ reply' = reply /\ http' = http
                           /\ loads' = loads /\ ssm' = ssm
    /\ UNCHANGED local => /\ req' = req /\ ti' = ti /\ mid' = mid
                          /\ factory' = factory /\ empty' = empty
                          /\ requests' = requests /\ todo' = todo
BY DEF queues, shared, others, local

-----------------------------------------------------------------------------
(* The operators of MetaTiles stay in their types.                         *)

\* Rounding a tile identifier gives the identifier of a meta tile.
LEMMA MetaOfType ==
    ASSUME NEW t \in TileIds
    PROVE  MetaOf(t) \in MetaIds
<1>1. (t.x \div MetaSize) * MetaSize \in Int /\ (t.y \div MetaSize) * MetaSize \in Int
  <2>1. t.x \in Int /\ t.y \in Int /\ MetaSize \in Int /\ MetaSize > 0
    BY MetaSizeAssumption DEF TileIds
  <2>2. t.x \div MetaSize \in Int /\ t.y \div MetaSize \in Int
    BY <2>1
  <2> QED
    BY <2>1, <2>2
<1> QED
  BY <1>1 DEF TileIds, MetaIds, MetaOf

\* getSubIdentifiers returns meta tiles.
LEMMA SubIdentifiersType ==
    ASSUME NEW m \in MetaIds
    PROVE  SubIdentifiers(m) \in Seq(MetaIds)
<1> DEFINE Sub(a, b) == MetaOf(TileAt(m, a, b, m.z + 1))
           IfSub(c, a, b) == IF c THEN <<Sub(a, b)>> ELSE << >>
           right  == 2 * m.x + MetaSize
           bottom == 2 * m.y + MetaSize
<1>1. ASSUME NEW a \in Int, NEW b \in Int
      PROVE  Sub(a, b) \in MetaIds
  <2>1. TileAt(m, a, b, m.z + 1) \in TileIds
    BY DEF MetaIds, TileIds, TileAt
  <2> QED
    BY <2>1, MetaOfType
<1>2. ASSUME NEW a \in Int, NEW b \in Int, NEW c
      PROVE  <<Sub(a, b)>> \in Seq(MetaIds) /\ IfSub(c, a, b) \in Seq(MetaIds)
  <2> HIDE DEF Sub
  <2> QED
    BY <1>1
<1>3. 2 * m.x \in Int /\ 2 * m.y \in Int /\ right \in Int /\ bottom \in Int
  BY MetaSizeAssumption DEF MetaIds, TileIds
<1>4. SubIdentifiers(m) =
          <<Sub(2 * m.x, 2 * m.y)>> \o IfSub(right < Below(m), right, 2 * m.y)
          \o IfSub(bottom < Below(m), 2 * m.x, bottom)
          \o IfSub(right < Below(m) /\ bottom < Below(m), right, bottom)
  BY DEF SubIdentifiers
<1> HIDE DEF Sub, IfSub, right, bottom
<1>5. /\ <<Sub(2 * m.x, 2 * m.y)>> \in Seq(MetaIds)
      /\ IfSub(right < Below(m), right, 2 * m.y) \in Seq(MetaIds)
      /\ IfSub(bottom < Below(m), 2 * m.x, bottom) \in Seq(MetaIds)
      /\ IfSub(right < Below(m) /\ bottom < Below(m), right, bottom) \in Seq(MetaIds)
  BY <1>2, <1>3, Zenon
<1> QED
  BY <1>4, <1>5

\* The root of a prerendering is a meta tile.
LEMMA RootType ==
    ASSUME NEW s \in Styles
    PROVE  Root(s, PNG) \in MetaIds
BY ManagerAssumption DEF Root, MetaIds, TileIds
-----------------------------------------------------------------------------
(* The queues and their handlers.                                          *)

\* The three counts of NoIdleHandler when w goes from its label to l.
LEMMA HandlerCounts ==
    ASSUME TypeOK, NEW w \in Workers, NEW l, Goto(w, l)
    PROVE  /\ Cardinality(At({"pre"})) \in Nat /\ Cardinality(At({"pre"})') \in Nat
           /\ Cardinality(At({"post"})) \in Nat /\ Cardinality(At({"post"})') \in Nat
           /\ Cardinality(At({"user", "pre"})) \in Nat
           /\ Cardinality(At({"user", "pre"})') \in Nat
           /\ Cardinality(At({"pre"})') = Cardinality(At({"pre"}))
                 - Count(pc[w] \in {"pre"}) + Count(l \in {"pre"})
           /\ Cardinality(At({"post"})') = Cardinality(At({"post"}))
                 - Count(pc[w] \in {"post"}) + Count(l \in {"post"})
           /\ Cardinality(At({"user", "pre"})') = Cardinality(At({"user", "pre"}))
                 - Count(pc[w] \in {"user", "pre"}) + Count(l \in {"user", "pre"})
<1>1. IsFiniteSet(Workers) /\ pc \in [Workers -> Labels] /\ pc' = [pc EXCEPT ![w] = l]
  BY ManagerAssumption DEF TypeOK, Goto
<1> QED
  BY <1>1, AtMoves

\* At first there are no entries and no handlers.
LEMMA HandlerInit == Init => NoIdleHandler
<1> SUFFICES ASSUME Init PROVE NoIdleHandler
  OBVIOUS
<1>1. At({"pre"}) = {} /\ At({"post"}) = {} /\ At({"user", "pre"}) = {}
  BY DEF Init, At
<1>2. Cardinality({}) = 0
  BY FS_EmptySet
<1>3. ssm = FALSE /\ http = NoRequest
  BY DEF Init
<1>4. Unposted = 0
  BY <1>1, <1>2, <1>3 DEF Unposted
<1>5. posted = 0 /\ Len(userRequests) = 0 /\ Len(preRenderRequests) = 0
  BY DEF Init
<1>6. Cardinality(At({"pre"})) = 0 /\ Cardinality(At({"user", "pre"})) = 0
  BY <1>1, <1>2
<1> QED
  BY <1>4, <1>5, <1>6 DEF NoIdleHandler

\* Every step keeps the number of entries equal to the number of handlers.
LEMMA HandlerStep ==
    ASSUME TypeOK, NoIdleHandler, [Next]_vars
    PROVE  NoIdleHandler'
<1> DEFINE Pre  == Cardinality(At({"pre"}))
           Post == Cardinality(At({"post"}))
           Look == Cardinality(At({"user", "pre"}))
<1>1. Pre \in Nat /\ Post \in Nat /\ Look \in Nat
  BY AtFinite, ManagerAssumption
<1>2. /\ userRequests \in Seq(Requests) /\ preRenderRequests \in Seq(MetaIds)
      /\ posted \in Nat /\ ssm \in BOOLEAN /\ http \in Requests \cup {NoRequest}
      /\ \A w \in Workers : todo[w] \in Seq(MetaIds)
  BY DEF TypeOK
<1>3. NoRequest \notin Requests
  BY ManagerAssumption
<1>4. /\ Pre <= Len(preRenderRequests)
      /\ posted + Unposted + Look = Len(userRequests) + Len(preRenderRequests)
  BY DEF NoIdleHandler
<1>5. Unposted = (IF http = NoRequest THEN 0 ELSE 1) + (IF ssm THEN 1 ELSE 0) + Post
  BY DEF Unposted
<1>6. Unposted' = (IF http' = NoRequest THEN 0 ELSE 1) + (IF ssm' THEN 1 ELSE 0) + Post'
  BY DEF Unposted
<1>7. SUFFICES /\ Pre' <= Len(preRenderRequests')
               /\ posted' + Unposted' + Look'
                     = Len(userRequests') + Len(preRenderRequests')
  BY DEF NoIdleHandler
<1>8. ASSUME pc' = pc
      PROVE  Pre' = Pre /\ Post' = Post /\ Look' = Look
  BY <1>8, AtStays
<1>9. ASSUME NEW w \in Workers, NEW l, Goto(w, l)
      PROVE  /\ Pre' \in Nat /\ Post' \in Nat /\ Look' \in Nat
             /\ Pre' = Pre - Count(pc[w] \in {"pre"}) + Count(l \in {"pre"})
             /\ Post' = Post - Count(pc[w] \in {"post"}) + Count(l \in {"post"})
             /\ Look' = Look - Count(pc[w] \in {"user", "pre"}) + Count(l \in {"user", "pre"})
  BY <1>9, HandlerCounts
<1> HIDE DEF Pre, Post, Look
<1>10. CASE UNCHANGED vars
  BY <1>1, <1>2, <1>4, <1>5, <1>6, <1>8, Frames, <1>10 DEF vars
<1>11. ASSUME NEW r \in Requests, Enqueue(r) PROVE <1>7!1
  BY <1>1, <1>2, <1>3, <1>4, <1>5, <1>6, <1>8, <1>11 DEF Enqueue
<1>12. ASSUME PostUser PROVE <1>7!1
  BY <1>1, <1>2, <1>3, <1>4, <1>5, <1>6, <1>8, <1>12 DEF PostUser
<1>13. ASSUME PostRoot PROVE <1>7!1
  BY <1>1, <1>2, <1>3, <1>4, <1>5, <1>6, <1>8, <1>13 DEF PostRoot
<1>14. ASSUME Stop PROVE <1>7!1
  BY <1>1, <1>2, <1>3, <1>4, <1>5, <1>6, <1>8, Frames, <1>14 DEF Stop
<1>15. ASSUME NEW s \in Styles, LoadStyle(s) PROVE <1>7!1
  BY <1>1, <1>2, <1>4, <1>5, <1>6, <1>8, <1>15 DEF LoadStyle
<1>16. ASSUME Rest PROVE <1>7!1
  BY <1>10, <1>16 DEF Rest
<1>17. ASSUME NEW w \in Workers, Worker(w) PROVE <1>7!1
  <2> DEFINE Handler == {"user", "pre", "post"}
  <2>1. ASSUME NEW l, Goto(w, l), pc[w] \notin Handler, l \notin Handler,
               UNCHANGED <<queues, http, ssm>>
        PROVE  <1>7!1
    <3>1. Pre' = Pre /\ Post' = Post /\ Look' = Look
      BY <1>1, <1>9, <2>1 DEF Count
    <3> QED
      BY <1>4, <1>5, <1>6, <2>1, <3>1, Frames
  <2>2. CASE TakeHandler(w)
    <3>1. Goto(w, "user") /\ pc[w] = "idle"
      BY <2>2 DEF TakeHandler
    <3>2. Pre' = Pre /\ Post' = Post /\ Look' = Look + 1
      BY <1>1, <1>9, <3>1 DEF Count
    <3> QED
      BY <1>1, <1>2, <1>4, <1>5, <1>6, <2>2, <3>2, Frames DEF TakeHandler
  <2>3. CASE PopUser(w)
    <3>1. CASE userRequests = << >>
      <4>1. Goto(w, "pre") /\ pc[w] = "user"
        BY <2>3, <3>1 DEF PopUser
      <4>2. Pre' = Pre + 1 /\ Post' = Post /\ Look' = Look
        BY <1>1, <1>9, <4>1 DEF Count
      <4>3. Pre + 1 <= Look
        <5>1. At({"pre"}) \cup {w} \in SUBSET At({"user", "pre"}) /\ w \notin At({"pre"})
          BY <4>1 DEF At
        <5>2. IsFiniteSet(At({"user", "pre"})) /\ IsFiniteSet(At({"pre"}))
          BY FS_Subset, ManagerAssumption DEF At
        <5>3. Cardinality(At({"pre"}) \cup {w}) = Pre + 1
          BY <5>1, <5>2, FS_AddElement DEF Pre
        <5>4. Cardinality(At({"pre"}) \cup {w}) <= Look
          BY <5>1, <5>2, FS_Subset DEF Look
        <5> QED
          BY <5>3, <5>4
      <4> QED
        BY <1>1, <1>2, <1>4, <1>5, <1>6, <2>3, <3>1, <4>2, <4>3, Frames DEF PopUser
    <3>2. CASE userRequests # << >>
      <4>1. Goto(w, "create") /\ pc[w] = "user"
        BY <2>3, <3>2 DEF PopUser
      <4>2. Pre' = Pre /\ Post' = Post /\ Look' = Look - 1
        BY <1>1, <1>9, <4>1 DEF Count
      <4> QED
        BY <1>1, <1>2, <1>4, <1>5, <1>6, <2>3, <3>2, <4>2, Frames DEF PopUser
    <3> QED
      BY <3>1, <3>2
  <2>4. CASE Create(w)
    <3>1. \E l : Goto(w, l) /\ pc[w] \notin Handler /\ l \notin Handler
      BY <2>4 DEF Create
    <3> QED
      BY <2>1, <2>4, <3>1, Frames DEF Create
  <2>5. CASE PopPre(w)
    <3>1. Pre >= 1
      <4>1. w \in At({"pre"}) /\ IsFiniteSet(At({"pre"}))
        BY <2>5, FS_Subset, ManagerAssumption DEF At, PopPre
      <4> QED
        BY <1>1, <4>1, FS_EmptySet DEF Pre
    <3>2. Len(preRenderRequests) >= 1 /\ preRenderRequests # << >>
      <4>1. Len(preRenderRequests) >= 1
        BY <1>1, <1>2, <1>4, <3>1
      <4> QED
        BY <4>1
    <3>3. Goto(w, "factory") /\ pc[w] = "pre"
      BY <2>5, <3>2 DEF PopPre
    <3>4. Pre' = Pre - 1 /\ Post' = Post /\ Look' = Look - 1
      BY <1>1, <1>9, <3>3 DEF Count
    <3>5. /\ preRenderRequests' = Tail(preRenderRequests)
          /\ UNCHANGED <<userRequests, posted, http, ssm>>
      BY <2>5, <3>2, Frames DEF PopPre
    <3>6. Len(preRenderRequests') = Len(preRenderRequests) - 1
      BY <1>2, <3>2, <3>5, HeadTailProperties
    <3>7. Unposted' = Unposted /\ Unposted \in Nat
      BY <1>1, <1>5, <1>6, <3>4, <3>5
    <3>8. Len(userRequests) \in Nat /\ Len(preRenderRequests) \in Nat
      BY <1>2
    <3>9. posted' = posted /\ Len(userRequests') = Len(userRequests)
      BY <3>5
    <3>10. Pre' <= Len(preRenderRequests')
      BY <1>1, <1>4, <3>4, <3>6, <3>8
    <3>11. posted' + Unposted' + Look' = Len(userRequests') + Len(preRenderRequests')
      BY <1>1, <1>2, <1>4, <3>4, <3>6, <3>7, <3>8, <3>9
    <3> QED
      BY <3>10, <3>11
  <2>6. CASE TakeFactory(w)
    BY <2>1, <2>6, Frames DEF TakeFactory
  <2>7. CASE StartUser(w)
    <3>1. \E l \in {"return", "process"} : Goto(w, l)
      BY <2>7 DEF StartUser
    <3> QED
      BY <2>1, <2>7, <3>1, Frames DEF StartUser
  <2>8. CASE StartPre(w)
    <3>1. \E l \in {"return", "process"} : Goto(w, l)
      BY <2>8 DEF StartPre
    <3> QED
      BY <2>1, <2>8, <3>1, Frames DEF StartPre
  <2>9. CASE Process(w)
    BY <2>1, <2>9, Frames DEF Process
  <2>10. CASE Finished(w)
    BY <2>1, <2>10, Frames DEF Finished
  <2>11. CASE Deliver(w)
    BY <1>4, <1>5, <1>6, <1>8, <2>11, Frames DEF Deliver
  <2>12. CASE Delivered(w)
    BY <2>1, <2>12, Frames DEF Delivered
  <2>13. CASE Return(w)
    <3>1. \E l \in {"idle", "sub"} : Goto(w, l)
      BY <2>13 DEF Return
    <3> QED
      BY <2>1, <2>13, <3>1, Frames DEF Return
  <2>14. CASE EnqueueChild(w)
    <3>1. Goto(w, "post") /\ pc[w] = "sub"
      BY <2>14 DEF EnqueueChild
    <3>2. Pre' = Pre /\ Post' = Post + 1 /\ Look' = Look
      BY <1>1, <1>9, <3>1 DEF Count
    <3>3. Head(todo[w]) \in MetaIds
      BY <1>2, <2>14 DEF EnqueueChild
    <3> QED
      BY <1>1, <1>2, <1>4, <1>5, <1>6, <2>14, <3>2, <3>3, Frames DEF EnqueueChild
  <2>15. CASE PostChild(w)
    <3>1. Goto(w, "sub") /\ pc[w] = "post"
      BY <2>15 DEF PostChild
    <3>2. Pre' = Pre /\ Post' = Post - 1 /\ Look' = Look
      BY <1>1, <1>9, <3>1 DEF Count
    <3> QED
      BY <1>1, <1>2, <1>4, <1>5, <1>6, <2>15, <3>2, Frames DEF PostChild
  <2>16. CASE Leave(w)
    BY <2>1, <2>16, Frames DEF Leave
  <2>17. CASE CheckThreads(w)
    <3>1. \E l \in {"idle", "check_queue"} : Goto(w, l)
      BY <2>17 DEF CheckThreads
    <3> QED
      BY <2>1, <2>17, <3>1, Frames DEF CheckThreads
  <2>18. CASE CheckQueue(w)
    BY <2>1, <2>18, Frames DEF CheckQueue
  <2> QED
    BY <1>17, <2>2, <2>3, <2>4, <2>5, <2>6, <2>7, <2>8, <2>9, <2>10, <2>11, <2>12,
       <2>13, <2>14, <2>15, <2>16, <2>17, <2>18 DEF Worker
<1> QED
  BY <1>10, <1>11, <1>12, <1>13, <1>14, <1>15, <1>16, <1>17 DEF Next
-----------------------------------------------------------------------------
(* The counter of prerendering workers and the factories.                  *)

\* A worker that is about to take a factory finds one.
LEMMA FactoryThere ==
    ASSUME TypeOK, FactoryCount, NEW w \in Workers, pc[w] = "factory"
    PROVE  factories # << >> /\ Len(factories) >= 1
<1>1. Drawing \in SUBSET (Workers \ {w})
  BY DEF Drawing, At
<1>2. IsFiniteSet(Workers) /\ IsFiniteSet(Workers \ {w})
  BY ManagerAssumption, FS_RemoveElement
<1>3. Cardinality(Workers \ {w}) = Cardinality(Workers) - 1
  BY <1>2, FS_RemoveElement
<1>4. Cardinality(Drawing) <= Cardinality(Workers) - 1
  BY <1>1, <1>2, <1>3, FS_Subset
<1>5. Cardinality(Drawing) \in Nat /\ Cardinality(Workers) \in Nat
  BY <1>1, <1>2, FS_Subset, FS_CardinalityType
<1>6. factories \in Seq(Workers) /\ Len(factories) \in Nat
  BY DEF TypeOK
<1>7. Len(factories) >= 1
  BY <1>4, <1>5, <1>6 DEF FactoryCount
<1> QED
  BY <1>7

\* A worker that prerenders is counted.
LEMMA ThreadThere ==
    ASSUME TypeOK, ThreadCount, NEW w \in Workers, w \in Prerendering
    PROVE  currentPrerenderingThreads >= 1
<1>1. IsFiniteSet(Prerendering)
  BY ManagerAssumption, FS_Subset DEF Prerendering
<1>2. Cardinality(Prerendering) \in Nat
  BY <1>1, FS_CardinalityType
<1>3. Cardinality(Prerendering) # 0
  BY <1>1, FS_EmptySet
<1> QED
  BY <1>2, <1>3 DEF ThreadCount

\* How their number changes when only w moves or changes its request.
LEMMA PrerenderingMoves ==
    ASSUME NEW w \in Workers,
           \A v \in Workers \ {w} : pc'[v] = pc[v] /\ req'[v] = req[v]
    PROVE  /\ Cardinality(Prerendering) \in Nat /\ Cardinality(Prerendering') \in Nat
           /\ Cardinality(Prerendering') = Cardinality(Prerendering)
                 - Count(w \in Prerendering) + Count(w \in Prerendering')
<1>1. Prerendering \in SUBSET Workers /\ Prerendering' \in SUBSET Workers
  BY DEF Prerendering
<1>2. Prerendering \ {w} = Prerendering' \ {w}
  BY DEF Prerendering
<1> QED
  BY <1>1, <1>2, MoveOne, ManagerAssumption

\* Every step keeps currentPrerenderingThreads the number of those workers.
LEMMA ThreadStep ==
    ASSUME TypeOK, LocalOK, ThreadCount, [Next]_vars
    PROVE  ThreadCount'
<1>1. ASSUME UNCHANGED <<pc, req, currentPrerenderingThreads>>
      PROVE  ThreadCount'
  BY <1>1 DEF ThreadCount, Prerendering
<1>2. ASSUME NEW w \in Workers, \A v \in Workers \ {w} : pc'[v] = pc[v] /\ req'[v] = req[v],
             w \in Prerendering <=> w \in Prerendering',
             UNCHANGED currentPrerenderingThreads
      PROVE  ThreadCount'
  BY <1>2, PrerenderingMoves DEF ThreadCount, Count
<1>3. pc \in [Workers -> Labels] /\ req \in [Workers -> Requests \cup {NoRequest}]
  BY DEF TypeOK
<1>4. CASE UNCHANGED vars
  BY <1>1, <1>4, Frames DEF vars
<1>5. ASSUME NEW r \in Requests, Enqueue(r) PROVE ThreadCount'
  BY <1>1, <1>5, Frames DEF Enqueue
<1>6. CASE PostUser
  BY <1>1, <1>6, Frames DEF PostUser
<1>7. CASE PostRoot
  BY <1>1, <1>7, Frames DEF PostRoot
<1>8. CASE Stop
  BY <1>1, <1>8, Frames DEF Stop
<1>9. ASSUME NEW s \in Styles, LoadStyle(s) PROVE ThreadCount'
  BY <1>1, <1>9, Frames DEF LoadStyle
<1>10. CASE Rest
  BY <1>4, <1>10 DEF Rest
<1>11. ASSUME NEW w \in Workers, Worker(w) PROVE ThreadCount'
  <2>1. CASE TakeHandler(w)
    BY <1>2, <1>3, <2>1, Frames DEF TakeHandler, Goto, Prerendering
  <2>2. CASE PopUser(w)
    BY <1>2, <1>3, <2>2, Frames DEF PopUser, Goto, Prerendering
  <2>3. CASE Create(w)
    BY <1>2, <1>3, <2>3, Frames, ManagerAssumption DEF Create, Goto, Prerendering, LocalOK
  <2>4. CASE PopPre(w)
    BY <1>2, <1>3, <2>4, Frames, PrerenderingMoves
    DEF PopPre, Goto, Prerendering, LocalOK, ThreadCount, Count
  <2>5. CASE TakeFactory(w)
    BY <1>2, <1>3, <2>5, Frames DEF TakeFactory, Goto, Prerendering
  <2>6. CASE StartUser(w)
    BY <1>2, <1>3, <2>6, Frames DEF StartUser, Goto, Prerendering
  <2>7. CASE StartPre(w)
    BY <1>2, <1>3, <2>7, Frames DEF StartPre, Goto, Prerendering
  <2>8. CASE Process(w)
    BY <1>2, <1>3, <2>8, Frames DEF Process, Goto, Prerendering
  <2>9. CASE Finished(w)
    BY <1>2, <1>3, <2>9, Frames DEF Finished, Goto, Prerendering
  <2>10. CASE Deliver(w)
    BY <1>1, <2>10, Frames DEF Deliver
  <2>11. CASE Delivered(w)
    BY <1>2, <1>3, <2>11, Frames DEF Delivered, Goto, Prerendering
  <2>12. CASE Return(w)
    BY <1>2, <1>3, <2>12, Frames DEF Return, Goto, Prerendering
  <2>13. CASE EnqueueChild(w)
    BY <1>2, <1>3, <2>13, Frames DEF EnqueueChild, Goto, Prerendering
  <2>14. CASE PostChild(w)
    BY <1>2, <1>3, <2>14, Frames DEF PostChild, Goto, Prerendering
  <2>15. CASE Leave(w)
    BY <1>2, <1>3, <2>15, Frames, PrerenderingMoves
    DEF Leave, Goto, Prerendering, LocalOK, ThreadCount, Count
  <2>16. CASE CheckThreads(w)
    BY <1>2, <1>3, <2>16, Frames DEF CheckThreads, Goto, Prerendering
  <2>17. CASE CheckQueue(w)
    BY <1>2, <1>3, <2>17, Frames DEF CheckQueue, Goto, Prerendering
  <2> QED
    BY <1>11, <2>1, <2>2, <2>3, <2>4, <2>5, <2>6, <2>7, <2>8, <2>9, <2>10, <2>11, <2>12,
       <2>13, <2>14, <2>15, <2>16, <2>17 DEF Worker
<1> QED
  BY <1>4, <1>5, <1>6, <1>7, <1>8, <1>9, <1>10, <1>11 DEF Next

\* No step creates, loses or shares a factory.
LEMMA FactoryStep ==
    ASSUME TypeOK, FactoryCount, FactoriesDistinct, [Next]_vars
    PROVE  FactoryCount' /\ FactoriesDistinct'
<1> DEFINE Labels5 == {"start", "process", "finished", "deliver", "return"}
<1>1. ASSUME Drawing' = Drawing, UNCHANGED <<factories, factory>>
      PROVE  FactoryCount' /\ FactoriesDistinct'
  BY <1>1 DEF FactoryCount, FactoriesDistinct
<1>2. /\ pc \in [Workers -> Labels] /\ factories \in Seq(Workers)
      /\ factory \in [Workers -> Workers] /\ IsFiniteSet(Workers)
  BY ManagerAssumption DEF TypeOK
<1>3. ASSUME UNCHANGED pc
      PROVE  Drawing' = Drawing
  BY <1>3 DEF Drawing, At
<1>4. ASSUME NEW w \in Workers, NEW l, Goto(w, l), pc[w] \in Labels5 <=> l \in Labels5
      PROVE  Drawing' = Drawing
  BY <1>2, <1>4 DEF Drawing, At, Goto
<1>5. ASSUME NEW w \in Workers, NEW l, Goto(w, l)
      PROVE  /\ Cardinality(Drawing) \in Nat /\ Cardinality(Drawing') \in Nat
             /\ Cardinality(Drawing') = Cardinality(Drawing)
                   - Count(pc[w] \in Labels5) + Count(l \in Labels5)
  BY <1>2, <1>5, AtMoves DEF Drawing, Goto
<1>6. CASE UNCHANGED vars
  BY <1>1, <1>3, <1>6, Frames DEF vars
<1>7. ASSUME NEW r \in Requests, Enqueue(r) PROVE FactoryCount' /\ FactoriesDistinct'
  BY <1>1, <1>3, <1>7, Frames DEF Enqueue
<1>8. CASE PostUser
  BY <1>1, <1>3, <1>8, Frames DEF PostUser
<1>9. CASE PostRoot
  BY <1>1, <1>3, <1>9, Frames DEF PostRoot
<1>10. CASE Stop
  BY <1>1, <1>3, <1>10, Frames DEF Stop
<1>11. ASSUME NEW s \in Styles, LoadStyle(s) PROVE FactoryCount' /\ FactoriesDistinct'
  BY <1>1, <1>3, <1>11, Frames DEF LoadStyle
<1>12. CASE Rest
  BY <1>6, <1>12 DEF Rest
<1>13. ASSUME NEW w \in Workers, Worker(w) PROVE FactoryCount' /\ FactoriesDistinct'
  <2>1. CASE TakeHandler(w)
    <3>1. \E l \in {"user"} : Goto(w, l)
      BY <2>1 DEF TakeHandler
    <3> QED
      BY <1>1, <1>4, <2>1, <3>1, Frames DEF TakeHandler
  <2>2. CASE PopUser(w)
    <3>1. \E l \in {"pre", "create"} : Goto(w, l)
      BY <2>2 DEF PopUser
    <3> QED
      BY <1>1, <1>4, <2>2, <3>1, Frames DEF PopUser
  <2>3. CASE Create(w)
    <3>1. \E l \in {"idle", "factory"} : Goto(w, l)
      BY <2>3 DEF Create
    <3> QED
      BY <1>1, <1>4, <2>3, <3>1, Frames DEF Create
  <2>4. CASE PopPre(w)
    <3>1. \E l \in {"idle", "factory"} : Goto(w, l)
      BY <2>4 DEF PopPre
    <3> QED
      BY <1>1, <1>4, <2>4, <3>1, Frames DEF PopPre
  <2>5. CASE StartUser(w)
    <3>1. \E l \in {"return", "process"} : Goto(w, l)
      BY <2>5 DEF StartUser
    <3> QED
      BY <1>1, <1>4, <2>5, <3>1, Frames DEF StartUser
  <2>6. CASE StartPre(w)
    <3>1. \E l \in {"return", "process"} : Goto(w, l)
      BY <2>6 DEF StartPre
    <3> QED
      BY <1>1, <1>4, <2>6, <3>1, Frames DEF StartPre
  <2>7. CASE Process(w)
    <3>1. \E l \in {"finished"} : Goto(w, l)
      BY <2>7 DEF Process
    <3> QED
      BY <1>1, <1>4, <2>7, <3>1, Frames DEF Process
  <2>8. CASE Finished(w)
    <3>1. \E l \in {"deliver"} : Goto(w, l)
      BY <2>8 DEF Finished
    <3> QED
      BY <1>1, <1>4, <2>8, <3>1, Frames DEF Finished
  <2>9. CASE Delivered(w)
    <3>1. \E l \in {"return"} : Goto(w, l)
      BY <2>9 DEF Delivered
    <3> QED
      BY <1>1, <1>4, <2>9, <3>1, Frames DEF Delivered
  <2>10. CASE EnqueueChild(w)
    <3>1. \E l \in {"post"} : Goto(w, l)
      BY <2>10 DEF EnqueueChild
    <3> QED
      BY <1>1, <1>4, <2>10, <3>1, Frames DEF EnqueueChild
  <2>11. CASE PostChild(w)
    <3>1. \E l \in {"sub"} : Goto(w, l)
      BY <2>11 DEF PostChild
    <3> QED
      BY <1>1, <1>4, <2>11, <3>1, Frames DEF PostChild
  <2>12. CASE Leave(w)
    <3>1. \E l \in {"check_threads"} : Goto(w, l)
      BY <2>12 DEF Leave
    <3> QED
      BY <1>1, <1>4, <2>12, <3>1, Frames DEF Leave
  <2>13. CASE CheckThreads(w)
    <3>1. \E l \in {"idle", "check_queue"} : Goto(w, l)
      BY <2>13 DEF CheckThreads
    <3> QED
      BY <1>1, <1>4, <2>13, <3>1, Frames DEF CheckThreads
  <2>14. CASE CheckQueue(w)
    <3>1. \E l \in {"idle"} : Goto(w, l)
      BY <2>14 DEF CheckQueue
    <3> QED
      BY <1>1, <1>4, <2>14, <3>1, Frames DEF CheckQueue
  <2>15. CASE Deliver(w)
    BY <1>1, <1>3, <2>15, Frames DEF Deliver
  <2>16. CASE TakeFactory(w)
    <3>1. factories # << >> /\ Len(factories) >= 1 /\ w \notin Drawing
      BY <2>16, FactoryThere DEF TakeFactory, Drawing, At
    <3>2. /\ factories' = Tail(factories) /\ factory' = [factory EXCEPT ![w] = Head(factories)]
          /\ Goto(w, "start") /\ pc[w] = "factory"
      BY <2>16 DEF TakeFactory
    <3>3. /\ Len(factories') = Len(factories) - 1 /\ Len(factories) \in Nat
          /\ Head(factories) = factories[1]
          /\ \A i \in 1 .. Len(factories') : factories'[i] = factories[i + 1]
          /\ DOMAIN factories' = 1 .. Len(factories') /\ DOMAIN factories = 1 .. Len(factories)
      BY <1>2, <3>1, <3>2, HeadTailProperties, LenProperties
    <3>4. Cardinality(Drawing') = Cardinality(Drawing) + 1
      BY <1>5, <3>2 DEF Count
    <3>5. FactoryCount'
      BY <1>5, <3>2, <3>3, <3>4 DEF FactoryCount
    <3>6. Drawing' = Drawing \cup {w}
      BY <1>2, <3>2 DEF Drawing, At, Goto
    <3>7. \A i, j \in DOMAIN factories' : factories'[i] = factories'[j] => i = j
      <4>1. \A i \in DOMAIN factories' : i \in Int /\ i + 1 \in DOMAIN factories
        BY <3>3
      <4>2. \A i, j \in DOMAIN factories' : factories'[i] = factories'[j] => i + 1 = j + 1
        BY <3>3, <4>1 DEF FactoriesDistinct
      <4> QED
        BY <4>1, <4>2
    <3>8. factory'[w] = factories[1] /\ \A v \in Drawing : factory'[v] = factory[v]
      BY <1>2, <3>1, <3>2, <3>3 DEF Drawing, At
    <3>9. 1 \in DOMAIN factories /\ \A i \in DOMAIN factories' : i + 1 \in DOMAIN factories /\ i + 1 # 1
      BY <3>1, <3>3
    <3>10. \A v, u \in Drawing' : factory'[v] = factory'[u] => v = u
      BY <3>6, <3>8, <3>9 DEF FactoriesDistinct
    <3>11. \A i \in DOMAIN factories', v \in Drawing' : factories'[i] # factory'[v]
      BY <3>3, <3>6, <3>8, <3>9 DEF FactoriesDistinct
    <3> QED
      BY <3>5, <3>7, <3>10, <3>11 DEF FactoriesDistinct
  <2>17. CASE Return(w)
    <3>1. w \in Drawing /\ pc[w] = "return"
      BY <2>17 DEF Return, Drawing, At
    <3>2. /\ factories' = Append(factories, factory[w])
          /\ factory' = [factory EXCEPT ![w] = w]
          /\ \E l \in {"idle", "sub"} : Goto(w, l)
      BY <2>17 DEF Return
    <3>3. /\ Len(factories') = Len(factories) + 1 /\ Len(factories) \in Nat
          /\ \A i \in 1 .. Len(factories) : factories'[i] = factories[i]
          /\ factories'[Len(factories) + 1] = factory[w]
          /\ DOMAIN factories' = 1 .. Len(factories) + 1 /\ DOMAIN factories = 1 .. Len(factories)
      BY <1>2, <3>2, AppendProperties, LenProperties
    <3>4. Cardinality(Drawing') = Cardinality(Drawing) - 1
      BY <1>5, <3>1, <3>2 DEF Count
    <3>5. FactoryCount'
      BY <1>5, <3>2, <3>3, <3>4 DEF FactoryCount
    <3>6. Drawing' = Drawing \ {w}
      BY <1>2, <3>2 DEF Drawing, At, Goto
    <3>7. \A v \in Drawing' : v \in Drawing /\ v # w /\ factory'[v] = factory[v]
      BY <1>2, <3>2, <3>6 DEF Drawing, At
    <3>8. \A i \in DOMAIN factories' : i \in DOMAIN factories \/ i = Len(factories) + 1
      BY <3>3
    <3>9. \A i, j \in DOMAIN factories' : factories'[i] = factories'[j] => i = j
      BY <3>1, <3>3, <3>8 DEF FactoriesDistinct
    <3>10. \A v, u \in Drawing' : factory'[v] = factory'[u] => v = u
      BY <3>7 DEF FactoriesDistinct
    <3>11. \A i \in DOMAIN factories', v \in Drawing' : factories'[i] # factory'[v]
      BY <3>1, <3>3, <3>7, <3>8 DEF FactoriesDistinct
    <3> QED
      BY <3>5, <3>9, <3>10, <3>11 DEF FactoriesDistinct
  <2> QED
    BY <1>13, <2>1, <2>2, <2>3, <2>4, <2>5, <2>6, <2>7, <2>8, <2>9, <2>10, <2>11, <2>12,
       <2>13, <2>14, <2>15, <2>16, <2>17 DEF Worker
<1> QED
  BY <1>6, <1>7, <1>8, <1>9, <1>10, <1>11, <1>12, <1>13 DEF Next

-----------------------------------------------------------------------------
(* The initial states.                                                     *)

\* Nobody works and the pool holds one factory per worker.
LEMMA CountsInit == Init => ThreadCount /\ FactoryCount /\ FactoriesDistinct
<1> SUFFICES ASSUME Init PROVE ThreadCount /\ FactoryCount /\ FactoriesDistinct
  OBVIOUS
<1>1. Drawing = {} /\ Prerendering = {} /\ Cardinality({}) = 0
  BY FS_EmptySet DEF Init, Drawing, At, Prerendering
<1>2. Cardinality(Workers) \in Nat
  BY ManagerAssumption, FS_CardinalityType
<1>3. /\ factories \in [1 .. Cardinality(Workers) -> Workers]
      /\ \A i, j \in DOMAIN factories : factories[i] = factories[j] => i = j
      /\ currentPrerenderingThreads = 0
  BY DEF Init
<1>4. Len(factories) = Cardinality(Workers)
  BY <1>2, <1>3
<1>5. FactoryCount
  BY <1>1, <1>2, <1>4 DEF FactoryCount
<1> QED
  BY <1>1, <1>3, <1>5 DEF ThreadCount, FactoriesDistinct

\* The variables start in their types.
LEMMA TypeInit == Init => TypeOK /\ LocalOK
<1> SUFFICES ASSUME Init PROVE TypeOK /\ LocalOK
  OBVIOUS
<1>1. Cardinality(Workers) \in Nat
  BY ManagerAssumption, FS_CardinalityType
<1>2. factories \in Seq(Workers)
  BY <1>1 DEF Init
<1>3. loads \in [Styles -> 0 .. MaxLoads]
  BY ManagerAssumption DEF Init
<1>4. /\ userRequests \in Seq(Requests) /\ preRenderRequests \in Seq(MetaIds)
      /\ running \in Seq(Workers) /\ todo \in [Workers -> Seq(MetaIds)]
  BY DEF Init
<1>5. pc = [w \in Workers |-> "idle"]
  BY DEF Init
<1>6. LocalOK
  BY DEF Init, LocalOK
<1> QED
  BY <1>2, <1>3, <1>4, <1>5, <1>6 DEF Init, TypeOK, At, Labels, Sent, Outcomes

-----------------------------------------------------------------------------
(* What the workers carry, and the types.                                  *)

\* A worker at create has a request, one past it has resolved its url, and one
\* that prerenders or rests has none.
LEMMA LocalStep ==
    ASSUME TypeOK, LocalOK, [Next]_vars
    PROVE  LocalOK'
<1>1. ASSUME UNCHANGED <<pc, req, ti>> PROVE LocalOK'
  BY <1>1 DEF LocalOK
<1>2. /\ pc \in [Workers -> Labels] /\ req \in [Workers -> Requests \cup {NoRequest}]
      /\ ti \in [Workers -> Outcomes] /\ userRequests \in Seq(Requests)
      /\ NoRequest \notin Requests
  BY ManagerAssumption DEF TypeOK
<1>3. CASE UNCHANGED vars
  BY <1>1, <1>3, Frames DEF vars
<1>4. ASSUME NEW r \in Requests, Enqueue(r) PROVE LocalOK'
  BY <1>1, <1>4, Frames DEF Enqueue
<1>5. CASE PostUser \/ PostRoot \/ Stop \/ Rest
  BY <1>1, <1>3, <1>5, Frames DEF PostUser, PostRoot, Stop, Rest
<1>6. ASSUME NEW s \in Styles, LoadStyle(s) PROVE LocalOK'
  BY <1>1, <1>6, Frames DEF LoadStyle
<1>7. ASSUME NEW w \in Workers, Worker(w) PROVE LocalOK'
  <2>1. CASE TakeHandler(w)
    BY <1>2, <2>1, Frames DEF TakeHandler, Goto, LocalOK
  <2>2. CASE PopUser(w)
    BY <1>2, <2>2, Frames DEF PopUser, Goto, LocalOK
  <2>3. CASE Create(w)
    BY <1>2, <2>3, Frames, ManagerAssumption DEF Create, Goto, LocalOK, Outcomes
  <2>4. CASE PopPre(w)
    BY <1>2, <2>4, Frames DEF PopPre, Goto, LocalOK
  <2>5. CASE TakeFactory(w)
    BY <1>2, <2>5, Frames DEF TakeFactory, Goto, LocalOK
  <2>6. CASE StartUser(w)
    BY <1>2, <2>6, Frames DEF StartUser, Goto, LocalOK
  <2>7. CASE StartPre(w)
    BY <1>2, <2>7, Frames DEF StartPre, Goto, LocalOK
  <2>8. CASE Process(w)
    BY <1>2, <2>8, Frames DEF Process, Goto, LocalOK
  <2>9. CASE Finished(w)
    BY <1>2, <2>9, Frames DEF Finished, Goto, LocalOK
  <2>10. CASE Deliver(w)
    BY <1>1, <2>10, Frames DEF Deliver
  <2>11. CASE Delivered(w)
    BY <1>2, <2>11, Frames DEF Delivered, Goto, LocalOK
  <2>12. CASE Return(w)
    BY <1>2, <2>12, Frames DEF Return, Goto, LocalOK
  <2>13. CASE EnqueueChild(w)
    BY <1>2, <2>13, Frames DEF EnqueueChild, Goto, LocalOK
  <2>14. CASE PostChild(w)
    BY <1>2, <2>14, Frames DEF PostChild, Goto, LocalOK
  <2>15. CASE Leave(w)
    BY <1>2, <2>15, Frames DEF Leave, Goto, LocalOK
  <2>16. CASE CheckThreads(w)
    BY <1>2, <2>16, Frames DEF CheckThreads, Goto, LocalOK
  <2>17. CASE CheckQueue(w)
    BY <1>2, <2>17, Frames DEF CheckQueue, Goto, LocalOK
  <2> QED
    BY <1>7, <2>1, <2>2, <2>3, <2>4, <2>5, <2>6, <2>7, <2>8, <2>9, <2>10, <2>11, <2>12,
       <2>13, <2>14, <2>15, <2>16, <2>17 DEF Worker
<1> QED
  BY <1>3, <1>4, <1>5, <1>6, <1>7 DEF Next

\* What pushing to and popping from a queue does to its type.
LEMMA QueueType ==
    ASSUME NEW S, NEW s \in Seq(S)
    PROVE  /\ \A x \in S : Append(s, x) \in Seq(S)
           /\ s # << >> => Head(s) \in S /\ Tail(s) \in Seq(S)
BY AppendProperties, HeadTailProperties

\* RunningQueue::finished leaves a list of workers.
LEMMA RemoveAtType ==
    ASSUME NEW S, NEW s \in Seq(S), NEW i \in DOMAIN s
    PROVE  Seqs!RemoveAt(s, i) \in Seq(S)
<1>1. i \in 1 .. Len(s) /\ Len(s) \in Nat
  BY LenProperties
<1>2. SubSeq(s, 1, i - 1) \in Seq(S) /\ SubSeq(s, i + 1, Len(s)) \in Seq(S)
  BY <1>1, SubSeqProperties
<1> QED
  BY <1>2, ConcatProperties DEF Seqs!RemoveAt

\* Every step keeps the types.
LEMMA TypeStep ==
    ASSUME TypeOK, LocalOK, ThreadCount, FactoryCount, [Next]_vars
    PROVE  TypeOK'
<1> DEFINE HasMid == {"factory", "start", "process", "finished", "deliver", "return",
                      "sub", "post"}
<1>1. CASE UNCHANGED vars
  BY <1>1, Frames DEF vars, TypeOK, At
<1>2. /\ userRequests \in Seq(Requests) /\ preRenderRequests \in Seq(MetaIds)
      /\ running \in Seq(Workers) /\ todo \in [Workers -> Seq(MetaIds)]
      /\ requests \in [Workers -> SUBSET (TileIds \X Requests)]
      /\ http \in Requests \cup {NoRequest} /\ posted \in Nat
      /\ req \in [Workers -> Requests \cup {NoRequest}] /\ ti \in [Workers -> Outcomes]
      /\ mid \in [Workers -> MetaIds \cup {NoMeta}]
      /\ currentPrerenderingThreads \in Nat
  BY DEF TypeOK
<1>3. /\ \A r \in Requests : Append(userRequests, r) \in Seq(Requests)
      /\ userRequests # << >> => /\ Head(userRequests) \in Requests
                                /\ Tail(userRequests) \in Seq(Requests)
      /\ preRenderRequests # << >> => /\ Head(preRenderRequests) \in MetaIds
                                     /\ Tail(preRenderRequests) \in Seq(MetaIds)
      /\ \A w \in Workers : Append(running, w) \in Seq(Workers)
  <2>1. \A r \in Requests : Append(userRequests, r) \in Seq(Requests)
    BY <1>2, QueueType
  <2>2. userRequests # << >> => /\ Head(userRequests) \in Requests
                                /\ Tail(userRequests) \in Seq(Requests)
    BY <1>2, QueueType
  <2>3. preRenderRequests # << >> => /\ Head(preRenderRequests) \in MetaIds
                                     /\ Tail(preRenderRequests) \in Seq(MetaIds)
    BY <1>2, QueueType
  <2>4. \A w \in Workers : Append(running, w) \in Seq(Workers)
    BY <1>2, QueueType
  <2> QED
    BY <2>1, <2>2, <2>3, <2>4
<1>4. ASSUME NEW w \in Workers, NEW l \in Labels, Goto(w, l),
             \A v \in Workers \ {w} : mid'[v] = mid[v],
             l \in HasMid => mid'[w] \in MetaIds
      PROVE  /\ pc' \in [Workers -> Labels]
             /\ \A v \in At(HasMid)' : mid'[v] \in MetaIds
  BY <1>4 DEF TypeOK, Goto, At
<1>5. ASSUME NEW r \in Requests, Enqueue(r) PROVE TypeOK'
  <2>1. UNCHANGED <<preRenderRequests, posted, ssm, loads, pc>> /\ UNCHANGED <<shared, local>>
    BY <1>5 DEF Enqueue
  <2>2. reply' \in [Requests -> Sent \cup {"none"}]
    BY <1>5 DEF Enqueue, Answer, TypeOK, Sent
  <2>3. userRequests' \in Seq(Requests) /\ http' \in Requests \cup {NoRequest}
    <3>1. \/ UNCHANGED <<userRequests, http>>
          \/ userRequests' = Append(userRequests, r) /\ http' = r
      BY <1>5 DEF Enqueue
    <3> QED
      BY <1>2, <1>3, <3>1, Zenon
  <2> QED
    BY <2>1, <2>2, <2>3, Frames DEF TypeOK, At
<1>6. CASE PostUser
  BY <1>6, Frames DEF PostUser, TypeOK, At
<1>7. CASE PostRoot
  <2>1. UNCHANGED <<userRequests, preRenderRequests, reply, http, loads, pc>>
        /\ UNCHANGED <<shared, local>> /\ ssm' = FALSE /\ posted' \in Nat
    BY <1>7, <1>2 DEF PostRoot
  <2> QED
    BY <2>1, Frames DEF TypeOK, At
<1>8. CASE Stop
  BY <1>8, Frames DEF Stop, TypeOK, At
<1>9. ASSUME NEW s \in Styles, LoadStyle(s) PROVE TypeOK'
  BY <1>9, Frames, RootType, ManagerAssumption DEF LoadStyle, TypeOK, At
<1>10. CASE Rest
  BY <1>1, <1>10 DEF Rest
<1>11. ASSUME NEW w \in Workers, Worker(w) PROVE TypeOK'
  <2>1. CASE TakeHandler(w)
    BY <2>1, Frames DEF TakeHandler, Goto, TypeOK, At, Labels
  <2>2. CASE PopUser(w)
    <3>1. UNCHANGED <<preRenderRequests, posted, ti, mid, factory, empty, requests, todo>>
          /\ UNCHANGED <<shared, others>>
      BY <2>2 DEF PopUser
    <3>2. userRequests' \in Seq(Requests) /\ req' \in [Workers -> Requests \cup {NoRequest}]
      <4>1. \/ UNCHANGED <<userRequests, req>>
            \/ /\ userRequests # << >> /\ userRequests' = Tail(userRequests)
               /\ req' = [req EXCEPT ![w] = Head(userRequests)]
        BY <2>2 DEF PopUser
      <4>2. CASE UNCHANGED <<userRequests, req>>
        BY <1>2, <4>2
      <4>3. CASE /\ userRequests # << >> /\ userRequests' = Tail(userRequests)
                 /\ req' = [req EXCEPT ![w] = Head(userRequests)]
        <5>1. userRequests' \in Seq(Requests) /\ Head(userRequests) \in Requests
          BY <1>3, <4>3, Zenon
        <5> QED
          BY <1>2, <4>3, <5>1, Zenon
      <4> QED
        BY <4>1, <4>2, <4>3
    <3>3. \E l \in {"pre", "create"} : Goto(w, l)
      BY <2>2 DEF PopUser
    <3> QED
      BY <1>4, <3>1, <3>2, <3>3, Frames DEF TypeOK, Labels
  <2>3. CASE Create(w)
    <3>1. PICK o \in Resolve[req[w]] :
            IF o \in {Malformed, UnknownFormat}
            THEN /\ Answer(req[w], IF o = Malformed THEN "forbidden" ELSE "not_implemented")
                 /\ req' = [req EXCEPT ![w] = NoRequest]
                 /\ Goto(w, "idle")
                 /\ UNCHANGED <<ti, mid>>
            ELSE /\ ti' = [ti EXCEPT ![w] = o]
                 /\ mid' = [mid EXCEPT ![w] = MetaOf(o)]
                 /\ Goto(w, "factory")
                 /\ UNCHANGED <<reply, req>>
      BY <2>3 DEF Create
    <3>2. UNCHANGED <<http, loads, ssm, factory, empty, requests, todo>>
          /\ UNCHANGED <<queues, shared>>
      BY <2>3 DEF Create
    <3>3. o \in Outcomes
      BY <2>3, ManagerAssumption DEF Create, LocalOK
    <3>4. CASE o \in {Malformed, UnknownFormat}
      <4>1. reply' \in [Requests -> Sent \cup {"none"}]
        BY <3>1, <3>4 DEF Answer, TypeOK, Sent
      <4>2. req' \in [Workers -> Requests \cup {NoRequest}]
        BY <3>1, <3>4 DEF TypeOK
      <4> QED
        BY <1>4, <3>1, <3>2, <3>4, <4>1, <4>2, Frames DEF TypeOK, Labels
    <3>5. CASE o \notin {Malformed, UnknownFormat}
      <4>1. MetaOf(o) \in MetaIds
        BY <3>3, <3>5, MetaOfType DEF Outcomes
      <4>2. /\ ti' \in [Workers -> Outcomes]
            /\ mid' \in [Workers -> MetaIds \cup {NoMeta}]
            /\ mid'[w] \in MetaIds /\ \A v \in Workers \ {w} : mid'[v] = mid[v]
        BY <1>2, <3>1, <3>3, <3>5, <4>1
      <4> QED
        BY <1>4, <3>1, <3>2, <3>5, <4>2, Frames DEF TypeOK, Labels
    <3> QED
      BY <3>4, <3>5
  <2>4. CASE PopPre(w)
    <3>1. UNCHANGED <<userRequests, posted, stopped, factories, running, prerenderReported,
                      req, ti, factory, empty, requests, todo>> /\ UNCHANGED others
      BY <2>4 DEF PopPre
    <3>2. CASE preRenderRequests = << >>
      BY <1>4, <2>4, <3>1, <3>2, Frames DEF PopPre, TypeOK, Labels
    <3>3. CASE preRenderRequests # << >>
      <4>0. /\ preRenderRequests' = Tail(preRenderRequests)
            /\ currentPrerenderingThreads' = currentPrerenderingThreads + 1
            /\ mid' = [mid EXCEPT ![w] = Head(preRenderRequests)]
            /\ Goto(w, "factory")
        BY <2>4, <3>3 DEF PopPre
      <4>1. /\ Head(preRenderRequests) \in MetaIds
            /\ preRenderRequests' \in Seq(MetaIds)
        BY <1>3, <3>3, <4>0, Zenon
      <4>2. /\ mid' \in [Workers -> MetaIds \cup {NoMeta}]
            /\ mid'[w] \in MetaIds /\ \A v \in Workers \ {w} : mid'[v] = mid[v]
            /\ currentPrerenderingThreads' \in Nat
            /\ Goto(w, "factory")
        BY <1>2, <4>0, <4>1
      <4> QED
        BY <1>4, <3>1, <4>1, <4>2, Frames DEF TypeOK, Labels
    <3> QED
      BY <3>2, <3>3
  <2>5. CASE TakeFactory(w)
    <3>1. UNCHANGED <<stopped, running, currentPrerenderingThreads, prerenderReported, req,
                      ti, mid, requests, todo>> /\ UNCHANGED <<queues, others>>
      BY <2>5 DEF TakeFactory
    <3>2. factories # << >>
      BY <2>5, FactoryThere DEF TakeFactory
    <3>3. /\ factories' \in Seq(Workers) /\ factory' \in [Workers -> Workers]
          /\ empty' \in [Workers -> BOOLEAN]
      BY <2>5, <3>2 DEF TakeFactory, TypeOK
    <3> QED
      BY <1>4, <2>5, <3>1, <3>3, Frames DEF TakeFactory, TypeOK, Labels, At
  <2>6. CASE StartUser(w)
    <3>1. UNCHANGED <<stopped, factories, currentPrerenderingThreads, prerenderReported, req,
                      ti, mid, factory, empty, todo>> /\ UNCHANGED <<queues, others>>
      BY <2>6 DEF StartUser
    <3>2. <<ti[w], req[w]>> \in TileIds \X Requests
      BY <2>6 DEF StartUser, TypeOK, LocalOK
    <3>3. \A i \in DOMAIN running : running[i] \in Workers
      BY DEF TypeOK
    <3>4. requests' \in [Workers -> SUBSET (TileIds \X Requests)]
      <4>1. \/ requests' = [requests EXCEPT ![w] = {<<ti[w], req[w]>>}]
            \/ \E i \in DOMAIN running :
                  requests' = [requests EXCEPT ![running[i]] = @ \cup {<<ti[w], req[w]>>}]
        BY <2>6 DEF StartUser
      <4>2. \A v \in Workers : requests[v] \cup {<<ti[w], req[w]>>} \in SUBSET (TileIds \X Requests)
        BY <1>2, <3>2
      <4>3. {<<ti[w], req[w]>>} \in SUBSET (TileIds \X Requests)
        BY <3>2
      <4>4. \E v \in Workers, p \in SUBSET (TileIds \X Requests) :
               requests' = [requests EXCEPT ![v] = p]
        BY <3>3, <4>1, <4>2, <4>3, Zenon
      <4> QED
        BY <1>2, <4>4, Zenon
    <3>5. running' \in Seq(Workers)
      <4>1. running' = running \/ running' = Append(running, w)
        BY <2>6 DEF StartUser
      <4> QED
        BY <1>2, <1>3, <4>1, Zenon
    <3>6. /\ pc[w] = "start" /\ mid[w] \in MetaIds
          /\ \E l \in {"return", "process"} : Goto(w, l)
      BY <2>6 DEF StartUser, TypeOK, At
    <3> QED
      BY <1>4, <3>1, <3>4, <3>5, <3>6, Frames DEF TypeOK, Labels
  <2>7. CASE StartPre(w)
    <3>1. UNCHANGED <<stopped, factories, currentPrerenderingThreads, prerenderReported>>
          /\ UNCHANGED <<queues, others, local>>
      BY <2>7 DEF StartPre
    <3>2. running' \in Seq(Workers)
      <4>1. running' = running \/ running' = Append(running, w)
        BY <2>7 DEF StartPre
      <4> QED
        BY <1>2, <1>3, <4>1, Zenon
    <3>3. /\ pc[w] = "start" /\ mid[w] \in MetaIds
          /\ \E l \in {"return", "process"} : Goto(w, l)
      BY <2>7 DEF StartPre, TypeOK, At
    <3> QED
      BY <1>4, <3>1, <3>2, <3>3, Frames DEF TypeOK, Labels
  <2>8. CASE Process(w)
    BY <2>8, Frames DEF Process, Goto, TypeOK, At, Labels
  <2>9. CASE Finished(w)
    <3>1. UNCHANGED <<stopped, factories, currentPrerenderingThreads, prerenderReported>>
          /\ UNCHANGED <<queues, others, local>>
      BY <2>9 DEF Finished
    <3>2. running' \in Seq(Workers)
      BY <2>9, RemoveAtType DEF Finished, TypeOK
    <3>3. pc[w] = "finished" /\ mid[w] \in MetaIds /\ Goto(w, "deliver")
      BY <2>9 DEF Finished, TypeOK, At
    <3> QED
      BY <1>4, <3>1, <3>2, <3>3, Frames DEF TypeOK, Labels
  <2>10. CASE Deliver(w)
    <3>1. UNCHANGED <<http, loads, ssm, pc, req, ti, mid, factory, empty, todo>>
          /\ UNCHANGED <<queues, shared>>
      BY <2>10 DEF Deliver
    <3>2. reply' \in [Requests -> Sent \cup {"none"}]
      BY <2>10 DEF Deliver, Answer, TypeOK, Sent
    <3>3. requests' \in [Workers -> SUBSET (TileIds \X Requests)]
      BY <2>10 DEF Deliver, TypeOK
    <3> QED
      BY <3>1, <3>2, <3>3, Frames DEF TypeOK, At
  <2>11. CASE Delivered(w)
    BY <2>11, Frames DEF Delivered, Goto, TypeOK, At, Labels
  <2>12. CASE Return(w)
    <3>1. UNCHANGED <<stopped, running, currentPrerenderingThreads, prerenderReported>>
          /\ UNCHANGED <<queues, others>>
      BY <2>12 DEF Return
    <3>2. pc[w] = "return" /\ mid[w] \in MetaIds /\ SubIdentifiers(mid[w]) \in Seq(MetaIds)
      BY <2>12, SubIdentifiersType DEF Return, TypeOK, At
    <3>3. /\ factories' \in Seq(Workers) /\ factory' \in [Workers -> Workers]
          /\ requests' \in [Workers -> SUBSET (TileIds \X Requests)]
          /\ ti' \in [Workers -> Outcomes] /\ empty' \in [Workers -> BOOLEAN]
      BY <2>12 DEF Return, TypeOK, Outcomes
    <3>4. CASE req[w] # NoRequest
      <4>1. /\ req' \in [Workers -> Requests \cup {NoRequest}]
            /\ mid' \in [Workers -> MetaIds \cup {NoMeta}]
            /\ \A v \in Workers \ {w} : mid'[v] = mid[v]
            /\ Goto(w, "idle") /\ todo' = todo
        BY <2>12, <3>4 DEF Return, TypeOK
      <4> QED
        BY <1>4, <3>1, <3>3, <4>1, Frames DEF TypeOK, Labels
    <3>5. CASE req[w] = NoRequest
      <4>1. todo' \in [Workers -> Seq(MetaIds)]
        <5>1. todo' = [todo EXCEPT ![w] = << >>] \/ todo' = [todo EXCEPT ![w] = SubIdentifiers(mid[w])]
          BY <2>12, <3>5 DEF Return
        <5>2. << >> \in Seq(MetaIds)
          OBVIOUS
        <5> QED
          BY <1>2, <3>2, <5>1, <5>2, Zenon
      <4>2. Goto(w, "sub") /\ UNCHANGED <<req, mid>>
        BY <2>12, <3>5 DEF Return
      <4> QED
        BY <1>4, <3>1, <3>2, <3>3, <4>1, <4>2, Frames DEF TypeOK, Labels
    <3> QED
      BY <3>4, <3>5
  <2>13. CASE EnqueueChild(w)
    BY <2>13, Frames DEF EnqueueChild, Goto, TypeOK, At, Labels
  <2>14. CASE PostChild(w)
    BY <2>14, Frames DEF PostChild, Goto, TypeOK, At, Labels
  <2>15. CASE Leave(w)
    <3>1. UNCHANGED <<stopped, factories, running, req, ti, factory, empty, requests, todo>>
          /\ UNCHANGED <<queues, others>>
      BY <2>15 DEF Leave
    <3>2. currentPrerenderingThreads >= 1
      BY <2>15, ThreadThere DEF Leave, Prerendering
    <3>3. /\ currentPrerenderingThreads' \in Nat /\ prerenderReported' = FALSE
          /\ mid' \in [Workers -> MetaIds \cup {NoMeta}]
          /\ \A v \in Workers \ {w} : mid'[v] = mid[v]
          /\ Goto(w, "check_threads")
      BY <1>2, <2>15, <3>2 DEF Leave
    <3> QED
      BY <1>4, <3>1, <3>3, Frames DEF TypeOK, Labels
  <2>16. CASE CheckThreads(w)
    BY <2>16, Frames DEF CheckThreads, Goto, TypeOK, At, Labels
  <2>17. CASE CheckQueue(w)
    BY <2>17, Frames DEF CheckQueue, Goto, TypeOK, At, Labels
  <2> QED
    BY <1>11, <2>1, <2>2, <2>3, <2>4, <2>5, <2>6, <2>7, <2>8, <2>9, <2>10, <2>11, <2>12,
       <2>13, <2>14, <2>15, <2>16, <2>17 DEF Worker
<1> QED
  BY <1>1, <1>5, <1>6, <1>7, <1>8, <1>9, <1>10, <1>11 DEF Next

-----------------------------------------------------------------------------
(* The theorems.                                                           *)

\* The inductive invariant holds in every reachable state: the types together
\* with the counts of handlers, of prerendering workers and of factories.
THEOREM Invariance == Spec => []IInv
<1>1. Init => IInv
  BY TypeInit, HandlerInit, CountsInit DEF IInv
<1>2. IInv /\ [Next]_vars => IInv'
  <2> SUFFICES ASSUME TypeOK, LocalOK, NoIdleHandler, ThreadCount, FactoryCount,
                      FactoriesDistinct, [Next]_vars
               PROVE  IInv'
    BY DEF IInv
  <2>1. TypeOK'
    BY TypeStep
  <2>2. LocalOK'
    BY LocalStep
  <2>3. NoIdleHandler'
    BY HandlerStep
  <2>4. ThreadCount'
    BY ThreadStep
  <2>5. FactoryCount' /\ FactoriesDistinct'
    BY FactoryStep
  <2> QED
    BY <2>1, <2>2, <2>3, <2>4, <2>5 DEF IInv
<1> QED
  BY <1>1, <1>2, PTL DEF Spec

\* The variables keep their types; in particular currentPrerenderingThreads, an
\* unsigned counter in the code, is never decremented below zero.
THEOREM TypeCorrect == Spec => []TypeOK
<1>1. IInv => TypeOK
  BY DEF IInv
<1> QED
  BY <1>1, Invariance, PTL

\* The numbers of queue entries and of handlers agree, so a worker that finds no
\* user request finds a prerendering request, for any number of workers, requests,
\* stylesheets and any queue limit.
THEOREM HandlersFindWork == Spec => []NoIdleHandler
<1>1. IInv => NoIdleHandler
  BY DEF IInv
<1> QED
  BY <1>1, Invariance, PTL

\* The pool of factories is never empty when a worker takes from it, and no factory
\* is used by two workers at once.
THEOREM FactoriesAreSafe == Spec => []FactoriesSafe
<1>1. IInv => FactoriesSafe
  <2> SUFFICES ASSUME TypeOK, FactoryCount, FactoriesDistinct PROVE FactoriesSafe
    BY DEF IInv
  <2>1. At({"factory"}) # {} => factories # << >>
    BY FactoryThere DEF At
  <2> QED
    BY <2>1 DEF FactoriesDistinct, FactoriesSafe
<1> QED
  BY <1>1, Invariance, PTL

-----------------------------------------------------------------------------
(***************************************************************************)
(* The RequestManager implements RequestService, for any number of         *)
(* workers and requests.                                                   *)
(*                                                                         *)
(* A step that answers a request, or refuses one, is a step of the service *)
(* only if nobody answers twice and the queue holds different requests     *)
(* that wait: HolderInv, by which a pending request is in one place.       *)
(***************************************************************************)

\* w serves a user request that it has not answered or filed with a job yet.
InHand(w) == pc[w] \in {"create", "factory", "start"} /\ req[w] # NoRequest

QueueHolds ==
    /\ \A i \in DOMAIN userRequests : reply[userRequests[i]] = "pending"
    /\ \A i, j \in DOMAIN userRequests : userRequests[i] = userRequests[j] => i = j
WorkerHolds ==
    \A w \in Workers : InHand(w) =>
      /\ reply[req[w]] = "pending"
      /\ \A i \in DOMAIN userRequests : userRequests[i] # req[w]
      /\ \A v \in Workers : InHand(v) /\ req[v] = req[w] => v = w
JobHolds ==
    \A w \in Workers : \A p \in requests[w] :
      /\ reply[p[2]] = "pending"
      /\ \A i \in DOMAIN userRequests : userRequests[i] # p[2]
      /\ \A v \in Workers : InHand(v) => req[v] # p[2]
      /\ \A v \in Workers : \A q \in requests[v] : q[2] = p[2] => v = w /\ q = p

\* Each request in a queue, in a worker's hand or in a job is pending, and in no other place.
HolderInv == QueueHolds /\ WorkerHolds /\ JobHolds

\* The replies that are awaited are finitely many, as the requests so far are.
FiniteWaiting == IsFiniteSet(Service!Waiting)
-----------------------------------------------------------------------------
\* Nothing is held at first.
LEMMA HolderInit == Init => HolderInv
BY DEF Init, HolderInv, QueueHolds, WorkerHolds, JobHolds, InHand

\* Nothing enters a queue, a hand or a job.
LEMMA HolderFrame ==
    ASSUME HolderInv, UNCHANGED <<userRequests, reply>>,
           \A w \in Workers : InHand(w)' => InHand(w) /\ req'[w] = req[w],
           \A w \in Workers : requests'[w] \subseteq requests[w]
    PROVE  HolderInv'
<1>1. QueueHolds'
  BY DEF HolderInv, QueueHolds
<1>2. WorkerHolds'
  BY DEF HolderInv, WorkerHolds
<1>3. JobHolds'
  BY DEF HolderInv, JobHolds
<1> QED
  BY <1>1, <1>2, <1>3 DEF HolderInv

\* A request that is not pending is in no place.
LEMMA NotHeld ==
    ASSUME HolderInv, NEW r \in Requests, reply[r] # "pending"
    PROVE  /\ \A i \in DOMAIN userRequests : userRequests[i] # r
           /\ \A w \in Workers : InHand(w) => req[w] # r
           /\ \A w \in Workers : \A p \in requests[w] : p[2] # r
BY DEF HolderInv, QueueHolds, WorkerHolds, JobHolds

\* A request enters the queue when it becomes pending.
LEMMA EnqueueHolds ==
    ASSUME TypeOK, HolderInv, NEW r \in Requests, Enqueue(r)
    PROVE  HolderInv'
<1> USE DEF HolderInv
<1>1. /\ reply[r] = "none"
      /\ \A i \in DOMAIN userRequests : userRequests[i] # r
      /\ \A w \in Workers : InHand(w) => req[w] # r
      /\ \A w \in Workers : \A p \in requests[w] : p[2] # r
  BY NotHeld DEF Enqueue
<1>2. /\ UNCHANGED <<req, requests, pc>> /\ \A w \in Workers : InHand(w)' = InHand(w)
      /\ userRequests \in Seq(Requests)
  BY DEF Enqueue, local, InHand, TypeOK
<1>3. \A s \in Requests \ {r} : reply'[s] = reply[s]
  BY DEF Enqueue, Answer, TypeOK
<1>4. /\ \A i \in DOMAIN userRequests : userRequests[i] \in Requests \ {r}
      /\ \A w \in Workers : InHand(w) => req[w] \in Requests \ {r}
      /\ \A w \in Workers : \A p \in requests[w] : p[2] \in Requests \ {r}
  BY <1>1 DEF TypeOK, InHand
<1>5. CASE QueueFull
  <2>1. userRequests' = userRequests
    BY <1>5 DEF Enqueue
  <2>2. QueueHolds'
    BY <1>3, <1>4, <2>1 DEF QueueHolds
  <2>3. WorkerHolds'
    BY <1>2, <1>3, <1>4, <2>1 DEF WorkerHolds
  <2>4. JobHolds'
    BY <1>2, <1>3, <1>4, <2>1 DEF JobHolds
  <2> QED
    BY <2>2, <2>3, <2>4
<1>6. CASE ~QueueFull
  <2>1. userRequests' = Append(userRequests, r) /\ reply'[r] = "pending"
    BY <1>6 DEF Enqueue, TypeOK
  <2>2. \A i \in DOMAIN userRequests' :
          \/ i \in DOMAIN userRequests /\ userRequests'[i] = userRequests[i]
          \/ i = Len(userRequests) + 1 /\ userRequests'[i] = r
    BY <1>2, <2>1
  <2>3. QueueHolds'
    BY <1>3, <1>4, <2>1, <2>2 DEF QueueHolds
  <2>4. WorkerHolds'
    BY <1>1, <1>2, <1>3, <1>4, <2>2 DEF WorkerHolds
  <2>5. JobHolds'
    BY <1>1, <1>2, <1>3, <1>4, <2>2 DEF JobHolds
  <2> QED
    BY <2>3, <2>4, <2>5
<1> QED
  BY <1>5, <1>6

\* The front of the queue moves into the worker's hand.
LEMMA PopUserHolds ==
    ASSUME TypeOK, HolderInv, NEW w \in Workers, PopUser(w)
    PROVE  HolderInv'
<1> USE DEF HolderInv
<1>1. UNCHANGED <<reply, requests>> /\ pc[w] = "user" /\ ~InHand(w)
  BY DEF PopUser, others, InHand
<1>2. CASE userRequests = << >>
  <2>1. UNCHANGED <<userRequests, req>> /\ \A v \in Workers : InHand(v)' => InHand(v)
    BY <1>2 DEF PopUser, Goto, InHand, TypeOK
  <2> QED
    BY <1>1, <2>1, HolderFrame
<1>3. CASE userRequests # << >>
  <2> DEFINE r == userRequests[1]
  <2>1. /\ 1 \in DOMAIN userRequests
        /\ \A i \in DOMAIN userRequests' : /\ i + 1 \in DOMAIN userRequests /\ i + 1 # 1
                                           /\ userRequests'[i] = userRequests[i + 1]
        /\ \A i, j \in DOMAIN userRequests' : i + 1 = j + 1 => i = j
    BY <1>3 DEF PopUser, TypeOK
  <2>2. /\ req'[w] = r /\ pc'[w] = "create"
        /\ \A v \in Workers \ {w} : req'[v] = req[v] /\ pc'[v] = pc[v]
    BY <1>3 DEF PopUser, Goto, TypeOK
  <2>3. /\ reply[r] = "pending"
        /\ \A i \in DOMAIN userRequests' : userRequests'[i] # r
        /\ \A v \in Workers : InHand(v) => req[v] # r
        /\ \A v \in Workers : \A p \in requests[v] : p[2] # r
    BY <2>1 DEF QueueHolds, WorkerHolds, JobHolds
  <2>4. \A v \in Workers \ {w} : InHand(v)' = InHand(v)
    BY <2>2 DEF InHand
  <2>5. QueueHolds'
    BY <1>1, <2>1 DEF QueueHolds
  <2>6. WorkerHolds'
    BY <1>1, <2>1, <2>2, <2>3, <2>4 DEF WorkerHolds
  <2>7. JobHolds'
    BY <1>1, <2>1, <2>2, <2>3, <2>4 DEF JobHolds
  <2> QED
    BY <2>5, <2>6, <2>7
<1> QED
  BY <1>2, <1>3

\* A request with a bad url is answered and dropped.
LEMMA CreateHolds ==
    ASSUME TypeOK, LocalOK, HolderInv, NEW w \in Workers, Create(w)
    PROVE  HolderInv'
<1> USE DEF HolderInv
<1>1. UNCHANGED <<userRequests, requests>> /\ InHand(w) /\ req[w] \in Requests
  BY ManagerAssumption DEF Create, queues, InHand, LocalOK
<1>2. CASE UNCHANGED <<reply, req>>
  <2>1. \A v \in Workers : InHand(v)' => InHand(v) /\ req'[v] = req[v]
    BY <1>1, <1>2 DEF Create, Goto, InHand, TypeOK
  <2> QED
    BY <1>1, <1>2, <2>1, HolderFrame
<1>3. CASE \E status \in Final : Answer(req[w], status) /\ req' = [req EXCEPT ![w] = NoRequest]
  <2>1. \A s \in Requests \ {req[w]} : reply'[s] = reply[s]
    BY <1>3 DEF Answer, TypeOK
  <2>2. ~InHand(w)' /\ \A v \in Workers \ {w} : InHand(v)' = InHand(v) /\ req'[v] = req[v]
    BY <1>3 DEF Create, Goto, InHand, TypeOK
  <2>3. /\ \A i \in DOMAIN userRequests : userRequests[i] \in Requests \ {req[w]}
        /\ \A v \in Workers \ {w} : InHand(v) => req[v] \in Requests \ {req[w]}
        /\ \A v \in Workers : \A p \in requests[v] : p[2] \in Requests \ {req[w]}
    BY <1>1 DEF TypeOK, InHand, WorkerHolds, JobHolds
  <2>4. QueueHolds'
    BY <1>1, <2>1, <2>3 DEF QueueHolds
  <2>5. WorkerHolds'
    BY <1>1, <2>1, <2>2, <2>3 DEF WorkerHolds
  <2>6. JobHolds'
    BY <1>1, <2>1, <2>2, <2>3 DEF JobHolds
  <2> QED
    BY <2>4, <2>5, <2>6
<1> QED
  BY <1>2, <1>3 DEF Create, Final, Sent

\* The request in hand moves into one job.
LEMMA StartUserHolds ==
    ASSUME TypeOK, HolderInv, NEW w \in Workers, StartUser(w)
    PROVE  HolderInv'
<1> USE DEF HolderInv
<1> DEFINE pair == <<ti[w], req[w]>>
<1>1. UNCHANGED <<userRequests, reply, req>> /\ InHand(w)
  BY DEF StartUser, queues, others, InHand
<1>2. \E l \in {"return", "process"} : Goto(w, l)
  BY DEF StartUser
<1>3. ~InHand(w)' /\ \A v \in Workers \ {w} : InHand(v)' = InHand(v)
  BY <1>1, <1>2 DEF Goto, InHand, TypeOK
<1>4. \E x \in Workers : /\ requests'[x] \subseteq requests[x] \cup {pair}
                         /\ \A v \in Workers \ {x} : requests'[v] = requests[v]
  <2> DEFINE Files(x) == /\ requests'[x] \subseteq requests[x] \cup {pair}
                         /\ \A v \in Workers \ {x} : requests'[v] = requests[v]
  <2>1. ASSUME NEW i \in DOMAIN running, requests' = [requests EXCEPT ![running[i]] = @ \cup {pair}]
        PROVE  \E x \in Workers : Files(x)
    <3>1. running[i] \in Workers
      BY DEF TypeOK
    <3>2. Files(running[i])
      BY <2>1, <3>1 DEF TypeOK
    <3> QED
      BY <3>1, <3>2
  <2>2. ASSUME requests' = [requests EXCEPT ![w] = {pair}]
        PROVE  \E x \in Workers : Files(x)
    <3>1. Files(w)
      BY <2>2 DEF TypeOK
    <3> QED
      BY <3>1
  <2>3. \/ \E i \in DOMAIN running : requests' = [requests EXCEPT ![running[i]] = @ \cup {pair}]
        \/ requests' = [requests EXCEPT ![w] = {pair}]
    BY DEF StartUser
  <2> QED
    BY <2>1, <2>2, <2>3
<1>5. pair[2] = req[w]
  OBVIOUS
<1>6. /\ reply[req[w]] = "pending"
      /\ \A i \in DOMAIN userRequests : userRequests[i] # req[w]
      /\ \A v \in Workers \ {w} : InHand(v) => req[v] # req[w]
      /\ \A v \in Workers : \A p \in requests[v] : p[2] # req[w]
  BY <1>1 DEF WorkerHolds, JobHolds
<1> HIDE DEF pair
<1>7. PICK x \in Workers : /\ requests'[x] \subseteq requests[x] \cup {pair}
                           /\ \A v \in Workers \ {x} : requests'[v] = requests[v]
  BY <1>4
<1>8. QueueHolds'
  BY <1>1 DEF QueueHolds
<1>9. WorkerHolds'
  BY <1>1, <1>3 DEF WorkerHolds
<1>10. JobHolds'
  <2> SUFFICES ASSUME NEW v \in Workers, NEW p \in requests'[v]
               PROVE  /\ reply[p[2]] = "pending"
                      /\ \A i \in DOMAIN userRequests : userRequests[i] # p[2]
                      /\ \A u \in Workers : InHand(u)' => req[u] # p[2]
                      /\ \A u \in Workers : \A q \in requests'[u] :
                           q[2] = p[2] => u = v /\ q = p
    BY <1>1 DEF JobHolds
  <2>1. CASE p \in requests[v]
    BY <1>1, <1>3, <1>5, <1>6, <1>7, <2>1 DEF JobHolds
  <2>2. CASE v = x /\ p = pair
    BY <1>3, <1>5, <1>6, <1>7, <2>2
  <2> QED
    BY <1>7, <2>1, <2>2
<1> QED
  BY <1>8, <1>9, <1>10

\* A request leaves its job when it is answered.
LEMMA DeliverHolds ==
    ASSUME TypeOK, HolderInv, NEW w \in Workers, Deliver(w)
    PROVE  HolderInv'
<1> USE DEF HolderInv
<1>1. PICK p \in requests[w] : /\ Answer(p[2], "ok")
                               /\ requests' = [requests EXCEPT ![w] = @ \ {p}]
  BY DEF Deliver
<1>2. UNCHANGED <<userRequests, req, pc>> /\ \A v \in Workers : InHand(v)' = InHand(v)
  BY DEF Deliver, queues, InHand
<1>3. \A s \in Requests \ {p[2]} : reply'[s] = reply[s]
  BY <1>1 DEF Answer, TypeOK
<1>4. /\ \A i \in DOMAIN userRequests : userRequests[i] \in Requests \ {p[2]}
      /\ \A v \in Workers : InHand(v) => req[v] \in Requests \ {p[2]}
      /\ \A v \in Workers : \A q \in requests'[v] :
           q \in requests[v] /\ q[2] \in Requests \ {p[2]}
  <2>1. \A i \in DOMAIN userRequests : userRequests[i] \in Requests \ {p[2]}
    BY DEF TypeOK, JobHolds
  <2>2. \A v \in Workers : InHand(v) => req[v] \in Requests \ {p[2]}
    BY DEF TypeOK, InHand, JobHolds
  <2>3. ASSUME NEW v \in Workers, NEW q \in requests'[v]
        PROVE  q \in requests[v] /\ q[2] \in Requests \ {p[2]}
    <3>1. q \in requests[v] /\ ~(v = w /\ q = p)
      BY <1>1 DEF TypeOK
    <3>2. q[2] \in Requests
      BY <3>1 DEF TypeOK
    <3> QED
      BY <3>1, <3>2 DEF JobHolds
  <2> QED
    BY <2>1, <2>2, <2>3
<1>5. QueueHolds'
  BY <1>2, <1>3, <1>4 DEF QueueHolds
<1>6. WorkerHolds'
  BY <1>2, <1>3, <1>4 DEF WorkerHolds
<1>7. JobHolds'
  BY <1>2, <1>3, <1>4 DEF JobHolds
<1> QED
  BY <1>5, <1>6, <1>7

\* The other steps of a worker put nothing anywhere.
LEMMA OtherHolds ==
    ASSUME TypeOK, LocalOK, HolderInv, NEW w \in Workers, Worker(w),
           ~PopUser(w), ~Create(w), ~StartUser(w), ~Deliver(w)
    PROVE  HolderInv'
<1>1. UNCHANGED <<userRequests, reply>>
  BY DEF Worker, TakeHandler, PopPre, TakeFactory, StartPre, Process, Finished, Delivered,
         Return, EnqueueChild, PostChild, Leave, CheckThreads, CheckQueue, queues, others
<1>2. \A v \in Workers : requests'[v] \subseteq requests[v]
  <2>1. CASE Return(w)
    BY <2>1 DEF Return, TypeOK
  <2>2. CASE ~Return(w)
    BY <2>2 DEF Worker, TakeHandler, PopPre, TakeFactory, StartPre, Process, Finished,
         Delivered, EnqueueChild, PostChild, Leave, CheckThreads, CheckQueue, local
  <2> QED
    BY <2>1, <2>2
<1>3. \A v \in Workers : InHand(v)' => InHand(v) /\ req'[v] = req[v]
  <2>1. CASE PopPre(w)
    BY <2>1 DEF PopPre, Goto, InHand, TypeOK, LocalOK
  <2>2. CASE TakeHandler(w) \/ TakeFactory(w) \/ StartPre(w) \/ Process(w) \/ Finished(w)
             \/ Delivered(w)
    BY <2>2 DEF TakeHandler, TakeFactory, StartPre, Process, Finished, Delivered, Goto, InHand,
                TypeOK, local
  <2>3. CASE Return(w)
    BY <2>3 DEF Return, Goto, InHand, TypeOK
  <2>4. CASE EnqueueChild(w) \/ PostChild(w) \/ Leave(w) \/ CheckThreads(w) \/ CheckQueue(w)
    BY <2>4 DEF EnqueueChild, PostChild, Leave, CheckThreads, CheckQueue, Goto, InHand, TypeOK,
                local
  <2> QED
    BY <2>1, <2>2, <2>3, <2>4 DEF Worker
<1> QED
  BY <1>1, <1>2, <1>3, HolderFrame

\* Every step keeps each request in one place.
LEMMA HolderStep ==
    ASSUME TypeOK, LocalOK, HolderInv, [Next]_vars
    PROVE  HolderInv'
<1>1. CASE UNCHANGED vars
  BY <1>1, HolderFrame, Frames DEF vars, InHand
<1>2. ASSUME NEW s \in Styles, LoadStyle(s) PROVE HolderInv'
  BY <1>2, HolderFrame, Frames DEF LoadStyle, InHand
<1>3. CASE PostUser \/ PostRoot \/ Stop
  BY <1>3, HolderFrame, Frames DEF PostUser, PostRoot, Stop, InHand
<1>4. ASSUME NEW w \in Workers, Worker(w) PROVE HolderInv'
  BY <1>4, PopUserHolds, CreateHolds, StartUserHolds, DeliverHolds, OtherHolds
<1> QED
  BY <1>1, <1>2, <1>3, <1>4, EnqueueHolds DEF Next, Rest
-----------------------------------------------------------------------------
(* The steps of the service.                                               *)

\* Nobody waits at first.
LEMMA WaitingInit == Init => FiniteWaiting
BY FS_EmptySet DEF Init, FiniteWaiting, Service!Waiting

\* The requests in the queue wait, and are different: no more of them than wait.
LEMMA QueueWaits ==
    ASSUME TypeOK, HolderInv, FiniteWaiting
    PROVE  Len(userRequests) <= Cardinality(Service!Waiting)
<1>1. userRequests \in Seq(Requests) /\ Len(userRequests) \in Nat
      /\ DOMAIN userRequests = 1..Len(userRequests)
  BY DEF TypeOK
<1>2. userRequests \in Injection(1..Len(userRequests), Service!Waiting)
  BY <1>1 DEF HolderInv, QueueHolds, Injection, IsInjective, Service!Waiting
<1>3. Cardinality(1..Len(userRequests)) = Len(userRequests)
  BY <1>1, FS_Interval
<1> QED
  BY <1>2, <1>3, FS_Injection DEF FiniteWaiting

\* The instance has its own copy of FiniteSets.
LEMMA SameCardinality == Service!Cardinality(Service!Waiting) = Cardinality(Service!Waiting)
BY DEF Service!Cardinality, Cardinality

\* Every step is a step of the service or leaves it alone.
LEMMA ServiceStep ==
    ASSUME TypeOK, LocalOK, HolderInv, FiniteWaiting, [Next]_vars
    PROVE  [Service!Next]_<<reply, stopped>>
<1>1. CASE UNCHANGED vars
  BY <1>1, Frames DEF vars
<1>2. ASSUME NEW r \in Requests, Enqueue(r) PROVE Service!Accept(r) \/ Service!Refuse(r)
  <2>1. ~stopped /\ reply[r] = "none" /\ UNCHANGED stopped
    BY <1>2 DEF Enqueue, shared
  <2>2. CASE QueueFull
    <3>1. Cardinality(Service!Waiting) >= MaxQueue
      <4>1. Len(userRequests) \in Nat /\ Cardinality(Service!Waiting) \in Nat
        BY FS_CardinalityType DEF FiniteWaiting, TypeOK
      <4> QED
        BY <2>2, <4>1, QueueWaits, ManagerAssumption DEF QueueFull
    <3>2. reply' = [reply EXCEPT ![r] = "unavailable"]
      BY <1>2, <2>1, <2>2 DEF Enqueue, Answer, Final, Sent, TypeOK
    <3> QED
      BY <2>1, <3>1, <3>2, SameCardinality DEF Service!Refuse
  <2>3. CASE ~QueueFull
    BY <1>2, <2>1, <2>3 DEF Enqueue, Service!Accept
  <2> QED
    BY <2>2, <2>3
<1>3. CASE Stop
  BY <1>3, Frames DEF Stop, Service!Next, Service!Stop
<1>4. CASE PostUser \/ PostRoot \/ Rest \/ \E s \in Styles : LoadStyle(s)
  BY <1>1, <1>4, Frames DEF PostUser, PostRoot, Rest, LoadStyle
<1>5. ASSUME NEW w \in Workers, Worker(w)
      PROVE  (\E r \in Requests : Service!Respond(r)) \/ UNCHANGED <<reply, stopped>>
  <2>1. ASSUME NEW r \in Requests, reply[r] = "pending", UNCHANGED stopped,
               NEW status \in {"ok", "forbidden", "not_implemented"}, Answer(r, status)
        PROVE  Service!Respond(r)
    <3>1. reply' = [reply EXCEPT ![r] = status]
      BY <2>1 DEF Answer, Final, Sent, TypeOK
    <3> QED
      BY <2>1, <3>1 DEF Service!Respond
  <2>2. CASE Create(w)
    <3>1. UNCHANGED stopped /\ InHand(w) /\ req[w] \in Requests
      BY <2>2, Frames, ManagerAssumption DEF Create, InHand, LocalOK
    <3>2. reply[req[w]] = "pending"
      BY <3>1 DEF HolderInv, WorkerHolds
    <3>3. \/ UNCHANGED reply
          \/ \E status \in {"ok", "forbidden", "not_implemented"} : Answer(req[w], status)
      BY <2>2 DEF Create
    <3> QED
      BY <2>1, <3>1, <3>2, <3>3
  <2>3. CASE Deliver(w)
    <3>1. PICK p \in requests[w] : Answer(p[2], "ok")
      BY <2>3 DEF Deliver
    <3>2. reply[p[2]] = "pending" /\ p[2] \in Requests /\ UNCHANGED stopped
      BY <2>3, Frames DEF HolderInv, JobHolds, TypeOK, Deliver
    <3> QED
      BY <2>1, <3>1, <3>2
  <2>4. CASE ~Create(w) /\ ~Deliver(w)
    BY <1>5, <2>4 DEF Worker, TakeHandler, PopUser, PopPre, TakeFactory, StartUser, StartPre,
         Process, Finished, Delivered, Return, EnqueueChild, PostChild, Leave, CheckThreads,
         CheckQueue, shared, others
  <2> QED
    BY <2>2, <2>3, <2>4
<1> QED
  BY <1>1, <1>2, <1>3, <1>4, <1>5 DEF Next, Service!Next

\* A step lets at most one more request wait.
LEMMA WaitingStep ==
    ASSUME FiniteWaiting, [Service!Next]_<<reply, stopped>>, reply \in [Requests -> Sent \cup {"none"}]
    PROVE  FiniteWaiting'
<1>1. \E r : Service!Waiting' \subseteq Service!Waiting \cup {r}
  BY DEF Service!Next, Service!Accept, Service!Refuse, Service!Respond, Service!Stop,
         Service!Waiting
<1> QED
  BY <1>1, FS_AddElement, FS_Subset DEF FiniteWaiting

\* The RequestManager implements its service, for any number of workers, requests,
\* stylesheets and any queue limit: a request is accepted or refused once, an accepted
\* one is answered at most once, and none is refused while fewer than MaxQueue wait.
THEOREM ImplementsService == Spec => ServiceSpec
<1> DEFINE Inv == HolderInv /\ FiniteWaiting
<1>1. Init => Inv /\ Service!Init
  BY HolderInit, WaitingInit DEF Init, Service!Init
<1>2. IInv /\ Inv /\ [Next]_vars => Inv' /\ [Service!Next]_Service!vars
  <2> SUFFICES ASSUME IInv, Inv, [Next]_vars PROVE Inv' /\ [Service!Next]_Service!vars
    OBVIOUS
  <2>1. TypeOK /\ LocalOK
    BY DEF IInv
  <2>2. [Service!Next]_<<reply, stopped>>
    BY <2>1, ServiceStep
  <2>3. reply \in [Requests -> Sent \cup {"none"}]
    BY <2>1 DEF TypeOK
  <2>4. HolderInv'
    BY <2>1, HolderStep
  <2>5. FiniteWaiting'
    BY <2>2, <2>3, WaitingStep
  <2> QED
    BY <2>2, <2>4, <2>5 DEF Service!vars
<1> QED
  BY <1>1, <1>2, Invariance, PTL DEF Spec, ServiceSpec, Service!Spec

-----------------------------------------------------------------------------
(***************************************************************************)
(* The other invariants of RequestManager for any number of workers and    *)
(* requests: who joins which job, that a job answers whoever joined it,    *)
(* that no request is forgotten, and that the end of prerendering is       *)
(* reported.                                                               *)
(*                                                                         *)
(* The first three rest on the geometry of meta tiles and need that urls   *)
(* name tiles of the map; the second and third hold for one image format   *)
(* only, as RunningQueue compares areas and a Job compares identifiers.    *)
(* Also that the children of a meta tile cover it, on which prerendering   *)
(* rests.                                                                  *)
(***************************************************************************)

\* TileIdentifier::Create lets only tiles of the map pass.
OnMap(t) == /\ t.z \in Nat
            /\ t.x \in 0 .. Extent(t.z) - 1
            /\ t.y \in 0 .. Extent(t.z) - 1
InWorld == \A r \in Requests : \A t \in Resolve[r] \cap TileIds : OnMap(t)

\* Everything is asked for, and prerendered, as PNG.
OneFormat == Formats = {PNG}

\* The running list holds different workers, which are at their job.
RunningOK ==
    /\ \A i \in DOMAIN running : pc[running[i]] \in {"process", "finished"}
    /\ \A i, j \in DOMAIN running : running[i] = running[j] => i = j

\* A worker that is to look for a job for its request has the request's meta tile.
TileOK ==
    \A w \in Workers : pc[w] \in {"factory", "start"} /\ req[w] # NoRequest =>
        ti[w] \in TileIds /\ OnMap(ti[w]) /\ mid[w] = MetaOf(ti[w])

ListInv == RunningOK /\ TileOK /\ UserJobsJoin

\* Only a job that runs holds requests, and for tiles that it will deliver.
AttachedOK ==
    \A w \in Workers : /\ requests[w] # {} => pc[w] \in {"process", "finished", "deliver"}
                       /\ \A p \in requests[w] : p[1] \in Identifiers(mid[w])

\* A pending request is in the queue, in a hand or in a job.
Held(r) == \/ \E i \in DOMAIN userRequests : userRequests[i] = r
           \/ \E w \in Workers : InHand(w) /\ req[w] = r
           \/ \E w \in Workers : \E p \in requests[w] : p[2] = r
PendingHeld == \A r \in Requests : reply[r] = "pending" => Held(r)

\* Once a stylesheet was loaded and until the end is reported, something is left to
\* prerender, somebody prerenders, or somebody is about to look.
EndNear == \/ prerenderReported
           \/ preRenderRequests # << >>
           \/ Prerendering # {}
           \/ \E w \in Workers : pc[w] \in {"check_threads", "check_queue"}
EndOK == (\E s \in Styles : loads[s] > 0) => EndNear
-----------------------------------------------------------------------------
(* The geometry of meta tiles.                                             *)

\* A zoom level has a whole number of columns.
LEMMA ExtentType == ASSUME NEW z \in Nat PROVE Extent(z) \in Int
BY DEF Extent

\* Rounding down stays within MetaSize.
LEMMA RoundDown ==
    ASSUME NEW a \in Int
    PROVE  LET b == (a \div MetaSize) * MetaSize
           IN  b \in Int /\ b <= a /\ a < b + MetaSize
<1>1. MetaSize \in Int /\ MetaSize > 0
  BY MetaSizeAssumption
<1>2. PICK q \in Int : q = a \div MetaSize
  BY <1>1
<1>3. PICK r \in Int : r = a % MetaSize
  BY <1>1
<1>4. a = MetaSize * q + r /\ 0 <= r /\ r < MetaSize
  BY <1>1, <1>2, <1>3
<1> QED
  BY <1>1, <1>2, <1>4

\* A tile of the map lies in its meta tile.
LEMMA ContainsOwn ==
    ASSUME NEW t \in TileIds, OnMap(t)
    PROVE  Contains(MetaOf(t), t)
<1> DEFINE m == MetaOf(t)
<1>1. /\ t.x \in Int /\ t.y \in Int /\ Extent(t.z) \in Int /\ MetaSize \in Int
      /\ t.x < Extent(t.z) /\ t.y < Extent(t.z)
  BY ExtentType, MetaSizeAssumption DEF OnMap, TileIds
<1>2. /\ m.x = (t.x \div MetaSize) * MetaSize /\ m.y = (t.y \div MetaSize) * MetaSize
      /\ m.z = t.z /\ m.style = t.style
  BY DEF MetaOf, TileIds
<1>3. /\ m.x \in Int /\ m.x <= t.x /\ t.x < m.x + MetaSize
      /\ m.y \in Int /\ m.y <= t.y /\ t.y < m.y + MetaSize
  BY <1>1, <1>2, RoundDown
<1> HIDE DEF m
<1>4. t.x < m.x + Width(m) /\ t.y < m.y + Height(m)
  BY <1>1, <1>2, <1>3 DEF Width, Height, Side
<1> QED
  BY <1>2, <1>3, <1>4 DEF Contains, m

\* In one format, a job delivers every tile of the map that it contains.
LEMMA ContainsIsIdentifier ==
    ASSUME NEW m \in MetaIds, NEW t \in TileIds, OnMap(t), Contains(m, t), m.fmt = t.fmt
    PROVE  t \in Identifiers(m)
<1>1. /\ m.x \in Int /\ m.y \in Int /\ m.z = t.z /\ Extent(m.z) \in Int /\ MetaSize \in Int
      /\ t.x \in Int /\ t.y \in Int
  BY ExtentType, MetaSizeAssumption DEF MetaIds, TileIds, OnMap, Contains
<1>2. Width(m) \in Int /\ Height(m) \in Int
  BY <1>1 DEF Width, Height, Side
<1>3. t.x \in m.x .. (m.x + Width(m) - 1) /\ t.y \in m.y .. (m.y + Height(m) - 1)
  BY <1>1, <1>2 DEF Contains
<1>4. t = TileAt(m, t.x, t.y, m.z)
  BY DEF TileAt, TileIds, Contains
<1> QED
  BY <1>3, <1>4 DEF Identifiers

\* Meta tiles of one area contain the same tiles.
LEMMA SameAreaContains ==
    ASSUME NEW m, NEW n, NEW t, SameArea(m, n), Contains(n, t)
    PROVE  Contains(m, t)
BY DEF SameArea, Contains, Width, Height

-----------------------------------------------------------------------------
(* The meta tiles below a meta tile.                                      *)

\* The next zoom level has twice as many columns.
LEMMA ExtentDoubles ==
    ASSUME NEW z \in Nat
    PROVE  Extent(z) \in Nat /\ Extent(z + 1) = 2 * Extent(z)
<1> DEFINE A == SUBSET (1 .. z)
           B == {T \cup {z + 1} : T \in A}
           f == [T \in A |-> T \cup {z + 1}]
<1>1. \A k \in Nat : /\ IsFiniteSet(1 .. k) /\ Cardinality(1 .. k) = k
                     /\ IsFiniteSet(SUBSET (1 .. k)) /\ Cardinality(SUBSET (1 .. k)) \in Nat
                     /\ Cardinality(SUBSET (1 .. k)) = Extent(k)
  <2> TAKE k \in Nat
  <2>1. IsFiniteSet(1 .. k) /\ Cardinality(1 .. k) = k
    BY FS_Interval
  <2>2. /\ IsFiniteSet(SUBSET (1 .. k)) /\ Cardinality(SUBSET (1 .. k)) \in Nat
        /\ Cardinality(SUBSET (1 .. k)) = 2 ^ Cardinality(1 .. k)
    BY <2>1, FS_SUBSET, FS_CardinalityType
  <2> QED
    BY <2>1, <2>2 DEF Extent
<1>2. IsFiniteSet(A) /\ Cardinality(A) \in Nat /\ Cardinality(A) = Extent(z)
  BY <1>1
<1>3. f \in Bijection(A, B)
  <2>1. \A T \in A : f[T] \in B /\ z + 1 \notin T
    OBVIOUS
  <2>2. f \in [A -> B]
    BY <2>1
  <2>3. \A S, T \in A : f[S] = f[T] => S = T
    BY <2>1
  <2>4. \A U \in B : \E T \in A : f[T] = U
    OBVIOUS
  <2> QED
    BY <2>2, <2>3, <2>4 DEF Bijection, Injection, Surjection, IsInjective
<1>4. IsFiniteSet(B) /\ Cardinality(B) = Cardinality(A)
  BY <1>2, <1>3, FS_Bijection DEF ExistsBijection
<1>5. SUBSET (1 .. z + 1) = A \cup B
  <2>1. 1 .. z + 1 = (1 .. z) \cup {z + 1}
    OBVIOUS
  <2>2. ASSUME NEW T \in SUBSET (1 .. z + 1), z + 1 \in T PROVE T \in B
    <3>1. T \ {z + 1} \in A /\ T = (T \ {z + 1}) \cup {z + 1}
      BY <2>1, <2>2
    <3> QED
      BY <3>1
  <2>3. ASSUME NEW T \in SUBSET (1 .. z + 1), z + 1 \notin T PROVE T \in A
    BY <2>1, <2>3
  <2>4. ASSUME NEW T \in A PROVE T \cup {z + 1} \in SUBSET (1 .. z + 1) /\ T \in SUBSET (1 .. z + 1)
    BY <2>1
  <2>5. \A U \in B : \E T \in A : U = T \cup {z + 1}
    OBVIOUS
  <2> HIDE DEF A, B
  <2>6. SUBSET (1 .. z + 1) \subseteq A \cup B
    BY <2>2, <2>3
  <2>7. A \cup B \subseteq SUBSET (1 .. z + 1)
    BY <2>4, <2>5
  <2> QED
    BY <2>6, <2>7
<1>6. A \cap B = {}
  OBVIOUS
<1> HIDE DEF A, B, f
<1>7. Cardinality(A \cup B) = Cardinality(A) + Cardinality(B) - Cardinality(A \cap B)
  BY <1>2, <1>4, FS_Union
<1>8. Cardinality(A \cap B) = 0
  BY <1>6, FS_EmptySet
<1>9. Extent(z + 1) = Cardinality(A \cup B)
  <2>1. z + 1 \in Nat
    OBVIOUS
  <2>2. Cardinality(SUBSET (1 .. z + 1)) = Extent(z + 1)
    BY <1>1, <2>1, Zenon
  <2> QED
    BY <1>5, <2>2
<1> QED
  BY <1>2, <1>4, <1>7, <1>8, <1>9

\* The tile above a tile, of which it is a quarter.
Above(t) == [t EXCEPT !.x = t.x \div 2, !.y = t.y \div 2, !.z = t.z - 1]

\* The coordinate x lies within the side of a meta tile that starts at a.
Within(a, x, z) == a <= x /\ x < a + Side(a, z)

\* What is a multiple of MetaSize is not rounded.
LEMMA Rounded ==
    ASSUME NEW k \in Int
    PROVE  ((k * MetaSize) \div MetaSize) * MetaSize = k * MetaSize
<1>1. MetaSize \in Int /\ MetaSize > 0
  BY MetaSizeAssumption
<1>2. PICK a \in Int : a = k * MetaSize
  BY <1>1
<1>3. PICK q \in Int : q = a \div MetaSize
  BY <1>1
<1>4. PICK r \in Int : r = a % MetaSize
  BY <1>1
<1>5. a = MetaSize * q + r /\ 0 <= r /\ r < MetaSize
  BY <1>1, <1>3, <1>4
<1>6. MetaSize * (k - q) = r
  BY <1>1, <1>2, <1>5
<1>7. k - q = 0
  <2>1. PICK d \in Int : d = k - q
    OBVIOUS
  <2>2. MetaSize * d = r
    BY <1>6, <2>1
  <2>3. d >= 1 => MetaSize * d >= MetaSize
    BY <1>1
  <2>4. d <= -1 => MetaSize * d <= -MetaSize
    BY <1>1
  <2> QED
    BY <1>1, <1>5, <2>1, <2>2, <2>3, <2>4
<1> QED
  BY <1>1, <1>2, <1>3, <1>7

\* The columns, or rows, of the meta tiles below one that starts at a.
Halves(a, z) == {2 * a} \cup {b \in {2 * a + MetaSize} : b < Extent(z + 1)}

\* In one direction they have the tiles below those of the meta tile, each once.
LEMMA HalvesCover ==
    ASSUME NEW a \in Int, NEW z \in Nat, NEW x \in 0 .. Extent(z + 1) - 1
    PROVE  /\ Within(a, x \div 2, z) <=> \E b \in Halves(a, z) : Within(b, x, z + 1)
           /\ \A b, c \in Halves(a, z) :
                 Within(b, x, z + 1) /\ Within(c, x, z + 1) => b = c
<1>1. MetaSize \in Int /\ MetaSize > 0
  BY MetaSizeAssumption
<1>2. Extent(z) \in Int /\ Extent(z + 1) \in Int /\ Extent(z + 1) = 2 * Extent(z)
  BY ExtentDoubles
<1>3. PICK h \in Int : h = x \div 2
  BY <1>2
<1>4. x \in Int /\ 0 <= x /\ x < Extent(z + 1) /\ 2 * h <= x /\ x <= 2 * h + 1
  BY <1>2, <1>3
<1>5. /\ Within(a, h, z) <=>
             \/ Within(2 * a, x, z + 1)
             \/ 2 * a + MetaSize < Extent(z + 1) /\ Within(2 * a + MetaSize, x, z + 1)
      /\ ~(Within(2 * a, x, z + 1) /\ Within(2 * a + MetaSize, x, z + 1))
  BY <1>1, <1>2, <1>4 DEF Within, Side
<1> QED
  BY <1>3, <1>5 DEF Halves

\* The list holds the elements of the set, each once.
Lists(l, E) ==
    /\ l \in Seq(MetaIds)
    /\ \A i \in 1 .. Len(l) : l[i] \in E
    /\ \A e \in E : \E i \in 1 .. Len(l) : l[i] = e
    /\ \A i, j \in 1 .. Len(l) : l[i] = l[j] => i = j

\* An element that may be left out, in a list and in a set.
Opt(C, x)   == IF C THEN <<x>> ELSE << >>
OptIn(C, x) == {e \in {x} : C}

\* A list with one more element, or as it was.
LEMMA OneMore ==
    ASSUME NEW l, NEW E, Lists(l, E), NEW x \in MetaIds, x \notin E,
           NEW C \in BOOLEAN
    PROVE  Lists(l \o Opt(C, x), E \cup OptIn(C, x))
<1>1. l \in Seq(MetaIds) /\ Len(l) \in Nat
  BY LenProperties DEF Lists
<1>2. CASE C
  <2>1. <<x>> \in Seq(MetaIds) /\ Len(<<x>>) = 1 /\ <<x>>[1] = x
    OBVIOUS
  <2> DEFINE m == l \o <<x>>
  <2>2. /\ m \in Seq(MetaIds) /\ Len(m) = Len(l) + 1
        /\ \A i \in 1 .. Len(m) : m[i] = IF i <= Len(l) THEN l[i] ELSE <<x>>[i - Len(l)]
    BY <1>1, <2>1, ConcatProperties
  <2>3. \A i \in 1 .. Len(l) : i \in 1 .. Len(m) /\ m[i] = l[i]
    BY <1>1, <2>2
  <2>4. Len(m) \in 1 .. Len(m) /\ m[Len(m)] = x
    BY <1>1, <2>1, <2>2
  <2>5. \A i \in 1 .. Len(m) : i \in 1 .. Len(l) \/ i = Len(m)
    BY <1>1, <2>2
  <2> HIDE DEF m
  <2>6. Lists(m, E \cup {x})
    BY <2>2, <2>3, <2>4, <2>5 DEF Lists
  <2>7. E \cup OptIn(C, x) = E \cup {x} /\ l \o Opt(C, x) = m
    BY <1>2 DEF m, Opt, OptIn
  <2> QED
    BY <2>6, <2>7
<1>3. CASE ~C
  <2>1. l \o << >> = l
    BY <1>1, ConcatEmptySeq
  <2>2. E \cup OptIn(C, x) = E /\ Opt(C, x) = << >>
    BY <1>3 DEF Opt, OptIn
  <2> QED
    BY <2>1, <2>2, Zenon
<1> QED
  BY <1>2, <1>3

\* getSubIdentifiers returns the squares of two columns and two rows that are there.
LEMMA SubIdentifiersAre ==
    ASSUME NEW m \in MetaIds, m = MetaOf(m)
    PROVE  Lists(SubIdentifiers(m), {TileAt(m, x, y, m.z + 1) : x \in Halves(m.x, m.z),
                                                                y \in Halves(m.y, m.z)})
<1> DEFINE a == 2 * m.x
           b == 2 * m.y
           c == a + MetaSize
           d == b + MetaSize
           Cell(x, y) == TileAt(m, x, y, m.z + 1)
           Sub(x, y) == MetaOf(Cell(x, y))
<1>0. PICK C \in BOOLEAN, D \in BOOLEAN : /\ C <=> c < Extent(m.z + 1)
                                          /\ D <=> d < Extent(m.z + 1)
  OBVIOUS
<1>1. m.x \in Int /\ m.y \in Int /\ MetaSize \in Int /\ MetaSize > 0
  BY MetaSizeAssumption DEF MetaIds, TileIds
<1>2. PICK k \in Int : k = m.x \div MetaSize
  BY <1>1
<1>3. PICK j \in Int : j = m.y \div MetaSize
  BY <1>1
<1>4. m.x = k * MetaSize /\ m.y = j * MetaSize
  <2>1. m.x = MetaOf(m).x /\ m.y = MetaOf(m).y
    OBVIOUS
  <2>2. MetaOf(m).x = k * MetaSize /\ MetaOf(m).y = j * MetaSize
    BY <1>2, <1>3 DEF MetaOf, MetaIds, TileIds
  <2> QED
    BY <2>1, <2>2
<1>5. /\ a = (2 * k) * MetaSize /\ c = (2 * k + 1) * MetaSize
      /\ b = (2 * j) * MetaSize /\ d = (2 * j + 1) * MetaSize
  BY <1>1, <1>4
<1>6. \A x \in {a, c} : (x \div MetaSize) * MetaSize = x
  BY <1>5, Rounded
<1>7. \A y \in {b, d} : (y \div MetaSize) * MetaSize = y
  BY <1>5, Rounded
<1>8. \A x \in {a, c}, y \in {b, d} : /\ Sub(x, y) = Cell(x, y) /\ Cell(x, y) \in MetaIds
                                      /\ Cell(x, y).x = x /\ Cell(x, y).y = y
  <2> TAKE x \in {a, c}, y \in {b, d}
  <2> DEFINE t == Cell(x, y)
  <2> HIDE DEF a, b, c, d
  <2>1. t.x = x /\ t.y = y
    BY DEF TileAt
  <2>2. MetaOf(t) = [t EXCEPT !.x = x, !.y = y]
    BY <1>6, <1>7, <2>1 DEF MetaOf
  <2>3. x \in Int /\ y \in Int
    BY <1>1 DEF a, b, c, d
  <2>4. t \in TileIds
    BY <2>3 DEF TileAt, TileIds, MetaIds
  <2> HIDE DEF t
  <2>5. [t EXCEPT !.x = x, !.y = y] = t
    BY <2>1, <2>4 DEF TileIds
  <2> QED
    BY <2>1, <2>2, <2>4, <2>5 DEF t, MetaIds
<1>9. a # c /\ b # d
  BY <1>1
<1>10. SubIdentifiers(m) =
           <<Sub(a, b)>> \o (IF C THEN <<Sub(c, b)>> ELSE << >>)
           \o (IF D THEN <<Sub(a, d)>> ELSE << >>)
           \o (IF C /\ D THEN <<Sub(c, d)>> ELSE << >>)
  BY <1>0 DEF SubIdentifiers, Below
<1>11. Halves(m.x, m.z) = {a} \cup {x \in {c} : C} /\ Halves(m.y, m.z) = {b} \cup {y \in {d} : D}
  BY <1>0 DEF Halves
<1> HIDE DEF Sub, Cell, a, b, c, d
<1>12. Lists(<<Cell(a, b)>>, {Cell(a, b)})
  BY <1>8 DEF Lists
<1> DEFINE p == Cell(a, b)
           q == Cell(c, b)
           r == Cell(a, d)
           s == Cell(c, d)
<1>13. /\ p \in MetaIds /\ q \in MetaIds /\ r \in MetaIds /\ s \in MetaIds
       /\ p # q /\ p # r /\ p # s /\ q # r /\ q # s /\ r # s
       /\ p = Sub(a, b) /\ q = Sub(c, b) /\ r = Sub(a, d) /\ s = Sub(c, d)
  BY <1>8, <1>9
<1> HIDE DEF p, q, r, s
<1> DEFINE l1 == <<p>>
           l2 == l1 \o Opt(C, q)
           l3 == l2 \o Opt(D, r)
           l4 == l3 \o Opt(C /\ D, s)
           E1 == {p}
           E2 == E1 \cup OptIn(C, q)
           E3 == E2 \cup OptIn(D, r)
           E4 == E3 \cup OptIn(C /\ D, s)
<1>14. Lists(l1, E1)
  BY <1>12 DEF p
<1>15. q \notin E1 /\ r \notin E2 /\ s \notin E3
  BY <1>13 DEF OptIn
<1>16. Lists(l2, E2)
  <2> HIDE DEF l1, E1
  <2> QED
    BY <1>13, <1>14, <1>15, OneMore, Zenon
<1>17. Lists(l3, E3)
  <2> HIDE DEF l2, E2
  <2> QED
    BY <1>13, <1>15, <1>16, OneMore, Zenon
<1>18. Lists(l4, E4)
  <2>1. (C /\ D) \in BOOLEAN
    OBVIOUS
  <2> HIDE DEF l3, E3
  <2> QED
    BY <1>13, <1>15, <1>17, <2>1, OneMore, Zenon
<1>19. l4 = SubIdentifiers(m)
  BY <1>10, <1>13 DEF Opt
<1>20. E4 = {TileAt(m, x, y, m.z + 1) : x \in Halves(m.x, m.z), y \in Halves(m.y, m.z)}
  BY <1>11 DEF p, q, r, s, Cell, OptIn
<1> HIDE DEF l4, E4
<1> QED
  BY <1>18, <1>19, <1>20

\* Prerendering, which goes from a square to those getSubIdentifiers returns, reaches every
\* tile of the next zoom level once: a tile below the square lies in exactly one of them,
\* and they have no other tiles.
THEOREM ChildrenCover ==
    ASSUME NEW m \in MetaIds, m = MetaOf(m), m.z \in Nat,
           NEW t \in TileIds, OnMap(t), t.z = m.z + 1
    PROVE  LET S == SubIdentifiers(m)
           IN  /\ Contains(m, Above(t)) <=> \E i \in DOMAIN S : Contains(S[i], t)
               /\ \A i, j \in DOMAIN S : Contains(S[i], t) /\ Contains(S[j], t) => i = j
<1> DEFINE S == SubIdentifiers(m)
           X == Halves(m.x, m.z)
           Y == Halves(m.y, m.z)
           Cell(x, y) == TileAt(m, x, y, m.z + 1)
<1>1. Lists(S, {Cell(x, y) : x \in X, y \in Y})
  BY SubIdentifiersAre
<1>2. DOMAIN S = 1 .. Len(S)
  BY <1>1, LenProperties DEF Lists
<1>3. /\ m.x \in Int /\ m.y \in Int /\ t.x \in 0 .. Extent(m.z + 1) - 1
      /\ t.y \in 0 .. Extent(m.z + 1) - 1
  BY DEF OnMap, MetaIds, TileIds
<1>4. \A x, y : Contains(Cell(x, y), t) <=>
                    /\ Within(x, t.x, m.z + 1) /\ Within(y, t.y, m.z + 1)
                    /\ t.style = m.style
  BY DEF Contains, TileAt, Within, Width, Height
<1>5. Contains(m, Above(t)) <=> /\ Within(m.x, t.x \div 2, m.z) /\ Within(m.y, t.y \div 2, m.z)
                                /\ t.style = m.style
  <2>1. /\ Above(t).x = t.x \div 2 /\ Above(t).y = t.y \div 2 /\ Above(t).z = m.z
        /\ Above(t).style = t.style
    BY DEF Above, TileIds, MetaIds
  <2> QED
    BY <2>1 DEF Contains, Within, Width, Height
<1>6. /\ Within(m.x, t.x \div 2, m.z) <=> \E x \in X : Within(x, t.x, m.z + 1)
      /\ \A x, y \in X : Within(x, t.x, m.z + 1) /\ Within(y, t.x, m.z + 1) => x = y
  BY <1>3, HalvesCover
<1>7. /\ Within(m.y, t.y \div 2, m.z) <=> \E y \in Y : Within(y, t.y, m.z + 1)
      /\ \A x, y \in Y : Within(x, t.y, m.z + 1) /\ Within(y, t.y, m.z + 1) => x = y
  BY <1>3, HalvesCover
<1> HIDE DEF S, X, Y, Cell
<1>8. Contains(m, Above(t)) <=> \E i \in DOMAIN S : Contains(S[i], t)
  <2>1. Contains(m, Above(t)) <=> \E x \in X, y \in Y : Contains(Cell(x, y), t)
    BY <1>4, <1>5, <1>6, <1>7
  <2>2. (\E x \in X, y \in Y : Contains(Cell(x, y), t)) <=> \E i \in DOMAIN S : Contains(S[i], t)
    BY <1>1, <1>2 DEF Lists
  <2> QED
    BY <2>1, <2>2
<1>9. ASSUME NEW i \in DOMAIN S, NEW j \in DOMAIN S, Contains(S[i], t), Contains(S[j], t)
      PROVE  i = j
  <2>1. PICK x \in X, y \in Y : S[i] = Cell(x, y)
    BY <1>1, <1>2 DEF Lists
  <2>2. PICK u \in X, v \in Y : S[j] = Cell(u, v)
    BY <1>1, <1>2 DEF Lists
  <2>3. x = u /\ y = v
    BY <1>4, <1>6, <1>7, <1>9, <2>1, <2>2
  <2> QED
    BY <1>1, <1>2, <2>1, <2>2, <2>3 DEF Lists
<1> QED
  BY <1>8, <1>9 DEF S

-----------------------------------------------------------------------------
(* The running list.                                                       *)

\* What RemoveAt leaves, and in which order.
LEMMA RemoveAtElements ==
    ASSUME NEW S, NEW s \in Seq(S), NEW i \in DOMAIN s
    PROVE  /\ Len(Seqs!RemoveAt(s, i)) = Len(s) - 1
           /\ \A k \in 1 .. Len(s) - 1 :
                 Seqs!RemoveAt(s, i)[k] = IF k < i THEN s[k] ELSE s[k + 1]
<1>1. i \in 1 .. Len(s) /\ Len(s) \in Nat
  BY LenProperties
<1> DEFINE a == SubSeq(s, 1, i - 1)
           b == SubSeq(s, i + 1, Len(s))
<1>2. /\ a \in Seq(S) /\ b \in Seq(S) /\ Len(a) = i - 1 /\ Len(b) = Len(s) - i
      /\ \A k \in 1 .. i - 1 : a[k] = s[k]
      /\ \A k \in 1 .. Len(s) - i : b[k] = s[k + i]
  BY <1>1, SubSeqProperties
<1>3. Seqs!RemoveAt(s, i) = a \o b
  BY DEF Seqs!RemoveAt
<1> HIDE DEF a, b
<1>4. Len(a \o b) = Len(s) - 1
  BY <1>1, <1>2, ConcatProperties
<1>5. ASSUME NEW k \in 1 .. Len(s) - 1
      PROVE  (a \o b)[k] = IF k < i THEN s[k] ELSE s[k + 1]
  <2>1. i \in Int /\ Len(s) \in Int /\ k \in Int /\ 1 <= k /\ k <= Len(s) - 1
    BY <1>1
  <2>2. k \in 1 .. Len(a) + Len(b)
    BY <1>2, <2>1
  <2>3. (a \o b)[k] = IF k <= Len(a) THEN a[k] ELSE b[k - Len(a)]
    BY <1>2, <2>2, ConcatProperties
  <2>4. CASE k < i
    <3>1. k \in 1 .. i - 1 /\ k <= i - 1
      BY <2>1, <2>4
    <3> QED
      BY <1>2, <2>3, <2>4, <3>1
  <2>5. CASE ~(k < i)
    <3>1. k - (i - 1) \in 1 .. Len(s) - i /\ k - (i - 1) + i = k + 1 /\ ~(k <= i - 1)
      BY <2>1, <2>5
    <3>2. b[k - (i - 1)] = s[k + 1]
      BY <1>2, <3>1
    <3> QED
      BY <1>2, <2>3, <2>5, <3>1, <3>2
  <2> QED
    BY <2>4, <2>5
<1> QED
  BY <1>3, <1>4, <1>5
-----------------------------------------------------------------------------
(* Who joins which job.                                                    *)

\* Nothing runs at first.
LEMMA ListInit == Init => ListInv
BY DEF Init, ListInv, RunningOK, TileOK, UserJobsJoin

\* The running list stays, and so does what its workers and the seekers have.
LEMMA ListFrame ==
    ASSUME TypeOK, ListInv, running' = running,
           \A w \in Workers : pc[w] \in {"process", "finished"} =>
               pc'[w] \in {"process", "finished"} /\ req'[w] = req[w] /\ mid'[w] = mid[w],
           TileOK'
    PROVE  ListInv'
<1>1. \A i \in DOMAIN running : running[i] \in Workers
  BY DEF TypeOK
<1>2. RunningOK'
  BY <1>1 DEF ListInv, RunningOK
<1>3. UserJobsJoin'
  BY <1>1 DEF ListInv, RunningOK, UserJobsJoin, SameArea
<1> QED
  BY <1>2, <1>3 DEF ListInv

\* No worker starts to look for a job.
LEMMA TileFrame ==
    ASSUME TileOK,
           \A w \in Workers :
               pc'[w] \in {"factory", "start"} /\ req'[w] # NoRequest =>
                   /\ pc[w] \in {"factory", "start"} /\ req[w] # NoRequest
                   /\ ti'[w] = ti[w] /\ mid'[w] = mid[w]
    PROVE  TileOK'
BY DEF TileOK

\* w, with its tile or without one, becomes the last running job.
LEMMA AppendJob ==
    ASSUME TypeOK, ListInv, NEW w \in Workers, pc[w] = "start", Goto(w, "process"),
           running' = Append(running, w), UNCHANGED <<req, ti, mid>>,
           \/ req[w] = NoRequest
           \/ \A i \in DOMAIN running : ~Contains(mid[running[i]], ti[w])
    PROVE  ListInv'
<1>1. /\ running \in Seq(Workers) /\ Len(running) \in Nat
      /\ DOMAIN running = 1 .. Len(running)
      /\ \A i \in DOMAIN running : running[i] \in Workers /\ running[i] # w
  <2>1. running \in Seq(Workers)
    BY DEF TypeOK
  <2>2. \A i \in DOMAIN running : running[i] # w
    BY DEF ListInv, RunningOK
  <2> QED
    BY <2>1, <2>2
<1>2. pc' = [pc EXCEPT ![w] = "process"] /\ pc \in [Workers -> Labels]
  BY DEF Goto, TypeOK
<1>3. \A i \in DOMAIN running' :
        \/ i \in DOMAIN running /\ running'[i] = running[i]
        \/ i = Len(running) + 1 /\ running'[i] = w
  BY <1>1
<1>4. RunningOK'
  <2>1. \A i \in DOMAIN running' : pc'[running'[i]] \in {"process", "finished"}
    BY <1>1, <1>2, <1>3 DEF ListInv, RunningOK
  <2>2. \A i, j \in DOMAIN running' : running'[i] = running'[j] => i = j
    BY <1>1, <1>3 DEF ListInv, RunningOK
  <2> QED
    BY <2>1, <2>2 DEF RunningOK
<1>5. TileOK'
  BY <1>2, TileFrame DEF ListInv
<1>6. UserJobsJoin'
  <2> SUFFICES ASSUME NEW i \in DOMAIN running', NEW j \in DOMAIN running', i < j,
                      SameArea(mid[running'[i]], mid[running'[j]])
               PROVE  req[running'[j]] = NoRequest
    BY DEF UserJobsJoin, SameArea
  <2>1. i \in DOMAIN running /\ running'[i] = running[i]
    BY <1>1, <1>3
  <2>2. CASE j \in DOMAIN running /\ running'[j] = running[j]
    BY <2>1, <2>2 DEF ListInv, UserJobsJoin
  <2>3. CASE running'[j] = w
    <3>1. SUFFICES ASSUME req[w] # NoRequest PROVE FALSE
      BY <2>3
    <3>2. Contains(mid[w], ti[w])
      BY <3>1, ContainsOwn DEF ListInv, TileOK
    <3>3. Contains(mid[running[i]], ti[w])
      BY <2>1, <2>3, <3>2, SameAreaContains
    <3> QED
      BY <2>1, <3>1, <3>3
  <2> QED
    BY <1>3, <2>2, <2>3
<1> QED
  BY <1>4, <1>5, <1>6 DEF ListInv

\* A job leaves the list, the others keep their order.
LEMMA RemoveJob ==
    ASSUME TypeOK, ListInv, NEW w \in Workers, Finished(w)
    PROVE  ListInv'
<1>1. PICK n \in DOMAIN running : running[n] = w /\ running' = Seqs!RemoveAt(running, n)
  BY DEF Finished
<1>2. /\ running \in Seq(Workers) /\ Len(running) \in Nat
      /\ DOMAIN running = 1 .. Len(running)
      /\ \A i \in DOMAIN running : running[i] \in Workers
  BY DEF TypeOK
<1>3. /\ UNCHANGED <<req, ti, mid>> /\ pc' = [pc EXCEPT ![w] = "deliver"]
      /\ pc \in [Workers -> Labels] /\ pc[w] = "finished"
  BY DEF Finished, Goto, TypeOK, local
<1> DEFINE old(k) == IF k < n THEN k ELSE k + 1
<1>4. \A k \in DOMAIN running' : running'[k] = running[old(k)] /\ k \in 1 .. Len(running) - 1
  <2>1. running' \in Seq(Workers) /\ Len(running') = Len(running) - 1
    BY <1>1, <1>2, RemoveAtElements, RemoveAtType
  <2>2. DOMAIN running' = 1 .. Len(running) - 1
    BY <2>1
  <2>3. \A k \in 1 .. Len(running) - 1 : running'[k] = IF k < n THEN running[k] ELSE running[k + 1]
    BY <1>1, <1>2, RemoveAtElements
  <2> QED
    BY <2>2, <2>3
<1>5. \A k \in DOMAIN running' : old(k) \in DOMAIN running /\ old(k) # n
  BY <1>1, <1>2, <1>4
<1>6. \A i, j \in DOMAIN running' : /\ old(i) = old(j) => i = j
                                    /\ i < j => old(i) < old(j)
  BY <1>1, <1>2, <1>4
<1> HIDE DEF old
<1>7. RunningOK'
  <2>1. \A k \in DOMAIN running' : running'[k] # w
    BY <1>1, <1>4, <1>5 DEF ListInv, RunningOK
  <2>2. \A k \in DOMAIN running' : pc'[running'[k]] \in {"process", "finished"}
    BY <1>2, <1>3, <1>4, <1>5, <2>1 DEF ListInv, RunningOK
  <2>3. \A i, j \in DOMAIN running' : running'[i] = running'[j] => i = j
    BY <1>4, <1>5, <1>6 DEF ListInv, RunningOK
  <2> QED
    BY <2>2, <2>3 DEF RunningOK
<1>8. TileOK'
  BY <1>3, TileFrame DEF ListInv
<1>9. UserJobsJoin'
  BY <1>3, <1>4, <1>5, <1>6 DEF ListInv, UserJobsJoin, SameArea
<1> QED
  BY <1>7, <1>8, <1>9 DEF ListInv

\* A worker looks for a job with the meta tile of its tile.
LEMMA CreateList ==
    ASSUME InWorld, TypeOK, LocalOK, ListInv, NEW w \in Workers, Create(w)
    PROVE  ListInv'
<1>1. pc[w] = "create" /\ req[w] \in Requests /\ req[w] # NoRequest
  BY ManagerAssumption DEF Create, LocalOK
<1>2. running' = running
  BY Frames DEF Create
<1>3. PICK o \in Resolve[req[w]] :
        \/ /\ req' = [req EXCEPT ![w] = NoRequest] /\ Goto(w, "idle")
           /\ UNCHANGED <<ti, mid>>
        \/ /\ o \notin {Malformed, UnknownFormat}
           /\ ti' = [ti EXCEPT ![w] = o] /\ mid' = [mid EXCEPT ![w] = MetaOf(o)]
           /\ Goto(w, "factory") /\ UNCHANGED req
  BY DEF Create
<1>4. o \notin {Malformed, UnknownFormat} => o \in TileIds /\ OnMap(o)
  BY <1>1, ManagerAssumption DEF Outcomes, InWorld
<1>5. \A v \in Workers \ {w} : /\ pc'[v] = pc[v] /\ req'[v] = req[v]
                               /\ ti'[v] = ti[v] /\ mid'[v] = mid[v]
  BY <1>3 DEF Goto, TypeOK
<1>6. TileOK'
  <2>1. pc'[w] \in {"factory", "start"} =>
          ti'[w] \in TileIds /\ OnMap(ti'[w]) /\ mid'[w] = MetaOf(ti'[w])
    BY <1>3, <1>4 DEF Goto, TypeOK
  <2> QED
    BY <1>5, <2>1 DEF ListInv, TileOK
<1> QED
  BY <1>1, <1>2, <1>5, <1>6, ListFrame

\* The other steps of a worker leave the list and the jobs in it alone.
LEMMA OtherList ==
    ASSUME TypeOK, LocalOK, ListInv, NEW w \in Workers, Worker(w),
           ~Create(w), ~StartUser(w), ~StartPre(w), ~Finished(w)
    PROVE  ListInv'
<1>1. running' = running
  BY DEF Worker, TakeHandler, PopUser, PopPre, TakeFactory, Process, Deliver, Delivered,
         Return, EnqueueChild, PostChild, Leave, CheckThreads, CheckQueue, shared
<1>2. PICK l \in Labels : pc' = [pc EXCEPT ![w] = l] \/ pc' = pc
  BY DEF Worker, TakeHandler, PopUser, PopPre, TakeFactory, Process, Deliver, Delivered,
         Return, EnqueueChild, PostChild, Leave, CheckThreads, CheckQueue, Goto, Labels
<1>3. \A v \in Workers \ {w} : /\ pc'[v] = pc[v] /\ req'[v] = req[v]
                               /\ ti'[v] = ti[v] /\ mid'[v] = mid[v]
  <2>1. \A v \in Workers \ {w} : pc'[v] = pc[v]
    BY <1>2 DEF TypeOK
  <2>2. \A v \in Workers \ {w} : req'[v] = req[v] /\ ti'[v] = ti[v] /\ mid'[v] = mid[v]
    BY DEF Worker, TakeHandler, PopUser, PopPre, TakeFactory, Process, Deliver, Delivered,
           Return, EnqueueChild, PostChild, Leave, CheckThreads, CheckQueue, local, TypeOK
  <2> QED
    BY <2>1, <2>2
<1>4. CASE TakeFactory(w)
  <2>1. /\ UNCHANGED <<req, ti, mid>> /\ pc[w] = "factory"
    BY <1>4 DEF TakeFactory
  <2> QED
    BY <1>1, <1>3, <2>1, TileFrame, ListFrame DEF ListInv
<1>5. CASE Process(w)
  <2>1. UNCHANGED <<req, ti, mid>> /\ pc[w] = "process" /\ pc'[w] = "finished"
    BY <1>5 DEF Process, Goto, TypeOK
  <2> QED
    BY <1>1, <1>3, <2>1, TileFrame, ListFrame DEF ListInv
<1>6. CASE PopPre(w)
  <2>1. UNCHANGED req /\ req[w] = NoRequest /\ pc[w] = "pre"
    BY <1>6 DEF PopPre, LocalOK
  <2> QED
    BY <1>1, <1>3, <2>1, TileFrame, ListFrame DEF ListInv
<1>7. CASE ~TakeFactory(w) /\ ~Process(w) /\ ~PopPre(w)
  <2>1. pc[w] \notin {"process", "finished"} /\ pc'[w] \notin {"factory", "start"}
    BY <1>7 DEF Worker, TakeHandler, PopUser, Deliver, Delivered,
         Return, EnqueueChild, PostChild, Leave, CheckThreads, CheckQueue, Goto, TypeOK
  <2> QED
    BY <1>1, <1>3, <2>1, TileFrame, ListFrame DEF ListInv
<1> QED
  BY <1>4, <1>5, <1>6, <1>7

\* Every step keeps the running list in order.
LEMMA ListStep ==
    ASSUME InWorld, TypeOK, LocalOK, ListInv, [Next]_vars
    PROVE  ListInv'
<1>1. ASSUME UNCHANGED <<running, pc, req, ti, mid>> PROVE ListInv'
  BY <1>1, TileFrame, ListFrame DEF ListInv
<1>2. CASE UNCHANGED vars
  BY <1>1, <1>2, Frames DEF vars
<1>3. CASE (\E r \in Requests : Enqueue(r)) \/ (\E s \in Styles : LoadStyle(s))
           \/ PostUser \/ PostRoot \/ Stop
  BY <1>1, <1>3, Frames DEF Enqueue, LoadStyle, PostUser, PostRoot, Stop
<1>4. ASSUME NEW w \in Workers, Worker(w) PROVE ListInv'
  <2>1. CASE Create(w)
    BY <2>1, CreateList
  <2>2. CASE StartUser(w)
    <3>1. pc[w] = "start" /\ UNCHANGED <<req, ti, mid>>
      BY <2>2 DEF StartUser
    <3>2. \/ Goto(w, "return") /\ UNCHANGED running
          \/ /\ \A i \in DOMAIN running : ~Contains(mid[running[i]], ti[w])
             /\ running' = Append(running, w) /\ Goto(w, "process")
      BY <2>2 DEF StartUser
    <3>3. CASE Goto(w, "return") /\ UNCHANGED running
      <4>1. pc'[w] = "return" /\ \A v \in Workers \ {w} : pc'[v] = pc[v]
        BY <3>3 DEF Goto, TypeOK
      <4> QED
        BY <3>1, <3>3, <4>1, TileFrame, ListFrame DEF ListInv
    <3> QED
      BY <3>1, <3>2, <3>3, AppendJob
  <2>3. CASE StartPre(w)
    <3>1. pc[w] = "start" /\ UNCHANGED <<req, ti, mid>> /\ req[w] = NoRequest
      BY <2>3, Frames DEF StartPre
    <3>2. CASE Goto(w, "return") /\ UNCHANGED running
      <4>1. pc'[w] = "return" /\ \A v \in Workers \ {w} : pc'[v] = pc[v]
        BY <3>2 DEF Goto, TypeOK
      <4> QED
        BY <3>1, <3>2, <4>1, TileFrame, ListFrame DEF ListInv
    <3>3. CASE Goto(w, "process") /\ running' = Append(running, w)
      BY <3>1, <3>3, AppendJob
    <3> QED
      BY <2>3, <3>2, <3>3 DEF StartPre
  <2>4. CASE Finished(w)
    BY <2>4, RemoveJob
  <2> QED
    BY <1>4, <2>1, <2>2, <2>3, <2>4, OtherList
<1> QED
  BY <1>2, <1>3, <1>4 DEF Next, Rest
-----------------------------------------------------------------------------
(* A job answers whoever joined it.                                        *)

\* No job holds a request at first.
LEMMA AttachedInit == Init => AttachedOK
BY DEF Init, AttachedOK

\* No job gets a request, and the jobs that hold some stay what they are.
LEMMA AttachedFrame ==
    ASSUME AttachedOK,
           \A w \in Workers : requests'[w] \subseteq requests[w],
           \A w \in Workers : requests'[w] # {} =>
               mid'[w] = mid[w] /\ pc'[w] \in {pc[w], "finished", "deliver"}
    PROVE  AttachedOK'
<1>1. \A m, n : m = n => Identifiers(m) = Identifiers(n)
  OBVIOUS
<1>2. ASSUME NEW w \in Workers, requests'[w] # {}
      PROVE  /\ pc'[w] \in {"process", "finished", "deliver"}
             /\ \A p \in requests'[w] : p[1] \in Identifiers(mid'[w])
  <2>1. requests[w] # {} /\ mid'[w] = mid[w] /\ pc'[w] \in {pc[w], "finished", "deliver"}
    BY <1>2
  <2> QED
    BY <2>1 DEF AttachedOK
<1> QED
  BY <1>2 DEF AttachedOK, Identifiers, TileAt, Width, Height, Side

\* A request joins a running job, or the job it starts, with a tile that job delivers.
LEMMA StartAttached ==
    ASSUME OneFormat, TypeOK, ListInv, AttachedOK, NEW w \in Workers, StartUser(w)
    PROVE  AttachedOK'
<1> DEFINE pair == <<ti[w], req[w]>>
           Good(v) == /\ mid[v] \in MetaIds /\ Contains(mid[v], ti[w])
                      /\ pc'[v] \in {"process", "finished"}
<1>1. /\ pc[w] = "start" /\ req[w] # NoRequest /\ UNCHANGED <<req, ti, mid>>
      /\ ti[w] \in TileIds /\ OnMap(ti[w]) /\ mid[w] = MetaOf(ti[w])
      /\ requests[w] = {}
  BY DEF StartUser, ListInv, TileOK, AttachedOK
<1>2. Contains(mid[w], ti[w])
  BY <1>1, ContainsOwn
<1>3. \A v \in Workers : Good(v) => ti[w] \in Identifiers(mid[v])
  <2> SUFFICES ASSUME NEW v \in Workers, Good(v) PROVE ti[w] \in Identifiers(mid[v])
    OBVIOUS
  <2>1. mid[v].fmt = ti[w].fmt
    BY <1>1 DEF OneFormat, MetaIds, TileIds
  <2> QED
    BY <1>1, <2>1, ContainsIsIdentifier
<1>4. \E x \in Workers : /\ requests'[x] \subseteq requests[x] \cup {pair}
                         /\ Good(x)
                         /\ \A v \in Workers \ {x} : requests'[v] = requests[v]
                         /\ \A v \in Workers \ {w} : pc'[v] = pc[v]
  <2> DEFINE Files(x) == /\ requests'[x] \subseteq requests[x] \cup {pair}
                         /\ Good(x)
                         /\ \A v \in Workers \ {x} : requests'[v] = requests[v]
                         /\ \A v \in Workers \ {w} : pc'[v] = pc[v]
  <2>1. ASSUME NEW i \in DOMAIN running, Contains(mid[running[i]], ti[w]),
               requests' = [requests EXCEPT ![running[i]] = @ \cup {pair}],
               Goto(w, "return")
        PROVE  \E x \in Workers : Files(x)
    <3>1. running[i] \in Workers /\ pc[running[i]] \in {"process", "finished"}
          /\ running[i] # w
      BY <1>1 DEF TypeOK, ListInv, RunningOK
    <3>2. mid[running[i]] \in MetaIds
      BY <3>1 DEF TypeOK, At
    <3>3. \A v \in Workers \ {w} : pc'[v] = pc[v]
      BY <2>1 DEF Goto, TypeOK
    <3>4. Files(running[i])
      BY <2>1, <3>1, <3>2, <3>3 DEF TypeOK
    <3> QED
      BY <3>1, <3>4
  <2>2. ASSUME requests' = [requests EXCEPT ![w] = {pair}], Goto(w, "process")
        PROVE  \E x \in Workers : Files(x)
    <3>1. mid[w] \in MetaIds
      BY <1>1 DEF TypeOK, At
    <3>2. Files(w)
      BY <1>1, <1>2, <2>2, <3>1 DEF Goto, TypeOK
    <3> QED
      BY <3>2
  <2>3. \/ \E i \in DOMAIN running : /\ Contains(mid[running[i]], ti[w])
                                     /\ requests' = [requests EXCEPT ![running[i]] = @ \cup {pair}]
                                     /\ Goto(w, "return")
        \/ requests' = [requests EXCEPT ![w] = {pair}] /\ Goto(w, "process")
    BY DEF StartUser
  <2> QED
    BY <2>1, <2>2, <2>3
<1>5. pair[1] = ti[w]
  OBVIOUS
<1> HIDE DEF pair, Good
<1>6. PICK x \in Workers : /\ requests'[x] \subseteq requests[x] \cup {pair}
                           /\ Good(x)
                           /\ \A v \in Workers \ {x} : requests'[v] = requests[v]
                           /\ \A v \in Workers \ {w} : pc'[v] = pc[v]
  BY <1>4
<1>7. ASSUME NEW v \in Workers, requests'[v] # {}
      PROVE  pc'[v] \in {"process", "finished", "deliver"}
  <2>1. CASE v = x
    BY <1>6, <2>1 DEF Good
  <2>2. CASE v # x
    BY <1>1, <1>6, <1>7, <2>2 DEF AttachedOK
  <2> QED
    BY <2>1, <2>2
<1>8. ASSUME NEW v \in Workers, NEW p \in requests'[v]
      PROVE  p[1] \in Identifiers(mid[v])
  <2>1. CASE p \in requests[v]
    BY <2>1 DEF AttachedOK
  <2>2. CASE v = x /\ p = pair
    BY <1>3, <1>5, <1>6, <2>2
  <2> QED
    BY <1>6, <2>1, <2>2
<1>9. mid' = mid
  BY <1>1
<1> QED
  BY <1>7, <1>8, <1>9 DEF AttachedOK, Identifiers, TileAt, Width, Height, Side

\* The other steps of a worker attach nothing; one that moves mid has no request.
LEMMA OtherAttached ==
    ASSUME TypeOK, AttachedOK, NEW w \in Workers, Worker(w), ~StartUser(w)
    PROVE  AttachedOK'
<1>1. \A v \in Workers : requests'[v] \subseteq requests[v]
  <2>1. CASE Return(w)
    BY <2>1 DEF Return, TypeOK
  <2>2. CASE Deliver(w)
    BY <2>2 DEF Deliver, TypeOK
  <2>3. CASE ~Return(w) /\ ~Deliver(w)
    BY <2>3 DEF Worker, TakeHandler, PopUser, Create, PopPre, TakeFactory, StartPre, Process,
         Finished, Delivered, EnqueueChild, PostChild, Leave, CheckThreads, CheckQueue, local
  <2> QED
    BY <2>1, <2>2, <2>3
<1>2. \A v \in Workers \ {w} : mid'[v] = mid[v] /\ pc'[v] = pc[v]
  <2>1. \A v \in Workers \ {w} : pc'[v] = pc[v]
    BY DEF Worker, TakeHandler, PopUser, Create, PopPre, TakeFactory, StartPre, Process,
         Finished, Deliver, Delivered, Return, EnqueueChild, PostChild, Leave, CheckThreads,
         CheckQueue, Goto, TypeOK
  <2>2. \A v \in Workers \ {w} : mid'[v] = mid[v]
    BY DEF Worker, TakeHandler, PopUser, Create, PopPre, TakeFactory, StartPre, Process,
         Finished, Deliver, Delivered, Return, EnqueueChild, PostChild, Leave, CheckThreads,
         CheckQueue, local, TypeOK
  <2> QED
    BY <2>1, <2>2
<1>3. requests'[w] # {} => mid'[w] = mid[w] /\ pc'[w] \in {pc[w], "finished", "deliver"}
  <2> SUFFICES ASSUME requests'[w] # {}
               PROVE  mid'[w] = mid[w] /\ pc'[w] \in {pc[w], "finished", "deliver"}
    OBVIOUS
  <2>1. requests[w] # {} /\ pc[w] \in {"process", "finished", "deliver"}
    BY <1>1 DEF AttachedOK
  <2>2. CASE Process(w)
    BY <2>2 DEF Process, Goto, TypeOK
  <2>3. CASE Finished(w)
    BY <2>3 DEF Finished, Goto, TypeOK, local
  <2>4. CASE Deliver(w)
    BY <2>4 DEF Deliver
  <2>5. CASE Delivered(w)
    <3>1. requests[w] = {}
      BY <2>5 DEF Delivered, AttachedOK
    <3> QED
      BY <2>1, <3>1
  <2> QED
    BY <2>1, <2>2, <2>3, <2>4, <2>5 DEF Worker, TakeHandler, PopUser, Create, PopPre,
       TakeFactory, StartPre, Return, EnqueueChild, PostChild, Leave, CheckThreads, CheckQueue
<1> QED
  BY <1>1, <1>2, <1>3, AttachedFrame

\* Every step keeps the jobs good for the requests they hold.
LEMMA AttachedStep ==
    ASSUME OneFormat, TypeOK, ListInv, AttachedOK, [Next]_vars
    PROVE  AttachedOK'
<1>1. ASSUME UNCHANGED <<pc, mid, requests>> PROVE AttachedOK'
  BY <1>1, AttachedFrame
<1>2. CASE UNCHANGED vars
  BY <1>1, <1>2, Frames DEF vars
<1>3. CASE (\E r \in Requests : Enqueue(r)) \/ (\E s \in Styles : LoadStyle(s))
           \/ PostUser \/ PostRoot \/ Stop
  BY <1>1, <1>3, Frames DEF Enqueue, LoadStyle, PostUser, PostRoot, Stop
<1>4. ASSUME NEW w \in Workers, Worker(w) PROVE AttachedOK'
  BY <1>4, StartAttached, OtherAttached
<1> QED
  BY <1>2, <1>3, <1>4 DEF Next, Rest
-----------------------------------------------------------------------------
(* Nobody forgets a request.                                               *)

\* Nothing is pending at first.
LEMMA HeldInit == Init => PendingHeld
BY DEF Init, PendingHeld

\* No request becomes pending, and none leaves its place.
LEMMA HeldFrame ==
    ASSUME PendingHeld, UNCHANGED userRequests,
           \A r \in Requests : reply'[r] = "pending" => reply[r] = "pending",
           \A r \in Requests, w \in Workers :
               reply'[r] = "pending" /\ InHand(w) /\ req[w] = r => InHand(w)' /\ req'[w] = r,
           \A r \in Requests, w \in Workers : \A p \in requests[w] :
               reply'[r] = "pending" /\ p[2] = r => p \in requests'[w]
    PROVE  PendingHeld'
<1> SUFFICES ASSUME NEW r \in Requests, reply'[r] = "pending" PROVE Held(r)'
  BY DEF PendingHeld
<1>1. Held(r)
  BY DEF PendingHeld
<1>2. CASE \E i \in DOMAIN userRequests : userRequests[i] = r
  BY <1>2 DEF Held
<1>3. CASE \E w \in Workers : InHand(w) /\ req[w] = r
  BY <1>3 DEF Held
<1>4. CASE \E w \in Workers : \E p \in requests[w] : p[2] = r
  BY <1>4 DEF Held
<1> QED
  BY <1>1, <1>2, <1>3, <1>4 DEF Held

\* A request that is accepted is in the queue, the others stay there.
LEMMA EnqueueHeld ==
    ASSUME TypeOK, PendingHeld, NEW r \in Requests, Enqueue(r)
    PROVE  PendingHeld'
<1>1. UNCHANGED <<pc, req, requests>> /\ \A w \in Workers : InHand(w)' = InHand(w)
  BY Frames DEF Enqueue, InHand
<1>2. CASE QueueFull
  <2>1. /\ UNCHANGED userRequests
        /\ \A s \in Requests : reply'[s] = "pending" => reply[s] = "pending"
    BY <1>2 DEF Enqueue, Answer, TypeOK
  <2> QED
    BY <1>1, <2>1, HeldFrame
<1>3. CASE ~QueueFull
  <2>1. /\ userRequests' = Append(userRequests, r) /\ userRequests \in Seq(Requests)
        /\ \A s \in Requests \ {r} : reply'[s] = reply[s]
    BY <1>3 DEF Enqueue, TypeOK
  <2>2. /\ \A i \in DOMAIN userRequests : i \in DOMAIN userRequests'
                                          /\ userRequests'[i] = userRequests[i]
        /\ Len(userRequests) + 1 \in DOMAIN userRequests'
        /\ userRequests'[Len(userRequests) + 1] = r
    BY <2>1
  <2> SUFFICES ASSUME NEW s \in Requests, reply'[s] = "pending" PROVE Held(s)'
    BY DEF PendingHeld
  <2>3. CASE s = r
    BY <2>2, <2>3 DEF Held
  <2>4. CASE s # r
    <3>1. Held(s)
      BY <2>1, <2>4 DEF PendingHeld
    <3>2. CASE \E i \in DOMAIN userRequests : userRequests[i] = s
      BY <2>2, <3>2 DEF Held
    <3>3. CASE \E w \in Workers : InHand(w) /\ req[w] = s
      BY <1>1, <3>3 DEF Held
    <3>4. CASE \E w \in Workers : \E p \in requests[w] : p[2] = s
      BY <1>1, <3>4 DEF Held
    <3> QED
      BY <3>1, <3>2, <3>3, <3>4 DEF Held
  <2> QED
    BY <2>3, <2>4
<1> QED
  BY <1>2, <1>3

\* The front of the queue goes into the worker's hand.
LEMMA PopUserHeld ==
    ASSUME TypeOK, PendingHeld, NEW w \in Workers, PopUser(w)
    PROVE  PendingHeld'
<1>1. /\ UNCHANGED <<reply, requests>> /\ ~InHand(w)
      /\ \A v \in Workers \ {w} : pc'[v] = pc[v] /\ req'[v] = req[v]
  BY DEF PopUser, others, Goto, InHand, TypeOK
<1>2. CASE userRequests = << >>
  BY <1>1, <1>2, HeldFrame DEF PopUser, InHand
<1>3. CASE userRequests # << >>
  <2>1. /\ userRequests' = Tail(userRequests) /\ userRequests \in Seq(Requests)
        /\ req'[w] = userRequests[1] /\ pc'[w] = "create" /\ userRequests[1] \in Requests
    BY <1>3 DEF PopUser, Goto, TypeOK
  <2>2. \A i \in DOMAIN userRequests :
          \/ i = 1
          \/ i - 1 \in DOMAIN userRequests' /\ userRequests'[i - 1] = userRequests[i]
    BY <1>3, <2>1
  <2>3. InHand(w)' /\ req'[w] = userRequests[1]
    BY <2>1, ManagerAssumption DEF InHand
  <2> SUFFICES ASSUME NEW r \in Requests, reply'[r] = "pending" PROVE Held(r)'
    BY DEF PendingHeld
  <2>4. Held(r)
    BY <1>1 DEF PendingHeld
  <2>5. CASE \E i \in DOMAIN userRequests : userRequests[i] = r
    <3>1. PICK i \in DOMAIN userRequests : userRequests[i] = r
      BY <2>5
    <3>2. CASE i = 1
      BY <2>3, <3>1, <3>2 DEF Held
    <3>3. CASE i # 1
      BY <2>2, <3>1, <3>3 DEF Held
    <3> QED
      BY <3>2, <3>3
  <2>6. CASE \E v \in Workers : InHand(v) /\ req[v] = r
    <3>1. PICK v \in Workers : InHand(v) /\ req[v] = r
      BY <2>6
    <3>2. InHand(v)' /\ req'[v] = r
      BY <1>1, <3>1 DEF InHand
    <3> QED
      BY <3>2 DEF Held
  <2>7. CASE \E v \in Workers : \E p \in requests[v] : p[2] = r
    BY <1>1, <2>7 DEF Held
  <2> QED
    BY <2>4, <2>5, <2>6, <2>7 DEF Held
<1> QED
  BY <1>2, <1>3

\* A request with a bad url is answered, any other stays in the worker's hand.
LEMMA CreateHeld ==
    ASSUME TypeOK, LocalOK, PendingHeld, NEW w \in Workers, Create(w)
    PROVE  PendingHeld'
<1>1. /\ UNCHANGED <<userRequests, requests>> /\ req[w] \in Requests
      /\ req[w] # NoRequest /\ pc[w] = "create"
  BY ManagerAssumption DEF Create, queues, LocalOK
<1>2. \/ \E status \in Final : Answer(req[w], status) /\ req' = [req EXCEPT ![w] = NoRequest]
      \/ UNCHANGED <<reply, req>> /\ pc' = [pc EXCEPT ![w] = "factory"]
  BY DEF Create, Goto, Final, Sent
<1>3. \A v \in Workers \ {w} : pc'[v] = pc[v] /\ req'[v] = req[v]
  BY DEF Create, Goto, TypeOK
<1>4. \A v \in Workers \ {w} : InHand(v)' = InHand(v)
  BY <1>3 DEF InHand
<1>5. CASE \E status \in Final : Answer(req[w], status)
  <2>1. /\ reply'[req[w]] # "pending"
        /\ \A r \in Requests : reply'[r] = "pending" => reply[r] = "pending"
    BY <1>1, <1>5 DEF Answer, Final, TypeOK
  <2> QED
    BY <1>1, <1>3, <1>4, <2>1, HeldFrame
<1>6. CASE UNCHANGED <<reply, req>> /\ pc' = [pc EXCEPT ![w] = "factory"]
  <2>1. InHand(w)'
    BY <1>1, <1>6 DEF InHand, TypeOK
  <2> QED
    BY <1>1, <1>3, <1>4, <1>6, <2>1, HeldFrame
<1> QED
  BY <1>2, <1>5, <1>6

\* The request goes from the worker's hand into a job.
LEMMA StartUserHeld ==
    ASSUME TypeOK, AttachedOK, PendingHeld, NEW w \in Workers, StartUser(w)
    PROVE  PendingHeld'
<1> DEFINE pair == <<ti[w], req[w]>>
<1>1. /\ UNCHANGED <<userRequests, reply, req>> /\ pc[w] = "start" /\ requests[w] = {}
      /\ \A v \in Workers \ {w} : pc'[v] = pc[v]
  BY DEF StartUser, queues, others, Goto, TypeOK, AttachedOK
<1>2. /\ \A v \in Workers : requests[v] \subseteq requests'[v]
      /\ \E x \in Workers : pair \in requests'[x]
  <2>1. ASSUME NEW i \in DOMAIN running, requests' = [requests EXCEPT ![running[i]] = @ \cup {pair}]
        PROVE  <1>2!1 /\ <1>2!2
    <3>1. running[i] \in Workers
      BY DEF TypeOK
    <3>2. pair \in requests'[running[i]]
      BY <2>1, <3>1 DEF TypeOK
    <3>3. \A v \in Workers : requests[v] \subseteq requests'[v]
      BY <2>1, <3>1 DEF TypeOK
    <3> QED
      BY <3>1, <3>2, <3>3
  <2>2. ASSUME requests' = [requests EXCEPT ![w] = {pair}]
        PROVE  <1>2!1 /\ <1>2!2
    <3>1. pair \in requests'[w]
      BY <2>2 DEF TypeOK
    <3>2. \A v \in Workers : requests[v] \subseteq requests'[v]
      BY <1>1, <2>2 DEF TypeOK
    <3> QED
      BY <3>1, <3>2
  <2> QED
    BY <2>1, <2>2 DEF StartUser
<1>3. pair[2] = req[w]
  OBVIOUS
<1> HIDE DEF pair
<1> SUFFICES ASSUME NEW r \in Requests, reply'[r] = "pending" PROVE Held(r)'
  BY DEF PendingHeld
<1>4. Held(r)
  BY <1>1 DEF PendingHeld
<1>5. CASE \E i \in DOMAIN userRequests : userRequests[i] = r
  BY <1>1, <1>5 DEF Held
<1>6. CASE \E v \in Workers \ {w} : InHand(v) /\ req[v] = r
  <2>1. PICK v \in Workers \ {w} : InHand(v) /\ req[v] = r
    BY <1>6
  <2>2. InHand(v)' /\ req'[v] = r
    BY <1>1, <2>1 DEF InHand
  <2> QED
    BY <2>2 DEF Held
<1>7. CASE req[w] = r
  BY <1>2, <1>3, <1>7 DEF Held
<1>8. CASE \E v \in Workers : \E p \in requests[v] : p[2] = r
  BY <1>2, <1>8 DEF Held
<1> QED
  BY <1>4, <1>5, <1>6, <1>7, <1>8 DEF Held

\* The other steps of a worker: whoever leaves a job was answered, and a job that
\* ends holds nobody.
LEMMA OtherHeld ==
    ASSUME TypeOK, LocalOK, AttachedOK, PendingHeld, NEW w \in Workers, Worker(w),
           ~PopUser(w), ~Create(w), ~StartUser(w)
    PROVE  PendingHeld'
<1>1. /\ UNCHANGED userRequests
      /\ \A r \in Requests : reply'[r] = "pending" => reply[r] = "pending"
  <2>1. CASE Deliver(w)
    BY <2>1 DEF Deliver, Answer, queues, TypeOK
  <2>2. CASE ~Deliver(w)
    BY <2>2 DEF Worker, TakeHandler, PopPre, TakeFactory, StartPre, Process, Finished, Delivered,
         Return, EnqueueChild, PostChild, Leave, CheckThreads, CheckQueue, queues, others
  <2> QED
    BY <2>1, <2>2
<1>2. \A r \in Requests, v \in Workers : \A p \in requests[v] :
        reply'[r] = "pending" /\ p[2] = r => p \in requests'[v]
  <2>1. CASE Deliver(w)
    <3>1. PICK p \in requests[w] : /\ Answer(p[2], "ok")
                                   /\ requests' = [requests EXCEPT ![w] = @ \ {p}]
      BY <2>1 DEF Deliver
    <3>2. p[2] \in Requests
      BY DEF TypeOK
    <3>3. reply'[p[2]] # "pending"
      BY <3>1, <3>2 DEF Answer, Final, TypeOK
    <3> QED
      BY <3>1, <3>3 DEF TypeOK
  <2>2. CASE Return(w)
    <3>1. requests[w] = {}
      BY <2>2 DEF Return, AttachedOK
    <3> QED
      BY <2>2, <3>1 DEF Return, TypeOK
  <2>3. CASE ~Deliver(w) /\ ~Return(w)
    BY <2>3 DEF Worker, TakeHandler, PopPre, TakeFactory, StartPre, Process, Finished, Delivered,
         EnqueueChild, PostChild, Leave, CheckThreads, CheckQueue, local
  <2> QED
    BY <2>1, <2>2, <2>3
<1>3. \A v \in Workers \ {w} : pc'[v] = pc[v] /\ req'[v] = req[v]
  <2>1. \A v \in Workers \ {w} : pc'[v] = pc[v]
    BY DEF Worker, TakeHandler, PopPre, TakeFactory, StartPre, Process, Finished, Deliver,
           Delivered, Return, EnqueueChild, PostChild, Leave, CheckThreads, CheckQueue, Goto, TypeOK
  <2>2. \A v \in Workers \ {w} : req'[v] = req[v]
    BY DEF Worker, TakeHandler, PopPre, TakeFactory, StartPre, Process, Finished, Deliver,
           Delivered, Return, EnqueueChild, PostChild, Leave, CheckThreads, CheckQueue, local, TypeOK
  <2> QED
    BY <2>1, <2>2
<1>4. InHand(w) => InHand(w)' /\ req'[w] = req[w]
  <2> SUFFICES ASSUME InHand(w) PROVE InHand(w)' /\ req'[w] = req[w]
    OBVIOUS
  <2>1. TakeFactory(w)
    BY DEF InHand, Worker, TakeHandler, PopPre, StartPre, Process, Finished, Deliver,
           Delivered, Return, EnqueueChild, PostChild, Leave, CheckThreads, CheckQueue
  <2> QED
    BY <2>1 DEF TakeFactory, Goto, InHand, TypeOK
<1>5. \A v \in Workers : InHand(v) => InHand(v)' /\ req'[v] = req[v]
  BY <1>3, <1>4 DEF InHand
<1> QED
  BY <1>1, <1>2, <1>5, HeldFrame

\* Every step keeps a place for each pending request.
LEMMA HeldStep ==
    ASSUME TypeOK, LocalOK, AttachedOK, PendingHeld, [Next]_vars
    PROVE  PendingHeld'
<1>1. ASSUME UNCHANGED <<userRequests, reply, pc, req, requests>> PROVE PendingHeld'
  BY <1>1, HeldFrame DEF InHand
<1>2. CASE UNCHANGED vars
  BY <1>1, <1>2, Frames DEF vars
<1>3. CASE (\E s \in Styles : LoadStyle(s)) \/ PostUser \/ PostRoot \/ Stop
  BY <1>1, <1>3, Frames DEF LoadStyle, PostUser, PostRoot, Stop
<1>4. ASSUME NEW w \in Workers, Worker(w) PROVE PendingHeld'
  BY <1>4, PopUserHeld, CreateHeld, StartUserHeld, OtherHeld
<1> QED
  BY <1>2, <1>3, <1>4, EnqueueHeld DEF Next, Rest

\* HolderInv has at most one place for a request, PendingHeld at least one.
LEMMA PlaceIsUnique ==
    ASSUME TypeOK, HolderInv, PendingHeld
    PROVE  OneHolder
<1> SUFFICES ASSUME NEW r \in Requests
             PROVE  IF reply[r] = "pending" THEN \E p \in Places(r) : Places(r) = {p}
                                            ELSE Places(r) = {}
  BY DEF OneHolder
<1>1. InHandOf(r) = {w \in Workers : InHand(w) /\ req[w] = r}
  BY ManagerAssumption DEF InHandOf, At, InHand
<1>2. CASE reply[r] # "pending"
  <2>1. QueuedAt(r) = {} /\ InHandOf(r) = {} /\ AttachedTo(r) = {}
    BY <1>1, <1>2, NotHeld DEF QueuedAt, AttachedTo
  <2> QED
    BY <1>2, <2>1 DEF Places
<1>3. CASE reply[r] = "pending"
  <2>1. SUFFICES \E k : Places(r) = {k}
    BY <1>3
  <2>2. CASE \E i \in DOMAIN userRequests : userRequests[i] = r
    <3>1. PICK i \in DOMAIN userRequests : userRequests[i] = r
      BY <2>2
    <3>2. QueuedAt(r) = {i}
      BY <3>1 DEF HolderInv, QueueHolds, QueuedAt
    <3>3. InHandOf(r) = {}
      BY <1>1, <3>1 DEF HolderInv, WorkerHolds
    <3>4. AttachedTo(r) = {}
      BY <3>1 DEF HolderInv, JobHolds, AttachedTo
    <3>5. Places(r) = {<<"queue", i>>}
      BY <3>2, <3>3, <3>4 DEF Places
    <3> QED
      BY <3>5
  <2>3. CASE \E w \in Workers : InHand(w) /\ req[w] = r
    <3>1. PICK w \in Workers : InHand(w) /\ req[w] = r
      BY <2>3
    <3>2. QueuedAt(r) = {}
      BY <3>1 DEF HolderInv, WorkerHolds, QueuedAt
    <3>3. InHandOf(r) = {w}
      BY <1>1, <3>1 DEF HolderInv, WorkerHolds
    <3>4. AttachedTo(r) = {}
      BY <3>1 DEF HolderInv, JobHolds, AttachedTo
    <3>5. Places(r) = {<<"worker", w>>}
      BY <3>2, <3>3, <3>4 DEF Places
    <3> QED
      BY <3>5
  <2>4. CASE \E w \in Workers : \E p \in requests[w] : p[2] = r
    <3>1. PICK w \in Workers : \E p \in requests[w] : p[2] = r
      BY <2>4
    <3>2. QueuedAt(r) = {}
      BY <3>1 DEF HolderInv, JobHolds, QueuedAt
    <3>3. InHandOf(r) = {}
      BY <1>1, <3>1 DEF HolderInv, JobHolds
    <3>4. AttachedTo(r) = {w}
      BY <3>1 DEF HolderInv, JobHolds, AttachedTo
    <3>5. Places(r) = {<<"job", w>>}
      BY <3>2, <3>3, <3>4 DEF Places
    <3> QED
      BY <3>5
  <2> QED
    BY <1>3, <2>2, <2>3, <2>4 DEF PendingHeld, Held
<1> QED
  BY <1>2, <1>3
-----------------------------------------------------------------------------
(* The end of prerendering is reported.                                    *)

\* No stylesheet was loaded at first.
LEMMA EndInit == Init => EndOK
BY DEF Init, EndOK

\* Whatever is left, somebody still goes on with it.
LEMMA EndFrame ==
    ASSUME EndOK, UNCHANGED <<loads, prerenderReported, preRenderRequests>>,
           \A w \in Workers : w \in Prerendering => w \in Prerendering',
           \A w \in Workers : pc[w] \in {"check_threads", "check_queue"} => pc'[w] = pc[w]
    PROVE  EndOK'
BY DEF EndOK, EndNear, Prerendering

\* A worker takes something to prerender, or passes it on.
LEMMA EndWorks ==
    ASSUME NEW w \in Workers, w \in Prerendering' \/ pc'[w] \in {"check_threads", "check_queue"}
    PROVE  EndOK'
<1>1. CASE w \in Prerendering'
  BY <1>1 DEF EndOK, EndNear
<1>2. CASE pc'[w] \in {"check_threads", "check_queue"}
  BY <1>2 DEF EndOK, EndNear
<1> QED
  BY <1>1, <1>2

\* A worker that finds others prerendering leaves the report to them; one that finds
\* entries in the queue leaves it to whoever takes them.
LEMMA EndStep ==
    ASSUME TypeOK, LocalOK, ThreadCount, EndOK, [Next]_vars
    PROVE  EndOK'
<1>1. ASSUME UNCHANGED <<loads, prerenderReported, preRenderRequests, pc, req>> PROVE EndOK'
  BY <1>1, EndFrame DEF Prerendering
<1>2. CASE UNCHANGED vars
  BY <1>1, <1>2, Frames DEF vars
<1>3. CASE (\E r \in Requests : Enqueue(r)) \/ PostUser \/ PostRoot \/ Stop
  BY <1>1, <1>3, Frames DEF Enqueue, PostUser, PostRoot, Stop
<1>4. ASSUME NEW s \in Styles, LoadStyle(s) PROVE EndOK'
  <2>1. preRenderRequests' # << >>
    BY <1>4 DEF LoadStyle, TypeOK
  <2> QED
    BY <2>1 DEF EndOK, EndNear
<1>5. ASSUME NEW w \in Workers, Worker(w) PROVE EndOK'
  <2>1. \A v \in Workers \ {w} : pc'[v] = pc[v] /\ req'[v] = req[v]
    <3>1. \A v \in Workers \ {w} : pc'[v] = pc[v]
      BY <1>5 DEF Worker, TakeHandler, PopUser, Create, PopPre, TakeFactory, StartUser, StartPre,
           Process, Finished, Deliver, Delivered, Return, EnqueueChild, PostChild, Leave,
           CheckThreads, CheckQueue, Goto, TypeOK
    <3>2. \A v \in Workers \ {w} : req'[v] = req[v]
      BY <1>5 DEF Worker, TakeHandler, PopUser, Create, PopPre, TakeFactory, StartUser, StartPre,
           Process, Finished, Deliver, Delivered, Return, EnqueueChild, PostChild, Leave,
           CheckThreads, CheckQueue, local, TypeOK
    <3> QED
      BY <3>1, <3>2
  <2>2. loads' = loads
    BY <1>5 DEF Worker, TakeHandler, PopUser, Create, PopPre, TakeFactory, StartUser, StartPre,
         Process, Finished, Deliver, Delivered, Return, EnqueueChild, PostChild, Leave,
         CheckThreads, CheckQueue, others
  <2>3. CASE PopPre(w)
    <3>1. pc[w] = "pre" /\ req[w] = NoRequest /\ UNCHANGED <<req, prerenderReported>>
      BY <2>3 DEF PopPre, LocalOK
    <3>2. CASE preRenderRequests = << >>
      BY <2>1, <2>2, <2>3, <3>1, <3>2, EndFrame DEF PopPre, Prerendering
    <3>3. CASE preRenderRequests # << >>
      <4>1. w \in Prerendering'
        BY <2>3, <3>1, <3>3 DEF PopPre, Goto, Prerendering, TypeOK
      <4> QED
        BY <4>1, EndWorks
    <3> QED
      BY <3>2, <3>3
  <2>4. CASE Return(w) \/ EnqueueChild(w) \/ PostChild(w) \/ Leave(w)
    <3>1. CASE Return(w) /\ req[w] # NoRequest
      <4>1. /\ pc[w] = "return" /\ w \notin Prerendering
            /\ UNCHANGED <<prerenderReported, preRenderRequests>>
        BY <3>1 DEF Return, Prerendering, queues
      <4> QED
        BY <2>1, <2>2, <4>1, EndFrame DEF Prerendering
    <3>2. CASE ~(Return(w) /\ req[w] # NoRequest)
      <4>1. pc'[w] \in {"sub", "post", "check_threads"}
        BY <2>4, <3>2 DEF Return, EnqueueChild, PostChild, Leave, Goto, TypeOK
      <4> QED
        BY <4>1, EndWorks DEF Prerendering
    <3> QED
      BY <3>1, <3>2
  <2>5. CASE CheckThreads(w)
    <3>1. UNCHANGED <<loads, prerenderReported, preRenderRequests, req>>
      BY <2>5, Frames DEF CheckThreads
    <3>2. CASE currentPrerenderingThreads = 0
      <4>1. pc'[w] = "check_queue"
        BY <2>5, <3>2 DEF CheckThreads, Goto, TypeOK
      <4> QED
        BY <4>1, EndWorks
    <3>3. CASE currentPrerenderingThreads # 0
      <4>1. Prerendering # {}
        BY <3>3, FS_EmptySet DEF ThreadCount
      <4>2. PICK v \in Prerendering : TRUE
        BY <4>1
      <4>3. v \in Workers /\ v # w /\ v \in Prerendering'
        BY <2>1, <2>5, <4>2 DEF CheckThreads, Prerendering
      <4> QED
        BY <4>3, EndWorks
    <3> QED
      BY <3>2, <3>3
  <2>6. CASE CheckQueue(w)
    <3>1. prerenderReported' \/ preRenderRequests' # << >>
      BY <2>6, Frames DEF CheckQueue
    <3> QED
      BY <3>1 DEF EndOK, EndNear
  <2>7. CASE TakeHandler(w) \/ PopUser(w) \/ Create(w) \/ TakeFactory(w) \/ StartUser(w)
             \/ StartPre(w) \/ Process(w) \/ Finished(w) \/ Deliver(w) \/ Delivered(w)
    <3>1. UNCHANGED <<prerenderReported, preRenderRequests>>
          /\ pc[w] \notin {"check_threads", "check_queue"}
      BY <2>7 DEF TakeHandler, PopUser, Create, TakeFactory, StartUser, StartPre, Process,
         Finished, Deliver, Delivered, queues, shared
    <3>2. w \in Prerendering => w \in Prerendering'
      <4> SUFFICES ASSUME w \in Prerendering PROVE w \in Prerendering'
        OBVIOUS
      <4>1. /\ pc[w] \in {"factory", "start", "process", "finished", "deliver"}
            /\ req[w] = NoRequest
        BY <2>7 DEF Prerendering, TakeHandler, PopUser, Create, TakeFactory, StartUser, StartPre,
           Process, Finished, Deliver, Delivered
      <4>2. req'[w] = req[w] /\ pc'[w] \in {"start", "process", "finished", "deliver", "return"}
        BY <2>7, <4>1 DEF TakeHandler, PopUser, Create, TakeFactory, StartUser, StartPre,
           Process, Finished, Deliver, Delivered, Goto, local, TypeOK
      <4> QED
        BY <4>1, <4>2 DEF Prerendering
    <3> QED
      BY <2>1, <2>2, <3>1, <3>2, EndFrame DEF Prerendering
  <2> QED
    BY <1>5, <2>3, <2>4, <2>5, <2>6, <2>7 DEF Worker
<1> QED
  BY <1>2, <1>3, <1>4, <1>5 DEF Next, Rest

\* When everybody rests the queues are empty, since there is a handler for every entry.
LEMMA RestReported ==
    ASSUME TypeOK, NoIdleHandler, EndOK
    PROVE  EndIsReported
<1> SUFFICES ASSUME Quiescent, ~stopped, \E s \in Styles : loads[s] > 0
             PROVE  prerenderReported
  BY DEF EndIsReported
<1>1. posted = 0 /\ http = NoRequest /\ ssm = FALSE /\ \A w \in Workers : pc[w] = "idle"
  BY DEF Quiescent, TypeOK
<1>2. At({"post"}) = {} /\ At({"user", "pre"}) = {} /\ Prerendering = {}
  BY <1>1 DEF At, Prerendering
<1>3. Len(userRequests) + Len(preRenderRequests) = 0
  <2>1. Cardinality(At({"post"})) = 0 /\ Cardinality(At({"user", "pre"})) = 0
    BY <1>2, FS_EmptySet
  <2>2. Unposted = 0
    BY <1>1, <2>1 DEF Unposted
  <2>3. posted + Unposted + Cardinality(At({"user", "pre"}))
          = Len(userRequests) + Len(preRenderRequests)
    BY DEF NoIdleHandler
  <2> QED
    BY <1>1, <2>1, <2>2, <2>3
<1>4. preRenderRequests = << >>
  <2>1. Len(userRequests) \in Nat /\ Len(preRenderRequests) \in Nat
        /\ preRenderRequests \in Seq(MetaIds)
    BY DEF TypeOK
  <2>2. Len(preRenderRequests) = 0
    BY <1>3, <2>1
  <2> QED
    BY <2>1, <2>2
<1> QED
  BY <1>1, <1>2, <1>4 DEF EndOK, EndNear
-----------------------------------------------------------------------------
(* The theorems.                                                           *)

\* "Prerendering finished" is reported, for any number of workers and stylesheets,
\* however the workers' unlocked reads of the counter and the queue interleave.
THEOREM ReportsEnd == Spec => []EndIsReported
<1>1. IInv /\ EndOK /\ [Next]_vars => EndOK'
  BY EndStep DEF IInv
<1>2. IInv /\ EndOK => EndIsReported
  BY RestReported DEF IInv
<1> QED
  BY <1>1, <1>2, EndInit, Invariance, PTL DEF Spec

\* If urls name tiles of the map, a user request joins the job that renders its area:
\* a second job for that area is a prerendering job.
THEOREM RequestsJoin ==
    ASSUME InWorld
    PROVE  Spec => []UserJobsJoin
<1>1. IInv /\ ListInv /\ [Next]_vars => ListInv'
  BY ListStep DEF IInv
<1>2. ListInv => UserJobsJoin
  BY DEF ListInv
<1> QED
  BY <1>1, <1>2, ListInit, Invariance, PTL DEF Spec

\* With one image format, a job that is done has answered whoever joined it.
THEOREM JobsAnswerAll ==
    ASSUME InWorld, OneFormat
    PROVE  Spec => []DeliverAnswersAll
<1>1. IInv /\ ListInv /\ AttachedOK /\ [Next]_vars => ListInv' /\ AttachedOK'
  BY ListStep, AttachedStep DEF IInv
<1>2. AttachedOK => DeliverAnswersAll
  BY DEF AttachedOK, DeliverAnswersAll, At
<1> QED
  BY <1>1, <1>2, ListInit, AttachedInit, Invariance, PTL DEF Spec

\* With one image format, an accepted request is in exactly one place until it is
\* answered, and in none afterwards: nobody forgets it and nobody answers it twice.
THEOREM RequestsAreKept ==
    ASSUME InWorld, OneFormat
    PROVE  Spec => []OneHolder
<1> DEFINE Inv == ListInv /\ AttachedOK /\ HolderInv /\ PendingHeld
<1>1. Init => Inv
  BY ListInit, AttachedInit, HolderInit, HeldInit
<1>2. IInv /\ Inv /\ [Next]_vars => Inv'
  BY ListStep, AttachedStep, HolderStep, HeldStep DEF IInv
<1>3. IInv /\ Inv => OneHolder
  BY PlaceIsUnique DEF IInv
<1> HIDE DEF Inv
<1> QED
  BY <1>1, <1>2, <1>3, Invariance, PTL DEF Spec
=============================================================================
