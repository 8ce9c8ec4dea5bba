--------------------------- MODULE ActorRings_proofs ---------------------------
(***************************************************************************)
(* Theorems about ActorRings, for every number of actors and cores, every  *)
(* acyclic handle graph, placement and mailbox capacity of an image that   *)
(* satisfies RingsHoldOne.                                                 *)
(*                                                                         *)
(* A core that has loaded a count to push found the ring empty, one that   *)
(* has loaded it to pop found a message in it, and only one core pops from *)
(* a ring and one pushes to it: so no two cores change one count at a time,*)
(* every store is of the count loaded, and the count stays exact.  That a  *)
(* reply ring is empty when a reply is about to be pushed is PostInv: the  *)
(* reply in it and the call being answered would both be what the one turn *)
(* that awaits over this pair of cores waits for.  Exact counts make every *)
(* step one of ActorRuntime's, or a load.                                  *)
(***************************************************************************)
EXTENDS ActorRings, ActorCalls_proofs

\* The core that pops from an edge.
Receiver(r) == IF r[1] = "req" THEN place[r[2][2]] ELSE r[2][2]

\* The types of what ActorRings adds.
RingTypes ==
    /\ count \in [Rings -> Nat]
    /\ changes \in [Cores -> SUBSET Rings]
    /\ seen \in [Cores -> Nat]

\* A drain visits its own core's edges only.
LanesIn == \A c \in Cores : lanes[c] \subseteq Lanes(c)

\* What core c has loaded is still so, and what it found is still there.
Access(c) ==
    \A r \in changes[c] :
        /\ seen[c] = count[r]
        /\ IF r[2][1] = c THEN Queue(r) = <<>> ELSE Queue(r) # <<>> /\ Receiver(r) = c

RingInv == PostInv /\ LanesIn /\ RingTypes /\ CountsExact /\ \A c \in Cores : Access(c)
-----------------------------------------------------------------------------
(* Edges.                                                                  *)

(* The queues are sequences.                                               *)
LEMMA QueueTypes ==
    ASSUME Types
    PROVE  /\ \A r \in Rings : Queue(r) \in Seq(Message)
           /\ \A e \in Edges : <<"req", e>> \in Rings /\ Queue(<<"req", e>>) = req[e]
           /\ \A e \in Cores \X Cores : <<"rep", e>> \in Rings /\ Queue(<<"rep", e>>) = rep[e]
BY DEF Types, QueueType, Rings, Queue

(* A reply ring is empty while a reply is about to be pushed to it.         *)
LEMMA ReplyRingEmpty ==
    ASSUME RingsHoldOne, PostInv, NEW c \in Cores, pc[c] = "run", run[c] # Test,
           turn[run[c]].cur.call, turn[run[c]].cur.remote
    PROVE  rep[<<c, place[turn[run[c]].cur.from]>>] = <<>>
<1> DEFINE t == run[c]
           m == turn[t].cur
           d == place[m.from]
           b == <<"turn", t>>
           e == <<"rep", <<c, d>>>>
<1>0. Types /\ Letters /\ Flow
  BY DEF PostInv
<1>1. t \in Actors /\ place[t] = c /\ turn[t].busy
  BY <1>0, Constants DEF Types, CoreType, Flow
<1>2. b \in Boxes /\ box[b] = <<m>> /\ m \in Held(box, b)
  <2>1. b \in Boxes /\ box[b] = <<m>>
    BY <1>0, <1>1, BoxAt
  <2> HIDE DEF b, m
  <2> QED BY <2>1 DEF Held
<1>3. /\ KnownMessage(m) /\ m.from \in Turns /\ t \in Awaits[m.from]
      /\ place[m.from] # place[t]
  <2>1. KnownMessage(m) /\ Routed(b, m) /\ m.from \in Turns
    BY <1>0, <1>2, LettersKnown
  <2> QED BY <2>1 DEF Routed
<1>4. place \in Placements /\ d \in Cores
  BY <1>0, <1>3, Constants DEF Types, CoreType
<1>5. SUFFICES ASSUME rep[<<c, d>>] # <<>> PROVE FALSE
  OBVIOUS
<1>6. e \in Boxes /\ box[e] = rep[<<c, d>>]
  BY <1>0, <1>4, BoxAt
<1> DEFINE x == Head(box[e])
<1>7. x \in Held(box, e)
  BY <1>0, <1>5, <1>6, BoxTypes, HeldTypes
<1>8. KnownMessage(x) /\ Routed(e, x) /\ x.from \in Turns
  BY <1>0, <1>6, <1>7, LettersKnown
<1>9. /\ x.call /\ place[x.from] = d
      /\ \E a \in Awaits[x.from] : place[a] = c
  BY <1>8 DEF Routed
<1>10. x.from = m.from
  <2> HIDE DEF x, m, t, e, b
  <2> QED BY <1>1, <1>3, <1>4, <1>8, <1>9 DEF RingsHoldOne, d
<1>11. x.id = m.id
  BY <1>3, <1>8, <1>9, <1>10 DEF KnownMessage
<1>12. x.id # m.id
  <2>1. b # e
    OBVIOUS
  <2> HIDE DEF b, e, x, m
  <2> QED BY <1>0, <1>2, <1>6, <1>7, <2>1, HeldOnce, LettersKnown
<1> QED BY <1>11, <1>12
-----------------------------------------------------------------------------
(* Steps.                                                                  *)

(* The placement is sealed, and a drain's edges stay its core's.           *)
LEMMA LanesNext ==
    ASSUME Types, LanesIn, [Next]_vars
    PROVE  LanesIn' /\ place' = place
<1> USE DEF msgVars, coreVars, histVars
<1>0. lanes \in [Cores -> SUBSET AllLanes]
  BY DEF Types, CoreType
<1>1. CASE UNCHANGED vars
  BY <1>1 DEF vars, LanesIn, Lanes, Core
<1>2. ASSUME NEW c \in Cores, CoreStep(c)
      PROVE  /\ place' = place
             /\ \/ lanes' = lanes
                \/ lanes' = [lanes EXCEPT ![c] = Lanes(c)]
                \/ \E L \in SUBSET lanes[c] : lanes' = [lanes EXCEPT ![c] = L]
  <2>1. CASE Body(c)
    BY <2>1 DEF Body, Complete, NotAdmitted, Send, Call
  <2>2. CASE c = 0 /\ (BackEdge \/ TestPasses \/ ScanIdle \/ ScanPending)
    BY <2>2 DEF BackEdge, TestPasses, ScanIdle, ScanPending
  <2>3. CASE \/ LoopTop(c) \/ Checkpoint(c) \/ NothingRan(c) \/ GoIdle(c) \/ Park(c) \/ Wake(c)
             \/ DrainEnd(c) \/ \E a \in Actors : Select(c, a)
    BY <2>3 DEF LoopTop, Checkpoint, NothingRan, GoIdle, Park, Wake, DrainEnd, Select
  <2>4. CASE DrainStart(c)
    BY <2>4 DEF DrainStart
  <2>5. ASSUME NEW l \in lanes[c], NextLane(c, l) \/ DrainReply(c, l) \/ DrainRequest(c, l)
        PROVE  /\ place' = place
               /\ \/ lanes' = lanes
                  \/ lanes' = [lanes EXCEPT ![c] = @ \ {l}]
                  \/ lanes' = [lanes EXCEPT ![c] = {}]
    BY <2>5 DEF NextLane, DrainReply, DrainRequest
  <2>6. CASE \E l \in lanes[c] : NextLane(c, l) \/ DrainReply(c, l) \/ DrainRequest(c, l)
    <3> PICK l \in lanes[c] : NextLane(c, l) \/ DrainReply(c, l) \/ DrainRequest(c, l)
      BY <2>6
    <3>1. lanes[c] \ {l} \in SUBSET lanes[c] /\ {} \in SUBSET lanes[c]
      OBVIOUS
    <3> QED BY <2>5, <3>1
  <2> QED BY <1>2, <2>1, <2>2, <2>3, <2>4, <2>6 DEF CoreStep, Executor, Drain
<1>3. ASSUME NEW c \in Cores, CoreStep(c) PROVE LanesIn' /\ place' = place
  <2>1. place' = place /\ \A d \in Cores : Lanes(d)' = Lanes(d)
    BY <1>2, <1>3 DEF Lanes, Core
  <2>2. \A d \in Cores : lanes'[d] \subseteq lanes[d] \/ lanes'[d] = Lanes(d)
    <3>1. CASE lanes' = lanes \/ lanes' = [lanes EXCEPT ![c] = Lanes(c)]
      BY <1>0, <3>1
    <3>2. CASE \E L \in SUBSET lanes[c] : lanes' = [lanes EXCEPT ![c] = L]
      BY <1>0, <3>2
    <3> QED BY <1>2, <1>3, <3>1, <3>2
  <2> QED BY <2>1, <2>2 DEF LanesIn
<1> QED BY <1>1, <1>3 DEF Next, Stopped

(* What a step of core c does to an edge: it appends to one of its own, or *)
(* takes the first message of one that leads to it.                        *)
LEMMA StepChanges ==
    ASSUME PostInv, LanesIn, NEW c \in Cores, CoreStep(c),
           NEW r \in Rings, Queue(r)' # Queue(r)
    PROVE  IF r[2][1] = c THEN \E m \in Message : Queue(r)' = Append(Queue(r), m)
           ELSE Queue(r) # <<>> /\ Queue(r)' = Tail(Queue(r))
<1> USE DEF msgVars, coreVars, histVars
<1>0. /\ Types /\ Flow /\ Letters
      /\ req \in [Edges -> Seq(Message)] /\ rep \in [Cores \X Cores -> Seq(Message)]
      /\ place \in [Turns -> Cores]
  BY Constants DEF PostInv, Types, QueueType, CoreType
<1>1. ~ UNCHANGED <<req, rep>>
  BY DEF Queue
<1>2. ASSUME NEW a \in Actors, NEW m \in Message, Enqueue(c, a, m), UNCHANGED rep
      PROVE  r[2][1] = c /\ Queue(r)' = Append(Queue(r), m)
  <2>1. req' = [req EXCEPT ![<<c, a>>] = Append(@, m)]
    BY <1>1, <1>2 DEF Enqueue
  <2>2. r = <<"req", <<c, a>>>>
    BY <1>0, <1>2, <2>1 DEF Queue, Rings
  <2>3. <<c, a>> \in Edges
    BY DEF Edges
  <2> QED BY <1>0, <2>1, <2>2, <2>3 DEF Queue
<1>3. CASE \E a \in Actors : Send(c, a) \/ Call(c, a)
  <2> PICK a \in Actors : Send(c, a) \/ Call(c, a)
    BY <1>3
  <2>1. Attempt(c, a) /\ UNCHANGED rep
    BY DEF Send, Call
  <2>2. \E m \in Message : Enqueue(c, a, m)
    BY <2>1, <1>0, NewMessage DEF Send, Call
  <2> QED BY <1>2, <2>1, <2>2
<1>4. CASE Complete(c)
  <2> DEFINE m == turn[run[c]].cur
             e == <<c, place[m.from]>>
  <2>1. run[c] \in Turns
    BY <1>0, <1>4 DEF Complete, Types, CoreType
  <2>2. m \in Message /\ e \in Cores \X Cores
    <3>1. m \in Message
      BY <1>0, <2>1 DEF Types, TurnType, TurnRecords
    <3> QED BY <1>0, <3>1 DEF Message
  <2>3. rep' = [rep EXCEPT ![e] = Append(@, m)] /\ UNCHANGED req
    BY <1>1, <1>4 DEF Complete, Deliver
  <2> HIDE DEF m
  <2>4. r = <<"rep", e>>
    BY <1>0, <2>2, <2>3 DEF Queue, Rings
  <2> QED BY <1>0, <2>2, <2>3, <2>4 DEF Queue
<1>5. ASSUME NEW l \in lanes[c], DrainReply(c, l)
      PROVE  r[2][1] # c /\ Queue(r) # <<>> /\ Queue(r)' = Tail(Queue(r))
  <2> DEFINE e == <<l[2], c>>
  <2>1. l \in Lanes(c) /\ l[1] = "rep"
    BY <1>5 DEF LanesIn, DrainReply
  <2>2. l[2] \in Cores /\ l[2] # c
    BY <2>1 DEF Lanes
  <2>3. /\ rep' = [rep EXCEPT ![e] = Tail(@)] /\ UNCHANGED req /\ rep[e] # <<>>
    BY <1>5, <2>1 DEF DrainReply, LaneEmpty
  <2>4. r = <<"rep", e>>
    BY <1>0, <2>2, <2>3 DEF Queue, Rings
  <2> QED BY <1>0, <2>2, <2>3, <2>4 DEF Queue
<1>6. ASSUME NEW l \in lanes[c], DrainRequest(c, l)
      PROVE  r[2][1] # c /\ Queue(r) # <<>> /\ Queue(r)' = Tail(Queue(r))
  <2> DEFINE e == <<l[2], l[3]>>
  <2>1. l \in Lanes(c) /\ l[1] = "req"
    BY <1>6 DEF LanesIn, DrainRequest
  <2>2. e \in Edges /\ l[2] # c
    BY <2>1 DEF Lanes, Edges
  <2>3. req' = [req EXCEPT ![e] = Tail(@)] /\ UNCHANGED rep /\ req[e] # <<>>
    <3>1. UNCHANGED rep /\ req[e] # <<>>
      BY <1>6, <2>1 DEF DrainRequest, LaneEmpty
    <3>2. ~ UNCHANGED req
      BY <1>1, <3>1
    <3> QED BY <1>6, <3>1, <3>2 DEF DrainRequest
  <2>5. e[1] = l[2]
    OBVIOUS
  <2> HIDE DEF e
  <2>4. r = <<"req", e>>
    <3>1. r[1] = "req"
      BY <2>3 DEF Queue
    <3>2. r[2] \in Edges /\ r = <<"req", r[2]>>
      BY <3>1 DEF Rings
    <3>3. req'[r[2]] # req[r[2]]
      BY <3>1 DEF Queue
    <3> QED BY <1>0, <2>2, <2>3, <3>2, <3>3
  <2> QED BY <1>0, <2>2, <2>3, <2>4, <2>5 DEF Queue
<1>7. \/ \E a \in Actors : Send(c, a) \/ Call(c, a)
      \/ Complete(c)
      \/ \E l \in lanes[c] : DrainReply(c, l) \/ DrainRequest(c, l)
  <2>1. ASSUME NEW a \in Actors PROVE ~ NotAdmitted(c, a) /\ ~ Select(c, a)
    BY <1>1 DEF NotAdmitted, Select
  <2>2. ~ (BackEdge \/ TestPasses \/ ScanIdle \/ ScanPending)
    BY <1>1 DEF BackEdge, TestPasses, ScanIdle, ScanPending
  <2>3. ~ (\/ LoopTop(c) \/ Checkpoint(c) \/ NothingRan(c) \/ GoIdle(c) \/ Park(c) \/ Wake(c)
           \/ DrainEnd(c) \/ DrainStart(c))
    BY <1>1 DEF LoopTop, Checkpoint, NothingRan, GoIdle, Park, Wake, DrainEnd, DrainStart
  <2>4. ASSUME NEW l \in lanes[c] PROVE ~ NextLane(c, l)
    BY <1>1 DEF NextLane
  <2> QED BY <2>1, <2>2, <2>3, <2>4 DEF CoreStep, Body, Executor, Drain
<1> QED BY <1>3, <1>4, <1>5, <1>6, <1>7
-----------------------------------------------------------------------------
(* The counts.                                                             *)

(* Nothing has been loaded at the start.                                   *)
LEMMA RingsStart == RingsInit => RingInv
<1> SUFFICES ASSUME RingsInit PROVE RingInv
  OBVIOUS
<1>1. PostInv
  BY PostInit DEF RingsInit
<1>2. LanesIn
  BY DEF RingsInit, Init, LanesIn
<1>3. RingTypes /\ \A c \in Cores : Access(c)
  BY DEF RingsInit, RingTypes, Access
<1>4. CountsExact
  <2>1. \A r \in Rings : Queue(r) = <<>>
    BY DEF RingsInit, Init, Rings, Queue
  <2> QED BY <2>1 DEF RingsInit, CountsExact
<1> QED BY <1>1, <1>2, <1>3, <1>4 DEF RingInv

(* A load finds an empty ring to push to, or a message to pop.             *)
LEMMA LoadKeeps ==
    ASSUME RingsHoldOne, RingInv, NEW c \in Cores, NEW r \in Rings, Load(c, r)
    PROVE  RingInv'
<1>0. /\ PostInv /\ LanesIn /\ RingTypes /\ CountsExact /\ Types /\ Flow
      /\ place \in Placements /\ place \in [Turns -> Cores]
  BY Constants DEF RingInv, PostInv, Types, CoreType
<1>1. /\ UNCHANGED <<vars, count>>
      /\ changes' = [changes EXCEPT ![c] = {r}] /\ seen' = [seen EXCEPT ![c] = count[r]]
  BY DEF Load
<1>2. PostInv' /\ LanesIn' /\ CountsExact'
  <2>1. PostInv'
    BY <1>0, <1>1, PostNext
  <2>2. LanesIn'
    BY <1>0, <1>1, LanesNext
  <2> QED BY <1>0, <1>1, <2>1, <2>2
       DEF CountsExact, Queue, vars, msgVars
<1>3. RingTypes'
  BY <1>0, <1>1 DEF RingTypes
<1>4. count[r] = Len(Queue(r)) /\ Queue(r) \in Seq(Message) /\ Len(Queue(r)) \in Nat
  BY <1>0, QueueTypes DEF CountsExact
<1>5. ASSUME Pushes(c, r), count[r] < RingCapacity(r)
      PROVE  IF r[2][1] = c THEN Queue(r) = <<>> ELSE Queue(r) # <<>> /\ Receiver(r) = c
  <2>1. ASSUME NEW a \in Calls[run[c]], place[a] # c, r = <<"req", <<c, a>>>>, pc[c] = "run"
        PROVE  Queue(r) = <<>>
    <3>1. run[c] \in Turns /\ place[run[c]] = c /\ a \in Calls[run[c]]
      BY <1>0, <2>1 DEF Types, CoreType, Flow
    <3>2. MailboxCap[a] = 1
      BY <1>0, <2>1, <3>1 DEF RingsHoldOne
    <3>3. count[r] < 1
      BY <1>5, <2>1, <3>2 DEF RingCapacity
    <3> QED BY <1>4, <3>3
  <2>2. ASSUME run[c] # Test, pc[c] = "run", turn[run[c]].cur.call, turn[run[c]].cur.remote,
               r = <<"rep", <<c, place[turn[run[c]].cur.from]>>>>
        PROVE  Queue(r) = <<>>
    BY <1>0, <2>2, ReplyRingEmpty DEF Queue
  <2>3. Queue(r) = <<>> /\ r[2][1] = c
    BY <1>5, <2>1, <2>2 DEF Pushes
  <2> QED BY <2>3
<1>6. ASSUME Pops(c, r), count[r] # 0
      PROVE  IF r[2][1] = c THEN Queue(r) = <<>> ELSE Queue(r) # <<>> /\ Receiver(r) = c
  <2>1. Queue(r) # <<>>
    BY <1>4, <1>6
  <2>2. PICK l \in lanes[c] :
            IF l[1] = "rep" THEN r = <<"rep", <<l[2], c>>>> ELSE r = <<"req", <<l[2], l[3]>>>>
    BY <1>6 DEF Pops
  <2>3. l \in Lanes(c)
    BY <1>0 DEF LanesIn
  <2>4. CASE l[1] = "rep"
    BY <2>1, <2>2, <2>3, <2>4 DEF Lanes, Receiver
  <2>5. CASE l[1] # "rep"
    BY <2>1, <2>2, <2>3, <2>5 DEF Lanes, Receiver
  <2> QED BY <2>4, <2>5
<1>7. IF r[2][1] = c THEN Queue(r) = <<>> ELSE Queue(r) # <<>> /\ Receiver(r) = c
  BY <1>5, <1>6 DEF Load
<1>8. ASSUME NEW d \in Cores PROVE Access(d)'
  <2>1. \A q : Queue(q)' = Queue(q) /\ Receiver(q)' = Receiver(q)
    BY <1>1 DEF Queue, Receiver, vars, msgVars
  <2>2. CASE d = c
    <3>1. seen'[c] = count[r] /\ changes'[c] = {r} /\ count' = count
      BY <1>0, <1>1 DEF RingTypes
    <3> QED BY <1>7, <2>1, <2>2, <3>1 DEF Access
  <2>3. CASE d # c
    <3>1. seen'[d] = seen[d] /\ changes'[d] = changes[d] /\ count' = count /\ Access(d)
      BY <1>0, <1>1, <2>3 DEF RingTypes, RingInv
    <3> QED BY <2>1, <3>1 DEF Access
  <2> QED BY <2>2, <2>3
<1> QED BY <1>2, <1>3, <1>8 DEF RingInv

(* A store is of the count as it is, and changes it as the queue changes.  *)
LEMMA StoreKeeps ==
    ASSUME RingInv, NEW c \in Cores, Store(c)
    PROVE  RingInv'
<1>0. /\ PostInv /\ LanesIn /\ RingTypes /\ CountsExact /\ Types /\ Types'
      /\ CoreStep(c) /\ place' = place /\ PostInv' /\ LanesIn'
  <2>1. PostInv /\ LanesIn /\ RingTypes /\ CountsExact /\ CoreStep(c)
    BY DEF RingInv, Store
  <2>2. [Next]_vars
    BY <2>1 DEF Next
  <2>3. PostInv'
    BY <2>1, <2>2, PostNext
  <2>4. Types /\ Types'
    BY <2>1, <2>3 DEF PostInv
  <2> QED BY <2>1, <2>2, <2>3, <2>4, LanesNext
<1>1. PICK r \in changes[c] :
          /\ \A q \in Rings : Queue(q)' # Queue(q) <=> q = r
          /\ count' = [count EXCEPT ![r] = Stored(c, r)]
          /\ changes' = [changes EXCEPT ![c] = {}] /\ seen' = seen
  BY DEF Store
<1>2. /\ r \in Rings /\ Access(c) /\ seen[c] = count[r] /\ count[r] = Len(Queue(r))
      /\ Queue(r) \in Seq(Message)
  BY <1>0, <1>1, QueueTypes DEF RingTypes, RingInv, Access, CountsExact
<1>3. IF r[2][1] = c THEN \E m \in Message : Queue(r)' = Append(Queue(r), m)
      ELSE Queue(r) # <<>> /\ Queue(r)' = Tail(Queue(r))
  BY <1>0, <1>1, <1>2, StepChanges
<1>4. Stored(c, r) = Len(Queue(r)') /\ Stored(c, r) \in Nat
  <2>1. CASE r[2][1] = c
    <3>1. PICK m \in Message : Queue(r)' = Append(Queue(r), m)
      BY <1>3, <2>1
    <3> QED BY <1>2, <2>1, <3>1 DEF Stored
  <2>2. CASE r[2][1] # c
    <3>1. Queue(r) # <<>> /\ Queue(r)' = Tail(Queue(r))
      BY <1>3, <2>2
    <3>2. Len(Tail(Queue(r))) = Len(Queue(r)) - 1 /\ Len(Queue(r)) \in Nat \ {0}
      BY <1>2, <3>1
    <3> QED BY <1>2, <2>2, <3>1, <3>2 DEF Stored
  <2> QED BY <2>1, <2>2
<1>5. RingTypes'
  BY <1>0, <1>1, <1>4 DEF RingTypes
<1>6. CountsExact'
  <2> SUFFICES ASSUME NEW q \in Rings PROVE count'[q] = Len(Queue(q)')
    BY DEF CountsExact
  <2>1. CASE q = r
    BY <1>0, <1>1, <1>4, <2>1 DEF RingTypes
  <2>2. CASE q # r
    <3>1. Queue(q)' = Queue(q) /\ count'[q] = count[q]
      BY <1>0, <1>1, <2>2 DEF RingTypes
    <3> QED BY <1>0, <3>1 DEF CountsExact
  <2> QED BY <2>1, <2>2
<1>7. ASSUME NEW d \in Cores PROVE Access(d)'
  <2>1. CASE d = c
    <3>1. changes'[c] = {}
      BY <1>0, <1>1 DEF RingTypes
    <3> QED BY <2>1, <3>1 DEF Access
  <2>2. CASE d # c
    <3>1. changes'[d] = changes[d] /\ seen'[d] = seen[d] /\ changes[d] \subseteq Rings
      BY <1>0, <1>1, <2>2 DEF RingTypes
    <3>2. ASSUME NEW q \in changes[d]
          PROVE  /\ seen'[d] = count'[q]
                 /\ IF q[2][1] = d THEN Queue(q)' = <<>>
                    ELSE Queue(q)' # <<>> /\ Receiver(q)' = d
      <4>1. /\ seen[d] = count[q] /\ q \in Rings
            /\ IF q[2][1] = d THEN Queue(q) = <<>> ELSE Queue(q) # <<>> /\ Receiver(q) = d
        BY <3>1, <3>2 DEF RingInv, Access
      <4>2. q # r
        <5>1. IF r[2][1] = c THEN Queue(r) = <<>> ELSE Queue(r) # <<>> /\ Receiver(r) = c
          BY <1>1, <1>2 DEF Access
        <5> QED BY <2>2, <4>1, <5>1
      <4>3. Queue(q)' = Queue(q) /\ count'[q] = count[q] /\ Receiver(q)' = Receiver(q)
        BY <1>0, <1>1, <4>1, <4>2 DEF RingTypes, Receiver
      <4> QED BY <3>1, <4>1, <4>3
    <3> QED BY <3>1, <3>2 DEF Access
  <2> QED BY <2>1, <2>2
<1> QED BY <1>0, <1>5, <1>6, <1>7 DEF RingInv

(* A step that leaves the rings alone leaves the accesses alone.           *)
LEMMA OtherKeeps ==
    ASSUME RingInv, [Next]_vars, UNCHANGED <<req, rep, count, changes, seen>>
    PROVE  RingInv'
<1>1. PostInv' /\ LanesIn' /\ place' = place
  BY PostNext, LanesNext DEF RingInv, PostInv
<1>2. \A q : Queue(q)' = Queue(q) /\ Receiver(q)' = Receiver(q)
  BY <1>1 DEF Queue, Receiver
<1>3. CountsExact' /\ RingTypes' /\ \A c \in Cores : Access(c)'
  BY <1>2 DEF RingInv, CountsExact, RingTypes, Access
<1> QED BY <1>1, <1>3 DEF RingInv

(* While the counts are exact, every step is a load or one of ActorRuntime.  *)
LEMMA RingsKeep ==
    RingsHoldOne /\ RingInv /\ [RingsNext]_ringVars => RingInv' /\ [Next]_vars
<1> SUFFICES ASSUME RingsHoldOne, RingInv, [RingsNext]_ringVars
             PROVE  RingInv' /\ [Next]_vars
  OBVIOUS
<1>1. ASSUME UNCHANGED ringVars PROVE RingInv' /\ [Next]_vars
  <2>1. UNCHANGED vars /\ UNCHANGED <<req, rep, count, changes, seen>>
    BY <1>1 DEF ringVars, vars, msgVars
  <2> QED BY <2>1, OtherKeeps
<1>2. ASSUME NEW c \in Cores, Store(c) PROVE RingInv' /\ [Next]_vars
  BY <1>2, StoreKeeps DEF Store, Next
<1>3. ASSUME NEW c \in Cores, Elsewhere(c) PROVE RingInv' /\ [Next]_vars
  <2>1. [Next]_vars
    BY <1>3 DEF Elsewhere, Next
  <2> QED BY <1>3, <2>1, OtherKeeps DEF Elsewhere
<1>4. ASSUME NEW c \in Cores, NEW r \in Rings, Load(c, r) PROVE RingInv' /\ [Next]_vars
  BY <1>4, LoadKeeps DEF Load
<1>5. (\E c \in Cores : RingStep(c)) \/ UNCHANGED ringVars
  BY DEF RingsNext, RingInv
<1> QED BY <1>1, <1>2, <1>3, <1>4, <1>5 DEF RingStep
-----------------------------------------------------------------------------
(* The theorems.                                                           *)

(* CountsExact: in an image whose rings hold one, the plain load and store  *)
(* that xsend, xreply and drain change an edge's count with lose no update: *)
(* the count is always the number of messages in the ring.                 *)
THEOREM CountsStayExact ==
    ASSUME RingsHoldOne PROVE RingsSpec => []CountsExact
<1>1. RingInv => CountsExact
  BY DEF RingInv
<1> QED BY <1>1, RingsStart, RingsKeep, PTL DEF RingsSpec

(* Every step is then one that ActorRuntime takes with the whole ring      *)
(* operation, or the load before it.                                       *)
THEOREM RingsRefineRuntime ==
    ASSUME RingsHoldOne PROVE RingsSpec => SafetySpec
<1>1. RingsInit => Init
  BY DEF RingsInit
<1> QED BY <1>1, RingsStart, RingsKeep, PTL DEF RingsSpec, SafetySpec

(* The invariant of the letters.                                           *)
THEOREM RingsPostInvariant ==
    ASSUME RingsHoldOne PROVE RingsSpec => []PostInv
BY RingsRefineRuntime, PostInvariant, PTL

(* TypeOK: the state keeps its types, the capacities of mailboxes and request *)
(* rings included.                                                            *)
THEOREM RingsTypeCorrect ==
    ASSUME RingsHoldOne PROVE RingsSpec => []TypeOK
BY RingsRefineRuntime, TypeCorrect, PTL

(* CallsAccountedFor: the call a suspended turn waits for is in exactly one   *)
(* place, over enqueue, drain, select, deliver_reply and xreply.              *)
THEOREM RingsCallsAccounted ==
    ASSUME RingsHoldOne PROVE RingsSpec => []CallsAccountedFor
BY RingsRefineRuntime, CallsAccounted, PTL

(* RightReply: a turn that is ready to resume holds the reply to the very call *)
(* it awaits, though a reply is addressed by the turn's number only.           *)
THEOREM RingsRightReplies ==
    ASSUME RingsHoldOne PROVE RingsSpec => []RightReply
BY RingsRefineRuntime, RightReplies, PTL

(* No xreply ever finds its ring full: the count it tests is exact and below   *)
(* the capacity, so that no reply is dropped and no test counted as failed.    *)
THEOREM RingsRepliesFit ==
    ASSUME RingsHoldOne PROVE RingsSpec => [](CountsExact /\ NoReplyRefused)
BY RingsRefineRuntime, CountsStayExact, RepliesFit, PTL

(* SenderFifo: an actor takes the messages of one sender in the order it sent  *)
(* them, through mailboxes and rings.                                          *)
THEOREM RingsSenderOrder ==
    ASSUME RingsHoldOne PROVE RingsSpec => []SenderFifo
BY RingsRefineRuntime, SenderOrder, PTL

(* NeverStuck: where only core 0's turns await, the cores are never all asleep *)
(* with no word raised, and a single core never reports a deadlock.            *)
THEOREM RingsSomebodyWakes ==
    ASSUME RingsHoldOne, CoreZeroAwaits PROVE RingsSpec => []NeverStuck
BY RingsRefineRuntime, SomebodyWakes, PTL

(* SleepersHaveNoWork: where, besides, the turns of other cores send to one    *)
(* actor of core 0 only, a core asleep with no word raised has nothing to do.  *)
THEOREM RingsSleepersIdle ==
    ASSUME RingsHoldOne, CoreZeroAwaits, OneTarget
    PROVE  RingsSpec => []SleepersHaveNoWork
BY RingsRefineRuntime, SleepersAreIdle, PTL

(* CoreZeroWakeKept: where only core 0's turns await, core 0 does not sleep    *)
(* past a reply that has arrived.                                              *)
THEOREM RingsWakeKept ==
    ASSUME RingsHoldOne, CoreZeroAwaits PROVE RingsSpec => []CoreZeroWakeKept
BY RingsRefineRuntime, WakeKept, PTL

(* CallsSpec: the runtime of all cores, over rings whose counts are loaded and *)
(* stored, does what ActorCalls promises.                                      *)
THEOREM RingsImplementCalls ==
    ASSUME RingsHoldOne PROVE RingsSpec => CallsSpec
BY RingsRefineRuntime, RuntimeImplementsCalls, PTL
=============================================================================
