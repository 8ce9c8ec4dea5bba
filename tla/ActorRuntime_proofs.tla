------------------------- MODULE ActorRuntime_proofs -------------------------
(***************************************************************************)
(* What ActorRuntime's steps keep true, for every number of actors and     *)
(* cores, every acyclic handle graph, every placement and every mailbox    *)
(* capacity.  These are lemmas: a ring operation is one step here, which   *)
(* ActorRings_proofs justifies before it turns them into theorems.         *)
(*                                                                         *)
(* Three inductive invariants.  PostInv follows the messages: whatever     *)
(* holds one (a mailbox, a request ring, the turn an actor executes, a     *)
(* reply ring) is a box, no message is in two boxes, a call in a box is    *)
(* what its sender waits for, and a suspended turn's call is in a box or   *)
(* answered.  Types of the state, the one place of a call, the right reply *)
(* and the room in every reply ring follow.  Ordered compares, for every   *)
(* actor and sender, the numbers of the messages taken, in the mailbox and *)
(* in the ring.  SleepInv says what a core has seen on its way to sleep;   *)
(* every step of another core leaves that alone or raises its word.        *)
(***************************************************************************)
EXTENDS ActorRuntime, FiniteSetTheorems, WellFoundedInduction, TLAPS

\* The places of a core's loop.
Labels == {"top", "check", "drain", "sweep", "select", "run", "idle", "park",
           "parked", "scan", "scanPending", "halted", "aborted"}
\* RT.turns, one record.
TurnRecords == [busy : BOOLEAN, susp : BOOLEAN, ready : BOOLEAN, cur : Message,
                reply : 0 .. MaxSends]
\* The names of ring edges.
AllLanes == ({"rep"} \X Cores \X {0}) \cup ({"req"} \X Cores \X Actors)

\* Types of the queues ...
QueueType ==
    /\ mailbox \in [Actors -> Seq(Message)]
    /\ \A a \in Actors : Len(mailbox[a]) <= MailboxCap[a]
    /\ req \in [Edges -> Seq(Message)]
    /\ \A e \in Edges : Len(req[e]) <= MailboxCap[e[2]]
    /\ rep \in [Cores \X Cores -> Seq(Message)]
    /\ taken \in [Actors -> Seq(Message)]

\* ... of the turns ...
TurnType ==
    /\ turn \in [Turns -> TurnRecords]
    /\ awaiting \in [Turns -> 0 .. MaxSends]
    /\ issued \in 0 .. MaxSends

\* ... and of the cores' loops.
CoreType ==
    /\ place \in Placements
    /\ pend \in [Cores -> BOOLEAN] /\ idle \in [Cores -> BOOLEAN]
    /\ run \in [Cores -> Turns \cup {NoTurn}]
    /\ pc \in [Cores -> Labels]
    /\ \A c \in Cores : pc[c] = "run" <=> run[c] # NoTurn
    /\ lanes \in [Cores -> SUBSET AllLanes]
    /\ moved \in [Cores -> BOOLEAN]

Types == QueueType /\ TurnType /\ CoreType
-----------------------------------------------------------------------------
(* Types.                                                                  *)

(* The constants, as the proofs use them.                                  *)
LEMMA Constants ==
    /\ Test \in Turns /\ Test \notin Actors /\ NoTurn \notin Turns /\ 0 \in Cores
    /\ Actors \subseteq Turns /\ Turns = Actors \cup {Test}
    /\ \A p \in Placements : p \in [Turns -> Cores] /\ p[Test] = 0
    /\ Calls \in [Turns -> SUBSET Actors]
    /\ MailboxCap \in [Actors -> Nat] /\ \A a \in Actors : MailboxCap[a] > 0
    /\ NoMessage \in Message /\ 0 \in 0 .. MaxSends
    /\ IsFiniteSet(Actors) /\ IsFiniteSet(Turns) /\ MaxSends \in Nat
    /\ Turns \subseteq 0 .. NActors /\ NActors \in Nat
<1>1. IsFiniteSet(Actors)
  BY FS_Interval, RuntimeAssumption DEF Actors
<1>2. IsFiniteSet(Turns)
  BY <1>1, FS_AddElement, FS_Singleton, FS_Union DEF Turns
<1> QED
  BY <1>1, <1>2, RuntimeAssumption
     DEF Test, Turns, Actors, NoTurn, Cores, NoMessage, Message

(* The queue operations of the model keep sequences of messages.           *)
LEMMA QueueOps ==
    ASSUME NEW q \in Seq(Message)
    PROVE  /\ \A m \in Message : /\ Append(q, m) \in Seq(Message)
                                 /\ Len(Append(q, m)) = Len(q) + 1
           /\ q # <<>> => /\ Head(q) \in Message /\ Tail(q) \in Seq(Message)
                          /\ Len(Tail(q)) = Len(q) - 1 /\ Len(q) > 0
OBVIOUS

(* A send or call has a running turn, and gets the next number.             *)
LEMMA AttemptNumbers ==
    ASSUME Types, NEW c \in Cores, NEW a \in Actors, Attempt(c, a)
    PROVE  /\ run[c] \in Turns /\ a \in Calls[run[c]] /\ pc[c] = "run"
           /\ issued' = issued + 1 /\ issued \in 0 .. MaxSends
           /\ issued' \in 1 .. MaxSends /\ issued' \in 0 .. MaxSends
<1>1. run[c] \in Turns
  BY DEF Types, CoreType, Attempt
<1>2. /\ issued' \in 1 .. MaxSends /\ issued' = issued + 1 /\ issued \in 0 .. MaxSends
      /\ issued' \in 0 .. MaxSends
  BY Constants DEF Types, TurnType, Attempt
<1> QED
  BY <1>1, <1>2 DEF Attempt

(* What it enqueues is a message.                                          *)
LEMMA NewMessage ==
    ASSUME Types, NEW c \in Cores, NEW a \in Actors, Attempt(c, a), NEW call \in BOOLEAN
    PROVE  [id |-> issued', from |-> run[c], call |-> call,
            remote |-> place[a] # c] \in Message
BY AttemptNumbers DEF Message

(* Enqueuing where there is room keeps the queues within their capacity.   *)
LEMMA EnqueueTypes ==
    ASSUME Types, NEW c \in Cores, NEW a \in Actors, NEW m \in Message,
           Admits(c, a), Enqueue(c, a, m), UNCHANGED <<rep, taken>>
    PROVE  QueueType' /\ pend' \in [Cores -> BOOLEAN]
<1> USE Constants DEF Types, QueueType, CoreType
<1>0. place[a] \in Cores
  OBVIOUS
<1>1. CASE place[a] = c
  <2>1. /\ mailbox' = [mailbox EXCEPT ![a] = Append(@, m)]
        /\ Len(mailbox[a]) < MailboxCap[a] /\ UNCHANGED <<req, pend>>
    BY <1>1 DEF Enqueue, Admits
  <2>2. Append(mailbox[a], m) \in Seq(Message)
        /\ Len(Append(mailbox[a], m)) = Len(mailbox[a]) + 1
    BY QueueOps
  <2> QED BY <2>1, <2>2
<1>2. CASE place[a] # c
  <2>1. /\ req' = [req EXCEPT ![<<c, a>>] = Append(@, m)]
        /\ Len(req[<<c, a>>]) < MailboxCap[a] /\ UNCHANGED mailbox
        /\ pend' = [pend EXCEPT ![place[a]] = TRUE]
    BY <1>2 DEF Enqueue, Admits
  <2>2. <<c, a>> \in Edges /\ <<c, a>>[2] = a
    BY DEF Edges
  <2>3. Append(req[<<c, a>>], m) \in Seq(Message)
        /\ Len(Append(req[<<c, a>>], m)) = Len(req[<<c, a>>]) + 1
    BY <2>2, QueueOps
  <2>4. req' \in [Edges -> Seq(Message)]
    BY <2>1, <2>2, <2>3
  <2>5. ASSUME NEW e \in Edges PROVE Len(req'[e]) <= MailboxCap[e[2]]
    <3>1. CASE e = <<c, a>>
      BY <2>1, <2>2, <2>3, <3>1
    <3>2. CASE e # <<c, a>>
      BY <2>1, <3>2
    <3> QED BY <3>1, <3>2
  <2> QED BY <1>0, <2>1, <2>4, <2>5
<1> QED BY <1>1, <1>2

(* Clearing a core's pending word.                                         *)
LEMMA PendTypes ==
    ASSUME CoreType, NEW c \in Cores
    PROVE  /\ [pend EXCEPT ![c] = FALSE] \in [Cores -> BOOLEAN]
           /\ [pend EXCEPT ![c] = TRUE] \in [Cores -> BOOLEAN]
           /\ BodyCheckpoint \in [Cores -> BOOLEAN]
BY Constants DEF CoreType, BodyCheckpoint

(* A core goes to a place where it runs no turn, or keeps not running any. *)
LEMMA GotoTypes ==
    ASSUME CoreType, NEW c \in Cores, NEW label \in Labels, Goto(c, label)
    PROVE  /\ pc' \in [Cores -> Labels] /\ pc'[c] = label
           /\ \A d \in Cores : d # c => pc'[d] = pc[d]
BY DEF CoreType, Goto

(* Where run_one returns to.                                               *)
LEMMA ReturnedLabel ==
    ASSUME NEW c, NEW ran
    PROVE  Returned(c, ran) \in {"scan", "top", "idle"}
BY DEF Returned

(* The flags of a turn that is resumed; the other turns stay as they are.  *)
LEMMA ResumedTypes ==
    ASSUME turn \in [Turns -> TurnRecords], NEW t \in Turns
    PROVE  /\ Resumed(t) \in [Turns -> TurnRecords]
           /\ ~ Resumed(t)[t].susp /\ ~ Resumed(t)[t].ready
           /\ Resumed(t)[t].busy = turn[t].busy /\ Resumed(t)[t].cur = turn[t].cur
           /\ \A u \in Turns : u # t => Resumed(t)[u] = turn[u]
<1> DEFINE t1 == [turn EXCEPT ![t].susp = FALSE]
<1>1. Resumed(t) = [t1 EXCEPT ![t].ready = FALSE]
  BY DEF Resumed
<1>2. t1 \in [Turns -> TurnRecords] /\ ~ t1[t].susp /\ t1[t].busy = turn[t].busy
      /\ t1[t].cur = turn[t].cur
      /\ \A u \in Turns : u # t => t1[u] = turn[u]
  BY DEF TurnRecords
<1> HIDE DEF t1
<1> QED BY <1>1, <1>2, ZenonT(30) DEF TurnRecords

\* The turn records after a reply to message m.
Answered(turns, m) == [turns EXCEPT ![m.from].reply = m.id, ![m.from].ready = TRUE]

(* A reply changes the reply and the ready flag of the turn it names.      *)
LEMMA AnsweredTypes ==
    ASSUME NEW turns \in [Turns -> TurnRecords], NEW m \in Message
    PROVE  /\ Answered(turns, m) \in [Turns -> TurnRecords]
           /\ Answered(turns, m)[m.from].ready
           /\ Answered(turns, m)[m.from].reply = m.id
           /\ Answered(turns, m)[m.from].busy = turns[m.from].busy
           /\ Answered(turns, m)[m.from].susp = turns[m.from].susp
           /\ Answered(turns, m)[m.from].cur = turns[m.from].cur
           /\ \A u \in Turns : u # m.from => Answered(turns, m)[u] = turns[u]
<1> DEFINE f == m.from
           t1 == [turns EXCEPT ![f].reply = m.id]
           t2 == [t1 EXCEPT ![f].ready = TRUE]
<1>1. Answered(turns, m) = t2
  BY DEF Answered
<1>2. f \in Turns /\ m.id \in 0 .. MaxSends
  BY DEF Message
<1> HIDE DEF f
<1>3. /\ t1 \in [Turns -> TurnRecords] /\ t1[f].reply = m.id
      /\ t1[f].busy = turns[f].busy /\ t1[f].susp = turns[f].susp
      /\ t1[f].cur = turns[f].cur
      /\ \A u \in Turns : u # f => t1[u] = turns[u]
  BY <1>2 DEF TurnRecords
<1> HIDE DEF t1
<1>4. /\ t2 \in [Turns -> TurnRecords] /\ t2[f].ready /\ t2[f].reply = m.id
      /\ t2[f].busy = turns[f].busy /\ t2[f].susp = turns[f].susp
      /\ t2[f].cur = turns[f].cur
      /\ \A u \in Turns : u # f => t2[u] = turns[u]
  BY <1>2, <1>3 DEF TurnRecords
<1> HIDE DEF t2
<1> QED BY <1>1, <1>4 DEF f

\* The turn records when actor t's method has returned.
Freed(t) == [turn EXCEPT ![t].busy = FALSE, ![t].cur = NoMessage]

(* A completed method frees its turn, and no other.                        *)
LEMMA FreedTypes ==
    ASSUME turn \in [Turns -> TurnRecords], NEW t \in Turns
    PROVE  /\ Freed(t) \in [Turns -> TurnRecords]
           /\ ~ Freed(t)[t].busy /\ Freed(t)[t].cur = NoMessage
           /\ Freed(t)[t].susp = turn[t].susp /\ Freed(t)[t].ready = turn[t].ready
           /\ Freed(t)[t].reply = turn[t].reply
           /\ \A u \in Turns : u # t => Freed(t)[u] = turn[u]
<1> DEFINE t1 == [turn EXCEPT ![t].busy = FALSE]
<1>1. Freed(t) = [t1 EXCEPT ![t].cur = NoMessage]
  BY DEF Freed
<1>2. /\ t1 \in [Turns -> TurnRecords] /\ ~ t1[t].busy
      /\ t1[t].susp = turn[t].susp /\ t1[t].ready = turn[t].ready
      /\ t1[t].reply = turn[t].reply
      /\ \A u \in Turns : u # t => t1[u] = turn[u]
  BY DEF TurnRecords
<1> HIDE DEF t1
<1> QED BY <1>1, <1>2, Constants DEF TurnRecords

\* The turn records when actor a has taken message m.
Started(a, m) == [turn EXCEPT ![a].busy = TRUE, ![a].cur = m]

(* A started turn is busy with its message; the others stay as they are.   *)
LEMMA StartedTypes ==
    ASSUME turn \in [Turns -> TurnRecords], NEW t \in Turns, NEW m \in Message
    PROVE  /\ Started(t, m) \in [Turns -> TurnRecords]
           /\ Started(t, m)[t].busy /\ Started(t, m)[t].cur = m
           /\ Started(t, m)[t].susp = turn[t].susp
           /\ Started(t, m)[t].ready = turn[t].ready
           /\ Started(t, m)[t].reply = turn[t].reply
           /\ \A u \in Turns : u # t => Started(t, m)[u] = turn[u]
<1> DEFINE t1 == [turn EXCEPT ![t].busy = TRUE]
<1>1. Started(t, m) = [t1 EXCEPT ![t].cur = m]
  BY DEF Started
<1>2. /\ t1 \in [Turns -> TurnRecords] /\ t1[t].busy
      /\ t1[t].susp = turn[t].susp /\ t1[t].ready = turn[t].ready
      /\ t1[t].reply = turn[t].reply
      /\ \A u \in Turns : u # t => t1[u] = turn[u]
  BY DEF TurnRecords
<1> HIDE DEF t1
<1> QED BY <1>1, <1>2 DEF TurnRecords

(* Every variable is in its range when the boot starts.                    *)
LEMMA TypesInit == Init => Types
<1> SUFFICES ASSUME Init PROVE Types
  OBVIOUS
<1> USE Constants
<1>1. QueueType
  BY DEF Init, QueueType, Edges
<1>2. TurnType
  <2>1. \A b \in BOOLEAN : [IdleTurn EXCEPT !.busy = b] \in TurnRecords
    BY DEF IdleTurn, TurnRecords
  <2> QED BY <2>1 DEF Init, TurnType
<1>3. CoreType
  BY DEF Init, CoreType, Labels
<1> QED BY <1>1, <1>2, <1>3 DEF Types

(* The steps of a body keep the types ...                                  *)
LEMMA TypesBody ==
    ASSUME Types, NEW c \in Cores, Body(c)
    PROVE  Types'
<1> USE DEF msgVars, coreVars
<1>0. /\ turn \in [Turns -> TurnRecords] /\ CoreType /\ QueueType /\ TurnType
      /\ 0 \in 0 .. MaxSends /\ {"scan", "top", "idle", "run"} \subseteq Labels
  BY Constants DEF Types, TurnType, Labels
<1>1. ASSUME NEW a \in Actors, NotAdmitted(c, a) PROVE Types'
  <2>1. issued' \in 0 .. MaxSends
    BY <1>1, AttemptNumbers DEF NotAdmitted
  <2>2. pend' \in [Cores -> BOOLEAN]
    BY <1>0, <1>1, PendTypes DEF NotAdmitted, CoreType
  <2>3. UNCHANGED <<place, mailbox, req, rep, taken, turn, awaiting, pc, run, idle, lanes,
                    moved>>
    BY <1>1 DEF NotAdmitted
  <2>4. QueueType' /\ TurnType'
    BY <1>0, <2>1, <2>3 DEF QueueType, TurnType
  <2>5. CoreType'
    BY <1>0, <2>2, <2>3 DEF CoreType
  <2> QED BY <2>4, <2>5 DEF Types
<1>2. ASSUME NEW a \in Actors, Send(c, a) PROVE Types'
  <2> DEFINE m == [id |-> issued', from |-> run[c], call |-> FALSE,
                   remote |-> place[a] # c]
  <2>1. m \in Message /\ issued' \in 0 .. MaxSends
    <3>1. Attempt(c, a)
      BY <1>2 DEF Send
    <3> QED BY <3>1, NewMessage, AttemptNumbers
  <2>2. Admits(c, a) /\ Enqueue(c, a, m) /\ UNCHANGED <<rep, taken>>
    BY <1>2 DEF Send
  <2>3. QueueType' /\ pend' \in [Cores -> BOOLEAN]
    BY <2>1, <2>2, EnqueueTypes
  <2>4. UNCHANGED <<place, turn, awaiting, pc, run, idle, lanes, moved>>
    BY <1>2 DEF Send
  <2>5. TurnType'
    BY <1>0, <2>1, <2>4 DEF TurnType
  <2>6. CoreType'
    BY <1>0, <2>3, <2>4 DEF CoreType
  <2> QED BY <2>3, <2>5, <2>6 DEF Types
<1>3. ASSUME NEW a \in Actors, Call(c, a) PROVE Types'
  <2> DEFINE m == [id |-> issued', from |-> run[c], call |-> TRUE,
                   remote |-> place[a] # c]
  <2>1. m \in Message /\ issued' \in 0 .. MaxSends /\ run[c] \in Turns
    <3>1. Attempt(c, a)
      BY <1>3 DEF Call
    <3> QED BY <3>1, NewMessage, AttemptNumbers
  <2>2. Admits(c, a) /\ Enqueue(c, a, m) /\ UNCHANGED <<rep, taken>>
    BY <1>3 DEF Call
  <2>3. QueueType' /\ pend' \in [Cores -> BOOLEAN]
    BY <2>1, <2>2, EnqueueTypes
  <2>4. UNCHANGED <<place, idle, lanes, moved>> /\ run' = [run EXCEPT ![c] = NoTurn]
        /\ Goto(c, Returned(c, TRUE))
    BY <1>3 DEF Call
  <2>5. turn' \in [Turns -> TurnRecords] /\ awaiting' \in [Turns -> 0 .. MaxSends]
    <3>1. /\ turn' = [turn EXCEPT ![run[c]].susp = TRUE]
          /\ awaiting' = [awaiting EXCEPT ![run[c]] = issued']
      BY <1>3 DEF Call
    <3>2. turn' \in [Turns -> TurnRecords]
      BY <1>0, <3>1 DEF TurnRecords
    <3> QED BY <1>0, <2>1, <3>1, <3>2 DEF TurnType
  <2>6. TurnType'
    BY <2>1, <2>5 DEF TurnType
  <2>7. /\ pc' \in [Cores -> Labels] /\ pc'[c] # "run"
        /\ \A d \in Cores : d # c => pc'[d] = pc[d]
    BY <1>0, <2>4, GotoTypes, ReturnedLabel
  <2>8. CoreType'
    BY <1>0, <2>3, <2>4, <2>7 DEF CoreType
  <2> QED BY <2>3, <2>6, <2>8 DEF Types
<1>4. CASE Complete(c)
  <2> DEFINE t == run[c]
             m == turn[t].cur
             back == <<c, place[m.from]>>
  <2>1. t \in Turns
    BY <1>0, <1>4 DEF Complete, CoreType
  <2>2. m \in Message /\ m.from \in Turns /\ place[m.from] \in Cores
    <3>1. m \in Message
      BY <1>0, <2>1 DEF TurnRecords
    <3>2. m.from \in Turns
      BY <3>1 DEF Message
    <3>3. place \in [Turns -> Cores]
      BY <1>0, Constants DEF CoreType
    <3> QED BY <3>1, <3>2, <3>3
  <2>3. Freed(t) \in [Turns -> TurnRecords] /\ Answered(Freed(t), m) \in [Turns -> TurnRecords]
    BY <1>0, <2>1, <2>2, FreedTypes, AnsweredTypes
  <2>4. Deliver(c, t, Freed(t))
    BY <1>4 DEF Complete, Freed
  <2>5. back \in Cores \X Cores
    BY <2>2
  <2>6. /\ turn' \in {Freed(t), Answered(Freed(t), m)}
        /\ rep' \in {rep, [rep EXCEPT ![back] = Append(@, m)]}
        /\ pend' \in {pend, [pend EXCEPT ![place[m.from]] = TRUE]}
    BY <2>4 DEF Deliver, Answered
  <2>7. turn' \in [Turns -> TurnRecords]
    BY <2>3, <2>6
  <2>8. rep' \in [Cores \X Cores -> Seq(Message)]
    <3>1. Append(rep[back], m) \in Seq(Message) /\ rep \in [Cores \X Cores -> Seq(Message)]
      BY <1>0, <2>2, <2>5, QueueOps DEF QueueType
    <3> QED BY <2>6, <3>1
  <2>9. pend' \in [Cores -> BOOLEAN]
    BY <1>0, <2>2, <2>6, PendTypes DEF CoreType
  <2>10. /\ UNCHANGED <<place, mailbox, req, taken, awaiting, issued, idle, lanes, moved>>
         /\ run' = [run EXCEPT ![c] = NoTurn] /\ Goto(c, Returned(c, TRUE))
    BY <1>4 DEF Complete
  <2> HIDE DEF t, m, back
  <2>11. QueueType' /\ TurnType'
    BY <1>0, <2>7, <2>8, <2>10 DEF QueueType, TurnType
  <2>12. /\ pc' \in [Cores -> Labels] /\ pc'[c] # "run"
         /\ \A d \in Cores : d # c => pc'[d] = pc[d]
    BY <1>0, <2>10, GotoTypes, ReturnedLabel
  <2>13. CoreType'
    BY <1>0, <2>9, <2>10, <2>12 DEF CoreType
  <2> QED BY <2>11, <2>13 DEF Types
<1> QED BY <1>1, <1>2, <1>3, <1>4 DEF Body

(* ... those of core 0 outside its loop ...                                *)
LEMMA TypesCoreZero ==
    ASSUME Types, BackEdge \/ TestPasses \/ ScanIdle \/ ScanPending
    PROVE  Types'
<1> USE DEF msgVars, coreVars, histVars
<1>0. /\ turn \in [Turns -> TurnRecords] /\ CoreType /\ QueueType /\ TurnType
      /\ 0 \in Cores /\ {"halted", "top", "scan", "scanPending"} \subseteq Labels
  BY Constants DEF Types, TurnType, Labels
<1>1. CASE BackEdge
  BY <1>0, <1>1, PendTypes DEF BackEdge, Types, QueueType, TurnType, CoreType
<1>2. CASE TestPasses
  <2>1. turn' \in [Turns -> TurnRecords]
    <3>1. turn' = [turn EXCEPT ![Test].busy = FALSE]
      BY <1>2 DEF TestPasses
    <3> QED BY <1>0, <3>1 DEF TurnRecords
  <2>2. /\ UNCHANGED <<place, mailbox, req, rep, taken, awaiting, issued, pend, idle, lanes,
                       moved>>
        /\ run' = [run EXCEPT ![0] = NoTurn]
        /\ Goto(0, IF Multi THEN "top" ELSE "halted")
    BY <1>2 DEF TestPasses
  <2>3. /\ pc' \in [Cores -> Labels] /\ pc'[0] # "run"
        /\ \A d \in Cores : d # 0 => pc'[d] = pc[d]
    BY <1>0, <2>2, GotoTypes
  <2>4. QueueType' /\ TurnType'
    BY <1>0, <2>1, <2>2 DEF QueueType, TurnType
  <2>5. CoreType'
    BY <1>0, <2>2, <2>3 DEF CoreType
  <2> QED BY <2>4, <2>5 DEF Types
<1>3. CASE ScanIdle \/ ScanPending
  <2>1. \E label \in {"halted", "top", "scan", "scanPending"} : Goto(0, label)
    BY <1>3 DEF ScanIdle, ScanPending, Goto
  <2>2. pc[0] # "run"
    BY <1>3 DEF ScanIdle, ScanPending
  <2>3. /\ pc' \in [Cores -> Labels] /\ pc'[0] # "run"
        /\ \A d \in Cores : d # 0 => pc'[d] = pc[d]
    BY <1>0, <2>1, GotoTypes
  <2>4. UNCHANGED <<place, mailbox, req, rep, taken, turn, awaiting, issued, pend, run,
                    idle, lanes, moved>>
    BY <1>3 DEF ScanIdle, ScanPending
  <2>5. QueueType' /\ TurnType'
    BY <1>0, <2>4 DEF QueueType, TurnType
  <2>6. CoreType'
    BY <1>0, <2>2, <2>3, <2>4 DEF CoreType
  <2> QED BY <2>5, <2>6 DEF Types
<1> QED BY <1>1, <1>2, <1>3

(* ... the plain steps of the executor loop ...                            *)
LEMMA TypesLoop ==
    ASSUME Types, NEW c \in Cores,
           \/ LoopTop(c) \/ NothingRan(c) \/ GoIdle(c) \/ Park(c) \/ Wake(c)
           \/ DrainEnd(c) \/ DrainStart(c)
    PROVE  Types'
<1> USE DEF msgVars, coreVars, histVars
<1>0. /\ turn \in [Turns -> TurnRecords] /\ CoreType /\ QueueType /\ TurnType
  BY Constants DEF Types, TurnType, Labels
<1>1. \E label \in Labels \ {"run"} : Goto(c, label)
  BY ReturnedLabel
     DEF LoopTop, NothingRan, GoIdle, Park, Wake, DrainEnd, DrainStart, Labels
<1>2. pc[c] # "run"
  BY DEF LoopTop, NothingRan, GoIdle, Park, Wake, DrainEnd, DrainStart
<1>3. /\ pc' \in [Cores -> Labels] /\ pc'[c] # "run"
      /\ \A d \in Cores : d # c => pc'[d] = pc[d]
  BY <1>0, <1>1, GotoTypes
<1>4. UNCHANGED <<place, mailbox, req, rep, taken, turn, awaiting, issued, run>>
  BY DEF LoopTop, NothingRan, GoIdle, Park, Wake, DrainEnd, DrainStart
<1>5. pend' \in [Cores -> BOOLEAN] /\ idle' \in [Cores -> BOOLEAN]
      /\ moved' \in [Cores -> BOOLEAN]
  BY <1>0, PendTypes
     DEF LoopTop, NothingRan, GoIdle, Park, Wake, DrainEnd, DrainStart, CoreType
<1>6. lanes' \in [Cores -> SUBSET AllLanes]
  <2>1. Lanes(c) \in SUBSET AllLanes
    BY DEF Lanes, AllLanes
  <2> QED BY <1>0, <2>1
     DEF LoopTop, NothingRan, GoIdle, Park, Wake, DrainEnd, DrainStart, CoreType
<1>7. QueueType' /\ TurnType'
  BY <1>0, <1>4 DEF QueueType, TurnType
<1>8. CoreType'
  BY <1>0, <1>2, <1>3, <1>4, <1>5, <1>6 DEF CoreType
<1> QED BY <1>7, <1>8 DEF Types

(* ... the checkpoint, which may resume the test ...                       *)
LEMMA TypesCheckpoint ==
    ASSUME Types, NEW c \in Cores, Checkpoint(c)
    PROVE  Types'
<1> USE DEF msgVars, coreVars, histVars
<1>0. /\ turn \in [Turns -> TurnRecords] /\ CoreType /\ QueueType /\ TurnType
      /\ {"run", "drain"} \subseteq Labels /\ 0 \in Cores
  BY Constants DEF Types, TurnType, Labels
<1>1. /\ UNCHANGED <<place, mailbox, req, rep, taken, issued, idle, lanes, moved>>
      /\ pend' = [pend EXCEPT ![c] = FALSE] /\ pc[c] # "run"
  BY DEF Checkpoint
<1>2. pend' \in [Cores -> BOOLEAN]
  BY <1>0, <1>1, PendTypes
<1>3. CASE c = 0 /\ turn[Test].busy /\ turn[Test].ready
  <2>1. /\ turn' = Resumed(Test) /\ awaiting' = [awaiting EXCEPT ![Test] = 0]
        /\ run' = [run EXCEPT ![0] = Test] /\ Goto(0, "run")
    BY <1>3 DEF Checkpoint
  <2>2. turn' \in [Turns -> TurnRecords]
    BY <1>0, <2>1, ResumedTypes, Constants
  <2>3. QueueType' /\ TurnType'
    BY <1>0, <1>1, <2>1, <2>2, Constants DEF QueueType, TurnType
  <2>4. /\ pc' \in [Cores -> Labels] /\ pc'[0] = "run"
        /\ \A d \in Cores : d # 0 => pc'[d] = pc[d]
    BY <1>0, <2>1, GotoTypes
  <2>5. CoreType'
    BY <1>0, <1>1, <1>2, <1>3, <2>1, <2>4, Constants, ZenonT(30) DEF CoreType
  <2> QED BY <2>3, <2>5 DEF Types
<1>4. CASE ~ (c = 0 /\ turn[Test].busy /\ turn[Test].ready)
  <2>1. UNCHANGED <<turn, awaiting, run>> /\ Goto(c, "drain")
    BY <1>4 DEF Checkpoint
  <2>2. /\ pc' \in [Cores -> Labels] /\ pc'[c] = "drain"
        /\ \A d \in Cores : d # c => pc'[d] = pc[d]
    BY <1>0, <2>1, GotoTypes
  <2>3. QueueType' /\ TurnType'
    BY <1>0, <1>1, <2>1 DEF QueueType, TurnType
  <2>4. CoreType'
    BY <1>0, <1>1, <1>2, <2>1, <2>2 DEF CoreType
  <2> QED BY <2>3, <2>4 DEF Types
<1> QED BY <1>3, <1>4

(* What a lane of a drain stands for.                                      *)
LEMMA LaneTypes ==
    ASSUME Types, NEW c \in Cores, NEW l \in lanes[c]
    PROVE  /\ l[1] = "rep" \/ l[1] = "req"
           /\ l[1] = "rep" => <<l[2], c>> \in Cores \X Cores
           /\ l[1] = "req" => l[3] \in Actors /\ <<l[2], l[3]>> \in Edges
                              /\ <<l[2], l[3]>>[2] = l[3]
<1>1. l \in AllLanes
  BY DEF Types, CoreType
<1> QED BY <1>1 DEF AllLanes, Edges

(* ... the steps of a drain along its lanes ...                            *)
LEMMA TypesDrain ==
    ASSUME Types, NEW c \in Cores, NEW l \in lanes[c],
           NextLane(c, l) \/ DrainReply(c, l) \/ DrainRequest(c, l)
    PROVE  Types'
<1> USE DEF msgVars, coreVars, histVars
<1>0. /\ turn \in [Turns -> TurnRecords] /\ CoreType /\ QueueType /\ TurnType
  BY DEF Types, TurnType
<1>1. CASE NextLane(c, l)
  <2>1. UNCHANGED <<place, mailbox, req, rep, taken, turn, awaiting, issued, pend, pc, run,
                    idle, moved>>
        /\ lanes' = [lanes EXCEPT ![c] = @ \ {l}]
    BY <1>1 DEF NextLane
  <2>2. QueueType' /\ TurnType'
    BY <1>0, <2>1 DEF QueueType, TurnType
  <2>3. CoreType'
    BY <1>0, <2>1 DEF CoreType
  <2> QED BY <2>2, <2>3 DEF Types
<1>2. CASE DrainReply(c, l)
  <2> DEFINE e == <<l[2], c>>
             m == Head(rep[e])
  <2>1. e \in Cores \X Cores /\ rep[e] # <<>>
    BY <1>2, LaneTypes DEF DrainReply, LaneEmpty
  <2>2. rep[e] \in Seq(Message)
    BY <1>0, <2>1 DEF QueueType
  <2>3. m \in Message /\ Tail(rep[e]) \in Seq(Message)
    BY <2>1, <2>2, QueueOps
  <2>4. /\ turn' = Answered(turn, m) /\ rep' = [rep EXCEPT ![e] = Tail(@)]
        /\ moved' = [moved EXCEPT ![c] = TRUE]
        /\ UNCHANGED <<place, mailbox, req, taken, awaiting, issued, pend, pc, run, idle,
                       lanes>>
    BY <1>2 DEF DrainReply, Answered
  <2> HIDE DEF m, e
  <2>5. turn' \in [Turns -> TurnRecords]
    BY <1>0, <2>3, <2>4, AnsweredTypes
  <2>6. QueueType' /\ TurnType'
    BY <1>0, <2>3, <2>4, <2>5 DEF QueueType, TurnType
  <2>7. CoreType'
    BY <1>0, <2>4 DEF CoreType
  <2> QED BY <2>6, <2>7 DEF Types
<1>3. CASE DrainRequest(c, l)
  <2> DEFINE a == l[3]
             e == <<l[2], l[3]>>
  <2>1. e \in Edges /\ e[2] = a /\ a \in Actors /\ req[e] # <<>>
    BY <1>3, LaneTypes DEF DrainRequest, LaneEmpty
  <2>2. req[e] \in Seq(Message) /\ mailbox[a] \in Seq(Message)
    BY <1>0, <2>1 DEF QueueType
  <2>3. /\ Head(req[e]) \in Message /\ Tail(req[e]) \in Seq(Message)
        /\ Len(Tail(req[e])) = Len(req[e]) - 1
    BY <2>1, <2>2, QueueOps
  <2>4. /\ Append(mailbox[a], Head(req[e])) \in Seq(Message)
        /\ Len(Append(mailbox[a], Head(req[e]))) = Len(mailbox[a]) + 1
    BY <2>2, <2>3, QueueOps
  <2>5. UNCHANGED <<place, rep, taken, turn, awaiting, issued, pend, pc, run, idle>>
    BY <1>3 DEF DrainRequest
  <2>6. CASE Len(mailbox[a]) < MailboxCap[a]
    <3>1. /\ mailbox' = [mailbox EXCEPT ![a] = Append(@, Head(req[e]))]
          /\ req' = [req EXCEPT ![e] = Tail(@)]
          /\ moved' = [moved EXCEPT ![c] = TRUE] /\ UNCHANGED lanes
      BY <1>3, <2>6 DEF DrainRequest
    <3> HIDE DEF a, e
    <3>2. mailbox' \in [Actors -> Seq(Message)] /\ req' \in [Edges -> Seq(Message)]
      BY <1>0, <2>1, <2>3, <2>4, <3>1 DEF QueueType
    <3>3. \A b \in Actors : Len(mailbox'[b]) <= MailboxCap[b]
      <4>1. Len(mailbox[a]) \in Nat /\ MailboxCap[a] \in Nat
        BY <2>1, <2>2, Constants
      <4>2. Len(mailbox'[a]) <= MailboxCap[a]
        BY <1>0, <2>1, <2>4, <2>6, <3>1, <4>1 DEF QueueType
      <4> QED BY <1>0, <3>1, <4>2 DEF QueueType
    <3>4. \A d \in Edges : Len(req'[d]) <= MailboxCap[d[2]]
      <4>1. Len(req[e]) \in Nat /\ MailboxCap[a] \in Nat
        BY <2>1, <2>2, Constants
      <4>2. Len(req'[e]) <= MailboxCap[e[2]]
        BY <1>0, <2>1, <2>3, <3>1, <4>1 DEF QueueType
      <4> QED BY <1>0, <3>1, <4>2 DEF QueueType
    <3>5. QueueType' /\ TurnType'
      BY <1>0, <2>5, <3>2, <3>3, <3>4 DEF QueueType, TurnType
    <3>6. CoreType'
      BY <1>0, <2>5, <3>1 DEF CoreType
    <3> QED BY <3>5, <3>6 DEF Types
  <2>7. CASE ~ (Len(mailbox[a]) < MailboxCap[a])
    <3>1. UNCHANGED <<mailbox, req, moved>> /\ lanes' = [lanes EXCEPT ![c] = {}]
      BY <1>3, <2>7 DEF DrainRequest
    <3>2. QueueType' /\ TurnType'
      BY <1>0, <2>5, <3>1 DEF QueueType, TurnType
    <3>3. CoreType'
      BY <1>0, <2>5, <3>1 DEF CoreType
    <3> QED BY <3>2, <3>3 DEF Types
  <2> QED BY <2>6, <2>7
<1> QED BY <1>1, <1>2, <1>3

(* ... and rt_select.                                                      *)
LEMMA TypesSelect ==
    ASSUME Types, NEW c \in Cores, NEW a \in Actors, Select(c, a)
    PROVE  Types'
<1> USE DEF msgVars, coreVars, histVars
<1>0. /\ turn \in [Turns -> TurnRecords] /\ CoreType /\ QueueType /\ TurnType
      /\ a \in Turns /\ "run" \in Labels /\ NoTurn \notin Turns
  BY Constants DEF Types, TurnType, Labels
<1>1. /\ UNCHANGED <<place, req, rep, issued, idle, lanes, moved>>
      /\ run' = [run EXCEPT ![c] = a] /\ Goto(c, "run") /\ pc[c] = "select"
      /\ Selectable(a)
  BY DEF Select, Chosen
<1>2. /\ pc' \in [Cores -> Labels] /\ pc'[c] = "run"
      /\ \A d \in Cores : d # c => pc'[d] = pc[d]
  BY <1>0, <1>1, GotoTypes
<1>3. pend' \in [Cores -> BOOLEAN]
  BY <1>0, PendTypes, Constants DEF Select, CoreType
<1>4. CoreType'
  BY <1>0, <1>1, <1>2, <1>3 DEF CoreType
<1>5. CASE turn[a].busy
  <2>1. /\ turn' = Resumed(a) /\ awaiting' = [awaiting EXCEPT ![a] = 0]
        /\ UNCHANGED <<mailbox, taken>>
    BY <1>5 DEF Select
  <2>2. turn' \in [Turns -> TurnRecords]
    BY <1>0, <2>1, ResumedTypes
  <2>3. QueueType' /\ TurnType'
    BY <1>0, <1>1, <2>1, <2>2, Constants DEF QueueType, TurnType
  <2> QED BY <1>4, <2>3 DEF Types
<1>6. CASE ~ turn[a].busy
  <2> DEFINE m == Head(mailbox[a])
  <2>1. /\ turn' = Started(a, m) /\ taken' = [taken EXCEPT ![a] = Append(@, m)]
        /\ mailbox' = [mailbox EXCEPT ![a] = Tail(@)] /\ UNCHANGED awaiting
    BY <1>6 DEF Select, Started
  <2>2. mailbox[a] # <<>> /\ mailbox[a] \in Seq(Message) /\ taken[a] \in Seq(Message)
    BY <1>0, <1>1, <1>6 DEF Selectable, QueueType
  <2>3. /\ m \in Message /\ Tail(mailbox[a]) \in Seq(Message)
        /\ Len(Tail(mailbox[a])) = Len(mailbox[a]) - 1 /\ Append(taken[a], m) \in Seq(Message)
    BY <2>2, QueueOps
  <2> HIDE DEF m
  <2>4. turn' \in [Turns -> TurnRecords]
    BY <1>0, <2>1, <2>3, StartedTypes
  <2>5. mailbox' \in [Actors -> Seq(Message)] /\ taken' \in [Actors -> Seq(Message)]
    BY <1>0, <2>1, <2>3 DEF QueueType
  <2>6. \A b \in Actors : Len(mailbox'[b]) <= MailboxCap[b]
    <3>1. Len(mailbox[a]) \in Nat /\ MailboxCap[a] \in Nat
      BY <2>2, Constants
    <3>2. Len(mailbox'[a]) <= MailboxCap[a]
      BY <1>0, <2>1, <2>3, <3>1 DEF QueueType
    <3> QED BY <1>0, <2>1, <3>2 DEF QueueType
  <2>7. QueueType' /\ TurnType'
    BY <1>0, <1>1, <2>1, <2>4, <2>5, <2>6 DEF QueueType, TurnType
  <2> QED BY <1>4, <2>7 DEF Types
<1> QED BY <1>5, <1>6

(* Every step keeps the types.                                             *)
LEMMA TypesNext == Types /\ [Next]_vars => Types'
<1> SUFFICES ASSUME Types, [Next]_vars PROVE Types'
  OBVIOUS
<1>1. ASSUME UNCHANGED vars PROVE Types'
  BY <1>1 DEF vars, msgVars, coreVars, histVars, Types, QueueType, TurnType, CoreType
<1>2. ASSUME NEW c \in Cores, Body(c) PROVE Types'
  BY <1>2, TypesBody
<1>3. ASSUME NEW c \in Cores, Executor(c) PROVE Types'
  BY <1>3, TypesLoop, TypesCheckpoint, TypesDrain, TypesSelect DEF Executor, Drain
<1>4. CASE BackEdge \/ TestPasses \/ ScanIdle \/ ScanPending
  BY <1>4, TypesCoreZero
<1> QED
  BY <1>1, <1>2, <1>3, <1>4 DEF Next, CoreStep, Stopped
-----------------------------------------------------------------------------
(* The inductive invariant.                                                *)

\* The boxes a message can lie in: mailboxes, the turn an actor executes,
\* request rings and reply rings.
Boxes == ({"mailbox", "turn"} \X Actors) \cup ({"req"} \X Edges)
         \cup ({"rep"} \X (Cores \X Cores))

\* What lies in each of them.
box == [b \in Boxes |->
            IF b[1] = "mailbox" THEN mailbox[b[2]]
            ELSE IF b[1] = "req" THEN req[b[2]]
            ELSE IF b[1] = "rep" THEN rep[b[2]]
            ELSE IF turn[b[2]].busy THEN <<turn[b[2]].cur>> ELSE <<>>]

\* A message is on the way from its sender to a handle of the sender, or, in a
\* reply ring, on the way back.
Routed(b, x) ==
    /\ b[1] \in {"mailbox", "turn"} =>
           /\ b[2] \in Calls[x.from] /\ (x.call => b[2] \in Awaits[x.from])
           /\ x.remote <=> place[x.from] # place[b[2]]
    /\ b[1] = "req" =>
           /\ b[2][2] \in Calls[x.from] /\ (x.call => b[2][2] \in Awaits[x.from])
           /\ x.remote
           /\ place[x.from] = b[2][1] /\ place[b[2][2]] # b[2][1]
    /\ b[1] = "rep" =>
           /\ x.call /\ x.remote
           /\ place[x.from] = b[2][2] /\ b[2][1] # b[2][2] /\ Core(b[2][1])
           /\ \E a \in Awaits[x.from] : place[a] = b[2][1]

\* The messages in box b, for a content B of the boxes.
Held(B, b) == {B[b][i] : i \in 1 .. Len(B[b])}

\* No message is in two places.
UniqueIn(B) ==
    \A b, d \in Boxes : \A i \in 1 .. Len(B[b]), j \in 1 .. Len(B[d]) :
        B[b][i].id = B[d][j].id => b = d /\ i = j

\* A message in a box has been issued; a call is what its sender waits for,
\* unanswered so far.
KnownMessage(x) ==
    /\ x.id \in 1 .. issued
    /\ x.call => awaiting[x.from] = x.id /\ ~ turn[x.from].ready
    /\ \A t \in Turns : awaiting[t] = x.id => x.call /\ x.from = t

\* Every message in a box is known, and where it should be.
Known == \A b \in Boxes : \A x \in Held(box, b) : KnownMessage(x) /\ Routed(b, x)

\* What a suspended turn waits for is its own, and in a box until answered.
Waits ==
    /\ \A t \in Turns :
           /\ turn[t].susp <=> awaiting[t] # 0
           /\ awaiting[t] <= issued
           /\ turn[t].ready => turn[t].susp /\ turn[t].reply = awaiting[t]
           /\ awaiting[t] # 0 /\ ~ turn[t].ready =>
                  \E b \in Boxes : \E x \in Held(box, b) : x.id = awaiting[t]
    /\ \A t, u \in Turns : awaiting[t] # 0 /\ awaiting[t] = awaiting[u] => t = u

\* Where the messages are, and who waits for them.
Letters == UniqueIn(box) /\ Known /\ Waits

\* A turn that is busy is executed by its own core, or suspended.
Flow ==
    /\ \A c \in Cores : run[c] # NoTurn =>
           place[run[c]] = c /\ turn[run[c]].busy /\ ~ turn[run[c]].susp
    /\ \A t \in Turns :
           /\ turn[t].susp => turn[t].busy /\ Awaits[t] # {}
           /\ turn[t].busy /\ ~ turn[t].susp => run[place[t]] = t

\* The numbers of one sender's messages rise in q, and from q to r.
Rising(q) ==
    \A i, j \in 1 .. Len(q) : i < j /\ q[i].from = q[j].from => q[i].id < q[j].id
Earlier(q, r) ==
    \A i \in 1 .. Len(q), j \in 1 .. Len(r) : q[i].from = r[j].from => q[i].id < r[j].id

\* The messages of one sender to actor a: the taken ones before those in the
\* mailbox, and these before those in a ring.
OrderedFor(a) ==
    /\ Rising(taken[a]) /\ Rising(mailbox[a]) /\ Earlier(taken[a], mailbox[a])
    /\ \A i \in 1 .. Len(taken[a]) : taken[a][i].id <= issued
    /\ \A e \in Edges : e[2] = a =>
           /\ Rising(req[e])
           /\ Earlier(mailbox[a], req[e]) /\ Earlier(taken[a], req[e])

Ordered == \A a \in Actors : OrderedFor(a)
-----------------------------------------------------------------------------
(* Boxes: what putting a message in and taking the first one out do.       *)

\* Contents of the boxes; a message put into one, the first one cut off one.
Contents == [Boxes -> Seq(Message)]
Put(B, b, m) == [B EXCEPT ![b] = Append(@, m)]
Cut(B, b) == [B EXCEPT ![b] = Tail(@)]

(* Two messages with one number are the same message in the same box.      *)
LEMMA HeldOnce ==
    ASSUME NEW B \in Contents, UniqueIn(B), NEW b \in Boxes, NEW d \in Boxes,
           NEW x \in Held(B, b), NEW y \in Held(B, d), x.id = y.id
    PROVE  b = d /\ x = y
BY DEF Held, UniqueIn

(* Held messages are messages.                                             *)
LEMMA HeldTypes ==
    ASSUME NEW B \in Contents, NEW b \in Boxes
    PROVE  /\ Held(B, b) \subseteq Message
           /\ B[b] \in Seq(Message)
           /\ B[b] # <<>> => Head(B[b]) \in Held(B, b) /\ Head(B[b]) \in Message
<1>1. B[b] \in Seq(Message)
  BY DEF Contents
<1>2. Held(B, b) \subseteq Message
  BY <1>1 DEF Held
<1>3. ASSUME B[b] # <<>> PROVE Head(B[b]) \in Held(B, b)
  <2>1. 1 \in 1 .. Len(B[b]) /\ Head(B[b]) = B[b][1]
    BY <1>1, <1>3
  <2> QED BY <2>1 DEF Held
<1> QED BY <1>1, <1>2, <1>3

(* A new message joins the others, and only in its box.                    *)
LEMMA PutBox ==
    ASSUME NEW B \in Contents, NEW b \in Boxes, NEW m \in Message, UniqueIn(B),
           \A d \in Boxes : \A x \in Held(B, d) : x.id # m.id
    PROVE  /\ Put(B, b, m) \in Contents /\ UniqueIn(Put(B, b, m))
           /\ Held(Put(B, b, m), b) = Held(B, b) \cup {m}
           /\ \A d \in Boxes \ {b} : Held(Put(B, b, m), d) = Held(B, d)
<1> DEFINE C == Put(B, b, m)
<1>1. /\ B[b] \in Seq(Message) /\ C \in Contents
      /\ \A d \in Boxes \ {b} : C[d] = B[d]
      /\ C[b] = Append(B[b], m)
  BY DEF Put, Contents
<1>2. /\ Len(C[b]) = Len(B[b]) + 1 /\ C[b][Len(B[b]) + 1] = m
      /\ \A i \in 1 .. Len(B[b]) : C[b][i] = B[b][i]
      /\ Len(B[b]) \in Nat
  BY <1>1
<1>3. \A d \in Boxes \ {b} : Held(C, d) = Held(B, d)
  BY <1>1 DEF Held
<1> HIDE DEF C
<1>4. Held(C, b) = Held(B, b) \cup {m}
  <2>1. 1 .. Len(C[b]) = 1 .. Len(B[b]) \cup {Len(B[b]) + 1}
    BY <1>2
  <2> QED BY <1>2, <2>1 DEF Held
<1>5. \A d \in Boxes : \A i \in 1 .. Len(B[d]) : B[d][i].id # m.id
  BY DEF Held
<1>6. UniqueIn(C)
  <2> SUFFICES ASSUME NEW d \in Boxes, NEW e \in Boxes, NEW i \in 1 .. Len(C[d]),
                      NEW j \in 1 .. Len(C[e]), C[d][i].id = C[e][j].id
               PROVE  d = e /\ i = j
    BY DEF UniqueIn
  <2>1. ASSUME NEW f \in Boxes, NEW k \in 1 .. Len(C[f])
        PROVE  \/ k \in 1 .. Len(B[f]) /\ C[f][k] = B[f][k]
               \/ f = b /\ k = Len(B[b]) + 1 /\ C[f][k] = m
    <3>1. CASE f # b
      BY <1>1, <3>1
    <3>2. CASE f = b
      <4>1. k \in 1 .. Len(B[b]) \/ k = Len(B[b]) + 1
        BY <1>2, <3>2
      <4> QED BY <1>2, <3>2, <4>1
    <3> QED BY <3>1, <3>2
  <2>2. CASE i \in 1 .. Len(B[d]) /\ C[d][i] = B[d][i]
             /\ j \in 1 .. Len(B[e]) /\ C[e][j] = B[e][j]
    BY <2>2 DEF UniqueIn
  <2>3. CASE i \in 1 .. Len(B[d]) /\ C[d][i] = B[d][i] /\ C[e][j] = m
    BY <1>5, <2>3
  <2>4. CASE j \in 1 .. Len(B[e]) /\ C[e][j] = B[e][j] /\ C[d][i] = m
    BY <1>5, <2>4
  <2> QED BY <2>1, <2>2, <2>3, <2>4
<1> QED BY <1>1, <1>3, <1>4, <1>6 DEF C

(* Taking the first message out leaves none with its number.               *)
LEMMA CutBox ==
    ASSUME NEW B \in Contents, NEW b \in Boxes, UniqueIn(B), B[b] # <<>>
    PROVE  /\ Cut(B, b) \in Contents /\ UniqueIn(Cut(B, b))
           /\ Held(Cut(B, b), b) = Held(B, b) \ {Head(B[b])}
           /\ \A d \in Boxes \ {b} : Held(Cut(B, b), d) = Held(B, d)
           /\ \A d \in Boxes : \A x \in Held(Cut(B, b), d) : x.id # Head(B[b]).id
<1> DEFINE C == Cut(B, b)
           h == Head(B[b])
<1>1. /\ B[b] \in Seq(Message) /\ C \in [Boxes -> Seq(Message)]
      /\ \A d \in Boxes \ {b} : C[d] = B[d]
      /\ C[b] = Tail(B[b])
  BY DEF Cut, Contents
<1>2. /\ Len(C[b]) = Len(B[b]) - 1 /\ h = B[b][1]
      /\ \A i \in 1 .. Len(C[b]) : C[b][i] = B[b][i + 1]
      /\ Len(B[b]) \in Nat /\ Len(B[b]) > 0
  <2> DEFINE q == B[b]
  <2>1. q \in Seq(Message) /\ q # <<>> /\ C[b] = Tail(q)
    BY <1>1
  <2> HIDE DEF q
  <2>2. Len(q) \in Nat /\ Len(q) > 0 /\ Len(Tail(q)) = Len(q) - 1 /\ Head(q) = q[1]
    BY <2>1
  <2>3. ASSUME NEW i \in 1 .. Len(Tail(q)) PROVE Tail(q)[i] = q[i + 1]
    BY <2>1, <2>2, <2>3
  <2> QED BY <2>1, <2>2, <2>3 DEF q
<1>3. \A d \in Boxes \ {b} : Held(C, d) = Held(B, d)
  BY <1>1 DEF Held
<1> HIDE DEF C, h
<1>4. \A d \in Boxes : \A i \in 1 .. Len(C[d]) : C[d][i].id # h.id
  <2> SUFFICES ASSUME NEW d \in Boxes, NEW i \in 1 .. Len(C[d]), C[d][i].id = h.id
               PROVE  FALSE
    OBVIOUS
  <2>1. CASE d = b
    <3>1. i + 1 \in 1 .. Len(B[b]) /\ 1 \in 1 .. Len(B[b]) /\ i + 1 # 1
      BY <1>2, <2>1
    <3>2. B[b][i + 1].id = B[b][1].id
      BY <1>2, <2>1
    <3> QED BY <3>1, <3>2 DEF UniqueIn
  <2>2. CASE d # b
    <3>1. i \in 1 .. Len(B[d]) /\ 1 \in 1 .. Len(B[b]) /\ B[d][i].id = B[b][1].id
      BY <1>1, <1>2, <2>2
    <3> QED BY <2>2, <3>1 DEF UniqueIn
  <2> QED BY <2>1, <2>2
<1>5. Held(C, b) = Held(B, b) \ {h}
  <2>1. ASSUME NEW x \in Held(C, b) PROVE x \in Held(B, b) /\ x # h
    <3>1. PICK i \in 1 .. Len(C[b]) : x = C[b][i]
      BY DEF Held
    <3>2. i + 1 \in 1 .. Len(B[b]) /\ x = B[b][i + 1]
      BY <1>2, <3>1
    <3> QED BY <1>4, <3>1, <3>2 DEF Held
  <2>2. ASSUME NEW x \in Held(B, b), x # h PROVE x \in Held(C, b)
    <3>1. PICK i \in 1 .. Len(B[b]) : x = B[b][i]
      BY DEF Held
    <3>2. i - 1 \in 1 .. Len(C[b]) /\ C[b][i - 1] = B[b][i - 1 + 1] /\ i - 1 + 1 = i
      BY <1>2, <2>2, <3>1
    <3> QED BY <3>1, <3>2 DEF Held
  <2> QED BY <2>1, <2>2
<1>6. UniqueIn(C)
  <2> SUFFICES ASSUME NEW d \in Boxes, NEW e \in Boxes, NEW i \in 1 .. Len(C[d]),
                      NEW j \in 1 .. Len(C[e]), C[d][i].id = C[e][j].id
               PROVE  d = e /\ i = j
    BY DEF UniqueIn
  <2> DEFINE n(f, k) == IF f = b THEN k + 1 ELSE k
  <2>1. ASSUME NEW f \in Boxes, NEW k \in 1 .. Len(C[f])
        PROVE  n(f, k) \in 1 .. Len(B[f]) /\ C[f][k] = B[f][n(f, k)]
    <3>1. CASE f = b
      BY <1>2, <3>1
    <3>2. CASE f # b
      BY <1>1, <3>2
    <3> QED BY <3>1, <3>2
  <2>2. B[d][n(d, i)].id = B[e][n(e, j)].id
    BY <2>1
  <2>3. d = e /\ n(d, i) = n(e, j)
    <3> HIDE DEF n
    <3> QED BY <2>1, <2>2 DEF UniqueIn
  <2> QED BY <2>3
<1>7. \A d \in Boxes : \A x \in Held(C, d) : x.id # h.id
  BY <1>4 DEF Held
<1> QED BY <1>1, <1>3, <1>5, <1>6, <1>7 DEF C, h, Contents

(* Moving the first message of a box to another one.                       *)
LEMMA ShiftBox ==
    ASSUME NEW B \in Contents, NEW b \in Boxes, NEW d \in Boxes \ {b}, UniqueIn(B),
           B[b] # <<>>
    PROVE  LET h == Head(B[b])
               C == Put(Cut(B, b), d, h)
           IN  /\ C \in Contents /\ UniqueIn(C)
               /\ Held(C, b) = Held(B, b) \ {h} /\ Held(C, d) = Held(B, d) \cup {h}
               /\ \A e \in Boxes \ {b, d} : Held(C, e) = Held(B, e)
<1> DEFINE h == Head(B[b])
           C == Cut(B, b)
<1>1. h \in Message
  BY HeldTypes
<1>2. /\ C \in Contents /\ UniqueIn(C)
      /\ Held(C, b) = Held(B, b) \ {h}
      /\ \A e \in Boxes \ {b} : Held(C, e) = Held(B, e)
      /\ \A e \in Boxes : \A x \in Held(C, e) : x.id # h.id
  BY CutBox
<1> HIDE DEF h, C
<1>3. /\ Put(C, d, h) \in Contents /\ UniqueIn(Put(C, d, h))
      /\ Held(Put(C, d, h), d) = Held(C, d) \cup {h}
      /\ \A e \in Boxes \ {d} : Held(Put(C, d, h), e) = Held(C, e)
  BY <1>1, <1>2, PutBox
<1> QED BY <1>2, <1>3 DEF h, C
-----------------------------------------------------------------------------
(* The steps of a letter, whatever action takes them.                      *)

(* The boxes hold messages.                                                *)
LEMMA BoxTypes == Types => box \in Contents
<1> SUFFICES ASSUME Types PROVE box \in Contents
  OBVIOUS
<1> SUFFICES ASSUME NEW b \in Boxes PROVE box[b] \in Seq(Message)
  BY DEF box, Contents
<1>1. CASE b[1] = "mailbox"
  BY <1>1 DEF box, Boxes, Types, QueueType
<1>2. CASE b[1] = "req"
  BY <1>2 DEF box, Boxes, Types, QueueType
<1>3. CASE b[1] = "rep"
  BY <1>3 DEF box, Boxes, Types, QueueType
<1>4. CASE b[1] = "turn"
  <2>1. b[2] \in Actors
    BY <1>4 DEF Boxes
  <2>2. turn[b[2]].cur \in Message
    BY <2>1, Constants DEF Types, TurnType, TurnRecords
  <2>3. box[b] = IF turn[b[2]].busy THEN <<turn[b[2]].cur>> ELSE <<>>
    BY <1>4 DEF box
  <2> QED BY <2>2, <2>3
<1> QED BY <1>1, <1>2, <1>3, <1>4 DEF Boxes

(* What each kind of box holds.                                            *)
LEMMA BoxAt ==
    /\ \A a \in Actors :
           /\ <<"mailbox", a>> \in Boxes /\ box[<<"mailbox", a>>] = mailbox[a]
           /\ <<"turn", a>> \in Boxes
           /\ box[<<"turn", a>>] = IF turn[a].busy THEN <<turn[a].cur>> ELSE <<>>
    /\ \A e \in Edges : <<"req", e>> \in Boxes /\ box[<<"req", e>>] = req[e]
    /\ \A e \in Cores \X Cores : <<"rep", e>> \in Boxes /\ box[<<"rep", e>>] = rep[e]
BY DEF box, Boxes

(* Equal in every box: the content after a step.                           *)
LEMMA BoxAfter ==
    ASSUME NEW B \in Contents,
           \A a \in Actors :
               /\ B[<<"mailbox", a>>] = mailbox'[a]
               /\ B[<<"turn", a>>] = IF turn'[a].busy THEN <<turn'[a].cur>> ELSE <<>>,
           \A e \in Edges : B[<<"req", e>>] = req'[e],
           \A e \in Cores \X Cores : B[<<"rep", e>>] = rep'[e]
    PROVE  box' = B
<1> SUFFICES ASSUME NEW b \in Boxes PROVE box'[b] = B[b]
  BY DEF box, Contents
<1>1. CASE b \in {"mailbox"} \X Actors
  <2>1. PICK a \in Actors : b = <<"mailbox", a>>
    BY <1>1
  <2>2. box'[<<"mailbox", a>>] = mailbox'[a]
    BY <2>1 DEF box
  <2> QED BY <2>1, <2>2
<1>2. CASE b \in {"turn"} \X Actors
  <2>1. PICK a \in Actors : b = <<"turn", a>>
    BY <1>2
  <2>2. box'[<<"turn", a>>] = IF turn'[a].busy THEN <<turn'[a].cur>> ELSE <<>>
    BY <2>1 DEF box
  <2> QED BY <2>1, <2>2
<1>3. CASE b \in {"req"} \X Edges
  <2>1. PICK e \in Edges : b = <<"req", e>>
    BY <1>3
  <2>2. box'[<<"req", e>>] = req'[e]
    BY <2>1 DEF box
  <2> QED BY <2>1, <2>2
<1>4. CASE b \in {"rep"} \X (Cores \X Cores)
  <2>1. PICK e \in Cores \X Cores : b = <<"rep", e>>
    BY <1>4
  <2>2. box'[<<"rep", e>>] = rep'[e]
    BY <2>1 DEF box
  <2> QED BY <2>1, <2>2
<1> QED BY <1>1, <1>2, <1>3, <1>4 DEF Boxes

\* Turn t's side of the letters it waits for is as before.
SameWait(t) == /\ awaiting'[t] = awaiting[t]
               /\ turn'[t].susp = turn[t].susp /\ turn'[t].ready = turn[t].ready
               /\ turn'[t].reply = turn[t].reply

(* Routes are fixed when the image is built.                               *)
LEMMA RoutesStay ==
    ASSUME UNCHANGED place
    PROVE  \A b, x : Routed(b, x)' <=> Routed(b, x)
BY DEF Routed, Core

(* A step that moves no message and answers nobody.                        *)
LEMMA LettersQuiet ==
    ASSUME Types, Types', Letters, UNCHANGED place, box' = box,
           issued' \in {issued, issued + 1}, \A t \in Turns : SameWait(t)
    PROVE  Letters'
<1>1. issued \in Nat /\ \A t \in Turns : awaiting[t] \in Nat
  BY Constants DEF Types, TurnType
<1>2. \A b \in Boxes : Held(box, b) \subseteq Message /\ \A x \in Held(box, b) : x.from \in Turns
  <2>1. \A b \in Boxes : Held(box, b) \subseteq Message
    BY BoxTypes, HeldTypes
  <2> QED BY <2>1 DEF Message
<1>3. Known'
  <2> SUFFICES ASSUME NEW b \in Boxes, NEW x \in Held(box, b)
               PROVE  KnownMessage(x)' /\ Routed(b, x)'
    BY DEF Known
  <2>1. KnownMessage(x) /\ Routed(b, x) /\ x.from \in Turns
    BY <1>2 DEF Letters, Known
  <2> QED BY <1>1, <2>1, RoutesStay DEF KnownMessage, SameWait
<1>4. Waits'
  BY <1>1 DEF Letters, Waits, SameWait
<1>5. UniqueIn(box)'
  BY DEF Letters
<1> QED BY <1>3, <1>4, <1>5 DEF Letters

(* A new message is put into its first box: a send's ...                   *)
LEMMA LettersSent ==
    ASSUME Types, Types', Letters, UNCHANGED place, NEW b \in Boxes, NEW m \in Message,
           box' = Put(box, b, m), issued' = issued + 1, m.id = issued', ~ m.call,
           Routed(b, m), \A t \in Turns : SameWait(t)
    PROVE  Letters'
<1>1. issued \in Nat /\ \A t \in Turns : awaiting[t] \in Nat /\ awaiting[t] <= issued
  BY Constants DEF Types, TurnType, Letters, Waits
<1>2. box \in Contents /\ UniqueIn(box)
  BY BoxTypes DEF Letters
<1>3. \A d \in Boxes : \A x \in Held(box, d) :
          x.from \in Turns /\ KnownMessage(x) /\ Routed(d, x) /\ x.id # m.id
  <2>1. \A d \in Boxes : \A x \in Held(box, d) : x \in Message /\ KnownMessage(x) /\ Routed(d, x)
    BY <1>2, HeldTypes DEF Letters, Known
  <2> QED BY <1>1, <2>1 DEF Message, KnownMessage
<1>4. /\ UniqueIn(box')
      /\ Held(box', b) = Held(box, b) \cup {m}
      /\ \A d \in Boxes \ {b} : Held(box', d) = Held(box, d)
  BY <1>2, <1>3, PutBox
<1>5. UniqueIn(box)'
  BY <1>4
<1>6. Known'
  <2> SUFFICES ASSUME NEW d \in Boxes, NEW x \in Held(box', d)
               PROVE  KnownMessage(x)' /\ Routed(d, x)'
    BY DEF Known
  <2>1. CASE x \in Held(box, d)
    BY <1>1, <1>3, <2>1, RoutesStay DEF KnownMessage, SameWait
  <2>2. CASE x = m /\ d = b
    <3>1. \A t \in Turns : awaiting'[t] # m.id
      BY <1>1 DEF SameWait
    <3> QED BY <1>1, <2>2, <3>1, RoutesStay DEF KnownMessage
  <2> QED BY <1>4, <2>1, <2>2
<1>7. Waits'
  <2>1. \A d \in Boxes : Held(box, d) \subseteq Held(box', d)
    BY <1>4
  <2> HIDE DEF box
  <2> QED BY <1>1, <2>1 DEF Letters, Waits, SameWait
<1> QED BY <1>5, <1>6, <1>7 DEF Letters

(* ... or a call's, which its sender then waits for.                       *)
LEMMA LettersCalled ==
    ASSUME Types, Types', Letters, UNCHANGED place, NEW b \in Boxes, NEW m \in Message,
           box' = Put(box, b, m), issued' = issued + 1, m.id = issued', m.call,
           Routed(b, m), ~ turn[m.from].susp,
           awaiting' = [awaiting EXCEPT ![m.from] = m.id],
           turn'[m.from].susp, turn'[m.from].ready = turn[m.from].ready,
           \A t \in Turns \ {m.from} : SameWait(t)
    PROVE  Letters'
<1>1. issued \in Nat /\ \A t \in Turns : awaiting[t] \in Nat /\ awaiting[t] <= issued
  BY Constants DEF Types, TurnType, Letters, Waits
<1>2. box \in Contents /\ UniqueIn(box)
  BY BoxTypes DEF Letters
<1>3. \A d \in Boxes : \A x \in Held(box, d) :
          x.from \in Turns /\ KnownMessage(x) /\ Routed(d, x) /\ x.id # m.id
  <2>1. \A d \in Boxes : \A x \in Held(box, d) : x \in Message /\ KnownMessage(x) /\ Routed(d, x)
    BY <1>2, HeldTypes DEF Letters, Known
  <2> QED BY <1>1, <2>1 DEF Message, KnownMessage
<1>4. /\ UniqueIn(box')
      /\ Held(box', b) = Held(box, b) \cup {m}
      /\ \A d \in Boxes \ {b} : Held(box', d) = Held(box, d)
  BY <1>2, <1>3, PutBox
<1>5. UniqueIn(box)'
  BY <1>4
<1>6. /\ m.from \in Turns /\ m.id \in 1 .. issued' /\ m.id = issued + 1
      /\ awaiting[m.from] = 0 /\ ~ turn[m.from].ready /\ ~ turn'[m.from].ready
      /\ awaiting'[m.from] = m.id
      /\ \A t \in Turns \ {m.from} : awaiting'[t] = awaiting[t]
  <2>1. m.from \in Turns
    BY DEF Message
  <2>2. awaiting'[m.from] = m.id /\ \A t \in Turns \ {m.from} : awaiting'[t] = awaiting[t]
    BY <2>1 DEF Types, TurnType
  <2>3. awaiting[m.from] = 0 /\ ~ turn[m.from].ready
    BY <2>1 DEF Letters, Waits
  <2> QED BY <1>1, <2>1, <2>2, <2>3
<1>7. Known'
  <2> SUFFICES ASSUME NEW d \in Boxes, NEW x \in Held(box', d)
               PROVE  KnownMessage(x)' /\ Routed(d, x)'
    BY DEF Known
  <2>1. CASE x \in Held(box, d)
    <3>1. x.from \in Turns /\ KnownMessage(x) /\ x.id # m.id /\ Routed(d, x)'
      BY <1>3, <2>1, RoutesStay
    <3>2. x.call => x.from # m.from
      BY <1>1, <1>6, <3>1 DEF KnownMessage
    <3> QED BY <1>1, <1>6, <3>1, <3>2 DEF KnownMessage, SameWait
  <2>2. CASE x = m /\ d = b
    <3>1. \A t \in Turns : awaiting'[t] = m.id => t = m.from
      BY <1>1, <1>6
    <3> QED BY <1>6, <2>2, <3>1, RoutesStay DEF KnownMessage
  <2> QED BY <1>4, <2>1, <2>2
<1>8. Waits'
  <2>1. \A d \in Boxes : Held(box, d) \subseteq Held(box', d)
    BY <1>4
  <2>2. m \in Held(box', b)
    BY <1>4
  <2>3. ASSUME NEW t \in Turns
        PROVE  /\ turn'[t].susp <=> awaiting'[t] # 0
               /\ awaiting'[t] <= issued'
               /\ turn'[t].ready => turn'[t].susp /\ turn'[t].reply = awaiting'[t]
               /\ awaiting'[t] # 0 /\ ~ turn'[t].ready =>
                      \E d \in Boxes : \E x \in Held(box', d) : x.id = awaiting'[t]
    <3>1. CASE t = m.from
      BY <1>1, <1>6, <2>2, <3>1
    <3>2. CASE t # m.from
      BY <1>1, <2>1, <3>2 DEF SameWait, Letters, Waits
    <3> QED BY <3>1, <3>2
  <2>4. \A t, u \in Turns : awaiting'[t] # 0 /\ awaiting'[t] = awaiting'[u] => t = u
    BY <1>1, <1>6 DEF Letters, Waits
  <2> QED BY <2>3, <2>4 DEF Waits
<1> QED BY <1>5, <1>7, <1>8 DEF Letters

(* The known messages before a step.                                       *)
LEMMA LettersKnown ==
    ASSUME Types, Letters
    PROVE  /\ box \in Contents /\ UniqueIn(box)
           /\ issued \in Nat
           /\ \A t \in Turns : awaiting[t] \in Nat /\ awaiting[t] <= issued
           /\ \A d \in Boxes : \A x \in Held(box, d) :
                  x \in Message /\ x.from \in Turns /\ KnownMessage(x) /\ Routed(d, x)
<1>1. issued \in Nat /\ \A t \in Turns : awaiting[t] \in Nat /\ awaiting[t] <= issued
  BY Constants DEF Types, TurnType, Letters, Waits
<1>2. box \in Contents /\ UniqueIn(box)
  BY BoxTypes DEF Letters
<1>3. \A d \in Boxes : \A x \in Held(box, d) : x \in Message /\ KnownMessage(x) /\ Routed(d, x)
  BY <1>2, HeldTypes DEF Letters, Known
<1> QED BY <1>1, <1>2, <1>3 DEF Message

(* The first message of a box moves on to another box.                     *)
LEMMA LettersMoved ==
    ASSUME Types, Types', Letters, UNCHANGED <<place, issued>>,
           NEW b \in Boxes, NEW d \in Boxes \ {b}, box[b] # <<>>,
           box' = Put(Cut(box, b), d, Head(box[b])), Routed(d, Head(box[b])),
           \A t \in Turns : SameWait(t)
    PROVE  Letters'
<1> DEFINE h == Head(box[b])
<1>1. /\ box \in Contents /\ UniqueIn(box) /\ issued \in Nat
      /\ \A t \in Turns : awaiting[t] \in Nat /\ awaiting[t] <= issued
      /\ \A e \in Boxes : \A x \in Held(box, e) :
             x \in Message /\ x.from \in Turns /\ KnownMessage(x) /\ Routed(e, x)
  BY LettersKnown
<1>2. h \in Held(box, b)
  BY <1>1, HeldTypes
<1>3. /\ UniqueIn(box')
      /\ Held(box', b) = Held(box, b) \ {h} /\ Held(box', d) = Held(box, d) \cup {h}
      /\ \A e \in Boxes \ {b, d} : Held(box', e) = Held(box, e)
  BY <1>1, ShiftBox
<1> HIDE DEF h
<1>4. Known'
  <2> SUFFICES ASSUME NEW e \in Boxes, NEW x \in Held(box', e)
               PROVE  KnownMessage(x)' /\ Routed(e, x)'
    BY DEF Known
  <2>1. \/ x \in Held(box, e)
        \/ x = h /\ e = d
    BY <1>3
  <2>2. KnownMessage(x) /\ Routed(e, x) /\ x.from \in Turns
    BY <1>1, <1>2, <2>1 DEF h
  <2> QED BY <2>2, RoutesStay DEF KnownMessage, SameWait
<1>5. Waits'
  <2>1. ASSUME NEW e \in Boxes, NEW x \in Held(box, e)
        PROVE  \E f \in Boxes : x \in Held(box', f)
    BY <1>3
  <2>2. ASSUME NEW t \in Turns, awaiting'[t] # 0, ~ turn'[t].ready
        PROVE  \E e \in Boxes : \E x \in Held(box', e) : x.id = awaiting'[t]
    <3>1. PICK e \in Boxes : \E x \in Held(box, e) : x.id = awaiting[t]
      BY <2>2 DEF SameWait, Letters, Waits
    <3> QED BY <2>1, <3>1 DEF SameWait
  <2> QED BY <2>2 DEF Letters, Waits, SameWait
<1> QED BY <1>3, <1>4, <1>5 DEF Letters

(* A send is over when its method returns.                                 *)
LEMMA LettersDropped ==
    ASSUME Types, Types', Letters, UNCHANGED <<place, issued>>, NEW b \in Boxes,
           box[b] # <<>>, box' = Cut(box, b), ~ Head(box[b]).call,
           \A t \in Turns : SameWait(t)
    PROVE  Letters'
<1> DEFINE h == Head(box[b])
<1>1. /\ box \in Contents /\ UniqueIn(box) /\ issued \in Nat
      /\ \A t \in Turns : awaiting[t] \in Nat /\ awaiting[t] <= issued
      /\ \A e \in Boxes : \A x \in Held(box, e) :
             x \in Message /\ x.from \in Turns /\ KnownMessage(x) /\ Routed(e, x)
  BY LettersKnown
<1>2. h \in Held(box, b)
  BY <1>1, HeldTypes
<1>3. /\ UniqueIn(box')
      /\ Held(box', b) = Held(box, b) \ {h}
      /\ \A e \in Boxes \ {b} : Held(box', e) = Held(box, e)
  BY <1>1, CutBox
<1> HIDE DEF h
<1>4. Known'
  <2> SUFFICES ASSUME NEW e \in Boxes, NEW x \in Held(box', e)
               PROVE  KnownMessage(x)' /\ Routed(e, x)'
    BY DEF Known
  <2>1. x \in Held(box, e)
    BY <1>3
  <2>2. KnownMessage(x) /\ Routed(e, x) /\ x.from \in Turns
    BY <1>1, <2>1
  <2> QED BY <2>2, RoutesStay DEF KnownMessage, SameWait
<1>5. Waits'
  <2>1. \A t \in Turns : awaiting[t] # h.id
    BY <1>1, <1>2 DEF KnownMessage, h
  <2>2. ASSUME NEW t \in Turns, awaiting'[t] # 0, ~ turn'[t].ready
        PROVE  \E e \in Boxes : \E x \in Held(box', e) : x.id = awaiting'[t]
    <3>1. PICK e \in Boxes : \E x \in Held(box, e) : x.id = awaiting[t]
      BY <2>2 DEF SameWait, Letters, Waits
    <3> QED BY <1>3, <2>1, <3>1 DEF SameWait
  <2> QED BY <2>2 DEF Letters, Waits, SameWait
<1> QED BY <1>3, <1>4, <1>5 DEF Letters

(* The answer to a call reaches the turn that waits for it.                *)
LEMMA LettersAnswered ==
    ASSUME Types, Types', Letters, UNCHANGED <<place, issued, awaiting>>, NEW b \in Boxes,
           box[b] # <<>>, box' = Cut(box, b), NEW h, h = Head(box[b]), h.call,
           turn'[h.from].susp = turn[h.from].susp, turn'[h.from].ready,
           turn'[h.from].reply = h.id,
           \A t \in Turns \ {h.from} : SameWait(t)
    PROVE  Letters'
<1>1. /\ box \in Contents /\ UniqueIn(box) /\ issued \in Nat
      /\ \A t \in Turns : awaiting[t] \in Nat /\ awaiting[t] <= issued
      /\ \A e \in Boxes : \A x \in Held(box, e) :
             x \in Message /\ x.from \in Turns /\ KnownMessage(x) /\ Routed(e, x)
  BY LettersKnown
<1>2. h \in Held(box, b)
  BY <1>1, HeldTypes
<1>3. /\ UniqueIn(box')
      /\ Held(box', b) = Held(box, b) \ {h}
      /\ \A e \in Boxes \ {b} : Held(box', e) = Held(box, e)
      /\ \A e \in Boxes : \A x \in Held(box', e) : x.id # h.id
  BY <1>1, CutBox
<1>4. /\ h.from \in Turns /\ awaiting[h.from] = h.id /\ h.id # 0
      /\ turn[h.from].susp /\ \A t \in Turns : awaiting[t] = h.id => t = h.from
  BY <1>1, <1>2 DEF KnownMessage, Letters, Waits
<1>5. Known'
  <2> SUFFICES ASSUME NEW e \in Boxes, NEW x \in Held(box', e)
               PROVE  KnownMessage(x)' /\ Routed(e, x)'
    BY DEF Known
  <2>1. x \in Held(box, e) /\ x.id # h.id
    BY <1>3
  <2>2. KnownMessage(x) /\ Routed(e, x) /\ x.from \in Turns
    BY <1>1, <2>1
  <2>3. x.call => x.from # h.from
    BY <1>4, <2>1, <2>2 DEF KnownMessage
  <2> QED BY <2>2, <2>3, RoutesStay DEF KnownMessage, SameWait
<1>6. Waits'
  <2>1. ASSUME NEW t \in Turns, awaiting'[t] # 0, ~ turn'[t].ready
        PROVE  \E e \in Boxes : \E x \in Held(box', e) : x.id = awaiting'[t]
    <3>1. t # h.from /\ awaiting[t] # h.id
      BY <1>4, <2>1
    <3>2. PICK e \in Boxes : \E x \in Held(box, e) : x.id = awaiting[t]
      BY <2>1, <3>1 DEF SameWait, Letters, Waits
    <3> QED BY <1>3, <3>1, <3>2
  <2>2. \A t \in Turns : /\ turn'[t].susp <=> awaiting'[t] # 0
                         /\ awaiting'[t] <= issued'
                         /\ turn'[t].ready => turn'[t].susp /\ turn'[t].reply = awaiting'[t]
    BY <1>4, ZenonT(30) DEF Letters, Waits, SameWait
  <2> QED BY <2>1, <2>2 DEF Letters, Waits
<1> QED BY <1>3, <1>5, <1>6 DEF Letters

(* The turn goes on with its answer.                                       *)
LEMMA LettersResumed ==
    ASSUME Types, Types', Letters, UNCHANGED <<place, issued>>, box' = box,
           NEW t \in Turns, turn[t].ready, awaiting' = [awaiting EXCEPT ![t] = 0],
           ~ turn'[t].susp, ~ turn'[t].ready,
           \A u \in Turns \ {t} : SameWait(u)
    PROVE  Letters'
<1>1. /\ issued \in Nat
      /\ \A u \in Turns : awaiting[u] \in Nat /\ awaiting[u] <= issued
      /\ \A e \in Boxes : \A x \in Held(box, e) :
             x \in Message /\ x.from \in Turns /\ KnownMessage(x) /\ Routed(e, x)
  BY LettersKnown
<1>2. awaiting'[t] = 0 /\ \A u \in Turns \ {t} : awaiting'[u] = awaiting[u]
  BY DEF Types, TurnType
<1>3. Known'
  <2> SUFFICES ASSUME NEW e \in Boxes, NEW x \in Held(box, e)
               PROVE  KnownMessage(x)' /\ Routed(e, x)'
    BY DEF Known
  <2>1. KnownMessage(x) /\ Routed(e, x) /\ x.from \in Turns /\ x.id # 0
    BY <1>1 DEF KnownMessage
  <2>2. x.call => x.from # t
    BY <2>1 DEF KnownMessage
  <2> QED BY <1>2, <2>1, <2>2, RoutesStay DEF KnownMessage, SameWait
<1>4. Waits'
  <2>1. ASSUME NEW u \in Turns
        PROVE  /\ turn'[u].susp <=> awaiting'[u] # 0
               /\ awaiting'[u] <= issued'
               /\ turn'[u].ready => turn'[u].susp /\ turn'[u].reply = awaiting'[u]
               /\ awaiting'[u] # 0 /\ ~ turn'[u].ready =>
                      \E d \in Boxes : \E x \in Held(box', d) : x.id = awaiting'[u]
    <3>1. CASE u = t
      BY <1>1, <1>2, <3>1
    <3>2. CASE u # t
      BY <1>2, <3>2 DEF SameWait, Letters, Waits
    <3> QED BY <3>1, <3>2
  <2>2. \A u, v \in Turns : awaiting'[u] # 0 /\ awaiting'[u] = awaiting'[v] => u = v
    BY <1>1, <1>2 DEF Letters, Waits
  <2> QED BY <2>1, <2>2 DEF Waits
<1> QED BY <1>3, <1>4 DEF Letters
-----------------------------------------------------------------------------
(* Each action takes one of these steps, and keeps the flow of turns.      *)

(* A step that touches no box and no turn but for what it counts.          *)
LEMMA StillKeeps ==
    ASSUME Types, Types', Letters, Flow, UNCHANGED <<place, mailbox, req, rep, turn, awaiting, run>>,
           issued' \in {issued, issued + 1}
    PROVE  Letters' /\ Flow'
<1>1. box' = box
  BY DEF box
<1>2. \A t \in Turns : SameWait(t)
  BY DEF SameWait
<1>3. Letters'
  BY <1>1, <1>2, LettersQuiet
<1>4. Flow'
  BY DEF Flow
<1> QED BY <1>3, <1>4

(* Enqueue puts the message into a mailbox or a request ring.              *)
LEMMA EnqueuePuts ==
    ASSUME Types, NEW c \in Cores, NEW a \in Actors, NEW m \in Message,
           Enqueue(c, a, m), a \in Calls[m.from], m.call => a \in Awaits[m.from],
           place[m.from] = c,
           m.remote = (place[a] # c), UNCHANGED <<place, rep>>,
           \A b \in Actors : turn'[b].busy = turn[b].busy /\ turn'[b].cur = turn[b].cur
    PROVE  \E b \in Boxes : /\ box' = Put(box, b, m) /\ Routed(b, m)
                            /\ b \in {<<"mailbox", a>>, <<"req", <<c, a>>>>}
<1>0. box \in Contents
  BY BoxTypes
<1>1. CASE place[a] = c
  <2> DEFINE b == <<"mailbox", a>>
  <2>1. b \in Boxes /\ b[1] = "mailbox" /\ b[2] = a /\ b = <<"mailbox", a>>
    BY BoxAt
  <2>2. mailbox' = [mailbox EXCEPT ![a] = Append(@, m)] /\ UNCHANGED req
    BY <1>1 DEF Enqueue
  <2>3. mailbox \in [Actors -> Seq(Message)]
    BY DEF Types, QueueType
  <2>4. Put(box, b, m) \in Contents
    BY <1>0, <2>1 DEF Put, Contents
  <2>5. \A d \in Actors : /\ Put(box, b, m)[<<"mailbox", d>>] = mailbox'[d]
                          /\ Put(box, b, m)[<<"turn", d>>]
                             = IF turn'[d].busy THEN <<turn'[d].cur>> ELSE <<>>
    <3>1. ASSUME NEW d \in Actors PROVE Put(box, b, m)[<<"mailbox", d>>] = mailbox'[d]
      <4>1. CASE d = a
        BY <1>0, <2>1, <2>2, <2>3, <4>1, BoxAt DEF Put, Contents
      <4>2. CASE d # a
        <5>1. <<"mailbox", d>> # b
          BY <4>2
        <5> QED BY <1>0, <2>1, <2>2, <2>3, <4>2, <5>1, BoxAt DEF Put, Contents
      <4> QED BY <4>1, <4>2
    <3>2. ASSUME NEW d \in Actors
          PROVE  Put(box, b, m)[<<"turn", d>>]
                 = IF turn'[d].busy THEN <<turn'[d].cur>> ELSE <<>>
      <4>1. <<"turn", d>> # b
        OBVIOUS
      <4> QED BY <1>0, <2>1, <4>1, BoxAt DEF Put, Contents
    <3> QED BY <3>1, <3>2
  <2>6. /\ \A e \in Edges : Put(box, b, m)[<<"req", e>>] = req'[e]
        /\ \A e \in Cores \X Cores : Put(box, b, m)[<<"rep", e>>] = rep'[e]
    BY <1>0, <2>1, <2>2, BoxAt DEF Put, Contents
  <2>7. Routed(b, m)
    BY <1>1 DEF Routed
  <2> HIDE DEF b
  <2>8. box' = Put(box, b, m)
    BY <2>4, <2>5, <2>6, BoxAfter
  <2> QED BY <2>1, <2>7, <2>8
<1>2. CASE place[a] # c
  <2> DEFINE b == <<"req", <<c, a>>>>
  <2>1. b \in Boxes /\ <<c, a>> \in Edges /\ b = <<"req", <<c, a>>>>
    BY BoxAt DEF Edges
  <2>2. req' = [req EXCEPT ![<<c, a>>] = Append(@, m)] /\ UNCHANGED mailbox
    BY <1>2 DEF Enqueue
  <2>3. req \in [Edges -> Seq(Message)]
    BY DEF Types, QueueType
  <2>4. Put(box, b, m) \in Contents
    BY <1>0, <2>1 DEF Put, Contents
  <2>5. \A e \in Edges : Put(box, b, m)[<<"req", e>>] = req'[e]
    <3> SUFFICES ASSUME NEW e \in Edges PROVE Put(box, b, m)[<<"req", e>>] = req'[e]
      OBVIOUS
    <3>1. CASE e = <<c, a>>
      BY <1>0, <2>1, <2>2, <2>3, <3>1, BoxAt DEF Put, Contents
    <3>2. CASE e # <<c, a>>
      <4>1. <<"req", e>> # b
        BY <3>2
      <4> QED BY <1>0, <2>1, <2>2, <2>3, <3>2, <4>1, BoxAt DEF Put, Contents
    <3> QED BY <3>1, <3>2
  <2>6. /\ \A d \in Actors : /\ Put(box, b, m)[<<"mailbox", d>>] = mailbox'[d]
                             /\ Put(box, b, m)[<<"turn", d>>]
                                = IF turn'[d].busy THEN <<turn'[d].cur>> ELSE <<>>
        /\ \A e \in Cores \X Cores : Put(box, b, m)[<<"rep", e>>] = rep'[e]
    BY <1>0, <2>1, <2>2, BoxAt DEF Put, Contents
  <2>7. Routed(b, m)
    BY <1>2 DEF Routed
  <2> HIDE DEF b
  <2>8. box' = Put(box, b, m)
    BY <2>4, <2>5, <2>6, BoxAfter
  <2> QED BY <2>1, <2>7, <2>8
<1> QED BY <1>1, <1>2

(* A send.                                                                 *)
LEMMA SendKeeps ==
    ASSUME Types, Types', Letters, Flow, NEW c \in Cores, NEW a \in Actors, Send(c, a)
    PROVE  Letters' /\ Flow'
<1> USE DEF msgVars, coreVars, histVars
<1> DEFINE m == [id |-> issued', from |-> run[c], call |-> FALSE, remote |-> place[a] # c]
<1>1. Attempt(c, a)
  BY DEF Send
<1>2. /\ run[c] \in Turns /\ a \in Calls[run[c]] /\ issued' = issued + 1
      /\ place[run[c]] = c
  BY <1>1, AttemptNumbers, Constants DEF Flow
<1>3. /\ m \in Message /\ m.id = issued' /\ m.from = run[c] /\ ~ m.call
      /\ m.remote = (place[a] # c)
  BY <1>1, NewMessage
<1>4. /\ Enqueue(c, a, m) /\ UNCHANGED <<place, rep, turn, awaiting, run>>
  BY DEF Send
<1> HIDE DEF m
<1>5. PICK b \in Boxes : box' = Put(box, b, m) /\ Routed(b, m)
  BY <1>2, <1>3, <1>4, EnqueuePuts
<1>6. \A t \in Turns : SameWait(t)
  BY <1>4 DEF SameWait
<1>7. Letters'
  BY <1>2, <1>3, <1>4, <1>5, <1>6, LettersSent
<1>8. Flow'
  BY <1>4 DEF Flow
<1> QED BY <1>7, <1>8

(* An awaited call.                                                        *)
LEMMA CallKeeps ==
    ASSUME Types, Types', Letters, Flow, NEW c \in Cores, NEW a \in Actors, Call(c, a)
    PROVE  Letters' /\ Flow'
<1> USE DEF msgVars, coreVars, histVars
<1> DEFINE m == [id |-> issued', from |-> run[c], call |-> TRUE, remote |-> place[a] # c]
           t == run[c]
<1>1. Attempt(c, a)
  BY DEF Call
<1>2. /\ t \in Turns /\ a \in Calls[t] /\ issued' = issued + 1
      /\ place[t] = c /\ turn[t].busy /\ ~ turn[t].susp
  BY <1>1, AttemptNumbers, Constants DEF Flow
<1>3. /\ m \in Message /\ m.id = issued' /\ m.from = t /\ m.call
      /\ m.remote = (place[a] # c)
  BY <1>1, NewMessage
<1>4. /\ Enqueue(c, a, m) /\ UNCHANGED <<place, rep>> /\ a \in Awaits[t]
      /\ turn' = [turn EXCEPT ![t].susp = TRUE]
      /\ awaiting' = [awaiting EXCEPT ![t] = m.id]
      /\ run' = [run EXCEPT ![c] = NoTurn]
  BY DEF Call
<1> HIDE DEF m, t
<1>5. /\ turn'[t].susp /\ turn'[t].busy = turn[t].busy /\ turn'[t].cur = turn[t].cur
      /\ turn'[t].ready = turn[t].ready
      /\ \A u \in Turns \ {t} : turn'[u] = turn[u]
  BY <1>2, <1>4 DEF Types, TurnType, TurnRecords
<1>6. \A d \in Actors : turn'[d].busy = turn[d].busy /\ turn'[d].cur = turn[d].cur
  BY <1>5, Constants
<1>7. PICK b \in Boxes : box' = Put(box, b, m) /\ Routed(b, m)
  BY <1>2, <1>3, <1>4, <1>6, EnqueuePuts
<1>8. \A u \in Turns \ {t} : SameWait(u)
  BY <1>4, <1>5 DEF SameWait, Types, TurnType
<1>9. Letters'
  BY <1>2, <1>3, <1>4, <1>5, <1>7, <1>8, LettersCalled
<1>10. Flow'
  <2>1. /\ run'[c] = NoTurn /\ \A d \in Cores \ {c} : run'[d] = run[d]
        /\ run \in [Cores -> Turns \cup {NoTurn}] /\ place \in [Turns -> Cores]
        /\ NoTurn \notin Turns /\ place' = place
    BY <1>4, Constants DEF Types, CoreType
  <2>2. run[c] = t
    BY DEF t
  <2>3. ASSUME NEW d \in Cores, run'[d] # NoTurn
        PROVE  place[run'[d]] = d /\ turn'[run'[d]].busy /\ ~ turn'[run'[d]].susp
    <3>1. d # c /\ run'[d] = run[d] /\ run[d] \in Turns /\ place[run[d]] = d
      BY <2>1, <2>3 DEF Flow
    <3>2. run[d] # t
      BY <1>2, <3>1
    <3>3. turn'[run[d]] = turn[run[d]]
      BY <1>5, <3>1, <3>2
    <3>4. run[d] # NoTurn
      BY <2>3, <3>1
    <3>5. turn[run[d]].busy /\ ~ turn[run[d]].susp
      BY <3>4 DEF Flow
    <3> QED BY <3>1, <3>3, <3>5
  <2>4. ASSUME NEW u \in Turns
        PROVE  /\ turn'[u].susp => turn'[u].busy /\ Awaits[u] # {}
               /\ turn'[u].busy /\ ~ turn'[u].susp => run'[place[u]] = u
    <3>1. CASE u = t
      BY <1>2, <1>4, <1>5, <3>1
    <3>2. CASE u # t
      BY <1>2, <1>5, <2>1, <2>2, <3>2 DEF Flow
    <3> QED BY <3>1, <3>2
  <2> QED BY <2>1, <2>3, <2>4 DEF Flow
<1> QED BY <1>9, <1>10

(* The reply rings are large enough: every reply in a ring, and the one to   *)
(* be put there, answers another turn of the receiving core.                 *)
LEMMA ReplyFits ==
    ASSUME Types, Letters, NEW e \in Cores \X Cores, NEW b \in Boxes, b # <<"rep", e>>,
           NEW h \in Held(box, b), h.call, place[h.from] = e[2]
    PROVE  Len(rep[e]) < ReplyCap(e[2])
<1> DEFINE q == rep[e]
           n == Len(q)
           d == e[2]
           S == {t \in Turns : place[t] = d}
           f == [i \in 1 .. n |-> q[i].from]
<1>1. /\ q \in Seq(Message) /\ n \in Nat /\ <<"rep", e>> \in Boxes /\ box[<<"rep", e>>] = q
      /\ d \in Cores
  BY BoxAt DEF Types, QueueType
<1>2. /\ UniqueIn(box) /\ box \in Contents
      /\ \A c \in Boxes : \A x \in Held(box, c) :
             x \in Message /\ x.from \in Turns /\ KnownMessage(x) /\ Routed(c, x)
  BY LettersKnown
<1>3. ASSUME NEW i \in 1 .. n
      PROVE  /\ q[i] \in Held(box, <<"rep", e>>)
             /\ q[i].from \in Turns /\ place[q[i].from] = d
             /\ awaiting[q[i].from] = q[i].id
  <2>1. q[i] \in Held(box, <<"rep", e>>)
    BY <1>1 DEF Held
  <2>2. q[i].from \in Turns /\ KnownMessage(q[i]) /\ Routed(<<"rep", e>>, q[i])
    BY <1>1, <1>2, <2>1
  <2> QED BY <2>1, <2>2 DEF Routed, KnownMessage
<1>4. h.from \in S /\ awaiting[h.from] = h.id
  BY <1>2 DEF KnownMessage
<1>5. ASSUME NEW i \in 1 .. n PROVE q[i].from # h.from
  <2>1. q[i].id # h.id
    BY <1>1, <1>2, <1>3, HeldOnce
  <2> QED BY <1>3, <1>4, <2>1
<1>6. ASSUME NEW i \in 1 .. n, NEW j \in 1 .. n, q[i].from = q[j].from PROVE i = j
  <2>1. q[i].id = q[j].id
    BY <1>3, <1>6
  <2> QED BY <1>1, <1>2, <2>1 DEF UniqueIn
<1>7. IsFiniteSet(S) /\ IsFiniteSet(S \ {h.from})
      /\ Cardinality(S \ {h.from}) = Cardinality(S) - 1 /\ Cardinality(S) \in Nat
  <2>1. S \in SUBSET Turns /\ IsFiniteSet(Turns)
    BY Constants
  <2> HIDE DEF S
  <2>2. IsFiniteSet(S)
    BY <2>1, FS_Subset
  <2>3. Cardinality(S) \in Nat
    BY <2>2, FS_CardinalityType
  <2> QED BY <1>4, <2>2, <2>3, FS_RemoveElement
<1>8. IsFiniteSet(1 .. n) /\ Cardinality(1 .. n) = n
  BY <1>1, FS_Interval, SMTT(30)
<1>9. f \in Injection(1 .. n, S \ {h.from})
  <2>1. f \in [1 .. n -> S \ {h.from}]
    BY <1>3, <1>5
  <2>2. \A i, j \in 1 .. n : f[i] = f[j] => i = j
    BY <1>6
  <2> HIDE DEF f, n, S
  <2> QED BY <2>1, <2>2 DEF Injection, IsInjective
<1>10. n <= Cardinality(S) - 1
  <2> HIDE DEF f, n, S
  <2>1. Cardinality(1 .. n) <= Cardinality(S \ {h.from})
    BY <1>7, <1>9, FS_Injection
  <2> QED BY <1>7, <1>8, <2>1
<1>11. ReplyCap(d) = Cardinality(S)
  <2> DEFINE A == {a \in Actors : place[a] = d}
  <2>1. IsFiniteSet(A) /\ Cardinality(A) \in Nat
    BY Constants, FS_Subset, FS_CardinalityType
  <2>2. place[Test] = 0 /\ Turns = Actors \cup {Test} /\ Test \notin Actors
    BY Constants DEF Types, CoreType
  <2>3. CASE d = 0
    <3>1. S = A \cup {Test} /\ Test \notin A
      BY <2>2, <2>3
    <3> HIDE DEF A, S
    <3>2. Cardinality(S) = Cardinality(A) + 1
      BY <2>1, <3>1, FS_AddElement
    <3> QED BY <2>3, <3>2 DEF ReplyCap, A
  <2>4. CASE d # 0
    <3>1. S = A
      BY <2>2, <2>4
    <3> HIDE DEF S
    <3> QED BY <2>1, <2>4, <3>1 DEF ReplyCap
  <2> QED BY <2>3, <2>4
<1> HIDE DEF S, f
<1> QED BY <1>1, <1>7, <1>10, <1>11

\* Turn t's part in the flow is as before.
SameFlow(t) == turn'[t].busy = turn[t].busy /\ turn'[t].susp = turn[t].susp

(* A turn that ends leaves its core without one.                           *)
LEMMA FlowLeft ==
    ASSUME Types, Flow, UNCHANGED place, NEW c \in Cores, run[c] \in Turns,
           run' = [run EXCEPT ![c] = NoTurn],
           ~ turn'[run[c]].busy, turn'[run[c]].susp = turn[run[c]].susp,
           \A u \in Turns \ {run[c]} : SameFlow(u)
    PROVE  Flow'
<1> DEFINE t == run[c]
<1>1. /\ run'[c] = NoTurn /\ \A d \in Cores \ {c} : run'[d] = run[d]
      /\ run \in [Cores -> Turns \cup {NoTurn}] /\ place \in [Turns -> Cores]
      /\ NoTurn \notin Turns /\ t \in Turns
  BY Constants DEF Types, CoreType
<1>2. place[t] = c /\ ~ turn[t].susp
  BY <1>1 DEF Flow
<1> HIDE DEF t
<1>3. ASSUME NEW d \in Cores, run'[d] # NoTurn
      PROVE  place[run'[d]] = d /\ turn'[run'[d]].busy /\ ~ turn'[run'[d]].susp
  <2>1. /\ d # c /\ run'[d] = run[d] /\ run[d] \in Turns /\ place[run[d]] = d
        /\ turn[run[d]].busy /\ ~ turn[run[d]].susp
    BY <1>1, <1>3 DEF Flow
  <2>2. run[d] # t
    BY <1>2, <2>1
  <2>3. SameFlow(run[d])
    BY <2>1, <2>2 DEF t
  <2> QED BY <2>1, <2>3 DEF SameFlow
<1>4. ASSUME NEW u \in Turns
      PROVE  /\ turn'[u].susp => turn'[u].busy /\ Awaits[u] # {}
             /\ turn'[u].busy /\ ~ turn'[u].susp => run'[place[u]] = u
  <2>1. CASE u = t
    BY <1>2, <2>1 DEF t
  <2>2. CASE u # t
    <3>1. SameFlow(u)
      BY <2>2 DEF t
    <3>2. ASSUME turn[u].busy, ~ turn[u].susp PROVE run'[place[u]] = u
      <4>1. run[place[u]] = u /\ place[u] \in Cores
        BY <1>1, <3>2 DEF Flow
      <4>2. place[u] # c
        BY <2>2, <4>1 DEF t
      <4> QED BY <1>1, <4>1, <4>2
    <3> QED BY <3>1, <3>2 DEF SameFlow, Flow
  <2> QED BY <2>1, <2>2
<1> QED BY <1>3, <1>4 DEF Flow

(* A turn that starts or goes on does so on its own core, which had none.  *)
LEMMA FlowEntered ==
    ASSUME Types, Flow, UNCHANGED place, NEW c \in Cores, pc[c] # "run", NEW t \in Turns,
           place[t] = c, run' = [run EXCEPT ![c] = t],
           turn'[t].busy, ~ turn'[t].susp, \A u \in Turns \ {t} : SameFlow(u)
    PROVE  Flow'
<1>1. /\ run'[c] = t /\ \A d \in Cores \ {c} : run'[d] = run[d]
      /\ run \in [Cores -> Turns \cup {NoTurn}] /\ place \in [Turns -> Cores]
      /\ NoTurn \notin Turns /\ run[c] = NoTurn
  BY Constants DEF Types, CoreType
<1>2. ASSUME NEW d \in Cores, run'[d] # NoTurn
      PROVE  place[run'[d]] = d /\ turn'[run'[d]].busy /\ ~ turn'[run'[d]].susp
  <2>1. CASE d = c
    BY <1>1, <2>1
  <2>2. CASE d # c
    <3>1. /\ run'[d] = run[d] /\ run[d] \in Turns /\ place[run[d]] = d
          /\ turn[run[d]].busy /\ ~ turn[run[d]].susp
      BY <1>1, <1>2, <2>2 DEF Flow
    <3>2. SameFlow(run[d])
      BY <2>2, <3>1
    <3> QED BY <3>1, <3>2 DEF SameFlow
  <2> QED BY <2>1, <2>2
<1>3. ASSUME NEW u \in Turns
      PROVE  /\ turn'[u].susp => turn'[u].busy /\ Awaits[u] # {}
             /\ turn'[u].busy /\ ~ turn'[u].susp => run'[place[u]] = u
  <2>1. CASE u = t
    BY <1>1, <2>1
  <2>2. CASE u # t
    <3>1. SameFlow(u)
      BY <2>2
    <3>2. ASSUME turn[u].busy, ~ turn[u].susp PROVE run'[place[u]] = u
      <4>1. run[place[u]] = u /\ place[u] \in Cores
        BY <1>1, <3>2 DEF Flow
      <4>2. place[u] # c
        BY <1>1, <4>1
      <4> QED BY <1>1, <4>1, <4>2
    <3> QED BY <3>1, <3>2 DEF SameFlow, Flow
  <2> QED BY <2>1, <2>2
<1> QED BY <1>2, <1>3 DEF Flow

(* The turn that returns empties the turn's box.                           *)
LEMMA FreeCuts ==
    ASSUME Types, NEW t \in Actors, turn[t].busy, UNCHANGED <<mailbox, req, rep>>,
           ~ turn'[t].busy,
           \A a \in Actors \ {t} : turn'[a].busy = turn[a].busy /\ turn'[a].cur = turn[a].cur
    PROVE  box' = Cut(box, <<"turn", t>>)
<1> DEFINE b == <<"turn", t>>
<1>1. /\ box \in Contents /\ b \in Boxes /\ box[b] = <<turn[t].cur>>
  BY BoxTypes, BoxAt
<1>2. /\ Cut(box, b)[b] = <<>> /\ \A d \in Boxes \ {b} : Cut(box, b)[d] = box[d]
      /\ Cut(box, b) \in Contents
  <2>1. Tail(box[b]) = <<>> /\ <<>> \in Seq(Message)
    BY <1>1
  <2> HIDE DEF b
  <2> QED BY <1>1, <2>1 DEF Cut, Contents
<1>3. ASSUME NEW a \in Actors
      PROVE  /\ Cut(box, b)[<<"mailbox", a>>] = mailbox'[a]
             /\ Cut(box, b)[<<"turn", a>>] = IF turn'[a].busy THEN <<turn'[a].cur>> ELSE <<>>
  <2>1. <<"mailbox", a>> # b
    OBVIOUS
  <2>2. Cut(box, b)[<<"mailbox", a>>] = mailbox'[a]
    BY <1>2, <2>1, BoxAt
  <2>3. CASE a = t
    BY <1>2, <2>2, <2>3
  <2>4. CASE a # t
    <3>1. <<"turn", a>> # b
      BY <2>4
    <3>2. Cut(box, b)[<<"turn", a>>] = box[<<"turn", a>>]
      BY <1>2, <3>1, BoxAt
    <3> QED BY <2>2, <2>4, <3>2, BoxAt
  <2> QED BY <2>3, <2>4
<1>4. /\ \A e \in Edges : Cut(box, b)[<<"req", e>>] = req'[e]
      /\ \A e \in Cores \X Cores : Cut(box, b)[<<"rep", e>>] = rep'[e]
  BY <1>2, BoxAt
<1> HIDE DEF b
<1>5. box' = Cut(box, b)
  BY <1>2, <1>3, <1>4, BoxAfter
<1> QED BY <1>5 DEF b

(* A reply moves from the turn's box to a reply ring.                      *)
LEMMA ReplyMoves ==
    ASSUME Types, NEW t \in Actors, turn[t].busy, NEW e \in Cores \X Cores,
           UNCHANGED <<mailbox, req>>, rep' = [rep EXCEPT ![e] = Append(@, turn[t].cur)],
           ~ turn'[t].busy,
           \A a \in Actors \ {t} : turn'[a].busy = turn[a].busy /\ turn'[a].cur = turn[a].cur
    PROVE  box' = Put(Cut(box, <<"turn", t>>), <<"rep", e>>, turn[t].cur)
<1> DEFINE b == <<"turn", t>>
           d == <<"rep", e>>
           m == turn[t].cur
           B == Put(Cut(box, b), d, m)
<1>0. m \in Message
  BY Constants DEF Types, TurnType, TurnRecords
<1>1. /\ box \in Contents /\ b \in Boxes /\ d \in Boxes /\ box[b] = <<m>> /\ b # d
      /\ box[d] = rep[e] /\ rep[e] \in Seq(Message)
  BY BoxTypes, BoxAt DEF Types, QueueType
<1>2. /\ Cut(box, b)[b] = <<>> /\ \A f \in Boxes \ {b} : Cut(box, b)[f] = box[f]
      /\ Cut(box, b) \in Contents
  <2>1. Tail(box[b]) = <<>> /\ <<>> \in Seq(Message)
    BY <1>0, <1>1
  <2> HIDE DEF b
  <2> QED BY <1>1, <2>1 DEF Cut, Contents
<1>3. /\ B \in Contents /\ B[b] = <<>> /\ B[d] = Append(rep[e], m)
      /\ \A f \in Boxes \ {b, d} : B[f] = box[f]
  <2> DEFINE C == Cut(box, b)
  <2>1. Append(rep[e], m) \in Seq(Message) /\ C[d] = rep[e] /\ C \in Contents
    BY <1>0, <1>1, <1>2
  <2>2. B = [C EXCEPT ![d] = Append(@, m)]
    BY DEF Put
  <2> HIDE DEF b, d, m, C, B
  <2>3. B \in Contents /\ B[d] = Append(rep[e], m) /\ \A f \in Boxes \ {d} : B[f] = C[f]
    BY <1>1, <2>1, <2>2 DEF Contents
  <2> QED BY <1>1, <1>2, <2>3 DEF C
<1> HIDE DEF B
<1>4. ASSUME NEW a \in Actors
      PROVE  /\ B[<<"mailbox", a>>] = mailbox'[a]
             /\ B[<<"turn", a>>] = IF turn'[a].busy THEN <<turn'[a].cur>> ELSE <<>>
  <2>1. <<"mailbox", a>> \notin {b, d}
    OBVIOUS
  <2>2. B[<<"mailbox", a>>] = mailbox'[a]
    BY <1>3, <2>1, BoxAt
  <2>3. CASE a = t
    BY <1>3, <2>2, <2>3
  <2>4. CASE a # t
    <3>1. <<"turn", a>> \notin {b, d}
      BY <2>4
    <3>2. B[<<"turn", a>>] = box[<<"turn", a>>]
      BY <1>3, <3>1, BoxAt
    <3> QED BY <2>2, <2>4, <3>2, BoxAt
  <2> QED BY <2>3, <2>4
<1>5. ASSUME NEW f \in Edges PROVE B[<<"req", f>>] = req'[f]
  <2>1. <<"req", f>> \notin {b, d}
    OBVIOUS
  <2> QED BY <1>3, <2>1, BoxAt
<1>6. ASSUME NEW f \in Cores \X Cores PROVE B[<<"rep", f>>] = rep'[f]
  <2>0. rep' = [rep EXCEPT ![e] = Append(rep[e], m)] /\ rep \in [Cores \X Cores -> Seq(Message)]
    BY DEF Types, QueueType
  <2>1. CASE f = e
    BY <1>3, <2>0, <2>1
  <2>2. CASE f # e
    <3>1. <<"rep", f>> \notin {b, d}
      BY <2>2
    <3> QED BY <1>3, <2>0, <2>2, <3>1, BoxAt
  <2> QED BY <2>1, <2>2
<1> HIDE DEF b, d, m
<1>7. box' = B
  BY <1>3, <1>4, <1>5, <1>6, BoxAfter
<1> QED BY <1>7 DEF B, b, d, m

(* A method returns, with its reply.                                       *)
LEMMA CompleteKeeps ==
    ASSUME Types, Types', Letters, Flow, NEW c \in Cores, Complete(c)
    PROVE  Letters' /\ Flow' /\ UNCHANGED refused
<1> USE DEF msgVars, coreVars, histVars
<1> DEFINE t == run[c]
           m == turn[t].cur
           b == <<"turn", t>>
           back == <<c, place[m.from]>>
<1>1. /\ t \in Turns /\ t # Test /\ t \in Actors
  BY Constants DEF Complete, Types, CoreType
<1>2. /\ place[t] = c /\ turn[t].busy /\ ~ turn[t].susp
  BY <1>1, Constants DEF Flow
<1>3. /\ UNCHANGED <<place, mailbox, req, awaiting, issued>>
      /\ run' = [run EXCEPT ![c] = NoTurn]
      /\ Deliver(c, t, Freed(t))
  BY DEF Complete, Freed
<1>4. /\ b \in Boxes /\ box[b] = <<m>> /\ box[b] # <<>> /\ Head(box[b]) = m
      /\ m \in Held(box, b) /\ m \in Message
  <2>1. b \in Boxes /\ box[b] = <<m>>
    BY <1>1, <1>2, BoxAt
  <2>2. box[b] # <<>> /\ Head(box[b]) = m
    BY <2>1
  <2> HIDE DEF b, m
  <2> QED BY <2>1, <2>2, HeldTypes, BoxTypes
<1> HIDE DEF m, b, back, t
<1>5. KnownMessage(m) /\ Routed(b, m) /\ m.from \in Turns
  BY <1>4, LettersKnown
<1>6. /\ Freed(t) \in [Turns -> TurnRecords]
      /\ ~ Freed(t)[t].busy
      /\ Freed(t)[t].susp = turn[t].susp /\ Freed(t)[t].ready = turn[t].ready
      /\ Freed(t)[t].reply = turn[t].reply
      /\ \A u \in Turns : u # t => Freed(t)[u] = turn[u]
  BY <1>1, FreedTypes DEF Types, TurnType
<1>7. m.call => m.from # t /\ turn[m.from].susp
  BY <1>2, <1>5 DEF KnownMessage, Letters, Waits
<1>8. back \in Cores \X Cores /\ (m.call => (m.remote <=> back[2] # c))
  <2>1. place[m.from] \in Cores
    <3>1. place \in [Turns -> Cores]
      BY Constants DEF Types, CoreType
    <3> QED BY <1>5, <3>1
  <2>2. b[1] = "turn" /\ b[2] = t
    BY DEF b
  <2> QED BY <1>2, <1>5, <2>1, <2>2 DEF Routed, back
<1>9. CASE ~ m.call
  <2>1. turn' = Freed(t) /\ UNCHANGED <<rep, refused>>
    BY <1>3, <1>9 DEF Deliver, m
  <2>2. \A u \in Turns : SameWait(u)
    BY <1>3, <1>6, <2>1 DEF SameWait
  <2>3. box' = Cut(box, b)
    <3>1. \A a \in Actors \ {t} : turn'[a].busy = turn[a].busy /\ turn'[a].cur = turn[a].cur
      BY <1>6, <2>1, Constants
    <3> QED BY <1>1, <1>2, <1>3, <1>6, <2>1, <3>1, FreeCuts DEF b
  <2>4. Letters'
    BY <1>3, <1>4, <1>9, <2>2, <2>3, LettersDropped
  <2>5. \A u \in Turns \ {t} : SameFlow(u)
    BY <1>6, <2>1 DEF SameFlow
  <2>6. Flow'
    BY <1>1, <1>3, <1>6, <2>1, <2>5, FlowLeft DEF t
  <2> QED BY <2>1, <2>4, <2>6
<1>10. CASE m.call /\ ~ m.remote
  <2>1. turn' = Answered(Freed(t), m) /\ UNCHANGED <<rep, refused>>
    BY <1>3, <1>10 DEF Deliver, m, Answered
  <2>2. /\ turn'[m.from].ready /\ turn'[m.from].reply = m.id
        /\ turn'[m.from].busy = Freed(t)[m.from].busy
        /\ turn'[m.from].susp = Freed(t)[m.from].susp
        /\ turn'[m.from].cur = Freed(t)[m.from].cur
        /\ \A u \in Turns : u # m.from => turn'[u] = Freed(t)[u]
    BY <1>4, <1>6, <2>1, AnsweredTypes
  <2>3. \A u \in Turns \ {m.from} : SameWait(u)
    BY <1>3, <1>6, <2>2 DEF SameWait
  <2>4. /\ ~ turn'[t].busy /\ turn'[t].susp = turn[t].susp
        /\ \A u \in Turns \ {t} : SameFlow(u) /\ turn'[u].cur = turn[u].cur
    <3>1. ~ turn'[t].busy /\ turn'[t].susp = turn[t].susp
      BY <1>1, <1>6, <1>7, <1>10, <2>2
    <3>2. ASSUME NEW u \in Turns \ {t} PROVE SameFlow(u) /\ turn'[u].cur = turn[u].cur
      <4>1. Freed(t)[u] = turn[u]
        BY <1>6
      <4>2. CASE u = m.from
        BY <2>2, <4>1, <4>2 DEF SameFlow
      <4>3. CASE u # m.from
        BY <2>2, <4>1, <4>3 DEF SameFlow
      <4> QED BY <4>2, <4>3
    <3> QED BY <3>1, <3>2
  <2>5. box' = Cut(box, b)
    BY <1>1, <1>2, <1>3, <2>1, <2>4, FreeCuts, Constants DEF b, SameFlow
  <2>6. turn'[m.from].susp = turn[m.from].susp
    BY <1>5, <1>6, <1>7, <1>10, <2>2
  <2>7. Letters'
    BY <1>3, <1>4, <1>10, <2>2, <2>3, <2>5, <2>6, LettersAnswered
  <2>8. Flow'
    BY <1>1, <1>3, <2>4, FlowLeft DEF t
  <2> QED BY <2>1, <2>7, <2>8
<1>11. CASE m.call /\ m.remote
  <2>1. Len(rep[back]) < ReplyCap(back[2])
    <3>1. b # <<"rep", back>>
      BY DEF b
    <3>2. place[m.from] = back[2]
      BY DEF back
    <3> QED BY <1>4, <1>8, <1>11, <3>1, <3>2, ReplyFits
  <2>2. /\ turn' = Freed(t) /\ UNCHANGED refused
        /\ rep' = [rep EXCEPT ![back] = Append(@, m)]
    BY <1>3, <1>11, <2>1 DEF Deliver, m, back
  <2>3. \A u \in Turns : SameWait(u)
    BY <1>3, <1>6, <2>2 DEF SameWait
  <2>4. <<"rep", back>> \in Boxes \ {b}
    BY <1>8, BoxAt DEF b
  <2>5. Routed(<<"rep", back>>, m)
    <3>1. Core(c)
      BY <1>1, <1>2 DEF Core
    <3>2. t \in Awaits[m.from] /\ place[t] = c
      BY <1>2, <1>5, <1>11 DEF Routed, b
    <3> QED BY <1>8, <1>11, <3>1, <3>2 DEF Routed, back
  <2>6. box' = Put(Cut(box, b), <<"rep", back>>, m)
    <3>1. \A a \in Actors \ {t} : turn'[a].busy = turn[a].busy /\ turn'[a].cur = turn[a].cur
      BY <1>6, <2>2, Constants
    <3>2. rep' = [rep EXCEPT ![back] = Append(@, turn[t].cur)] /\ ~ turn'[t].busy
      BY <1>6, <2>2 DEF m
    <3>3. box' = Put(Cut(box, <<"turn", t>>), <<"rep", back>>, turn[t].cur)
      BY <1>1, <1>2, <1>3, <1>8, <3>1, <3>2, ReplyMoves
    <3> QED BY <3>3 DEF b, m
  <2>7. Letters'
    BY <1>3, <1>4, <2>3, <2>4, <2>5, <2>6, LettersMoved
  <2>8. \A u \in Turns \ {t} : SameFlow(u)
    BY <1>6, <2>2 DEF SameFlow
  <2>9. Flow'
    BY <1>1, <1>3, <1>6, <2>2, <2>8, FlowLeft DEF t
  <2> QED BY <2>2, <2>7, <2>9
<1> QED BY <1>9, <1>10, <1>11

(* The test returns.                                                       *)
LEMMA TestPassesKeeps ==
    ASSUME Types, Types', Letters, Flow, TestPasses
    PROVE  Letters' /\ Flow' /\ UNCHANGED refused
<1> USE DEF msgVars, coreVars, histVars
<1>1. /\ UNCHANGED <<place, mailbox, req, rep, awaiting, issued, refused>>
      /\ run[0] = Test /\ run' = [run EXCEPT ![0] = NoTurn]
      /\ turn' = [turn EXCEPT ![Test].busy = FALSE]
  BY DEF TestPasses
<1>2. /\ ~ turn'[Test].busy /\ turn'[Test].susp = turn[Test].susp
      /\ turn'[Test].ready = turn[Test].ready /\ turn'[Test].reply = turn[Test].reply
      /\ \A t \in Turns \ {Test} : turn'[t] = turn[t]
  BY <1>1, Constants DEF Types, TurnType, TurnRecords
<1>3. \A t \in Turns : SameWait(t)
  BY <1>1, <1>2 DEF SameWait
<1>4. box' = box
  <2>1. \A a \in Actors : turn'[a] = turn[a]
    BY <1>2, Constants
  <2>2. \A a \in Actors : /\ box[<<"mailbox", a>>] = mailbox'[a]
                          /\ box[<<"turn", a>>] = IF turn'[a].busy THEN <<turn'[a].cur>> ELSE <<>>
    BY <1>1, <2>1, BoxAt
  <2>3. /\ \A e \in Edges : box[<<"req", e>>] = req'[e]
        /\ \A e \in Cores \X Cores : box[<<"rep", e>>] = rep'[e]
    BY <1>1, BoxAt
  <2> QED BY <2>2, <2>3, BoxAfter, BoxTypes
<1>5. Letters'
  BY <1>1, <1>3, <1>4, LettersQuiet
<1>6. Flow'
  BY <1>1, <1>2, FlowLeft, Constants DEF SameFlow
<1> QED BY <1>1, <1>5, <1>6

(* A turn is resumed with its answer, the test's or an actor's.            *)
LEMMA ResumeKeeps ==
    ASSUME Types, Types', Letters, Flow, NEW t \in Turns, NEW c \in Cores, place[t] = c,
           pc[c] # "run", turn[t].busy, turn[t].ready,
           turn' = Resumed(t), awaiting' = [awaiting EXCEPT ![t] = 0],
           run' = [run EXCEPT ![c] = t], UNCHANGED <<place, mailbox, req, rep, issued>>
    PROVE  Letters' /\ Flow'
<1>1. /\ ~ turn'[t].susp /\ ~ turn'[t].ready
      /\ turn'[t].busy = turn[t].busy /\ turn'[t].cur = turn[t].cur
      /\ \A u \in Turns : u # t => turn'[u] = turn[u]
  BY ResumedTypes DEF Types, TurnType
<1>2. \A u \in Turns \ {t} : SameWait(u) /\ SameFlow(u)
  BY <1>1 DEF Types, TurnType, SameWait, SameFlow
<1>3. box' = box
  <2>1. \A a \in Actors : turn'[a].busy = turn[a].busy /\ turn'[a].cur = turn[a].cur
    BY <1>1, Constants
  <2>2. \A a \in Actors : /\ box[<<"mailbox", a>>] = mailbox'[a]
                          /\ box[<<"turn", a>>] = IF turn'[a].busy THEN <<turn'[a].cur>> ELSE <<>>
    BY <2>1, BoxAt, ZenonT(30)
  <2>3. /\ \A e \in Edges : box[<<"req", e>>] = req'[e]
        /\ \A e \in Cores \X Cores : box[<<"rep", e>>] = rep'[e]
    BY BoxAt
  <2> QED BY <2>2, <2>3, BoxAfter, BoxTypes
<1>4. Letters'
  BY <1>1, <1>2, <1>3, LettersResumed
<1>5. Flow'
  BY <1>1, <1>2, FlowEntered
<1> QED BY <1>4, <1>5

(* The checkpoint.                                                         *)
LEMMA CheckpointKeeps ==
    ASSUME Types, Types', Letters, Flow, NEW c \in Cores, Checkpoint(c)
    PROVE  Letters' /\ Flow' /\ UNCHANGED refused
<1> USE DEF msgVars, coreVars, histVars
<1>1. UNCHANGED <<place, mailbox, req, rep, issued, refused>> /\ pc[c] # "run"
  BY DEF Checkpoint
<1>2. CASE c = 0 /\ turn[Test].busy /\ turn[Test].ready
  <2>1. /\ turn' = Resumed(Test) /\ awaiting' = [awaiting EXCEPT ![Test] = 0]
        /\ run' = [run EXCEPT ![c] = Test]
    BY <1>2 DEF Checkpoint
  <2>2. Test \in Turns /\ place[Test] = c
    BY <1>2, Constants DEF Types, CoreType
  <2> QED BY <1>1, <1>2, <2>1, <2>2, ResumeKeeps
<1>3. CASE ~ (c = 0 /\ turn[Test].busy /\ turn[Test].ready)
  <2>1. UNCHANGED <<turn, awaiting, run>>
    BY <1>3 DEF Checkpoint
  <2> QED BY <1>1, <2>1, StillKeeps
<1> QED BY <1>2, <1>3

(* rt_select starts a turn: the message moves from the mailbox to the turn. *)
LEMMA StartMoves ==
    ASSUME Types, NEW a \in Actors, NEW m \in Message, ~ turn[a].busy,
           turn' = Started(a, m), mailbox' = [mailbox EXCEPT ![a] = Tail(@)],
           m = Head(mailbox[a]), mailbox[a] # <<>>, UNCHANGED <<req, rep>>
    PROVE  box' = Put(Cut(box, <<"mailbox", a>>), <<"turn", a>>, m)
<1> DEFINE b == <<"mailbox", a>>
           d == <<"turn", a>>
           C == Cut(box, b)
           B == Put(C, d, m)
<1>1. /\ box \in Contents /\ b \in Boxes /\ d \in Boxes /\ b # d
      /\ box[b] = mailbox[a] /\ box[d] = <<>> /\ mailbox[a] \in Seq(Message)
      /\ mailbox \in [Actors -> Seq(Message)]
  BY BoxTypes, BoxAt DEF Types, QueueType
<1>2. Tail(mailbox[a]) \in Seq(Message) /\ Append(<<>>, m) = <<m>> /\ <<m>> \in Seq(Message)
  <2> DEFINE q == mailbox[a]
  <2>1. q \in Seq(Message) /\ q # <<>>
    BY <1>1
  <2> HIDE DEF q
  <2>2. Tail(q) \in Seq(Message)
    BY <2>1
  <2> QED BY <2>2 DEF q
<1>3. /\ C \in Contents /\ C[b] = Tail(mailbox[a])
      /\ \A f \in Boxes \ {b} : C[f] = box[f]
  <2> HIDE DEF b, d
  <2> QED BY <1>1, <1>2 DEF Cut, Contents
<1> HIDE DEF C
<1>4. /\ B \in Contents /\ B[d] = <<m>> /\ \A f \in Boxes \ {d} : B[f] = C[f]
  <2> HIDE DEF b, d
  <2> QED BY <1>1, <1>2, <1>3 DEF Put, Contents
<1> HIDE DEF B
<1>5. turn'[a].busy /\ turn'[a].cur = m /\ \A u \in Turns : u # a => turn'[u] = turn[u]
  BY StartedTypes, Constants DEF Types, TurnType
<1>6. ASSUME NEW u \in Actors
      PROVE  /\ B[<<"mailbox", u>>] = mailbox'[u]
             /\ B[<<"turn", u>>] = IF turn'[u].busy THEN <<turn'[u].cur>> ELSE <<>>
  <2>1. CASE u = a
    BY <1>1, <1>3, <1>4, <1>5, <2>1
  <2>2. CASE u # a
    <3>1. <<"mailbox", u>> \notin {b, d} /\ <<"turn", u>> \notin {b, d}
      BY <2>2
    <3>2. /\ B[<<"mailbox", u>>] = box[<<"mailbox", u>>]
          /\ B[<<"turn", u>>] = box[<<"turn", u>>]
      BY <1>3, <1>4, <3>1, BoxAt
    <3>3. turn'[u] = turn[u] /\ mailbox'[u] = mailbox[u]
      BY <1>1, <1>5, <2>2, Constants
    <3> QED BY <3>2, <3>3, BoxAt
  <2> QED BY <2>1, <2>2
<1>7. ASSUME NEW f \in Edges PROVE B[<<"req", f>>] = req'[f]
  <2>1. <<"req", f>> \notin {b, d}
    OBVIOUS
  <2> QED BY <1>3, <1>4, <2>1, BoxAt
<1>8. ASSUME NEW f \in Cores \X Cores PROVE B[<<"rep", f>>] = rep'[f]
  <2>1. <<"rep", f>> \notin {b, d}
    OBVIOUS
  <2> QED BY <1>3, <1>4, <2>1, BoxAt
<1> HIDE DEF b, d
<1>9. box' = B
  BY <1>4, <1>6, <1>7, <1>8, BoxAfter
<1> QED BY <1>9 DEF B, C, b, d

(* rt_select.                                                              *)
LEMMA SelectKeeps ==
    ASSUME Types, Types', Letters, Flow, NEW c \in Cores, NEW a \in Actors, Select(c, a)
    PROVE  Letters' /\ Flow' /\ UNCHANGED refused
<1> USE DEF msgVars, coreVars, histVars
<1>1. /\ UNCHANGED <<place, req, rep, issued, refused>> /\ pc[c] # "run"
      /\ run' = [run EXCEPT ![c] = a] /\ place[a] = c /\ Selectable(a) /\ a \in Turns
  BY Constants DEF Select, Chosen, Slots
<1>2. CASE turn[a].busy
  <2>1. /\ turn' = Resumed(a) /\ awaiting' = [awaiting EXCEPT ![a] = 0]
        /\ UNCHANGED mailbox /\ turn[a].ready
    BY <1>1, <1>2 DEF Select, Selectable
  <2> QED BY <1>1, <1>2, <2>1, ResumeKeeps
<1>3. CASE ~ turn[a].busy
  <2> DEFINE m == Head(mailbox[a])
             b == <<"mailbox", a>>
             d == <<"turn", a>>
  <2>1. /\ turn' = Started(a, m) /\ mailbox' = [mailbox EXCEPT ![a] = Tail(@)]
        /\ UNCHANGED awaiting /\ mailbox[a] # <<>>
    BY <1>1, <1>3 DEF Select, Started, Selectable
  <2>2. /\ b \in Boxes /\ d \in Boxes \ {b} /\ box[b] = mailbox[a] /\ box \in Contents
    BY BoxAt, BoxTypes
  <2> HIDE DEF m, b, d
  <2>3. m \in Held(box, b) /\ m \in Message /\ m = Head(box[b]) /\ box[b] # <<>>
    BY <2>1, <2>2, HeldTypes DEF m
  <2>4. Routed(b, m)
    BY <2>2, <2>3, LettersKnown
  <2>5. Routed(d, m)
    BY <2>4 DEF Routed, b, d
  <2>6. /\ turn'[a].busy /\ turn'[a].susp = turn[a].susp /\ turn'[a].ready = turn[a].ready
        /\ turn'[a].reply = turn[a].reply
        /\ \A u \in Turns : u # a => turn'[u] = turn[u]
    BY <1>1, <2>1, <2>3, StartedTypes DEF Types, TurnType
  <2>7. \A u \in Turns : SameWait(u)
    BY <2>1, <2>6 DEF SameWait
  <2>8. box' = Put(Cut(box, b), d, m)
    <3>1. box' = Put(Cut(box, <<"mailbox", a>>), <<"turn", a>>, m)
      BY <1>1, <1>3, <2>1, <2>3, StartMoves DEF m
    <3> QED BY <3>1 DEF b, d
  <2>9. Letters'
    BY <1>1, <2>2, <2>3, <2>5, <2>7, <2>8, LettersMoved
  <2>10. ~ turn[a].susp
    BY <1>1, <1>3 DEF Flow
  <2>11. \A u \in Turns \ {a} : SameFlow(u)
    BY <2>6 DEF SameFlow
  <2>12. Flow'
    BY <1>1, <2>6, <2>10, <2>11, FlowEntered
  <2> QED BY <1>1, <2>9, <2>12
<1> QED BY <1>2, <1>3

(* A drained reply leaves its ring.                                        *)
LEMMA ReplyCuts ==
    ASSUME Types, NEW e \in Cores \X Cores, rep[e] # <<>>, UNCHANGED <<mailbox, req>>,
           rep' = [rep EXCEPT ![e] = Tail(@)],
           \A a \in Actors : turn'[a].busy = turn[a].busy /\ turn'[a].cur = turn[a].cur
    PROVE  box' = Cut(box, <<"rep", e>>)
<1> DEFINE b == <<"rep", e>>
           B == Cut(box, b)
<1>1. /\ box \in Contents /\ b \in Boxes /\ box[b] = rep[e] /\ rep[e] \in Seq(Message)
      /\ rep \in [Cores \X Cores -> Seq(Message)]
  BY BoxTypes, BoxAt DEF Types, QueueType
<1>2. Tail(rep[e]) \in Seq(Message)
  <2> DEFINE q == rep[e]
  <2>1. q \in Seq(Message) /\ q # <<>>
    BY <1>1
  <2> HIDE DEF q
  <2>2. Tail(q) \in Seq(Message)
    BY <2>1
  <2> QED BY <2>2 DEF q
<1>3. B \in Contents /\ B[b] = Tail(rep[e]) /\ \A f \in Boxes \ {b} : B[f] = box[f]
  <2> HIDE DEF b
  <2> QED BY <1>1, <1>2 DEF Cut, Contents
<1> HIDE DEF B
<1>4. ASSUME NEW a \in Actors
      PROVE  /\ B[<<"mailbox", a>>] = mailbox'[a]
             /\ B[<<"turn", a>>] = IF turn'[a].busy THEN <<turn'[a].cur>> ELSE <<>>
  <2>1. <<"mailbox", a>> # b /\ <<"turn", a>> # b
    OBVIOUS
  <2> QED BY <1>3, <2>1, BoxAt
<1>5. ASSUME NEW f \in Edges PROVE B[<<"req", f>>] = req'[f]
  <2>1. <<"req", f>> # b
    OBVIOUS
  <2> QED BY <1>3, <2>1, BoxAt
<1>6. ASSUME NEW f \in Cores \X Cores PROVE B[<<"rep", f>>] = rep'[f]
  <2>1. CASE f = e
    BY <1>1, <1>3, <2>1
  <2>2. CASE f # e
    <3>1. <<"rep", f>> # b
      BY <2>2
    <3> QED BY <1>1, <1>3, <2>2, <3>1, BoxAt
  <2> QED BY <2>1, <2>2
<1> HIDE DEF b
<1>7. box' = B
  BY <1>3, <1>4, <1>5, <1>6, BoxAfter
<1> QED BY <1>7 DEF B, b

(* A drained request moves from its ring to the mailbox.                   *)
LEMMA RequestMoves ==
    ASSUME Types, NEW e \in Edges, NEW a \in Actors, req[e] # <<>>, NEW m \in Message,
           m = Head(req[e]), UNCHANGED <<rep, turn>>,
           mailbox' = [mailbox EXCEPT ![a] = Append(@, m)],
           req' = [req EXCEPT ![e] = Tail(@)]
    PROVE  box' = Put(Cut(box, <<"req", e>>), <<"mailbox", a>>, m)
<1> DEFINE b == <<"req", e>>
           d == <<"mailbox", a>>
           C == Cut(box, b)
           B == Put(C, d, m)
<1>1. /\ box \in Contents /\ b \in Boxes /\ d \in Boxes /\ b # d
      /\ box[b] = req[e] /\ box[d] = mailbox[a] /\ req[e] \in Seq(Message)
      /\ mailbox \in [Actors -> Seq(Message)] /\ mailbox[a] \in Seq(Message)
      /\ req \in [Edges -> Seq(Message)]
  BY BoxTypes, BoxAt DEF Types, QueueType
<1>2. Tail(req[e]) \in Seq(Message) /\ Append(mailbox[a], m) \in Seq(Message)
  <2> DEFINE q == req[e]
             r == mailbox[a]
  <2>1. q \in Seq(Message) /\ q # <<>> /\ r \in Seq(Message)
    BY <1>1
  <2> HIDE DEF q, r
  <2>2. Tail(q) \in Seq(Message) /\ Append(r, m) \in Seq(Message)
    BY <2>1
  <2> QED BY <2>2 DEF q, r
<1>3. /\ C \in Contents /\ C[b] = Tail(req[e])
      /\ \A f \in Boxes \ {b} : C[f] = box[f]
  <2> HIDE DEF b, d
  <2> QED BY <1>1, <1>2 DEF Cut, Contents
<1> HIDE DEF C
<1>4. /\ B \in Contents /\ B[d] = Append(mailbox[a], m)
      /\ \A f \in Boxes \ {d} : B[f] = C[f]
  <2>1. C[d] = mailbox[a]
    BY <1>1, <1>3
  <2> HIDE DEF b, d
  <2> QED BY <1>1, <1>2, <1>3, <2>1 DEF Put, Contents
<1> HIDE DEF B
<1>5. ASSUME NEW u \in Actors
      PROVE  /\ B[<<"mailbox", u>>] = mailbox'[u]
             /\ B[<<"turn", u>>] = IF turn'[u].busy THEN <<turn'[u].cur>> ELSE <<>>
  <2>1. B[<<"turn", u>>] = box[<<"turn", u>>]
    BY <1>3, <1>4, BoxAt
  <2>2. CASE u = a
    BY <1>1, <1>4, <2>1, <2>2, BoxAt
  <2>3. CASE u # a
    <3>1. <<"mailbox", u>> \notin {b, d}
      BY <2>3
    <3>2. B[<<"mailbox", u>>] = box[<<"mailbox", u>>]
      BY <1>3, <1>4, <3>1, BoxAt
    <3> QED BY <1>1, <2>1, <2>3, <3>2, BoxAt
  <2> QED BY <2>2, <2>3
<1>6. ASSUME NEW f \in Edges PROVE B[<<"req", f>>] = req'[f]
  <2>1. CASE f = e
    BY <1>1, <1>3, <1>4, <2>1
  <2>2. CASE f # e
    <3>1. <<"req", f>> \notin {b, d}
      BY <2>2
    <3> QED BY <1>1, <1>3, <1>4, <2>2, <3>1, BoxAt
  <2> QED BY <2>1, <2>2
<1>7. ASSUME NEW f \in Cores \X Cores PROVE B[<<"rep", f>>] = rep'[f]
  <2>1. <<"rep", f>> \notin {b, d}
    OBVIOUS
  <2> QED BY <1>3, <1>4, <2>1, BoxAt
<1> HIDE DEF b, d
<1>8. box' = B
  BY <1>4, <1>5, <1>6, <1>7, BoxAfter
<1> QED BY <1>8 DEF B, C, b, d

(* The steps of a drain.                                                   *)
LEMMA DrainKeeps ==
    ASSUME Types, Types', Letters, Flow, NEW c \in Cores, NEW l \in lanes[c],
           NextLane(c, l) \/ DrainReply(c, l) \/ DrainRequest(c, l)
    PROVE  Letters' /\ Flow' /\ UNCHANGED refused
<1> USE DEF msgVars, coreVars, histVars
<1>1. CASE NextLane(c, l)
  BY <1>1, StillKeeps DEF NextLane
<1>2. CASE DrainReply(c, l)
  <2> DEFINE e == <<l[2], c>>
             m == Head(rep[e])
             b == <<"rep", e>>
  <2>1. e \in Cores \X Cores /\ rep[e] # <<>>
    BY <1>2, LaneTypes DEF DrainReply, LaneEmpty
  <2>2. /\ turn' = Answered(turn, m) /\ rep' = [rep EXCEPT ![e] = Tail(@)]
        /\ UNCHANGED <<place, mailbox, req, awaiting, run, issued, refused>>
    BY <1>2 DEF DrainReply, Answered
  <2>3. box \in Contents /\ b \in Boxes /\ box[b] = rep[e] /\ b[1] = "rep"
    BY <2>1, BoxAt, BoxTypes
  <2> HIDE DEF m, e, b
  <2>4. m \in Held(box, b) /\ m \in Message /\ m = Head(box[b]) /\ box[b] # <<>>
    BY <2>1, <2>3, HeldTypes DEF m
  <2>5. m.call /\ m.from \in Turns
    BY <2>3, <2>4, LettersKnown DEF Routed
  <2>6. /\ turn'[m.from].ready /\ turn'[m.from].reply = m.id
        /\ turn'[m.from].busy = turn[m.from].busy
        /\ turn'[m.from].susp = turn[m.from].susp
        /\ turn'[m.from].cur = turn[m.from].cur
        /\ \A u \in Turns : u # m.from => turn'[u] = turn[u]
    BY <2>2, <2>4, AnsweredTypes DEF Types, TurnType
  <2>7. /\ \A u \in Turns \ {m.from} : SameWait(u)
        /\ \A u \in Turns : SameFlow(u) /\ turn'[u].cur = turn[u].cur
    <3>1. \A u \in Turns \ {m.from} : SameWait(u)
      BY <2>2, <2>6 DEF SameWait
    <3>2. \A u \in Turns : SameFlow(u) /\ turn'[u].cur = turn[u].cur
      BY <2>6 DEF SameFlow
    <3> QED BY <3>1, <3>2
  <2>8. box' = Cut(box, b)
    <3>1. \A a \in Actors : turn'[a].busy = turn[a].busy /\ turn'[a].cur = turn[a].cur
      BY <2>7, Constants DEF SameFlow
    <3> QED BY <2>1, <2>2, <3>1, ReplyCuts DEF b
  <2>9. Letters'
    BY <2>2, <2>3, <2>4, <2>5, <2>6, <2>7, <2>8, LettersAnswered
  <2>10. Flow'
    <3>1. \A d \in Cores : run[d] # NoTurn => run[d] \in Turns
      BY DEF Types, CoreType
    <3>2. \A u \in Turns : turn'[u].busy = turn[u].busy /\ turn'[u].susp = turn[u].susp
      BY <2>7 DEF SameFlow
    <3>3. ASSUME NEW d \in Cores, run[d] # NoTurn
          PROVE  place[run[d]] = d /\ turn'[run[d]].busy /\ ~ turn'[run[d]].susp
      BY <3>1, <3>2, <3>3 DEF Flow
    <3> QED BY <2>2, <3>2, <3>3 DEF Flow
  <2> QED BY <2>2, <2>9, <2>10
<1>3. CASE DrainRequest(c, l)
  <2> DEFINE a == l[3]
             e == <<l[2], l[3]>>
             m == Head(req[e])
             b == <<"req", e>>
             d == <<"mailbox", a>>
  <2>1. e \in Edges /\ e[2] = a /\ a \in Actors /\ req[e] # <<>>
    BY <1>3, LaneTypes DEF DrainRequest, LaneEmpty
  <2>2. UNCHANGED <<place, rep, turn, awaiting, run, issued, refused>>
    BY <1>3 DEF DrainRequest
  <2>3. CASE Len(mailbox[a]) < MailboxCap[a]
    <3>1. /\ mailbox' = [mailbox EXCEPT ![a] = Append(@, m)]
          /\ req' = [req EXCEPT ![e] = Tail(@)]
      BY <1>3, <2>3 DEF DrainRequest
    <3>2. /\ box \in Contents /\ b \in Boxes /\ d \in Boxes \ {b} /\ box[b] = req[e]
      BY <2>1, BoxAt, BoxTypes
    <3>3. b[1] = "req" /\ b[2] = e /\ d[1] = "mailbox" /\ d[2] = a
      OBVIOUS
    <3> HIDE DEF a, e, m, b, d
    <3>4. m \in Held(box, b) /\ m \in Message /\ m = Head(box[b]) /\ box[b] # <<>>
      BY <2>1, <3>2, HeldTypes DEF m
    <3>5. Routed(b, m)
      BY <3>2, <3>4, LettersKnown
    <3>6. Routed(d, m)
      BY <2>1, <3>3, <3>5 DEF Routed
    <3>7. box' = Put(Cut(box, b), d, m)
      BY <2>1, <2>2, <3>1, <3>4, RequestMoves DEF b, d, m
    <3>8. \A u \in Turns : SameWait(u)
      BY <2>2 DEF SameWait
    <3>9. Letters'
      BY <2>2, <3>2, <3>4, <3>6, <3>7, <3>8, LettersMoved
    <3>10. Flow'
      BY <2>2 DEF Flow
    <3> QED BY <2>2, <3>9, <3>10
  <2>4. CASE ~ (Len(mailbox[a]) < MailboxCap[a])
    <3>1. UNCHANGED <<mailbox, req>>
      BY <1>3, <2>4 DEF DrainRequest
    <3> QED BY <2>2, <3>1, StillKeeps
  <2> QED BY <2>3, <2>4
<1> QED BY <1>1, <1>2, <1>3

-----------------------------------------------------------------------------
(* Replies, calls and turns: the theorems.                                 *)

\* No call goes astray, no turn is in two places, and no reply is refused.
PostInv == Types /\ Letters /\ Flow /\ NoReplyRefused

(* The boot starts with every box empty and only the test running.         *)
LEMMA PostInit == Init => PostInv
<1> SUFFICES ASSUME Init PROVE PostInv
  OBVIOUS
<1>1. Types
  BY TypesInit
<1>2. \A t \in Turns : /\ turn[t].busy = (t = Test) /\ ~ turn[t].susp /\ ~ turn[t].ready
                       /\ awaiting[t] = 0
  BY DEF Init, IdleTurn
<1>3. \A b \in Boxes : box[b] = <<>>
  <2> SUFFICES ASSUME NEW b \in Boxes PROVE box[b] = <<>>
    OBVIOUS
  <2>1. \A a \in Actors : ~ turn[a].busy
    BY <1>2, Constants
  <2> QED BY <2>1 DEF Init, Boxes, box
<1>4. Letters
  <2>1. \A b \in Boxes : 1 .. Len(box[b]) = {}
    BY <1>3
  <2>2. UniqueIn(box) /\ Known
    BY <2>1 DEF UniqueIn, Known, Held
  <2>3. Waits
    BY <1>2 DEF Waits, Init
  <2> QED BY <2>2, <2>3 DEF Letters
<1>5. Flow
  <2>1. /\ run[0] = Test /\ place[Test] = 0 /\ \A c \in Cores \ {0} : run[c] = NoTurn
    BY Constants DEF Init
  <2> QED BY <1>2, <2>1, Constants DEF Flow
<1>6. NoReplyRefused
  BY DEF Init, NoReplyRefused
<1> QED BY <1>1, <1>4, <1>5, <1>6 DEF PostInv

(* Every step keeps that.                                                  *)
LEMMA PostNext == PostInv /\ [Next]_vars => PostInv'
<1> SUFFICES ASSUME Types, Letters, Flow, ~ refused, [Next]_vars
             PROVE  Letters' /\ Flow' /\ ~ refused' /\ Types'
  BY DEF PostInv, NoReplyRefused
<1>0. Types'
  BY TypesNext
<1> USE DEF msgVars, coreVars, histVars
<1>1. ASSUME UNCHANGED vars PROVE Letters' /\ Flow' /\ UNCHANGED refused
  BY <1>0, <1>1, StillKeeps DEF vars
<1>2. ASSUME NEW c \in Cores, NEW a \in Actors, NotAdmitted(c, a)
      PROVE  Letters' /\ Flow' /\ UNCHANGED refused
  <2>1. /\ UNCHANGED <<place, mailbox, req, rep, turn, awaiting, run, refused>>
        /\ issued' = issued + 1
    BY <1>2 DEF NotAdmitted, Attempt
  <2> QED BY <1>0, <2>1, StillKeeps
<1>3. ASSUME NEW c \in Cores, Body(c) PROVE Letters' /\ Flow' /\ UNCHANGED refused
  <2>1. ASSUME NEW a \in Actors, Send(c, a) \/ Call(c, a) PROVE UNCHANGED refused
    BY <2>1 DEF Send, Call
  <2> QED BY <1>0, <1>2, <1>3, <2>1, SendKeeps, CallKeeps, CompleteKeeps DEF Body
<1>4. ASSUME NEW c \in Cores,
             \/ LoopTop(c) \/ NothingRan(c) \/ GoIdle(c) \/ Park(c) \/ Wake(c)
             \/ DrainEnd(c) \/ DrainStart(c)
      PROVE  Letters' /\ Flow' /\ UNCHANGED refused
  <2>1. UNCHANGED <<place, mailbox, req, rep, turn, awaiting, run, refused, issued>>
    BY <1>4 DEF LoopTop, NothingRan, GoIdle, Park, Wake, DrainEnd, DrainStart
  <2> QED BY <1>0, <2>1, StillKeeps
<1>5. ASSUME NEW c \in Cores, Executor(c) PROVE Letters' /\ Flow' /\ UNCHANGED refused
  BY <1>0, <1>4, <1>5, CheckpointKeeps, DrainKeeps, SelectKeeps DEF Executor, Drain
<1>6. ASSUME BackEdge \/ ScanIdle \/ ScanPending
      PROVE  Letters' /\ Flow' /\ UNCHANGED refused
  <2>1. UNCHANGED <<place, mailbox, req, rep, turn, awaiting, run, refused, issued>>
    BY <1>6 DEF BackEdge, ScanIdle, ScanPending
  <2> QED BY <1>0, <2>1, StillKeeps
<1>7. ASSUME TestPasses PROVE Letters' /\ Flow' /\ UNCHANGED refused
  BY <1>0, <1>7, TestPassesKeeps
<1>8. Letters' /\ Flow' /\ UNCHANGED refused
  BY <1>1, <1>3, <1>5, <1>6, <1>7 DEF Next, CoreStep, Stopped
<1> QED BY <1>0, <1>8

(* The invariant of the letters.                                           *)
LEMMA PostInvariant == SafetySpec => []PostInv
BY PostInit, PostNext, PTL DEF SafetySpec

(* TypeOK: the state keeps its types, the capacities of mailboxes and request *)
(* rings included.                                                            *)
LEMMA TypeCorrect == SafetySpec => []TypeOK
<1>1. PostInv => TypeOK
  <2> SUFFICES ASSUME Types PROVE TypeOK
    BY DEF PostInv
  <2>1. TurnRecords = [busy : BOOLEAN, susp : BOOLEAN, ready : BOOLEAN, cur : Message,
                       reply : 0 .. MaxSends]
    BY DEF TurnRecords
  <2>2. Labels = {"top", "check", "drain", "sweep", "select", "run", "idle", "park", "parked",
                  "scan", "scanPending", "halted", "aborted"}
    BY DEF Labels
  <2> QED BY <2>1, <2>2 DEF Types, QueueType, TurnType, CoreType, TypeOK
<1> QED BY <1>1, PostInvariant, PTL

(* RightReply: a turn that is ready to resume holds the reply to the very call *)
(* it awaits, though a reply is addressed by the turn's number only.           *)
LEMMA RightReplies == SafetySpec => []RightReply
<1>1. PostInv => RightReply
  BY DEF PostInv, Letters, Waits, RightReply
<1> QED BY <1>1, PostInvariant, PTL

(* NoReplyRefused: the derived reply-ring capacity, one slot per turn of the   *)
(* receiving core, is never exceeded by an xreply.                             *)
LEMMA RepliesFit == SafetySpec => []NoReplyRefused
<1>1. PostInv => NoReplyRefused
  BY DEF PostInv
<1> QED BY <1>1, PostInvariant, PTL

\* What Holders calls position i of box b.
PlaceName(b, i) == IF b[1] = "turn" THEN <<"turn", b[2], 0>> ELSE <<b[1], b[2], i>>

(* The positions of a message in the queues of one kind.                       *)
LEMMA QueuePositions ==
    ASSUME NEW S, NEW queue \in [S -> Seq(Message)], NEW kind, NEW k, NEW h
    PROVE  h \in InQueues(kind, queue, k) <=>
               \E b \in S : \E i \in 1 .. Len(queue[b]) :
                   queue[b][i].id = k /\ h = <<kind, b, i>>
<1>1. \A b \in S : DOMAIN queue[b] = 1 .. Len(queue[b])
  OBVIOUS
<1> QED BY <1>1 DEF InQueues

(* Every holder of a call is a position in a box, or a turn it answered.       *)
LEMMA HolderKinds ==
    ASSUME Types, NEW k, NEW h
    PROVE  h \in Holders(k) <=>
               \/ \E b \in Boxes : \E i \in 1 .. Len(box[b]) :
                      box[b][i].id = k /\ h = PlaceName(b, i)
               \/ \E u \in Turns : turn[u].ready /\ turn[u].reply = k /\ h = <<"reply", u, 0>>
<1> DEFINE In(b, i) == i \in 1 .. Len(box[b]) /\ box[b][i].id = k /\ h = PlaceName(b, i)
           Busy == {"turn"} \X {a \in Actors : turn[a].busy /\ turn[a].cur.id = k} \X {0}
           Replied == {"reply"} \X {t \in Turns : turn[t].ready /\ turn[t].reply = k} \X {0}
<1>1. h \in Holders(k) <=>
          \/ h \in InQueues("mailbox", mailbox, k) \/ h \in InQueues("req", req, k)
          \/ h \in InQueues("rep", rep, k) \/ h \in Busy \/ h \in Replied
  BY DEF Holders
<1>2. h \in InQueues("mailbox", mailbox, k) <=>
          \E a \in Actors : \E i : In(<<"mailbox", a>>, i)
  <2>1. \A a \in Actors : \A i : PlaceName(<<"mailbox", a>>, i) = <<"mailbox", a, i>>
    BY DEF PlaceName
  <2>2. mailbox \in [Actors -> Seq(Message)]
    BY DEF Types, QueueType
  <2>3. h \in InQueues("mailbox", mailbox, k) <=>
            \E a \in Actors : \E i \in 1 .. Len(mailbox[a]) : mailbox[a][i].id = k /\ h = <<"mailbox", a, i>>
    BY <2>2, QueuePositions
  <2>4. ASSUME NEW a \in Actors, NEW i
        PROVE  In(<<"mailbox", a>>, i) <=>
                   i \in 1 .. Len(mailbox[a]) /\ mailbox[a][i].id = k /\ h = <<"mailbox", a, i>>
    BY <2>1, BoxAt
  <2> HIDE DEF In
  <2> QED BY <2>3, <2>4
<1>3. h \in InQueues("req", req, k) <=> \E e \in Edges : \E i : In(<<"req", e>>, i)
  <2>1. \A e \in Edges : \A i : PlaceName(<<"req", e>>, i) = <<"req", e, i>>
    BY DEF PlaceName
  <2>2. req \in [Edges -> Seq(Message)]
    BY DEF Types, QueueType
  <2>3. h \in InQueues("req", req, k) <=>
            \E e \in Edges : \E i \in 1 .. Len(req[e]) : req[e][i].id = k /\ h = <<"req", e, i>>
    BY <2>2, QueuePositions
  <2>4. ASSUME NEW e \in Edges, NEW i
        PROVE  In(<<"req", e>>, i) <=>
                   i \in 1 .. Len(req[e]) /\ req[e][i].id = k /\ h = <<"req", e, i>>
    BY <2>1, BoxAt
  <2> HIDE DEF In
  <2> QED BY <2>3, <2>4
<1>4. h \in InQueues("rep", rep, k) <=>
          \E e \in Cores \X Cores : \E i : In(<<"rep", e>>, i)
  <2>1. \A e \in Cores \X Cores : \A i : PlaceName(<<"rep", e>>, i) = <<"rep", e, i>>
    BY DEF PlaceName
  <2>2. rep \in [Cores \X Cores -> Seq(Message)]
    BY DEF Types, QueueType
  <2>3. h \in InQueues("rep", rep, k) <=>
            \E e \in Cores \X Cores : \E i \in 1 .. Len(rep[e]) : rep[e][i].id = k /\ h = <<"rep", e, i>>
    <3> DEFINE S == Cores \X Cores
    <3>1. rep \in [S -> Seq(Message)]
      BY <2>2
    <3> HIDE DEF S
    <3>2. h \in InQueues("rep", rep, k) <=>
              \E e \in S : \E i \in 1 .. Len(rep[e]) : rep[e][i].id = k /\ h = <<"rep", e, i>>
      BY <3>1, QueuePositions
    <3> QED BY <3>2 DEF S
  <2>4. ASSUME NEW e \in Cores \X Cores, NEW i
        PROVE  In(<<"rep", e>>, i) <=>
                   i \in 1 .. Len(rep[e]) /\ rep[e][i].id = k /\ h = <<"rep", e, i>>
    BY <2>1, BoxAt
  <2> HIDE DEF In
  <2> QED BY <2>3, <2>4
<1>5. h \in Busy <=> \E a \in Actors : \E i : In(<<"turn", a>>, i)
  <2>1. h \in Busy <=> \E a \in Actors : turn[a].busy /\ turn[a].cur.id = k /\ h = <<"turn", a, 0>>
    OBVIOUS
  <2>2. ASSUME NEW a \in Actors, NEW i
        PROVE  In(<<"turn", a>>, i) <=>
                   i = 1 /\ turn[a].busy /\ turn[a].cur.id = k /\ h = <<"turn", a, 0>>
    <3>1. box[<<"turn", a>>] = IF turn[a].busy THEN <<turn[a].cur>> ELSE <<>>
      BY BoxAt
    <3>2. PlaceName(<<"turn", a>>, i) = <<"turn", a, 0>>
      BY DEF PlaceName
    <3>3. CASE turn[a].busy
      <4>1. Len(box[<<"turn", a>>]) = 1 /\ box[<<"turn", a>>][1] = turn[a].cur
        BY <3>1, <3>3
      <4> QED BY <3>2, <3>3, <4>1
    <3>4. CASE ~ turn[a].busy
      <4>1. Len(box[<<"turn", a>>]) = 0
        BY <3>1, <3>4
      <4> QED BY <3>2, <3>4, <4>1
    <3> QED BY <3>3, <3>4
  <2> HIDE DEF In, Busy
  <2> QED BY <2>1, <2>2
<1>6. h \in Replied <=> \E u \in Turns : turn[u].ready /\ turn[u].reply = k /\ h = <<"reply", u, 0>>
  OBVIOUS
<1> HIDE DEF In, Busy, Replied
<1>7. (\E b \in Boxes : \E i : In(b, i)) <=>
          \/ h \in InQueues("mailbox", mailbox, k) \/ h \in InQueues("req", req, k)
          \/ h \in InQueues("rep", rep, k) \/ h \in Busy
  <2>1. ASSUME NEW b \in Boxes, NEW i, In(b, i)
        PROVE  \/ \E a \in Actors : \E j : In(<<"mailbox", a>>, j)
               \/ \E a \in Actors : \E j : In(<<"turn", a>>, j)
               \/ \E e \in Edges : \E j : In(<<"req", e>>, j)
               \/ \E e \in Cores \X Cores : \E j : In(<<"rep", e>>, j)
    <3>1. CASE b \in {"mailbox"} \X Actors
      <4>1. PICK a \in Actors : b = <<"mailbox", a>>
        BY <3>1
      <4> QED BY <2>1, <4>1
    <3>2. CASE b \in {"turn"} \X Actors
      <4>1. PICK a \in Actors : b = <<"turn", a>>
        BY <3>2
      <4> QED BY <2>1, <4>1
    <3>3. CASE b \in {"req"} \X Edges
      <4>1. PICK e \in Edges : b = <<"req", e>>
        BY <3>3
      <4> QED BY <2>1, <4>1
    <3>4. CASE b \in {"rep"} \X (Cores \X Cores)
      <4>1. PICK e \in Cores \X Cores : b = <<"rep", e>>
        BY <3>4
      <4> QED BY <2>1, <4>1
    <3> QED BY <3>1, <3>2, <3>3, <3>4 DEF Boxes
  <2> QED BY <1>2, <1>3, <1>4, <1>5, <2>1, BoxAt
<1>8. (\E b \in Boxes : \E i : In(b, i)) <=>
          \E b \in Boxes : \E i \in 1 .. Len(box[b]) :
              box[b][i].id = k /\ h = PlaceName(b, i)
  BY DEF In
<1> QED BY <1>1, <1>6, <1>7, <1>8

(* CallsAccountedFor: what a suspended turn waits for is in exactly one place: *)
(* no call is lost, duplicated or answered twice on its way through mailboxes, *)
(* rings and turns.                                                            *)
LEMMA CallsAccounted == SafetySpec => []CallsAccountedFor
<1>1. PostInv => CallsAccountedFor
  <2> SUFFICES ASSUME Types, Letters, NEW t \in Turns, awaiting[t] # 0
               PROVE  Cardinality(Holders(awaiting[t])) = 1
    BY DEF PostInv, CallsAccountedFor
  <2> DEFINE k == awaiting[t]
             In(b, i) == i \in 1 .. Len(box[b]) /\ box[b][i].id = k
  <2>1. \A u \in Turns : turn[u].ready /\ turn[u].reply = k => u = t
    BY DEF Letters, Waits
  <2>2. \A b, d \in Boxes : \A i, j : In(b, i) /\ In(d, j) => b = d /\ i = j
    BY DEF Letters, UniqueIn
  <2>3. \A h : h \in Holders(k) <=>
            \/ \E b \in Boxes : \E i : In(b, i) /\ h = PlaceName(b, i)
            \/ \E u \in Turns : turn[u].ready /\ turn[u].reply = k /\ h = <<"reply", u, 0>>
    BY HolderKinds
  <2>4. \E h : Holders(k) = {h}
    <3>1. CASE turn[t].ready
      <4>1. \A b \in Boxes : \A i : ~ In(b, i)
        <5> SUFFICES ASSUME NEW b \in Boxes, NEW i, In(b, i) PROVE FALSE
          OBVIOUS
        <5>1. box[b][i] \in Held(box, b) /\ box[b][i].id = k
          BY DEF Held
        <5>2. KnownMessage(box[b][i]) /\ box[b][i].from \in Turns
          BY <5>1, LettersKnown
        <5> QED BY <3>1, <5>1, <5>2 DEF KnownMessage
      <4>2. turn[t].reply = k
        BY <3>1 DEF Letters, Waits
      <4> HIDE DEF k, In
      <4>3. \A h : h \in Holders(k) <=> h = <<"reply", t, 0>>
        BY <2>1, <2>3, <3>1, <4>1, <4>2
      <4>4. Holders(k) = {<<"reply", t, 0>>}
        BY <4>3
      <4> QED BY <4>4
    <3>2. CASE ~ turn[t].ready
      <4>1. PICK b \in Boxes : \E x \in Held(box, b) : x.id = k
        BY <3>2 DEF Letters, Waits
      <4>2. PICK i : In(b, i)
        BY <4>1 DEF Held
      <4>3. \A u \in Turns : ~ (turn[u].ready /\ turn[u].reply = k)
        BY <2>1, <3>2
      <4> HIDE DEF k, In
      <4>4. \A h : h \in Holders(k) <=> h = PlaceName(b, i)
        BY <2>2, <2>3, <4>2, <4>3
      <4> QED BY <4>4
    <3> QED BY <3>1, <3>2
  <2> HIDE DEF k
  <2>5. PICK h : Holders(k) = {h}
    BY <2>4
  <2>6. Cardinality(Holders(k)) = 1
    BY <2>5, FS_Singleton
  <2> QED BY <2>6 DEF k
<1> QED BY <1>1, PostInvariant, PTL
-----------------------------------------------------------------------------
(* First in, first out: what queue operations do to the order of a sender's *)
(* messages.                                                                *)

\* The messages of m's sender in q are older than m, or newer.
Older(q, m) == \A i \in 1 .. Len(q) : q[i].from = m.from => q[i].id < m.id
Newer(m, q) == \A i \in 1 .. Len(q) : q[i].from = m.from => m.id < q[i].id

(* A message that is newer than a queue goes to its end.                   *)
LEMMA AppendOrder ==
    ASSUME NEW q \in Seq(Message), NEW m \in Message
    PROVE  /\ Rising(q) /\ Older(q, m) => Rising(Append(q, m))
           /\ \A r \in Seq(Message) : /\ Earlier(r, q) /\ Older(r, m) => Earlier(r, Append(q, m))
                                      /\ Earlier(q, r) /\ Newer(m, r) => Earlier(Append(q, m), r)
<1> DEFINE s == Append(q, m)
<1>1. /\ Len(s) = Len(q) + 1 /\ s[Len(q) + 1] = m /\ Len(q) \in Nat
      /\ \A i \in 1 .. Len(q) : s[i] = q[i]
  OBVIOUS
<1> HIDE DEF s
<1>2. \A i \in 1 .. Len(s) : (i \in 1 .. Len(q) /\ s[i] = q[i]) \/ (i = Len(q) + 1 /\ s[i] = m)
  BY <1>1
<1>3. ASSUME Rising(q), Older(q, m) PROVE Rising(s)
  <2> SUFFICES ASSUME NEW i \in 1 .. Len(s), NEW j \in 1 .. Len(s), i < j,
                      s[i].from = s[j].from
               PROVE  s[i].id < s[j].id
    BY DEF Rising
  <2>1. i \in 1 .. Len(q) /\ s[i] = q[i]
    BY <1>1, <1>2
  <2>2. CASE j \in 1 .. Len(q) /\ s[j] = q[j]
    BY <1>3, <2>1, <2>2 DEF Rising
  <2>3. CASE s[j] = m
    BY <1>3, <2>1, <2>3 DEF Older
  <2> QED BY <1>2, <2>2, <2>3
<1>4. ASSUME NEW r \in Seq(Message), Earlier(r, q), Older(r, m) PROVE Earlier(r, s)
  BY <1>2, <1>4 DEF Earlier, Older
<1>5. ASSUME NEW r \in Seq(Message), Earlier(q, r), Newer(m, r) PROVE Earlier(s, r)
  BY <1>2, <1>5 DEF Earlier, Newer
<1> QED BY <1>3, <1>4, <1>5 DEF s

(* The first message is older than the rest, and newer than what is.       *)
LEMMA HeadOrder ==
    ASSUME NEW q \in Seq(Message), q # <<>>, Rising(q)
    PROVE  /\ Rising(Tail(q)) /\ Newer(Head(q), Tail(q))
           /\ \A r \in Seq(Message) : /\ Earlier(r, q) => Older(r, Head(q)) /\ Earlier(r, Tail(q))
                                      /\ Earlier(q, r) => Newer(Head(q), r) /\ Earlier(Tail(q), r)
<1>1. /\ Len(q) \in Nat /\ Len(q) > 0 /\ Len(Tail(q)) = Len(q) - 1 /\ Head(q) = q[1]
  OBVIOUS
<1>2. ASSUME NEW i \in 1 .. Len(Tail(q))
      PROVE  Tail(q)[i] = q[i + 1] /\ i + 1 \in 1 .. Len(q) /\ 1 < i + 1 /\ i \in Nat
  BY <1>1
<1> DEFINE s == Tail(q)
           h == Head(q)
<1>3. 1 \in 1 .. Len(q) /\ h = q[1]
  BY <1>1
<1> HIDE DEF s, h
<1>4. \A i \in 1 .. Len(s) : s[i] = q[i + 1] /\ i + 1 \in 1 .. Len(q) /\ 1 < i + 1 /\ i \in Nat
  BY <1>2 DEF s
<1>5. Rising(s)
  <2> SUFFICES ASSUME NEW i \in 1 .. Len(s), NEW j \in 1 .. Len(s), i < j,
                      s[i].from = s[j].from
               PROVE  s[i].id < s[j].id
    BY DEF Rising
  <2>1. i + 1 < j + 1
    BY <1>4
  <2> QED BY <1>4, <2>1 DEF Rising
<1>6. Newer(h, s)
  BY <1>3, <1>4 DEF Newer, Rising
<1>7. ASSUME NEW r \in Seq(Message), Earlier(r, q) PROVE Older(r, h) /\ Earlier(r, s)
  BY <1>3, <1>4, <1>7 DEF Earlier, Older
<1>8. ASSUME NEW r \in Seq(Message), Earlier(q, r) PROVE Newer(h, r) /\ Earlier(s, r)
  BY <1>3, <1>4, <1>8 DEF Earlier, Newer
<1> QED BY <1>5, <1>6, <1>7, <1>8 DEF s, h

(* The number of a message is a number.                                    *)
LEMMA MessageNumbers == \A m \in Message : m.id \in Nat /\ m.from \in Turns
BY Constants DEF Message

(* The messages in mailboxes and rings have been issued, and those in a ring *)
(* come from its core, which is not the target's.                            *)
LEMMA QueueKnown ==
    ASSUME Types, Letters, NEW a \in Actors
    PROVE  /\ \A i \in 1 .. Len(mailbox[a]) : mailbox[a][i].id <= issued
           /\ \A e \in Edges : e[2] = a => \A i \in 1 .. Len(req[e]) :
                  /\ req[e][i].id <= issued
                  /\ place[req[e][i].from] = e[1] /\ place[a] # e[1]
<1>1. ASSUME NEW b \in Boxes, NEW i \in 1 .. Len(box[b])
      PROVE  box[b][i].id <= issued /\ Routed(b, box[b][i])
  <2>1. box[b][i] \in Held(box, b)
    BY DEF Held
  <2>2. box[b][i].id \in 1 .. issued /\ issued \in Nat /\ Routed(b, box[b][i])
    BY <2>1, LettersKnown DEF KnownMessage
  <2> QED BY <2>2
<1>2. <<"mailbox", a>> \in Boxes /\ box[<<"mailbox", a>>] = mailbox[a]
  BY BoxAt
<1>3. ASSUME NEW e \in Edges, e[2] = a, NEW i \in 1 .. Len(req[e])
      PROVE  /\ req[e][i].id <= issued
             /\ place[req[e][i].from] = e[1] /\ place[a] # e[1]
  <2>1. <<"req", e>> \in Boxes /\ box[<<"req", e>>] = req[e]
    BY BoxAt
  <2>2. req[e][i].id <= issued /\ Routed(<<"req", e>>, req[e][i])
    BY <1>1, <2>1
  <2> QED BY <1>3, <2>2 DEF Routed
<1> QED BY <1>1, <1>2, <1>3

(* What concerns another actor's queues changes nothing.                   *)
LEMMA OrderStays ==
    ASSUME Types, NEW a \in Actors, OrderedFor(a), taken'[a] = taken[a], mailbox'[a] = mailbox[a],
           \A e \in Edges : e[2] = a => req'[e] = req[e], issued' \in {issued, issued + 1}
    PROVE  OrderedFor(a)'
<1>1. \A i \in 1 .. Len(taken[a]) : taken[a][i].id \in Nat
  <2>1. taken[a] \in Seq(Message)
    BY DEF Types, QueueType
  <2>2. \A i \in 1 .. Len(taken[a]) : taken[a][i] \in Message
    BY <2>1
  <2> QED BY <2>2, Constants DEF Message
<1>2. issued \in Nat
  BY Constants DEF Types, TurnType
<1> QED BY <1>1, <1>2 DEF OrderedFor

(* A message enters at the end: it is the newest of all.                   *)
LEMMA OrderEnqueue ==
    ASSUME Types, Letters, Ordered, NEW c \in Cores, NEW a \in Actors, NEW m \in Message,
           Enqueue(c, a, m), place[m.from] = c, m.id = issued + 1, issued' = issued + 1,
           UNCHANGED taken
    PROVE  Ordered'
<1>0. /\ issued \in Nat /\ place \in [Turns -> Cores] /\ OrderedFor(a)
      /\ mailbox \in [Actors -> Seq(Message)] /\ req \in [Edges -> Seq(Message)]
      /\ mailbox[a] \in Seq(Message) /\ taken[a] \in Seq(Message)
  <2>1. issued \in Nat /\ place \in [Turns -> Cores]
    BY Constants DEF Types, TurnType, CoreType
  <2> QED BY <2>1 DEF Types, QueueType, Ordered
<1>1. Older(mailbox[a], m)
  <2>1. \A i \in 1 .. Len(mailbox[a]) : mailbox[a][i].id <= issued /\ mailbox[a][i].id \in Nat
    <3>1. \A i \in 1 .. Len(mailbox[a]) : mailbox[a][i] \in Message
      BY <1>0
    <3>2. \A i \in 1 .. Len(mailbox[a]) : mailbox[a][i].id <= issued
      BY QueueKnown
    <3> QED BY <3>1, <3>2, MessageNumbers
  <2> QED BY <1>0, <2>1 DEF Older
<1>2. Older(taken[a], m)
  <2> DEFINE n == Len(taken[a])
  <2>1. \A i \in 1 .. n : taken[a][i] \in Message
    BY <1>0
  <2>2. \A i \in 1 .. n : taken[a][i].id <= issued
    BY <1>0 DEF OrderedFor
  <2>3. \A i \in 1 .. n : taken[a][i].id \in Nat
    BY <2>1, MessageNumbers
  <2>4. \A i \in 1 .. n : taken[a][i].id < m.id
    <3> HIDE DEF n
    <3> QED BY <1>0, <2>2, <2>3
  <2> QED BY <2>4 DEF Older
<1>3. ASSUME NEW b \in Actors, b # a PROVE OrderedFor(b)'
  <2>1. mailbox'[b] = mailbox[b] /\ \A e \in Edges : e[2] = b => req'[e] = req[e]
    <3>1. /\ mailbox' \in {mailbox, [mailbox EXCEPT ![a] = Append(@, m)]}
          /\ req' \in {req, [req EXCEPT ![<<c, a>>] = Append(@, m)]}
      BY DEF Enqueue
    <3>2. \A e \in Edges : e[2] = b => e # <<c, a>>
      BY <1>3
    <3> QED BY <1>0, <1>3, <3>1, <3>2
  <2> QED BY <2>1, OrderStays DEF Ordered
<1>4. OrderedFor(a)'
  <2>0. \A i \in 1 .. Len(taken[a]) : taken[a][i].id <= issued'
    <3>1. \A i \in 1 .. Len(taken[a]) : taken[a][i] \in Message
      BY <1>0
    <3> QED BY <1>0, <3>1, MessageNumbers DEF OrderedFor
  <2>1. CASE place[a] = c
    <3>1. /\ mailbox'[a] = Append(mailbox[a], m) /\ req' = req
      BY <1>0, <2>1 DEF Enqueue
    <3>2. Rising(mailbox'[a]) /\ Earlier(taken[a], mailbox'[a])
      BY <1>0, <1>1, <1>2, <3>1, AppendOrder DEF OrderedFor
    <3>3. ASSUME NEW e \in Edges, e[2] = a PROVE Earlier(mailbox'[a], req[e])
      <4>1. Newer(m, req[e])
        BY <2>1, <3>3, QueueKnown DEF Newer
      <4>2. req[e] \in Seq(Message) /\ Earlier(mailbox[a], req[e])
        BY <1>0, <3>3 DEF OrderedFor
      <4> QED BY <1>0, <3>1, <4>1, <4>2, AppendOrder
    <3> QED BY <1>0, <2>0, <3>1, <3>2, <3>3 DEF OrderedFor
  <2>2. CASE place[a] # c
    <3>1. /\ mailbox' = mailbox /\ req'[<<c, a>>] = Append(req[<<c, a>>], m)
          /\ <<c, a>> \in Edges /\ <<c, a>>[2] = a
          /\ \A e \in Edges : e # <<c, a>> => req'[e] = req[e]
      BY <1>0, <2>2 DEF Enqueue, Edges
    <3>2. req[<<c, a>>] \in Seq(Message)
      BY <1>0, <3>1
    <3>3. Older(req[<<c, a>>], m)
      <4>1. \A i \in 1 .. Len(req[<<c, a>>]) : req[<<c, a>>][i] \in Message
        BY <3>2
      <4> DEFINE e == <<c, a>>
      <4>2. e \in Edges /\ e[2] = a
        BY <3>1
      <4> HIDE DEF e
      <4>3. \A i \in 1 .. Len(req[e]) : req[e][i].id <= issued
        BY <4>2, QueueKnown
      <4>4. \A i \in 1 .. Len(req[e]) : req[e][i].id \in Nat
        BY <4>1, MessageNumbers DEF e
      <4>5. Older(req[e], m)
        BY <1>0, <4>3, <4>4 DEF Older
      <4> QED BY <4>5 DEF e
    <3>4. ASSUME NEW e \in Edges, e[2] = a
          PROVE  Rising(req'[e]) /\ Earlier(mailbox[a], req'[e]) /\ Earlier(taken[a], req'[e])
      <4>1. CASE e = <<c, a>>
        <5>1. Rising(req[e]) /\ Earlier(mailbox[a], req[e]) /\ Earlier(taken[a], req[e])
          BY <1>0, <3>4 DEF OrderedFor
        <5> QED BY <1>0, <1>1, <1>2, <3>1, <3>2, <3>3, <4>1, <5>1, AppendOrder
      <4>2. CASE e # <<c, a>>
        BY <1>0, <3>1, <3>4, <4>2 DEF OrderedFor
      <4> QED BY <4>1, <4>2
    <3> QED BY <1>0, <2>0, <3>1, <3>4 DEF OrderedFor
  <2> QED BY <2>1, <2>2
<1> QED BY <1>3, <1>4 DEF Ordered

(* A drained request is newer than the mailbox it joins, and older than what *)
(* stays in its ring; the other rings hold other senders' messages.          *)
LEMMA OrderDrain ==
    ASSUME Types, Letters, Ordered, NEW c \in Cores, NEW l \in lanes[c], DrainRequest(c, l)
    PROVE  Ordered'
<1> USE DEF msgVars, coreVars, histVars
<1> DEFINE a == l[3]
           e == <<l[2], l[3]>>
           m == Head(req[e])
<1>0. /\ mailbox \in [Actors -> Seq(Message)] /\ req \in [Edges -> Seq(Message)]
      /\ taken \in [Actors -> Seq(Message)] /\ UNCHANGED <<taken, issued>>
  BY DEF Types, QueueType, DrainRequest
<1>1. e \in Edges /\ e[2] = a /\ a \in Actors /\ req[e] # <<>>
  BY LaneTypes DEF DrainRequest, LaneEmpty
<1>2. CASE ~ (Len(mailbox[a]) < MailboxCap[a])
  <2>1. UNCHANGED <<mailbox, req>>
    BY <1>2 DEF DrainRequest
  <2> QED BY <1>0, <2>1 DEF Ordered, OrderedFor
<1>3. CASE Len(mailbox[a]) < MailboxCap[a]
  <2>1. /\ mailbox' = [mailbox EXCEPT ![a] = Append(@, m)]
        /\ req' = [req EXCEPT ![e] = Tail(@)]
    BY <1>3 DEF DrainRequest
  <2> HIDE DEF a, e, m
  <2>2. /\ req[e] \in Seq(Message) /\ mailbox[a] \in Seq(Message) /\ taken[a] \in Seq(Message)
        /\ OrderedFor(a) /\ Rising(req[e]) /\ Earlier(mailbox[a], req[e])
        /\ Earlier(taken[a], req[e])
    BY <1>0, <1>1 DEF Ordered, OrderedFor
  <2>3. /\ Rising(Tail(req[e])) /\ Newer(m, Tail(req[e]))
        /\ Older(mailbox[a], m) /\ Earlier(mailbox[a], Tail(req[e]))
        /\ Older(taken[a], m) /\ Earlier(taken[a], Tail(req[e]))
    BY <1>1, <2>2, HeadOrder DEF m
  <2>4. /\ mailbox'[a] = Append(mailbox[a], m) /\ req'[e] = Tail(req[e])
        /\ m \in Message /\ Tail(req[e]) \in Seq(Message)
        /\ \A b \in Actors : b # a => mailbox'[b] = mailbox[b]
        /\ \A f \in Edges : f # e => req'[f] = req[f]
    BY <1>0, <1>1, <2>1, <2>2, QueueOps DEF m
  <2>5. Rising(mailbox'[a]) /\ Earlier(taken[a], mailbox'[a])
    BY <2>2, <2>3, <2>4, AppendOrder DEF OrderedFor
  <2>6. ASSUME NEW f \in Edges, f[2] = a
        PROVE  Rising(req'[f]) /\ Earlier(mailbox'[a], req'[f]) /\ Earlier(taken[a], req'[f])
    <3>1. CASE f = e
      BY <2>2, <2>3, <2>4, <3>1, AppendOrder
    <3>2. CASE f # e
      <4>1. req'[f] = req[f] /\ req[f] \in Seq(Message) /\ Rising(req[f])
            /\ Earlier(mailbox[a], req[f]) /\ Earlier(taken[a], req[f])
        BY <1>0, <2>2, <2>4, <2>6, <3>2 DEF OrderedFor
      <4>2. Newer(m, req[f])
        <5>1. place[m.from] = e[1]
          <6>1. 1 \in 1 .. Len(req[e]) /\ m = req[e][1]
            BY <1>1, <2>2 DEF m
          <6> QED BY <1>1, <6>1, QueueKnown
        <5>2. f[1] # e[1]
          BY <1>1, <2>6, <3>2 DEF Edges
        <5>3. \A i \in 1 .. Len(req[f]) : place[req[f][i].from] = f[1]
          BY <1>1, <2>6, QueueKnown
        <5> QED BY <5>1, <5>2, <5>3 DEF Newer
      <4> QED BY <2>2, <2>4, <4>1, <4>2, AppendOrder
    <3> QED BY <3>1, <3>2
  <2>7. OrderedFor(a)'
    BY <1>0, <2>2, <2>5, <2>6 DEF OrderedFor
  <2>8. ASSUME NEW b \in Actors, b # a PROVE OrderedFor(b)'
    <3>1. \A f \in Edges : f[2] = b => req'[f] = req[f]
      BY <1>1, <2>4, <2>8
    <3> QED BY <1>0, <2>4, <2>8, <3>1, OrderStays DEF Ordered
  <2> QED BY <2>7, <2>8 DEF Ordered
<1> QED BY <1>2, <1>3

(* A message that is taken is newer than the taken ones, and older than what *)
(* waits.                                                                    *)
LEMMA OrderSelect ==
    ASSUME Types, Letters, Ordered, NEW c \in Cores, NEW a \in Actors, Select(c, a)
    PROVE  Ordered'
<1> USE DEF msgVars, coreVars, histVars
<1>0. /\ mailbox \in [Actors -> Seq(Message)] /\ req \in [Edges -> Seq(Message)]
      /\ taken \in [Actors -> Seq(Message)] /\ UNCHANGED <<req, issued>> /\ Selectable(a)
  BY DEF Types, QueueType, Select, Chosen
<1>1. CASE turn[a].busy
  <2>1. UNCHANGED <<mailbox, taken>>
    BY <1>1 DEF Select
  <2> QED BY <1>0, <2>1 DEF Ordered, OrderedFor
<1>2. CASE ~ turn[a].busy
  <2> DEFINE m == Head(mailbox[a])
  <2>1. /\ mailbox' = [mailbox EXCEPT ![a] = Tail(@)]
        /\ taken' = [taken EXCEPT ![a] = Append(@, m)] /\ mailbox[a] # <<>>
    BY <1>0, <1>2 DEF Select, Selectable
  <2>2. mailbox[a] \in Seq(Message) /\ taken[a] \in Seq(Message) /\ OrderedFor(a)
        /\ Rising(mailbox[a]) /\ Rising(taken[a]) /\ Earlier(taken[a], mailbox[a])
    BY <1>0 DEF Ordered, OrderedFor
  <2>3. /\ Rising(Tail(mailbox[a])) /\ Newer(m, Tail(mailbox[a]))
        /\ Older(taken[a], m) /\ Earlier(taken[a], Tail(mailbox[a]))
    BY <2>1, <2>2, HeadOrder
  <2>4. /\ mailbox'[a] = Tail(mailbox[a]) /\ taken'[a] = Append(taken[a], m)
        /\ m \in Message /\ Tail(mailbox[a]) \in Seq(Message)
        /\ \A b \in Actors : b # a => mailbox'[b] = mailbox[b] /\ taken'[b] = taken[b]
    BY <1>0, <2>1, <2>2, QueueOps
  <2>5. Len(mailbox[a]) > 0 /\ Len(mailbox[a]) \in Nat /\ m = mailbox[a][1]
    BY <2>1, <2>2
  <2> HIDE DEF m
  <2>6. Rising(taken'[a]) /\ Earlier(taken'[a], mailbox'[a])
    BY <2>2, <2>3, <2>4, AppendOrder
  <2>7. ASSUME NEW f \in Edges, f[2] = a
        PROVE  Rising(req[f]) /\ Earlier(mailbox'[a], req[f]) /\ Earlier(taken'[a], req[f])
    <3>1. req[f] \in Seq(Message) /\ Rising(req[f])
          /\ Earlier(mailbox[a], req[f]) /\ Earlier(taken[a], req[f])
      BY <1>0, <2>2, <2>7 DEF OrderedFor
    <3>2. Newer(m, req[f]) /\ Earlier(Tail(mailbox[a]), req[f])
      BY <2>1, <2>2, <3>1, HeadOrder DEF m
    <3> QED BY <2>2, <2>4, <3>1, <3>2, AppendOrder
  <2>8. ASSUME NEW i \in 1 .. Len(taken'[a]) PROVE taken'[a][i].id <= issued
    <3>1. m.id <= issued
      BY <2>5, QueueKnown
    <3>2. CASE i \in 1 .. Len(taken[a])
      <4>1. taken'[a][i] = taken[a][i]
        BY <2>2, <2>4, <3>2
      <4> QED BY <2>2, <3>2, <4>1 DEF OrderedFor
    <3>3. CASE i \notin 1 .. Len(taken[a])
      <4>1. taken'[a][i] = m
        BY <2>2, <2>4, <3>3
      <4> QED BY <3>1, <4>1
    <3> QED BY <3>2, <3>3
  <2>9. Rising(mailbox'[a])
    BY <2>3, <2>4
  <2>10. OrderedFor(a)'
    BY <1>0, <2>6, <2>7, <2>8, <2>9 DEF OrderedFor
  <2>11. ASSUME NEW b \in Actors, b # a PROVE OrderedFor(b)'
    BY <1>0, <2>4, <2>11, OrderStays DEF Ordered
  <2> QED BY <2>10, <2>11 DEF Ordered
<1> QED BY <1>1, <1>2

(* Every step keeps the order.                                             *)
LEMMA OrderNext == PostInv /\ Ordered /\ [Next]_vars => Ordered'
<1> SUFFICES ASSUME Types, Letters, Flow, Ordered, [Next]_vars PROVE Ordered'
  BY DEF PostInv
<1> USE DEF msgVars, coreVars, histVars
<1>1. ASSUME UNCHANGED <<mailbox, req, taken>>, issued' \in {issued, issued + 1}
      PROVE  Ordered'
  <2> SUFFICES ASSUME NEW a \in Actors PROVE OrderedFor(a)'
    BY DEF Ordered
  <2> QED BY <1>1, OrderStays DEF Ordered
<1>2. ASSUME NEW c \in Cores, NEW a \in Actors, Send(c, a) \/ Call(c, a) PROVE Ordered'
  <2> DEFINE m(call) == [id |-> issued', from |-> run[c], call |-> call,
                         remote |-> place[a] # c]
  <2>1. Attempt(c, a) /\ UNCHANGED taken
    BY <1>2 DEF Send, Call
  <2>2. issued' = issued + 1 /\ place[run[c]] = c
    BY <2>1, AttemptNumbers, Constants DEF Flow
  <2>3. PICK call \in BOOLEAN : Enqueue(c, a, m(call))
    BY <1>2 DEF Send, Call
  <2>4. m(call) \in Message /\ m(call).from = run[c] /\ m(call).id = issued + 1
    BY <2>1, <2>2, NewMessage
  <2> HIDE DEF m
  <2> QED BY <2>1, <2>2, <2>3, <2>4, OrderEnqueue
<1>3. ASSUME NEW c \in Cores, Body(c) PROVE Ordered'
  <2>1. CASE Complete(c)
    BY <1>1, <2>1 DEF Complete
  <2>2. ASSUME NEW a \in Actors, NotAdmitted(c, a) PROVE Ordered'
    BY <1>1, <2>2 DEF NotAdmitted, Attempt
  <2> QED BY <1>2, <1>3, <2>1, <2>2 DEF Body
<1>4. ASSUME NEW c \in Cores, Executor(c) PROVE Ordered'
  <2>1. CASE \/ LoopTop(c) \/ NothingRan(c) \/ GoIdle(c) \/ Park(c) \/ Wake(c)
             \/ DrainEnd(c) \/ DrainStart(c)
    BY <1>1, <2>1 DEF LoopTop, NothingRan, GoIdle, Park, Wake, DrainEnd, DrainStart
  <2>2. CASE Checkpoint(c)
    BY <1>1, <2>2 DEF Checkpoint
  <2>3. ASSUME NEW l \in lanes[c], NextLane(c, l) \/ DrainReply(c, l) PROVE Ordered'
    BY <1>1, <2>3 DEF NextLane, DrainReply
  <2> QED BY <1>4, <2>1, <2>2, <2>3, OrderDrain, OrderSelect DEF Executor, Drain
<1>5. ASSUME BackEdge \/ TestPasses \/ ScanIdle \/ ScanPending PROVE Ordered'
  BY <1>1, <1>5 DEF BackEdge, TestPasses, ScanIdle, ScanPending
<1>6. ASSUME UNCHANGED vars PROVE Ordered'
  BY <1>1, <1>6 DEF vars
<1> QED BY <1>3, <1>4, <1>5, <1>6 DEF Next, CoreStep, Stopped

(* SenderFifo: an actor takes the messages of one sender in the order it sent *)
(* them, local or across cores.                                               *)
LEMMA SenderOrder == SafetySpec => []SenderFifo
<1>1. Init => Ordered
  BY DEF Init, Ordered, OrderedFor, Rising, Earlier, Edges
<1>2. PostInv /\ Ordered => SenderFifo
  <2> SUFFICES ASSUME Types, Ordered PROVE SenderFifo
    BY DEF PostInv
  <2>1. \A a \in Actors : DOMAIN taken[a] = 1 .. Len(taken[a]) /\ Rising(taken[a])
    <3>1. \A a \in Actors : taken[a] \in Seq(Message)
      BY DEF Types, QueueType
    <3> QED BY <3>1 DEF Ordered, OrderedFor
  <2> QED BY <2>1 DEF SenderFifo, Rising
<1>3. SafetySpec => []Ordered
  BY <1>1, OrderNext, PostInvariant, PTL DEF SafetySpec
<1> QED BY <1>2, <1>3, PostInvariant, PTL
-----------------------------------------------------------------------------
(* Sleeping cores.                                                         *)

\* Where a core found nothing to do, and where it is about to find out.
Asleep == {"idle", "park", "parked"}
Sleepy == Asleep \cup {"select"}

\* Core c's drain has emptied the edges it has left behind, or a full mailbox
\* has ended it.
Swept(c) ==
    \/ \A l \in Lanes(c) : LaneEmpty(c, l) \/ l \in lanes[c]
    \/ /\ lanes[c] = {}
       /\ \A l \in Lanes(c) : l[1] = "rep" => LaneEmpty(c, l)
       /\ \E a \in Slots(c), s \in Cores :
              req[<<s, a>>] # <<>> /\ Len(mailbox[a]) = MailboxCap[a]

\* The test has no reply that core 0 has not seen.
TestWaits ==
    /\ pc[0] \in Sleepy \cup {"drain"} \/ (pc[0] = "sweep" /\ ~ moved[0]) =>
           ~ turn[Test].ready
    /\ pc[0] \in Asleep => turn[Test].busy

\* What core d knows in the part of its loop that leads to sleep.
Rested(d) ==
    /\ pc[d] # "sweep" => lanes[d] = {}
    /\ lanes[d] \subseteq Lanes(d)
    /\ pc[d] \in Sleepy \cup {"sweep"} /\ ~ pend[d] => Swept(d)
    /\ pc[d] \in Asleep => \A a \in Slots(d) : ~ Selectable(a)
    /\ d = 0 => TestWaits

\* What a step of another core leaves alone on core d; what it puts into a
\* ring it announces in the pending word.
Aside(d) ==
    /\ place' = place
    /\ pc'[d] = pc[d] /\ lanes'[d] = lanes[d] /\ moved'[d] = moved[d]
    /\ pend[d] => pend'[d]
    /\ \A t \in Turns : place[t] = d => turn'[t] = turn[t]
    /\ \A a \in Slots(d) : mailbox'[a] = mailbox[a]
    /\ ~ pend'[d] =>
           /\ \A s \in Cores : rep'[<<s, d>>] = rep[<<s, d>>]
           /\ \A s \in Cores : \A a \in Slots(d) : req'[<<s, a>>] = req[<<s, a>>]

\* Only core 0's turns await: a checkpoint after an await clears core 0's
\* word, whatever core runs it.  (RuntimeEatenWake shows what happens if other
\* cores' turns await.)
CoreZeroAwaits ==
    \A p \in Placements, t \in Turns : Awaits[t] # {} => p[t] = 0

(* So a turn that awaits is on core 0, however the turns are placed.       *)
LEMMA AwaitsOnCoreZero ==
    ASSUME Types, CoreZeroAwaits
    PROVE  \A t \in Turns : Awaits[t] # {} => place[t] = 0
BY DEF Types, CoreType, CoreZeroAwaits

(* A core that slept well sleeps on through the steps of the others.       *)
LEMMA AsideKeeps ==
    ASSUME Types, NEW d \in Cores, Rested(d), Aside(d)
    PROVE  Rested(d)'
<1>1. /\ Lanes(d)' = Lanes(d) /\ Slots(d)' = Slots(d)
      /\ pc'[d] = pc[d] /\ lanes'[d] = lanes[d] /\ moved'[d] = moved[d]
  <2>1. place' = place
    BY DEF Aside
  <2> QED BY <2>1 DEF Lanes, Slots, Core, Aside
<1>2. \A a \in Slots(d) : Selectable(a)' <=> Selectable(a)
  BY Constants DEF Slots, Selectable, Aside
<1>3. ASSUME ~ pend'[d], Swept(d) PROVE Swept(d)'
  <2>1. \A s \in Cores : rep'[<<s, d>>] = rep[<<s, d>>]
    BY <1>3 DEF Aside
  <2>2. \A s \in Cores : \A a \in Slots(d) : req'[<<s, a>>] = req[<<s, a>>]
    BY <1>3 DEF Aside
  <2>3. \A l \in Lanes(d) : LaneEmpty(d, l)' <=> LaneEmpty(d, l)
    <3> SUFFICES ASSUME NEW l \in Lanes(d) PROVE LaneEmpty(d, l)' <=> LaneEmpty(d, l)
      OBVIOUS
    <3>1. CASE l[1] = "rep"
      <4>1. l[2] \in Cores
        BY DEF Lanes
      <4> QED BY <2>1, <3>1, <4>1 DEF LaneEmpty
    <3>2. CASE l[1] # "rep"
      <4>1. l[2] \in Cores /\ l[3] \in Slots(d)
        BY <3>2 DEF Lanes, Slots
      <4> QED BY <2>2, <3>2, <4>1 DEF LaneEmpty
    <3> QED BY <3>1, <3>2
  <2>4. CASE \A l \in Lanes(d) : LaneEmpty(d, l) \/ l \in lanes[d]
    BY <1>1, <2>3, <2>4 DEF Swept
  <2>5. CASE ~ \A l \in Lanes(d) : LaneEmpty(d, l) \/ l \in lanes[d]
    <3>1. /\ lanes[d] = {}
          /\ \A l \in Lanes(d) : l[1] = "rep" => LaneEmpty(d, l)
      BY <1>3, <2>5 DEF Swept
    <3>2. PICK a \in Slots(d), s \in Cores :
              req[<<s, a>>] # <<>> /\ Len(mailbox[a]) = MailboxCap[a]
      BY <1>3, <2>5 DEF Swept
    <3>3. req'[<<s, a>>] # <<>> /\ Len(mailbox'[a]) = MailboxCap[a]
      BY <2>2, <3>2 DEF Aside
    <3> QED BY <1>1, <2>3, <3>1, <3>3 DEF Swept
  <2> QED BY <2>4, <2>5
<1>4. d = 0 => TestWaits'
  <2> SUFFICES ASSUME d = 0 PROVE TestWaits'
    OBVIOUS
  <2>1. place[Test] = 0
    BY Constants DEF Types, CoreType
  <2>2. turn'[Test] = turn[Test]
    BY <2>1, Constants DEF Aside
  <2> QED BY <1>1, <2>2 DEF TestWaits, Rested
<1>5. ~ pend'[d] => ~ pend[d]
  BY DEF Aside
<1> QED BY <1>1, <1>2, <1>3, <1>4, <1>5 DEF Rested

(* Enqueue leaves another core alone, or wakes it.                         *)
LEMMA EnqueueAside ==
    ASSUME Types, NEW c \in Cores, NEW d \in Cores \ {c}, NEW a \in Actors, NEW m,
           Enqueue(c, a, m), UNCHANGED <<place, rep>>
    PROVE  /\ pend[d] => pend'[d]
           /\ \A b \in Slots(d) : mailbox'[b] = mailbox[b]
           /\ ~ pend'[d] =>
                  /\ \A s \in Cores : rep'[<<s, d>>] = rep[<<s, d>>]
                  /\ \A s \in Cores : \A b \in Slots(d) : req'[<<s, b>>] = req[<<s, b>>]
<1> USE DEF Slots
<1>0. /\ mailbox \in [Actors -> Seq(Message)] /\ req \in [Edges -> Seq(Message)]
      /\ pend \in [Cores -> BOOLEAN]
  BY DEF Types, QueueType, CoreType
<1>1. CASE place[a] = c
  <2>1. mailbox' = [mailbox EXCEPT ![a] = Append(@, m)] /\ UNCHANGED <<req, pend>>
    BY <1>1 DEF Enqueue
  <2> QED BY <1>0, <1>1, <2>1
<1>2. CASE place[a] # c
  <2>1. /\ req' = [req EXCEPT ![<<c, a>>] = Append(@, m)] /\ UNCHANGED mailbox
        /\ pend' = [pend EXCEPT ![place[a]] = TRUE]
    BY <1>2 DEF Enqueue
  <2>2. pend[d] => pend'[d]
    BY <1>0, <2>1
  <2>3. ASSUME ~ pend'[d], NEW s \in Cores, NEW b \in Slots(d)
        PROVE  req'[<<s, b>>] = req[<<s, b>>]
    <3>1. place[a] # d
      BY <1>0, <2>1, <2>3
    <3>2. <<s, b>> # <<c, a>>
      BY <3>1
    <3>3. <<s, b>> \in Edges
      BY DEF Edges
    <3> QED BY <1>0, <2>1, <3>2, <3>3
  <2> QED BY <2>1, <2>2, <2>3
<1> QED BY <1>1, <1>2

(* The body of a turn leaves another core alone.                           *)
LEMMA BodyAside ==
    ASSUME PostInv, CoreZeroAwaits, NEW c \in Cores, NEW d \in Cores \ {c},
           Body(c) \/ (c = 0 /\ (BackEdge \/ TestPasses \/ ScanIdle \/ ScanPending))
    PROVE  Aside(d)
<1> USE DEF msgVars, coreVars, histVars
<1>0. /\ Types /\ Flow /\ turn \in [Turns -> TurnRecords] /\ pend \in [Cores -> BOOLEAN]
      /\ pc \in [Cores -> Labels] /\ place \in [Turns -> Cores] /\ Letters
  BY Constants DEF PostInv, Types, TurnType, CoreType
<1>1. ASSUME NEW a \in Actors, NotAdmitted(c, a) PROVE Aside(d)
  <2>1. UNCHANGED pend \/ (c = 0 /\ pend' = [pend EXCEPT ![0] = FALSE])
    <3>1. CASE UNCHANGED pend
      BY <3>1
    <3>2. CASE ~ UNCHANGED pend
      <4>1. /\ a \in Awaits[run[c]] /\ pend' = [pend EXCEPT ![0] = FALSE] /\ pc[c] = "run"
        BY <1>1, <3>2 DEF NotAdmitted, BodyCheckpoint, Attempt
      <4>2. run[c] \in Turns /\ place[run[c]] = c
        BY <1>0, <4>1 DEF Types, CoreType, Flow
      <4> QED BY <1>0, <4>1, <4>2, AwaitsOnCoreZero
    <3> QED BY <3>1, <3>2
  <2>2. UNCHANGED <<place, mailbox, req, rep, turn, pc, lanes, moved>>
    BY <1>1 DEF NotAdmitted
  <2> QED BY <1>0, <2>1, <2>2 DEF Aside
<1>2. ASSUME NEW a \in Actors, Send(c, a) PROVE Aside(d)
  <2>1. /\ UNCHANGED <<place, rep, turn, pc, lanes, moved>>
        /\ \E m : Enqueue(c, a, m)
    BY <1>2 DEF Send
  <2>2. /\ pend[d] => pend'[d]
        /\ \A b \in Slots(d) : mailbox'[b] = mailbox[b]
        /\ ~ pend'[d] =>
               /\ \A s \in Cores : rep'[<<s, d>>] = rep[<<s, d>>]
               /\ \A s \in Cores : \A b \in Slots(d) : req'[<<s, b>>] = req[<<s, b>>]
    BY <1>0, <2>1, EnqueueAside
  <2> QED BY <2>1, <2>2 DEF Aside
<1>3. ASSUME NEW a \in Actors, Call(c, a) PROVE Aside(d)
  <2>1. /\ UNCHANGED <<place, rep, lanes, moved>>
        /\ \E m : Enqueue(c, a, m)
        /\ turn' = [turn EXCEPT ![run[c]].susp = TRUE]
        /\ Goto(c, Returned(c, TRUE)) /\ pc[c] = "run"
    BY <1>3 DEF Call, Attempt
  <2>2. /\ pend[d] => pend'[d]
        /\ \A b \in Slots(d) : mailbox'[b] = mailbox[b]
        /\ ~ pend'[d] =>
               /\ \A s \in Cores : rep'[<<s, d>>] = rep[<<s, d>>]
               /\ \A s \in Cores : \A b \in Slots(d) : req'[<<s, b>>] = req[<<s, b>>]
    BY <1>0, <2>1, EnqueueAside
  <2>3. place[run[c]] = c
    BY <1>0, <2>1 DEF Flow, Types, CoreType
  <2>4. \A t \in Turns : place[t] = d => turn'[t] = turn[t]
    BY <1>0, <2>1, <2>3
  <2>5. pc'[d] = pc[d]
    BY <1>0, <2>1 DEF Goto
  <2> QED BY <2>1, <2>2, <2>4, <2>5 DEF Aside
<1>4. CASE Complete(c)
  <2> DEFINE t == run[c]
             m == turn[t].cur
             back == <<c, place[m.from]>>
  <2>1. t \in Actors /\ place[t] = c /\ turn[t].busy
    BY <1>0, <1>4, Constants DEF Complete, Types, CoreType, Flow
  <2>2. Deliver(c, t, Freed(t)) /\ UNCHANGED <<place, mailbox, req, lanes, moved>>
        /\ Goto(c, Returned(c, TRUE))
    BY <1>4 DEF Complete, Freed
  <2>3. /\ m \in Message /\ m.from \in Turns /\ m.remote \in BOOLEAN
        /\ m.remote <=> place[m.from] # c
    <3> DEFINE b == <<"turn", t>>
    <3> HIDE DEF t
    <3>1. b \in Boxes /\ box[b] = <<m>> /\ box \in Contents /\ b[1] = "turn" /\ b[2] = t
      <4>1. b \in Boxes /\ box[b] = <<turn[t].cur>>
        BY <1>0, <2>1, BoxAt
      <4> QED BY <1>0, <4>1, BoxTypes
    <3> HIDE DEF b
    <3>2. m \in Held(box, b)
      BY <3>1 DEF Held
    <3>3. m \in Message /\ Routed(b, m)
      BY <1>0, <3>1, <3>2, HeldTypes, LettersKnown
    <3> QED BY <2>1, <3>1, <3>3 DEF Routed, Message
  <2>4. /\ Freed(t) \in [Turns -> TurnRecords]
        /\ \A u \in Turns : u # t => Freed(t)[u] = turn[u]
    BY <1>0, <2>1, FreedTypes, Constants
  <2>5. \A u \in Turns : u # m.from => Answered(Freed(t), m)[u] = Freed(t)[u]
    BY <2>3, <2>4, AnsweredTypes
  <2>6. \/ turn' = Freed(t) /\ UNCHANGED <<rep, pend>>
        \/ turn' = Answered(Freed(t), m) /\ ~ m.remote /\ UNCHANGED <<rep, pend>>
        \/ /\ turn' = Freed(t) /\ rep' = [rep EXCEPT ![back] = Append(@, m)]
           /\ pend' = [pend EXCEPT ![place[m.from]] = TRUE]
    BY <2>2 DEF Deliver, Answered
  <2> HIDE DEF m, t
  <2>7. \A u \in Turns : place[u] = d => turn'[u] = turn[u]
    BY <2>1, <2>3, <2>4, <2>5, <2>6
  <2>8. pend[d] => pend'[d]
    BY <1>0, <2>6
  <2>9. ASSUME ~ pend'[d], NEW s \in Cores PROVE rep'[<<s, d>>] = rep[<<s, d>>]
    <3>1. CASE UNCHANGED rep
      BY <3>1
    <3>2. CASE rep' # rep
      <4>1. /\ rep' = [rep EXCEPT ![back] = Append(@, m)]
            /\ pend' = [pend EXCEPT ![place[m.from]] = TRUE]
        BY <2>6, <3>2
      <4>2. place[m.from] # d
        BY <1>0, <2>9, <4>1
      <4>3. <<s, d>> # back
        BY <4>2
      <4>4. rep \in [Cores \X Cores -> Seq(Message)] /\ <<s, d>> \in Cores \X Cores
        BY <1>0 DEF Types, QueueType
      <4> QED BY <4>1, <4>3, <4>4
    <3> QED BY <3>1, <3>2
  <2>10. pc'[d] = pc[d]
    BY <1>0, <2>2 DEF Goto
  <2> QED BY <2>2, <2>7, <2>8, <2>9, <2>10 DEF Aside
<1>5. ASSUME c = 0, BackEdge PROVE Aside(d)
  BY <1>0, <1>5 DEF BackEdge, BodyCheckpoint, Aside
<1>6. ASSUME c = 0, TestPasses PROVE Aside(d)
  <2>1. /\ UNCHANGED <<place, mailbox, req, rep, pend, lanes, moved>>
        /\ turn' = [turn EXCEPT ![Test].busy = FALSE]
        /\ Goto(0, IF Multi THEN "top" ELSE "halted")
    BY <1>6 DEF TestPasses
  <2>2. place[Test] = 0
    BY <1>0, Constants DEF Types, CoreType
  <2>3. \A u \in Turns : place[u] = d => turn'[u] = turn[u]
    BY <1>0, <1>6, <2>1, <2>2
  <2>4. pc'[d] = pc[d]
    BY <1>0, <1>6, <2>1 DEF Goto
  <2> QED BY <2>1, <2>3, <2>4 DEF Aside
<1>7. ASSUME c = 0, ScanIdle \/ ScanPending PROVE Aside(d)
  <2>1. UNCHANGED <<place, mailbox, req, rep, turn, pend, lanes, moved>>
    BY <1>7 DEF ScanIdle, ScanPending
  <2>2. \E label : pc' = [pc EXCEPT ![0] = label]
    BY <1>7 DEF ScanIdle, ScanPending, Goto
  <2>3. pc'[d] = pc[d]
    BY <1>0, <1>7, <2>2
  <2> QED BY <2>1, <2>3 DEF Aside
<1> QED BY <1>1, <1>2, <1>3, <1>4, <1>5, <1>6, <1>7 DEF Body

(* The executor loop of a core leaves another core alone.                  *)
LEMMA LoopAside ==
    ASSUME PostInv, CoreZeroAwaits, NEW c \in Cores, NEW d \in Cores \ {c}, Executor(c),
           Rested(c)
    PROVE  Aside(d)
<1> USE DEF msgVars, coreVars, histVars
<1>0. /\ Types /\ Flow /\ turn \in [Turns -> TurnRecords] /\ pend \in [Cores -> BOOLEAN]
      /\ pc \in [Cores -> Labels] /\ place \in [Turns -> Cores] /\ Letters
      /\ lanes \in [Cores -> SUBSET AllLanes] /\ moved \in [Cores -> BOOLEAN]
      /\ mailbox \in [Actors -> Seq(Message)] /\ req \in [Edges -> Seq(Message)]
      /\ rep \in [Cores \X Cores -> Seq(Message)]
  BY Constants DEF PostInv, Types, TurnType, CoreType, QueueType
<1>1. CASE \/ LoopTop(c) \/ NothingRan(c) \/ GoIdle(c) \/ Park(c) \/ Wake(c)
           \/ DrainEnd(c) \/ DrainStart(c)
  <2>1. /\ UNCHANGED <<place, mailbox, req, rep, turn>>
        /\ \E label : Goto(c, label)
        /\ pend' \in {pend, [pend EXCEPT ![c] = FALSE]}
        /\ lanes' \in {lanes, [lanes EXCEPT ![c] = Lanes(c)]}
        /\ moved' \in {moved, [moved EXCEPT ![c] = FALSE]}
    BY <1>1 DEF LoopTop, NothingRan, GoIdle, Park, Wake, DrainEnd, DrainStart
  <2>2. pc'[d] = pc[d]
    BY <1>0, <2>1 DEF Goto
  <2>3. pend'[d] = pend[d] /\ lanes'[d] = lanes[d] /\ moved'[d] = moved[d]
    BY <1>0, <2>1
  <2> QED BY <2>1, <2>2, <2>3 DEF Aside
<1>2. CASE Checkpoint(c)
  <2>1. /\ UNCHANGED <<place, mailbox, req, rep, lanes, moved>>
        /\ \E label : Goto(c, label)
        /\ pend' = [pend EXCEPT ![c] = FALSE]
        /\ turn' = turn \/ (c = 0 /\ turn' = Resumed(Test))
    BY <1>2 DEF Checkpoint
  <2>2. pc'[d] = pc[d] /\ pend'[d] = pend[d]
    BY <1>0, <2>1 DEF Goto
  <2>3. place[Test] = 0 /\ \A t \in Turns : t # Test => Resumed(Test)[t] = turn[t]
    BY <1>0, ResumedTypes, Constants DEF Types, CoreType
  <2>4. \A t \in Turns : place[t] = d => turn'[t] = turn[t]
    BY <2>1, <2>3
  <2> QED BY <2>1, <2>2, <2>4 DEF Aside
<1>3. ASSUME NEW l \in lanes[c], NextLane(c, l) PROVE Aside(d)
  BY <1>0, <1>3 DEF NextLane, Aside
<1>4. ASSUME NEW l \in lanes[c], DrainReply(c, l) PROVE Aside(d)
  <2> DEFINE e == <<l[2], c>>
             m == Head(rep[e])
             b == <<"rep", e>>
  <2>1. e \in Cores \X Cores /\ rep[e] # <<>> /\ e[2] = c
    BY <1>0, <1>4, LaneTypes DEF DrainReply, LaneEmpty
  <2>2. /\ turn' = Answered(turn, m) /\ rep' = [rep EXCEPT ![e] = Tail(@)]
        /\ moved' = [moved EXCEPT ![c] = TRUE]
        /\ UNCHANGED <<place, mailbox, req, pend, pc, lanes>>
    BY <1>4 DEF DrainReply, Answered
  <2>3. box \in Contents /\ b \in Boxes /\ box[b] = rep[e] /\ b[1] = "rep" /\ b[2] = e
    BY <1>0, <2>1, BoxAt, BoxTypes
  <2> HIDE DEF m, e, b
  <2>4. m \in Held(box, b) /\ m \in Message
    BY <2>1, <2>3, HeldTypes DEF m
  <2>5. m.from \in Turns /\ place[m.from] = c
    BY <1>0, <2>1, <2>3, <2>4, LettersKnown DEF Routed, Message
  <2>6. \A u \in Turns : place[u] = d => turn'[u] = turn[u]
    <3>1. \A u \in Turns : u # m.from => Answered(turn, m)[u] = turn[u]
      BY <1>0, <2>4, AnsweredTypes
    <3> QED BY <2>2, <2>5, <3>1
  <2>7. \A s \in Cores : rep'[<<s, d>>] = rep[<<s, d>>]
    BY <1>0, <2>2 DEF e
  <2> QED BY <1>0, <2>2, <2>6, <2>7 DEF Aside
<1>5. ASSUME NEW l \in lanes[c], DrainRequest(c, l) PROVE Aside(d)
  <2> DEFINE a == l[3]
             e == <<l[2], l[3]>>
  <2>1. e \in Edges /\ a \in Actors /\ place[a] = c
    <3>1. l \in Lanes(c) /\ l[1] = "req"
      BY <1>5 DEF Rested, DrainRequest
    <3>2. e \in Edges /\ a \in Actors
      BY <1>0, <3>1, LaneTypes
    <3>3. place[a] = c
      BY <3>1 DEF Lanes
    <3> QED BY <3>2, <3>3
  <2>2. UNCHANGED <<place, rep, turn, pend, pc>>
    BY <1>5 DEF DrainRequest
  <2>3. /\ mailbox' \in {mailbox, [mailbox EXCEPT ![a] = Append(@, Head(req[e]))]}
        /\ req' \in {req, [req EXCEPT ![e] = Tail(@)]}
        /\ lanes' \in {lanes, [lanes EXCEPT ![c] = {}]}
        /\ moved' \in {moved, [moved EXCEPT ![c] = TRUE]}
    BY <1>5 DEF DrainRequest
  <2> HIDE DEF a
  <2>4. \A b \in Slots(d) : mailbox'[b] = mailbox[b]
    BY <1>0, <2>1, <2>3 DEF Slots
  <2>5. ASSUME NEW s \in Cores, NEW b \in Slots(d) PROVE req'[<<s, b>>] = req[<<s, b>>]
    <3>1. <<s, b>> # e /\ <<s, b>> \in Edges
      BY <2>1 DEF Slots, Edges, a
    <3> QED BY <1>0, <2>3, <3>1
  <2>6. lanes'[d] = lanes[d] /\ moved'[d] = moved[d]
    BY <1>0, <2>3
  <2> QED BY <2>2, <2>4, <2>5, <2>6 DEF Aside
<1>6. ASSUME NEW a \in Actors, Select(c, a) PROVE Aside(d)
  <2>1. /\ UNCHANGED <<place, req, rep, lanes, moved>> /\ Goto(c, "run")
        /\ place[a] = c /\ Selectable(a) /\ a \in Turns
    BY <1>6, Constants DEF Select, Chosen, Slots
  <2>2. pc'[d] = pc[d]
    BY <1>0, <2>1 DEF Goto
  <2>3. CASE turn[a].busy
    <3>1. turn' = Resumed(a) /\ pend' = [pend EXCEPT ![0] = FALSE] /\ UNCHANGED mailbox
      BY <1>6, <2>3 DEF Select, BodyCheckpoint
    <3>2. c = 0
      BY <1>0, <2>1, <2>3, AwaitsOnCoreZero DEF Selectable, Flow
    <3>3. \A u \in Turns : place[u] = d => turn'[u] = turn[u]
      BY <1>0, <2>1, <3>1, ResumedTypes
    <3>4. pend'[d] = pend[d]
      BY <1>0, <3>1, <3>2
    <3> QED BY <2>1, <2>2, <3>1, <3>3, <3>4 DEF Aside
  <2>4. CASE ~ turn[a].busy
    <3>1. /\ turn' = [turn EXCEPT ![a].busy = TRUE, ![a].cur = Head(mailbox[a])]
          /\ mailbox' = [mailbox EXCEPT ![a] = Tail(@)] /\ UNCHANGED pend
      BY <1>6, <2>4 DEF Select
    <3>2. \A u \in Turns : place[u] = d => turn'[u] = turn[u]
      BY <1>0, <2>1, <3>1
    <3>3. \A b \in Slots(d) : mailbox'[b] = mailbox[b]
      BY <1>0, <2>1, <3>1 DEF Slots
    <3> QED BY <2>1, <2>2, <3>1, <3>2, <3>3 DEF Aside
  <2> QED BY <2>3, <2>4
<1> QED BY <1>1, <1>2, <1>3, <1>4, <1>5, <1>6 DEF Executor, Drain

(* A core that is not on its way to sleep has nothing to show.             *)
LEMMA AwakeRests ==
    ASSUME NEW c \in Cores, pc'[c] \notin Sleepy \cup {"sweep", "drain"}, lanes'[c] = {}
    PROVE  Rested(c)'
BY DEF Rested, TestWaits, Sleepy

(* The steps of core c outside its drain.                                  *)
LEMMA OwnLoopKeeps ==
    ASSUME PostInv, PostInv', NEW c \in Cores, Rested(c),
           \/ Body(c) \/ (c = 0 /\ (BackEdge \/ TestPasses \/ ScanIdle \/ ScanPending))
           \/ LoopTop(c) \/ Checkpoint(c) \/ NothingRan(c) \/ GoIdle(c) \/ Park(c)
           \/ Wake(c) \/ \E a \in Actors : Select(c, a)
    PROVE  Rested(c)'
<1> USE DEF msgVars, coreVars, histVars
<1>0. /\ Types /\ Flow /\ Letters /\ pc \in [Cores -> Labels] /\ pend \in [Cores -> BOOLEAN]
  BY DEF PostInv, Types, CoreType
<1>1. UNCHANGED <<lanes, place>>
  BY DEF Body, NotAdmitted, Send, Call, Complete, BackEdge, TestPasses, ScanIdle, ScanPending,
         LoopTop, Checkpoint, NothingRan, GoIdle, Park, Wake, Select
<1>2. pc[c] # "sweep" /\ lanes'[c] = {}
  <2>1. pc[c] # "sweep"
    BY DEF Body, NotAdmitted, Send, Call, Complete, Attempt, BackEdge, TestPasses, ScanIdle,
           ScanPending, LoopTop, Checkpoint, NothingRan, GoIdle, Park, Wake, Select
  <2> QED BY <1>1, <2>1 DEF Rested
<1>3. CASE \/ Body(c) \/ (c = 0 /\ (BackEdge \/ TestPasses \/ ScanIdle \/ ScanPending))
           \/ LoopTop(c) \/ \E a \in Actors : Select(c, a)
  <2> DEFINE Awake == {"run", "top", "scan", "scanPending", "halted", "check"}
  <2>1. ASSUME \E a \in Actors : NotAdmitted(c, a) \/ Send(c, a) \/ Select(c, a) PROVE pc'[c] \in Awake
    BY <1>0, <2>1 DEF NotAdmitted, Send, Attempt, Select, Goto
  <2>2. ASSUME Complete(c) \/ \E a \in Actors : Call(c, a) PROVE pc'[c] \in Awake
    <3>1. Goto(c, Returned(c, TRUE)) /\ Returned(c, TRUE) \in Awake
      BY <2>2 DEF Complete, Call, Returned
    <3> QED BY <1>0, <3>1 DEF Goto
  <2>3. ASSUME c = 0 /\ (BackEdge \/ TestPasses) PROVE pc'[c] \in Awake
    BY <1>0, <2>3 DEF BackEdge, TestPasses, Goto
  <2>4. ASSUME c = 0 /\ (ScanIdle \/ ScanPending) PROVE pc'[c] \in Awake
    <3>1. \E label \in Awake : pc' = [pc EXCEPT ![0] = label]
      BY <2>4 DEF ScanIdle, ScanPending, Goto
    <3> QED BY <1>0, <2>4, <3>1
  <2>5. ASSUME LoopTop(c) PROVE pc'[c] \in Awake
    BY <1>0, <2>5 DEF LoopTop, Goto
  <2>6. pc'[c] \in Awake
    BY <1>3, <2>1, <2>2, <2>3, <2>4, <2>5 DEF Body
  <2> QED BY <1>2, <2>6, AwakeRests DEF Sleepy, Asleep
<1>4. CASE Checkpoint(c)
  <2>1. CASE c = 0 /\ turn[Test].busy /\ turn[Test].ready
    <3>1. pc'[c] = "run"
      BY <1>0, <1>4, <2>1 DEF Checkpoint, Goto
    <3> QED BY <1>2, <3>1, AwakeRests DEF Sleepy, Asleep
  <2>2. CASE ~ (c = 0 /\ turn[Test].busy /\ turn[Test].ready)
    <3>1. pc'[c] = "drain" /\ UNCHANGED turn
      BY <1>0, <1>4, <2>2 DEF Checkpoint, Goto
    <3>2. turn[Test].ready => turn[Test].busy
      BY <1>0, Constants DEF Letters, Waits, Flow
    <3> QED BY <1>2, <2>2, <3>1, <3>2 DEF Rested, TestWaits, Sleepy, Asleep
  <2> QED BY <2>1, <2>2
<1>5. CASE NothingRan(c) \/ GoIdle(c) \/ Park(c) \/ Wake(c)
  <2>1. UNCHANGED <<place, mailbox, req, rep, turn, pend, moved, lanes>>
    BY <1>5 DEF NothingRan, GoIdle, Park, Wake
  <2>2. /\ Swept(c)' <=> Swept(c)
        /\ \A a \in Slots(c) : Selectable(a)' <=> Selectable(a)
        /\ Slots(c)' = Slots(c) /\ Lanes(c)' = Lanes(c)
    BY <2>1 DEF Swept, Lanes, Slots, LaneEmpty, Selectable, Core
  <2>3. pc[c] \in Sleepy /\ pc'[c] \in Asleep \cup {"top", "scan", "aborted"}
    BY <1>0, <1>5 DEF NothingRan, GoIdle, Park, Wake, Goto, Returned, Sleepy, Asleep
  <2>4. CASE pc'[c] \notin Asleep
    BY <1>2, <2>3, <2>4, AwakeRests DEF Sleepy, Asleep
  <2>5. CASE pc'[c] \in Asleep
    <3>1. \A a \in Slots(c) : ~ Selectable(a)
      BY <1>5, <2>3 DEF NothingRan, Rested, GoIdle, Park, Wake, Asleep
    <3>2. c = 0 => turn[Test].busy /\ ~ turn[Test].ready
      <4>1. CASE NothingRan(c)
        BY <1>0, <2>3, <2>5, <4>1
           DEF NothingRan, Rested, TestWaits, Goto, Returned, Quiescing, Asleep
      <4>2. CASE GoIdle(c) \/ Park(c) \/ Wake(c)
        BY <2>3, <4>2 DEF GoIdle, Park, Wake, Rested, TestWaits, Asleep
      <4> QED BY <1>5, <4>1, <4>2
    <3>3. Rested(c)' <=> /\ lanes'[c] \subseteq Lanes(c)
                         /\ ~ pend[c] => Swept(c)
                         /\ c = 0 => TestWaits'
      BY <1>2, <2>1, <2>2, <2>5, <3>1 DEF Rested, Sleepy, Asleep
    <3>4. c = 0 => TestWaits'
      BY <2>1, <3>2 DEF TestWaits
    <3> QED BY <1>1, <2>3, <3>3, <3>4 DEF Rested
  <2> QED BY <2>4, <2>5
<1> QED BY <1>3, <1>4, <1>5

(* The steps of core c's drain: it leaves an edge behind only when that is  *)
(* empty, or ends at a full mailbox after all the reply rings.              *)
LEMMA OwnDrainKeeps ==
    ASSUME PostInv, PostInv', NEW c \in Cores, Rested(c), Drain(c)
    PROVE  Rested(c)'
<1> USE DEF msgVars, coreVars, histVars
<1>0. /\ Types /\ pc \in [Cores -> Labels] /\ pend \in [Cores -> BOOLEAN]
      /\ lanes \in [Cores -> SUBSET AllLanes] /\ moved \in [Cores -> BOOLEAN]
      /\ mailbox \in [Actors -> Seq(Message)] /\ req \in [Edges -> Seq(Message)]
      /\ rep \in [Cores \X Cores -> Seq(Message)]
  BY DEF PostInv, Types, CoreType, QueueType
<1>1. UNCHANGED place
  BY DEF Drain, DrainStart, DrainEnd, NextLane, DrainReply, DrainRequest
<1>2. Lanes(c)' = Lanes(c) /\ Slots(c)' = Slots(c)
  BY <1>1 DEF Lanes, Slots, Core
<1>3. CASE DrainStart(c)
  <2>1. /\ pc[c] = "drain" /\ pc'[c] = "sweep" /\ lanes'[c] = Lanes(c) /\ UNCHANGED turn
    BY <1>0, <1>3 DEF DrainStart, Goto
  <2>2. Swept(c)'
    BY <1>2, <2>1 DEF Swept
  <2>3. c = 0 => ~ turn'[Test].ready
    BY <2>1 DEF Rested, TestWaits
  <2> QED BY <1>2, <2>1, <2>2, <2>3 DEF Rested, TestWaits, Sleepy, Asleep
<1>4. CASE DrainEnd(c)
  <2>1. /\ UNCHANGED <<mailbox, req, rep, turn, pend, moved, lanes>>
        /\ pc[c] = "sweep" /\ lanes[c] = {}
        /\ Goto(c, IF moved[c] THEN Returned(c, TRUE) ELSE "select")
    BY <1>4 DEF DrainEnd
  <2>2. Swept(c)' <=> Swept(c)
    BY <1>1, <2>1 DEF Swept, Lanes, Slots, LaneEmpty, Core
  <2>3. CASE moved[c]
    <3>1. pc'[c] \in {"top", "scan"}
      BY <1>0, <2>1, <2>3 DEF Goto, Returned
    <3> QED BY <2>1, <3>1, AwakeRests DEF Sleepy, Asleep
  <2>4. CASE ~ moved[c]
    <3>1. pc'[c] = "select"
      BY <1>0, <2>1, <2>4 DEF Goto
    <3>2. c = 0 => ~ turn'[Test].ready
      BY <2>1, <2>4 DEF Rested, TestWaits
    <3> QED BY <1>2, <2>1, <2>2, <3>1, <3>2 DEF Rested, TestWaits, Sleepy, Asleep
  <2> QED BY <2>3, <2>4
<1>5. ASSUME NEW l \in lanes[c], NextLane(c, l) \/ DrainReply(c, l) \/ DrainRequest(c, l)
      PROVE  Rested(c)'
  <2>1. /\ pc[c] = "sweep" /\ UNCHANGED <<pc, pend>> /\ lanes[c] \subseteq Lanes(c)
        /\ AtLane(c, l) /\ l \in Lanes(c)
    BY <1>5 DEF NextLane, DrainReply, DrainRequest, AtLane, Rested
  <2>2. ASSUME ~ pend'[c] PROVE \A k \in Lanes(c) : LaneEmpty(c, k) \/ k \in lanes[c]
    BY <1>5, <2>1, <2>2 DEF Rested, Swept
  <2>3. ASSUME Swept(c)' \/ pend'[c], lanes'[c] \subseteq Lanes(c),
               c = 0 /\ ~ moved'[c] => ~ turn'[Test].ready
        PROVE  Rested(c)'
    BY <1>2, <2>1, <2>3 DEF Rested, TestWaits, Sleepy, Asleep
  <2>4. CASE NextLane(c, l)
    <3>1. /\ UNCHANGED <<mailbox, req, rep, turn, moved>> /\ LaneEmpty(c, l)
          /\ lanes'[c] = lanes[c] \ {l}
      BY <1>0, <2>4 DEF NextLane
    <3>2. \A k : LaneEmpty(c, k)' <=> LaneEmpty(c, k)
      BY <3>1 DEF LaneEmpty
    <3>3. Swept(c)' \/ pend'[c]
      BY <1>2, <2>2, <3>1, <3>2 DEF Swept
    <3>4. c = 0 /\ ~ moved'[c] => ~ turn'[Test].ready
      BY <2>1, <3>1 DEF Rested, TestWaits
    <3> QED BY <2>1, <2>3, <3>1, <3>3, <3>4
  <2>5. CASE DrainReply(c, l)
    <3>1. /\ UNCHANGED <<mailbox, req, lanes>> /\ l[1] = "rep" /\ moved'[c]
          /\ rep' = [rep EXCEPT ![<<l[2], c>>] = Tail(@)]
      BY <1>0, <2>5 DEF DrainReply
    <3>2. ASSUME NEW k \in Lanes(c), k # l PROVE LaneEmpty(c, k)' <=> LaneEmpty(c, k)
      <4>1. CASE k[1] = "rep"
        <5>1. k[2] # l[2] /\ k[2] \in Cores
          BY <2>1, <3>1, <3>2, <4>1 DEF Lanes
        <5>2. rep'[<<k[2], c>>] = rep[<<k[2], c>>]
          BY <1>0, <3>1, <5>1
        <5> QED BY <4>1, <5>2 DEF LaneEmpty
      <4>2. CASE k[1] # "rep"
        BY <3>1, <4>2 DEF LaneEmpty
      <4> QED BY <4>1, <4>2
    <3>3. Swept(c)' \/ pend'[c]
      BY <1>2, <1>5, <2>2, <3>1, <3>2 DEF Swept
    <3> QED BY <2>1, <2>3, <3>1, <3>3
  <2>6. CASE DrainRequest(c, l)
    <3> DEFINE a == l[3]
               e == <<l[2], l[3]>>
    <3>1. /\ UNCHANGED <<rep, turn>> /\ l[1] = "req" /\ req[e] # <<>>
          /\ a \in Slots(c) /\ l[2] \in Cores /\ a \in Actors
      <4>1. UNCHANGED <<rep, turn>> /\ l[1] = "req" /\ req[e] # <<>>
        BY <2>6 DEF DrainRequest, LaneEmpty
      <4>2. l[3] \in {b \in Actors : place[b] = c} /\ l[2] \in Cores
        BY <2>1, <4>1 DEF Lanes
      <4> QED BY <4>1, <4>2 DEF Slots
    <3>2. CASE Len(mailbox[a]) < MailboxCap[a]
      <4>1. /\ req' = [req EXCEPT ![e] = Tail(@)] /\ moved'[c] /\ UNCHANGED lanes
        BY <1>0, <2>6, <3>2 DEF DrainRequest
      <4>2. ASSUME NEW k \in Lanes(c), k # l PROVE LaneEmpty(c, k)' <=> LaneEmpty(c, k)
        <5>1. CASE k[1] = "rep"
          BY <3>1, <5>1 DEF LaneEmpty
        <5>2. CASE k[1] # "rep"
          <6>1. <<k[2], k[3]>> # e /\ <<k[2], k[3]>> \in Edges
            BY <2>1, <3>1, <4>2, <5>2 DEF Lanes, Edges
          <6>2. req'[<<k[2], k[3]>>] = req[<<k[2], k[3]>>]
            BY <1>0, <4>1, <6>1
          <6> QED BY <5>2, <6>2 DEF LaneEmpty
        <5> QED BY <5>1, <5>2
      <4>3. Swept(c)' \/ pend'[c]
        BY <1>2, <1>5, <2>2, <4>1, <4>2 DEF Swept
      <4> QED BY <2>1, <2>3, <4>1, <4>3
    <3>3. CASE ~ (Len(mailbox[a]) < MailboxCap[a])
      <4>1. UNCHANGED <<mailbox, req, moved>> /\ lanes'[c] = {}
        BY <1>0, <2>6, <3>3 DEF DrainRequest
      <4>2. Len(mailbox[a]) = MailboxCap[a]
        <5>1. mailbox[a] \in Seq(Message) /\ Len(mailbox[a]) <= MailboxCap[a]
              /\ MailboxCap[a] \in Nat
          BY <1>0, <3>1, Constants DEF Types, QueueType
        <5> QED BY <3>3, <5>1
      <4>3. ASSUME NEW k \in Lanes(c), k[1] = "rep", ~ pend'[c] PROVE LaneEmpty(c, k)'
        <5>1. k \notin lanes[c]
          <6>1. k # l /\ ~ Before(l, k)
            BY <3>1, <4>3 DEF Before
          <6> QED BY <2>1, <6>1 DEF AtLane
        <5>2. LaneEmpty(c, k)
          BY <2>2, <4>3, <5>1
        <5> QED BY <3>1, <4>1, <5>2 DEF LaneEmpty
      <4>4. Swept(c)' \/ pend'[c]
        <5> SUFFICES ASSUME ~ pend'[c] PROVE Swept(c)'
          OBVIOUS
        <5>1. \E b \in Slots(c), s \in Cores :
                  req'[<<s, b>>] # <<>> /\ Len(mailbox'[b]) = MailboxCap[b]
          BY <3>1, <4>1, <4>2
        <5> QED BY <1>2, <4>1, <4>3, <5>1 DEF Swept
      <4>5. c = 0 /\ ~ moved'[c] => ~ turn'[Test].ready
        BY <2>1, <3>1, <4>1 DEF Rested, TestWaits
      <4> QED BY <2>3, <4>1, <4>4, <4>5
    <3> QED BY <3>2, <3>3
  <2> QED BY <1>5, <2>4, <2>5, <2>6
<1> QED BY <1>3, <1>4, <1>5 DEF Drain

(* A non-empty set of numbers up to n has a largest element.                *)
LEMMA HasLargest ==
    ASSUME NEW n \in Nat, NEW S \in SUBSET (0 .. n), S # {}
    PROVE  \E m \in S : \A k \in S : k <= m
<1> DEFINE T == {n - k : k \in S}
           R == OpToRel(<, Nat)
<1>1. T \subseteq Nat /\ T # {}
  <2>1. \A k \in S : k \in Nat /\ k <= n /\ n - k \in Nat
    OBVIOUS
  <2>2. PICK k \in S : TRUE
    OBVIOUS
  <2> QED BY <2>1, <2>2
<1>2. IsWellFoundedOn(R, Nat)
  BY NatLessThanWellFounded
<1>3. \A x, y \in Nat : y < x => <<y, x>> \in R
  BY Zenon DEF OpToRel
<1> HIDE DEF R, T
<1>4. PICK x \in T : \A y \in T : ~ (<<y, x>> \in R)
  BY <1>1, <1>2, WFMin
<1>5. PICK m \in S : x = n - m
  BY DEF T
<1>6. ASSUME NEW k \in S PROVE k <= m
  <2>1. n - k \in T
    BY DEF T
  <2>2. ~ (n - k < n - m)
    BY <1>1, <1>3, <1>4, <1>5, <2>1
  <2> QED BY <2>2
<1> QED BY <1>6

(* Somebody can go on: the suspended turn with the largest number waits for *)
(* an actor of a larger number still, whose core has something to do.       *)
LEMMA SomebodyWorks ==
    ASSUME PostInv, CoreZeroAwaits,
           \A c \in Cores : Core(c) => /\ Rested(c) /\ pc[c] \in Asleep
                                       /\ Multi => ~ pend[c]
    PROVE  FALSE
<1>0. /\ Types /\ Flow /\ Letters /\ place \in [Turns -> Cores] /\ place[Test] = 0
      /\ \A a \in Actors : Len(mailbox[a]) <= MailboxCap[a] /\ mailbox[a] \in Seq(Message)
  BY Constants DEF PostInv, Types, CoreType, QueueType
<1>1. \A t \in Turns : Core(place[t])
  BY <1>0, Constants DEF Core
<1>2. \A t \in Turns : turn[t].busy => turn[t].susp
  <2> SUFFICES ASSUME NEW t \in Turns, turn[t].busy, ~ turn[t].susp PROVE FALSE
    OBVIOUS
  <2>1. run[place[t]] = t
    BY <1>0 DEF Flow
  <2>2. pc[place[t]] \in Asleep /\ place[t] \in Cores
    BY <1>0, <1>1
  <2>3. run[place[t]] = NoTurn
    BY <1>0, <2>2 DEF Types, CoreType, Asleep
  <2> QED BY <2>1, <2>3, Constants
<1>3. \A a \in Actors : ~ Selectable(a)
  <2> SUFFICES ASSUME NEW a \in Actors PROVE ~ Selectable(a)
    OBVIOUS
  <2>1. Core(place[a]) /\ place[a] \in Cores /\ a \in Slots(place[a])
    BY <1>0, <1>1, Constants DEF Slots
  <2> QED BY <2>1 DEF Rested
<1>4. turn[Test].busy /\ ~ turn[Test].ready
  <2>1. Core(0) /\ 0 \in Cores
    BY Constants DEF Core
  <2> QED BY <2>1 DEF Rested, TestWaits, Sleepy
<1>5. \A t \in Turns : turn[t].susp => /\ ~ turn[t].ready /\ awaiting[t] # 0
                                       /\ place[t] = 0
  <2> SUFFICES ASSUME NEW t \in Turns, turn[t].susp
               PROVE  ~ turn[t].ready /\ awaiting[t] # 0 /\ place[t] = 0
    OBVIOUS
  <2>1. turn[t].busy /\ place[t] = 0 /\ awaiting[t] # 0
    BY <1>0, AwaitsOnCoreZero DEF Flow, Letters, Waits
  <2>2. t \in Actors => ~ turn[t].ready
    BY <1>3, <2>1 DEF Selectable
  <2> QED BY <1>4, <2>1, <2>2, Constants
<1>6. \A a \in Actors : mailbox[a] # <<>> => turn[a].susp
  BY <1>2, <1>3, Constants DEF Selectable
<1>7. PICK m \in Turns : turn[m].susp /\ \A t \in Turns : turn[t].susp => t <= m
  <2> DEFINE S == {t \in Turns : turn[t].susp}
  <2>1. S \in SUBSET (0 .. NActors) /\ NActors \in Nat
    BY Constants
  <2>2. Test \in S
    BY <1>2, <1>4, Constants
  <2> HIDE DEF S
  <2>3. PICK m \in S : \A k \in S : k <= m
    BY <2>1, <2>2, HasLargest
  <2> QED BY <2>3 DEF S
<1>8. PICK b \in Boxes : \E x \in Held(box, b) : x.id = awaiting[m]
  BY <1>0, <1>5, <1>7 DEF Letters, Waits
<1>9. PICK x \in Held(box, b) : x.id = awaiting[m]
  BY <1>8
<1>10. /\ x.from = m /\ Routed(b, x) /\ place[m] = 0 /\ box[b] # <<>>
  <2>1. KnownMessage(x) /\ Routed(b, x)
    BY <1>0, <1>9, LettersKnown
  <2>2. box[b] # <<>>
    BY <1>9 DEF Held
  <2> QED BY <1>5, <1>7, <1>9, <2>1, <2>2 DEF KnownMessage
<1>11. ASSUME NEW a \in Actors, a \in Calls[m], turn[a].susp PROVE FALSE
  <2>1. a > m
    <3>1. \A t \in Actors : \A u \in Calls[t] : u > t
      BY RuntimeAssumption
    <3>2. CASE m \in Actors
      BY <1>11, <3>1, <3>2, Zenon
    <3>3. CASE m = Test
      BY <3>3 DEF Test, Actors
    <3> QED BY <3>2, <3>3, Constants
  <2>2. a <= m /\ a \in Nat /\ m \in Nat
    BY <1>7, <1>11, Constants
  <2> QED BY <2>1, <2>2
<1>12. CASE b \in {"mailbox", "turn"} \X Actors
  <2>1. PICK kind \in {"mailbox", "turn"}, a \in Actors : b = <<kind, a>>
    BY <1>12
  <2>2. a \in Calls[m]
    BY <1>10, <2>1 DEF Routed
  <2>3. turn[a].susp
    <3>1. CASE kind = "mailbox"
      <4>1. box[<<"mailbox", a>>] = mailbox[a]
        BY BoxAt
      <4> QED BY <1>6, <1>10, <2>1, <3>1, <4>1
    <3>2. CASE kind = "turn"
      <4>1. turn[a].busy
        BY <1>10, <2>1, <3>2, BoxAt
      <4> QED BY <1>2, <4>1, Constants
    <3> QED BY <3>1, <3>2
  <2> QED BY <1>11, <2>2, <2>3
<1>13. CASE b \in {"req"} \X Edges
  <2>1. PICK s \in Cores, a \in Actors : b = <<"req", <<s, a>>>>
    BY <1>13 DEF Edges
  <2>2. s = 0 /\ place[a] # 0 /\ req[<<0, a>>] # <<>>
    <3>1. <<s, a>> \in Edges /\ box[b] = req[<<s, a>>]
      BY <2>1, BoxAt DEF Edges
    <3>2. s = place[m] /\ place[a] # s
      BY <1>10, <2>1 DEF Routed
    <3> QED BY <1>10, <3>1, <3>2
  <2> DEFINE c == place[a]
             l == <<"req", 0, a>>
  <2>3. /\ c \in Cores \ {0} /\ Core(c) /\ Multi /\ a \in Slots(c)
    BY <1>0, <1>1, <2>2, Constants DEF Multi, Slots
  <2>4. Rested(c) /\ pc[c] \in Asleep /\ ~ pend[c]
    BY <2>3
  <2>5. Swept(c) /\ lanes[c] = {}
    BY <2>4 DEF Rested, Sleepy, Asleep
  <2>6. l \in Lanes(c) /\ ~ LaneEmpty(c, l)
    <3>1. 0 \in {s1 \in Cores \ {c} : Core(s1)}
      BY <2>3, Constants DEF Core
    <3>2. l \in Lanes(c)
      BY <2>3, <3>1 DEF Lanes
    <3> QED BY <2>2, <3>2 DEF LaneEmpty
  <2>7. PICK d \in Slots(c) : Len(mailbox[d]) = MailboxCap[d]
    BY <2>5, <2>6 DEF Swept
  <2>8. mailbox[d] # <<>> /\ d \in Actors /\ place[d] = c
    <3>1. d \in Actors /\ place[d] = c
      BY DEF Slots
    <3> QED BY <2>7, <3>1, Constants
  <2> QED BY <1>5, <1>6, <2>3, <2>8, Constants
<1>14. CASE b \in {"rep"} \X (Cores \X Cores)
  <2>1. PICK s \in Cores, d \in Cores : b = <<"rep", <<s, d>>>>
    BY <1>14
  <2>2. d = 0 /\ s # 0 /\ Core(s) /\ rep[<<s, 0>>] # <<>>
    <3>1. box[b] = rep[<<s, d>>]
      BY <2>1, BoxAt
    <3>2. place[m] = d /\ s # d /\ Core(s)
      BY <1>10, <2>1 DEF Routed
    <3> QED BY <1>10, <3>1, <3>2
  <2> DEFINE l == <<"rep", s, 0>>
  <2>3. Multi /\ Core(0) /\ 0 \in Cores
    BY <2>2, Constants DEF Core, Multi
  <2>4. Rested(0) /\ pc[0] \in Asleep /\ ~ pend[0]
    BY <2>3
  <2>5. Swept(0) /\ lanes[0] = {}
    BY <2>4 DEF Rested, Sleepy, Asleep
  <2>6. l \in Lanes(0) /\ l[1] = "rep" /\ ~ LaneEmpty(0, l)
    <3>1. s \in {s1 \in Cores \ {0} : Core(s1)}
      BY <2>2
    <3>2. l \in Lanes(0)
      BY <3>1 DEF Lanes
    <3> QED BY <2>2, <3>2 DEF LaneEmpty
  <2> QED BY <2>5, <2>6 DEF Swept
<1> QED BY <1>12, <1>13, <1>14 DEF Boxes

\* No core sleeps without having looked around, and core 0 sees no deadlock.
SleepInv == PostInv /\ (\A d \in Cores : Rested(d)) /\ pc[0] # "aborted"

(* No core is on its way to sleep when the boot starts.                    *)
LEMMA SleepInit == Init => SleepInv
<1> SUFFICES ASSUME Init PROVE SleepInv
  OBVIOUS
<1>1. PostInv
  BY PostInit
<1>2. ASSUME NEW d \in Cores PROVE Rested(d)
  <2>1. pc[d] \in {"run", "top"} /\ lanes[d] = {}
    BY <1>2 DEF Init
  <2> QED BY <2>1 DEF Rested, TestWaits, Sleepy, Asleep
<1>3. pc[0] # "aborted"
  BY Constants DEF Init
<1> QED BY <1>1, <1>2, <1>3 DEF SleepInv

(* Every step keeps that.                                                  *)
LEMMA SleepNext == CoreZeroAwaits /\ SleepInv /\ [Next]_vars => SleepInv'
<1> SUFFICES ASSUME CoreZeroAwaits, SleepInv, [Next]_vars PROVE SleepInv'
  OBVIOUS
<1> USE DEF msgVars, coreVars, histVars
<1>1. PostInv /\ PostInv' /\ Types
  BY PostNext DEF SleepInv, PostInv
<1>2. CASE UNCHANGED vars
  <2>1. \A d \in Cores : Aside(d)
    BY <1>2 DEF vars, Aside
  <2>2. pc'[0] # "aborted"
    BY <1>2 DEF vars, SleepInv
  <2> QED BY <1>1, <2>1, <2>2, AsideKeeps DEF SleepInv
<1>3. ASSUME NEW c \in Cores, CoreStep(c) PROVE SleepInv'
  <2>1. ASSUME NEW d \in Cores PROVE Rested(d)'
    <3>1. CASE d = c
      BY <1>1, <1>3, <3>1, OwnLoopKeeps, OwnDrainKeeps DEF CoreStep, Executor, SleepInv
    <3>2. CASE d # c
      <4>1. Rested(c) /\ Rested(d) /\ d \in Cores \ {c}
        BY <3>2 DEF SleepInv
      <4>2. Aside(d)
        BY <1>1, <1>3, <4>1, BodyAside, LoopAside DEF CoreStep
      <4> QED BY <1>1, <4>1, <4>2, AsideKeeps
    <3> QED BY <3>1, <3>2
  <2>2. pc'[0] # "aborted"
    <3>1. CASE c = 0 /\ GoIdle(0)
      <4>1. pc[0] = "idle" /\ Rested(0) /\ pc \in [Cores -> Labels] /\ 0 \in Cores
            /\ Goto(0, IF Multi THEN "park" ELSE "aborted")
        BY <1>1, <3>1, Constants DEF GoIdle, SleepInv, Types, CoreType
      <4>2. Multi
        <5> SUFFICES ASSUME ~ Multi PROVE FALSE
          OBVIOUS
        <5>1. \A d \in Cores : Core(d) => d = 0
          BY DEF Core, Multi
        <5> QED BY <1>1, <4>1, <5>1, SomebodyWorks DEF Asleep
      <4> QED BY <4>1, <4>2 DEF Goto
    <3>2. CASE c = 0 /\ ~ GoIdle(0)
      <4>1. \E label \in Labels \ {"aborted"} : pc' \in {pc, [pc EXCEPT ![0] = label]}
        <5>1. CASE Body(0) \/ BackEdge \/ TestPasses \/ ScanIdle \/ ScanPending
          <6>1. \/ pc' = pc
                \/ pc' = [pc EXCEPT ![0] = Returned(0, TRUE)]
                \/ \E label \in {"top", "halted", "scan", "scanPending"} :
                       pc' = [pc EXCEPT ![0] = label]
            BY <5>1
               DEF Body, NotAdmitted, Send, Call, Complete, BackEdge, TestPasses, ScanIdle,
                   ScanPending, Goto
          <6>2. Returned(0, TRUE) \in Labels \ {"aborted"}
            BY ReturnedLabel DEF Labels
          <6>3. {"top", "halted", "scan", "scanPending"} \subseteq Labels \ {"aborted"}
            BY DEF Labels
          <6> QED BY <6>1, <6>2, <6>3
        <5>2. CASE Executor(0) /\ ~ GoIdle(0)
          BY <5>2, ReturnedLabel
             DEF Executor, Drain, LoopTop, Checkpoint, NothingRan, Select, Park, Wake,
                 DrainStart, DrainEnd, NextLane, DrainReply, DrainRequest, Goto, Labels
        <5> QED BY <1>3, <3>2, <5>1, <5>2 DEF CoreStep
      <4> QED BY <1>1, <4>1, Constants DEF Types, CoreType, SleepInv
    <3>3. CASE c # 0
      <4>1. 0 \in Cores \ {c} /\ Rested(c)
        BY <3>3, Constants DEF SleepInv
      <4>2. Aside(0)
        BY <1>1, <1>3, <3>3, <4>1, BodyAside, LoopAside DEF CoreStep
      <4> QED BY <4>2 DEF Aside, SleepInv
    <3> QED BY <3>1, <3>2, <3>3
  <2> QED BY <1>1, <2>1, <2>2 DEF SleepInv
<1> QED BY <1>2, <1>3 DEF Next, Stopped

(* The invariant of the sleeping cores.                                    *)
LEMMA SleepInvariant ==
    ASSUME CoreZeroAwaits PROVE SafetySpec => []SleepInv
BY SleepInit, SleepNext, PTL DEF SafetySpec

(* NeverStuck: the cores are never all asleep with no word raised, and a    *)
(* single core never reports a deadlock.                                   *)
LEMMA SomebodyWakes ==
    ASSUME CoreZeroAwaits PROVE SafetySpec => []NeverStuck
<1>1. SleepInv => NeverStuck
  <2> SUFFICES ASSUME SleepInv, \A c \in Cores : Core(c) => pc[c] = "parked" /\ ~ pend[c]
               PROVE  FALSE
    BY DEF NeverStuck, SleepInv
  <2> QED BY SomebodyWorks DEF SleepInv, Asleep
<1> QED BY <1>1, SleepInvariant, PTL

\* Two turns on other cores that send to core 0 send to the same actor there.
\* (RuntimeHeadOfLine shows an edge held up by another actor's full mailbox.)
OneTarget ==
    \A p \in Placements : \A a, b \in Actors, s, t \in Turns :
        /\ p[a] = 0 /\ p[b] = 0 /\ p[s] # 0 /\ p[t] # 0
        /\ a \in Calls[s] /\ b \in Calls[t]
        => a = b

(* A ring that is not empty is a lane of the core it leads to: a reply ring ... *)
LEMMA ReplyLane ==
    ASSUME PostInv, NEW c \in Cores, NEW s \in Cores, rep[<<s, c>>] # <<>>
    PROVE  <<"rep", s, 0>> \in Lanes(c)
<1> DEFINE e == <<s, c>>
           b == <<"rep", e>>
<1>0. Types /\ Letters
  BY DEF PostInv
<1>1. b \in Boxes /\ box[b] = rep[e] /\ b[1] = "rep" /\ b[2] = e /\ box \in Contents
  BY <1>0, BoxAt, BoxTypes
<1>2. e[1] = s /\ e[2] = c /\ rep[e] # <<>>
  OBVIOUS
<1> HIDE DEF e, b
<1>3. Head(box[b]) \in Held(box, b)
  BY <1>0, <1>1, <1>2, HeldTypes
<1>4. s # c /\ Core(s)
  BY <1>0, <1>1, <1>2, <1>3, LettersKnown DEF Routed
<1> QED BY <1>4 DEF Lanes

\* The turns of core s that hold a handle of actor a.
Senders(s, a) == {t \in Turns : place[t] = s /\ a \in Calls[t]}

(* ... and a request ring, which a turn of its source core has filled.     *)
LEMMA RequestLane ==
    ASSUME PostInv, NEW c \in Cores, NEW s \in Cores, NEW a \in Slots(c),
           req[<<s, a>>] # <<>>
    PROVE  /\ <<"req", s, a>> \in Lanes(c) /\ s # c
           /\ Head(req[<<s, a>>]).from \in Senders(s, a)
<1> DEFINE e == <<s, a>>
           b == <<"req", e>>
<1>0. /\ Types /\ Letters /\ place \in [Turns -> Cores] /\ place[Test] = 0
      /\ a \in Actors /\ place[a] = c
  BY Constants DEF PostInv, Types, CoreType, Slots
<1>1. b \in Boxes /\ box[b] = req[e] /\ b[1] = "req" /\ b[2] = e /\ box \in Contents
  BY <1>0, BoxAt, BoxTypes DEF Edges
<1>2. e[1] = s /\ e[2] = a /\ req[e] # <<>>
  OBVIOUS
<1> HIDE DEF e, b
<1> DEFINE x == Head(req[e])
<1>3. x \in Held(box, b) /\ x \in Message
  BY <1>0, <1>1, <1>2, HeldTypes
<1> HIDE DEF x
<1>4. /\ a \in Calls[x.from] /\ place[x.from] = s /\ place[a] # s
      /\ x.from \in Turns
  BY <1>0, <1>1, <1>2, <1>3, LettersKnown DEF Routed, Message
<1>5. Core(s)
  BY <1>0, <1>4, Constants DEF Core
<1> QED BY <1>0, <1>4, <1>5 DEF Lanes, Senders, x, e

(* SleepersHaveNoWork: a parked core whose word is not raised has nothing   *)
(* to do but for requests to an actor whose mailbox is full.               *)
LEMMA SleepersAreIdle ==
    ASSUME CoreZeroAwaits, OneTarget PROVE SafetySpec => []SleepersHaveNoWork
<1>1. SleepInv => SleepersHaveNoWork
  <2> SUFFICES ASSUME SleepInv, NEW c \in Cores, pc[c] = "parked", ~ pend[c]
               PROVE  /\ \A a \in Slots(c) : ~ Selectable(a)
                      /\ \A s \in Cores : rep[<<s, c>>] = <<>>
                      /\ c = 0 => ~ turn[Test].ready
                      /\ \A s \in Cores : \A a \in Slots(c) :
                             req[<<s, a>>] # <<>> => Len(mailbox[a]) = MailboxCap[a]
    BY DEF SleepersHaveNoWork, Slots
  <2>0. /\ PostInv /\ Types /\ Flow /\ place \in [Turns -> Cores] /\ place \in Placements
        /\ \A a \in Actors : mailbox[a] \in Seq(Message)
    BY Constants DEF SleepInv, PostInv, Types, CoreType, QueueType
  <2>1. Rested(c) /\ Swept(c) /\ lanes[c] = {} /\ (\A a \in Slots(c) : ~ Selectable(a))
    BY DEF SleepInv, Rested, Sleepy, Asleep
  <2>2. c = 0 => ~ turn[Test].ready
    BY <2>1 DEF Rested, TestWaits, Sleepy, Asleep
  <2>3. ASSUME NEW s \in Cores PROVE rep[<<s, c>>] = <<>>
    <3> DEFINE l == <<"rep", s, 0>>
    <3>1. l \in Lanes(c) => LaneEmpty(c, l)
      BY <2>1 DEF Swept
    <3>2. LaneEmpty(c, l) => rep[<<s, c>>] = <<>>
      BY DEF LaneEmpty
    <3> QED BY <2>0, <3>1, <3>2, ReplyLane
  <2>4. ASSUME NEW s \in Cores, NEW a \in Slots(c), req[<<s, a>>] # <<>>
        PROVE  Len(mailbox[a]) = MailboxCap[a]
    <3> DEFINE l == <<"req", s, a>>
    <3>1. l \in Lanes(c) /\ ~ LaneEmpty(c, l)
      BY <2>0, <2>4, RequestLane DEF LaneEmpty
    <3>2. PICK b \in Slots(c), r \in Cores :
              req[<<r, b>>] # <<>> /\ Len(mailbox[b]) = MailboxCap[b]
      BY <2>1, <3>1 DEF Swept
    <3>3. c = 0
      <4>1. b \in Actors /\ place[b] = c /\ mailbox[b] # <<>>
        <5>1. b \in Actors /\ place[b] = c
          BY DEF Slots
        <5> QED BY <2>0, <3>2, <5>1, Constants
      <4>2. turn[b].busy
        BY <2>1, <4>1 DEF Selectable
      <4>3. run[c] = NoTurn
        BY <2>0 DEF Types, CoreType
      <4>4. turn[b].susp
        BY <2>0, <4>1, <4>2, <4>3, Constants DEF Flow
      <4> QED BY <2>0, <4>1, <4>4, Constants, AwaitsOnCoreZero DEF Flow
    <3> DEFINE t == Head(req[<<s, a>>]).from
               u == Head(req[<<r, b>>]).from
    <3>4. t \in Senders(s, a)
      BY <2>0, <2>4, RequestLane
    <3>5. u \in Senders(r, b)
      BY <2>0, <3>2, RequestLane
    <3> HIDE DEF t, u
    <3>6. s # 0 /\ r # 0
      BY <2>0, <2>4, <3>2, <3>3, RequestLane
    <3>7. a = b
      <4>1. a \in Actors /\ b \in Actors /\ place[a] = 0 /\ place[b] = 0
        BY <3>3 DEF Slots
      <4> QED BY <2>0, <3>4, <3>5, <3>6, <4>1 DEF OneTarget, Senders
    <3> QED BY <3>2, <3>7
  <2> QED BY <2>1, <2>2, <2>3, <2>4
<1> QED BY <1>1, SleepInvariant, PTL

(* CoreZeroWakeKept: where only core 0's turns await, core 0 does not sleep *)
(* past a reply that has arrived.                                          *)
LEMMA WakeKept ==
    ASSUME CoreZeroAwaits PROVE SafetySpec => []CoreZeroWakeKept
<1>1. SleepInv => CoreZeroWakeKept
  <2> SUFFICES ASSUME SleepInv, pc[0] = "parked", ~ pend[0], NEW s \in Cores,
                      rep[<<s, 0>>] # <<>>
               PROVE  FALSE
    BY DEF CoreZeroWakeKept
  <2>1. PostInv /\ 0 \in Cores /\ Swept(0) /\ lanes[0] = {}
    BY Constants DEF SleepInv, Rested, Sleepy, Asleep
  <2> DEFINE l == <<"rep", s, 0>>
  <2>2. l \in Lanes(0) /\ l[1] = "rep"
    BY <2>1, ReplyLane
  <2>3. ~ LaneEmpty(0, l)
    BY DEF LaneEmpty
  <2> QED BY <2>1, <2>2, <2>3 DEF Swept
<1> QED BY <1>1, SleepInvariant, PTL
=============================================================================
