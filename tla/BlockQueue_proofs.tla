-------------------------- MODULE BlockQueue_proofs --------------------------
(***************************************************************************)
(* Proofs about BlockQueue, for every number of callers, depth and bound:  *)
(* its types, and, while one request is out at a time, the safety          *)
(* properties of the run block_requests.  The first part types the         *)
(* variables group by group; QueueInv then says what the slot record, the  *)
(* chain and the rings hold for the one turn whose request is out.         *)
(***************************************************************************)
EXTENDS BlockQueue, FiniteSetTheorems, TLAPS

Slots == [flags : SUBSET Flags, payload : Owners \cup {None}, epoch : Nat,
          waiter : Callers \cup {None}, req : 0 .. MaxRequests]
Books == [last : Nat, epoch : Nat, quiesced : Nat, stamp : Nat]
Descs == [payload : Owners \cup {None}, reads : BOOLEAN, good : BOOLEAN,
          req : 0 .. MaxRequests]
Irqs == [status : BOOLEAN, cell : BOOLEAN, wake : BOOLEAN]

\* The conjuncts of TypeOK, grouped by who writes the words.
GuestType ==
    /\ shape \in Shapes
    /\ guest \in {"boot", "run", "wakes", "drain", "polled", "drained", "dead"}
    /\ fault \in {None, "stale", "duplicate", "length", "claim", "recover",
                  "early", "deadlock"}

TurnType ==
    /\ turn \in [Owners -> {"idle", "held", "waiting", "ready", "quarantined"}]
    /\ req \in [Owners -> 0 .. MaxRequests]
    /\ where \in [Owners -> Owners \cup {None}]
    /\ answer \in [Owners -> Completions]
    /\ stash \in Completions

QueueType ==
    /\ slot \in Slots /\ book \in Books /\ desc \in Descs
    /\ avail \in 0 .. IdxMod - 1
    /\ issued \in 0 .. MaxRequests /\ resets \in 0 .. MaxResets
    /\ slot.epoch <= book.epoch /\ book.stamp <= book.quiesced

DeviceType ==
    /\ used \in 0 .. IdxMod - 1 /\ seen \in 0 .. IdxMod - 1
    /\ ring \in [0 .. Depth - 1 -> {"data", "bare"}]
    /\ doorbell \in BOOLEAN /\ status \in {"unset", "ok", "error"}
    /\ executed \in SUBSET ((0 .. MaxRequests) \X {"ok", "error"})

IrqType ==
    /\ word \in SUBSET {"deadline", "vq"} /\ irq \in Irqs /\ armed \in BOOLEAN

(* TypeOK is the conjunction of the typed groups ...                         *)
LEMMA TypeParts ==
    TypeOK <=> GuestType /\ TurnType /\ QueueType /\ DeviceType /\ IrqType
  BY DEF TypeOK, GuestType, TurnType, QueueType, DeviceType, IrqType, Slots,
         Books, Descs, Irqs

(* ... also after a step.                                                    *)
LEMMA TypePartsNext ==
    GuestType' /\ TurnType' /\ QueueType' /\ DeviceType' /\ IrqType' => TypeOK'
  BY DEF TypeOK, GuestType, TurnType, QueueType, DeviceType, IrqType, Slots,
         Books, Descs, Irqs

(* Core 0 is at a place the code names, and aborts for a reason it names.    *)
LEMMA GuestTypeStep ==
    ASSUME GuestType, [Next]_vars PROVE GuestType'
  <1> USE DEF GuestType
  <1>1. CASE Exit
    BY <1>1 DEF Exit, guestVars
  <1>2. CASE Idle
    BY <1>2 DEF Idle, Abort
  <1>3. CASE Checkpoint \/ CheckpointEnd \/ BottomHalf
    BY <1>3 DEF Checkpoint, CheckpointEnd, BottomHalf
  <1>4. CASE DrainPark \/ DrainEmpty
    BY <1>4 DEF DrainPark, DrainEmpty, Drained
  <1>5. CASE DrainEntry \/ DrainAgain
    BY <1>5 DEF DrainEntry, DrainAgain, Consume, CompletionFault, TakeEntry, Abort, Drained
  <1>6. CASE Claim \/ Recover
    BY <1>6 DEF Claim, Recover, Abort
  <1>7. CASE Reset \/ Reclaim
    BY <1>7 DEF Reset, Reclaim, Abort, guestVars
  <1>8. ASSUME NEW o \in Owners, Submit(o) PROVE GuestType'
    BY <1>8 DEF Submit
  <1>9. ASSUME NEW c \in Callers, Await(c) \/ Resume(c) PROVE GuestType'
    BY <1>9 DEF Await, Resume
  <1>10. CASE UNCHANGED vars
    BY <1>10 DEF vars, guestVars
  <1> QED
    BY <1>1, <1>2, <1>3, <1>4, <1>5, <1>6, <1>7, <1>8, <1>9, <1>10
       DEF Next, Interrupts, Drain

(* An index taken modulo its width stays within it.                          *)
LEMMA Modulus ==
    ASSUME NEW a \in Nat PROVE a % IdxMod \in 0 .. IdxMod - 1
  BY BlockAssumption, SMT DEF BlockAssumption

(* What execute_available leaves is typed, whatever chain it reads.          *)
LEMMA ExecutedType ==
    ASSUME DeviceType, QueueType, ExecuteAvailable
    PROVE  /\ seen' \in 0 .. IdxMod - 1 /\ used' \in 0 .. IdxMod - 1
           /\ ring' \in [0 .. Depth - 1 -> {"data", "bare"}]
           /\ status' \in {"unset", "ok", "error"}
           /\ executed' \in SUBSET ((0 .. MaxRequests) \X {"ok", "error"})
  <1>1. Pending \in Nat
    BY Modulus, BlockAssumption DEF QueueType, DeviceType, Pending, BlockAssumption
  <1>2. used' \in 0 .. IdxMod - 1
    <2>1. used + Pending \in Nat
      BY <1>1, BlockAssumption DEF DeviceType, BlockAssumption
    <2> QED BY <2>1, Modulus DEF ExecuteAvailable
  <1>3. ring' \in [0 .. Depth - 1 -> {"data", "bare"}]
    BY DEF DeviceType, ExecuteAvailable, Committed, Entry
  <1>4. Outcome \in {"ok", "error"} /\ desc.req \in 0 .. MaxRequests
    BY DEF QueueType, Descs, Outcome
  <1>5. executed' \in SUBSET ((0 .. MaxRequests) \X {"ok", "error"})
    BY <1>4 DEF DeviceType, ExecuteAvailable
  <1>6. status' \in {"unset", "ok", "error"}
    BY <1>4 DEF DeviceType, ExecuteAvailable
  <1>7. seen' \in 0 .. IdxMod - 1
    BY DEF QueueType, ExecuteAvailable
  <1> QED BY <1>2, <1>3, <1>5, <1>6, <1>7

(* The device writes its indices, ring and status within their types.        *)
LEMMA DeviceTypeStep ==
    ASSUME DeviceType, QueueType, [Next]_vars PROVE DeviceType'
  <1> USE DEF DeviceType
  <1>1. CASE Exit
    BY <1>1, ExecutedType DEF Exit, Service
  <1>2. CASE Idle
    BY <1>2, ExecutedType DEF Idle, ParkExit
  <1>3. CASE Checkpoint \/ CheckpointEnd \/ BottomHalf
    BY <1>3 DEF Checkpoint, CheckpointEnd, BottomHalf, deviceVars
  <1>4. CASE DrainPark
    BY <1>4, ExecutedType DEF DrainPark, PollPark, ParkExit
  <1>5. CASE DrainEntry \/ DrainAgain \/ DrainEmpty
    BY <1>5 DEF DrainEntry, DrainAgain, DrainEmpty, Consume, deviceVars
  <1>6. CASE Claim \/ Recover \/ Reclaim
    BY <1>6 DEF Claim, Recover, Reclaim, deviceVars
  <1>7. CASE Reset
    BY <1>7, ExecutedType DEF Reset, Quiesce
  <1>8. ASSUME NEW o \in Owners, Submit(o) PROVE DeviceType'
    BY <1>8 DEF Submit, Prepare, Publish
  <1>9. ASSUME NEW c \in Callers, Await(c) \/ Resume(c) PROVE DeviceType'
    BY <1>9 DEF Await, Resume, deviceVars
  <1>10. CASE UNCHANGED vars
    BY <1>10 DEF vars, deviceVars
  <1> QED
    BY <1>1, <1>2, <1>3, <1>4, <1>5, <1>6, <1>7, <1>8, <1>9, <1>10
       DEF Next, Interrupts, Drain

(* Interrupt status, cell, wake word and pending word stay bits.             *)
LEMMA IrqTypeStep ==
    ASSUME IrqType, [Next]_vars PROVE IrqType'
  <1> USE DEF IrqType, Irqs, irqVars
  <1>1. CASE Exit
    BY <1>1 DEF Exit, Service, RaiseVector
  <1>2. CASE Idle
    BY <1>2 DEF Idle, DeadlinePoll, ParkExit, RaiseVector
  <1>3. CASE Checkpoint \/ CheckpointEnd \/ BottomHalf
    <2>1. CASE Checkpoint
      BY <2>1 DEF Checkpoint
    <2>2. CASE CheckpointEnd
      BY <2>2 DEF CheckpointEnd
    <2>3. CASE BottomHalf
      BY <2>3 DEF BottomHalf
    <2> QED BY <1>3, <2>1, <2>2, <2>3
  <1>4. CASE DrainPark
    BY <1>4 DEF DrainPark, PollPark, ParkExit, RaiseVector
  <1>5. CASE DrainEntry \/ DrainAgain \/ DrainEmpty
    BY <1>5 DEF DrainEntry, DrainAgain, DrainEmpty, Consume
  <1>6. CASE Claim \/ Recover \/ Reclaim
    BY <1>6 DEF Claim, Recover, Reclaim
  <1>7. CASE Reset
    BY <1>7 DEF Reset, Quiesce, RaiseVector
  <1>8. ASSUME NEW o \in Owners, Submit(o) PROVE IrqType'
    BY <1>8 DEF Submit
  <1>9. ASSUME NEW c \in Callers, Await(c) \/ Resume(c) PROVE IrqType'
    BY <1>9 DEF Await, Resume
  <1>10. CASE UNCHANGED vars
    BY <1>10 DEF vars
  <1> QED
    BY <1>1, <1>2, <1>3, <1>4, <1>5, <1>6, <1>7, <1>8, <1>9, <1>10
       DEF Next, Interrupts, Drain

(* Turns, buffers and answers keep their types.                              *)
LEMMA TurnTypeStep ==
    ASSUME TurnType, QueueType, [Next]_vars PROVE TurnType'
  <1> USE DEF TurnType
  <1>1. CASE Exit \/ Idle
    BY <1>1 DEF Exit, Idle, guestVars, queueVars
  <1>2. CASE Checkpoint \/ CheckpointEnd \/ BottomHalf
    BY <1>2 DEF Checkpoint, CheckpointEnd, BottomHalf, queueVars
  <1>3. CASE DrainPark \/ DrainEmpty
    BY <1>3 DEF DrainPark, DrainEmpty, queueVars
  <1>4. CASE DrainEntry \/ DrainAgain
    <2>1. Stashed \in Completions /\ slot.waiter \in Owners \cup {None}
      BY DEF Stashed, Completions, Statuses, QueueType, Slots, Owners
    <2> QED
      BY <1>4, <2>1 DEF DrainEntry, DrainAgain, Consume, TakeEntry, WakeWaiter
  <1>5. CASE Claim
    BY <1>5 DEF Claim, Answered, Owners
  <1>6. CASE Recover
    <2>1. Recovered \in Completions
      BY DEF Recovered, Completions, Statuses, QueueType, Slots
    <2> QED BY <1>6, <2>1 DEF Recover
  <1>7. CASE Reset \/ Reclaim
    BY <1>7 DEF Reset, Reclaim, guestVars, queueVars, Owners
  <1>8. ASSUME NEW o \in Owners, Submit(o) PROVE TurnType'
    BY <1>8, BlockAssumption DEF Submit, MayPublish, QueueType, BlockAssumption
  <1>9. ASSUME NEW c \in Callers, Await(c) \/ Resume(c) PROVE TurnType'
    BY <1>9 DEF Await, Resume, Answered, Owners, queueVars
  <1>10. CASE UNCHANGED vars
    BY <1>10 DEF vars, guestVars, queueVars
  <1> QED
    BY <1>1, <1>2, <1>3, <1>4, <1>5, <1>6, <1>7, <1>8, <1>9, <1>10
       DEF Next, Interrupts, Drain

(* The slot's epoch never passes the queue's, nor a stamp the quiesces.      *)
LEMMA QueueTypeStep ==
    ASSUME QueueType, [Next]_vars PROVE QueueType'
  <1> USE DEF QueueType
  <1>1. CASE Exit \/ Idle
    BY <1>1 DEF Exit, Idle, queueVars
  <1>2. CASE Checkpoint \/ CheckpointEnd \/ BottomHalf
    BY <1>2 DEF Checkpoint, CheckpointEnd, BottomHalf, queueVars
  <1>3. CASE DrainPark \/ DrainEmpty
    BY <1>3 DEF DrainPark, DrainEmpty, queueVars
  <1>4. CASE DrainEntry \/ DrainAgain
    <2> SUFFICES ASSUME CompletionFault = None PROVE QueueType'
      BY <1>4 DEF DrainEntry, DrainAgain, Consume
    <2>1. slot' \in Slots /\ slot'.epoch = slot.epoch
      BY <1>4, ZenonT(30) DEF DrainEntry, DrainAgain, Consume, TakeEntry, Slots, Flags
    <2>2. /\ book' \in Books /\ book'.epoch = book.epoch
          /\ book'.stamp = book.stamp /\ book'.quiesced = book.quiesced
      BY <1>4 DEF DrainEntry, DrainAgain, Consume, TakeEntry, Books
    <2> QED BY <1>4, <2>1, <2>2 DEF DrainEntry, DrainAgain, Consume
  <1>5. CASE Claim
    BY <1>5 DEF Claim, Slots, Books, Flags
  <1>6. CASE Recover
    BY <1>6 DEF Recover, Stamp, Slots, Books, Flags
  <1>7. CASE Reset \/ Reclaim
    <2>1. CASE Reset
      <3>1. /\ book' \in Books /\ book'.epoch = book.epoch + 1
            /\ book'.stamp = book.stamp /\ book'.quiesced = book.quiesced + 1
        <4>1. book' = [book EXCEPT !.quiesced = @ + 1, !.epoch = @ + 1]
          BY <2>1 DEF Reset, Quiesce
        <4>2. book' = [last |-> book.last, epoch |-> book.epoch + 1,
                       quiesced |-> book.quiesced + 1, stamp |-> book.stamp]
          BY <4>1 DEF Books
        <4> QED BY <4>2 DEF Books
      <3>2. slot.epoch \in Nat /\ book.epoch \in Nat /\ book.stamp \in Nat /\ book.quiesced \in Nat
        BY DEF Slots, Books
      <3>3. resets' \in 0 .. MaxResets
        BY <2>1, BlockAssumption DEF Reset, BlockAssumption
      <3> QED BY <2>1, <3>1, <3>2, <3>3 DEF Reset
    <2>2. CASE Reclaim
      BY <2>2, ZenonT(30) DEF Reclaim, Slots, Flags
    <2> QED BY <1>7, <2>1, <2>2
  <1>8. ASSUME NEW o \in Owners, Submit(o) PROVE QueueType'
    <2>1. issued' = issued + 1 /\ issued + 1 \in 0 .. MaxRequests /\ issued' \in 0 .. MaxRequests
      BY <1>8, BlockAssumption DEF Submit, MayPublish, BlockAssumption
    <2>2. book.epoch \in Nat
      BY DEF Books
    <2>3. slot' \in Slots /\ slot'.epoch = book.epoch /\ desc' \in Descs
      BY <1>8, <2>1, <2>2 DEF Submit, Prepare, Publish, Slots, Flags, Descs
    <2>4. avail' \in 0 .. IdxMod - 1
      BY <1>8, Modulus, BlockAssumption DEF Submit, Publish, BlockAssumption
    <2> QED BY <1>8, <2>1, <2>2, <2>3, <2>4 DEF Submit
  <1>9. ASSUME NEW c \in Callers, Await(c) \/ Resume(c) PROVE QueueType'
    BY <1>9 DEF Await, Resume, Slots, queueVars
  <1>10. CASE UNCHANGED vars
    BY <1>10 DEF vars, queueVars
  <1> QED
    BY <1>1, <1>2, <1>3, <1>4, <1>5, <1>6, <1>7, <1>8, <1>9, <1>10
       DEF Next, Interrupts, Drain

(* Every word is typed at boot ...                                           *)
LEMMA TypeInit == Init => TypeOK
  <1> SUFFICES ASSUME Init PROVE GuestType /\ TurnType /\ QueueType /\ DeviceType /\ IrqType
    BY TypeParts
  <1>1. GuestType
    BY DEF Init, GuestType
  <1>2. TurnType
    BY BlockAssumption DEF Init, NoAnswer, TurnType, Completions, Statuses, BlockAssumption
  <1>3. QueueType
    BY BlockAssumption DEF Init, QueueType, Slots, Books, Descs, BlockAssumption
  <1>4. DeviceType
    <2>1. used \in 0 .. IdxMod - 1 /\ seen \in 0 .. IdxMod - 1
      BY BlockAssumption DEF Init, BlockAssumption
    <2>2. ring \in [0 .. Depth - 1 -> {"data", "bare"}]
      BY DEF Init
    <2> QED BY <2>1, <2>2 DEF Init, DeviceType
  <1>5. IrqType
    BY DEF Init, Injected, IrqType, Irqs
  <1> QED BY <1>1, <1>2, <1>3, <1>4, <1>5

(* ... and after every step.                                                 *)
LEMMA TypeStep == TypeOK /\ [Next]_vars => TypeOK'
  BY TypeParts, TypePartsNext, GuestTypeStep, TurnTypeStep, QueueTypeStep,
     DeviceTypeStep, IrqTypeStep

(* Every word of the queue holds a value the code can store in it, for every *)
(* depth, width of the indices and number of requests in flight.             *)
THEOREM QueueTypeCorrect == Spec => []TypeOK
  BY TypeInit, TypeStep, PTL DEF Spec

\* The restriction under which the code is correct: one request at a time, no
\* publication after an undrained reset, and fewer requests since boot than
\* the 16-bit ring indices count.
OneInFlight == MaxInFlight <= 1 /\ ~ReuseAfterReset /\ MaxRequests < IdxMod

\* The ring indices: at most the last request is not executed or not drained.
RingInv ==
    /\ avail = issued /\ used = seen
    /\ book.last <= seen /\ seen <= issued /\ issued <= book.last + 1
    /\ seen # issued => doorbell

Undrained == book.last # issued

\* Callers hand over, the driver keeps, and only a kept receipt is drained,
\* claimed or quarantined; one turn has a request out at a time.
ShapeInv ==
    /\ shape = "own" =>
          /\ \A c \in Callers : turn[c] = "idle"
          /\ turn[Driver] \in {"idle", "held", "quarantined"}
          /\ slot.waiter = None
          /\ guest \in {"drain", "polled", "drained"} => turn[Driver] = "held"
    /\ shape = "handoff" =>
          /\ turn[Driver] = "idle" /\ guest # "drained"
          /\ slot.epoch = book.epoch
          /\ \A c \in Callers : turn[c] # "quarantined"

OneOut == \A o, p \in Owners : turn[o] # "idle" /\ turn[p] # "idle" => o = p

\* What slot, chain, stash and buffer are to the turn whose request is out.
Out(o) ==
    /\ issued > 0 /\ where[o] = None /\ req[o] = issued
    /\ slot.payload = o /\ slot.req = issued
    /\ desc.payload = o /\ desc.req = issued

InFlight ==
    /\ "inflight" \in slot.flags /\ "resolved" \notin slot.flags
    /\ slot.epoch = book.epoch
    /\ desc.reads => "writes" \in slot.flags

Resolved(o) ==
    /\ "resolved" \in slot.flags
    /\ stash = [payload |-> o, status |-> status, req |-> issued]

Stage(o) ==
    /\ turn[o] = "idle" => where[o] = o
    /\ turn[o] = "held" /\ Undrained =>
          InFlight /\ slot.waiter = None /\ guest # "drained"
    /\ turn[o] = "held" /\ ~Undrained =>
          Resolved(o) /\ (shape = "own" => guest = "drained")
    /\ turn[o] = "waiting" => Undrained /\ InFlight /\ slot.waiter = o
    /\ turn[o] = "ready" =>
          /\ ~Undrained
          /\ answer[o] = [payload |-> o, status |-> status, req |-> issued]
    /\ turn[o] = "quarantined" =>
          /\ "resolved" \notin slot.flags
          /\ seen # issued => book.quiesced = book.stamp

FlightInv == \A o \in Owners : (turn[o] # "idle" => Out(o)) /\ Stage(o)

IdleInv ==
    (\A o \in Owners : turn[o] = "idle") =>
        seen = issued /\ (shape = "handoff" => ~Undrained)

\* What the device left: the status of the last request, its used entry.
StatusInv ==
    /\ \A x \in executed : x[1] \in 1 .. seen
    /\ seen = issued /\ issued > 0 =>
          status \in {"ok", "error"} /\ <<issued, status>> \in executed
    /\ seen = issued /\ Undrained /\ ring[book.last % Depth] = "data" => desc.reads

GuestInv == guest = "polled" => seen = issued

\* Where groups may take its deadline away, an idle executor may abort.
FaultInv == fault \in (IF Groups THEN {None, "early", "deadlock"} ELSE {None, "early"})

AnnounceInv ==
    UsedPending /\ Waited =>
        \/ "vq" \in word /\ irq.status
        \/ guest = "wakes" /\ irq.wake /\ irq.cell
        \/ guest \in {"drain", "dead"}

\* The injected interrupt leads to a drain, whose park arms the deadline,
\* before a caller can publish; without groups it stays.
ArmedInv ==
    ~Groups /\ shape = "handoff" /\ ~armed =>
        /\ issued = 0
        /\ \/ guest = "boot" /\ "vq" \in word /\ irq.status
           \/ guest = "wakes" /\ irq.wake /\ irq.cell
           \/ guest = "drain"

QueueInv ==
    /\ TypeOK /\ RingInv /\ ShapeInv /\ OneOut /\ FlightInv /\ IdleInv
    /\ StatusInv /\ GuestInv /\ FaultInv /\ RightAnswer /\ AnnounceInv /\ ArmedInv

-----------------------------------------------------------------------------
(***************************************************************************)
(* Arithmetic of the indices, and the facts a step rests on.               *)
(***************************************************************************)

(* An index below the width is its own remainder, once around or not.        *)
LEMMA SmallModulus ==
    ASSUME NEW a \in Nat, a < IdxMod
    PROVE  a % IdxMod = a /\ (a + IdxMod) % IdxMod = a
  BY BlockAssumption, SMT DEF BlockAssumption

(* The indices are numbers below the width.                                  *)
LEMMA Numbers ==
    ASSUME QueueInv, OneInFlight
    PROVE  /\ issued \in Nat /\ seen \in Nat /\ used \in Nat /\ book.last \in Nat
           /\ issued < IdxMod /\ IdxMod \in Nat /\ MaxRequests \in Nat
           /\ issued <= MaxRequests /\ seen \in 0 .. IdxMod - 1
           /\ book.epoch \in Nat /\ book.quiesced \in Nat /\ book.stamp \in Nat
  BY BlockAssumption, TypeParts
     DEF QueueInv, RingInv, OneInFlight, QueueType, DeviceType, Books, BlockAssumption

(* Two indices between a number and the next one.                            *)
LEMMA Linear ==
    ASSUME NEW last \in Nat, NEW s \in Nat, NEW i \in Nat,
           last <= s, s <= i, i <= last + 1
    PROVE  s = i \/ (i = s + 1 /\ last = s)
  OBVIOUS

(* At most one chain is pending, and then nothing is left to drain.          *)
LEMMA PendingIs ==
    ASSUME QueueInv, OneInFlight
    PROVE  /\ Pending = issued - seen
           /\ seen = issued \/ (issued = seen + 1 /\ book.last = seen)
  <1>1. /\ book.last \in Nat /\ seen \in Nat /\ issued \in Nat
        /\ IdxMod \in Nat /\ issued < IdxMod
    BY Numbers
  <1>2. book.last <= seen /\ seen <= issued /\ issued <= book.last + 1 /\ avail = issued
    BY DEF QueueInv, RingInv
  <1>3. seen = issued \/ (issued = seen + 1 /\ book.last = seen)
    BY <1>1, <1>2, Linear
  <1>4. CASE seen = issued
    <2>1. avail + IdxMod - seen = 0 + IdxMod /\ 0 \in Nat /\ 0 < IdxMod
      BY <1>1, <1>2, <1>4
    <2>2. Pending = 0
      BY <2>1, SmallModulus DEF Pending
    <2>3. issued - seen = 0
      BY <1>1, <1>4
    <2> QED BY <1>4, <2>2, <2>3
  <1>5. CASE issued = seen + 1
    <2>1. 1 \in Nat /\ 1 < IdxMod
      BY <1>1, <1>5
    <2>2. avail + IdxMod - seen = 1 + IdxMod
      BY <1>1, <1>2, <1>5
    <2>3. Pending = 1
      BY <2>1, <2>2, SmallModulus DEF Pending
    <2>4. issued - seen = 1
      BY <1>1, <1>5
    <2> QED BY <1>3, <2>3, <2>4
  <1> QED BY <1>3, <1>4, <1>5

\* The device found nothing, or it executed the one request that is out.
Unserved ==
    /\ seen = issued /\ UNCHANGED <<seen, status, executed, ring, used, irq>>
    /\ word \subseteq word'

Served ==
    /\ seen # issued /\ seen' = issued /\ used' = issued
    /\ status' \in {"ok", "error"}
    /\ executed' = executed \cup {<<issued, status'>>}
    /\ ring'[book.last % Depth] = "data" => desc.reads
    /\ "vq" \in word' /\ irq' = [irq EXCEPT !.status = TRUE]

(* A chain that is pending belongs to a turn whose request is out.           *)
LEMMA SomebodyOut ==
    ASSUME QueueInv, seen # issued
    PROVE  \E o \in Owners : turn[o] # "idle" /\ Out(o)
  BY DEF QueueInv, IdleInv, FlightInv

(* execute_available finds nothing or executes the request that is out.      *)
LEMMA ExecuteStep ==
    ASSUME QueueInv, OneInFlight, ExecuteAvailable,
           IF Pending > 0 THEN RaiseVector ELSE UNCHANGED irqVars
    PROVE  Unserved \/ Served
  <1>1. CASE seen = issued
    <2>1. Pending = 0
      BY <1>1, PendingIs, Numbers
    <2>2. used' = used
      BY <2>1, Numbers, SmallModulus DEF ExecuteAvailable, QueueInv, RingInv
    <2>3. ring \in [0 .. Depth - 1 -> {"data", "bare"}]
      BY TypeParts DEF QueueInv, DeviceType
    <2>4. ring' = ring
      <3>1. ring' = [i \in 0 .. Depth - 1 |-> ring[i]]
        BY <2>1 DEF ExecuteAvailable, Committed
      <3> QED BY <3>1, <2>3
    <2> QED BY <1>1, <2>1, <2>2, <2>4
            DEF ExecuteAvailable, Unserved, QueueInv, RingInv, irqVars
  <1>2. CASE seen # issued
    <2>1. Pending = 1 /\ issued = seen + 1 /\ book.last = seen /\ used = seen
      BY <1>2, PendingIs, Numbers DEF QueueInv, RingInv
    <2>2. desc.req = issued
      BY <1>2, SomebodyOut DEF Out
    <2>3. used' = issued /\ seen' = issued
      BY <2>1, Numbers, SmallModulus DEF ExecuteAvailable, QueueInv, RingInv
    <2>4. status' = Outcome /\ executed' = executed \cup {<<issued, Outcome>>}
      BY <2>1, <2>2 DEF ExecuteAvailable
    <2>5. ring'[book.last % Depth] = Entry
      <3>1. book.last % Depth \in 0 .. Depth - 1
        BY Numbers, BlockAssumption DEF BlockAssumption
      <3>2. (used + 0) % Depth = book.last % Depth
        BY <2>1, Numbers
      <3> QED BY <2>1, <3>1, <3>2 DEF ExecuteAvailable, Committed
    <2>6. "vq" \in word' /\ irq' = [irq EXCEPT !.status = TRUE]
      BY <2>1 DEF RaiseVector
    <2> QED BY <1>2, <2>3, <2>4, <2>5, <2>6 DEF Served, Outcome, Entry
  <1> QED BY <1>1, <1>2

(* A service, a park and a quiesce leave nothing pending.                    *)
LEMMA ServiceStep ==
    ASSUME QueueInv, OneInFlight, Service \/ ParkExit \/ Quiesce
    PROVE  (Unserved \/ Served) /\ doorbell' = FALSE /\ seen' = issued
  <1>1. seen # issued => doorbell /\ Pending > 0
    BY PendingIs, Numbers DEF QueueInv, RingInv
  <1>2. CASE Service
    BY <1>1, <1>2, ExecuteStep DEF Service, Unserved, Served, irqVars
  <1>3. CASE ParkExit
    BY <1>1, <1>3, ExecuteStep DEF ParkExit, Unserved, Served
  <1>4. CASE Quiesce
    BY <1>4, ExecuteStep DEF Quiesce, Unserved, Served
  <1> QED BY <1>2, <1>3, <1>4

(* A request is published only when no other is out and all is drained.      *)
LEMMA SubmitFacts ==
    ASSUME QueueInv, OneInFlight, NEW o \in Owners, Submit(o)
    PROVE  /\ \A p \in Owners : turn[p] = "idle"
           /\ seen = issued /\ used = issued /\ book.last = issued
           /\ issued' = issued + 1 /\ avail' = issued + 1
           /\ issued + 1 <= MaxRequests
  <1>1. MayPublish(o)
    BY DEF Submit
  <1>2. \A p \in Owners : turn[p] = "idle"
    <2>1. CASE shape = "own"
      BY <1>1, <2>1 DEF MayPublish, QueueInv, ShapeInv, Owners
    <2>2. CASE shape = "handoff"
      <3>1. Cardinality(Outstanding) < 1 /\ Outstanding \subseteq Owners
        <4>1. IsFiniteSet(Outstanding)
          <5>1. IsFiniteSet(Owners)
            BY BlockAssumption, FS_AddElement, FS_Union, FS_Singleton DEF BlockAssumption, Owners
          <5> QED BY <5>1, FS_Subset DEF Outstanding
        <4>2. Cardinality(Outstanding) \in Nat
          BY <4>1, FS_CardinalityType
        <4> QED BY <1>1, <2>2, <4>2, BlockAssumption
                DEF MayPublish, OneInFlight, BlockAssumption, Outstanding
      <3>2. IsFiniteSet(Outstanding)
        <4>1. IsFiniteSet(Owners)
          BY BlockAssumption, FS_Union, FS_Singleton DEF BlockAssumption, Owners
        <4> QED BY <4>1, FS_Subset DEF Outstanding
      <3>3. Outstanding = {}
        BY <3>1, <3>2, FS_CardinalityType, FS_EmptySet
      <3> QED BY <3>3 DEF Outstanding
    <2> QED BY <1>1, <2>1, <2>2 DEF MayPublish
  <1>3. seen = issued /\ used = issued
    BY <1>2 DEF QueueInv, IdleInv, RingInv
  <1>4. book.last = issued
    BY <1>1, <1>2, <1>3 DEF MayPublish, QueueInv, IdleInv, Undrained, OneInFlight
  <1>5. issued + 1 <= MaxRequests
    BY <1>1, Numbers DEF MayPublish
  <1>6. avail' = issued + 1
    <2>1. issued + 1 \in Nat /\ issued + 1 < IdxMod
      BY <1>5, Numbers DEF OneInFlight
    <2> QED BY <2>1, SmallModulus DEF Submit, Publish, QueueInv, RingInv
  <1> QED BY <1>2, <1>3, <1>4, <1>5, <1>6 DEF Submit

\* The entry a drain finds is that of the request that is out: it is never
\* taken for a fault, and the stash is what the device answered.
LEMMA TakeFacts ==
    ASSUME QueueInv, OneInFlight, DrainEntry \/ DrainAgain
    PROVE  /\ TakeEntry
           /\ seen = issued /\ book.last + 1 = issued
           /\ \E o \in Owners :
                 /\ turn[o] \in {"held", "waiting"} /\ Out(o)
                 /\ slot.waiter = IF turn[o] = "waiting" THEN o ELSE None
                 /\ Stashed = [payload |-> o, status |-> status, req |-> issued]
  <1>1. used # book.last /\ guest \in {"drain", "polled"}
    BY DEF DrainEntry, DrainAgain, UsedPending
  <1>2. seen = issued /\ book.last + 1 = issued
    BY <1>1, Numbers DEF QueueInv, RingInv
  <1>3. Undrained /\ issued > 0
    BY <1>2, Numbers DEF Undrained
  <1>4. PICK o \in Owners : turn[o] # "idle"
    <2>1. CASE shape = "own"
      BY <1>1, <2>1 DEF QueueInv, ShapeInv, Owners
    <2>2. CASE shape = "handoff"
      BY <1>3, <2>2 DEF QueueInv, IdleInv
    <2> QED BY <2>1, <2>2, TypeParts, BlockAssumption DEF QueueInv, GuestType, BlockAssumption
  <1>5. Out(o) /\ Stage(o)
    BY <1>4 DEF QueueInv, FlightInv
  <1>6. turn[o] \in {"held", "waiting"}
    <2>1. turn[o] \in {"held", "waiting", "ready", "quarantined"}
      BY <1>4, TypeParts DEF QueueInv, TurnType
    <2>2. turn[o] # "ready"
      BY <1>3, <1>5 DEF Stage
    <2>3. turn[o] # "quarantined"
      <3>1. CASE shape = "own"
        BY <1>1, <3>1 DEF QueueInv, ShapeInv, Owners
      <3>2. CASE shape = "handoff"
        BY <1>4, <3>2 DEF QueueInv, ShapeInv, Owners
      <3> QED BY <3>1, <3>2, TypeParts, BlockAssumption DEF QueueInv, GuestType, BlockAssumption
    <2> QED BY <2>1, <2>2, <2>3
  <1>7. InFlight /\ slot.waiter = IF turn[o] = "waiting" THEN o ELSE None
    BY <1>3, <1>5, <1>6 DEF Stage
  <1>8. CompletionFault = None
    BY <1>2, <1>3, <1>7 DEF CompletionFault, InFlight, QueueInv, StatusInv
  <1>9. status \in {"ok", "error"}
    BY <1>2, <1>3 DEF QueueInv, StatusInv
  <1>10. Stashed = [payload |-> o, status |-> status, req |-> issued]
    BY <1>5, <1>9 DEF Out, Stashed
  <1>11. TakeEntry
    BY <1>8 DEF DrainEntry, DrainAgain, Consume
  <1> QED BY <1>2, <1>5, <1>6, <1>7, <1>10, <1>11

(***************************************************************************)
(* Steps that only serve the device, or only move core 0.                  *)
(***************************************************************************)
Calm ==
    /\ UNCHANGED <<shape, turn, req, where, answer, slot, stash, desc, avail, issued>>
    /\ book'.last = book.last
    /\ \/ UNCHANGED deviceVars
       \/ (Unserved \/ Served) /\ doorbell' = FALSE /\ seen' = issued

(* Indices, turns and idleness are kept by these steps ...                   *)
LEMMA CalmRing ==
    ASSUME QueueInv, OneInFlight, Calm
    PROVE  RingInv' /\ OneOut' /\ IdleInv'
  <1> USE DEF Calm
  <1>1. used' = seen' /\ (seen' = seen \/ seen' = issued)
    BY DEF QueueInv, RingInv, deviceVars, Unserved, Served
  <1>2. seen' # issued => UNCHANGED deviceVars
    OBVIOUS
  <1>3. book.last <= seen' /\ seen' <= issued /\ issued <= book.last + 1
    BY <1>1, Numbers DEF QueueInv, RingInv
  <1>4. RingInv'
    BY <1>1, <1>2, <1>3 DEF QueueInv, RingInv, deviceVars
  <1>5. OneOut'
    BY DEF QueueInv, OneOut
  <1>6. IdleInv'
    BY <1>1 DEF QueueInv, IdleInv, Undrained
  <1> QED BY <1>4, <1>5, <1>6

(* ... and so are the device's history and the answers.                      *)
LEMMA CalmAnswers ==
    ASSUME QueueInv, OneInFlight, Calm
    PROVE  StatusInv' /\ RightAnswer'
  <1> USE DEF Calm
  <1>1. executed \subseteq executed'
    BY DEF deviceVars, Unserved, Served
  <1>2. RightAnswer'
    BY <1>1 DEF QueueInv, RightAnswer
  <1>3. CASE Served /\ seen' = issued
    <2>1. issued = seen + 1
      BY <1>3, PendingIs DEF Served
    <2>2. \A x \in executed' : x[1] \in 1 .. seen'
      <3>1. SUFFICES ASSUME NEW x \in executed' PROVE x[1] \in 1 .. issued
        BY <1>3
      <3>2. x \in executed \/ x[1] = issued
        BY <1>3 DEF Served
      <3>3. x \in executed => x[1] \in 1 .. seen
        BY DEF QueueInv, StatusInv
      <3>4. 1 .. seen \subseteq 1 .. issued /\ issued \in 1 .. issued
        BY <2>1, Numbers
      <3> QED BY <3>2, <3>3, <3>4
    <2> QED BY <1>2, <1>3, <2>2 DEF Served, StatusInv, Undrained
  <1>4. CASE Unserved \/ UNCHANGED deviceVars
    <2>1. UNCHANGED <<seen, status, executed, ring>>
      BY <1>4 DEF Unserved, deviceVars
    <2>2. book'.last % Depth = book.last % Depth
      OBVIOUS
    <2> QED BY <1>2, <2>1, <2>2 DEF QueueInv, StatusInv, Undrained
  <1> QED BY <1>2, <1>3, <1>4

\* A step of this kind keeps the stage of every turn, unless core 0 goes
\* into or out of a bottom half that has drained.
LEMMA CalmFlight ==
    ASSUME QueueInv, OneInFlight, Calm, guest' = "drained" <=> guest = "drained",
           book'.epoch = book.epoch, book'.quiesced = book.quiesced,
           book'.stamp = book.stamp
    PROVE  FlightInv'
  <1> USE DEF Calm
  <1>1. ~Undrained => status' = status
    BY Numbers DEF Undrained, QueueInv, RingInv, Unserved, Served, deviceVars
  <1>2. SUFFICES ASSUME NEW o \in Owners
                 PROVE  (turn[o] # "idle" => Out(o)') /\ Stage(o)'
    BY DEF FlightInv
  <1>3. turn[o] # "idle" => Out(o)'
    BY DEF QueueInv, FlightInv, Out
  <1>4. Stage(o)
    BY DEF QueueInv, FlightInv
  <1>5. (InFlight => InFlight') /\ (Undrained' <=> Undrained)
    BY DEF InFlight, Undrained
  <1>6. ~Undrained /\ Resolved(o) => Resolved(o)'
    BY <1>1 DEF Resolved
  <1>7. seen' # issued => seen # issued
    BY DEF deviceVars, Unserved, Served
  <1>8. turn[o] \in {"idle", "held", "waiting", "ready", "quarantined"}
    BY TypeParts DEF QueueInv, TurnType
  <1>9. CASE turn[o] = "idle"
    BY <1>4, <1>9 DEF Stage
  <1>10. CASE turn[o] = "held"
    BY <1>3, <1>4, <1>5, <1>6, <1>10 DEF Stage
  <1>11. CASE turn[o] = "waiting"
    BY <1>3, <1>4, <1>5, <1>11 DEF Stage
  <1>12. CASE turn[o] = "ready"
    BY <1>1, <1>3, <1>4, <1>5, <1>12 DEF Stage
  <1>13. CASE turn[o] = "quarantined"
    BY <1>3, <1>4, <1>7, <1>13 DEF Stage
  <1> QED BY <1>3, <1>8, <1>9, <1>10, <1>11, <1>12, <1>13

\* The conjuncts of QueueInv but the types.
Core == /\ RingInv /\ ShapeInv /\ OneOut /\ FlightInv /\ IdleInv
        /\ StatusInv /\ GuestInv /\ FaultInv /\ RightAnswer
        /\ AnnounceInv /\ ArmedInv

(* An exit to the host lets the device catch up.                             *)
LEMMA ExitKeeps == ASSUME QueueInv, OneInFlight, Exit PROVE Core'
  <1>1. (Unserved \/ Served) /\ doorbell' = FALSE /\ seen' = issued
    BY ServiceStep DEF Exit
  <1>2. Calm /\ UNCHANGED <<shape, guest, fault, turn, slot, book, armed, issued>>
    BY <1>1 DEF Exit, Calm, guestVars, queueVars
  <1>3. RingInv' /\ OneOut' /\ IdleInv' /\ StatusInv' /\ RightAnswer' /\ FlightInv'
    BY <1>2, CalmRing, CalmAnswers, CalmFlight
  <1>4. ShapeInv' /\ FaultInv'
    BY <1>2 DEF QueueInv, ShapeInv, FaultInv
  <1>5. GuestInv'
    BY <1>1, <1>2 DEF Calm, GuestInv
  <1>6. irq \in Irqs
    BY TypeParts DEF QueueInv, IrqType
  <1>7. /\ "vq" \in word /\ irq.status => "vq" \in word' /\ irq'.status
        /\ irq'.wake = irq.wake /\ irq'.cell = irq.cell
        /\ Served => "vq" \in word' /\ irq'.status
        /\ Unserved => used' = used
    BY <1>1, <1>6 DEF Unserved, Served, Irqs
  <1>8. AnnounceInv'
    BY <1>1, <1>2, <1>7 DEF QueueInv, AnnounceInv, UsedPending, Waited
  <1>9. ArmedInv'
    BY <1>2, <1>7 DEF QueueInv, ArmedInv
  <1> QED BY <1>3, <1>4, <1>5, <1>8, <1>9 DEF Core

(* The executor idles: without groups its deadline is armed.                 *)
LEMMA IdleArmed ==
    ASSUME QueueInv, Idle
    PROVE  /\ shape = "handoff" /\ guest = "run"
           /\ ~Groups => armed /\ armed'
           /\ UNCHANGED <<shape, turn, req, where, answer, queueVars>>
  BY DEF Idle, DeadlinePoll, QueueInv, ArmedInv

(* The executor that finds a deadline parks.                                 *)
LEMMA IdleParks == ASSUME QueueInv, OneInFlight, Idle, armed' PROVE Core'
  <1>1. shape = "handoff" /\ guest = "run" /\ ParkExit /\ UNCHANGED <<guest, fault>>
    BY IdleArmed DEF Idle
  <1>2. (Unserved \/ Served) /\ doorbell' = FALSE /\ seen' = issued
    BY <1>1, ServiceStep
  <1>3. Calm /\ UNCHANGED <<shape, guest, fault, turn, slot, book, issued>>
    BY <1>1, <1>2, IdleArmed DEF Calm, queueVars
  <1>4. RingInv' /\ OneOut' /\ IdleInv' /\ StatusInv' /\ RightAnswer' /\ FlightInv'
    BY <1>3, CalmRing, CalmAnswers, CalmFlight
  <1>5. ShapeInv' /\ FaultInv' /\ GuestInv' /\ ArmedInv'
    BY <1>1, <1>3 DEF QueueInv, ShapeInv, FaultInv, GuestInv, ArmedInv
  <1>6. irq \in Irqs
    BY TypeParts DEF QueueInv, IrqType
  <1>7. /\ "vq" \in word /\ irq.status => "vq" \in word' /\ irq'.status
        /\ Served => "vq" \in word' /\ irq'.status
        /\ Unserved => used' = used
    BY <1>2, <1>6 DEF Unserved, Served, Irqs
  <1>8. AnnounceInv'
    BY <1>1, <1>2, <1>3, <1>7 DEF QueueInv, AnnounceInv, UsedPending, Waited
  <1> QED BY <1>4, <1>5, <1>8 DEF Core

(* The executor that finds none aborts; only groups take a deadline away.    *)
LEMMA IdleAborts == ASSUME QueueInv, OneInFlight, Idle, ~armed' PROVE Core'
  <1>1. /\ Groups /\ guest = "run" /\ guest' = "dead" /\ fault' = "deadlock"
        /\ UNCHANGED <<shape, turn, req, where, answer, queueVars, deviceVars, irqVars>>
    BY IdleArmed DEF Idle, Abort, deviceVars, irqVars
  <1>2. Calm /\ UNCHANGED <<slot, book, issued, seen, used, word, irq>>
    BY <1>1 DEF Calm, queueVars, deviceVars, irqVars
  <1>3. RingInv' /\ OneOut' /\ IdleInv' /\ StatusInv' /\ RightAnswer' /\ FlightInv'
    BY <1>1, <1>2, CalmRing, CalmAnswers, CalmFlight
  <1>4. ShapeInv' /\ FaultInv' /\ GuestInv' /\ ArmedInv' /\ AnnounceInv'
    BY <1>1, <1>2 DEF QueueInv, ShapeInv, FaultInv, GuestInv, ArmedInv, AnnounceInv
  <1> QED BY <1>3, <1>4 DEF Core

(* The drain that finds nothing parks once and arms the deadline.            *)
LEMMA DrainParkKeeps == ASSUME QueueInv, OneInFlight, DrainPark PROVE Core'
  <1>1. /\ guest = "drain" /\ guest' = "polled" /\ armed' = TRUE /\ ParkExit
        /\ used = book.last
    BY DEF DrainPark, PollPark, UsedPending
  <1>2. (Unserved \/ Served) /\ doorbell' = FALSE /\ seen' = issued
    BY <1>1, ServiceStep
  <1>3. Calm /\ UNCHANGED <<shape, fault, turn, slot, book, issued>>
    BY <1>2 DEF DrainPark, Calm, queueVars
  <1>4. RingInv' /\ OneOut' /\ IdleInv' /\ StatusInv' /\ RightAnswer' /\ FlightInv'
    BY <1>1, <1>3, CalmRing, CalmAnswers, CalmFlight
  <1>5. ShapeInv' /\ FaultInv' /\ ArmedInv'
    BY <1>1, <1>3 DEF QueueInv, ShapeInv, FaultInv, ArmedInv
  <1>6. GuestInv'
    BY <1>2, <1>3 DEF GuestInv
  <1>7. irq \in Irqs
    BY TypeParts DEF QueueInv, IrqType
  <1>8. AnnounceInv'
    BY <1>1, <1>2, <1>3, <1>7 DEF AnnounceInv, UsedPending, Unserved, Served, Irqs
  <1> QED BY <1>4, <1>5, <1>6, <1>8 DEF Core

(* A reset executes what is out and opens an epoch.                          *)
LEMMA ResetKeeps == ASSUME QueueInv, OneInFlight, Reset PROVE Core'
  <1>1. /\ shape = "own" /\ Quiesce
        /\ UNCHANGED <<shape, guest, fault, turn, req, where, answer, slot, stash,
                       desc, avail, issued, armed>>
        /\ guest \in {"drained", "run"}
    BY DEF Reset, guestVars
  <1>2. book' = [last |-> book.last, epoch |-> book.epoch + 1,
                 quiesced |-> book.quiesced + 1, stamp |-> book.stamp]
    <2>1. book \in Books
      BY TypeParts DEF QueueInv, QueueType
    <2> QED BY <1>1, <2>1 DEF Quiesce, Books
  <1>3. (Unserved \/ Served) /\ doorbell' = FALSE /\ seen' = issued
    BY <1>1, ServiceStep
  <1>4. Calm
    BY <1>1, <1>2, <1>3 DEF Calm
  <1>5. RingInv' /\ OneOut' /\ IdleInv' /\ StatusInv' /\ RightAnswer'
    BY <1>4, CalmRing, CalmAnswers
  <1>6. ShapeInv' /\ FaultInv' /\ GuestInv' /\ ArmedInv'
    BY <1>1 DEF QueueInv, ShapeInv, FaultInv, GuestInv, ArmedInv
  <1>7. irq \in Irqs
    BY TypeParts DEF QueueInv, IrqType
  <1>8. /\ "vq" \in word /\ irq.status => "vq" \in word' /\ irq'.status
        /\ Served => "vq" \in word' /\ irq'.status
        /\ Unserved => used' = used
    BY <1>3, <1>7 DEF Unserved, Served, Irqs
  <1>9. AnnounceInv'
    BY <1>1, <1>2, <1>3, <1>8 DEF QueueInv, AnnounceInv, UsedPending, Waited
  <1>10. FlightInv'
    <2>1. SUFFICES ASSUME NEW o \in Owners
                   PROVE  (turn[o] # "idle" => Out(o)') /\ Stage(o)'
      BY <1>1 DEF FlightInv
    <2>2. turn[o] # "idle" => Out(o)'
      BY <1>1 DEF QueueInv, FlightInv, Out
    <2>3. turn[o] \in {"idle", "held", "quarantined"}
      BY <1>1 DEF QueueInv, ShapeInv, Owners
    <2>4. Stage(o)
      BY DEF QueueInv, FlightInv
    <2>5. CASE turn[o] = "idle"
      BY <1>1, <2>4, <2>5 DEF Stage
    <2>6. CASE turn[o] = "quarantined"
      BY <1>1, <1>3, <2>2, <2>4, <2>6 DEF Stage
    <2>7. CASE turn[o] = "held"
      <3>1. o = Driver /\ guest = "drained"
        BY <1>1, <2>7 DEF Reset, QueueInv, ShapeInv, Owners
      <3>2. ~Undrained /\ Resolved(o)
        BY <2>4, <2>7, <3>1 DEF Stage
      <3>3. status' = status /\ ~Undrained'
        BY <1>1, <1>2, <1>3, <3>2, Numbers
           DEF Undrained, QueueInv, RingInv, Unserved, Served
      <3>4. Resolved(o)'
        BY <1>1, <3>2, <3>3 DEF Resolved
      <3> QED BY <1>1, <2>2, <2>7, <3>1, <3>3, <3>4 DEF Stage
    <2> QED BY <2>2, <2>3, <2>5, <2>6, <2>7
  <1> QED BY <1>5, <1>6, <1>9, <1>10 DEF Core

(* The interrupt goes from the pending word to the wake word to the drain.   *)
LEMMA CheckpointKeeps ==
    ASSUME QueueInv, OneInFlight, Checkpoint \/ CheckpointEnd \/ BottomHalf
    PROVE  Core'
  <1>1. /\ guest \in {"boot", "run", "wakes"} /\ guest' \in {"run", "wakes", "drain"}
        /\ guest' = "drain" => shape = "handoff" \/ turn[Driver] = "held"
        /\ UNCHANGED <<shape, fault, turn, req, where, answer, queueVars, deviceVars, armed>>
    BY DEF Checkpoint, CheckpointEnd, BottomHalf
  <1>2. Calm /\ UNCHANGED <<slot, book, issued, used, book>>
    BY <1>1 DEF Calm, queueVars, deviceVars
  <1>3. RingInv' /\ OneOut' /\ IdleInv' /\ StatusInv' /\ RightAnswer' /\ FlightInv'
    BY <1>1, <1>2, CalmRing, CalmAnswers, CalmFlight
  <1>4. ShapeInv' /\ FaultInv' /\ GuestInv'
    BY <1>1, <1>2 DEF QueueInv, ShapeInv, FaultInv, GuestInv
  <1>5. irq \in Irqs /\ word \subseteq {"deadline", "vq"}
    BY TypeParts DEF QueueInv, IrqType
  <1>6. CASE Checkpoint
    BY <1>1, <1>2, <1>3, <1>4, <1>6
       DEF Core, Checkpoint, QueueInv, AnnounceInv, ArmedInv, UsedPending, Waited
  <1>7. CASE CheckpointEnd
    BY <1>1, <1>2, <1>3, <1>4, <1>7
       DEF Core, CheckpointEnd, QueueInv, AnnounceInv, ArmedInv, UsedPending, Waited, irqVars
  <1>8. CASE BottomHalf
    <2>1. /\ word' = word /\ irq'.status = irq.status
          /\ irq.cell /\ Waited => guest' = "drain"
      BY <1>5, <1>8 DEF BottomHalf, Irqs, Waited
    <2>2. AnnounceInv'
      BY <1>1, <1>2, <2>1 DEF QueueInv, AnnounceInv, UsedPending, Waited
    <2>3. ArmedInv'
      BY <1>1, <1>2, <1>8, <2>1 DEF BottomHalf, QueueInv, ArmedInv, Waited
    <2> QED BY <1>3, <1>4, <2>2, <2>3 DEF Core
  <1> QED BY <1>6, <1>7, <1>8

(* A drain that finds nothing after its park is that of a handoff driver.    *)
LEMMA DrainEmptyKeeps == ASSUME QueueInv, OneInFlight, DrainEmpty PROVE Core'
  <1>1. /\ guest = "polled" /\ used = book.last /\ guest' = Drained
        /\ UNCHANGED <<shape, fault, turn, req, where, answer, queueVars, deviceVars,
                       irqVars, armed>>
    BY DEF DrainEmpty, UsedPending
  <1>2. ~Undrained
    BY <1>1 DEF Undrained, QueueInv, RingInv, GuestInv
  <1>3. shape = "handoff"
    <2>1. shape = "own" => turn[Driver] = "held" /\ Stage(Driver)
      BY <1>1 DEF QueueInv, ShapeInv, FlightInv, Owners
    <2>2. shape # "own"
      BY <1>1, <1>2, <2>1 DEF Stage
    <2> QED BY <2>2, TypeParts, BlockAssumption DEF QueueInv, GuestType, BlockAssumption
  <1>4. guest' = "wakes"
    BY <1>1, <1>3 DEF Drained
  <1>5. Calm /\ UNCHANGED <<slot, book, issued, used, word, irq>>
    BY <1>1 DEF Calm, queueVars, deviceVars, irqVars
  <1>6. RingInv' /\ OneOut' /\ IdleInv' /\ StatusInv' /\ RightAnswer' /\ FlightInv'
    BY <1>1, <1>4, <1>5, CalmRing, CalmAnswers, CalmFlight
  <1>7. ShapeInv' /\ FaultInv' /\ GuestInv' /\ AnnounceInv' /\ ArmedInv'
    BY <1>1, <1>4, <1>5
       DEF QueueInv, ShapeInv, FaultInv, GuestInv, AnnounceInv, ArmedInv, UsedPending
  <1> QED BY <1>6, <1>7 DEF Core

(***************************************************************************)
(* Steps that move a request on.                                           *)
(***************************************************************************)

(* The drain resolves the request that is out, or makes its waiter ready.    *)
LEMMA DrainKeeps ==
    ASSUME QueueInv, OneInFlight, DrainEntry \/ DrainAgain PROVE Core'
  <1>1. /\ TakeEntry /\ guest \in {"drain", "polled"}
        /\ seen = issued /\ book.last + 1 = issued
        /\ UNCHANGED <<shape, req, where, desc, avail, issued, deviceVars, irqVars, armed>>
    BY TakeFacts DEF DrainEntry, DrainAgain, Consume
  <1>2. PICK o \in Owners :
           /\ turn[o] \in {"held", "waiting"} /\ Out(o)
           /\ slot.waiter = IF turn[o] = "waiting" THEN o ELSE None
           /\ Stashed = [payload |-> o, status |-> status, req |-> issued]
    BY TakeFacts
  <1>3. /\ slot \in Slots /\ book \in Books /\ answer \in [Owners -> Completions]
        /\ turn \in [Owners -> {"idle", "held", "waiting", "ready", "quarantined"}]
    BY TypeParts DEF QueueInv, QueueType, TurnType
  <1>4. /\ book'.last = issued /\ book'.epoch = book.epoch
        /\ slot'.waiter = None /\ slot'.epoch = slot.epoch
        /\ slot'.payload = slot.payload /\ slot'.req = slot.req
        /\ "resolved" \in slot'.flags
        /\ stash' = [payload |-> o, status |-> status, req |-> issued]
    BY <1>1, <1>2, <1>3 DEF TakeEntry, Slots, Books
  <1>5. UNCHANGED <<used, seen, status, executed, doorbell, ring, fault>> /\ guest' = Drained
    BY <1>1 DEF deviceVars, TakeEntry
  <1>6. \A p \in Owners : p # o =>
           turn[p] = "idle" /\ turn'[p] = "idle" /\ answer'[p] = answer[p]
    <2>1. None \notin Owners
      BY BlockAssumption DEF BlockAssumption
    <2> QED BY <1>1, <1>2, <1>3, <2>1 DEF TakeEntry, WakeWaiter, QueueInv, OneOut
  <1>7. \/ turn[o] = "held" /\ turn'[o] = "held" /\ answer'[o] = answer[o]
        \/ turn[o] = "waiting" /\ turn'[o] = "ready" /\ answer'[o] = stash'
    <2>1. o # None
      BY BlockAssumption DEF BlockAssumption
    <2> QED BY <1>1, <1>2, <1>3, <2>1 DEF TakeEntry, WakeWaiter
  <1>8. ~Undrained' /\ ~UsedPending'
    BY <1>1, <1>4, <1>5 DEF Undrained, UsedPending, QueueInv, RingInv
  <1>9. RingInv'
    BY <1>1, <1>4, <1>5, Numbers DEF QueueInv, RingInv
  <1>10. shape = "own" => o = Driver /\ turn[o] = "held"
    BY <1>2, <1>6 DEF QueueInv, ShapeInv, Owners
  <1>11. ShapeInv'
    BY <1>1, <1>4, <1>5, <1>6, <1>7, <1>10, BlockAssumption
       DEF QueueInv, ShapeInv, Owners, Drained, BlockAssumption
  <1>12. OneOut' /\ IdleInv'
    BY <1>6, <1>7 DEF OneOut, IdleInv
  <1>13. FlightInv'
    <2>1. Out(o)'
      BY <1>1, <1>2, <1>4 DEF Out
    <2>2. Stage(o)'
      BY <1>1, <1>4, <1>5, <1>7, <1>8 DEF Stage, Resolved, Drained
    <2>3. ASSUME NEW p \in Owners, p # o
          PROVE  (turn'[p] # "idle" => Out(p)') /\ Stage(p)'
      BY <1>1, <1>6, <2>3 DEF QueueInv, FlightInv, Stage
    <2> QED BY <2>1, <2>2, <2>3 DEF FlightInv
  <1>14. StatusInv'
    BY <1>1, <1>5, <1>8 DEF QueueInv, StatusInv
  <1>15. GuestInv' /\ FaultInv' /\ AnnounceInv'
    BY <1>5, <1>8 DEF QueueInv, GuestInv, FaultInv, AnnounceInv, Drained
  <1>16. ArmedInv'
    BY <1>1, Numbers DEF QueueInv, ArmedInv
  <1>17. RightAnswer'
    <2>1. <<issued, status>> \in executed /\ issued > 0
      BY <1>1, <1>2 DEF QueueInv, StatusInv, Out
    <2>2. \A p \in Owners : p # o =>
             (answer'[p] # NoAnswer =>
                /\ answer'[p].payload = p
                /\ turn'[p] \in {"ready", "quarantined"} => answer'[p].req = req'[p]
                /\ answer'[p].status # "unknown" =>
                      <<answer'[p].req, answer'[p].status>> \in executed')
      BY <1>1, <1>5, <1>6 DEF QueueInv, RightAnswer
    <2>3. answer'[o] # NoAnswer =>
                /\ answer'[o].payload = o
                /\ turn'[o] \in {"ready", "quarantined"} => answer'[o].req = req'[o]
                /\ answer'[o].status # "unknown" =>
                      <<answer'[o].req, answer'[o].status>> \in executed'
      <3>1. CASE turn[o] = "held"
        BY <1>1, <1>5, <1>7, <3>1 DEF QueueInv, RightAnswer
      <3>2. CASE turn[o] = "waiting"
        BY <1>1, <1>2, <1>4, <1>5, <1>7, <2>1, <3>2 DEF Out
      <3> QED BY <1>2, <3>1, <3>2
    <2> QED BY <2>2, <2>3 DEF RightAnswer
  <1> QED BY <1>9, <1>11, <1>12, <1>13, <1>14, <1>15, <1>16, <1>17 DEF Core

\* The fields of the driver's record and of its answer, typed.
LEMMA Typed ==
    ASSUME QueueInv
    PROVE  /\ slot \in Slots /\ book \in Books /\ desc \in Descs /\ irq \in Irqs
           /\ turn \in [Owners -> {"idle", "held", "waiting", "ready", "quarantined"}]
           /\ req \in [Owners -> 0 .. MaxRequests]
           /\ where \in [Owners -> Owners \cup {None}]
           /\ answer \in [Owners -> Completions]
           /\ shape \in {"own", "handoff"}
           /\ None \notin Owners /\ Driver \notin Callers
           /\ Driver \in Owners /\ Callers \subseteq Owners
  BY TypeParts, BlockAssumption
     DEF QueueInv, QueueType, TurnType, IrqType, GuestType, BlockAssumption, Owners

\* A turn that receives an answer to its last request receives the right one.
LEMMA AnswerTo ==
    ASSUME QueueInv, NEW o \in Owners,
           UNCHANGED <<req, executed>>, turn'[o] # "idle" => req[o] = issued,
           answer'[o].payload = o, answer'[o].req = issued,
           answer'[o].status = "unknown"
              \/ (seen = issued /\ issued > 0 /\ answer'[o].status = status),
           \A p \in Owners : p # o => answer'[p] = answer[p] /\ turn'[p] = turn[p]
    PROVE  RightAnswer'
  <1>1. answer'[o].status # "unknown" => <<issued, answer'[o].status>> \in executed'
    BY DEF QueueInv, StatusInv
  <1>2. SUFFICES ASSUME NEW p \in Owners, answer'[p] # NoAnswer
                 PROVE  /\ answer'[p].payload = p
                        /\ turn'[p] \in {"ready", "quarantined"} => answer'[p].req = req'[p]
                        /\ answer'[p].status # "unknown" =>
                              <<answer'[p].req, answer'[p].status>> \in executed'
    BY DEF RightAnswer
  <1>3. CASE p = o
    BY <1>1, <1>3
  <1>4. CASE p # o
    BY <1>2, <1>4 DEF QueueInv, RightAnswer
  <1> QED BY <1>3, <1>4

(* A claim follows a drain that resolved, and returns the driver's buffer.   *)
LEMMA ClaimKeeps == ASSUME QueueInv, OneInFlight, Claim PROVE Core'
  <1>1. /\ guest = "drained" /\ shape = "own" /\ turn[Driver] = "held"
        /\ \A p \in Owners : p # Driver => turn[p] = "idle"
    BY Typed DEF Claim, QueueInv, ShapeInv, OneOut
  <1>2. Stage(Driver) /\ Out(Driver)
    BY <1>1, Typed DEF QueueInv, FlightInv
  <1>3. ~Undrained /\ Resolved(Driver)
    BY <1>1, <1>2 DEF Stage
  <1>4. /\ slot' = [slot EXCEPT !.flags = @ \ {"resolved"}]
        /\ turn' = [turn EXCEPT ![Driver] = "idle"]
        /\ answer' = [answer EXCEPT ![Driver] = stash]
        /\ where' = [where EXCEPT ![Driver] = Driver]
        /\ guest' = "wakes" /\ fault' = fault
        /\ UNCHANGED <<shape, req, stash, book, desc, avail, issued, deviceVars,
                       irqVars, armed>>
    BY <1>3 DEF Claim, Resolved, Answered
  <1>5. seen = issued /\ book.last = issued /\ issued > 0
    BY <1>2, <1>3, Numbers DEF Undrained, QueueInv, RingInv, Out
  <1>6. UNCHANGED <<used, seen, status, executed, ring, doorbell>>
    BY <1>4 DEF deviceVars
  <1>7. /\ turn'[Driver] = "idle" /\ where'[Driver] = Driver
        /\ answer'[Driver] = stash /\ slot'.waiter = slot.waiter
        /\ \A p \in Owners : p # Driver =>
              turn'[p] = "idle" /\ where'[p] = where[p] /\ answer'[p] = answer[p]
    BY <1>1, <1>4, Typed DEF Slots
  <1>8. RingInv' /\ OneOut' /\ IdleInv' /\ StatusInv' /\ GuestInv' /\ FaultInv'
    BY <1>1, <1>4, <1>5, <1>6, <1>7, Typed
       DEF QueueInv, RingInv, OneOut, IdleInv, StatusInv, GuestInv, FaultInv, Undrained
  <1>9. ShapeInv'
    BY <1>1, <1>4, <1>7, Typed DEF QueueInv, ShapeInv
  <1>10. FlightInv'
    <2>1. \A p \in Owners : turn'[p] = "idle" /\ where'[p] = p
      BY <1>1, <1>7 DEF QueueInv, FlightInv, Stage
    <2> QED BY <2>1 DEF FlightInv, Stage
  <1>11. RightAnswer'
    BY <1>1, <1>3, <1>4, <1>5, <1>6, <1>7, AnswerTo, Typed DEF Resolved
  <1>12. AnnounceInv' /\ ArmedInv'
    BY <1>1, <1>4, <1>5, <1>6
       DEF QueueInv, RingInv, AnnounceInv, ArmedInv, UsedPending
  <1> QED BY <1>8, <1>9, <1>10, <1>11, <1>12 DEF Core

(* A recovery answers at once and quarantines the buffer.                    *)
LEMMA RecoverKeeps == ASSUME QueueInv, OneInFlight, Recover PROVE Core'
  <1>1. /\ guest \in {"drained", "run"} /\ shape = "own" /\ turn[Driver] = "held"
        /\ \A p \in Owners : p # Driver => turn[p] = "idle"
    BY Typed DEF Recover, QueueInv, ShapeInv, OneOut
  <1>2. Stage(Driver) /\ Out(Driver)
    BY <1>1, Typed DEF QueueInv, FlightInv
  <1>3. \/ Undrained /\ Unknown
        \/ ~Undrained /\ "resolved" \in slot.flags /\ seen = issued
    <2>1. Undrained => Unknown
      BY <1>1, <1>2 DEF Stage, InFlight, Unknown
    <2>2. ~Undrained => "resolved" \in slot.flags
      BY <1>1, <1>2 DEF Stage, Resolved
    <2>3. ~Undrained => seen = issued
      BY Numbers DEF Undrained, QueueInv, RingInv
    <2> QED BY <2>1, <2>2, <2>3
  <1>4. /\ slot' = [slot EXCEPT !.flags =
                       (@ \ {"inflight", "resolved"}) \cup {"quarantined"}]
        /\ turn' = [turn EXCEPT ![Driver] = "quarantined"]
        /\ answer' = [answer EXCEPT ![Driver] = Recovered]
        /\ book' = [book EXCEPT !.stamp = book.quiesced]
        /\ guest' \in {"run", "wakes"} /\ fault' = fault
        /\ UNCHANGED <<shape, req, where, stash, desc, avail, issued, deviceVars,
                       irqVars, armed>>
    BY <1>3 DEF Recover, Stamp
  <1>5. UNCHANGED <<used, seen, status, executed, ring, doorbell>>
    BY <1>4 DEF deviceVars
  <1>6. /\ book'.last = book.last /\ book'.epoch = book.epoch
        /\ book'.quiesced = book.quiesced /\ book'.stamp = book.quiesced
        /\ slot'.payload = slot.payload /\ slot'.req = slot.req
        /\ slot'.waiter = slot.waiter /\ "resolved" \notin slot'.flags
        /\ turn'[Driver] = "quarantined" /\ answer'[Driver] = Recovered
        /\ \A p \in Owners : p # Driver =>
              turn'[p] = "idle" /\ answer'[p] = answer[p]
    BY <1>1, <1>4, Typed DEF Slots, Books
  <1>7. RingInv' /\ OneOut' /\ IdleInv' /\ GuestInv' /\ FaultInv'
    BY <1>1, <1>4, <1>5, <1>6, Typed
       DEF QueueInv, RingInv, OneOut, IdleInv, GuestInv, FaultInv
  <1>8. StatusInv'
    <2>1. book'.last % Depth = book.last % Depth
      BY <1>6
    <2> QED BY <1>4, <1>5, <1>6, <2>1 DEF QueueInv, StatusInv, Undrained
  <1>9. ShapeInv'
    BY <1>1, <1>4, <1>6, Typed DEF QueueInv, ShapeInv
  <1>10. FlightInv'
    <2>1. Out(Driver)'
      BY <1>2, <1>4, <1>6 DEF Out
    <2>2. Stage(Driver)'
      BY <1>6 DEF Stage
    <2>3. \A p \in Owners : p # Driver => turn'[p] = "idle" /\ Stage(p)'
      BY <1>1, <1>4, <1>6 DEF QueueInv, FlightInv, Stage
    <2> QED BY <2>1, <2>2, <2>3 DEF FlightInv
  <1>11. RightAnswer'
    <2>1. Recovered.payload = Driver /\ Recovered.req = issued
      BY <1>2 DEF Recovered, Out
    <2>2. Recovered.status = "unknown"
            \/ (seen = issued /\ issued > 0 /\ Recovered.status = status)
      <3>1. CASE Unknown
        BY <3>1 DEF Recovered
      <3>2. CASE ~Unknown
        <4>1. seen = issued /\ issued > 0
          BY <1>2, <1>3, <3>2 DEF Out
        <4>2. status \in {"ok", "error"}
          BY <4>1 DEF QueueInv, StatusInv
        <4> QED BY <3>2, <4>1, <4>2 DEF Recovered
      <3> QED BY <3>1, <3>2
    <2> QED BY <1>1, <1>2, <1>4, <1>5, <1>6, <2>1, <2>2, AnswerTo, Typed DEF Out
  <1>12. AnnounceInv' /\ ArmedInv'
    BY <1>1, <1>4, <1>6 DEF AnnounceInv, ArmedInv, Waited
  <1> QED BY <1>7, <1>8, <1>9, <1>10, <1>11, <1>12 DEF Core

(* Reclaim returns the buffer only when a quiesce has executed the request.  *)
LEMMA ReclaimKeeps == ASSUME QueueInv, OneInFlight, Reclaim PROVE Core'
  <1>1. /\ guest = "run" /\ shape = "own" /\ turn[Driver] = "quarantined"
        /\ \A p \in Owners : p # Driver => turn[p] = "idle"
        /\ UNCHANGED <<shape, req, answer, stash, book, desc, avail, issued,
                       deviceVars, irqVars, armed>>
    BY Typed DEF Reclaim, QueueInv, ShapeInv, OneOut
  <1>2. Stage(Driver) /\ Out(Driver)
    BY <1>1, Typed DEF QueueInv, FlightInv
  <1>3. UNCHANGED <<used, seen, status, executed, ring, doorbell>>
    BY <1>1 DEF deviceVars
  <1>4. CASE ReclaimGate
    <2>1. seen = issued
      BY <1>1, <1>2, <1>4 DEF Stage, ReclaimGate
    <2>2. /\ where' = [where EXCEPT ![Driver] = Driver]
          /\ turn' = [turn EXCEPT ![Driver] = "idle"]
          /\ slot'.waiter = slot.waiter
          /\ UNCHANGED <<guest, fault>>
      BY <1>2, <1>4, Typed DEF Reclaim, Out, Slots
    <2>3. /\ turn'[Driver] = "idle" /\ where'[Driver] = Driver
          /\ \A p \in Owners : p # Driver => turn'[p] = "idle" /\ where'[p] = where[p]
      BY <1>1, <2>2, Typed
    <2>4. RingInv' /\ OneOut' /\ IdleInv' /\ StatusInv' /\ GuestInv' /\ FaultInv'
      BY <1>1, <1>3, <2>1, <2>2, <2>3, Typed
         DEF QueueInv, RingInv, OneOut, IdleInv, StatusInv, GuestInv, FaultInv, Undrained
    <2>5. ShapeInv'
      BY <1>1, <2>2, <2>3, Typed DEF QueueInv, ShapeInv
    <2>6. FlightInv'
      <3>1. \A p \in Owners : turn'[p] = "idle" /\ where'[p] = p
        BY <1>1, <2>3 DEF QueueInv, FlightInv, Stage
      <3> QED BY <3>1 DEF FlightInv, Stage
    <2>7. RightAnswer'
      BY <1>1, <1>3, <2>3 DEF QueueInv, RightAnswer
    <2>8. AnnounceInv' /\ ArmedInv'
      BY <1>1, <2>3 DEF AnnounceInv, ArmedInv, Waited
    <2> QED BY <2>4, <2>5, <2>6, <2>7, <2>8 DEF Core
  <1>5. CASE ~ReclaimGate
    <2>1. guest' = "dead" /\ fault' = "early" /\ UNCHANGED <<where, slot, turn>>
      BY <1>5 DEF Reclaim, Abort
    <2>2. Calm
      BY <1>1, <2>1 DEF Calm
    <2>3. RingInv' /\ OneOut' /\ IdleInv' /\ StatusInv' /\ RightAnswer' /\ FlightInv'
      BY <1>1, <2>1, <2>2, CalmRing, CalmAnswers, CalmFlight
    <2>4. ShapeInv' /\ FaultInv' /\ GuestInv' /\ AnnounceInv' /\ ArmedInv'
      BY <1>1, <2>1
         DEF QueueInv, ShapeInv, FaultInv, GuestInv, AnnounceInv, ArmedInv, Waited
    <2> QED BY <2>3, <2>4 DEF Core
  <1> QED BY <1>4, <1>5

(* A new request takes the slot, the chain and the ring over.                *)
LEMMA SubmitKeeps ==
    ASSUME QueueInv, OneInFlight, NEW o \in Owners, Submit(o) PROVE Core'
  <1>1. /\ \A p \in Owners : turn[p] = "idle" /\ where[p] = p
        /\ seen = issued /\ used = issued /\ book.last = issued
        /\ issued' = issued + 1 /\ avail' = issued + 1 /\ issued \in Nat
    BY SubmitFacts, Numbers DEF QueueInv, FlightInv, Stage
  <1>2. /\ turn' = [turn EXCEPT ![o] = "held"]
        /\ where' = [where EXCEPT ![o] = None]
        /\ req' = [req EXCEPT ![o] = issued + 1]
        /\ UNCHANGED <<shape, guest, fault, answer, stash, book, used, ring, seen,
                       executed, irqVars, armed>>
    BY DEF Submit
  <1>3. PICK reads, good \in BOOLEAN : Prepare(o, reads) /\ Publish(o, reads, good)
    BY DEF Submit
  <1>4. /\ slot'.payload = o /\ slot'.req = issued + 1 /\ slot'.waiter = None
        /\ slot'.epoch = book.epoch /\ "inflight" \in slot'.flags
        /\ "resolved" \notin slot'.flags
        /\ desc'.payload = o /\ desc'.req = issued + 1
        /\ desc'.reads => "writes" \in slot'.flags
        /\ doorbell' = TRUE
    BY <1>3 DEF Prepare, Publish
  <1>5. /\ turn'[o] = "held" /\ where'[o] = None /\ req'[o] = issued + 1
        /\ \A p \in Owners : p # o => turn'[p] = "idle" /\ where'[p] = p
                                      /\ req'[p] = req[p]
    BY <1>1, <1>2, Typed
  <1>6. /\ guest \in {"boot", "run", "wakes"}
        /\ shape = "own" => o = Driver
        /\ shape = "handoff" => o \in Callers /\ guest = "run"
    BY DEF Submit, MayPublish
  <1>7. RingInv'
    BY <1>1, <1>2, <1>4 DEF RingInv
  <1>8. OneOut' /\ IdleInv' /\ GuestInv' /\ FaultInv'
    BY <1>2, <1>5, <1>6 DEF QueueInv, OneOut, IdleInv, GuestInv, FaultInv
  <1>9. ShapeInv'
    BY <1>2, <1>4, <1>5, <1>6, Typed DEF QueueInv, ShapeInv
  <1>10. StatusInv'
    BY <1>1, <1>2 DEF QueueInv, StatusInv
  <1>11. FlightInv'
    <2>1. Out(o)'
      BY <1>1, <1>4, <1>5 DEF Out
    <2>2. InFlight' /\ Undrained'
      BY <1>1, <1>2, <1>4 DEF InFlight, Undrained
    <2>3. Stage(o)'
      BY <1>2, <1>4, <1>5, <1>6, <2>2 DEF Stage
    <2>4. \A p \in Owners : p # o => turn'[p] = "idle" /\ Stage(p)'
      BY <1>5 DEF Stage
    <2> QED BY <2>1, <2>3, <2>4 DEF FlightInv
  <1>12. RightAnswer'
    BY <1>1, <1>2, <1>5 DEF QueueInv, RightAnswer
  <1>13. AnnounceInv'
    BY <1>1, <1>2 DEF AnnounceInv, UsedPending
  <1>14. ArmedInv'
    <2>1. ~Groups /\ shape = "handoff" => armed
      BY <1>6 DEF QueueInv, ArmedInv
    <2> QED BY <1>2, <2>1 DEF ArmedInv
  <1> QED BY <1>7, <1>8, <1>9, <1>10, <1>11, <1>12, <1>13, <1>14 DEF Core

(* An await is answered on the spot or waits for the drain, never both.      *)
LEMMA AwaitKeeps ==
    ASSUME QueueInv, OneInFlight, NEW c \in Callers, Await(c) PROVE Core'
  <1>1. /\ c \in Owners /\ c # Driver /\ guest = "run" /\ shape = "handoff"
        /\ turn[c] = "held"
        /\ \A p \in Owners : p # c => turn[p] = "idle"
        /\ slot' = [slot EXCEPT !.waiter = c]
        /\ UNCHANGED <<shape, guest, fault, req, stash, book, desc, avail, issued,
                       deviceVars, irqVars, armed>>
    BY Typed DEF Await, QueueInv, OneOut
  <1>2. Stage(c) /\ Out(c)
    BY <1>1 DEF QueueInv, FlightInv
  <1>3. /\ slot'.flags = slot.flags /\ slot'.epoch = slot.epoch /\ slot'.waiter = c
        /\ slot'.payload = slot.payload /\ slot'.req = slot.req
        /\ UNCHANGED <<used, seen, status, executed, ring, doorbell, irq, word>>
    BY <1>1, Typed DEF Slots, deviceVars, irqVars
  <1>4. Undrained' <=> Undrained
    BY <1>1 DEF Undrained
  <1>5. RingInv' /\ StatusInv' /\ GuestInv' /\ FaultInv' /\ ArmedInv'
    BY <1>1, <1>3
       DEF QueueInv, RingInv, StatusInv, GuestInv, FaultInv, ArmedInv, Undrained
  <1>6. CASE "resolved" \in slot.flags
    <2>1. ~Undrained /\ Resolved(c)
      BY <1>1, <1>2, <1>6 DEF Stage, InFlight
    <2>2. /\ turn' = [turn EXCEPT ![c] = "idle"]
          /\ answer' = [answer EXCEPT ![c] = stash]
          /\ where' = [where EXCEPT ![c] = c]
      BY <1>6, <2>1 DEF Await, Answered, Resolved
    <2>3. /\ turn'[c] = "idle" /\ where'[c] = c /\ answer'[c] = stash
          /\ \A p \in Owners : p # c =>
                turn'[p] = "idle" /\ where'[p] = where[p] /\ answer'[p] = answer[p]
      BY <1>1, <2>2, Typed
    <2>4. seen = issued /\ issued > 0
      BY <1>2, <2>1, Numbers DEF Undrained, QueueInv, RingInv, Out
    <2>5. OneOut' /\ IdleInv'
      BY <1>1, <1>3, <1>4, <2>1, <2>3, <2>4 DEF OneOut, IdleInv
    <2>6. ShapeInv' /\ AnnounceInv'
      BY <1>1, <1>3, <2>3, Typed
         DEF QueueInv, ShapeInv, AnnounceInv, UsedPending, Waited
    <2>7. FlightInv'
      <3>1. \A p \in Owners : turn'[p] = "idle" /\ where'[p] = p
        BY <1>1, <2>3 DEF QueueInv, FlightInv, Stage
      <3> QED BY <3>1 DEF FlightInv, Stage
    <2>8. RightAnswer'
      BY <1>1, <1>3, <2>1, <2>3, <2>4, AnswerTo DEF Resolved
    <2> QED BY <1>5, <2>5, <2>6, <2>7, <2>8 DEF Core
  <1>7. CASE "resolved" \notin slot.flags
    <2>1. Undrained /\ InFlight
      BY <1>1, <1>2, <1>7 DEF Stage, Resolved
    <2>2. turn' = [turn EXCEPT ![c] = "waiting"] /\ UNCHANGED <<answer, where>>
      BY <1>7 DEF Await
    <2>3. /\ turn'[c] = "waiting"
          /\ \A p \in Owners : p # c => turn'[p] = "idle"
      BY <1>1, <2>2, Typed
    <2>4. OneOut' /\ IdleInv'
      BY <1>1, <2>3 DEF OneOut, IdleInv
    <2>5. ShapeInv' /\ AnnounceInv'
      BY <1>1, <1>3, <2>3, Typed
         DEF QueueInv, ShapeInv, AnnounceInv, UsedPending, Waited
    <2>6. FlightInv'
      <3>1. Out(c)'
        BY <1>1, <1>2, <1>3, <2>2 DEF Out
      <3>2. InFlight'
        BY <1>1, <1>3, <2>1 DEF InFlight
      <3>3. Stage(c)'
        BY <1>3, <1>4, <2>1, <2>3, <3>2 DEF Stage
      <3>4. \A p \in Owners : p # c => turn'[p] = "idle" /\ Stage(p)'
        BY <1>1, <2>2, <2>3 DEF QueueInv, FlightInv, Stage
      <3> QED BY <3>1, <3>3, <3>4 DEF FlightInv
    <2>7. RightAnswer'
      BY <1>1, <1>3, <2>2, <2>3 DEF QueueInv, RightAnswer
    <2> QED BY <1>5, <2>4, <2>5, <2>6, <2>7 DEF Core
  <1> QED BY <1>6, <1>7

(* A turn the drain made ready resumes with its own buffer.                  *)
LEMMA ResumeKeeps ==
    ASSUME QueueInv, OneInFlight, NEW c \in Callers, Resume(c) PROVE Core'
  <1>1. /\ c \in Owners /\ c # Driver /\ guest = "run" /\ turn[c] = "ready"
        /\ \A p \in Owners : p # c => turn[p] = "idle"
        /\ turn' = [turn EXCEPT ![c] = "idle"]
        /\ UNCHANGED <<shape, guest, fault, req, answer, queueVars, deviceVars,
                       irqVars, armed>>
    BY Typed DEF Resume, QueueInv, OneOut
  <1>2. Stage(c)
    BY <1>1 DEF QueueInv, FlightInv
  <1>3. ~Undrained /\ where' = [where EXCEPT ![c] = c]
    <2>1. ~Undrained /\ answer[c] = [payload |-> c, status |-> status, req |-> issued]
      BY <1>1, <1>2 DEF Stage
    <2>2. answer[c].payload = c
      BY <2>1
    <2>3. where' = [where EXCEPT ![answer[c].payload] = c]
      BY DEF Resume
    <2> QED BY <2>1, <2>2, <2>3
  <1>4. /\ turn'[c] = "idle" /\ where'[c] = c
        /\ \A p \in Owners : p # c => turn'[p] = "idle" /\ where'[p] = where[p]
    BY <1>1, <1>3, Typed
  <1>5. UNCHANGED <<slot, stash, book, desc, avail, issued, used, seen, status,
                    executed, ring, doorbell, irq, word>>
    BY <1>1 DEF queueVars, deviceVars, irqVars
  <1>6. seen = issued
    BY <1>3, Numbers DEF Undrained, QueueInv, RingInv
  <1>7. RingInv' /\ StatusInv' /\ GuestInv' /\ FaultInv' /\ ArmedInv'
    BY <1>1, <1>5
       DEF QueueInv, RingInv, StatusInv, GuestInv, FaultInv, ArmedInv, Undrained
  <1>8. OneOut' /\ IdleInv'
    BY <1>1, <1>3, <1>4, <1>5, <1>6 DEF OneOut, IdleInv, Undrained
  <1>9. ShapeInv' /\ AnnounceInv'
    BY <1>1, <1>4, <1>5, Typed
       DEF QueueInv, ShapeInv, AnnounceInv, UsedPending, Waited
  <1>10. FlightInv'
    <2>1. \A p \in Owners : turn'[p] = "idle" /\ where'[p] = p
      BY <1>1, <1>4 DEF QueueInv, FlightInv, Stage
    <2> QED BY <2>1 DEF FlightInv, Stage
  <1>11. RightAnswer'
    BY <1>1, <1>4, <1>5 DEF QueueInv, RightAnswer
  <1> QED BY <1>7, <1>8, <1>9, <1>10, <1>11 DEF Core

(***************************************************************************)
(* The invariant, and what it implies.                                     *)
(***************************************************************************)

(* The invariant holds at boot ...                                           *)
LEMMA QueueInvInit == ASSUME Init PROVE QueueInv
  <1>1. None \notin Owners /\ Driver \in Owners /\ Driver \notin Callers
    BY BlockAssumption DEF BlockAssumption, Owners
  <1>2. RingInv /\ OneOut /\ IdleInv /\ GuestInv /\ FaultInv
    BY DEF Init, RingInv, OneOut, IdleInv, GuestInv, FaultInv, Undrained
  <1>3. ShapeInv
    BY <1>1 DEF Init, ShapeInv, Owners
  <1>4. FlightInv
    BY DEF Init, FlightInv, Stage
  <1>5. StatusInv
    BY DEF Init, StatusInv, Undrained
  <1>6. RightAnswer
    BY DEF Init, RightAnswer
  <1>7. AnnounceInv /\ ArmedInv
    BY DEF Init, Injected, AnnounceInv, ArmedInv, UsedPending
  <1> QED BY <1>2, <1>3, <1>4, <1>5, <1>6, <1>7, TypeInit DEF QueueInv

(* ... after every step ...                                                  *)
LEMMA QueueInvStep ==
    ASSUME QueueInv, OneInFlight, [Next]_vars PROVE QueueInv'
  <1>1. TypeOK'
    BY TypeStep DEF QueueInv
  <1>2. ASSUME NEW o \in Owners, Submit(o) PROVE Core'
    BY <1>2, SubmitKeeps
  <1>3. ASSUME NEW c \in Callers, Await(c) \/ Resume(c) PROVE Core'
    BY <1>3, AwaitKeeps, ResumeKeeps
  <1>4. ASSUME UNCHANGED vars PROVE Core'
    <2>1. Calm /\ UNCHANGED <<shape, guest, fault, turn, slot, book, issued, used,
                              word, irq, armed>>
      BY <1>4 DEF vars, Calm, guestVars, queueVars, deviceVars, irqVars
    <2>2. RingInv' /\ OneOut' /\ IdleInv' /\ StatusInv' /\ RightAnswer' /\ FlightInv'
      BY <2>1, CalmRing, CalmAnswers, CalmFlight
    <2>3. GuestInv'
      BY <1>4 DEF vars, guestVars, deviceVars, queueVars, QueueInv, GuestInv
    <2>4. ShapeInv' /\ FaultInv' /\ AnnounceInv' /\ ArmedInv'
      BY <2>1 DEF QueueInv, ShapeInv, FaultInv, AnnounceInv, ArmedInv, UsedPending, Waited
    <2> QED BY <2>2, <2>3, <2>4 DEF Core
  <1>5. Core'
    BY <1>2, <1>3, <1>4, ExitKeeps, IdleParks, IdleAborts, CheckpointKeeps,
       DrainParkKeeps, DrainEmptyKeeps, DrainKeeps, ClaimKeeps, RecoverKeeps, ResetKeeps, ReclaimKeeps
       DEF Next, Interrupts, Drain
  <1> QED BY <1>1, <1>5 DEF Core, QueueInv

(* ... and implies the properties of the run.                                *)
LEMMA QueueInvImplies ==
    ASSUME QueueInv, OneInFlight
    PROVE  /\ NotShared /\ RightAnswer /\ NoDriverFault /\ NothingUnannounced
           /\ ~Groups => NoFalseDeadlock
  <1>1. Pending > 0 => seen # issued
    BY PendingIs, Numbers
  <1>2. NotShared
    BY <1>1, SomebodyOut DEF NotShared, Out
  <1>3. NothingUnannounced
    BY <1>1 DEF NothingUnannounced, QueueInv, RingInv, AnnounceInv
  <1>4. NoDriverFault /\ (~Groups => NoFalseDeadlock)
    BY DEF QueueInv, FaultInv, NoDriverFault, NoFalseDeadlock, None
  <1> QED BY <1>2, <1>3, <1>4 DEF QueueInv

(* While one request is out at a time, slot record, chain, rings and turns   *)
(* always agree on whose request it is and how far it is.                    *)
THEOREM QueueInvariant == ASSUME OneInFlight PROVE Spec => []QueueInv
  <1>1. Init => QueueInv
    BY QueueInvInit
  <1>2. QueueInv /\ [Next]_vars => QueueInv'
    BY QueueInvStep
  <1> QED BY <1>1, <1>2, PTL DEF Spec

(***************************************************************************)
(* The properties, for every number of callers and every bound.            *)
(***************************************************************************)

(* No buffer the device has yet to read or write is in its owner's hands     *)
(* (drain, recover, reclaim and quiesce against execute_available).          *)
THEOREM BuffersNotShared == ASSUME OneInFlight PROVE Spec => []NotShared
  BY QueueInvariant, QueueInvImplies, PTL

(* Whoever is answered has its own buffer back, with the status the device   *)
(* gave to that request (drain's stash, await, claim, recover).              *)
THEOREM AnswersRight == ASSUME OneInFlight PROVE Spec => []RightAnswer
  BY QueueInvariant, QueueInvImplies, PTL

(* Legal calls in any order end in no driver fault (the checks of drain,     *)
(* claim and recover).                                                       *)
THEOREM DriversFaultless == ASSUME OneInFlight PROVE Spec => []NoDriverFault
  BY QueueInvariant, QueueInvImplies, PTL

(* No doorbell and no completion interrupt is lost between the device's      *)
(* commit_completions and the handler.                                       *)
THEOREM RequestsAnnounced == ASSUME OneInFlight PROVE Spec => []NothingUnannounced
  BY QueueInvariant, QueueInvImplies, PTL

(* In an image that declares no group the executor never takes an            *)
(* outstanding request for a deadlock (__wrela_rt_primary_entry): the drain  *)
(* that the injected interrupt starts armed a deadline, and nothing clears   *)
(* it.  With a group __wrela_deadline_poll does, and the statement is false. *)
THEOREM NotTakenForDeadlock ==
    ASSUME OneInFlight, ~Groups PROVE Spec => []NoFalseDeadlock
  BY QueueInvariant, QueueInvImplies, PTL

(***************************************************************************)
(* The queue implements LentBuffers: where a buffer is follows from its    *)
(* turn and from how far the device is.                                    *)
(***************************************************************************)
PlaceByTurn == [b \in Owners |-> IF turn[b] = "idle" THEN "owner"
                                 ELSE IF seen = issued THEN "finished" ELSE "lent"]

(* Where LentBuffers has a buffer, told by its owner's turn.                 *)
LEMMA PlaceIs == QueueInv => Place = PlaceByTurn
  <1> SUFFICES ASSUME QueueInv, NEW b \in Owners
               PROVE  Place[b] = PlaceByTurn[b]
    BY DEF Place, PlaceByTurn
  <1>1. (turn[b] # "idle" => Out(b)) /\ Stage(b)
    BY DEF QueueInv, FlightInv
  <1>2. CASE turn[b] = "idle"
    BY <1>1, <1>2 DEF Stage, Place, PlaceByTurn
  <1>3. CASE turn[b] # "idle"
    <2>1. where[b] # b /\ req[b] = issued /\ issued > 0
      BY <1>1, <1>3, Typed DEF Out
    <2>2. seen = issued => Done(b)
      BY <2>1 DEF Done, QueueInv, StatusInv
    <2>3. Done(b) => seen = issued
      <3>1. SUFFICES ASSUME Done(b) PROVE seen = issued
        OBVIOUS
      <3>2. PICK s \in {"ok", "error"} : <<issued, s>> \in executed
        BY <2>1, <3>1 DEF Done
      <3>3. <<issued, s>>[1] \in 1 .. seen
        BY <3>2 DEF QueueInv, StatusInv
      <3>4. seen \in Nat /\ issued \in Nat /\ seen <= issued
        BY TypeParts DEF QueueInv, QueueType, DeviceType, RingInv
      <3> QED BY <3>3, <3>4
    <2> QED BY <1>3, <2>1, <2>2, <2>3 DEF Place, PlaceByTurn
  <1> QED BY <1>2, <1>3

\* Whose request can be out, before and after a step.
LEMMA LentStep ==
    ASSUME Place = PlaceByTurn, Place' = PlaceByTurn',
           NEW o \in Owners,
           \A p \in Owners : p # o => turn[p] = "idle" /\ turn'[p] = "idle",
           \/ turn[o] = "idle" /\ turn'[o] # "idle" /\ seen' # issued'
           \/ turn[o] # "idle" /\ turn'[o] = "idle" /\ seen = issued
           \/ turn[o] = "idle" /\ turn'[o] = "idle"
           \/ turn[o] # "idle" /\ turn'[o] # "idle" /\ issued' = issued
              /\ seen' \in {seen, issued}
    PROVE  [Lent!Next]_Place
  <1>1. \A p \in Owners : p # o => Place'[p] = "owner" /\ Place[p] = "owner"
    BY DEF PlaceByTurn
  <1>2. Place' = [Place EXCEPT ![o] = Place'[o]]
    BY <1>1 DEF PlaceByTurn
  <1>3. \/ Place[o] = "owner" /\ Place'[o] = "lent"
        \/ Place[o] = "finished" /\ Place'[o] = "owner"
        \/ Place[o] = "lent" /\ Place'[o] = "finished"
        \/ Place'[o] = Place[o]
    BY DEF PlaceByTurn
  <1>4. Place'[o] = Place[o] => Place' = Place
    BY <1>2 DEF PlaceByTurn
  <1> QED BY <1>2, <1>3, <1>4 DEF Lent!Next, Lent!Lend, Lent!Finish, Lent!Return, Lent!Move

(* At most one turn has a request out.                                       *)
LEMMA SomebodyAtMost ==
    ASSUME QueueInv PROVE \E o \in Owners : \A p \in Owners : p # o => turn[p] = "idle"
  BY Typed DEF QueueInv, OneOut

\* A step that starts no request and ends none.
LEMMA SameOut ==
    ASSUME QueueInv, Place = PlaceByTurn, Place' = PlaceByTurn',
           \A p \in Owners : turn'[p] = "idle" <=> turn[p] = "idle",
           issued' = issued, seen' \in {seen, issued}
    PROVE  [Lent!Next]_Place
  <1>1. PICK o \in Owners : \A p \in Owners : p # o => turn[p] = "idle"
    BY SomebodyAtMost
  <1> QED BY <1>1, LentStep

(* Every step of the queue lends, finishes or returns one buffer, or none.   *)
LEMMA PlaceStep ==
    ASSUME QueueInv, OneInFlight, [Next]_vars, Place = PlaceByTurn, Place' = PlaceByTurn'
    PROVE  [Lent!Next]_Place
  <1>1. CASE Exit \/ Idle \/ DrainPark \/ Reset
    <2>1. /\ UNCHANGED <<turn, issued>>
          /\ Exit \/ DrainPark \/ Reset => Service \/ ParkExit \/ Quiesce
      BY <1>1 DEF Exit, Idle, DrainPark, PollPark, Reset, guestVars, queueVars
    <2>2. Idle => ParkExit \/ seen' = seen
      BY DEF Idle
    <2>3. seen' \in {seen, issued}
      BY <1>1, <2>1, <2>2, ServiceStep
    <2> QED BY <2>1, <2>3, SameOut
  <1>2. CASE Checkpoint \/ CheckpointEnd \/ BottomHalf \/ DrainEmpty \/ UNCHANGED vars
    <2>1. UNCHANGED <<turn, issued, seen>>
      BY <1>2 DEF Checkpoint, CheckpointEnd, BottomHalf, DrainEmpty, vars, guestVars,
                  queueVars, deviceVars
    <2> QED BY <2>1, SameOut
  <1>3. CASE DrainEntry \/ DrainAgain
    <2>1. TakeEntry /\ UNCHANGED <<issued, seen>>
      BY <1>3, TakeFacts DEF DrainEntry, DrainAgain, Consume, deviceVars
    <2>2. PICK o \in Owners :
             /\ turn[o] \in {"held", "waiting"}
             /\ slot.waiter = IF turn[o] = "waiting" THEN o ELSE None
      BY <1>3, TakeFacts
    <2>3. \A p \in Owners : turn'[p] = "idle" <=> turn[p] = "idle"
      BY <2>1, <2>2, Typed DEF TakeEntry, WakeWaiter
    <2> QED BY <2>1, <2>3, SameOut
  <1>4. CASE Recover
    <2>1. \A p \in Owners : turn'[p] = "idle" <=> turn[p] = "idle"
      BY <1>4, Typed DEF Recover, Abort
    <2> QED BY <1>4, <2>1, SameOut DEF Recover, deviceVars
  <1>5. CASE Claim
    <2>1. /\ turn[Driver] = "held" /\ Stage(Driver)
          /\ \A p \in Owners : p # Driver => turn[p] = "idle"
      BY <1>5, Typed DEF Claim, QueueInv, ShapeInv, FlightInv, OneOut
    <2>2. seen = issued /\ "resolved" \in slot.flags
      BY <1>5, <2>1, Numbers DEF Claim, Stage, Undrained, QueueInv, RingInv, Resolved
    <2>3. turn' = [turn EXCEPT ![Driver] = "idle"]
      BY <1>5, <2>2 DEF Claim
    <2>4. /\ turn'[Driver] = "idle"
          /\ \A p \in Owners : p # Driver => turn'[p] = "idle"
      BY <2>1, <2>3, Typed
    <2> QED BY <2>1, <2>2, <2>4, LentStep, Typed
  <1>6. CASE Reclaim
    <2>1. /\ turn[Driver] = "quarantined" /\ Stage(Driver)
          /\ UNCHANGED <<issued, seen>>
          /\ \A p \in Owners : p # Driver => turn[p] = "idle"
      BY <1>6, Typed DEF Reclaim, QueueInv, FlightInv, OneOut, deviceVars
    <2>2. CASE ReclaimGate
      <3>1. seen = issued
        BY <2>1, <2>2 DEF Stage, ReclaimGate
      <3>2. /\ turn'[Driver] = "idle"
            /\ \A p \in Owners : p # Driver => turn'[p] = "idle"
        BY <1>6, <2>1, <2>2, Typed DEF Reclaim
      <3> QED BY <2>1, <3>1, <3>2, LentStep, Typed
    <2>3. CASE ~ReclaimGate
      BY <1>6, <2>1, <2>3, SameOut DEF Reclaim
    <2> QED BY <2>2, <2>3
  <1>7. ASSUME NEW o \in Owners, Submit(o) PROVE [Lent!Next]_Place
    <2>1. /\ \A p \in Owners : turn[p] = "idle"
          /\ seen = issued /\ issued' = issued + 1 /\ issued \in Nat
      BY <1>7, SubmitFacts, Numbers
    <2>2. turn' = [turn EXCEPT ![o] = "held"] /\ seen' = seen
      BY <1>7 DEF Submit
    <2>3. /\ turn'[o] = "held" /\ seen' # issued'
          /\ \A p \in Owners : p # o => turn'[p] = "idle"
      BY <2>1, <2>2, Typed
    <2> QED BY <2>1, <2>3, LentStep
  <1>8. ASSUME NEW c \in Callers, Await(c) PROVE [Lent!Next]_Place
    <2>1. /\ c \in Owners /\ turn[c] = "held" /\ Stage(c) /\ UNCHANGED <<issued, seen>>
          /\ \A p \in Owners : p # c => turn[p] = "idle"
      BY <1>8, Typed DEF Await, QueueInv, FlightInv, OneOut, deviceVars
    <2>2. CASE "resolved" \in slot.flags
      <3>1. seen = issued
        BY <2>1, <2>2, Numbers DEF Stage, InFlight, Undrained, QueueInv, RingInv
      <3>2. /\ turn'[c] = "idle"
            /\ \A p \in Owners : p # c => turn'[p] = "idle"
        BY <1>8, <2>1, <2>2, Typed DEF Await
      <3> QED BY <2>1, <3>1, <3>2, LentStep
    <2>3. CASE "resolved" \notin slot.flags
      <3>1. turn' = [turn EXCEPT ![c] = "waiting"]
        BY <1>8, <2>3 DEF Await
      <3>2. \A p \in Owners : turn'[p] = "idle" <=> turn[p] = "idle"
        BY <2>1, <3>1, Typed
      <3> QED BY <2>1, <3>2, SameOut
    <2> QED BY <2>2, <2>3
  <1>9. ASSUME NEW c \in Callers, Resume(c) PROVE [Lent!Next]_Place
    <2>1. /\ c \in Owners /\ turn[c] = "ready" /\ Stage(c)
          /\ turn' = [turn EXCEPT ![c] = "idle"]
          /\ \A p \in Owners : p # c => turn[p] = "idle"
      BY <1>9, Typed DEF Resume, QueueInv, FlightInv, OneOut
    <2>2. seen = issued
      BY <2>1, Numbers DEF Stage, Undrained, QueueInv, RingInv
    <2>3. turn'[c] = "idle" /\ \A p \in Owners : p # c => turn'[p] = "idle"
      BY <2>1, Typed
    <2> QED BY <2>1, <2>2, <2>3, LentStep
  <1> QED BY <1>1, <1>2, <1>3, <1>4, <1>5, <1>6, <1>7, <1>8, <1>9
          DEF Next, Interrupts, Drain

(* The queue implements the safety half of LentBuffers: a buffer goes to the *)
(* device, is finished with, and returns, in that order and once.            *)
THEOREM QueueImplementsLent ==
    ASSUME OneInFlight PROVE Spec => Lent!Init /\ [][Lent!Next]_Place
  <1>1. Init => Lent!Init
    BY DEF Init, Lent!Init, Place
  <1>2. QueueInv => Place = PlaceByTurn
    BY PlaceIs
  <1>3. QueueInv /\ [Next]_vars /\ Place = PlaceByTurn /\ (Place = PlaceByTurn)'
          => [Lent!Next]_Place
    BY PlaceStep
  <1> QED BY <1>1, <1>2, <1>3, QueueInvariant, PTL DEF Spec
=============================================================================
