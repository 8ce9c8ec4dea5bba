------------------------------ MODULE BlockQueue ------------------------------
(***************************************************************************)
(* The virtio-blk queue of a single-core image, end to end: the code the   *)
(* compiler emits for prepare, publish, drain, claim, recover, reclaim,    *)
(* reset and `await receipt`, the checkpoint that runs the interrupt       *)
(* handler and the driver's bottom half, the executor that parks or aborts *)
(* when nothing can run, and the VMM's device, which only acts when core 0 *)
(* exits to the host.                                                      *)
(*                                                                         *)
(* Two shapes of driver use the queue.  "own": the driver keeps its one    *)
(* receipt, and its bottom half claims or recovers it (drivers/blk.wr).    *)
(* "handoff": callers lend a buffer, await the receipt, and the bottom     *)
(* half only drains (tests/golden/boot-receipt-handoff).  The queue has    *)
(* one slot record, whatever its depth: all published chains have head 0.  *)
(* A buffer is named by its owner; a request by its number (history).      *)
(***************************************************************************)
EXTENDS Naturals, FiniteSets

CONSTANTS
    Callers,           \* turns that hand a buffer to a "handoff" driver
    Driver,            \* the driver that keeps its own receipt
    Shapes,            \* the shapes of driver to check
    Depth,             \* VirtQueue[..N]
    IdxMod,            \* 2^16: the width of the rings' index words
    MaxInFlight,       \* requests that callers have outstanding at a time
    MaxRequests,       \* bound on the requests of a behaviour
    MaxResets,         \* bound on the resets of a behaviour
    ReuseAfterReset,   \* does the driver publish after an undrained reset?
    Groups             \* does the image declare a group (GROUP_ARENA_CAPACITY)?

Owners == Callers \cup {Driver}
None == "none"
NoAnswer == [payload |-> None, status |-> None, req |-> 0]

ASSUME BlockAssumption ==
    /\ IsFiniteSet(Callers) /\ Driver \notin Callers /\ None \notin Owners
    /\ Shapes \subseteq {"own", "handoff"}
    /\ Depth \in Nat \ {0} /\ IdxMod \in Nat \ {0} /\ IdxMod % Depth = 0
    \* What the reservation proof admits: three descriptors each.
    /\ MaxInFlight \in Nat /\ 3 * MaxInFlight <= Depth
    /\ MaxRequests \in Nat /\ MaxResets \in Nat
    /\ ReuseAfterReset \in BOOLEAN /\ Groups \in BOOLEAN

VARIABLES
    shape,     \* the driver's shape
    guest,     \* what core 0 executes
    fault,     \* why the guest aborted
    turn,      \* per owner: its turn, or what the driver's receipt is in
    req,       \* per owner: the number of its last request (history)
    where,     \* per buffer: the owner that has it, or None while it is lent
    answer,    \* per owner: what its last request was answered (history)
    slot,      \* the slot record behind the rings
    status,    \* the status byte of the slot
    stash,     \* the completion the drain leaves behind the slot
    book,      \* last used index, reset epoch, quiesced count, stamp
    desc,      \* the chain in descriptors 0 to 2
    avail,     \* avail.idx
    used,      \* used.idx
    ring,      \* used.ring
    doorbell,  \* the doorbell word
    seen,      \* the device's last_avail_idx
    executed,  \* <<request, status>> pairs the device executed (history)
    word,      \* core 0's pending word: "deadline" (bit 0) and "vq"
    irq,       \* interrupt_status, the driver's cell, its wake word
    armed,     \* MACHINE_INFO.next_deadline # 0
    issued,    \* requests so far
    resets     \* resets so far

guestVars == <<guest, fault, turn, req, where, answer>>
queueVars == <<slot, stash, book, desc, avail, issued, resets>>
deviceVars == <<status, used, ring, doorbell, seen, executed>>
irqVars == <<word, irq>>
vars == <<shape, guestVars, queueVars, deviceVars, irqVars, armed>>

(***************************************************************************)
(* Boot.  The VMM sets the interrupt status and raises the vector of every *)
(* bound device once (IrqHostInject), so the first checkpoint runs the     *)
(* bottom half although no request was ever published.                     *)
(***************************************************************************)
Injected == /\ word = {"vq"}
            /\ irq = [status |-> TRUE, cell |-> FALSE, wake |-> FALSE]

Init ==
    /\ shape \in Shapes
    /\ guest = "boot" /\ fault = None
    /\ turn = [o \in Owners |-> "idle"]
    /\ req = [o \in Owners |-> 0]
    /\ where = [o \in Owners |-> o]
    /\ answer = [o \in Owners |-> NoAnswer]
    /\ slot = [flags |-> {}, payload |-> None, epoch |-> 0, waiter |-> None,
               req |-> 0]
    /\ stash = NoAnswer
    /\ book = [last |-> 0, epoch |-> 0, quiesced |-> 0, stamp |-> 0]
    /\ desc = [payload |-> None, reads |-> FALSE, good |-> TRUE, req |-> 0]
    /\ avail = 0 /\ used = 0 /\ seen = 0
    /\ ring = [i \in 0 .. Depth - 1 |-> "bare"]
    /\ doorbell = FALSE /\ status = "unset" /\ executed = {}
    /\ Injected /\ armed = FALSE
    /\ issued = 0 /\ resets = 0

(***************************************************************************)
(* The device.  `execute_available` runs every chain between its index and *)
(* avail.idx; a chain's head is always 0, so each reads the descriptors as *)
(* they are now.  A read that succeeds reports its data's length, anything *)
(* else the status byte only.                                              *)
(***************************************************************************)
Pending == (avail + IdxMod - seen) % IdxMod

Entry == IF desc.reads /\ desc.good THEN "data" ELSE "bare"

Outcome == IF desc.good THEN "ok" ELSE "error"

Committed == [i \in 0 .. Depth - 1 |->
                 IF \E k \in 0 .. Pending - 1 : (used + k) % Depth = i
                 THEN Entry ELSE ring[i]]

ExecuteAvailable ==
    /\ seen' = avail
    /\ status' = IF Pending > 0 THEN Outcome ELSE status
    /\ executed' = IF Pending > 0 THEN executed \cup {<<desc.req, Outcome>>}
                                  ELSE executed
    /\ ring' = Committed
    /\ used' = (used + Pending) % IdxMod

\* (Slip: the interrupt status is set, the vector is not raised.)
RaiseNothing == /\ word' = word
                /\ irq' = [irq EXCEPT !.status = TRUE]

\* commit_completions: the interrupt follows the used entries.
RaiseVector == /\ word' = word \cup {"vq"}
               /\ irq' = [irq EXCEPT !.status = TRUE]

\* service_blk: at every entry of core 0's run loop, and at its parks.
Service ==
    /\ doorbell' = FALSE
    /\ IF doorbell
       THEN /\ ExecuteAvailable
            /\ IF Pending > 0 THEN RaiseVector ELSE UNCHANGED irqVars
       ELSE UNCHANGED <<seen, status, executed, ring, used, irqVars>>

\* A park: the service, and if nothing happened a sleep to the deadline.
ParkExit ==
    /\ doorbell' = FALSE
    /\ IF doorbell /\ Pending > 0
       THEN ExecuteAvailable /\ RaiseVector
       ELSE /\ UNCHANGED <<seen, status, executed, ring, used, irq>>
            /\ word' = IF word = {} THEN {"deadline"} ELSE word

\* Any other exit to the host (a clock read, console output, the watchdog's
\* kick that misses): the device is serviced before core 0 enters again.
Exit ==
    /\ guest \in {"boot", "run", "wakes", "drained"} /\ Service
    /\ UNCHANGED <<shape, guestVars, queueVars, armed>>

(***************************************************************************)
(* Publishing.  `reserve` is lowered to a constant: it never refuses.      *)
(* `prepare` writes the slot record and its status byte, `publish` the     *)
(* three descriptors, avail.ring, avail.idx and the doorbell word; none of *)
(* them exits to the host.                                                 *)
(***************************************************************************)
Outstanding == {o \in Owners : turn[o] # "idle"}

Prepare(o, reads) ==
    /\ slot' = [flags |-> {"inflight"} \cup (IF reads THEN {"writes"} ELSE {}),
                payload |-> o, epoch |-> book.epoch, waiter |-> None,
                req |-> issued + 1]
    /\ status' = "unset"

Publish(o, reads, good) ==
    /\ desc' = [payload |-> o, reads |-> reads, good |-> good,
                req |-> issued + 1]
    /\ avail' = (avail + 1) % IdxMod
    /\ doorbell' = TRUE

\* A driver of its own receipt publishes from its init, from a bottom half
\* that has claimed, or from a handler; callers publish through a handler.
MayPublish(o) ==
    /\ issued < MaxRequests
    /\ turn[o] = "idle" /\ where[o] = o
    /\ \/ /\ shape = "own" /\ o = Driver
          /\ guest \in {"boot", "run", "wakes"} /\ (guest = "wakes" => ~irq.wake)
          /\ ReuseAfterReset \/ used = book.last
       \/ /\ shape = "handoff" /\ o \in Callers /\ guest = "run"
          /\ Cardinality(Outstanding) < MaxInFlight

Submit(o) ==
    /\ MayPublish(o)
    /\ \E reads, good \in BOOLEAN : Prepare(o, reads) /\ Publish(o, reads, good)
    /\ turn' = [turn EXCEPT ![o] = "held"]
    /\ where' = [where EXCEPT ![o] = None]
    /\ req' = [req EXCEPT ![o] = issued + 1]
    /\ issued' = issued + 1
    /\ UNCHANGED <<shape, guest, fault, answer, stash, book, used, ring, seen,
                   executed, irqVars, armed, resets>>

(***************************************************************************)
(* `await receipt`: name the waiter in the slot, then look whether it is   *)
(* resolved already.                                                       *)
(***************************************************************************)
Answered(o) ==
    /\ answer' = [answer EXCEPT ![o] = stash]
    /\ where' = [where EXCEPT ![stash.payload] = o]

Await(c) ==
    /\ guest = "run" /\ shape = "handoff" /\ turn[c] = "held"
    /\ slot' = [slot EXCEPT !.waiter = c]
    /\ IF "resolved" \in slot.flags
       THEN turn' = [turn EXCEPT ![c] = "idle"] /\ Answered(c)
       ELSE turn' = [turn EXCEPT ![c] = "waiting"] /\ UNCHANGED <<answer, where>>
    /\ UNCHANGED <<shape, guest, fault, req, stash, book, desc, avail, issued,
                   resets, deviceVars, irqVars, armed>>

\* The drain staged the completion in the turn: the turn runs on with it.
Resume(c) ==
    /\ guest = "run" /\ turn[c] = "ready"
    /\ turn' = [turn EXCEPT ![c] = "idle"]
    /\ where' = [where EXCEPT ![answer[c].payload] = c]
    /\ UNCHANGED <<shape, guest, fault, req, answer, queueVars, deviceVars,
                   irqVars, armed>>

(***************************************************************************)
(* The checkpoint of core 0: take the word, run the interrupt handler,     *)
(* then the woken bottom halves, until there is nothing left.              *)
(***************************************************************************)
Checkpoint ==
    /\ guest \in {"boot", "run", "wakes"} /\ (guest = "wakes" => ~irq.wake)
    /\ word # {}
    /\ guest' = "wakes" /\ word' = {}
    /\ irq' = IF "vq" \in word /\ irq.status
              THEN [status |-> FALSE, cell |-> TRUE, wake |-> TRUE] ELSE irq
    /\ UNCHANGED <<shape, fault, turn, req, where, answer, queueVars,
                   deviceVars, armed>>

CheckpointEnd ==
    /\ guest = "wakes" /\ ~irq.wake /\ word = {}
    /\ guest' = "run"
    /\ UNCHANGED <<shape, fault, turn, req, where, answer, queueVars,
                   deviceVars, irqVars, armed>>

\* A driver that holds no receipt of its own has nothing to drain.
BottomHalf ==
    /\ guest = "wakes" /\ irq.wake
    /\ irq' = [irq EXCEPT !.wake = FALSE, !.cell = FALSE]
    /\ guest' = IF irq.cell /\ (shape = "handoff" \/ turn[Driver] = "held")
                THEN "drain" ELSE "wakes"
    /\ UNCHANGED <<shape, fault, turn, req, where, answer, queueVars,
                   deviceVars, word, armed>>

(***************************************************************************)
(* queue.drain: takes one used entry, or parks once for one and looks      *)
(* again.  The drain's index is a 64-bit word, used.idx a 16-bit one.      *)
(***************************************************************************)
Drained == IF shape = "own" THEN "drained" ELSE "wakes"

UsedPending == used # book.last

CompletionFault ==
    CASE slot.epoch # book.epoch -> "stale"
      [] slot.epoch = book.epoch /\ "inflight" \notin slot.flags -> "duplicate"
      [] slot.epoch = book.epoch /\ "inflight" \in slot.flags
         /\ ring[book.last % Depth] = "data" /\ "writes" \notin slot.flags
         -> "length"
      [] OTHER -> None

\* (Slip: the status byte is not looked at.)
StashedOk == [payload |-> slot.payload, status |-> "ok", req |-> slot.req]

Stashed == [payload |-> slot.payload,
            status |-> IF status = "ok" THEN "ok" ELSE "error",
            req |-> slot.req]

\* (Slip: the completion is staged, the turn is not made ready.)
StageOnly ==
    IF slot.waiter = None
    THEN UNCHANGED <<answer, turn>>
    ELSE answer' = [answer EXCEPT ![slot.waiter] = Stashed] /\ UNCHANGED turn

\* The completion is copied into the waiter's turn, which becomes ready.
WakeWaiter ==
    IF slot.waiter = None
    THEN UNCHANGED <<answer, turn>>
    ELSE /\ answer' = [answer EXCEPT ![slot.waiter] = Stashed]
         /\ turn' = [turn EXCEPT ![slot.waiter] = "ready"]

\* (Slip: the used index of the drain is not advanced.)
TakeEntryAgain ==
    /\ stash' = Stashed
    /\ slot' = [slot EXCEPT !.flags = (@ \ {"inflight"}) \cup {"resolved"},
                            !.waiter = None]
    /\ WakeWaiter
    /\ guest' = Drained /\ UNCHANGED <<book, fault>>

TakeEntry ==
    /\ stash' = Stashed
    /\ slot' = [slot EXCEPT !.flags = (@ \ {"inflight"}) \cup {"resolved"},
                            !.waiter = None]
    /\ book' = [book EXCEPT !.last = @ + 1]
    /\ WakeWaiter
    /\ guest' = Drained /\ UNCHANGED fault

Abort(why) == guest' = "dead" /\ fault' = why

Consume ==
    /\ IF CompletionFault = None
       THEN TakeEntry
       ELSE Abort(CompletionFault) /\ UNCHANGED <<stash, slot, book, answer, turn>>
    /\ UNCHANGED <<shape, req, where, desc, avail, issued, resets, deviceVars,
                   irqVars, armed>>

DrainEntry == guest = "drain" /\ UsedPending /\ Consume

\* (Slip: the park is given its deadline, MACHINE_INFO is not.)
PollParkBare == armed' = armed /\ ParkExit

\* doorbell_poll_park: the deadline it stores stays in MACHINE_INFO until an
\* executor that has groups polls their deadlines.
PollPark == armed' = TRUE /\ ParkExit

DrainPark ==
    /\ guest = "drain" /\ ~UsedPending
    /\ guest' = "polled"
    /\ PollPark
    /\ UNCHANGED <<shape, fault, turn, req, where, answer, queueVars>>

DrainAgain == guest = "polled" /\ UsedPending /\ Consume

DrainEmpty ==
    /\ guest = "polled" /\ ~UsedPending
    /\ guest' = Drained
    /\ UNCHANGED <<shape, fault, turn, req, where, answer, queueVars,
                   deviceVars, irqVars, armed>>

(***************************************************************************)
(* The driver's own receipt: claimed or recovered by the bottom half after *)
(* its drain, or recovered by another handler that gives up on it.         *)
(***************************************************************************)
Claim ==
    /\ guest = "drained"
    /\ IF "resolved" \in slot.flags
       THEN /\ slot' = [slot EXCEPT !.flags = @ \ {"resolved"}]
            /\ turn' = [turn EXCEPT ![Driver] = "idle"]
            /\ Answered(Driver)
            /\ guest' = "wakes" /\ UNCHANGED fault
       ELSE Abort("claim") /\ UNCHANGED <<slot, turn, answer, where>>
    /\ UNCHANGED <<shape, req, stash, book, desc, avail, issued, resets,
                   deviceVars, irqVars, armed>>

\* A reset's epoch or a request still in flight leave the outcome unknown;
\* otherwise the status byte tells whether the request was completed.
Unknown == slot.epoch # book.epoch \/ "inflight" \in slot.flags

Recovered == [payload |-> slot.payload, req |-> slot.req,
              status |-> IF Unknown THEN "unknown"
                         ELSE IF status = "ok" THEN "ok" ELSE "error"]

\* (Slip: one quiesce is not enough.)
StampNext == book.quiesced + 1

\* Reclaim is to wait for a quiesce after this one.
Stamp == book.quiesced

Recover ==
    /\ guest \in {"drained", "run"} /\ turn[Driver] = "held"
    /\ IF Unknown \/ "resolved" \in slot.flags
       THEN /\ answer' = [answer EXCEPT ![Driver] = Recovered]
            /\ slot' = [slot EXCEPT !.flags =
                           (@ \ {"inflight", "resolved"}) \cup {"quarantined"}]
            /\ book' = [book EXCEPT !.stamp = Stamp]
            /\ turn' = [turn EXCEPT ![Driver] = "quarantined"]
            /\ guest' = (IF guest = "run" THEN "run" ELSE "wakes")
            /\ UNCHANGED fault
       ELSE Abort("recover") /\ UNCHANGED <<answer, slot, book, turn>>
    /\ UNCHANGED <<shape, req, where, stash, desc, avail, issued, resets,
                   deviceVars, irqVars, armed>>

\* device.reset: the quiesce doorbell exits to the VMM, which executes what
\* is outstanding, commits it, raises the vector and counts; the guest then
\* opens a new epoch.  The rings and the drain's index stay as they are.
Quiesce ==
    /\ doorbell' = FALSE /\ ExecuteAvailable
    /\ IF Pending > 0 THEN RaiseVector ELSE UNCHANGED irqVars
    /\ book' = [book EXCEPT !.quiesced = @ + 1, !.epoch = @ + 1]

Reset ==
    /\ shape = "own" /\ resets < MaxResets
    /\ \/ guest = "drained"
       \/ guest = "run" /\ turn[Driver] = "quarantined"
    /\ Quiesce
    /\ resets' = resets + 1
    /\ UNCHANGED <<shape, guestVars, slot, stash, desc, avail, issued, armed>>

\* (Slip: reclaim does not wait for a quiesce.)
ReclaimAnyTime == TRUE

ReclaimGate == book.quiesced # book.stamp

\* Reclaim hands the quarantined buffer back, or aborts before a quiesce.
Reclaim ==
    /\ guest = "run" /\ turn[Driver] = "quarantined"
    /\ IF ReclaimGate
       THEN /\ where' = [where EXCEPT ![slot.payload] = Driver]
            /\ slot' = [slot EXCEPT !.flags = @ \ {"quarantined"}, !.payload = None]
            /\ turn' = [turn EXCEPT ![Driver] = "idle"]
            /\ UNCHANGED <<guest, fault>>
       ELSE Abort("early") /\ UNCHANGED <<where, slot, turn>>
    /\ UNCHANGED <<shape, req, answer, stash, book, desc, avail, issued, resets,
                   deviceVars, irqVars, armed>>

(***************************************************************************)
(* The executor of a test that awaits a caller: nothing is runnable and no *)
(* word is raised.  With a deadline in MACHINE_INFO it parks, without one  *)
(* it aborts as deadlocked.  Where the image declares a group, each pass   *)
(* first replaces that deadline by the earliest of the live groups, zero   *)
(* if there is none; the groups themselves are not modelled here.          *)
(***************************************************************************)
DeadlinePoll == armed' \in (IF Groups THEN BOOLEAN ELSE {armed})

Idle ==
    /\ guest = "run" /\ word = {} /\ shape = "handoff"
    /\ \E c \in Callers : turn[c] = "waiting"
    /\ \A c \in Callers : turn[c] \in {"idle", "waiting"}
    /\ DeadlinePoll
    /\ IF armed'
       THEN ParkExit /\ UNCHANGED <<guest, fault>>
       ELSE /\ Abort("deadlock")
            /\ UNCHANGED <<doorbell, seen, status, executed, ring, used, irqVars>>
    /\ UNCHANGED <<shape, turn, req, where, answer, queueVars>>

Drain == DrainEntry \/ DrainPark \/ DrainAgain \/ DrainEmpty

Interrupts == Checkpoint \/ CheckpointEnd \/ BottomHalf \/ Drain

Next ==
    \/ Exit \/ Idle \/ Interrupts
    \/ Claim \/ Recover \/ Reset \/ Reclaim
    \/ \E o \in Owners : Submit(o)
    \/ \E c \in Callers : Await(c) \/ Resume(c)

\* Core 0 executes its next instruction: the checkpoint at the end of every
\* turn, the bottom half it woke, a turn that is ready, the executor's park.
Fairness ==
    /\ WF_vars(Interrupts) /\ WF_vars(Idle)
    /\ \A c \in Callers : WF_vars(Await(c)) /\ WF_vars(Resume(c))

Spec == Init /\ [][Next]_vars /\ Fairness
-----------------------------------------------------------------------------
Flags == {"inflight", "resolved", "quarantined", "writes"}
Statuses == {None, "ok", "error", "unknown"}
Completions == [payload : Owners \cup {None}, status : Statuses,
                req : 0 .. MaxRequests]

\* Every word holds a value the code can store in it: ring indices within
\* their width, one completion per owner, the epoch no lower than a slot's.
TypeOK ==
    /\ shape \in Shapes
    /\ guest \in {"boot", "run", "wakes", "drain", "polled", "drained", "dead"}
    /\ fault \in {None, "stale", "duplicate", "length", "claim", "recover",
                  "early", "deadlock"}
    /\ turn \in [Owners -> {"idle", "held", "waiting", "ready", "quarantined"}]
    /\ req \in [Owners -> 0 .. MaxRequests]
    /\ where \in [Owners -> Owners \cup {None}]
    /\ answer \in [Owners -> Completions]
    /\ slot \in [flags : SUBSET Flags, payload : Owners \cup {None}, epoch : Nat,
                 waiter : Callers \cup {None}, req : 0 .. MaxRequests]
    /\ stash \in Completions
    /\ book \in [last : Nat, epoch : Nat, quiesced : Nat, stamp : Nat]
    /\ desc \in [payload : Owners \cup {None}, reads : BOOLEAN, good : BOOLEAN,
                 req : 0 .. MaxRequests]
    /\ avail \in 0 .. IdxMod - 1 /\ used \in 0 .. IdxMod - 1
    /\ seen \in 0 .. IdxMod - 1
    /\ ring \in [0 .. Depth - 1 -> {"data", "bare"}]
    /\ doorbell \in BOOLEAN /\ status \in {"unset", "ok", "error"}
    /\ executed \in SUBSET ((0 .. MaxRequests) \X {"ok", "error"})
    /\ word \in SUBSET {"deadline", "vq"}
    /\ irq \in [status : BOOLEAN, cell : BOOLEAN, wake : BOOLEAN]
    /\ armed \in BOOLEAN
    /\ issued \in 0 .. MaxRequests /\ resets \in 0 .. MaxResets
    /\ slot.epoch <= book.epoch /\ book.stamp <= book.quiesced

\* No buffer the device has yet to read or write is in its owner's hands:
\* claim, await and reclaim return it after the device executed the request
\* (drain, recover and quiesce against execute_available).
NotShared == Pending > 0 => where[desc.payload] = None

\* Whoever is answered has its own buffer back, and the status is the one
\* the device gave to that request (drain's stash, await, claim, recover).
RightAnswer ==
    \A o \in Owners : answer[o] # NoAnswer =>
        /\ answer[o].payload = o
        /\ turn[o] \in {"ready", "quarantined"} => answer[o].req = req[o]
        /\ answer[o].status # "unknown" =>
               <<answer[o].req, answer[o].status>> \in executed

\* Legal calls in any order never end in a driver fault: the drain finds no
\* stale, duplicate or overlong entry, and a claim after it is resolved.
NoDriverFault == fault \notin {"stale", "duplicate", "length", "claim", "recover"}

Waited == shape = "handoff" \/ turn[Driver] = "held"

\* A published request has its doorbell rung, and a used entry somebody
\* waits for has its interrupt raised, whenever the executor is in control.
NothingUnannounced ==
    /\ Pending > 0 => doorbell
    /\ guest \in {"boot", "run"} /\ UsedPending /\ Waited => "vq" \in word /\ irq.status

\* The executor of an image without groups never takes an outstanding request
\* for a deadlock: a driver that has been parked for once has left a deadline.
NoFalseDeadlock == fault # "deadlock"

Done(b) == \E s \in {"ok", "error"} : <<req[b], s>> \in executed

Place == [b \in Owners |-> IF where[b] = b THEN "owner"
                           ELSE IF Done(b) THEN "finished" ELSE "lent"]

Lent == INSTANCE LentBuffers WITH Buffers <- Owners, Awaited <- Callers,
                                  place <- Place

\* The queue implements LentBuffers: a buffer returns once, after the device
\* finished with it, and an awaited one always does (in an image of no group).
LentSpec == Lent!Spec
=============================================================================
