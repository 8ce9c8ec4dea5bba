# Wrela: runtime, groups, VMM scheduler, block queue and replay in TLA+

This directory is a verification development for the Wrela toolchain: TLA+
models of the parts whose correctness depends on order, timing and shared
memory, TLC configurations that check them on small instances, and TLAPS proofs
of the results that should hold for every size. Line numbers refer to files under
`src/`; `PROJECT.json` maps every definition to the lines it stands for.

## 1. Inventory

Wrela compiles an actor language to a sealed guest image and runs it in its own
virtual machine monitor. What the parts keep, do and promise:

| Part | State | Operations | Hard behaviour | What makes it correct |
|---|---|---|---|---|
| **Guest runtime** (`stdlib/core/runtime.wr`) | mailboxes, turn records (`RT.turns`), cross-core rings (`RINGS_CTL`, `RINGS_DATA`), pending and idle words (`PENDING`), select cursors, group slots | `rt_enqueue`, `rt_xsend`, `rt_xreply`, `rt_drain`, `rt_select`, `deliver_reply`, `run_one`, `child_poll`, `rt_checkpoint`, `deadline_poll/scan`, `quiesce_before_halt`, the entries of core 0 and of the others | every core is a host thread; ring words are shared without atomics; sleeping and waking by pending words | each message handled once, in order; each call answered once; nobody sleeps on work; the halt comes after the work |
| **Compiled actor code** (`wrela-compiler/src/codegen.rs`) | the frame of a turn | await (suspend, NotAdmitted, resume), send, checkpoint, cancellation test, group create/start/join/close | an await spans arbitrary steps of other turns; checkpoints service core 0's word | a cancelled frame never resumes, children end with their group |
| **Cross-core layout** (`layout.rs`, `layout/rtdata.rs`, `rtconfig.rs`) | none at run time | edges, ring capacities, drain tables, refusal of images it cannot lower | capacity must suffice for every run, and two cores change one count | no reply finds its ring full, no count drifts |
| **VMM scheduler** (`wrela-vmm/src/engine.rs`) | `Sched` (current, state, done), `Shared` (error, exit code, released) under one mutex, one condition variable | run loop, baton, park, release, exit, watchdog | threads under a lock, guest memory outside it, one wait without a timeout | no wake lost, no thread waits for nobody, every thread returns, every end has a cause |
| **Record/replay** (`record.rs`, `replay.rs`) | the `Chooser`: the log, a cursor into it, a bag of admissions, the first fault | `choose_next`, `check_frame_output`, `choose_input`, `finish`; the handlers that ask | choices of several cores in one order; a poll that is not logged; admissions matched out of order | a replay without a fault made the recorded choices, all of them, and a guest that asks the same is told the same |
| **Block device and driver** (`devices.rs`, `exit_loop.rs`, `lower_queue.rs`, `drivers/blk.wr`) | avail and used rings, descriptors, one slot record, drain index, epoch and quiesce count, interrupt status, pending and wake words | prepare, publish, drain, claim, recover, reclaim, reset, `await receipt`; service, commit, quiesce; interrupt handler and bottom half | the device acts at exits, the drain at checkpoints, the waiter in between; a reset leaves used entries behind | a buffer is lent and returned once, the answer is the device's, no interrupt is lost, nobody aborts on legal calls |
| Console, abort latch, exit (`exit_loop.rs`, `runtime.wr`) | console ring, line buffer, latch | append, commit, abort, exit | abort in the middle of a line or an abort | one diagnosis, the transcript is whole lines |
| Input (`input.rs`, `exit_loop.rs`) | lines of the transport, bounded queue, next sequence number | `poll_live`, status and event reads | a host tool appends while the guest polls; a replay has no queue | in order, bounded, the same events again |
| Display (`display.rs`, `drivers/display.wr`) | surfaces and generations | take, flip | device against guest | no torn frame |
| Lab agent (`bin/wrela-lab-agent.rs`, `xtask/src/pi.rs`) | none: each call copies files and runs a command over ssh or sftp, one after the other | upload, run | none of its own | - |
| Containers (`slotmap.wr`, `list.wr`) | slots and generations | insert, get, remove | reuse of a slot | an old key never reads a new value |
| Compiler front end, optimiser, renderer, xtask, fieldprobe, `formal/pixels` | - | tree and numeric transformations, host tools | large data, no concurrency | not a subject for TLC (the renderer's intervals have their own Lean development) |

Interaction: compiled code calls the runtime (enqueue, xsend) and is called by it
(select, child_poll); cores meet in rings and pending words in guest memory; the
guest calls the VMM through doorbell addresses (park, release, exit) and the VMM
wakes it by pending words; the block device executes published chains when core 0
is outside the guest, and raises core 0's word for their completions; every choice
of the VMM passes the `Chooser`, which logs or replays it; the watchdog reaches every thread through `done` and
vCPU cancellation.

`PROJECT.json` lists all hazards with the line where each bites and the property
that would catch it.

## 2. Modules

| Module | Models | Granularity |
|---|---|---|
| `ExactlyOnceFifo` | the promise of one edge: admitted messages are handled once, in order | abstract |
| `CrossCoreRing` | one request edge: `rt_xsend` against `rt_checkpoint`, `rt_drain`, `rt_select` and the park of the receiving core | each access to a shared word |
| `ActorCalls` | the promise about messages between actors: admitted or not, taken once and in their sender's order, answered once to the turn that called | abstract |
| `ActorRuntime` | mailboxes, turns, calls, sends, replies, rings, select, park and quiesce of all cores | one decision of one core, a ring operation included |
| `ActorRings` | `ActorRuntime` with the load and the store of a ring's `count` that every push and pop is made of | as above; a ring operation is two accesses |
| `GroupCalls` | `with group`, `g.start`, `g.join_all`, deadlines, cancellation and child turns, with the executor loop of core 0 and the reply ring into it | one step of core 0, a callee or the clock; load and store of the reply ring's count |
| `VmmSched` | `run_core` threads, `next_core`, baton, park, release, exit, watchdog | one section under the mutex; guest memory outside it |
| `LentBuffers` | the promise about a payload buffer: lent, finished with, returned once | abstract |
| `BlockQueue` | virtio-blk end to end on one core: emitted queue code, interrupt, bottom half, await, park, the VMM's device | one emitted operation or one exit |
| `ChoiceReplay` | a recording boot and its strict replay: `Chooser`, handlers, input transport, baton hand-offs | one exit of one core |
| `CrossCoreRing_proofs`, `ActorRuntime_proofs`, `ActorCalls_proofs`, `ActorRings_proofs`, `GroupCalls_proofs`, `VmmSched_proofs`, `BlockQueue_proofs`, `ChoiceReplay_proofs` | theorems | |
| `MC*` | instances for TLC | |

A push or a pop of a ring is not atomic in the code: both sides load `count`, and store it
changed a few instructions later. `CrossCoreRing` has every access of one edge; `ActorRings` has
the two that matter for all edges of the runtime, `GroupCalls` for the reply ring of core 0.
`ActorRuntime`, in which a ring operation is one step, is the base the other two are stated over:
`ActorRings` refines it as long as every count is exact (`CountsExact`), which holds in an
image in which two cores never change one count at a time (`RingsHoldOne`), and is not so in every
image (section 3). The two violation runs use `ActorRuntime` by itself: its behaviours are those
of `ActorRings` in which each load is followed at once by its store, so what they show the code
can do. `VmmSched` runs any guest
that checkpoints before it parks; `ActorRuntime` runs under any VMM that keeps a
core with a raised word running. Each takes the other's promise as an assumption
that is itself checked: `WakeServed` in one, `SleepersHaveNoWork` in the other.
`BlockQueue` composes the driver, the queue, the device and the executor of one
core in one module, because they meet in shared words; `ChoiceReplay` puts the
`Chooser` under the handlers that use it and takes the guest as any program.

### CrossCoreRing

`count`, `slot` and `pending` are the shared words; `tail`, `sendCount` and
`sendPc` are the sender's, `head`, `mailbox`, `recvCount`, `moved` and `recvPc`
the receiver's. xsend is `Admit` (the load of `count` and the decision), then
`SlotVisible`, `CountVisible` (the plain stores, in program order if `InOrder`),
`Barrier` (`dmb ishst`) and `Raise`. `tail` is private to the sender, so its store
is folded into `Barrier`. The receiver's loop is `Checkpoint`, `DrainStart`,
`DrainTest`, `DrainTake` or `DrainRejected`, `DrainLoad` and `DrainStore` (the two
halves of `count = count - 1`), `Select`, `Idle`, `Park`, `Wake`. A message is its
admission number; `sent` and `handled` are history. A rejected send changes
nothing, so it is the absence of `Admit`. The receiver's own accesses are taken in
program order; only the sender's stores may be reordered.

### ActorRuntime

Turn 0 is the test on core 0; actors 1..N have mailboxes. `place` is the sealed
placement, chosen in `Init` from `Placements`. `req` and `rep` are the request and
reply rings, `turn` holds the fields of `RT.turns` (`busy`, `susp`, `ready`, the
message being handled for `waker_turn`/`waker_core`, the `reply`), `awaiting` and
`taken` are history. A method body is any finite sequence of sends and awaited
calls along the image's handle graph (`Calls`), bounded by `MaxSends`; it ends with
`Complete`, which is `deliver_reply` and the release of the turn. A turn resumed
from an await passes the checkpoint the compiler puts there (`BodyCheckpoint`).
`Awaits` says which of its handles a turn awaits; to the others it only sends. `lanes` is the set of
ring edges a drain has still to visit; it visits them in the order `Before` of the drain
table, and the first edge that leads to a full mailbox empties the set.

`CallsSpec` maps this to `ActorCalls`: what is posted to an actor is in its mailbox and in the
request rings to it (`Posted`), what it handles is in its turn (`Handling`), and answers are in
reply rings and in turns that are ready (`Answers`). Drains, checkpoints, parks and wakes are
stutters there: cores, queues and placement decide whether a message is admitted and when it is
taken, and nothing else a caller can see.
`RightReply` is a consequence of it and is no longer run apart; it stays as a theorem.

**ActorRings** adds the `count` of every edge, and per core the edge whose count it has loaded to
change (`changes`) and what it loaded (`seen`). `Load` is the load that finds room (xsend 1237,
xreply 1271) or the drain's second load (1318, 1353); `Store` is the rest of the operation, a step of
`ActorRuntime` that changes that ring, and stores what was `seen` plus or minus one, whatever
the word holds by then. Between the two the other core may do anything. Tests that end an operation
(a full ring, an empty one) load once and are `Elsewhere`, as every step that touches no
ring. A reply is pushed to a ring with one slot per turn of the receiving core, so that the argument
for one slot does not cover it. The publication and the raise of the word that follows it
are one step here; `CrossCoreRing` separates them. Were a count ever wrong, what the drain
reads would be a slot nobody wrote or one it has read already: the next-state relation then allows
anything, and `CountsExact` is the invariant that says it never comes to that.

Abstracted: arguments, aggregate replies, lane counters, interrupt vectors, wake
drains, several tests one after another, groups and deadlines (in `GroupCalls`).
`QUIESCE_POLL_BOUND` is a choice to give up at any poll.

### GroupCalls

One group slot that the test uses again and again, `NChildren` start sites with a
turn each. `group`, `result`, `child`, `owner` are the fields of `GROUPS.slots` and
`RT.turns`; a child may call an actor on its own core or on another one
(`remote`), where callees run in parallel. The set `mail` holds calls nobody has
taken. `ring` is the reply ring of core 0, its slots, head, tail and count. The callees' core
loads the count and finds the ring full (`ReplyRefused`, the reply is dropped) or not (`RemoteReply`),
then stores slot, tail and count and raises the word (`ReplyStored`); the drain takes a slot and loads
the count (`Drain`), then stores it (`DrainStore`). Two children have two replies in the ring, so
that one of the stores may overwrite the other. `lost` notes it, and what follows is in the model:
a reply that stays in its slot, a slot read again, or one that was never written, whose turn 0 is an
index out of bounds (`DrainAborts`). `expired` says that the clock is past the
deadline; `Tick` may happen at any time while a deadline is armed. The tags of
`join_all` are kept, the values are not. `JoinActive` says whether every body of the
image awaits `g.join_all()` while a child is active, which the compiler does not
require.

Abstracted: callees that suspend, nested groups, the arena of several slots and
its exhaustion, groups owned by actor turns, `defer` cleanups.

### VmmSched

`state`, `current`, `done`, `released`, `exitCode`, `error` are the fields of
`Shared`; `phase` is the place of each thread in `run_core` and `handle_exit`;
`parking` and `releasing` the two flags of `Step::Yield`. `pend` is guest memory,
read by the VMM without the guest's cooperation and raised by guest code
(`GuestRaise`) at any moment. `Wake` of a parked core by its 1 ms poll is `Enter`.
`BatonWait` blocks on the condition variable until some thread notifies.

Abstracted: block completions, replayed choices, admission witness, PMU and console.
A breakpoint or a host error is a failure like `Canceled` and not modelled apart.
`noCoreRunnable` stays in the model although the code cannot reach it (see "also
found" below).

### BlockQueue

A buffer is named by its owner, a request by its number, which is history. The guest
words are `slot` (the one slot record, with its flags, payload, epoch and waiter),
`stash` (the completion the drain leaves behind it), `book` (the drain's 64-bit used
index, the reset epoch, the quiesced count and the stamp of the last recovery),
`desc` (descriptors 0 to 2), `avail` and `doorbell`; the device's are `used`, `ring`,
`seen` (its `last_avail_idx`) and the `status` byte; `word` and `irq` are the pending
word, the interrupt status, the driver's cell and its wake word; `armed` says that
`MACHINE_INFO` holds a deadline. `guest` is the place of core 0: booting, running
turns, between two woken bottom halves, before and after the drain's one poll-park,
or between drain and claim.

Two driver shapes share the queue. `"own"` is `drivers/blk.wr`: the driver keeps its
receipt, its bottom half drains and then claims, recovers or resets. `"handoff"` is
`tests/golden/boot-receipt-handoff`: callers lend a buffer through a handler and await
the receipt, the bottom half only drains and wakes. `Submit` is prepare and publish
together, since neither leaves the guest; `Exit` is any exit of core 0, at whose
return the engine services the device; `ParkExit` is a park, which sleeps only if
the service found nothing. The device acts nowhere else: it has no thread. The
first drain happens without a request, because the VMM injects every bound
interrupt at boot (`Injected`), and its poll-park leaves a deadline in `MACHINE_INFO`: that is why
`Idle` parks where it would otherwise abort as deadlocked. Nothing clears that deadline in an image
that declares no group. In one that does (`Groups`), every pass of the executor first stores
the earliest deadline of the live groups there, or zero (`DeadlinePoll`, `runtime.wr` 2014, 1111), and
the abort is reached with a request outstanding (section 3).

Abstracted: payload bytes (a request is a read or a write and succeeds or fails),
negotiation, interrupt suppression, malformed chains, several devices, other cores.

### ChoiceReplay

`chooser` is the `Chooser`: its mode, `log`, cursor `idx` and `bag` of admissions, what a
replayer itself keeps, and the first fault. The recording boot lets every core make
any exit of its program (`uses`); in the replay each core asks again what it asked, as long as all
its answers were the recorded ones, and anything at all after another one. Nothing makes the cores
ask in the recorded order.

A core that yields or halts first commits the admissions that exits have observed, one after the
other under the mutex (`Commit`; `lock` is the core that does), then hands the baton on (`Yield`) or
halts (`Halt`). A halt does not end the boot: it lets go of the mutex, and for up to 50 ms the other cores
run on and are logged (`left` has the cores whose threads return) until `done` is set; even then a
core that is outside the guest finishes its exit, except a yielder or a park that slept,
which look at `done` once more. When all threads have returned (`End`) the recording is replayed, or
the replay looks for what is left of the log. So the log of a recording may have exits that a
replay does not reach: it then ends as an overrun, which the model has too.

`drift` records in what the replaying boot's host differed: `"order"`, an exit was not made in its
recorded place; `"end"`, the boot ended before a recorded exit or after one that was not
recorded, as a halt that is waited for shorter or longer brings about; `"admission"`, one was observed
that was not recorded. Status reads are not logged: a replay answers them from the entry it is at,
TRUE exactly if that is an input event. `InputImplied` says of the *recording* that its guest was told
what its log implies. It is not so if the guest polled before an event came, and not so if it polled
TRUE and the event was not the next entry, because another choice or an admission was logged before
it was read, or because it was never read: every replay of such a log answers otherwise, whatever
the host does. An event read with an admission in front of it is never found. `Reproduced` says that
without drift, and with a recording whose log implies its input, the replay is exact and raises no
fault. A choice's place in a log is its `Count`, the number of entries up to it that are not
admissions. Each of its premises is needed: without order two cores take each other's
readings unnoticed, without the recorded end the replay overruns or runs past its log,
with an unrecorded admission it reports a divergence that is none, and without `InputImplied` the guest
is told other things of its input.

Abstracted: entropy (a choice like the clock), the PMU, who holds the baton, steals it from a holder that
is parked or over, is parked or released (`VmmSched`; here any core may yield at any time), a
recorded core without work that the replay replaces by a live one, the progress entry of a
release, the text form of the log.

## 3. Runs

Passing runs (deadlock is checked where the system cannot stop):

| Run | Instance | Shows |
|---|---|---|
| `ring_single_slot` | capacity 1, mailbox 1, 5 messages | the edge refines `ExactlyOnceFifo` with liveness; no sleep past a message, no overwrite, bounded backlog |
| `runtime_two_cores` | `ActorRings`: 3 actors in a diamond of handles, one core or two, 3 sends or calls, mailboxes of 2, 1, 1, reply rings of up to 3 slots | every count is the number of messages in its ring; the runtime refines `ActorCalls`; every call has exactly one holder until answered, per-sender FIFO, no core sleeps on work, the test halts |
| `groups_joined` | 2 children, 2 groups, 4 calls, callees near and far, with and without deadlines | counts, joins and results agree; no cancelled code runs; every test ends, or the ring has lost a reply or count |
| `vmm_three_cores` | 3 cores, 2 raises, 1 other exit | no guest code before release, state agrees with threads, wakes and batons are served, all threads return |
| `block_requests` | both driver shapes, 2 callers, ring of 4, index width 8, 5 requests, 2 resets, no groups | the queue refines `LentBuffers` with liveness; answers are the device's, no buffer is shared, no interrupt lost, no driver fault, no false deadlock |
| `replay_two_cores` | 2 cores, 4 programs, 3 exits and admissions a boot and one more for each core that left, 2 input lines, 2 admissions | a replay without a fault followed the log to its end; without drift, and where the log implies the input, it is exact |

Runs that end in a violation, each a disagreement of code and documentation that
`PROJECT.json` quotes under `findings`:

| Run | Disagreement |
|---|---|
| `ring_two_slots` | both cores read-modify-write `count`; with two slots an update is lost, and a message with it |
| `runtime_head_of_line` | a full mailbox ends the drain of all edges of a core; a chain of handles that returns to that core stops for ever |
| `runtime_eaten_wake` | an await compiled for another core clears core 0's pending word |
| `group_late_reply` | the reply to a cancelled child's call answers the next child on that turn |
| `block_overlap` | all requests in flight share one slot record and one chain: the second overwrites the first, whose answer is then another's |
| `block_stale` | a reset leaves its used entry undrained, and the next request is taken for finished by it while the device still has its buffer |

Also found, each by a change of constants to a run or by dropping a premise (the definitions are
in the modules, the runs are not kept):

| What | Definition that fails | Instance |
|---|---|---|
| `dmb` follows the store of `count`, so the slot it publishes may not be visible yet | `NoDropDuplicateReorder` | `RingSingleSlot.cfg` with `InOrder = FALSE`, `MaxSends = 3` |
| two turns of one core await actors of another: xreply and drain both change the reply ring's count, and a reply is lost, or one is delivered twice | `CountsExact` | `RuntimeTwoCores.cfg` with `Awaits <- MCCalls`, `MaxSends = 4`, `MCAssumption` dropped |
| the same in a group: two children await actors of another core, and a reply is lost; the owner's join then waits for ever | `~ lost` | `GroupsJoined.cfg` |
| idle and pending words are read one after the other; core 0 can halt while another core executes a turn | `QuiesceSettles` | `RuntimeHeadOfLine.cfg` with `MaxSends = 2` |
| a group is closed while a child is suspended | `ChildrenEndWithGroup` | `GroupsJoined.cfg` with one child, one group, one call, `Remotes = {FALSE}`, `JoinActive = FALSE` |
| the baton search finds the parking core itself runnable, so the deadlock diagnosis is unreachable and the watchdog ends the boot | `DeadlockDiagnosed` | `VmmThreeCores.cfg` with `NCores = 2`, `MaxRaises = 1`, `MaxKeeps = 0` |
| the drain compares a 64-bit index with the 16-bit `used.idx`: once that wraps, an entry seems pending for ever | `NothingUnannounced` | `BlockRequests.cfg` with `MaxRequests = 8` |
| ... and a drain that polls takes an entry that is not there, and aborts as a duplicate | `NoDriverFault` | `BlockRequests.cfg` with `MaxRequests = 9`, `MaxResets = 0`, `ReuseAfterReset = TRUE` |
| in an image with groups, `deadline_poll` clears the deadline that keeps the executor from aborting while a block request is outstanding | `NoFalseDeadlock` | `BlockRequests.cfg` with `Groups = TRUE` |
| a guest polls its input before an event comes, or polls it and makes another choice before it reads the event: every replay answers the poll otherwise | `Reproduced` without `InputImplied` | `ReplayTwoCores.cfg` |

The passing runs are instances outside those disagreements, and say so in their
constants: capacity 1 and ordered stores (`mailbox=1` on an in-order host), request rings of one
slot and one awaiting turn per pair of cores (`RingsHoldOne`, an `ASSUME` of `MCActorRings`), no
method on a secondary core awaits and only one actor is placed there
(`MCAwaits`, `MCPlacements`), every body joins (`JoinActive`), callers have one
request out at a time (`MaxInFlight = 1`), drivers do not publish after an undrained reset
(`ReuseAfterReset = FALSE`), requests stay below the index width, and the block image
declares no group (`Groups = FALSE`). The compiler enforces none of these. `groups_joined` keeps the
race for the reply ring's count, with all its consequences for the counts and joins; its liveness
property alone leaves out the behaviours in which a reply or a count was lost.

**Why the bounds are enough.** A ring of one slot wraps with the second message and is
full with every one; five messages go around it twice with a full mailbox. Three
actors are what a chain through another core and back needs, and a diamond makes
two senders meet at one mailbox; three attempts allow a nested call (two awaiting
turns) beside a send that fills a mailbox. Two groups with two children let a turn be
reused after cancellation and let one child be the last while the other is
suspended. Three cores are the least with a baton holder, a waiter and a third who may
notify; two raises let a word be raised again after a wake. Five requests go around the block
ring of four once and reuse its first entry; two callers let one publish while the other has just been
answered; two resets let a reclaim meet the quiesce before and the one after its recovery.
Three exits of two cores are a swap of two choices beside a third, a status poll with an
admission before the event's read, or a completion on either side of a deadline; one more for a core
that has left is what its sibling does between the halt and `done`; two lines fill the queue of one
and overflow it; two admissions share a mailbox. Cores and readings are symmetric: no definition tells
one from another. Every counter that is
bounded (`MaxSends`, `MaxCalls`, `MaxGroups`, `MaxRaises`, `MaxKeeps`, `MaxRequests`, `MaxResets`,
`MaxSteps`, `MaxLines`) bounds what the
guest *starts*; nothing that must answer is bounded.

**Fairness.** Each vCPU is a host thread that the host keeps running, so every core, thread
and callee has weak fairness as a whole: if it can take a step for ever, it takes
one. No particular choice inside is fair: no core is made to send, a test need not
call, a full poll may give up, the clock need not pass a deadline unless core 0
sleeps until it, the watchdog need not fire. `Halts` and `TestFinishes` hold because
bodies are finite. In `VmmSched` a guest that is running eventually leaves to the
VMM, which the guest's executor loops do by parking; a guest that never exits is
what the watchdog is for. In `BlockQueue` core 0 executes its next instruction: the interrupt path
(`Interrupts`), the executor's park (`Idle`), a caller that holds a receipt or was made ready; no
exit, submission, reset or recovery is fair, and the device needs no fairness, since it acts
when core 0 parks. `ChoiceReplay` claims safety only.

## 4. Proofs

`CrossCoreRing_proofs` (all constants, assumptions `RingAssumption`):

* `TypeCorrect`, `NeverSleepsPastAMessage`: for every capacity and either memory
  order. `TypeOK` is not inductive: that `count` never underflows needs that the
  receiver only decrements a count it has seen above 0 (`CountHeld`); the wake needs
  the receiver's place in its loop: between its last look at the ring and its park,
  a count that became visible has raised the word or its sender is about to
  (`WakeInv`).
* `OneSlotDelivery`, `OneSlotBacklog`, `OneSlotNoOverwrite`, `OneSlotRefines`: under
  `SingleSlot` (capacity 1, stores in order). The invariant `OneSlotInv` says where the one
  message in flight is, which sides may touch `count` and that the mailbox and the
  ring hold exactly the admitted and unhandled numbers in order. With
  one slot the sender writes `count` only when it is 0 and the receiver only when it is
  1, so the two read-modify-writes never overlap: that is the whole reason, and
  why it fails with two slots.

`VmmSched_proofs` (every number of cores and every bound, assumption `SchedAssumption` only):

* `SchedTypeCorrect`: `next_core` answers no core or a declared one (`NextCoreMayRun`), so
  the baton never leaves the declared cores.
* `SchedMatchesThreads`: inductive with the types; the one delicate step is the commit of a
  yield, which takes a core out of the guest and parks it in the same section.
* `NothingRunsBeforeRelease`, from `ReleaseInv`: before the release a secondary is
  `Unreleased` or the boot is over. The second half is needed because `done` may be set
  first, and the thread then returns from its loop head without having been released.
* `BootsEndWithACause`, from `EndInv`: a thread returns only after `done`, whoever sets `done`
  leaves a cause, and core 0's own halt has set the exit code before it takes the
  mutex again.
* `NoCircularWait`, from `WaitInv`: somebody may be blocked only while the boot goes on and the
  baton's holder is itself not blocked, may run, and if parked has a raised word. Every
  step that could make the holder unfit (its finish, its park, a new baton) notifies
  everybody in the same section, so nobody is blocked afterwards.

`BlockQueue_proofs` (every number of callers, depth and bound, assumption `BlockAssumption`):

* `QueueTypeCorrect`: without further restriction. The variables are typed in five groups by
  who writes them; a step that executes chains stays typed whatever the chain says.
* `BuffersNotShared`, `AnswersRight`, `DriversFaultless`, `RequestsAnnounced`, `NotTakenForDeadlock` and
  `QueueImplementsLent`, under `OneInFlight` (one request at a time, no publication after an undrained
  reset, fewer requests than the index width): exactly the conditions that `block_overlap`,
  `block_stale` and the index wrap show to be needed; `NotTakenForDeadlock` also under `~ Groups`. None of the properties is inductive.
  `QueueInv` adds: the ring indices are at most one apart (`RingInv`); whoever's
  request is out owns slot, chain, stash and the newest index (`Out`); what the flags, the waiter and the
  status say at each stage of its turn (`Stage`); a completed chain's status is in the
  history (`StatusInv`); an entry to be drained has its interrupt in the pending word, in the wake
  word or in the drain that is running (`AnnounceInv`); and before the deadline is
  armed nobody has published (`ArmedInv`). There is one lemma per action; the steps that only
  serve the device or only move core 0 share `CalmRing`, `CalmAnswers` and `CalmFlight`. The
  refinement follows from `PlaceIs`: where a buffer is, is told by its turn and by whether
  the device's index has reached the last request.

`ActorRings_proofs` (every number of actors, cores and attempts, every acyclic handle
graph, every set of placements and every mailbox capacity on one core, assumption `RuntimeAssumption`,
hypothesis `RingsHoldOne`):

* `CountsStayExact` and `RingsRefineRuntime`, proved together, since each step of the runtime is
  known to be one only while the counts are right. The invariant `RingInv` adds to the counts what holds
  between a core's load and its store (`Access`): what it loaded is still what the word holds, the ring of a
  sender is still empty, and that of a drain still is not; so no two cores are between load and
  store of one ring. For a request
  ring that is its one slot: who finds it empty is the sender, who finds it full the drain. For
  a reply ring, which has several slots, it is that the ring is empty while a reply is about to be
  pushed (`ReplyRingEmpty`): all its messages are answers to suspended turns of the receiving core
  which await actors of this one, `RingsHoldOne` leaves one such turn, and what that turn awaits is the call
  just being completed, in no other place (`Letters`).
* `RingsPostInvariant`, `RingsTypeCorrect`, `RingsCallsAccounted`, `RingsRightReplies`,
  `RingsRepliesFit`, `RingsSenderOrder`, `RingsSomebodyWakes`, `RingsSleepersIdle`, `RingsWakeKept` and
  `RingsImplementCalls` carry the lemmas of the next two modules over to the runtime with
  loads and stores. Without `RingsHoldOne` nothing of this is claimed: section 3 has the
  instance in which a reply is lost.

`ActorRuntime_proofs` (the same generality, any capacity, no hypothesis on rings; lemmas about
`SafetySpec`, whose ring operations are one step):

* `TypeCorrect`, `RightReplies`, `RepliesFit`, `CallsAccounted` and `SenderOrder` hold without
  further restriction: neither a drain that stops early nor an eaten wake loses, doubles or
  misdelivers a message, and delays are all they can do. The inductive invariant `PostInv` looks at the
  messages, wherever they are: in a mailbox, a turn, a request ring or a reply ring
  (`box`). No message is in two boxes, every one is known and in a box that leads to its target,
  and a suspended turn's call is in a box or its answer has arrived (`Letters`); a busy turn is
  executed by its own core or suspended (`Flow`). Replies are addressed by turn number
  only, so `RightReplies` needs that a turn sends no second call before the first is
  answered. `RepliesFit` is an argument of counting: the messages in a reply ring map one to one to
  suspended turns of the receiving core, and the call that is just being completed has a
  sender that none of them stands for; so the derived capacity, one slot per turn of
  that core, has room for one more. `SenderOrder` needs the order of one sender's messages
  over all stations: those taken come before those in the mailbox, and these before those in the ring.
* `SomebodyWakes` and `WakeKept`, under `CoreZeroAwaits` (only code on core 0 awaits).
  `Rested` says of one core what its drain and its select have established on the way to the
  park, until its word is raised; `Aside` is what the step of another core may do to it, so each step
  is a proof about the core that takes it. Among suspended turns the one with the
  largest number waits, handles being acyclic, for an actor that is not suspended, whose
  core therefore has something to do (`SomebodyWorks`). `runtime_eaten_wake` shows that the
  hypothesis is needed: an await elsewhere clears core 0's word.
* `SleepersAreIdle`, under `CoreZeroAwaits` and `OneTarget` (what other cores send to
  core 0 has one target). `runtime_head_of_line` shows the second to be needed. The
  constants of `runtime_two_cores` satisfy both.

`ActorCalls_proofs` (the same, a lemma about `SafetySpec`):

* `RuntimeImplementsCalls`: `SafetySpec => CallsSpec`, the whole refinement, since `ActorCalls`
  states safety only. `Views` reads the abstract state off the boxes of
  `ActorRuntime_proofs`, `InsidePut`, `InsideCut` and `InsideMoved` say what one message put in,
  taken out or moved does to it, and there is one lemma per abstract step: `RefuseStep`, `PostStep`,
  `TakeStep`, `FinishStep`, `ResumeStep`, `ReturnStep`; `RequestStep` and `ReplyStep` are
  the stutters of a drain. Removing a message from a set is right because no message is in two boxes
  (`Letters`); that `Take` finds the oldest of a sender in the mailbox, not in a ring,
  is `Ordered`; that an answer leaves the set when its caller resumes is that no other turn waits for
  it and no ring still holds it (`Waits`, `KnownMessage`); and a reply that found its ring full
  would be a step `ActorCalls` does not have, which `RepliesFit` excludes.

`GroupCalls_proofs` (every number of children, groups and calls, assumption `GroupAssumption`, hypothesis
`JoinActive`: the body awaits `join_all` while a child is active; section 3 says what
happens where it does not):

* `TypeCorrect`, `ActiveIsBusy`, `JoinIsWoken`, `ResultsAreReal`, `CancelledStaysOff`, `ChildrenEnd`,
  `LocalReplies`, all from `GroupInv`, in which they support each other. That the count is right
  (`Counted`) needs that busy children were started in the open group (`Started`) and how the place
  of core 0, the turn it runs and the owner's record depend on each other (`Flow`): the owner sleeps in
  `join_all` exactly while others run, and is made ready by the last harvest only. That a
  result is never the initial tag needs that every child that was started or refused and is
  over has left its tag (`Tagged`). `LocalReplies` needs that a call of a child on its own
  core is in the mail until it is answered, that the child stays suspended for it, and that
  nothing is on the reply ring then (`Answers`); across cores this is what `group_late_reply` refutes. Steps of callees and of the clock
  change little of all this and share the lemmas `CalmKeeps` and `QuietKeeps`. None of these results needs
  the reply ring to be exact: a reply lost or read twice wakes or leaves asleep a child, and what
  the invariant says of a child does not depend on which reply woke it.

`ChoiceReplay_proofs` (every number of cores, every program, values and bounds, assumption
`ReplayAssumption` only):

* `TypeCorrect`, `LogKept` and `NothingLeftOut`, from `ReplayInv`. A replay keeps entries of
  its own and passes over admissions, so neither positions nor lengths of the two logs agree:
  the invariant `Follows` counts choices instead. Without a fault each kept choice is the
  log's of the same count, and their number is the count up to the cursor, or at
  least the whole once the log is used up.
* `ReplayExact` is the theorem the strict replay is built for, under the premises of `Reproduced`: the
  recorded exits in the recorded order and no others, no unrecorded admission, and a
  recording whose log implies its input. `ExactInv` states it by a layout of the
  log: `start[n]` is where the entries of exit n begin, after admissions that may stand before them,
  and `seqs[n]` the input's next sequence number at it; every exit below the last is some core's,
  and behind them are only admissions (`Trailing`). Recording, each exit extends the layout and nothing
  moves the entries of an earlier one; replaying, the cursor is at the place of exit `asked` but for
  admissions (`Place`), and an exit that asks what exit `asked` of the recording did consumes just
  those entries (`Own`). What a handler records and what it consumes differ from
  exit to exit (one entry, an entry and a vector, a hand-off, none for a status read or a
  halt), which is why each handler has a lemma. A status read and an event read are told by what is at
  the cursor itself, admissions not passed over, which is what `InputImplied` is about. At the end
  every recorded exit has been made again (`EndExact`), so that the replay does not overrun.

**Only model-checked:** liveness (`Halts`, `TestFinishes`, `WakeServed`, `BatonServed`, `AllReturn` and
the liveness halves of `EdgeSpec` and `LentSpec`), since fairness and `ENABLED` are outside the prover, and the
findings. So the scheduler's wakes are known to be served for three cores, its
safety for any number. Every safety invariant of a passing run is also a theorem, where
stated under the hypotheses above, each of which the run's constants satisfy.

## 5. Plan

1. *Done:* the ring and its refinement; the runtime; groups; the VMM scheduler; first proofs.
2. *Done:* block device, driver and quiesce, composed with the parking of core 0 and the
   deadlock abort, their refinement of `LentBuffers` and its proof.
3. *Done:* record and replay, the input transport, the recorded baton, the exits after a halt.
4. Interrupt vectors and wake drains of `rt_checkpoint` on several cores; the idle word at the
   granularity of its accesses (`QuiesceSettles`); a guest that does not park after the halt.
5. Nested groups, the group arena, callees that suspend, cleanup states.
6. Console line commit and abort latch; display generations; slot map.
7. *Done:* the safety invariants of the runtime, of groups and of the chooser; `ActorCalls`, the abstract
   call/answer specification, and the proof that `ActorRings` implements it. Left: the
   same promise with groups, whose cancellation ends a wait without an answer.

Not modelled, and why: the compiler's tree transformations, optimiser and register
allocation are data-heavy and sequential, so a small instance would show little; host back
ends are bindings to system calls; the machine contract is constants; the renderer has its own
Lean development; the lab agent, golden runner and field probe are sequential host scripts. They
are most of the repository's lines, and the models cover a small share of it for that reason.

## 6. Running

`tlc -config RingSingleSlot.cfg MCCrossCoreRing` and likewise for the other pairs in
`PROJECT.json`; `tlapm CrossCoreRing_proofs.tla`. A parenthesised `(Slip: ...)` above a
definition marks a plausible coding error; `PROJECT.json` pairs it with the
definition it replaces and the property that must notice it.
