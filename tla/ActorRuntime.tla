---------------------------- MODULE ActorRuntime ----------------------------
(***************************************************************************)
(* The guest's actor runtime (stdlib/core/runtime.wr) on several cores:    *)
(* mailboxes, turns, the round-robin select, calls and sends within a core *)
(* and across cores, replies to the awaiting turn, parking, and the quiesce*)
(* scan core 0 makes before it halts the machine.                          *)
(*                                                                         *)
(* Every core runs its executor loop in parallel with the others; one step *)
(* is one decision of one core.  A ring operation is one step here:        *)
(* ActorRings runs this module with the load and the store of `count` that *)
(* the operation is made of, and its specification is the one that is      *)
(* checked.  The body of a method is any finite sequence of sends and      *)
(* awaited calls along the image's handle graph; without actor groups,     *)
(* deadlines or devices.  A message is known by the number of its attempt. *)
(***************************************************************************)
EXTENDS Naturals, FiniteSets, Sequences

CONSTANTS
    NActors,      \* actors 1 .. NActors, in select order; turn 0 is the test
    Calls,        \* the handles each turn's code holds (an acyclic graph)
    MaxCore,      \* cores 0 .. MaxCore
    Placements,   \* the placements of turns on cores to consider
    Awaits,       \* those of them it awaits (it only sends to the others)
    MailboxCap,   \* declared mailbox capacity, also the request rings' one
    MaxSends      \* bound on the sends and calls a behaviour attempts

Test == 0
Actors == 1 .. NActors
Turns == {Test} \cup Actors
NoTurn == NActors + 1
Cores == 0 .. MaxCore

ASSUME RuntimeAssumption ==
    /\ NActors \in Nat /\ MaxCore \in Nat /\ MaxSends \in Nat
    /\ Calls \in [Turns -> SUBSET Actors]
    /\ \A t \in Actors : \A a \in Calls[t] : a > t
    /\ Awaits \in [Turns -> SUBSET Actors]
    /\ \A t \in Turns : Awaits[t] \subseteq Calls[t]
    /\ MailboxCap \in [Actors -> Nat \ {0}]
    /\ \A p \in Placements : p \in [Turns -> Cores] /\ p[Test] = 0

VARIABLES
    place,      \* the core of every turn, sealed into the image
    mailbox,    \* the waiting messages of every actor
    req,        \* request rings, one per sending core and target actor
    rep,        \* reply rings, one per sending and receiving core
    turn,       \* RT.turns: one record per actor and for the test
    awaiting,   \* the message whose reply a suspended turn waits for (history)
    pend,       \* is PENDING.words[core] not 0?
    idle,       \* PENDING.idle[core]
    pc,         \* where each core is in its executor loop
    run,        \* the turn a core is executing
    lanes,      \* the ring edges this drain has still to visit
    moved,      \* has this drain moved a message?
    cursor,     \* SCHED.cores[core].rr_cursor
    scan,       \* the core secondaries_idle looks at
    quiesced,   \* what quiesce_before_halt answered
    refused,    \* has an xreply found its ring full (test_failed)?
    issued,     \* sends and calls attempted so far
    taken       \* the messages each actor's turns took, in order (history)

msgVars == <<mailbox, req, rep>>
coreVars == <<idle, lanes, moved, cursor, scan>>
histVars == <<quiesced, refused, issued, taken>>
vars == <<place, msgVars, turn, awaiting, pend, pc, run, coreVars, histVars>>

Message == [id : 0 .. MaxSends, from : Turns, call : BOOLEAN, remote : BOOLEAN]
NoMessage == [id |-> 0, from |-> Test, call |-> FALSE, remote |-> FALSE]
Edges == Cores \X Actors

Multi == \E a \in Actors : place[a] # 0
Core(c) == c = 0 \/ \E a \in Actors : place[a] = c

\* Reply-ring capacity: one slot per turn that can await on the receiving core.
ReplyCap(dst) ==
    Cardinality({a \in Actors : place[a] = dst}) + (IF dst = 0 THEN 1 ELSE 0)

IdleTurn == [busy |-> FALSE, susp |-> FALSE, ready |-> FALSE,
             cur |-> NoMessage, reply |-> 0]

Init ==
    /\ place \in Placements
    /\ mailbox = [a \in Actors |-> <<>>]
    /\ req = [e \in Edges |-> <<>>]
    /\ rep = [e \in Cores \X Cores |-> <<>>]
    /\ turn = [t \in Turns |-> [IdleTurn EXCEPT !.busy = (t = Test)]]
    /\ awaiting = [t \in Turns |-> 0]
    /\ pend = [c \in Cores |-> FALSE]
    /\ idle = [c \in Cores |-> FALSE]
    /\ pc = [c \in Cores |-> IF c = 0 THEN "run" ELSE "top"]
    /\ run = [c \in Cores |-> IF c = 0 THEN Test ELSE NoTurn]
    /\ lanes = [c \in Cores |-> {}]
    /\ moved = [c \in Cores |-> FALSE]
    /\ cursor = [c \in Cores |-> 0]
    /\ scan = 1
    /\ quiesced = FALSE /\ refused = FALSE
    /\ issued = 0
    /\ taken = [a \in Actors |-> <<>>]

Goto(c, label) == pc' = [pc EXCEPT ![c] = label]

\* The test returned: core 0 is in quiesce_before_halt.
Quiescing == ~ turn[Test].busy

\* (Slip: quiesce_before_halt never looks at the other cores again.)
ReturnedLoop(c, ran) == IF ran THEN "top" ELSE "idle"

\* Where run_one's caller goes on.
Returned(c, ran) ==
    IF c = 0 /\ Quiescing THEN "scan" ELSE IF ran THEN "top" ELSE "idle"

-----------------------------------------------------------------------------
(* The body of a turn.                                                     *)

\* (Slip: a full mailbox or ring admits one more.)
AdmitsOneMore(c, a) ==
    IF place[a] = c THEN Len(mailbox[a]) <= MailboxCap[a]
                    ELSE Len(req[<<c, a>>]) <= MailboxCap[a]

\* Is there room, in a mailbox of this core or in the ring to another core?
Admits(c, a) ==
    IF place[a] = c THEN Len(mailbox[a]) < MailboxCap[a]
                    ELSE Len(req[<<c, a>>]) < MailboxCap[a]

\* (Slip: the newest message first.)
EnqueueFront(c, a, m) ==
    IF place[a] = c
    THEN mailbox' = [mailbox EXCEPT ![a] = <<m>> \o @] /\ UNCHANGED <<req, pend>>
    ELSE /\ req' = [req EXCEPT ![<<c, a>>] = <<m>> \o @]
         /\ pend' = [pend EXCEPT ![place[a]] = TRUE]
         /\ UNCHANGED mailbox
\* (Slip: xsend does not wake the target's core.)
EnqueueSilently(c, a, m) ==
    IF place[a] = c
    THEN mailbox' = [mailbox EXCEPT ![a] = Append(@, m)] /\ UNCHANGED <<req, pend>>
    ELSE req' = [req EXCEPT ![<<c, a>>] = Append(@, m)] /\ UNCHANGED <<mailbox, pend>>

\* rt_enqueue on this core, or xsend to the target's core, which it wakes.
Enqueue(c, a, m) ==
    IF place[a] = c
    THEN /\ mailbox' = [mailbox EXCEPT ![a] = Append(@, m)]
         /\ UNCHANGED <<req, pend>>
    ELSE /\ req' = [req EXCEPT ![<<c, a>>] = Append(@, m)]
         /\ pend' = [pend EXCEPT ![place[a]] = TRUE]
         /\ UNCHANGED mailbox

Attempt(c, a) ==
    /\ pc[c] = "run" /\ a \in Calls[run[c]]
    /\ issued < MaxSends
    /\ issued' = issued + 1

\* (Slip: the words of all cores are cleared.)
BodyCheckpointAll == [c \in Cores |-> FALSE]

\* A checkpoint in compiled code: whatever core runs it, it tests and clears
\* the pending word of core 0.
BodyCheckpoint == [pend EXCEPT ![0] = FALSE]

\* A send or an awaited call that is not admitted: the turn goes on with
\* NotAdmitted, after an await past a checkpoint.
NotAdmitted(c, a) ==
    /\ Attempt(c, a) /\ ~ Admits(c, a)
    /\ \/ UNCHANGED pend
       \/ a \in Awaits[run[c]] /\ pend' = BodyCheckpoint
    /\ UNCHANGED <<place, msgVars, turn, awaiting, pc, run, coreVars,
                   quiesced, refused, taken>>

\* The back edge of a loop, which the compiler refuses on the other cores.
BackEdge ==
    /\ pc[0] = "run" /\ pend[0]
    /\ pend' = BodyCheckpoint
    /\ UNCHANGED <<place, msgVars, turn, awaiting, pc, run, coreVars, histVars>>

Send(c, a) ==
    /\ Attempt(c, a) /\ Admits(c, a)
    /\ Enqueue(c, a, [id |-> issued', from |-> run[c], call |-> FALSE,
                      remote |-> place[a] # c])
    /\ UNCHANGED <<place, rep, turn, awaiting, pc, run, coreVars,
                   quiesced, refused, taken>>

\* An awaited call: enqueue with this turn as the waker, then suspend it.
Call(c, a) ==
    /\ Attempt(c, a) /\ Admits(c, a) /\ a \in Awaits[run[c]]
    /\ Enqueue(c, a, [id |-> issued', from |-> run[c], call |-> TRUE,
                      remote |-> place[a] # c])
    /\ turn' = [turn EXCEPT ![run[c]].susp = TRUE]
    /\ awaiting' = [awaiting EXCEPT ![run[c]] = issued']
    /\ run' = [run EXCEPT ![c] = NoTurn]
    /\ Goto(c, Returned(c, TRUE))
    /\ UNCHANGED <<place, rep, coreVars, quiesced, refused, taken>>

\* deliver_reply: nothing for a send; the waker's turn on this core; or the
\* reply ring of the waker's core, which a full ring refuses.
Deliver(c, t, freed) ==
    LET m == turn[t].cur
        back == <<c, place[m.from]>>
    IN  IF ~ m.call
        THEN turn' = freed /\ UNCHANGED <<rep, pend, refused>>
        ELSE IF ~ m.remote
        THEN /\ turn' = [freed EXCEPT ![m.from].reply = m.id,
                                      ![m.from].ready = TRUE]
             /\ UNCHANGED <<rep, pend, refused>>
        ELSE IF Len(rep[back]) < ReplyCap(back[2])
        THEN /\ rep' = [rep EXCEPT ![back] = Append(@, m)]
             /\ pend' = [pend EXCEPT ![back[2]] = TRUE]
             /\ turn' = freed
             /\ UNCHANGED refused
        ELSE /\ refused' = TRUE
             /\ turn' = freed
             /\ UNCHANGED <<rep, pend>>

\* The method returns: rt_select replies to the caller and frees the turn.
Complete(c) ==
    /\ pc[c] = "run" /\ run[c] # Test
    /\ Deliver(c, run[c],
               [turn EXCEPT ![run[c]].busy = FALSE, ![run[c]].cur = NoMessage])
    /\ run' = [run EXCEPT ![c] = NoTurn]
    /\ Goto(c, Returned(c, TRUE))
    /\ UNCHANGED <<place, mailbox, req, awaiting, coreVars, quiesced, issued, taken>>

\* The test returns, and with it the run of primary_entry: a single core
\* halts at once, several are quiesced first.
TestPasses ==
    /\ pc[0] = "run" /\ run[0] = Test
    /\ turn' = [turn EXCEPT ![Test].busy = FALSE]
    /\ run' = [run EXCEPT ![0] = NoTurn]
    /\ Goto(0, IF Multi THEN "top" ELSE "halted")
    /\ quiesced' = ~ Multi
    /\ UNCHANGED <<place, msgVars, awaiting, pend, coreVars, refused, issued, taken>>

\* (Slip: the resumed turn stays ready.)
ResumedStale(t) == [turn EXCEPT ![t].susp = FALSE]

\* The entry of a suspended turn clears both flags before it runs on.
Resumed(t) == [turn EXCEPT ![t].susp = FALSE, ![t].ready = FALSE]

-----------------------------------------------------------------------------
(* The executor loop.                                                      *)

\* A secondary core's loop begins: idle = 0 ...
LoopTop(c) ==
    /\ pc[c] = "top" /\ c # 0
    /\ idle' = [idle EXCEPT ![c] = FALSE]
    /\ Goto(c, "check")
    /\ UNCHANGED <<place, msgVars, turn, awaiting, pend, run, lanes, moved,
                   cursor, scan, histVars>>

\* ... then checkpoint takes the pending word; core 0 resumes the test if its
\* reply is there; otherwise run_one.
Checkpoint(c) ==
    /\ pc[c] = (IF c = 0 THEN "top" ELSE "check")
    /\ pend' = [pend EXCEPT ![c] = FALSE]
    /\ IF c = 0 /\ turn[Test].busy /\ turn[Test].ready
       THEN /\ turn' = Resumed(Test)
            /\ awaiting' = [awaiting EXCEPT ![Test] = 0]
            /\ run' = [run EXCEPT ![0] = Test]
            /\ Goto(0, "run")
       ELSE /\ Goto(c, "drain")
            /\ UNCHANGED <<turn, awaiting, run>>
    /\ UNCHANGED <<place, msgVars, coreVars, histVars>>

\* The edges into core c.
Lanes(c) ==
    LET sources == {s \in Cores \ {c} : Core(s)}
    IN  {<<"rep", s, 0>> : s \in sources}
        \cup {<<"req", s, a>> : s \in sources, a \in {b \in Actors : place[b] = c}}

\* The order in which a drain visits them: replies, then requests, by source
\* core and actor.
Before(k, l) ==
    \/ k[1] = "rep" /\ l[1] = "req"
    \/ k[1] = l[1] /\ (k[2] < l[2] \/ (k[2] = l[2] /\ k[3] < l[3]))

\* drain: a secondary core swaps its pending word once more.
DrainStart(c) ==
    /\ pc[c] = "drain"
    /\ pend' = IF c = 0 THEN pend ELSE [pend EXCEPT ![c] = FALSE]
    /\ lanes' = [lanes EXCEPT ![c] = Lanes(c)]
    /\ moved' = [moved EXCEPT ![c] = FALSE]
    /\ Goto(c, "sweep")
    /\ UNCHANGED <<place, msgVars, turn, awaiting, run, idle, cursor, scan, histVars>>

\* The edge that core c's drain is at.
AtLane(c, l) ==
    pc[c] = "sweep" /\ l \in lanes[c] /\ \A k \in lanes[c] \ {l} : Before(l, k)

LaneEmpty(c, l) == IF l[1] = "rep" THEN rep[<<l[2], c>>] = <<>>
                   ELSE req[<<l[2], l[3]>>] = <<>>

\* The edge is empty: on to the next one.
NextLane(c, l) ==
    /\ AtLane(c, l) /\ LaneEmpty(c, l)
    /\ lanes' = [lanes EXCEPT ![c] = @ \ {l}]
    /\ UNCHANGED <<place, msgVars, turn, awaiting, pend, pc, run, idle, moved,
                   cursor, scan, histVars>>

\* (Slip: the reply stays in the ring.)
DrainReplyKeeps(c, l) ==
    /\ AtLane(c, l) /\ l[1] = "rep" /\ ~ LaneEmpty(c, l)
    /\ LET m == Head(rep[<<l[2], c>>])
       IN  turn' = [turn EXCEPT ![m.from].reply = m.id, ![m.from].ready = TRUE]
    /\ moved' = [moved EXCEPT ![c] = TRUE]
    /\ UNCHANGED <<place, msgVars, awaiting, pend, pc, run, idle, lanes, cursor, scan,
                   histVars>>

\* A reply: store it in the turn it names, and mark that turn ready.
DrainReply(c, l) ==
    /\ AtLane(c, l) /\ l[1] = "rep" /\ ~ LaneEmpty(c, l)
    /\ LET e == <<l[2], c>>
           m == Head(rep[e])
       IN  /\ turn' = [turn EXCEPT ![m.from].reply = m.id, ![m.from].ready = TRUE]
           /\ rep' = [rep EXCEPT ![e] = Tail(@)]
    /\ moved' = [moved EXCEPT ![c] = TRUE]
    /\ UNCHANGED <<place, mailbox, req, awaiting, pend, pc, run, idle, lanes,
                   cursor, scan, histVars>>

\* A request: into the target's mailbox.  A full mailbox ends the whole drain,
\* the edges not yet visited included.
DrainRequest(c, l) ==
    /\ AtLane(c, l) /\ l[1] = "req" /\ ~ LaneEmpty(c, l)
    /\ LET a == l[3]
           e == <<l[2], a>>
       IN  IF Len(mailbox[a]) < MailboxCap[a]
           THEN /\ mailbox' = [mailbox EXCEPT ![a] = Append(@, Head(req[e]))]
                /\ req' = [req EXCEPT ![e] = Tail(@)]
                /\ moved' = [moved EXCEPT ![c] = TRUE]
                /\ UNCHANGED lanes
           ELSE /\ lanes' = [lanes EXCEPT ![c] = {}]
                /\ UNCHANGED <<mailbox, req, moved>>
    /\ UNCHANGED <<place, rep, turn, awaiting, pend, pc, run, idle, cursor, scan, histVars>>

\* drain returned; run_one is over if it moved anything.
DrainEnd(c) ==
    /\ pc[c] = "sweep" /\ lanes[c] = {}
    /\ Goto(c, IF moved[c] THEN Returned(c, TRUE) ELSE "select")
    /\ UNCHANGED <<place, msgVars, turn, awaiting, pend, run, coreVars, histVars>>

\* The actors of core c, and where an actor stands among those of its core.
Slots(c) == {a \in Actors : place[a] = c}
Slot(a) == Cardinality({b \in Slots(place[a]) : b < a})

\* rt_select finds something to do for actor a.
Selectable(a) ==
    IF turn[a].busy THEN turn[a].susp /\ turn[a].ready ELSE mailbox[a] # <<>>

\* Actor a is the first one of core c, from the cursor on (cyclically), that
\* can run.
Chosen(c, a) ==
    LET n == Cardinality(Slots(c))
        dist(b) == (Slot(b) + n - cursor[c]) % n
    IN  /\ a \in Slots(c) /\ Selectable(a)
        /\ \A b \in Slots(c) : Selectable(b) => dist(a) <= dist(b)

\* rt_select: resume the actor's suspended turn, past the checkpoint that
\* follows its await, or start one on the next message of its mailbox.
Select(c, a) ==
    /\ pc[c] = "select" /\ Chosen(c, a)
    /\ IF turn[a].busy
       THEN /\ turn' = Resumed(a)
            /\ awaiting' = [awaiting EXCEPT ![a] = 0]
            /\ pend' = BodyCheckpoint
            /\ UNCHANGED <<mailbox, taken>>
       ELSE /\ turn' = [turn EXCEPT ![a].busy = TRUE, ![a].cur = Head(mailbox[a])]
            /\ taken' = [taken EXCEPT ![a] = Append(@, Head(mailbox[a]))]
            /\ mailbox' = [mailbox EXCEPT ![a] = Tail(@)]
            /\ UNCHANGED <<awaiting, pend>>
    /\ run' = [run EXCEPT ![c] = a]
    /\ cursor' = [cursor EXCEPT ![c] = (Slot(a) + 1) % Cardinality(Slots(c))]
    /\ Goto(c, "run")
    /\ UNCHANGED <<place, req, rep, idle, lanes, moved, scan,
                   quiesced, refused, issued>>

\* run_one found nothing.
NothingRan(c) ==
    /\ pc[c] = "select"
    /\ \A a \in Slots(c) : ~ Selectable(a)
    /\ Goto(c, Returned(c, FALSE))
    /\ UNCHANGED <<place, msgVars, turn, awaiting, pend, run, coreVars, histVars>>

\* A secondary core marks itself idle and rings the park doorbell; core 0
\* rings it too if there are other cores, and otherwise reports a deadlock.
GoIdle(c) ==
    /\ pc[c] = "idle"
    /\ idle' = IF c = 0 THEN idle ELSE [idle EXCEPT ![c] = TRUE]
    /\ Goto(c, IF Multi THEN "park" ELSE "aborted")
    /\ UNCHANGED <<place, msgVars, turn, awaiting, pend, run, lanes, moved,
                   cursor, scan, histVars>>

\* The VMM leaves a core with a raised pending word running.
Park(c) ==
    /\ pc[c] = "park"
    /\ Goto(c, IF pend[c] THEN "top" ELSE "parked")
    /\ UNCHANGED <<place, msgVars, turn, awaiting, pend, run, coreVars, histVars>>

Wake(c) ==
    /\ pc[c] = "parked" /\ pend[c]
    /\ Goto(c, "top")
    /\ UNCHANGED <<place, msgVars, turn, awaiting, pend, run, coreVars, histVars>>

-----------------------------------------------------------------------------
(* Core 0 before the halt.                                                 *)

\* secondaries_idle looks at one core: its idle word, then its pending word.
\* A core that is not idle costs one of QUIESCE_POLL_BOUND spins, and the
\* last spin gives up.
ScanIdle ==
    /\ pc[0] = "scan"
    /\ \/ idle[scan] /\ Goto(0, "scanPending") /\ UNCHANGED scan
       \/ ~ idle[scan] /\ pc' \in {[pc EXCEPT ![0] = l] : l \in {"top", "halted"}}
          /\ scan' = 1
    /\ UNCHANGED <<place, msgVars, turn, awaiting, pend, run, idle, lanes, moved,
                   cursor, histVars>>

ScanPending ==
    /\ pc[0] = "scanPending"
    /\ IF pend[scan]
       THEN /\ pc' \in {[pc EXCEPT ![0] = l] : l \in {"top", "halted"}}
            /\ scan' = 1
            /\ UNCHANGED quiesced
       ELSE IF Core(scan + 1)
       THEN scan' = scan + 1 /\ Goto(0, "scan") /\ UNCHANGED quiesced
       ELSE scan' = 1 /\ Goto(0, "halted") /\ quiesced' = TRUE
    /\ UNCHANGED <<place, msgVars, turn, awaiting, pend, run, idle, lanes, moved,
                   cursor, refused, issued, taken>>

-----------------------------------------------------------------------------
Body(c) == Complete(c) \/ \E a \in Actors : NotAdmitted(c, a) \/ Send(c, a) \/ Call(c, a)
Drain(c) ==
    \/ DrainStart(c) \/ DrainEnd(c)
    \/ \E l \in lanes[c] : NextLane(c, l) \/ DrainReply(c, l) \/ DrainRequest(c, l)
Executor(c) ==
    \/ LoopTop(c) \/ Checkpoint(c) \/ Drain(c) \/ NothingRan(c)
    \/ \E a \in Actors : Select(c, a)
    \/ GoIdle(c) \/ Park(c) \/ Wake(c)

CoreStep(c) ==
    /\ Core(c) /\ pc[0] \notin {"halted", "aborted"}
    /\ \/ Body(c) \/ Executor(c)
       \/ c = 0 /\ (BackEdge \/ TestPasses \/ ScanIdle \/ ScanPending)

\* The VMM stops every core once core 0 has halted.
Stopped == pc[0] \in {"halted", "aborted"} /\ UNCHANGED vars

Next == (\E c \in Cores : CoreStep(c)) \/ Stopped

SafetySpec == Init /\ [][Next]_vars

\* Every vCPU is a host thread that keeps running.
Spec == SafetySpec /\ \A c \in Cores : WF_vars(CoreStep(c))

-----------------------------------------------------------------------------
(* Properties.                                                             *)

\* The types of the state.
TypeOK ==
    /\ place \in Placements
    /\ mailbox \in [Actors -> Seq(Message)]
    /\ \A a \in Actors : Len(mailbox[a]) <= MailboxCap[a]
    /\ req \in [Edges -> Seq(Message)]
    /\ \A e \in Edges : Len(req[e]) <= MailboxCap[e[2]]
    /\ rep \in [Cores \X Cores -> Seq(Message)]
    /\ turn \in [Turns -> [busy : BOOLEAN, susp : BOOLEAN, ready : BOOLEAN,
                            cur : Message, reply : 0 .. MaxSends]]
    /\ awaiting \in [Turns -> 0 .. MaxSends]
    /\ pend \in [Cores -> BOOLEAN]
    /\ idle \in [Cores -> BOOLEAN]
    /\ run \in [Cores -> Turns \cup {NoTurn}]
    /\ pc \in [Cores -> {"top", "check", "drain", "sweep", "select", "run",
                          "idle", "park", "parked", "scan", "scanPending",
                          "halted", "aborted"}]

\* The positions of message number k in the queues of one kind.
InQueues(kind, queue, k) ==
    UNION {{<<kind, b, i>> : i \in {j \in DOMAIN queue[b] : queue[b][j].id = k}} :
               b \in DOMAIN queue}

\* The places that hold the call number k: mailboxes and request rings, the
\* turn that executes it, reply rings, and its caller's turn once answered.
Holders(k) ==
    InQueues("mailbox", mailbox, k) \cup InQueues("req", req, k)
    \cup InQueues("rep", rep, k)
    \cup ({"turn"} \X {a \in Actors : turn[a].busy /\ turn[a].cur.id = k} \X {0})
    \cup ({"reply"} \X {t \in Turns : turn[t].ready /\ turn[t].reply = k} \X {0})

\* No call is lost or answered twice: what a suspended turn waits for is in
\* exactly one place, over enqueue, drain, select, deliver_reply and xreply.
CallsAccountedFor ==
    \A t \in Turns : awaiting[t] # 0 => Cardinality(Holders(awaiting[t])) = 1

\* A turn that is ready to resume holds the reply to the call it awaits, not
\* an older one or another turn's (replies are addressed by turn number).
RightReply ==
    \A t \in Turns : turn[t].ready => turn[t].susp /\ turn[t].reply = awaiting[t]

\* The derived reply-ring capacity suffices: xreply never finds its ring full
\* (it would count a failed test and drop the reply).
NoReplyRefused == ~ refused

\* FIFO: an actor takes the messages of one sender in the order it sent them,
\* through mailboxes and rings alike.
SenderFifo ==
    \A a \in Actors : \A i, j \in DOMAIN taken[a] :
        i < j /\ taken[a][i].from = taken[a][j].from
            => taken[a][i].id < taken[a][j].id

\* A sleeping core whose word is not raised has nothing it could do.
SleepersHaveNoWork ==
    \A c \in Cores : pc[c] = "parked" /\ ~ pend[c] =>
        /\ \A a \in Actors : place[a] = c => ~ Selectable(a)
        /\ \A s \in Cores : rep[<<s, c>>] = <<>>
        /\ c = 0 => ~ turn[Test].ready
        /\ \A s \in Cores, a \in Actors :
               place[a] = c /\ req[<<s, a>>] # <<>> => Len(mailbox[a]) = MailboxCap[a]

\* Nothing sleeps for good: the cores are never all asleep with no word
\* raised, and a single core never reports a deadlock.
NeverStuck ==
    /\ pc[0] # "aborted"
    /\ ~ \A c \in Cores : Core(c) => pc[c] = "parked" /\ ~ pend[c]

\* 04-compiler.md:63: an actor-call await cycles only if handles cycle.  They
\* do not; so when every core sleeps for good, no message is left in an edge
\* to an actor that has room for it.
EdgesIndependent ==
    (\A c \in Cores : Core(c) => pc[c] = "parked" /\ ~ pend[c]) =>
        \A s \in Cores, a \in Actors :
            place[a] # 0 /\ req[<<s, a>>] # <<>> => Len(mailbox[a]) = MailboxCap[a]

\* layout.rs:619: a checkpoint serviced from another core would clear the wake
\* a ring raised for core 0, so that image is refused: core 0 does not sleep
\* past a reply that has arrived, its word cleared by somebody else.
CoreZeroWakeKept ==
    pc[0] = "parked" /\ ~ pend[0] => \A s \in Cores : rep[<<s, 0>>] = <<>>

\* xtask's repro gate reads Lane 1 totals as settled unless the guest printed
\* `lane1 quiesce=timeout`: after quiesce_before_halt answered 1, the released
\* cores have parked, with nothing left that they could still handle.
QuiesceSettles ==
    pc[0] = "halted" /\ quiesced =>
        \A a \in Actors : place[a] # 0 =>
            /\ ~ Selectable(a)
            /\ \A s \in Cores : req[<<s, a>>] # <<>> => turn[a].busy

\* The test runs to its end and core 0 halts.
Halts == <>(pc[0] = "halted")

\* Where ActorCalls has the messages: posted in a mailbox or a request ring,
\* handled by a turn, answered in a reply ring or in the caller's turn.
Members(q) == {q[i] : i \in 1 .. Len(q)}

Posted == [a \in Actors |->
              Members(mailbox[a]) \cup UNION {Members(req[<<s, a>>]) : s \in Cores}]
Handling == [a \in Actors |-> IF turn[a].busy THEN {turn[a].cur} ELSE {}]
Answers == {turn[t].reply : t \in {u \in Turns : turn[u].ready}}
           \cup UNION {{m.id : m \in Members(rep[e])} : e \in Cores \X Cores}

Abstract == INSTANCE ActorCalls WITH Messages <- Message, last <- issued,
                posted <- Posted, handling <- Handling, answers <- Answers,
                waits <- awaiting, open <- turn[Test].busy

\* The runtime of all cores is one runtime: enqueue, xsend, drain, select,
\* deliver_reply and xreply together do what ActorCalls promises.
CallsSpec == Abstract!Spec
=============================================================================
