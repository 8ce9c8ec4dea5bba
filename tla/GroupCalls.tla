------------------------------ MODULE GroupCalls ------------------------------
(***************************************************************************)
(* Actor groups on core 0: `with group(deadline=..) as g` in a test, its   *)
(* children started with g.start, g.join_all, deadlines, cancellation and  *)
(* the close of the group (wrela-compiler/src/codegen.rs, the emit_group   *)
(* and emit_await functions), driven by the executor loop of runtime.wr    *)
(* (deadline_poll, deadline_scan, child_poll, primary_entry).              *)
(*                                                                         *)
(* One group slot, used again by every pass of the test through its `with` *)
(* statement; one turn per child.  A child's body is any finite sequence   *)
(* of awaited calls to actors whose methods do not suspend, on core 0 or   *)
(* on another core, where they run in parallel.  A call is known by its    *)
(* number.  Clock: has the group's deadline passed, by CLOCK.now_ns?       *)
(*                                                                         *)
(* The replies of the other core come over one ring with a slot for the    *)
(* test and for every child.  Both cores change its count, each with a     *)
(* load and a later store, and these are steps of their own; what the      *)
(* other core cannot yet look at (the slot, head and tail; the raise of    *)
(* the word, which follows the store) is part of them.  Requests go over   *)
(* rings of one slot, where this makes no difference.                      *)
(***************************************************************************)
EXTENDS Integers, FiniteSets

CONSTANTS
    NChildren,    \* the g.start sites of the group
    MaxGroups,    \* bound on the groups the test opens
    MaxCalls,     \* bound on the calls the children make
    Remotes,      \* may the callees be on another core? (a set of BOOLEANs)
    JoinActive    \* does the body of `with group` always await g.join_all()
                  \* while a child is active?

ASSUME GroupAssumption ==
    /\ NChildren \in Nat \ {0} /\ MaxGroups \in Nat /\ MaxCalls \in Nat
    /\ Remotes \subseteq BOOLEAN
    /\ JoinActive \in BOOLEAN

Children == 1 .. NChildren
Owner == 0
Calls == 1 .. MaxCalls
Messages == [from : Children, id : Calls]

\* __wrela_ring_capacity of the reply ring: the free turns of core 0, which
\* are the test and its children.
ReplyCap == NChildren + 1

\* A slot nothing was ever stored in: it names turn 0.
Unwritten == [from |-> 0, id |-> 0]

\* What the test does next: open a group, start child i, join, close.
Open == 0
Join == NChildren + 1
Close == NChildren + 2

VARIABLES
    remote,     \* are the callees on another core?
    group,      \* GROUPS.slots[0]
    result,     \* its children's tags
    child,      \* RT.turns of the children
    owner,      \* RT.turns of the test, and what it does next
    awaited,    \* the call a suspended child waits for (history)
    mail,       \* calls that no callee has taken yet
    ring,       \* the reply ring of core 0: RINGS_CTL.edges, RINGS_DATA
    replying,   \* the call that xreply is storing a reply to, if any
    found,      \* ... and the count it has loaded
    taken,      \* the count drain has loaded to decrement it, or 0
    moved,      \* has this drain moved a reply?
    lost,       \* was a reply refused, or a changed count overwritten? (history)
    expired,    \* has the group's deadline passed?
    pend,       \* bit 0 of PENDING.words[0]
    pc,         \* where core 0 is in primary_entry
    run,        \* the turn it executes: the test, or a child
    inline,     \* ... and was that child called by g.start?
    groups,     \* groups opened so far
    calls       \* calls made so far

edge == <<ring, replying, found, taken, lost>>
world == <<mail, edge, moved, calls>>
vars == <<remote, group, result, child, owner, awaited, world, expired, pend, pc,
          run, inline, groups>>

Init ==
    /\ remote \in Remotes
    /\ group = [used |-> FALSE, cancelled |-> FALSE, armed |-> FALSE,
                active |-> 0, waiter |-> FALSE]
    /\ result = [c \in Children |-> "none"]
    /\ child = [c \in Children |->
                   [busy |-> FALSE, susp |-> FALSE, ready |-> FALSE, reply |-> 0]]
    /\ owner = [next |-> Open, susp |-> FALSE, ready |-> FALSE]
    /\ awaited = [c \in Children |-> 0]
    /\ mail = {} /\ moved = FALSE
    /\ ring = [slot |-> [i \in 0 .. ReplyCap - 1 |-> Unwritten],
               head |-> 0, tail |-> 0, count |-> 0]
    /\ replying = {} /\ found = 0 /\ taken = 0 /\ lost = FALSE
    /\ expired = FALSE /\ pend = FALSE
    /\ pc = "body" /\ run = Owner /\ inline = FALSE
    /\ groups = 0 /\ calls = 0

-----------------------------------------------------------------------------
(* A checkpoint of core 0: a raised word is cleared and vector 0 served,   *)
(* which is deadline_scan.                                                 *)

\* The group, its deadline passed, is cancelled.
Scanned ==
    [group EXCEPT !.cancelled = @ \/ (group.used /\ group.armed /\ expired)]

\* Every suspended child of a cancelled group is made ready to resume.
Forced(turns, g) ==
    [c \in Children |->
        [turns[c] EXCEPT !.ready = @ \/ (turns[c].busy /\ turns[c].susp /\ g.cancelled)]]

GroupAfter == IF pend THEN Scanned ELSE group
TurnsAfter(turns) == IF pend THEN Forced(turns, Scanned) ELSE turns

\* A checkpoint and nothing else.
Serviced == group' = GroupAfter /\ child' = TurnsAfter(child) /\ pend' = FALSE

-----------------------------------------------------------------------------
(* The test.                                                               *)

\* The test's code (t = Owner) or child t's is running.
InBody(t) == pc = "body" /\ run = t

\* GroupCreate: a free slot, every field set again.
OpenGroup ==
    /\ InBody(Owner) /\ owner.next = Open /\ groups < MaxGroups
    /\ \E armed \in BOOLEAN :
           group' = [used |-> TRUE, cancelled |-> FALSE, armed |-> armed,
                     active |-> 0, waiter |-> FALSE]
    /\ result' = [c \in Children |-> "none"]
    /\ expired' = FALSE
    /\ groups' = groups + 1
    /\ owner' = [owner EXCEPT !.next = 1]
    /\ UNCHANGED <<remote, child, awaited, world, pend, pc, run, inline>>

\* (Slip: the refused child gets no result.)
StartIgnored ==
    /\ InBody(Owner) /\ owner.next \in Children /\ group.cancelled
    /\ owner' = [owner EXCEPT !.next = @ + 1]
    /\ UNCHANGED <<remote, group, result, child, awaited, world, expired, pend, pc, run,
                   inline, groups>>

\* (Slip: the refused child is uncounted as a harvested one is.)
StartHarvested ==
    /\ InBody(Owner) /\ owner.next \in Children /\ group.cancelled
    /\ result' = [result EXCEPT ![owner.next] = "cancelled"]
    /\ group' = [group EXCEPT !.active = @ - 1]
    /\ owner' = [owner EXCEPT !.next = @ + 1]
    /\ UNCHANGED <<remote, child, awaited, world, expired, pend, pc, run, inline, groups>>

\* g.start in a cancelled group: the child is cancelled without running.
StartRefused ==
    /\ InBody(Owner) /\ owner.next \in Children /\ group.cancelled
    /\ result' = [result EXCEPT ![owner.next] = "cancelled"]
    /\ owner' = [owner EXCEPT !.next = @ + 1]
    /\ UNCHANGED <<remote, group, child, awaited, world, expired, pend, pc, run,
                   inline, groups>>

\* g.start otherwise: the child's turn record is set up and it is called.
Start ==
    /\ InBody(Owner) /\ owner.next \in Children /\ ~ group.cancelled
    /\ child' = [child EXCEPT ![owner.next].busy = TRUE, ![owner.next].susp = FALSE,
                              ![owner.next].ready = FALSE]
    /\ group' = [group EXCEPT !.active = @ + 1]
    /\ run' = owner.next /\ inline' = TRUE
    /\ owner' = [owner EXCEPT !.next = @ + 1]
    /\ UNCHANGED <<remote, result, awaited, world, expired, pend, pc, groups>>

\* A checkpoint in the test's own code; its own group does not cancel it.
OwnerCheckpoint ==
    /\ InBody(Owner) /\ pend
    /\ Serviced
    /\ UNCHANGED <<remote, result, owner, awaited, world, expired, pc, run, inline,
                   groups>>

\* (Slip: off by one.)
JoinedAlmost == group.active <= 1

\* No child of the group is active.
Joined == group.active = 0

\* await g.join_all(): no active child, so compose the results and go on past
\* a checkpoint; or else wait as the group's join_waiter.
JoinNow ==
    /\ InBody(Owner) /\ owner.next = Join /\ Joined
    /\ Serviced
    /\ owner' = [owner EXCEPT !.next = Close]
    /\ UNCHANGED <<remote, result, awaited, world, expired, pc, run, inline, groups>>

JoinWait ==
    /\ InBody(Owner) /\ owner.next = Join /\ ~ Joined
    /\ group' = [group EXCEPT !.waiter = TRUE]
    /\ owner' = [owner EXCEPT !.susp = TRUE]
    /\ pc' = "check"
    /\ UNCHANGED <<remote, result, child, awaited, world, expired, pend, run, inline,
                   groups>>

\* A body that ends without g.join_all().
SkipJoin ==
    /\ InBody(Owner) /\ owner.next = Join
    /\ JoinActive => group.active = 0
    /\ owner' = [owner EXCEPT !.next = Close]
    /\ UNCHANGED <<remote, group, result, child, awaited, world, expired, pend, pc, run,
                   inline, groups>>

\* GroupClose frees the slot.
CloseGroup ==
    /\ InBody(Owner) /\ owner.next = Close
    /\ group' = [group EXCEPT !.used = FALSE]
    /\ owner' = [owner EXCEPT !.next = Open]
    /\ UNCHANGED <<remote, result, child, awaited, world, expired, pend, pc, run, inline,
                   groups>>

TestEnds ==
    /\ InBody(Owner) /\ owner.next = Open
    /\ pc' = "halted"
    /\ UNCHANGED <<remote, group, result, child, owner, awaited, world, expired, pend,
                   run, inline, groups>>

-----------------------------------------------------------------------------
(* A child.                                                                *)

\* (Slip: g.start leaves the child counted.)
UncountedLater(g) == IF inline THEN g ELSE [g EXCEPT !.active = @ - 1]

\* One active child less.
Uncounted(g) == [g EXCEPT !.active = @ - 1]

\* (Slip: the count before the decrement is compared with 0.)
LastBefore(g) == g.active = 0 /\ g.waiter

\* The child to be uncounted is the last one, and the owner waits for it.
Last(g) == Uncounted(g).active = 0 /\ g.waiter

\* Its turn is over, in group g among these turns: g.start harvests it, or
\* child_poll does and wakes the join_waiter after the last one.
Harvest(c, tag, g, turns) ==
    /\ result' = [result EXCEPT ![c] = tag]
    /\ group' = Uncounted(g)
    /\ child' = [turns EXCEPT ![c].busy = FALSE]
    /\ awaited' = [awaited EXCEPT ![c] = 0]
    /\ owner' = IF ~ inline /\ Last(g)
                THEN [owner EXCEPT !.ready = TRUE] ELSE owner
    /\ pc' = IF inline THEN "body" ELSE "check"
    /\ run' = Owner /\ inline' = FALSE

\* An awaited call: enqueue it with this turn as the waker and suspend.
ChildCalls(c) ==
    /\ InBody(c) /\ calls < MaxCalls
    /\ calls' = calls + 1
    /\ mail' = mail \cup {[from |-> c, id |-> calls']}
    /\ awaited' = [awaited EXCEPT ![c] = calls']
    /\ child' = [child EXCEPT ![c].susp = TRUE]
    /\ pc' = IF inline THEN "body" ELSE "check"
    /\ run' = Owner /\ inline' = FALSE
    /\ UNCHANGED <<remote, group, result, owner, edge, moved, expired, pend, groups>>

ChildReturns(c) ==
    /\ InBody(c)
    /\ Harvest(c, "done", group, child)
    /\ UNCHANGED <<remote, world, expired, pend, groups>>

\* (Slip: the test comes before the checkpoint.)
EndsBefore(g) == group.cancelled

\* The cancellation test that follows a checkpoint.
Ends(g) == g.cancelled

\* A checkpoint in its code (a loop's back edge, a call that was not admitted):
\* a child of a cancelled group ends there.
ChildCheckpoint(c) ==
    /\ InBody(c) /\ pend
    /\ pend' = FALSE
    /\ IF Ends(Scanned)
       THEN Harvest(c, "cancelled", Scanned, TurnsAfter(child))
       ELSE UNCHANGED <<group, result, child, owner, awaited, pc, run, inline>>
    /\ UNCHANGED <<remote, world, expired, groups>>

-----------------------------------------------------------------------------
(* primary_entry's loop while the test is suspended.                        *)

Check ==
    /\ pc = "check" /\ pc' = "poll"
    /\ Serviced
    /\ UNCHANGED <<remote, result, owner, awaited, world, expired, run, inline, groups>>

\* MACHINE_INFO.next_deadline is not 0.
Deadline == group.used /\ ~ group.cancelled /\ group.armed

\* deadline_poll: raise the word of every core once a deadline has passed.  The
\* test goes on if it is ready, and else run_one starts a drain.
Poll ==
    /\ pc = "poll"
    /\ pend' = (pend \/ (Deadline /\ expired))
    /\ pc' = IF owner.ready THEN "test" ELSE "drain"
    /\ moved' = FALSE
    /\ UNCHANGED <<remote, group, result, child, owner, awaited, mail, edge, calls,
                   expired, run, inline, groups>>

\* The test resumes: it composes the results and passes a checkpoint.
Resume ==
    /\ pc = "test" /\ owner.ready
    /\ owner' = [next |-> Close, susp |-> FALSE, ready |-> FALSE]
    /\ Serviced
    /\ pc' = "body"
    /\ UNCHANGED <<remote, result, awaited, world, expired, run, inline, groups>>

\* A reply goes to the turn it names.
Delivered(r) ==
    child' = [child EXCEPT ![r.from].reply = r.id, ![r.from].ready = TRUE]

\* An index moves to the next slot of the ring.
Advance(i) == IF i + 1 >= ReplyCap THEN 0 ELSE i + 1

\* drain's loop: while count # 0, deliver the reply in the head slot and load
\* count again ...
Drain ==
    /\ pc = "drain" /\ taken = 0 /\ ring.count # 0
    /\ ring.slot[ring.head] # Unwritten
    /\ Delivered(ring.slot[ring.head])
    /\ ring' = [ring EXCEPT !.head = Advance(@)]
    /\ taken' = ring.count
    /\ UNCHANGED <<remote, group, result, owner, awaited, mail, replying, found,
                   lost, moved, calls, expired, pend, pc, run, inline, groups>>

\* ... and store it less one.
DrainStore ==
    /\ taken # 0
    /\ ring' = [ring EXCEPT !.count = taken - 1]
    /\ lost' = (lost \/ ring.count # taken)
    /\ taken' = 0 /\ moved' = TRUE
    /\ UNCHANGED <<remote, group, result, child, owner, awaited, mail, replying, found,
                   calls, expired, pend, pc, run, inline, groups>>

\* Turn 0 has no record: its index is out of the bounds of RT.turns.
DrainAborts ==
    /\ pc = "drain" /\ taken = 0 /\ ring.count # 0
    /\ ring.slot[ring.head] = Unwritten
    /\ pc' = "aborted"
    /\ UNCHANGED <<remote, group, result, child, owner, awaited, world, expired, pend,
                   run, inline, groups>>

DrainEnd ==
    /\ pc = "drain" /\ taken = 0 /\ ring.count = 0
    /\ pc' = IF moved THEN "check" ELSE "select"
    /\ UNCHANGED <<remote, group, result, child, owner, awaited, world, expired, pend,
                   run, inline, groups>>

\* An actor of this core runs its method and replies at once.
Select(m) ==
    /\ pc = "select" /\ ~ remote
    /\ Delivered(m)
    /\ mail' = mail \ {m}
    /\ pc' = "check"
    /\ UNCHANGED <<remote, group, result, owner, awaited, edge, moved, calls, expired,
                   pend, run, inline, groups>>

\* (Slip: the children are polled while actors still have messages.)
SelectAny ==
    /\ pc = "select" /\ pc' = "kids"
    /\ UNCHANGED <<remote, group, result, child, owner, awaited, world, expired, pend,
                   run, inline, groups>>

\* No actor of this core has anything to do.
SelectNone ==
    /\ pc = "select" /\ (remote \/ mail = {})
    /\ pc' = "kids"
    /\ UNCHANGED <<remote, group, result, child, owner, awaited, world, expired, pend,
                   run, inline, groups>>

\* child_poll's three tests.
Pollable(c) == child[c].busy /\ child[c].susp /\ child[c].ready

\* child_poll of the first site that is ready: the child resumes, composes its
\* reply, passes a checkpoint and ends there if its group is cancelled.
ChildResumes(c) ==
    /\ pc = "kids" /\ Pollable(c)
    /\ \A b \in 1 .. c - 1 : ~ Pollable(b)
    /\ pend' = FALSE
    /\ LET resumed == [child EXCEPT ![c].susp = FALSE, ![c].ready = FALSE]
       IN  IF Ends(GroupAfter)
           THEN Harvest(c, "cancelled", GroupAfter, TurnsAfter(resumed))
           ELSE /\ group' = GroupAfter /\ child' = TurnsAfter(resumed)
                /\ awaited' = [awaited EXCEPT ![c] = 0]
                /\ pc' = "body" /\ run' = c /\ inline' = FALSE
                /\ UNCHANGED <<result, owner>>
    /\ UNCHANGED <<remote, world, expired, groups>>

\* Nothing ran: several cores park, a single one only for a deadline.
NothingRan ==
    /\ pc = "kids" /\ \A c \in Children : ~ Pollable(c)
    /\ pc' = IF remote \/ Deadline THEN "park" ELSE "aborted"
    /\ UNCHANGED <<remote, group, result, child, owner, awaited, world, expired, pend,
                   run, inline, groups>>

Unpark ==
    /\ pc = "park" /\ pend
    /\ pc' = "check"
    /\ UNCHANGED <<remote, group, result, child, owner, awaited, world, expired, pend,
                   run, inline, groups>>

\* The VMM's sleep ends at the deadline, and it raises vector 0.
DeadlineWake ==
    /\ pc = "park" /\ ~ pend /\ Deadline
    /\ expired' = TRUE /\ pend' = TRUE
    /\ pc' = "check"
    /\ UNCHANGED <<remote, group, result, child, owner, awaited, world, run, inline,
                   groups>>

-----------------------------------------------------------------------------
(* The rest of the machine.                                                *)

Runs == pc \notin {"halted", "aborted"}

\* A callee on the other core has taken a call and replies: xreply loads the
\* ring's count.  The ring is full: the reply is dropped (and counted as a
\* failure of the test) ...
ReplyRefused(m) ==
    /\ remote /\ Runs /\ replying = {}
    /\ ring.count >= ReplyCap
    /\ mail' = mail \ {m}
    /\ lost' = TRUE
    /\ UNCHANGED <<remote, group, result, child, owner, awaited, ring, replying, found,
                   taken, moved, calls, expired, pend, pc, run, inline, groups>>

\* ... or there is room ...
RemoteReply(m) ==
    /\ remote /\ Runs /\ replying = {}
    /\ ring.count < ReplyCap
    /\ mail' = mail \ {m}
    /\ replying' = {m} /\ found' = ring.count
    /\ UNCHANGED <<remote, group, result, child, owner, awaited, ring, taken,
                   lost, moved, calls, expired, pend, pc, run, inline, groups>>

\* (Slip: the reply does not wake core 0.)
ReplyStoredSilent ==
    /\ Runs /\ replying # {}
    /\ \E m \in replying :
           ring' = [ring EXCEPT !.slot[ring.tail] = m, !.tail = Advance(@),
                                !.count = found + 1]
    /\ lost' = (lost \/ ring.count # found)
    /\ replying' = {} /\ found' = 0
    /\ UNCHANGED <<remote, group, result, child, owner, awaited, mail, taken, moved, calls,
                   expired, pend, pc, run, inline, groups>>

\* ... for slot, tail and count + 1, and xreply raises bit 0 of core 0's word.
ReplyStored ==
    /\ Runs /\ replying # {}
    /\ \E m \in replying :
           ring' = [ring EXCEPT !.slot[ring.tail] = m, !.tail = Advance(@),
                                !.count = found + 1]
    /\ lost' = (lost \/ ring.count # found)
    /\ replying' = {} /\ found' = 0
    /\ pend' = TRUE
    /\ UNCHANGED <<remote, group, result, child, owner, awaited, mail, taken, moved, calls,
                   expired, pc, run, inline, groups>>

\* The clock passes the deadline.
Tick ==
    /\ group.used /\ group.armed /\ ~ expired
    /\ expired' = TRUE
    /\ UNCHANGED <<remote, group, result, child, owner, awaited, world, pend, pc, run,
                   inline, groups>>

TestBody ==
    \/ OpenGroup \/ StartRefused \/ Start \/ OwnerCheckpoint \/ JoinNow \/ JoinWait
    \/ SkipJoin \/ CloseGroup \/ TestEnds
ChildBody(c) == ChildCalls(c) \/ ChildReturns(c) \/ ChildCheckpoint(c)
Executor ==
    \/ Check \/ Poll \/ Resume \/ Drain \/ DrainStore \/ DrainAborts
    \/ DrainEnd \/ SelectNone \/ NothingRan \/ Unpark \/ DeadlineWake
    \/ \E m \in mail : Select(m)
    \/ \E c \in Children : ChildResumes(c)

CoreZero == TestBody \/ Executor \/ \E c \in Children : ChildBody(c)
Callees ==
    \/ \E m \in mail : ReplyRefused(m)
    \/ \E m \in mail : RemoteReply(m)
    \/ ReplyStored

\* The boot is over, or core 0 sleeps, perhaps for ever, for a lost reply.
Stopped == (~ Runs \/ (lost /\ pc = "park")) /\ UNCHANGED vars

Next == CoreZero \/ Callees \/ Tick \/ Stopped

\* Both cores are host threads that keep running; time need not reach a
\* deadline unless core 0 sleeps until it.
Spec == Init /\ [][Next]_vars /\ WF_vars(CoreZero) /\ WF_vars(Callees)

-----------------------------------------------------------------------------
(* Properties.                                                             *)

\* The types of the state; the count of active children stays within the group.
TypeOK ==
    /\ group \in [used : BOOLEAN, cancelled : BOOLEAN, armed : BOOLEAN,
                  active : 0 .. NChildren, waiter : BOOLEAN]
    /\ result \in [Children -> {"none", "done", "cancelled"}]
    /\ child \in [Children -> [busy : BOOLEAN, susp : BOOLEAN, ready : BOOLEAN,
                               reply : 0 .. MaxCalls]]
    /\ owner \in [next : Open .. Close, susp : BOOLEAN, ready : BOOLEAN]
    /\ mail \subseteq Messages /\ replying \subseteq Messages
    /\ ring \in [slot : [0 .. ReplyCap - 1 -> Messages \cup {Unwritten}],
                 head : 0 .. ReplyCap - 1, tail : 0 .. ReplyCap - 1, count : 0 .. ReplyCap]
    /\ found \in 0 .. ReplyCap - 1 /\ taken \in 0 .. ReplyCap
    /\ pc \in {"body", "check", "poll", "test", "drain", "select", "kids", "park",
               "halted", "aborted"}
    /\ run \in {Owner} \cup Children

\* active_children counts the turns that are busy, over g.start, the harvest of
\* a child that never suspends, child_poll and cancellation.
ActiveCountsBusy ==
    group.used => group.active = Cardinality({c \in Children : child[c].busy})

\* The owner never waits in join_all for nobody: it is ready or a child of its
\* group is still to be harvested by child_poll, which will wake it.
JoinHasSomebody ==
    owner.susp => owner.ready \/ (group.waiter /\ group.active > 0)

\* join_all composes a result of every child: none is left at the tag 0 that
\* GroupCreate stores, which reads as Ok(0).
NoPhantomResult ==
    JoinActive /\ owner.next = Close => \A c \in Children : result[c] # "none"

\* 04-compiler.md section 4: the cancelled frame never resumes.  While a child's
\* code runs, its group is not cancelled.
CancelledNeverRuns == pc = "body" /\ run # Owner => ~ group.cancelled

\* 02-language.md 9.5: a child cannot outlive the group it is started into.
ChildrenEndWithGroup == ~ group.used => \A c \in Children : ~ child[c].busy

\* A child that will resume in a group not cancelled has the reply to the call
\* it awaits, and not one to a call of an earlier, cancelled turn.
RightReply(c) == Pollable(c) /\ ~ group.cancelled => child[c].reply = awaited[c]

\* A callee on the child's own core has answered everything before child_poll
\* can end a cancelled turn, so that no late reply exists.
LocalRightReply == ~ remote => \A c \in Children : RightReply(c)

\* 02-language.md 9.5: cancellation resolves only when the cleanup graph is
\* empty; nothing of a cancelled child reaches a later turn.
NoLateReply == \A c \in Children : RightReply(c)

\* The test ends: no join hangs, no deadlock is reported, unless the reply ring
\* has lost a reply or count.
TestFinishes == <>(lost \/ pc = "halted")
=============================================================================
