-------------------------- MODULE GroupCalls_proofs --------------------------
(***************************************************************************)
(* Proofs about GroupCalls, for every number of children, groups and calls *)
(* and for callees on either core: its types and, when the body of every   *)
(* `with group` joins while a child is active, the safety properties of    *)
(* the run groups_joined.                                                  *)
(*                                                                         *)
(* GroupInv is the inductive invariant.  Counted and Started are what the  *)
(* group slot knows of the turn records; Flow is how the place of core 0,  *)
(* the turn it runs and the owner's record depend on each other; Tagged is *)
(* the results so far; Answers is the way of a reply on the child's core.  *)
(***************************************************************************)
EXTENDS GroupCalls, FiniteSetTheorems, TLAPS

ChildTurns == [Children -> [busy : BOOLEAN, susp : BOOLEAN, ready : BOOLEAN,
                            reply : 0 .. MaxCalls]]
Groups == [used : BOOLEAN, cancelled : BOOLEAN, armed : BOOLEAN, active : Int,
           waiter : BOOLEAN]
RingTypes ==
    [slot : [0 .. ReplyCap - 1 -> Messages \cup {Unwritten}],
     head : 0 .. ReplyCap - 1, tail : 0 .. ReplyCap - 1, count : 0 .. ReplyCap]
Places == {"body", "check", "poll", "test", "drain", "select", "kids", "park",
           "halted", "aborted"}

\* The types, the count of active children being any integer.
GroupType ==
    /\ group \in Groups /\ child \in ChildTurns
    /\ result \in [Children -> {"none", "done", "cancelled"}]
    /\ owner \in [next : Open .. Close, susp : BOOLEAN, ready : BOOLEAN]
    /\ pc \in Places /\ run \in {Owner} \cup Children
    /\ inline \in BOOLEAN /\ pend \in BOOLEAN /\ expired \in BOOLEAN

CallType ==
    /\ remote \in BOOLEAN /\ moved \in BOOLEAN
    /\ awaited \in [Children -> 0 .. MaxCalls] /\ calls \in 0 .. MaxCalls
    /\ mail \subseteq Messages /\ replying \subseteq Messages
    /\ ring \in RingTypes
    /\ found \in 0 .. ReplyCap - 1 /\ taken \in 0 .. ReplyCap

Busy(turns) == {c \in Children : turns[c].busy}

\* The group's count is the number of busy turns, in a free slot too.
Counted == group.active = Cardinality(Busy(child))

\* A busy turn was started in the group that is open.
Started == \A c \in Children : child[c].busy => c < owner.next

\* The code runs in the body of a turn that is busy and not suspended; the
\* owner is suspended, in join_all, while the executor loop or a child it
\* polled runs, and only until its last child is harvested.
Flow ==
    /\ pc # "body" => run = Owner
    /\ run # Owner => child[run].busy /\ ~ child[run].susp
    /\ inline => run # Owner
    /\ owner.susp <=> pc \notin {"body", "halted"} \/ (run # Owner /\ ~ inline)
    /\ owner.susp => owner.next = Join
    /\ owner.ready => owner.susp /\ group.active = 0
    /\ group.used <=> owner.next # Open
    /\ owner.next = Close => group.active = 0

\* A child that was started or refused, and is over, has its tag.
Tagged == group.used => \A c \in Children :
              c < owner.next /\ ~ child[c].busy => result[c] # "none"

\* Nobody is changing the reply ring, which is empty.
Idle == ring.count = 0 /\ replying = {} /\ taken = 0

\* With the callees on this core, every call waits in a mailbox or has been
\* answered before child_poll, and its caller stays suspended for it.
Answers ==
    ~ remote =>
        /\ Idle
        /\ \A m \in mail : /\ child[m.from].busy /\ child[m.from].susp
                           /\ awaited[m.from] = m.id
        /\ pc = "kids" => mail = {}
        /\ run # Owner => ~ child[run].ready
        /\ LocalRightReply

GroupInv ==
    /\ GroupType /\ CallType /\ Counted /\ Started /\ Flow /\ Tagged /\ Answers
    /\ JoinHasSomebody /\ CancelledNeverRuns

-----------------------------------------------------------------------------
(* Types.                                                                  *)

(* A scan for deadlines changes only whether the group is cancelled, and   *)
(* never takes that back (deadline_scan over GROUPS.slots).                *)
LEMMA ScannedFacts ==
    ASSUME GroupType
    PROVE  /\ Scanned \in Groups /\ GroupAfter \in Groups
           /\ GroupAfter.used = group.used /\ GroupAfter.active = group.active
           /\ GroupAfter.waiter = group.waiter
           /\ Scanned.used = group.used /\ Scanned.active = group.active
           /\ Scanned.waiter = group.waiter
           /\ group.cancelled => GroupAfter.cancelled /\ Scanned.cancelled
           /\ pend => GroupAfter = Scanned
           /\ ~ pend => GroupAfter = group
BY DEF GroupType, Groups, Scanned, GroupAfter

(* Forcing the children of a cancelled group marks suspended ones ready,   *)
(* and does nothing else; without a cancelled group it does nothing.       *)
LEMMA TurnsAfterFacts ==
    ASSUME GroupType, NEW turns \in ChildTurns
    PROVE  /\ TurnsAfter(turns) \in ChildTurns
           /\ \A c \in Children :
                 /\ TurnsAfter(turns)[c].busy = turns[c].busy
                 /\ TurnsAfter(turns)[c].susp = turns[c].susp
                 /\ TurnsAfter(turns)[c].reply = turns[c].reply
                 /\ ~ turns[c].susp => TurnsAfter(turns)[c].ready = turns[c].ready
                 /\ ~ GroupAfter.cancelled => TurnsAfter(turns)[c].ready = turns[c].ready
<1>1. Scanned \in Groups
  BY ScannedFacts
<1> QED
  BY <1>1 DEF GroupType, Groups, ChildTurns, TurnsAfter, Forced, GroupAfter

(* A checkpoint leaves who is busy, who is suspended and the count alone.  *)
LEMMA ServicedFacts ==
    ASSUME GroupType, Serviced
    PROVE  /\ group' \in Groups /\ child' \in ChildTurns /\ pend' = FALSE
           /\ group'.used = group.used /\ group'.active = group.active
           /\ group'.waiter = group.waiter
           /\ group.cancelled => group'.cancelled
           /\ \A c \in Children :
                 /\ child'[c].busy = child[c].busy /\ child'[c].susp = child[c].susp
                 /\ child'[c].reply = child[c].reply
                 /\ ~ child[c].susp => child'[c].ready = child[c].ready
                 /\ ~ group'.cancelled => child'[c].ready = child[c].ready
<1>1. child \in ChildTurns
  BY DEF GroupType
<1> QED
  BY <1>1, ScannedFacts, TurnsAfterFacts DEF Serviced

\* A turn that is over: the fields its harvest changes.
Harvested(c, tag, g, turns) ==
    /\ group'.active = g.active - 1 /\ group'.used = g.used
    /\ group'.waiter = g.waiter /\ group'.cancelled = g.cancelled
    /\ child'[c].busy = FALSE
    /\ \A d \in Children : d # c => child'[d] = turns[d]
    /\ result'[c] = tag
    /\ \A d \in Children : d # c => /\ result'[d] = result[d]
                                   /\ awaited'[d] = awaited[d]
    /\ owner'.next = owner.next /\ owner'.susp = owner.susp
    /\ inline \/ ~ g.waiter \/ group'.active # 0 => owner' = owner
    /\ ~ inline /\ g.waiter /\ group'.active = 0 => owner'.ready
    /\ run' = Owner /\ inline' = FALSE
    /\ inline => pc' = "body"
    /\ ~ inline => pc' = "check"

(* The harvest keeps the types and changes these fields.                   *)
LEMMA HarvestFacts ==
    ASSUME GroupType, CallType, NEW c \in Children, NEW tag \in {"done", "cancelled"},
           NEW g \in Groups, NEW turns \in ChildTurns, Harvest(c, tag, g, turns)
    PROVE  /\ group' \in Groups /\ child' \in ChildTurns
           /\ result' \in [Children -> {"none", "done", "cancelled"}]
           /\ awaited' \in [Children -> 0 .. MaxCalls]
           /\ owner' \in [next : Open .. Close, susp : BOOLEAN, ready : BOOLEAN]
           /\ run' = Owner /\ inline' = FALSE /\ pc' \in {"body", "check"}
           /\ Harvested(c, tag, g, turns)
<1>1. 0 \in 0 .. MaxCalls
  BY GroupAssumption
<1>2. /\ group' = [g EXCEPT !.active = @ - 1]
      /\ child' = [turns EXCEPT ![c].busy = FALSE]
      /\ result' = [result EXCEPT ![c] = tag]
      /\ awaited' = [awaited EXCEPT ![c] = 0]
      /\ run' = Owner /\ inline' = FALSE
      /\ pc' = IF inline THEN "body" ELSE "check"
  BY DEF Harvest, Uncounted
<1>3. /\ group' \in Groups /\ group'.active = g.active - 1 /\ group'.used = g.used
      /\ group'.waiter = g.waiter /\ group'.cancelled = g.cancelled
  BY <1>2 DEF Groups
<1>4. owner' = IF ~ inline /\ group'.active = 0 /\ g.waiter
               THEN [owner EXCEPT !.ready = TRUE] ELSE owner
  BY <1>2 DEF Harvest, Last, Uncounted
<1> QED
  BY <1>1, <1>2, <1>3, <1>4, ZenonT(30) DEF GroupType, CallType, ChildTurns, Harvested

(* g.start's turn record: busy, not suspended, no stale readiness.          *)
LEMMA StartFacts ==
    ASSUME GroupType, Start
    PROVE  /\ child' \in ChildTurns
           /\ child'[owner.next].busy /\ ~ child'[owner.next].susp
           /\ ~ child'[owner.next].ready
           /\ \A d \in Children : d # owner.next => child'[d] = child[d]
<1> DEFINE n == owner.next
           c1 == [child EXCEPT ![n].busy = TRUE]
           c2 == [c1 EXCEPT ![n].susp = FALSE]
<1>1. n \in Children /\ child' = [c2 EXCEPT ![n].ready = FALSE]
  BY DEF Start
<1>2. c1 \in ChildTurns /\ c1[n].busy
      /\ \A d \in Children : d # n => c1[d] = child[d]
  BY <1>1 DEF GroupType, ChildTurns
<1>3. c2 \in ChildTurns /\ c2[n].busy /\ ~ c2[n].susp
      /\ \A d \in Children : d # n => c2[d] = child[d]
  BY <1>1, <1>2 DEF ChildTurns
<1> HIDE DEF n, c1, c2
<1>4. /\ child' \in ChildTurns /\ child'[n].busy /\ ~ child'[n].susp
      /\ ~ child'[n].ready
      /\ \A d \in Children : d # n => child'[d] = child[d]
  BY <1>1, <1>3 DEF ChildTurns
<1> QED BY <1>4 DEF n

(* An awaited call suspends its turn and leaves the other turns alone.     *)
LEMMA CallsFacts ==
    ASSUME GroupType, NEW c \in Children, ChildCalls(c)
    PROVE  /\ child' \in ChildTurns
           /\ child'[c].susp /\ child'[c].busy = child[c].busy
           /\ child'[c].ready = child[c].ready
           /\ \A d \in Children : d # c => child'[d] = child[d]
<1>1. child' = [child EXCEPT ![c].susp = TRUE] /\ child \in ChildTurns
  BY DEF ChildCalls, GroupType
<1> QED BY <1>1 DEF ChildTurns

(* The ring has two slots at least, and an index stays in it.              *)
LEMMA AdvanceType ==
    /\ ReplyCap \in Nat /\ ReplyCap > 1
    /\ \A i \in 0 .. ReplyCap - 1 : Advance(i) \in 0 .. ReplyCap - 1
BY GroupAssumption DEF ReplyCap, Advance

(* Every variable is in its range when the boot starts ...                 *)
LEMMA TypesInit == Init => GroupType /\ CallType
<1> SUFFICES ASSUME Init PROVE GroupType /\ CallType
  OBVIOUS
<1>1. 0 \in 0 .. MaxCalls /\ 0 \in Open .. Close /\ Owner = 0
  BY GroupAssumption DEF Open, Close, Owner
<1>2. CallType
  <2>1. ring \in RingTypes
    BY AdvanceType DEF Init, RingTypes
  <2>2. 0 \in 0 .. ReplyCap - 1 /\ 0 \in 0 .. ReplyCap
    BY AdvanceType
  <2> QED BY <1>1, <2>1, <2>2, GroupAssumption DEF Init, CallType
<1>3. child \in ChildTurns /\ group \in Groups
  BY <1>1 DEF Init, ChildTurns, Groups
<1> QED
  BY <1>1, <1>2, <1>3 DEF Init, GroupType, Places, Open

(* ... and after every step of the test.                                   *)
LEMMA TypesTest ==
    ASSUME GroupType, CallType, TestBody
    PROVE  GroupType' /\ CallType'
<1> USE GroupAssumption DEF InBody, world, edge
<1>0. owner.next \in Children => owner.next + 1 \in Open .. Close
  BY DEF Children, Open, Close
<1>00. 1 \in Open .. Close /\ Close \in Open .. Close /\ Open \in Open .. Close
       /\ Join \in Open .. Close /\ Owner \notin Children
  BY DEF Open, Close, Owner, Children, Join
<1>1. CASE OpenGroup
  <2>1. group' \in Groups
    BY <1>1 DEF OpenGroup, Groups
  <2>2. owner' \in [next : Open .. Close, susp : BOOLEAN, ready : BOOLEAN]
    BY <1>1, <1>00 DEF OpenGroup, GroupType
  <2> QED BY <1>1, <2>1, <2>2 DEF OpenGroup, GroupType, CallType
<1>2. CASE StartRefused
  BY <1>2, <1>0 DEF StartRefused, GroupType, CallType
<1>3. CASE Start
  <2>1. child' \in ChildTurns
    BY <1>3, StartFacts
  <2>2. group' \in Groups
    BY <1>3 DEF Start, GroupType, Groups
  <2>3. owner' \in [next : Open .. Close, susp : BOOLEAN, ready : BOOLEAN]
    BY <1>3, <1>0 DEF Start, GroupType
  <2> QED BY <1>3, <2>1, <2>2, <2>3 DEF Start, GroupType, CallType
<1>4. CASE OwnerCheckpoint
  BY <1>4, ServicedFacts DEF OwnerCheckpoint, GroupType, CallType
<1>5. CASE JoinNow
  BY <1>5, <1>00, ServicedFacts DEF JoinNow, GroupType, CallType
<1>6. CASE JoinWait
  BY <1>6 DEF JoinWait, GroupType, CallType, Groups, Places
<1>7. CASE SkipJoin
  BY <1>7, <1>00 DEF SkipJoin, GroupType, CallType
<1>8. CASE CloseGroup
  BY <1>8, <1>00 DEF CloseGroup, GroupType, CallType, Groups
<1>9. CASE TestEnds
  BY <1>9 DEF TestEnds, GroupType, CallType, Places
<1> QED
  BY <1>1, <1>2, <1>3, <1>4, <1>5, <1>6, <1>7, <1>8, <1>9 DEF TestBody

(* ... of a child's code ...                                               *)
LEMMA TypesChild ==
    ASSUME GroupType, CallType, NEW c \in Children, ChildBody(c)
    PROVE  GroupType' /\ CallType'
<1> USE GroupAssumption DEF InBody, world, edge
<1>0. child \in ChildTurns /\ group \in Groups /\ Owner \in {Owner} \cup Children
      /\ "body" \in Places /\ "check" \in Places
  BY DEF GroupType, Places
<1>1. CASE ChildCalls(c)
  <2>1. calls' \in 0 .. MaxCalls /\ calls' \in Calls
    BY <1>1 DEF ChildCalls, CallType, Calls
  <2>2. mail' \subseteq Messages
    BY <1>1, <2>1 DEF ChildCalls, CallType, Messages
  <2>3. child' \in ChildTurns
    BY <1>1, CallsFacts
  <2> QED BY <1>0, <1>1, <2>1, <2>2, <2>3 DEF ChildCalls, GroupType, CallType
<1>2. CASE ChildReturns(c)
  BY <1>0, <1>2, HarvestFacts DEF ChildReturns, GroupType, CallType
<1>3. CASE ChildCheckpoint(c)
  <2>1. CASE Ends(Scanned)
    <3>1. Scanned \in Groups /\ TurnsAfter(child) \in ChildTurns
      BY <1>0, ScannedFacts, TurnsAfterFacts
    <3>2. Harvest(c, "cancelled", Scanned, TurnsAfter(child))
      BY <1>3, <2>1 DEF ChildCheckpoint
    <3> QED
      BY <1>0, <1>3, <3>1, <3>2, HarvestFacts DEF ChildCheckpoint, GroupType, CallType
  <2>2. CASE ~ Ends(Scanned)
    BY <1>3, <2>2 DEF ChildCheckpoint, GroupType, CallType
  <2> QED BY <2>1, <2>2
<1> QED
  BY <1>1, <1>2, <1>3 DEF ChildBody

(* A reply is stored in its caller's turn record.                          *)
LEMMA DeliveredFacts ==
    ASSUME GroupType, NEW r \in Messages, Delivered(r)
    PROVE  /\ child' \in ChildTurns
           /\ \A d \in Children : d # r.from => child'[d] = child[d]
           /\ child'[r.from].reply = r.id
           /\ \A d \in Children : /\ child'[d].busy = child[d].busy
                                  /\ child'[d].susp = child[d].susp
<1>1. r.id \in 0 .. MaxCalls /\ r.from \in Children
  BY GroupAssumption DEF Calls, Messages
<1> QED
  BY <1>1 DEF Delivered, GroupType, ChildTurns

(* The child that child_poll resumes, before the checkpoint.               *)
ResumedChild(c) == [child EXCEPT ![c].susp = FALSE, ![c].ready = FALSE]

(* Only its own flags differ.                                              *)
LEMMA ResumedFacts ==
    ASSUME GroupType, NEW c \in Children
    PROVE  /\ ResumedChild(c) \in ChildTurns
           /\ ~ ResumedChild(c)[c].susp /\ ~ ResumedChild(c)[c].ready
           /\ ResumedChild(c)[c].busy = child[c].busy
           /\ \A d \in Children : d # c => ResumedChild(c)[d] = child[d]
<1> DEFINE c1 == [child EXCEPT ![c].susp = FALSE]
<1>1. ResumedChild(c) = [c1 EXCEPT ![c].ready = FALSE]
  BY DEF ResumedChild
<1>2. c1 \in ChildTurns /\ ~ c1[c].susp /\ c1[c].busy = child[c].busy
      /\ \A d \in Children : d # c => c1[d] = child[d]
  <2>1. child \in ChildTurns
    BY DEF GroupType
  <2> QED BY <2>1 DEF ChildTurns
<1> HIDE DEF c1
<1> QED BY <1>1, <1>2 DEF ChildTurns

(* What a resumed child does: it is harvested, cancelled, or runs on.      *)
LEMMA ResumeCases ==
    ASSUME NEW c \in Children, ChildResumes(c)
    PROVE  /\ Ends(GroupAfter) =>
                  Harvest(c, "cancelled", GroupAfter, TurnsAfter(ResumedChild(c)))
           /\ ~ Ends(GroupAfter) =>
                  /\ group' = GroupAfter /\ child' = TurnsAfter(ResumedChild(c))
                  /\ awaited' = [awaited EXCEPT ![c] = 0]
                  /\ pc' = "body" /\ run' = c /\ inline' = FALSE
                  /\ UNCHANGED <<result, owner>>
BY DEF ChildResumes, ResumedChild

(* ... of the executor loop ...                                            *)
LEMMA TypesExecutor ==
    ASSUME GroupType, CallType, Executor
    PROVE  GroupType' /\ CallType'
<1> USE GroupAssumption DEF world, edge, Places
<1>0. child \in ChildTurns /\ group \in Groups /\ Owner \in {Owner} \cup Children
      /\ 0 \in 0 .. MaxCalls
  BY DEF GroupType
<1>1. CASE Check
  BY <1>1, ServicedFacts DEF Check, GroupType, CallType
<1>2. CASE Poll
  BY <1>2 DEF Poll, GroupType, CallType, Deadline, Groups
<1>3. CASE Resume
  <2>1. Close \in Open .. Close
    BY DEF Open, Close
  <2> QED BY <1>3, <2>1, ServicedFacts DEF Resume, GroupType, CallType
<1>4. CASE DrainAborts \/ DrainEnd \/ SelectNone
  BY <1>4, ZenonT(30) DEF DrainAborts, DrainEnd, SelectNone, GroupType, CallType
<1>8. CASE NothingRan \/ Unpark \/ DeadlineWake
  BY <1>8, ZenonT(30) DEF NothingRan, Unpark, DeadlineWake, GroupType, CallType
<1>5. CASE Drain
  <2>1. ring.slot[ring.head] \in Messages
    BY <1>5 DEF Drain, CallType, RingTypes
  <2>2. child' \in ChildTurns
    BY <1>5, <2>1, DeliveredFacts DEF Drain
  <2>3. ring' \in RingTypes /\ taken' \in 0 .. ReplyCap
    BY <1>5, AdvanceType DEF Drain, CallType, RingTypes
  <2> QED BY <1>5, <2>2, <2>3 DEF Drain, GroupType, CallType
<1>9. CASE DrainStore
  <2>1. taken - 1 \in 0 .. ReplyCap /\ 0 \in 0 .. ReplyCap
    BY <1>9, AdvanceType DEF DrainStore, CallType
  <2>2. ring' \in RingTypes
    BY <1>9, <2>1 DEF DrainStore, CallType, RingTypes
  <2> QED BY <1>9, <2>1, <2>2 DEF DrainStore, GroupType, CallType
<1>6. ASSUME NEW m \in mail, Select(m) PROVE GroupType' /\ CallType'
  <2>1. m \in Messages
    BY DEF CallType
  <2>2. child' \in ChildTurns
    BY <1>6, <2>1, DeliveredFacts DEF Select
  <2> QED BY <1>6, <2>2 DEF Select, GroupType, CallType
<1>7. ASSUME NEW c \in Children, ChildResumes(c) PROVE GroupType' /\ CallType'
  <2>1. /\ GroupAfter \in Groups /\ TurnsAfter(ResumedChild(c)) \in ChildTurns
    BY ScannedFacts, TurnsAfterFacts, ResumedFacts
  <2>2. /\ UNCHANGED <<remote, mail, ring, replying, found, taken, moved, calls, expired>>
        /\ pend' = FALSE
    BY <1>7 DEF ChildResumes
  <2>3. CASE Ends(GroupAfter)
    <3>1. Harvest(c, "cancelled", GroupAfter, TurnsAfter(ResumedChild(c)))
      BY <1>7, <2>3, ResumeCases
    <3> QED BY <2>1, <2>2, <3>1, HarvestFacts DEF GroupType, CallType
  <2>4. CASE ~ Ends(GroupAfter)
    <3>1. /\ group' \in Groups /\ child' \in ChildTurns
          /\ awaited' \in [Children -> 0 .. MaxCalls]
      BY <1>0, <1>7, <2>1, <2>4, ResumeCases DEF CallType
    <3> QED BY <1>7, <2>2, <2>4, <3>1, ResumeCases DEF GroupType, CallType
  <2> QED BY <2>3, <2>4
<1> QED
  BY <1>1, <1>2, <1>3, <1>4, <1>5, <1>6, <1>7, <1>8, <1>9 DEF Executor

(* ... and of the callees on the other core and the clock.                 *)
LEMMA TypesNext == GroupType /\ CallType /\ [Next]_vars => GroupType' /\ CallType'
<1> SUFFICES ASSUME GroupType, CallType, [Next]_vars PROVE GroupType' /\ CallType'
  OBVIOUS
<1>1. CASE TestBody
  BY <1>1, TypesTest
<1>2. CASE Executor
  BY <1>2, TypesExecutor
<1>3. ASSUME NEW c \in Children, ChildBody(c) PROVE GroupType' /\ CallType'
  BY <1>3, TypesChild
<1>4. ASSUME NEW m \in mail, RemoteReply(m) PROVE GroupType' /\ CallType'
  <2>1. ring.count \in 0 .. ReplyCap - 1 /\ m \in Messages
    BY <1>4, AdvanceType DEF RemoteReply, CallType, RingTypes
  <2> QED BY <1>4, <2>1 DEF RemoteReply, GroupType, CallType
<1>7. ASSUME NEW m \in mail, ReplyRefused(m) PROVE GroupType' /\ CallType'
  BY <1>7 DEF ReplyRefused, GroupType, CallType
<1>8. CASE ReplyStored
  <2>1. PICK m \in replying :
            ring' = [ring EXCEPT !.slot[ring.tail] = m, !.tail = Advance(@),
                                 !.count = found + 1]
    BY <1>8 DEF ReplyStored
  <2>2. m \in Messages /\ found + 1 \in 0 .. ReplyCap /\ 0 \in 0 .. ReplyCap - 1
    BY AdvanceType DEF CallType
  <2>3. [ring.slot EXCEPT ![ring.tail] = m] \in [0 .. ReplyCap - 1 -> Messages \cup {Unwritten}]
    BY <2>2 DEF CallType, RingTypes
  <2>4. ring' \in RingTypes
    BY <2>1, <2>2, <2>3, AdvanceType DEF CallType, RingTypes
  <2> QED BY <1>8, <2>2, <2>4 DEF ReplyStored, GroupType, CallType
<1>5. CASE Tick
  BY <1>5 DEF Tick, GroupType, CallType, world, edge
<1>6. CASE UNCHANGED vars
  BY <1>6 DEF vars, world, edge, GroupType, CallType
<1> QED
  BY <1>1, <1>2, <1>3, <1>4, <1>5, <1>6, <1>7, <1>8 DEF Next, CoreZero, Callees, Stopped
-----------------------------------------------------------------------------
(* Counting.                                                               *)

(* There are finitely many turns, and no more are busy than there are.     *)
LEMMA BusyFinite ==
    ASSUME NEW turns
    PROVE  /\ IsFiniteSet(Busy(turns)) /\ Cardinality(Busy(turns)) \in Nat
           /\ Cardinality(Busy(turns)) <= NChildren
           /\ Cardinality(Busy(turns)) = 0 <=> Busy(turns) = {}
<1>1. IsFiniteSet(Children) /\ Cardinality(Children) = NChildren
  BY FS_Interval, GroupAssumption DEF Children
<1>2. Busy(turns) \in SUBSET Children
  BY DEF Busy
<1> QED
  BY <1>1, <1>2, FS_Subset, FS_CardinalityType, FS_EmptySet

(* The count is positive while somebody is busy, and only then.            *)
LEMMA CountedIs ==
    ASSUME Counted
    PROVE  /\ group.active \in 0 .. NChildren
           /\ \A c \in Children : child[c].busy => group.active > 0
           /\ group.active = 0 => \A c \in Children : ~ child[c].busy
<1>1. /\ Cardinality(Busy(child)) \in Nat /\ Cardinality(Busy(child)) <= NChildren
      /\ Cardinality(Busy(child)) = 0 <=> Busy(child) = {}
  BY BusyFinite
<1>2. group.active \in 0 .. NChildren /\ (group.active = 0 <=> Busy(child) = {})
  BY <1>1, GroupAssumption DEF Counted
<1> QED
  BY <1>2 DEF Busy

(* One turn more is busy, counted by g.start.                              *)
LEMMA OneMore ==
    ASSUME NEW c \in Children, NEW before, NEW after, ~ before[c].busy, after[c].busy,
           \A d \in Children : d # c => (after[d].busy <=> before[d].busy)
    PROVE  Cardinality(Busy(after)) = Cardinality(Busy(before)) + 1
<1>1. Busy(after) = Busy(before) \cup {c} /\ c \notin Busy(before)
  BY DEF Busy
<1> QED
  BY <1>1, BusyFinite, FS_AddElement

(* One turn less, uncounted by its harvest.                                *)
LEMMA OneLess ==
    ASSUME NEW c \in Children, NEW before, NEW after, before[c].busy, ~ after[c].busy,
           \A d \in Children : d # c => (after[d].busy <=> before[d].busy)
    PROVE  Cardinality(Busy(after)) = Cardinality(Busy(before)) - 1
<1>1. Busy(after) = Busy(before) \ {c} /\ c \in Busy(before)
  BY DEF Busy
<1> QED
  BY <1>1, BusyFinite, FS_RemoveElement

(* As many turns are busy as before.                                       *)
LEMMA AsMany ==
    ASSUME NEW before, NEW after,
           \A d \in Children : (after[d].busy <=> before[d].busy)
    PROVE  Busy(after) = Busy(before)
BY DEF Busy

-----------------------------------------------------------------------------
(* The invariant, action by action.                                        *)

\* GroupInv without the types.
Core ==
    /\ Counted /\ Started /\ Flow /\ Tagged /\ Answers
    /\ JoinHasSomebody /\ CancelledNeverRuns

\* What a step leaves alone that starts, ends and suspends no turn.
Calm ==
    /\ UNCHANGED <<owner, run, inline, result>>
    /\ pc' = "body" <=> pc = "body"
    /\ pc' = "halted" <=> pc = "halted"
    /\ group'.used = group.used /\ group'.active = group.active
    /\ group'.waiter = group.waiter
    /\ \A c \in Children : /\ child'[c].busy = child[c].busy
                           /\ child'[c].susp = child[c].susp

(* Such a step keeps the count, the results and who waits for whom.        *)
LEMMA CalmKeeps ==
    ASSUME GroupInv, GroupType', Calm
    PROVE  /\ Counted' /\ Started' /\ Flow' /\ Tagged' /\ JoinHasSomebody'
<1> USE DEF GroupInv, Calm
<1>1. Counted'
  BY AsMany DEF Counted
<1>2. Started'
  BY DEF Started
<1>3. Flow'
  BY DEF Flow, GroupType
<1>4. Tagged'
  BY DEF Tagged
<1>5. JoinHasSomebody'
  BY DEF JoinHasSomebody
<1> QED BY <1>1, <1>2, <1>3, <1>4, <1>5

\* What a step leaves alone that concerns no reply: the calls on their way,
\* and the caller's side of them while its group is not cancelled.
Quiet ==
    /\ UNCHANGED <<remote, mail, ring, replying, taken, awaited>>
    /\ pc' = "kids" => pc = "kids" \/ mail = {}
    /\ group.cancelled => group'.cancelled
    /\ \A c \in Children :
          /\ child'[c].busy = child[c].busy /\ child'[c].susp = child[c].susp
          /\ child'[c].reply = child[c].reply
          /\ ~ child[c].susp => child'[c].ready = child[c].ready
          /\ ~ group'.cancelled => child'[c].ready = child[c].ready

(* Such a step keeps every local call accounted for.                       *)
LEMMA QuietKeeps ==
    ASSUME GroupInv, GroupType', Quiet, run' = run
    PROVE  Answers'
<1> SUFFICES ASSUME ~ remote' PROVE Answers'
  BY DEF Answers
<1>1. /\ Idle' /\ (pc' = "kids" => mail' = {})
      /\ \A m \in mail' : /\ child[m.from].busy /\ child[m.from].susp
                          /\ awaited'[m.from] = m.id /\ m.from \in Children
  BY DEF GroupInv, Answers, Quiet, CallType, Idle, Messages
<1>2. \A m \in mail' : /\ child'[m.from].busy /\ child'[m.from].susp
                       /\ awaited'[m.from] = m.id
  BY <1>1 DEF Quiet
<1>3. run' # Owner => ~ child'[run'].ready
  <2>1. run # Owner => run \in Children /\ ~ child[run].ready /\ ~ child[run].susp
    BY DEF GroupInv, Answers, Quiet, Flow, GroupType
  <2> QED BY <2>1 DEF Quiet
<1>4. LocalRightReply'
  <2> SUFFICES ASSUME NEW c \in Children, RightReply(c) PROVE RightReply(c)'
    BY DEF GroupInv, Answers, Quiet, LocalRightReply
  <2> QED BY DEF RightReply, Pollable, Quiet
<1> QED BY <1>1, <1>2, <1>3, <1>4 DEF Answers

(* Core 0's own steps that neither start nor end a turn, the clock's and a *)
(* callee's on the other core.                                             *)
LEMMA LoopKeeps ==
    ASSUME GroupInv, GroupType', CallType',
           \/ OwnerCheckpoint \/ Check \/ Poll \/ DrainAborts \/ DrainEnd \/ SelectNone
           \/ NothingRan \/ Unpark \/ DeadlineWake \/ Tick \/ UNCHANGED vars
    PROVE  Core'
<1> USE DEF world, edge, vars
<1>1. CASE OwnerCheckpoint
  <2>1. Calm /\ Quiet /\ run' = Owner /\ run' = run
    BY <1>1, ServicedFacts DEF OwnerCheckpoint, Calm, Quiet, GroupInv, InBody
  <2>2. CancelledNeverRuns'
    BY <2>1 DEF CancelledNeverRuns
  <2> QED BY <2>1, <2>2, CalmKeeps, QuietKeeps DEF Core
<1>2. CASE Check
  <2>1. Calm /\ Quiet /\ run' = run /\ pc' = "poll"
    BY <1>2, ServicedFacts DEF Check, Calm, Quiet, GroupInv
  <2>2. CancelledNeverRuns'
    BY <2>1 DEF CancelledNeverRuns
  <2> QED BY <2>1, <2>2, CalmKeeps, QuietKeeps DEF Core
<1>3. CASE Poll
  <2>1. Calm /\ Quiet /\ run' = run /\ pc' \in {"test", "drain"}
    BY <1>3 DEF Poll, Calm, Quiet
  <2>2. CancelledNeverRuns'
    BY <2>1 DEF CancelledNeverRuns
  <2> QED BY <2>1, <2>2, CalmKeeps, QuietKeeps DEF Core
<1>4. CASE DrainAborts \/ DrainEnd
  <2>1. Calm /\ Quiet /\ run' = run /\ pc' # "body"
    BY <1>4 DEF DrainAborts, DrainEnd, Calm, Quiet
  <2>2. CancelledNeverRuns'
    BY <2>1 DEF CancelledNeverRuns
  <2> QED BY <2>1, <2>2, CalmKeeps, QuietKeeps DEF Core
<1>5. CASE SelectNone
  <2>1. Calm /\ run' = run /\ pc' = "kids" /\ (remote \/ mail = {})
    BY <1>5 DEF SelectNone, Calm
  <2>2. CancelledNeverRuns'
    BY <2>1 DEF CancelledNeverRuns
  <2>3. Answers'
    <3>1. CASE remote
      BY <1>5, <3>1 DEF SelectNone, Answers
    <3>2. CASE mail = {}
      BY <1>5, <2>1, <3>2, QuietKeeps DEF SelectNone, Quiet
    <3> QED BY <2>1, <3>1, <3>2
  <2> QED BY <2>1, <2>2, <2>3, CalmKeeps DEF Core
<1>6. CASE NothingRan \/ Unpark \/ DeadlineWake
  <2>1. Calm /\ Quiet /\ run' = run /\ pc' # "body"
    BY <1>6 DEF NothingRan, Unpark, DeadlineWake, Calm, Quiet
  <2>2. CancelledNeverRuns'
    BY <2>1 DEF CancelledNeverRuns
  <2> QED BY <2>1, <2>2, CalmKeeps, QuietKeeps DEF Core
<1>7. CASE Tick \/ UNCHANGED vars
  <2>1. Calm /\ Quiet /\ run' = run /\ pc' = pc /\ group' = group
    BY <1>7 DEF Tick, Calm, Quiet
  <2>2. CancelledNeverRuns'
    BY <2>1 DEF CancelledNeverRuns, GroupInv
  <2> QED BY <2>1, <2>2, CalmKeeps, QuietKeeps DEF Core
<1> QED BY <1>1, <1>2, <1>3, <1>4, <1>5, <1>6, <1>7

(* The reply ring's steps: a callee on the other core replies, core 0      *)
(* drains a reply.  None of them happens with the callees on this core.    *)
LEMMA RingKeeps ==
    ASSUME GroupInv, GroupType', CallType',
           \/ Drain \/ DrainStore \/ ReplyStored
           \/ \E m \in mail : ReplyRefused(m) \/ RemoteReply(m)
    PROVE  Core'
<1>1. remote' = remote /\ remote
  BY DEF Drain, DrainStore, ReplyStored, ReplyRefused, RemoteReply, GroupInv, Answers, Idle,
         CallType
<1>2. CASE DrainStore \/ ReplyStored \/ \E m \in mail : ReplyRefused(m) \/ RemoteReply(m)
  <2>1. Calm /\ UNCHANGED <<group, pc, run>>
    BY <1>2 DEF DrainStore, ReplyStored, ReplyRefused, RemoteReply, Calm
  <2>2. CancelledNeverRuns'
    BY <2>1 DEF CancelledNeverRuns, GroupInv
  <2> QED BY <1>1, <2>1, <2>2, CalmKeeps DEF Core, Answers
<1>3. CASE Drain
  <2>1. /\ UNCHANGED <<owner, run, inline, result, group, pc>> /\ pc = "drain"
        /\ Delivered(ring.slot[ring.head]) /\ ring.slot[ring.head] \in Messages
    BY <1>3 DEF Drain, GroupInv, CallType, RingTypes
  <2>2. Calm
    BY <2>1, DeliveredFacts DEF Calm, GroupInv
  <2>3. CancelledNeverRuns'
    BY <2>1 DEF CancelledNeverRuns
  <2> QED BY <1>1, <2>2, <2>3, CalmKeeps DEF Core, Answers
<1> QED BY <1>2, <1>3

(* An actor of this core runs its method and replies at once.              *)
LEMMA ReplyKeeps ==
    ASSUME GroupInv, GroupType', CallType', NEW m \in mail, Select(m)
    PROVE  Core'
<1>1. /\ UNCHANGED <<owner, run, inline, result, group, remote, awaited, ring, replying, taken>>
      /\ pc = "select" /\ pc' = "check" /\ mail' = mail \ {m}
      /\ Delivered(m) /\ ~ remote
  BY DEF Select, edge
<1>2. Calm
  BY <1>1, DeliveredFacts DEF Calm, GroupInv, CallType
<1>3. CancelledNeverRuns'
  BY <1>1 DEF CancelledNeverRuns
<1>4. Answers'
  <2>1. run' = Owner /\ Idle'
    BY <1>1 DEF GroupInv, Flow, Answers, Idle
  <2>2. \A n \in mail' : /\ n.from \in Children /\ child[n.from].busy
                         /\ child[n.from].susp /\ awaited[n.from] = n.id
    BY <1>1 DEF GroupInv, Answers, CallType, Messages
  <2>3. \A n \in mail' : /\ child'[n.from].busy /\ child'[n.from].susp
                         /\ awaited'[n.from] = n.id
    BY <1>1, <1>2, <2>2 DEF Calm
  <2>4. ASSUME NEW c \in Children PROVE RightReply(c)'
    <3>1. CASE c = m.from
      BY <1>1, <3>1, DeliveredFacts DEF GroupInv, Answers, CallType, RightReply, Pollable
    <3>2. CASE c # m.from
      <4>1. child'[c] = child[c]
        BY <1>1, <3>2, DeliveredFacts DEF GroupInv, CallType
      <4> QED BY <1>1, <4>1
              DEF GroupInv, Answers, LocalRightReply, RightReply, Pollable
    <3> QED BY <3>1, <3>2
  <2> QED BY <1>1, <2>1, <2>3, <2>4 DEF Answers, LocalRightReply
<1> QED BY <1>2, <1>3, <1>4, CalmKeeps DEF Core

(* The test opens a group: nobody is busy, every tag is taken back.        *)
LEMMA OpenKeeps ==
    ASSUME GroupInv, GroupType', CallType', OpenGroup
    PROVE  Core'
<1>1. /\ pc = "body" /\ run = Owner /\ owner.next = Open /\ owner'.next = 1
      /\ owner'.susp = owner.susp /\ owner'.ready = owner.ready
      /\ group'.used /\ ~ group'.cancelled /\ group'.active = 0
      /\ UNCHANGED <<remote, child, awaited, mail, ring, replying, taken, pend, pc, run, inline>>
  BY DEF OpenGroup, InBody, world, edge, GroupInv, GroupType
<1>2. \A c \in Children : ~ child[c].busy
  BY <1>1 DEF GroupInv, Started, Open, Children
<1>3. Counted'
  BY <1>1, <1>2, FS_EmptySet DEF Counted, Busy
<1>4. Started' /\ Tagged'
  BY <1>1, <1>2 DEF Started, Tagged, Children
<1>5. Flow' /\ JoinHasSomebody'
  BY <1>1, GroupAssumption
     DEF GroupInv, Flow, JoinHasSomebody, Open, Close, Join, GroupType
<1>6. Answers'
  BY <1>1, <1>2 DEF GroupInv, Answers, Idle, LocalRightReply, RightReply, Pollable
<1>7. CancelledNeverRuns'
  BY <1>1 DEF CancelledNeverRuns
<1> QED BY <1>3, <1>4, <1>5, <1>6, <1>7 DEF Core

(* g.start in a cancelled group tags the child and goes on.                *)
LEMMA RefusedKeeps ==
    ASSUME GroupInv, GroupType', CallType', StartRefused
    PROVE  Core'
<1>1. /\ pc = "body" /\ run = Owner /\ owner.next \in Children
      /\ owner'.next = owner.next + 1
      /\ owner'.susp = owner.susp /\ owner'.ready = owner.ready
      /\ result'[owner.next] = "cancelled"
      /\ \A c \in Children : c # owner.next => result'[c] = result[c]
      /\ UNCHANGED <<remote, group, child, awaited, mail, ring, replying, taken, pend, pc, run, inline>>
  BY DEF StartRefused, InBody, world, edge, GroupInv, GroupType
<1>2. Counted' /\ CancelledNeverRuns'
  BY <1>1 DEF GroupInv, Counted, CancelledNeverRuns
<1>3. Started'
  BY <1>1 DEF GroupInv, Started, Children
<1>4. Tagged'
  BY <1>1 DEF GroupInv, Tagged, Children
<1>5. Flow' /\ JoinHasSomebody'
  <2>1. owner.next + 1 # Open /\ owner.next + 1 # Close
        /\ owner.next # Open /\ owner.next # Join
    BY <1>1, GroupAssumption DEF Children, Open, Close, Join
  <2> QED BY <1>1, <2>1 DEF GroupInv, Flow, JoinHasSomebody, GroupType
<1>6. Answers'
  BY <1>1 DEF GroupInv, Answers, Idle, LocalRightReply, RightReply, Pollable
<1> QED BY <1>2, <1>3, <1>4, <1>5, <1>6 DEF Core

(* g.start otherwise: one more child is busy and counted.                  *)
LEMMA StartKeeps ==
    ASSUME GroupInv, GroupType', CallType', Start
    PROVE  Core'
<1> DEFINE n == owner.next
<1>1. /\ pc = "body" /\ run = Owner /\ n \in Children /\ ~ group.cancelled
      /\ owner'.next = n + 1
      /\ owner'.susp = owner.susp /\ owner'.ready = owner.ready
      /\ group'.used = group.used /\ group'.cancelled = group.cancelled
      /\ group'.active = group.active + 1
      /\ run' = n /\ inline'
      /\ UNCHANGED <<remote, result, awaited, mail, ring, replying, taken, pend, pc>>
  BY DEF Start, InBody, world, edge, GroupInv, GroupType, Groups
<1>2. /\ child'[n].busy /\ ~ child'[n].susp /\ ~ child'[n].ready
      /\ \A c \in Children : c # n => child'[c] = child[c]
  BY StartFacts DEF GroupInv
<1>3. ~ child[n].busy
  BY <1>1 DEF GroupInv, Started, Children
<1> HIDE DEF n
<1>4. Counted'
  BY <1>1, <1>2, <1>3, OneMore DEF GroupInv, Counted
<1>5. Started' /\ Tagged'
  BY <1>1, <1>2 DEF GroupInv, Started, Tagged, Children, n
<1>6. n # Owner /\ n # Close /\ n + 1 # Open /\ n + 1 # Close /\ n # Open /\ n # Join
  BY <1>1, GroupAssumption DEF Children, Owner, Open, Close, Join
<1>7. ~ owner.susp /\ ~ owner.ready /\ group.used
  BY <1>1, <1>6 DEF GroupInv, Flow, n
<1>8. Flow' /\ JoinHasSomebody' /\ CancelledNeverRuns'
  BY <1>1, <1>2, <1>6, <1>7 DEF Flow, JoinHasSomebody, CancelledNeverRuns, GroupType
<1>9. Answers'
  <2> SUFFICES ASSUME ~ remote PROVE Answers'
    BY <1>1 DEF Answers
  <2>1. \A m \in mail : m.from \in Children /\ m.from # n
    BY <1>3 DEF GroupInv, Answers, CallType, Messages
  <2>2. \A c \in Children : RightReply(c)'
    BY <1>1, <1>2 DEF GroupInv, Answers, LocalRightReply, RightReply, Pollable
  <2> QED BY <1>1, <1>2, <2>1, <2>2 DEF GroupInv, Answers, Idle, LocalRightReply
<1> QED BY <1>4, <1>5, <1>8, <1>9 DEF Core

(* await g.join_all() with no child active, or the end of a body without   *)
(* it, which may then leave no child active either.                        *)
LEMMA JoinKeeps ==
    ASSUME JoinActive, GroupInv, GroupType', CallType', JoinNow \/ SkipJoin
    PROVE  Core'
<1>1. /\ pc = "body" /\ run = Owner /\ owner.next = Join /\ owner'.next = Close
      /\ owner'.susp = owner.susp /\ owner'.ready = owner.ready
      /\ group.active = 0
      /\ UNCHANGED <<remote, result, awaited, mail, ring, replying, taken, pc, run, inline>>
  BY DEF JoinNow, SkipJoin, InBody, Joined, world, edge, GroupInv, GroupType
<1>2. /\ group'.used = group.used /\ group'.active = group.active
      /\ group'.waiter = group.waiter
      /\ group.cancelled => group'.cancelled
      /\ \A c \in Children :
           /\ child'[c].busy = child[c].busy /\ child'[c].susp = child[c].susp
           /\ child'[c].reply = child[c].reply
           /\ ~ child[c].susp => child'[c].ready = child[c].ready
           /\ ~ group'.cancelled => child'[c].ready = child[c].ready
  BY ServicedFacts DEF JoinNow, SkipJoin, GroupInv
<1>3. \A c \in Children : ~ child[c].busy
  BY <1>1, CountedIs DEF GroupInv
<1>4. Counted'
  BY <1>2, AsMany DEF GroupInv, Counted
<1>5. Started' /\ Tagged'
  BY <1>1, <1>2, <1>3, GroupAssumption DEF GroupInv, Started, Tagged, Children, Join
<1>6. Join # Open /\ Close # Open /\ Join # Close
  BY GroupAssumption DEF Join, Open, Close
<1>7. Flow' /\ JoinHasSomebody' /\ CancelledNeverRuns'
  BY <1>1, <1>2, <1>6 DEF GroupInv, Flow, JoinHasSomebody, CancelledNeverRuns, GroupType
<1>8. Quiet
  BY <1>1, <1>2 DEF Quiet
<1> QED BY <1>1, <1>4, <1>5, <1>7, <1>8, QuietKeeps DEF Core

(* await g.join_all() with a child active: the owner waits for it.         *)
LEMMA WaitKeeps ==
    ASSUME GroupInv, GroupType', CallType', JoinWait
    PROVE  Core'
<1>1. /\ pc = "body" /\ run = Owner /\ owner.next = Join /\ owner'.next = Join
      /\ owner'.susp /\ owner'.ready = owner.ready /\ pc' = "check"
      /\ group.active # 0 /\ group'.active = group.active
      /\ group'.used = group.used /\ group'.waiter
      /\ group'.cancelled = group.cancelled
      /\ UNCHANGED <<remote, result, child, awaited, mail, ring, replying, taken, pend, run, inline>>
  BY DEF JoinWait, InBody, Joined, world, edge, GroupInv, GroupType, Groups
<1>2. Counted' /\ Started' /\ Tagged'
  BY <1>1 DEF GroupInv, Counted, Started, Tagged
<1>3. group.active > 0
  BY <1>1, CountedIs DEF GroupInv
<1>4. Join # Close
  BY GroupAssumption DEF Join, Close
<1>5. Flow' /\ JoinHasSomebody' /\ CancelledNeverRuns'
  BY <1>1, <1>3, <1>4 DEF GroupInv, Flow, JoinHasSomebody, CancelledNeverRuns, GroupType
<1>6. Quiet
  BY <1>1 DEF Quiet
<1> QED BY <1>1, <1>2, <1>5, <1>6, QuietKeeps DEF Core

(* The close of the group finds no child of it busy.                       *)
LEMMA CloseKeeps ==
    ASSUME GroupInv, GroupType', CallType', CloseGroup
    PROVE  Core'
<1>1. /\ pc = "body" /\ run = Owner /\ owner.next = Close /\ owner'.next = Open
      /\ owner'.susp = owner.susp /\ owner'.ready = owner.ready
      /\ group'.active = group.active /\ ~ group'.used
      /\ group'.waiter = group.waiter /\ group'.cancelled = group.cancelled
      /\ UNCHANGED <<remote, result, child, awaited, mail, ring, replying, taken, pend, pc, run, inline>>
  BY DEF CloseGroup, InBody, world, edge, GroupInv, GroupType, Groups
<1>2. \A c \in Children : ~ child[c].busy
  BY <1>1, CountedIs DEF GroupInv, Flow
<1>3. Counted' /\ Started' /\ Tagged'
  BY <1>1, <1>2 DEF GroupInv, Counted, Started, Tagged
<1>4. Close # Join /\ Open # Close
  BY GroupAssumption DEF Join, Close, Open
<1>5. Flow' /\ JoinHasSomebody' /\ CancelledNeverRuns'
  BY <1>1, <1>4 DEF GroupInv, Flow, JoinHasSomebody, CancelledNeverRuns, GroupType
<1>6. Quiet
  BY <1>1 DEF Quiet
<1> QED BY <1>1, <1>3, <1>5, <1>6, QuietKeeps DEF Core

(* The test ends after the close of its last group.                        *)
LEMMA EndsKeeps ==
    ASSUME GroupInv, GroupType', CallType', TestEnds
    PROVE  Core'
<1>1. /\ pc = "body" /\ run = Owner /\ pc' = "halted"
      /\ UNCHANGED <<remote, group, result, child, owner, awaited, mail, ring, replying, taken, pend, run,
                     inline>>
  BY DEF TestEnds, InBody, world, edge
<1>2. Counted' /\ Started' /\ Tagged' /\ JoinHasSomebody' /\ CancelledNeverRuns'
  BY <1>1 DEF GroupInv, Counted, Started, Tagged, JoinHasSomebody, CancelledNeverRuns
<1>3. Flow'
  BY <1>1 DEF GroupInv, Flow
<1>4. Quiet
  BY <1>1 DEF Quiet
<1> QED BY <1>1, <1>2, <1>3, <1>4, QuietKeeps DEF Core

(* The owner resumes from join_all only when no child is active.           *)
LEMMA ResumeKeeps ==
    ASSUME GroupInv, GroupType', CallType', Resume
    PROVE  Core'
<1>1. /\ pc = "test" /\ pc' = "body" /\ owner.ready /\ owner'.next = Close
      /\ ~ owner'.susp /\ ~ owner'.ready /\ Serviced
      /\ UNCHANGED <<remote, result, awaited, mail, ring, replying, taken, run, inline>>
  BY DEF Resume, world, edge
<1>2. group.active = 0 /\ owner.susp /\ owner.next = Join /\ run = Owner /\ ~ inline
  BY <1>1 DEF GroupInv, Flow, GroupType
<1>3. /\ \A c \in Children : ~ child[c].busy
      /\ Join # Open /\ Close # Open
      /\ group.used
  BY <1>2, CountedIs, GroupAssumption DEF GroupInv, Flow, Join, Open, Close
<1>4. Counted'
  BY <1>1, ServicedFacts, AsMany DEF GroupInv, Counted
<1>5. Started' /\ Tagged'
  BY <1>1, <1>2, <1>3, ServicedFacts, GroupAssumption
     DEF GroupInv, Started, Tagged, Children, Join
<1>6. Flow' /\ JoinHasSomebody' /\ CancelledNeverRuns'
  BY <1>1, <1>2, <1>3, ServicedFacts
     DEF GroupInv, Flow, JoinHasSomebody, CancelledNeverRuns, GroupType
<1>7. Quiet
  BY <1>1, ServicedFacts DEF Quiet, GroupInv
<1> QED BY <1>1, <1>4, <1>5, <1>6, <1>7, QuietKeeps DEF Core

(* An awaited call: the child is suspended, and its call is on its way.    *)
LEMMA CallsKeeps ==
    ASSUME GroupInv, GroupType', CallType', NEW c \in Children, ChildCalls(c)
    PROVE  Core'
<1>1. /\ pc = "body" /\ run = c /\ run' = Owner /\ ~ inline'
      /\ pc' = IF inline THEN "body" ELSE "check"
      /\ mail' = mail \cup {[from |-> c, id |-> calls']}
      /\ awaited'[c] = calls'
      /\ \A d \in Children : d # c => awaited'[d] = awaited[d]
      /\ UNCHANGED <<remote, group, result, owner, ring, replying, taken, pend>>
  BY DEF ChildCalls, InBody, GroupInv, CallType, edge
<1>2. /\ child'[c].susp /\ child'[c].busy = child[c].busy
      /\ child'[c].ready = child[c].ready
      /\ \A d \in Children : d # c => child'[d] = child[d]
  BY CallsFacts DEF GroupInv
<1>3. c # Owner /\ child[c].busy /\ ~ child[c].susp
  BY <1>1 DEF GroupInv, Flow, Children, Owner
<1>4. \A d \in Children : child'[d].busy = child[d].busy
  BY <1>2
<1>5. Counted' /\ Started' /\ Tagged'
  BY <1>1, <1>4, AsMany DEF GroupInv, Counted, Started, Tagged
<1>6. Flow' /\ JoinHasSomebody' /\ CancelledNeverRuns'
  BY <1>1, <1>3 DEF GroupInv, Flow, JoinHasSomebody, CancelledNeverRuns, GroupType
<1>7. Answers'
  <2> SUFFICES ASSUME ~ remote PROVE Answers'
    BY <1>1 DEF Answers
  <2>1. ~ child[c].ready /\ Idle' /\ pc' # "kids"
    BY <1>1, <1>3 DEF GroupInv, Answers, Idle
  <2>2. \A m \in mail : /\ m.from \in Children /\ m.from # c /\ child[m.from].busy
                        /\ child[m.from].susp /\ awaited[m.from] = m.id
    BY <1>3 DEF GroupInv, Answers, CallType, Messages
  <2>3. ASSUME NEW m \in mail'
        PROVE  child'[m.from].busy /\ child'[m.from].susp /\ awaited'[m.from] = m.id
    <3>1. CASE m \in mail
      BY <1>1, <1>2, <2>2, <3>1
    <3>2. CASE m \notin mail
      <4>1. m.from = c /\ m.id = calls'
        BY <1>1, <3>2
      <4> QED BY <1>1, <1>2, <1>3, <4>1
    <3> QED BY <3>1, <3>2
  <2>4. ASSUME NEW d \in Children PROVE RightReply(d)'
    <3>1. CASE d = c
      BY <1>2, <2>1, <3>1 DEF RightReply, Pollable
    <3>2. CASE d # c
      BY <1>1, <1>2, <3>2 DEF GroupInv, Answers, LocalRightReply, RightReply, Pollable
    <3> QED BY <3>1, <3>2
  <2> QED BY <1>1, <2>1, <2>3, <2>4 DEF Answers, LocalRightReply
<1> QED BY <1>5, <1>6, <1>7 DEF Core

(* The harvest of a turn, by g.start or by child_poll: a child that        *)
(* returned or was cancelled in its own code, or that child_poll resumed.  *)
LEMMA HarvestKeeps ==
    ASSUME GroupInv, GroupType', CallType',
           NEW c \in Children, NEW tag \in {"done", "cancelled"},
           NEW g \in Groups, NEW turns \in ChildTurns,
           Harvest(c, tag, g, turns), UNCHANGED <<remote, mail, ring, replying, taken>>,
           g.used = group.used, g.active = group.active, g.waiter = group.waiter,
           group.cancelled => g.cancelled,
           \A d \in Children : turns[d].busy = child[d].busy,
           \A d \in Children : d # c =>
               /\ turns[d].susp = child[d].susp /\ turns[d].reply = child[d].reply
               /\ ~ g.cancelled => turns[d].ready = child[d].ready,
           child[c].busy,
           run = c \/ (run = Owner /\ ~ inline /\ pc = "kids"),
           ~ remote => \A m \in mail : m.from # c
    PROVE  Core'
<1>0. GroupType /\ CallType
  BY DEF GroupInv
<1>1. Harvested(c, tag, g, turns)
  BY <1>0, HarvestFacts
<1>2. /\ group.active > 0 /\ group.active \in Nat
      /\ group.used
  BY CountedIs DEF GroupInv, Started, Flow, Open, Children
<1>3. Counted'
  BY <1>1, OneLess DEF Harvested, GroupInv, Counted
<1>4. Started' /\ Tagged'
  BY <1>1 DEF Harvested, GroupInv, Started, Tagged
<1>5. Flow' /\ JoinHasSomebody'
  <2>1. c # Owner /\ (run = c => pc = "body")
    BY DEF GroupInv, Flow, Children, Owner
  <2>2. CASE inline
    <3>1. run = c /\ pc' = "body" /\ owner' = owner /\ pc = "body" /\ ~ owner.susp
      BY <1>1, <2>1, <2>2 DEF Harvested, GroupInv, Flow
    <3> QED
      BY <1>1, <1>2, <2>1, <2>2, <3>1 DEF Harvested, GroupInv, Flow, JoinHasSomebody
  <2>3. CASE ~ inline
    <3>1. owner.susp /\ owner.next = Join /\ pc' = "check" /\ ~ owner.ready
      BY <1>1, <1>2, <2>1, <2>3 DEF Harvested, GroupInv, Flow
    <3>2. group.waiter /\ Join # Close /\ Join # Open
      BY <3>1, GroupAssumption DEF GroupInv, JoinHasSomebody, Join, Close, Open
    <3>3. group'.active = 0 => owner'.ready
      BY <1>1, <2>3, <3>2 DEF Harvested
    <3>4. group'.active # 0 => ~ owner'.ready /\ group'.active > 0
      BY <1>1, <1>2, <3>1 DEF Harvested
    <3> QED
      BY <1>1, <1>2, <3>1, <3>2, <3>3, <3>4 DEF Harvested, Flow, JoinHasSomebody
  <2> QED BY <2>2, <2>3
<1>6. CancelledNeverRuns'
  BY <1>1 DEF Harvested, CancelledNeverRuns
<1>7. Answers'
  <2> SUFFICES ASSUME ~ remote PROVE Answers'
    BY DEF Answers
  <2>1. /\ Idle' /\ pc' # "kids" /\ run' = Owner
        /\ \A m \in mail' : /\ m.from \in Children /\ m.from # c /\ child[m.from].busy
                            /\ child[m.from].susp /\ awaited[m.from] = m.id
    BY <1>1 DEF Harvested, GroupInv, Answers, CallType, Idle, Messages
  <2>2. \A m \in mail' : /\ child'[m.from].busy /\ child'[m.from].susp
                         /\ awaited'[m.from] = m.id
    BY <1>1, <2>1 DEF Harvested
  <2>3. ASSUME NEW d \in Children PROVE RightReply(d)'
    <3>1. CASE d = c
      BY <1>1, <3>1 DEF Harvested, RightReply, Pollable
    <3>2. CASE d # c
      <4>1. child'[d] = turns[d] /\ awaited'[d] = awaited[d]
        BY <1>1, <3>2 DEF Harvested
      <4>2. RightReply(d) /\ group'.cancelled = g.cancelled
        BY <1>1 DEF Harvested, GroupInv, Answers, LocalRightReply
      <4> QED BY <3>2, <4>1, <4>2 DEF RightReply, Pollable
    <3> QED BY <3>1, <3>2
  <2> QED BY <2>1, <2>2, <2>3 DEF Answers, LocalRightReply
<1> QED BY <1>3, <1>4, <1>5, <1>6, <1>7 DEF Core

(* No call of a child whose code runs is on its way on this core.          *)
LEMMA RunningHasNoMail ==
    ASSUME GroupInv, NEW c \in Children, run = c, ~ remote
    PROVE  \A m \in mail : m.from # c
BY DEF GroupInv, Flow, Answers, Children, Owner

(* A child's own steps.                                                    *)
LEMMA ChildKeeps ==
    ASSUME GroupInv, GroupType', CallType', NEW c \in Children, ChildBody(c)
    PROVE  Core'
<1>0. c # Owner /\ child \in ChildTurns /\ group \in Groups
  BY DEF Children, Owner, GroupInv, GroupType
<1>1. CASE ChildCalls(c)
  BY <1>1, CallsKeeps
<1>2. CASE ChildReturns(c)
  <2>1. run = c /\ Harvest(c, "done", group, child) /\ UNCHANGED <<remote, mail, ring, replying, taken>>
    BY <1>2 DEF ChildReturns, InBody, world, edge
  <2>2. child[c].busy
    BY <1>0, <2>1 DEF GroupInv, Flow
  <2> QED BY <1>0, <2>1, <2>2, HarvestKeeps, RunningHasNoMail
<1>3. CASE ChildCheckpoint(c)
  <2>1. run = c /\ pc = "body" /\ pend /\ UNCHANGED <<remote, mail, ring, replying, taken>>
    BY <1>3 DEF ChildCheckpoint, InBody, world, edge
  <2>2. child[c].busy
    BY <1>0, <2>1 DEF GroupInv, Flow
  <2>3. CASE Ends(Scanned)
    <3>1. Harvest(c, "cancelled", Scanned, TurnsAfter(child))
      BY <1>3, <2>3 DEF ChildCheckpoint
    <3>2. /\ Scanned \in Groups /\ Scanned.used = group.used
          /\ Scanned.active = group.active /\ Scanned.waiter = group.waiter
          /\ Scanned.cancelled
      BY <2>3, ScannedFacts DEF GroupInv, Ends
    <3>3. /\ TurnsAfter(child) \in ChildTurns
          /\ \A d \in Children : /\ TurnsAfter(child)[d].busy = child[d].busy
                                 /\ TurnsAfter(child)[d].susp = child[d].susp
                                 /\ TurnsAfter(child)[d].reply = child[d].reply
      BY <1>0, TurnsAfterFacts DEF GroupInv
    <3> HIDE DEF Scanned, TurnsAfter
    <3> QED BY <2>1, <2>2, <3>1, <3>2, <3>3, HarvestKeeps, RunningHasNoMail
  <2>4. CASE ~ Ends(Scanned)
    <3>1. UNCHANGED <<group, result, child, owner, awaited, pc, run, inline>>
      BY <1>3, <2>4 DEF ChildCheckpoint
    <3>2. Calm /\ Quiet
      BY <2>1, <3>1 DEF Calm, Quiet
    <3> QED
      BY <3>1, <3>2, CalmKeeps, QuietKeeps DEF Core, CancelledNeverRuns, GroupInv
  <2> QED BY <2>3, <2>4
<1> QED BY <1>1, <1>2, <1>3 DEF ChildBody

(* child_poll: the polled child ends if its group is cancelled, and runs   *)
(* on otherwise; no call of an actor of this core is left then.            *)
LEMMA PollKeeps ==
    ASSUME GroupInv, GroupType', CallType', NEW c \in Children, ChildResumes(c)
    PROVE  Core'
<1> DEFINE turns == TurnsAfter(ResumedChild(c))
<1>1. /\ pc = "kids" /\ child[c].busy /\ UNCHANGED <<remote, mail, ring, replying, taken>>
      /\ run = Owner /\ ~ inline /\ c # Owner
      /\ ~ remote => mail = {}
  BY DEF ChildResumes, Pollable, GroupInv, Flow, Answers, Children, Owner, world, edge
<1>2. /\ GroupAfter \in Groups /\ GroupAfter.used = group.used
      /\ GroupAfter.active = group.active /\ GroupAfter.waiter = group.waiter
      /\ group.cancelled => GroupAfter.cancelled
  BY ScannedFacts DEF GroupInv
<1>3. /\ ResumedChild(c) \in ChildTurns
      /\ ~ ResumedChild(c)[c].susp /\ ~ ResumedChild(c)[c].ready
      /\ ResumedChild(c)[c].busy = child[c].busy
      /\ \A d \in Children : d # c => ResumedChild(c)[d] = child[d]
  BY ResumedFacts DEF GroupInv
<1>4. /\ turns \in ChildTurns
      /\ \A d \in Children : turns[d].busy = child[d].busy
      /\ \A d \in Children : d # c =>
            /\ turns[d].susp = child[d].susp /\ turns[d].reply = child[d].reply
            /\ ~ GroupAfter.cancelled => turns[d].ready = child[d].ready
      /\ ~ turns[c].susp /\ ~ turns[c].ready
  BY <1>3, TurnsAfterFacts DEF GroupInv
<1> HIDE DEF turns
<1>5. CASE Ends(GroupAfter)
  <2>1. Harvest(c, "cancelled", GroupAfter, turns)
    BY <1>5, ResumeCases DEF turns
  <2> HIDE DEF GroupAfter
  <2> QED BY <1>1, <1>2, <1>4, <2>1, HarvestKeeps
<1>6. CASE ~ Ends(GroupAfter)
  <2>1. /\ group' = GroupAfter /\ child' = turns /\ ~ group'.cancelled
        /\ awaited' = [awaited EXCEPT ![c] = 0]
        /\ pc' = "body" /\ run' = c /\ inline' = FALSE
        /\ UNCHANGED <<result, owner>>
    BY <1>6, ResumeCases DEF turns, Ends
  <2>2. Counted' /\ Started' /\ Tagged'
    BY <1>2, <1>4, <2>1, AsMany DEF GroupInv, Counted, Started, Tagged
  <2>3. Flow' /\ JoinHasSomebody' /\ CancelledNeverRuns'
    BY <1>1, <1>2, <1>4, <2>1
       DEF GroupInv, Flow, JoinHasSomebody, CancelledNeverRuns, GroupType
  <2>4. Answers'
    <3> SUFFICES ASSUME ~ remote PROVE Answers'
      BY <1>1 DEF Answers
    <3>1. ASSUME NEW d \in Children PROVE RightReply(d)'
      <4>1. CASE d = c
        BY <1>4, <2>1, <4>1 DEF RightReply, Pollable
      <4>2. CASE d # c
        <5>1. RightReply(d) /\ awaited'[d] = awaited[d] /\ ~ group.cancelled
          BY <1>2, <2>1, <4>2 DEF GroupInv, Answers, LocalRightReply, CallType
        <5> QED BY <1>4, <2>1, <4>2, <5>1 DEF RightReply, Pollable
      <4> QED BY <4>1, <4>2
    <3> QED BY <1>1, <1>4, <2>1, <3>1 DEF GroupInv, Answers, Idle, LocalRightReply
  <2> QED BY <2>2, <2>3, <2>4 DEF Core
<1> QED BY <1>5, <1>6

-----------------------------------------------------------------------------
(* The theorems.                                                           *)

(* The invariant holds when the boot starts ...                            *)
LEMMA GroupInit == Init => GroupInv
<1> SUFFICES ASSUME Init PROVE GroupInv
  OBVIOUS
<1>1. /\ \A c \in Children : ~ child[c].busy
      /\ run = Owner /\ pc = "body" /\ ~ inline /\ mail = {} /\ Idle
      /\ owner.next = Open /\ ~ owner.susp /\ ~ owner.ready
      /\ ~ group.used /\ group.active = 0
  BY DEF Init, Idle
<1>2. Counted
  BY <1>1, FS_EmptySet DEF Counted, Busy
<1>3. Open # Close
  BY GroupAssumption DEF Open, Close
<1>4. Started /\ Flow /\ Tagged /\ JoinHasSomebody /\ CancelledNeverRuns
  BY <1>1, <1>3 DEF Started, Flow, Tagged, JoinHasSomebody, CancelledNeverRuns
<1>5. Answers
  BY <1>1 DEF Answers, LocalRightReply, RightReply, Pollable
<1> QED BY <1>2, <1>4, <1>5, TypesInit DEF GroupInv

(* ... and every step keeps it.                                            *)
LEMMA GroupStep == ASSUME JoinActive PROVE GroupInv /\ [Next]_vars => GroupInv'
<1> SUFFICES ASSUME GroupInv, [Next]_vars PROVE GroupInv'
  OBVIOUS
<1>0. GroupType' /\ CallType'
  BY TypesNext DEF GroupInv
<1> SUFFICES Core'
  BY <1>0 DEF Core, GroupInv
<1>1. CASE TestBody
  <2>1. CASE OpenGroup \/ StartRefused \/ Start \/ JoinWait \/ CloseGroup \/ TestEnds
    BY <1>0, <2>1, OpenKeeps, RefusedKeeps, StartKeeps, WaitKeeps, CloseKeeps, EndsKeeps
  <2>2. CASE JoinNow \/ SkipJoin
    BY <1>0, <2>2, JoinKeeps
  <2>3. CASE OwnerCheckpoint
    BY <1>0, <2>3, LoopKeeps
  <2> QED
    BY <1>1, <2>1, <2>2, <2>3 DEF TestBody
<1>2. CASE Executor
  <2>2. CASE \/ Check \/ Poll \/ DrainAborts \/ DrainEnd \/ SelectNone \/ NothingRan
             \/ Unpark \/ DeadlineWake
    BY <1>0, <2>2, LoopKeeps
  <2>3. CASE Resume
    BY <1>0, <2>3, ResumeKeeps
  <2>4. CASE \E m \in mail : Select(m)
    BY <1>0, <2>4, ReplyKeeps
  <2>6. CASE Drain \/ DrainStore
    BY <1>0, <2>6, RingKeeps
  <2>5. CASE \E c \in Children : ChildResumes(c)
    BY <1>0, <2>5, PollKeeps
  <2> QED
    BY <1>2, <2>2, <2>3, <2>4, <2>5, <2>6 DEF Executor
<1>3. CASE \E c \in Children : ChildBody(c)
  BY <1>0, <1>3, ChildKeeps
<1>4. CASE Callees
  BY <1>0, <1>4, RingKeeps DEF Callees
<1>5. CASE Tick \/ UNCHANGED vars
  BY <1>0, <1>5, LoopKeeps
<1> QED BY <1>1, <1>2, <1>3, <1>4, <1>5 DEF Next, CoreZero, Stopped

(* When the body of every `with group` joins while a child is active, the  *)
(* group slot, the turn records and the executor agree in every state.     *)
THEOREM GroupInvariant == ASSUME JoinActive PROVE Spec => []GroupInv
BY GroupInit, GroupStep, PTL DEF Spec

(* The invariant gives the properties of the run groups_joined.            *)
LEMMA GroupImplies ==
    ASSUME GroupInv
    PROVE  /\ TypeOK /\ ActiveCountsBusy /\ JoinHasSomebody /\ NoPhantomResult
           /\ CancelledNeverRuns /\ ChildrenEndWithGroup /\ LocalRightReply
<1>1. group.active \in 0 .. NChildren
  BY CountedIs DEF GroupInv
<1>2. TypeOK
  BY <1>1 DEF GroupInv, GroupType, CallType, Groups, ChildTurns, Places, RingTypes, TypeOK, RingTypes
<1>3. ActiveCountsBusy
  BY DEF GroupInv, Counted, Busy, ActiveCountsBusy
<1>4. NoPhantomResult
  <2> SUFFICES ASSUME owner.next = Close, NEW c \in Children PROVE result[c] # "none"
    BY DEF NoPhantomResult
  <2>1. c < Close /\ Close # Open
    BY GroupAssumption DEF Children, Close, Open
  <2>2. ~ child[c].busy /\ group.used
    BY <2>1, CountedIs DEF GroupInv, Flow
  <2> QED BY <2>1, <2>2 DEF GroupInv, Tagged
<1>5. ChildrenEndWithGroup
  BY DEF GroupInv, Started, Flow, ChildrenEndWithGroup, Open, Children
<1>6. LocalRightReply
  BY DEF GroupInv, Answers, LocalRightReply
<1> QED BY <1>2, <1>3, <1>4, <1>5, <1>6 DEF GroupInv

(* The types of the state; the count stays within the group's children.    *)
THEOREM TypeCorrect == ASSUME JoinActive PROVE Spec => []TypeOK
BY GroupInvariant, GroupImplies, PTL

(* active_children is the number of busy turns, whoever harvests them.     *)
THEOREM ActiveIsBusy == ASSUME JoinActive PROVE Spec => []ActiveCountsBusy
BY GroupInvariant, GroupImplies, PTL

(* An owner in join_all is ready or has a child that will wake it.         *)
THEOREM JoinIsWoken == ASSUME JoinActive PROVE Spec => []JoinHasSomebody
BY GroupInvariant, GroupImplies, PTL

(* join_all never composes a result of a child that left no tag.           *)
THEOREM ResultsAreReal == ASSUME JoinActive PROVE Spec => []NoPhantomResult
BY GroupInvariant, GroupImplies, PTL

(* No child's code runs in a cancelled group.                              *)
THEOREM CancelledStaysOff == ASSUME JoinActive PROVE Spec => []CancelledNeverRuns
BY GroupInvariant, GroupImplies, PTL

(* No child is busy when its group is closed or not yet open.              *)
THEOREM ChildrenEnd == ASSUME JoinActive PROVE Spec => []ChildrenEndWithGroup
BY GroupInvariant, GroupImplies, PTL

(* With the callees on its core, a child resumes with its own reply.       *)
THEOREM LocalReplies == ASSUME JoinActive PROVE Spec => []LocalRightReply
BY GroupInvariant, GroupImplies, PTL
=============================================================================
