---------------------------- MODULE CrossCoreRing ----------------------------
(***************************************************************************)
(* One request edge of a multi-core image, at the granularity of its       *)
(* shared-memory accesses: the sending core runs __wrela_rt_xsend, the     *)
(* receiving core (not core 0) runs __wrela_rt_secondary_entry with        *)
(* __wrela_rt_checkpoint, __wrela_rt_run_one, __wrela_rt_drain and the     *)
(* select of one mailbox.  Both vCPUs are host threads that run at the     *)
(* same time, so the edge's `count` word is written by both of them.       *)
(*                                                                         *)
(* `tail` and the send side's registers belong to the sender; `head`, the  *)
(* mailbox and the drain's registers belong to the receiver.  Only         *)
(* `count`, the slots and the pending word are shared, and each access to  *)
(* them is a step of its own.  A message is its admission number.          *)
(***************************************************************************)
EXTENDS Naturals, Sequences

CONSTANTS
    Capacity,      \* __wrela_ring_capacity(edge): the target's mailbox capacity
    MailboxCap,    \* __wrela_mb_capacity(root)
    MaxSends,      \* bound on the messages a behaviour admits
    InOrder        \* do the sender's plain stores become visible in order?

ASSUME RingAssumption ==
    /\ Capacity \in Nat \ {0}
    /\ MailboxCap \in Nat \ {0}
    /\ MaxSends \in Nat
    /\ InOrder \in BOOLEAN

VARIABLES
    sent,       \* messages admitted so far (history)
    handled,    \* messages a turn of the target took, in order (history)
    count,      \* RINGS_CTL.edges[edge].count
    slot,       \* RINGS_DATA row of the edge, one message per slot
    pending,    \* bit 0 of PENDING.words[dst]
    tail,       \* RINGS_CTL.edges[edge].tail
    sendPc,     \* where the sender is in xsend
    sendCount,  \* the count xsend loaded
    unseen,     \* the sender's plain stores that are not visible yet
    head,       \* RINGS_CTL.edges[edge].head
    mailbox,    \* the target's mailbox
    recvPc,     \* where the receiver is in its executor loop
    recvCount,  \* the count drain loaded before its decrement
    moved       \* has this drain moved a message?

sendVars == <<tail, sendPc, sendCount, unseen>>
recvVars == <<head, mailbox, recvPc, recvCount, moved>>
vars == <<sent, handled, count, slot, pending, sendVars, recvVars>>

SendPcs == {"idle", "publish", "raise"}
RecvPcs == {"checkpoint", "drain", "test", "take", "load", "store", "select",
            "park", "parked"}

Init ==
    /\ sent = 0 /\ handled = <<>>
    /\ count = 0 /\ pending = 0
    /\ slot = [i \in 0 .. Capacity - 1 |-> 0]
    /\ tail = 0 /\ sendPc = "idle" /\ sendCount = 0 /\ unseen = {}
    /\ head = 0 /\ mailbox = <<>> /\ recvPc = "checkpoint"
    /\ recvCount = 0 /\ moved = FALSE

\* (Slip: the wrap comes one slot late.)
AdvanceLate(i) == IF i + 1 > Capacity THEN 0 ELSE i + 1

\* An index moves to the next slot of the ring.
Advance(i) == IF i + 1 >= Capacity THEN 0 ELSE i + 1

-----------------------------------------------------------------------------
(* The sender.                                                             *)

\* (Slip: a full ring admits one more.)
AdmitOneMore ==
    /\ sendPc = "idle" /\ sent < MaxSends
    /\ count <= Capacity
    /\ sent' = sent + 1
    /\ sendCount' = count
    /\ unseen' = {"slot", "count"}
    /\ sendPc' = "publish"
    /\ UNCHANGED <<handled, count, slot, pending, tail, recvVars>>

\* xsend loads count; a full ring rejects (returns 1, nothing changes, the
\* caller sees NotAdmitted), otherwise the message is admitted and its slot
\* words, tail and count are stored.
Admit ==
    /\ sendPc = "idle" /\ sent < MaxSends
    /\ count < Capacity
    /\ sent' = sent + 1
    /\ sendCount' = count
    /\ unseen' = {"slot", "count"}
    /\ sendPc' = "publish"
    /\ UNCHANGED <<handled, count, slot, pending, tail, recvVars>>

\* The slot words become visible to the other core.
SlotVisible ==
    /\ sendPc = "publish" /\ "slot" \in unseen
    /\ slot' = [slot EXCEPT ![tail] = sent]
    /\ unseen' = unseen \ {"slot"}
    /\ UNCHANGED <<sent, handled, count, pending, tail, sendPc, sendCount, recvVars>>

\* The store of count + 1 becomes visible; no barrier orders it after the
\* slot words, only InOrder memory does.
CountVisible ==
    /\ sendPc = "publish" /\ "count" \in unseen
    /\ InOrder => "slot" \notin unseen
    /\ count' = sendCount + 1
    /\ unseen' = unseen \ {"count"}
    /\ UNCHANGED <<sent, handled, slot, pending, tail, sendPc, sendCount, recvVars>>

\* dmb ishst: every store above is visible before what follows.
Barrier ==
    /\ sendPc = "publish" /\ unseen = {}
    /\ tail' = Advance(tail)
    /\ sendPc' = "raise"
    /\ UNCHANGED <<sent, handled, count, slot, pending, sendCount, unseen, recvVars>>

\* PENDING.words[dst].fetch_or_release(1), and xsend returns.
Raise ==
    /\ sendPc = "raise"
    /\ pending' = 1
    /\ sendPc' = "idle"
    /\ UNCHANGED <<sent, handled, count, slot, tail, sendCount, unseen, recvVars>>

-----------------------------------------------------------------------------
(* The receiver.                                                           *)

\* __wrela_rt_checkpoint of a secondary core: swap the word to 0 until a load
\* sees 0.  (Only this core clears the word, so load and swap are one step.)
Checkpoint ==
    /\ recvPc = "checkpoint"
    /\ pending' = 0
    /\ recvPc' = IF pending = 0 THEN "drain" ELSE "checkpoint"
    /\ UNCHANGED <<sent, handled, count, slot, sendVars, head, mailbox, recvCount, moved>>

\* drain: swap the pending word, then start the loop over the edge.
DrainStart ==
    /\ recvPc = "drain"
    /\ pending' = 0
    /\ moved' = FALSE
    /\ recvPc' = "test"
    /\ UNCHANGED <<sent, handled, count, slot, sendVars, head, mailbox, recvCount>>

\* while count != 0; run_one returns at once after a drain that moved.
DrainTest ==
    /\ recvPc = "test"
    /\ recvPc' = IF count # 0 THEN "take"
                 ELSE IF moved THEN "checkpoint" ELSE "select"
    /\ UNCHANGED <<sent, handled, count, slot, pending, sendVars, head, mailbox,
                   recvCount, moved>>

\* Load the head slot and enqueue it; advance head.
DrainTake ==
    /\ recvPc = "take" /\ Len(mailbox) < MailboxCap
    /\ mailbox' = Append(mailbox, slot[head])
    /\ head' = Advance(head)
    /\ recvPc' = "load"
    /\ UNCHANGED <<sent, handled, count, slot, pending, sendVars, recvCount, moved>>

\* The mailbox is full: the message stays in the ring, drain returns `moved`.
DrainRejected ==
    /\ recvPc = "take" /\ Len(mailbox) >= MailboxCap
    /\ recvPc' = IF moved THEN "checkpoint" ELSE "select"
    /\ UNCHANGED <<sent, handled, count, slot, pending, sendVars, head, mailbox,
                   recvCount, moved>>

\* c = count ...
DrainLoad ==
    /\ recvPc = "load"
    /\ recvCount' = count
    /\ recvPc' = "store"
    /\ UNCHANGED <<sent, handled, count, slot, pending, sendVars, head, mailbox, moved>>

\* (Slip: the decrement is forgotten.)
DrainStoreSame ==
    /\ recvPc = "store"
    /\ count' = recvCount
    /\ moved' = TRUE
    /\ recvPc' = "test"
    /\ UNCHANGED <<sent, handled, slot, pending, sendVars, head, mailbox, recvCount>>

\* ... count = c - 1.
DrainStore ==
    /\ recvPc = "store"
    /\ count' = recvCount - 1
    /\ moved' = TRUE
    /\ recvPc' = "test"
    /\ UNCHANGED <<sent, handled, slot, pending, sendVars, head, mailbox, recvCount>>

\* select: a turn takes the head of the mailbox and runs to its end.
Select ==
    /\ recvPc = "select" /\ mailbox # <<>>
    /\ handled' = Append(handled, Head(mailbox))
    /\ mailbox' = Tail(mailbox)
    /\ recvPc' = "checkpoint"
    /\ UNCHANGED <<sent, count, slot, pending, sendVars, head, recvCount, moved>>

\* (Slip: the core acknowledges its word once more as it goes idle.)
IdleAcknowledges ==
    /\ recvPc = "select" /\ mailbox = <<>>
    /\ recvPc' = "park" /\ pending' = 0
    /\ UNCHANGED <<sent, handled, count, slot, sendVars, head, mailbox, recvCount, moved>>

\* Nothing ran: idle = 1, and the park doorbell.
Idle ==
    /\ recvPc = "select" /\ mailbox = <<>>
    /\ recvPc' = "park"
    /\ UNCHANGED <<sent, handled, count, slot, pending, sendVars, head, mailbox,
                   recvCount, moved>>

\* The VMM answers the doorbell: a raised word keeps the core running.
Park ==
    /\ recvPc = "park"
    /\ recvPc' = IF pending # 0 THEN "checkpoint" ELSE "parked"
    /\ UNCHANGED <<sent, handled, count, slot, pending, sendVars, head, mailbox,
                   recvCount, moved>>

\* A parked core runs again once its pending word is not 0.
Wake ==
    /\ recvPc = "parked" /\ pending # 0
    /\ recvPc' = "checkpoint"
    /\ UNCHANGED <<sent, handled, count, slot, pending, sendVars, head, mailbox,
                   recvCount, moved>>

-----------------------------------------------------------------------------
Publish == SlotVisible \/ CountVisible \/ Barrier \/ Raise
Receive ==
    \/ Checkpoint \/ DrainStart \/ DrainTest \/ DrainTake \/ DrainRejected
    \/ DrainLoad \/ DrainStore \/ Select \/ Idle \/ Park \/ Wake

Next == Admit \/ Publish \/ Receive

\* Each vCPU is a host thread that keeps running; no core is made to send.
Spec == Init /\ [][Next]_vars /\ WF_vars(Publish) /\ WF_vars(Receive)

-----------------------------------------------------------------------------
(* Properties.                                                             *)

\* The types of the state, every word within the range its owner gives it.
TypeOK ==
    /\ sent \in 0 .. MaxSends
    /\ handled \in Seq(0 .. MaxSends)
    /\ count \in 0 .. Capacity
    /\ slot \in [0 .. Capacity - 1 -> 0 .. MaxSends]
    /\ pending \in {0, 1}
    /\ tail \in 0 .. Capacity - 1
    /\ head \in 0 .. Capacity - 1
    /\ sendPc \in SendPcs
    /\ sendCount \in 0 .. Capacity - 1
    /\ unseen \in SUBSET {"slot", "count"}
    /\ mailbox \in Seq(0 .. MaxSends)
    /\ Len(mailbox) <= MailboxCap
    /\ recvPc \in RecvPcs
    /\ recvCount \in 0 .. Capacity
    /\ moved \in BOOLEAN

\* The receiver never sleeps past a message: while it is parked, a message that
\* is visible in the ring has raised the pending word or its sender still has
\* that raise ahead of it (xsend raises after it publishes, drain clears the
\* word before it looks), and no message is left in the mailbox.
NoSleepingMessage ==
    recvPc = "parked" =>
        /\ mailbox = <<>>
        /\ count # 0 => pending = 1 \/ sendPc \in {"publish", "raise"}

\* A slot is overwritten only after its message reached the mailbox: the
\* sender, about to store, names a slot the receiver has drained.
NoOverwrite ==
    sendPc = "publish" /\ "slot" \in unseen
        => \/ slot[tail] \in {handled[i] : i \in 1 .. Len(handled)}
           \/ slot[tail] \in {mailbox[i] : i \in 1 .. Len(mailbox)}
           \/ slot[tail] = 0

\* Back-pressure bounds what an edge holds: an admitted message that is not
\* yet handled is in the ring or in the mailbox.
BoundedBacklog == sent - Len(handled) <= Capacity + MailboxCap

\* The edge implements exactly-once, in-order delivery.
Edge == INSTANCE ExactlyOnceFifo WITH sent <- sent, handled <- handled
EdgeSpec == Edge!Spec
\* Its safety half: every step admits one message or handles the next one.
EdgeStep == Edge!Init /\ [][Edge!Next]_(Edge!vars)

\* 04-compiler.md section 2: the compiler must not drop, duplicate or reorder
\* logical messages: what the target handled is 1, 2, 3, ...
NoDropDuplicateReorder ==
    \A i \in 1 .. Len(handled) : handled[i] = i
=============================================================================
