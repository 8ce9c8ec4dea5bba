------------------------ MODULE CrossCoreRing_proofs ------------------------
(***************************************************************************)
(* Proofs about CrossCoreRing.  TypeCorrect and NeverSleepsPastAMessage    *)
(* hold for every capacity and either memory order; the delivery theorems  *)
(* assume SingleSlot, because with more slots (the run ring_two_slots), or *)
(* with stores that become visible out of order, the code loses and        *)
(* repeats messages.                                                       *)
(***************************************************************************)
EXTENDS CrossCoreRing, TLAPS

SingleSlot == Capacity = 1 /\ InOrder

\* The receiver decrements a count that is not 0.
CountHeld ==
    /\ recvPc \in {"take", "load", "store"} => count # 0
    /\ recvPc = "store" => recvCount # 0

TypeInv == TypeOK /\ CountHeld

-----------------------------------------------------------------------------
(* A ring index that advances stays inside the ring.                         *)
LEMMA AdvanceInRange ==
    ASSUME NEW i \in 0 .. Capacity - 1
    PROVE  Advance(i) \in 0 .. Capacity - 1
BY RingAssumption DEF Advance

(* The types and the held count hold at the start ...                        *)
LEMMA TypeInvInit == Init => TypeInv
BY RingAssumption DEF Init, TypeInv, TypeOK, CountHeld, SendPcs, RecvPcs

(* ... and every step of either side keeps them.                             *)
LEMMA TypeInvNext == TypeInv /\ [Next]_vars => TypeInv'
<1> SUFFICES ASSUME TypeInv, [Next]_vars PROVE TypeInv'
    OBVIOUS
<1> USE RingAssumption DEF TypeInv, TypeOK, CountHeld, SendPcs, RecvPcs
<1>1. CASE Admit
    BY <1>1 DEF Admit, recvVars
<1>2. CASE SlotVisible
    BY <1>2 DEF SlotVisible, recvVars
<1>3. CASE CountVisible
    BY <1>3 DEF CountVisible, recvVars
<1>4. CASE Barrier
    BY <1>4, AdvanceInRange DEF Barrier, recvVars
<1>5. CASE Raise
    BY <1>5 DEF Raise, recvVars
<1>6. CASE Checkpoint
    BY <1>6 DEF Checkpoint, sendVars
<1>7. CASE DrainStart
    BY <1>7 DEF DrainStart, sendVars
<1>8. CASE DrainTest
    BY <1>8 DEF DrainTest, sendVars
<1>9. CASE DrainTake
  <2>1. /\ mailbox' \in Seq(0 .. MaxSends)
        /\ Len(mailbox') = Len(mailbox) + 1
    BY <1>9 DEF DrainTake
  <2>2. head' \in 0 .. Capacity - 1
    BY <1>9, AdvanceInRange DEF DrainTake
  <2>3. Len(mailbox') <= MailboxCap
    BY <1>9, <2>1 DEF DrainTake
  <2> QED
    BY <1>9, <2>1, <2>2, <2>3 DEF DrainTake, sendVars
<1>10. CASE DrainRejected
    BY <1>10 DEF DrainRejected, sendVars
<1>11. CASE DrainLoad
    BY <1>11 DEF DrainLoad, sendVars
<1>12. CASE DrainStore
    BY <1>12 DEF DrainStore, sendVars
<1>13. CASE Select
    BY <1>13 DEF Select, sendVars
<1>14. CASE Idle
    BY <1>14 DEF Idle, sendVars
<1>15. CASE Park
    BY <1>15 DEF Park, sendVars
<1>16. CASE Wake
    BY <1>16 DEF Wake, sendVars
<1>17. CASE UNCHANGED vars
    BY <1>17 DEF vars, sendVars, recvVars
<1> QED
    BY <1>1, <1>2, <1>3, <1>4, <1>5, <1>6, <1>7, <1>8, <1>9, <1>10, <1>11,
       <1>12, <1>13, <1>14, <1>15, <1>16, <1>17 DEF Next, Publish, Receive

(* Every word of the edge stays within its owner's range, and `count` never  *)
(* underflows, for every capacity and memory order.                          *)
THEOREM TypeCorrect == Spec => []TypeOK
<1>1. TypeInv => TypeOK
    BY DEF TypeInv
<1> QED
    BY TypeInvInit, TypeInvNext, <1>1, PTL DEF Spec

-----------------------------------------------------------------------------
(* Sleeping.  From the moment drain has looked at the ring and found it      *)
(* empty until the next checkpoint, a message that becomes visible has its   *)
(* raise ahead of it or already made.                                        *)
Announced == pending = 1 \/ sendPc \in {"publish", "raise"}

WakeInv ==
    /\ recvPc \in {"park", "parked"} => mailbox = <<>>
    /\ /\ recvPc \in {"select", "park", "parked"}
       /\ mailbox = <<>>
       /\ count # 0
       => Announced

(* No step of either side leaves a visible message unannounced.              *)
LEMMA WakeInvNext == TypeInv /\ WakeInv /\ [Next]_vars => WakeInv'
<1> SUFFICES ASSUME TypeInv, WakeInv, [Next]_vars PROVE WakeInv'
    OBVIOUS
<1> USE RingAssumption DEF TypeInv, TypeOK, CountHeld, WakeInv, Announced,
                           SendPcs, RecvPcs
<1>1. CASE Admit
    BY <1>1 DEF Admit, recvVars
<1>2. CASE SlotVisible
    BY <1>2 DEF SlotVisible, recvVars
<1>3. CASE CountVisible
    BY <1>3 DEF CountVisible, recvVars
<1>4. CASE Barrier
    BY <1>4 DEF Barrier, recvVars
<1>5. CASE Raise
    BY <1>5 DEF Raise, recvVars
<1>6. CASE Checkpoint
    BY <1>6 DEF Checkpoint, sendVars
<1>7. CASE DrainStart
    BY <1>7 DEF DrainStart, sendVars
<1>8. CASE DrainTest
    BY <1>8 DEF DrainTest, sendVars
<1>9. CASE DrainTake
    BY <1>9 DEF DrainTake, sendVars
<1>10. CASE DrainRejected
    BY <1>10 DEF DrainRejected, sendVars
<1>11. CASE DrainLoad
    BY <1>11 DEF DrainLoad, sendVars
<1>12. CASE DrainStore
    BY <1>12 DEF DrainStore, sendVars
<1>13. CASE Select
    BY <1>13 DEF Select, sendVars
<1>14. CASE Idle
    BY <1>14 DEF Idle, sendVars
<1>15. CASE Park
    BY <1>15 DEF Park, sendVars
<1>16. CASE Wake
    BY <1>16 DEF Wake, sendVars
<1>17. CASE UNCHANGED vars
    BY <1>17 DEF vars, sendVars, recvVars
<1> QED
    BY <1>1, <1>2, <1>3, <1>4, <1>5, <1>6, <1>7, <1>8, <1>9, <1>10, <1>11,
       <1>12, <1>13, <1>14, <1>15, <1>16, <1>17 DEF Next, Publish, Receive

(* No wake is lost: a parked receiver with a visible message has a raised    *)
(* word, or a sender that is about to raise it.  For every capacity.         *)
THEOREM NeverSleepsPastAMessage == Spec => []NoSleepingMessage
<1>1. Init => WakeInv
    BY DEF Init, WakeInv
<1>2. WakeInv => NoSleepingMessage
    BY DEF WakeInv, NoSleepingMessage, Announced
<1> QED
    BY TypeInvInit, TypeInvNext, <1>1, WakeInvNext, <1>2, PTL DEF Spec

-----------------------------------------------------------------------------
(* Delivery over one slot.  H messages are handled and M are in the mailbox, *)
(* so those are exactly 1 .. H + M, and at most one more message is on the   *)
(* edge: being stored, or in the slot and not yet taken.                     *)
Storing == sendPc = "publish" /\ "count" \in unseen
InSlot == count # 0 /\ recvPc \notin {"load", "store"}
OnEdge == IF Storing \/ InSlot THEN 1 ELSE 0

Ordered ==
    /\ \A i \in 1 .. Len(handled) : handled[i] = i
    /\ \A j \in 1 .. Len(mailbox) : mailbox[j] = Len(handled) + j

Exclusive ==
    /\ unseen # {} => sendPc = "publish" /\ "count" \in unseen
    /\ Storing => count = 0 /\ sendCount = 0
    /\ recvPc = "store" => recvCount = 1

Accounted == sent = Len(handled) + Len(mailbox) + OnEdge

SlotInv == slot[0] = IF "slot" \in unseen THEN sent - 1 ELSE sent

OneSlotInv == TypeInv /\ Ordered /\ Exclusive /\ Accounted /\ SlotInv

(* The empty ring satisfies the one-slot invariant ...                       *)
LEMMA OneSlotInvInit == SingleSlot /\ Init => OneSlotInv
BY TypeInvInit DEF SingleSlot, Init, OneSlotInv, Ordered, Exclusive, Accounted,
                   SlotInv, OnEdge, Storing, InSlot

(* ... every step keeps it, because the two sides never touch count together ... *)
LEMMA OneSlotInvNext ==
    SingleSlot /\ OneSlotInv /\ [Next]_vars => OneSlotInv'
<1> SUFFICES ASSUME SingleSlot, OneSlotInv, [Next]_vars PROVE OneSlotInv'
    OBVIOUS
<1>0. TypeInv'
    BY TypeInvNext DEF OneSlotInv
<1> USE RingAssumption, <1>0 DEF SingleSlot, OneSlotInv, TypeInv, TypeOK,
        CountHeld, Ordered, Exclusive, Accounted, SlotInv, OnEdge, Storing,
        InSlot, SendPcs, RecvPcs
<1>1. CASE Admit
    BY <1>1 DEF Admit, recvVars
<1>2. CASE SlotVisible
    BY <1>2 DEF SlotVisible, recvVars
<1>3. CASE CountVisible
  <2>0. "count" \in unseen /\ "slot" \notin unseen /\ unseen' = unseen \ {"count"}
    BY <1>3 DEF CountVisible
  <2>a. unseen' = {}
    <3> HIDE DEF TypeInv, Exclusive, Accounted, Ordered, SlotInv
    <3>1. unseen \subseteq {"slot", "count"}
      BY DEF TypeInv, TypeOK
    <3> QED
      BY <2>0, <3>1
  <2>1. /\ unseen' = {}
        /\ count = 0 /\ count' = 1
        /\ sendPc = "publish" /\ sendPc' = "publish"
    BY <1>3, <2>0, <2>a DEF CountVisible
  <2>2. UNCHANGED <<sent, handled, slot, mailbox, recvPc, recvCount>>
    BY <1>3 DEF CountVisible, recvVars
  <2>3. recvPc \notin {"take", "load", "store"}
    BY <2>1
  <2>4. OnEdge = 1 /\ OnEdge' = 1
    BY <2>0, <2>1, <2>2, <2>3
  <2> QED
    BY <2>0, <2>1, <2>2, <2>3, <2>4
<1>4. CASE Barrier
    BY <1>4 DEF Barrier, recvVars
<1>5. CASE Raise
    BY <1>5 DEF Raise, recvVars
<1>6. CASE Checkpoint
    BY <1>6 DEF Checkpoint, sendVars
<1>7. CASE DrainStart
    BY <1>7 DEF DrainStart, sendVars
<1>8. CASE DrainTest
    BY <1>8 DEF DrainTest, sendVars
<1>9. CASE DrainTake
  <2>1. /\ head = 0
        /\ Len(mailbox') = Len(mailbox) + 1
        /\ mailbox'[Len(mailbox) + 1] = slot[0]
        /\ \A j \in 1 .. Len(mailbox) : mailbox'[j] = mailbox[j]
    BY <1>9 DEF DrainTake
  <2>2. UNCHANGED <<sent, handled, count, slot, sendPc, sendCount, unseen, recvCount>>
    BY <1>9 DEF DrainTake, sendVars
  <2>3. ~ Storing /\ "slot" \notin unseen /\ OnEdge = 1
    BY <1>9 DEF DrainTake
  <2>4. Ordered'
    <3> DEFINE h == Len(handled)  m == Len(mailbox)
    <3>1. h \in Nat /\ m \in Nat /\ slot[0] = h + m + 1
      BY <2>3
    <3>2. \A j \in 1 .. m + 1 : j \in 1 .. m \/ j = m + 1
      BY <3>1
    <3>0. \A j \in 1 .. m : mailbox[j] = h + j
      OBVIOUS
    <3>3. ASSUME NEW j \in 1 .. m + 1 PROVE mailbox'[j] = h + j
      <4> HIDE DEF TypeInv, TypeOK, OneSlotInv, Ordered, Exclusive, Accounted,
                   SlotInv, CountHeld
      <4>1. CASE j \in 1 .. m
        BY <2>1, <3>0, <4>1
      <4>2. CASE j = m + 1
        BY <2>1, <3>1, <4>2
      <4> QED
        BY <3>2, <4>1, <4>2
    <3> HIDE DEF TypeInv, TypeOK, OneSlotInv, Exclusive, Accounted, SlotInv, CountHeld
    <3>4. \A i \in 1 .. Len(handled') : handled'[i] = i
      BY <2>2 DEF OneSlotInv
    <3>5. \A j \in 1 .. Len(mailbox') : mailbox'[j] = Len(handled') + j
      BY <2>1, <2>2, <3>3
    <3> QED
      BY <3>4, <3>5
  <2>5. recvPc' = "load" /\ OnEdge' = 0
    BY <1>9, <2>2, <2>3 DEF DrainTake
  <2>6. Exclusive' /\ SlotInv'
    BY <2>2, <2>5
  <2>7. Accounted'
    BY <2>1, <2>2, <2>3, <2>5
  <2> QED
    BY <2>4, <2>6, <2>7 DEF OneSlotInv
<1>10. CASE DrainRejected
    BY <1>10 DEF DrainRejected, sendVars
<1>11. CASE DrainLoad
    BY <1>11 DEF DrainLoad, sendVars
<1>12. CASE DrainStore
    BY <1>12 DEF DrainStore, sendVars
<1>13. CASE Select
  <2>1. /\ Len(mailbox) > 0
        /\ Len(handled') = Len(handled) + 1
        /\ handled'[Len(handled) + 1] = mailbox[1]
        /\ \A i \in 1 .. Len(handled) : handled'[i] = handled[i]
    BY <1>13 DEF Select
  <2>2. /\ Len(mailbox') = Len(mailbox) - 1
        /\ \A j \in 1 .. Len(mailbox') : mailbox'[j] = mailbox[j + 1]
    BY <1>13 DEF Select
  <2>3. UNCHANGED <<sent, count, slot, sendPc, sendCount, unseen, recvCount>>
    BY <1>13 DEF Select, sendVars
  <2>4. Ordered'
    <3> DEFINE h == Len(handled)  m == Len(mailbox)
    <3>1. h \in Nat /\ m \in Nat /\ mailbox[1] = h + 1
      BY <2>1, SMTT(30)
    <3>2. \A i \in 1 .. h + 1 : i \in 1 .. h \/ i = h + 1
      BY <3>1, SMTT(30)
    <3>3. \A i \in 1 .. h + 1 : handled'[i] = i
      BY <2>1, <3>1, <3>2
    <3>4. \A j \in 1 .. Len(mailbox') : j + 1 \in 1 .. m
      BY <2>2, <3>1
    <3>0. \A k \in 1 .. m : mailbox[k] = h + k
      OBVIOUS
    <3>5. ASSUME NEW j \in 1 .. Len(mailbox') PROVE mailbox'[j] = (h + 1) + j
      <4> HIDE DEF TypeInv, TypeOK, OneSlotInv, Ordered, Exclusive, Accounted,
                   SlotInv, CountHeld
      <4>1. mailbox'[j] = h + (j + 1)
        BY <2>2, <3>0, <3>4
      <4> QED
        BY <3>1, <4>1
    <3> HIDE DEF TypeInv, TypeOK, OneSlotInv, Exclusive, Accounted, SlotInv, CountHeld
    <3>6. \A i \in 1 .. Len(handled') : handled'[i] = i
      BY <2>1, <3>3
    <3>7. \A j \in 1 .. Len(mailbox') : mailbox'[j] = Len(handled') + j
      BY <2>1, <3>5
    <3> QED
      BY <3>6, <3>7
  <2>5. recvPc = "select" /\ recvPc' = "checkpoint" /\ OnEdge' = OnEdge
    BY <1>13, <2>3 DEF Select
  <2>6. Exclusive' /\ SlotInv'
    BY <2>3, <2>5
  <2>7. Accounted'
    BY <2>1, <2>2, <2>3, <2>5
  <2> QED
    BY <2>4, <2>6, <2>7 DEF OneSlotInv
<1>14. CASE Idle
    BY <1>14 DEF Idle, sendVars
<1>15. CASE Park
    BY <1>15 DEF Park, sendVars
<1>16. CASE Wake
    BY <1>16 DEF Wake, sendVars
<1>17. CASE UNCHANGED vars
    BY <1>17 DEF vars, sendVars, recvVars
<1> QED
    BY <1>1, <1>2, <1>3, <1>4, <1>5, <1>6, <1>7, <1>8, <1>9, <1>10, <1>11,
       <1>12, <1>13, <1>14, <1>15, <1>16, <1>17 DEF Next, Publish, Receive

(* ... so it holds in every state.                                           *)
LEMMA OneSlotInvAlways ==
    ASSUME SingleSlot PROVE Spec => []OneSlotInv
BY OneSlotInvInit, OneSlotInvNext, PTL DEF Spec

(* An edge with one slot drops, repeats and reorders nothing.                *)
THEOREM OneSlotDelivery ==
    ASSUME SingleSlot PROVE Spec => []NoDropDuplicateReorder
<1>1. OneSlotInv => NoDropDuplicateReorder
    BY DEF OneSlotInv, Ordered, NoDropDuplicateReorder
<1> QED
    BY OneSlotInvAlways, <1>1, PTL

(* ... holds at most one message beyond a full mailbox ...                   *)
THEOREM OneSlotBacklog ==
    ASSUME SingleSlot PROVE Spec => []BoundedBacklog
<1>1. OneSlotInv => BoundedBacklog
    BY RingAssumption DEF OneSlotInv, TypeInv, TypeOK, SingleSlot, Accounted,
                          OnEdge, BoundedBacklog
<1> QED
    BY OneSlotInvAlways, <1>1, PTL

(* ... never stores over a message the receiver has not taken ...            *)
THEOREM OneSlotNoOverwrite ==
    ASSUME SingleSlot PROVE Spec => []NoOverwrite
<1>1. ASSUME OneSlotInv PROVE NoOverwrite
  <2> SUFFICES ASSUME sendPc = "publish", "slot" \in unseen, slot[tail] # 0
               PROVE  \/ slot[tail] \in {handled[i] : i \in 1 .. Len(handled)}
                      \/ slot[tail] \in {mailbox[i] : i \in 1 .. Len(mailbox)}
      BY DEF NoOverwrite
  <2> USE <1>1 DEF OneSlotInv
  <2>1. /\ tail = 0 /\ sent \in Nat
        /\ Len(handled) \in Nat /\ Len(mailbox) \in Nat
    BY RingAssumption DEF TypeInv, TypeOK, SingleSlot
  <2>2. slot[tail] = Len(handled) + Len(mailbox)
    BY <2>1 DEF SlotInv, Accounted, OnEdge, Exclusive, Storing
  <2>3. CASE Len(mailbox) > 0
    BY <2>1, <2>2, <2>3 DEF Ordered
  <2>4. CASE Len(mailbox) = 0
    BY <2>1, <2>2, <2>4 DEF Ordered
  <2> QED
    BY <2>1, <2>3, <2>4
<1> QED
    BY OneSlotInvAlways, <1>1, PTL

(* ... and so implements the safety half of ExactlyOnceFifo.                 *)
THEOREM OneSlotRefines ==
    ASSUME SingleSlot PROVE Spec => EdgeStep
<1>1. Init => Edge!Init
    BY DEF Init, Edge!Init
<1>2. SingleSlot /\ OneSlotInv /\ [Next]_vars => [Edge!Next]_(Edge!vars)
  <2> SUFFICES ASSUME SingleSlot, OneSlotInv, [Next]_vars
               PROVE  [Edge!Next]_(Edge!vars)
      OBVIOUS
  <2>1. CASE Admit
      BY <2>1 DEF Admit, Edge!Next, Edge!Admit
  <2>2. CASE Select
    <3> USE RingAssumption DEF OneSlotInv, TypeInv, TypeOK
    <3>1. Len(mailbox) > 0 /\ Head(mailbox) = mailbox[1]
      BY <2>2 DEF Select
    <3>2. Head(mailbox) = Len(handled) + 1
      BY <3>1 DEF Ordered
    <3>3. Len(handled) < sent
      BY <3>1 DEF Accounted, OnEdge
    <3> QED
      BY <2>2, <3>2, <3>3 DEF Select, Edge!Next, Edge!Handle
  <2>3. CASE UNCHANGED <<sent, handled>>
      BY <2>3 DEF Edge!vars
  <2>4. [Next]_vars /\ ~ Admit /\ ~ Select => UNCHANGED <<sent, handled>>
      BY DEF Next, Publish, Receive, SlotVisible, CountVisible, Barrier, Raise,
             Checkpoint, DrainStart, DrainTest, DrainTake, DrainRejected,
             DrainLoad, DrainStore, Idle, Park, Wake, vars
  <2> QED
      BY <2>1, <2>2, <2>3, <2>4
<1> QED
    BY <1>1, <1>2, OneSlotInvAlways, PTL DEF Spec, EdgeStep
=============================================================================
