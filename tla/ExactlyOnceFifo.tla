--------------------------- MODULE ExactlyOnceFifo ---------------------------
(***************************************************************************)
(* What one cross-core actor edge promises (docs/language/04-compiler.md,  *)
(* sections 2 and 3): every logical message the sender was admitted is     *)
(* handled once, in admission order, whatever ring, mailbox and doorbell   *)
(* carry it.  Messages are named by their admission number.                *)
(***************************************************************************)
EXTENDS Naturals, Sequences

VARIABLES
    sent,      \* how many messages the edge admitted
    handled    \* the messages the target's turn loop took, in that order

vars == <<sent, handled>>

Init == sent = 0 /\ handled = <<>>

Admit == sent' = sent + 1 /\ UNCHANGED handled

Handle ==
    /\ Len(handled) < sent
    /\ handled' = Append(handled, Len(handled) + 1)
    /\ UNCHANGED sent

Next == Admit \/ Handle

\* Nothing forces a sender to send; an admitted message must be handled.
Spec == Init /\ [][Next]_vars /\ WF_vars(Handle)
=============================================================================
