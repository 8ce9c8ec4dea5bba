----------------------------- MODULE LentBuffers -----------------------------
(***************************************************************************)
(* What the block queue promises about a payload buffer                    *)
(* (docs/language/03-hardware.md, sections 3, 5 and 9): publishing lends   *)
(* it to the device, the device finishes with it, and only then does its   *)
(* owner have it back, once.                                               *)
(***************************************************************************)
CONSTANTS
    Buffers,   \* every payload buffer, named by its owner
    Awaited    \* those whose owner waits for the answer

VARIABLE place

Init == place = [b \in Buffers |-> "owner"]

Move(b, from, to) == place[b] = from /\ place' = [place EXCEPT ![b] = to]

Lend(b)   == Move(b, "owner", "lent")
Finish(b) == Move(b, "lent", "finished")
Return(b) == Move(b, "finished", "owner")

Next == \E b \in Buffers : Lend(b) \/ Finish(b) \/ Return(b)

\* An owner that waits is answered: the device finishes, the buffer returns.
Spec ==
    /\ Init /\ [][Next]_place
    /\ \A b \in Awaited : WF_place(Finish(b)) /\ WF_place(Return(b))
=============================================================================
