--------------------------- MODULE MCChoiceReplay ---------------------------
(* Instances of recording and replay: one or two cores, short boots.       *)
EXTENDS ChoiceReplay, TLC

\* Admissions that share their mailbox.
SomePairs == {<<"Sink", 1>>, <<"Sink", 2>>}

\* Programs with an interrupt-driven disk, with player input, with frames
\* and a clock, and with work that moves between the cores.
SomePrograms == {{"blk", "deadline"}, {"status", "input"}, {"frame", "clock"},
                 {"clock", "progress"}}

\* No definition tells one core, or one reading, from another.
Symmetry == Permutations(Cores) \cup Permutations(Values)
=============================================================================
