--------------------------- MODULE MCActorRuntime ---------------------------
(* ActorRuntime for TLC: three actors under a test on two cores, the images  *)
(* of the two runs that show what the documents deny.  A ring operation is   *)
(* one step here: a behaviour of ActorRings in which every load is followed  *)
(* at once by its store.                                                     *)
EXTENDS ActorRuntime, TLC

On(a, b, c) == (0 :> 0) @@ (1 :> a) @@ (2 :> b) @@ (3 :> c)

\* A chain of handles whose first and last actors share the secondary core,
\* with room for one message each; everybody awaits.
ChainCalls == (0 :> {1}) @@ (1 :> {2}) @@ (2 :> {3}) @@ (3 :> {})
ChainPlacements == {On(1, 0, 1)}
ChainMailboxCap == [a \in Actors |-> 1]

\* The test and actor 1 on core 0, actors 2 and 3 on core 1: the test drives
\* 1 and 3, 1 drives 2 and 3, 2 drives 3.  The test and actor 2 await actor 3.
SplitCalls == (0 :> {1, 3}) @@ (1 :> {2, 3}) @@ (2 :> {3}) @@ (3 :> {})
SplitAwaits == (0 :> {3}) @@ (1 :> {}) @@ (2 :> {3}) @@ (3 :> {})
SplitPlacements == {On(0, 1, 1)}
=============================================================================
