------------------------------ MODULE ActorRings ------------------------------
(***************************************************************************)
(* ActorRuntime with the word that decides a ring operation: `count` of    *)
(* the edge.  xsend, xreply and drain load it, and store it changed by one *)
(* later; the cores run in parallel, nothing makes load and store one      *)
(* access, and what another core stored in between is overwritten.         *)
(*                                                                         *)
(* A push begins with the load that found room and ends with the store     *)
(* (the slot beyond the ring's contents and tail are the pushing core's    *)
(* own until then; the pending word is raised right after it).  A pop      *)
(* begins with the drain's second load and ends with its store (what it    *)
(* takes from the slot stays in its core).  A push that finds the ring     *)
(* full and a drain that finds it empty load once.  CrossCoreRing has all  *)
(* accesses of one edge one by one.                                        *)
(*                                                                         *)
(* As long as every count is the length of its queue, the slots between    *)
(* head and tail hold what ActorRuntime's queues say.  Should a count ever *)
(* differ, anything may happen from then on; CountsExact says that none    *)
(* does, which is not so in every image.                                   *)
(***************************************************************************)
EXTENDS ActorRuntime

VARIABLES
    count,      \* RINGS_CTL.edges[edge].count
    changes,    \* per core: the edge whose count it has loaded to change, if any
    seen        \* ... and the count it loaded

ringVars == <<vars, count, changes, seen>>

\* The edges: requests by sending core and actor, replies by both cores.
Rings == ({"req"} \X Edges) \cup ({"rep"} \X (Cores \X Cores))
Queue(r) == IF r[1] = "req" THEN req[r[2]] ELSE rep[r[2]]

\* __wrela_ring_capacity(edge).
RingCapacity(r) == IF r[1] = "req" THEN MailboxCap[r[2][2]] ELSE ReplyCap(r[2][2])

\* Every count is the number of messages in its ring.
CountsExact == \A r \in Rings : count[r] = Len(Queue(r))

RingsInit ==
    /\ Init
    /\ count = [r \in Rings |-> 0]
    /\ changes = [c \in Cores |-> {}]
    /\ seen = [c \in Cores |-> 0]

\* Core c's turn is about to send or call over r, or to reply over it.
Pushes(c, r) ==
    /\ pc[c] = "run"
    /\ \/ \E a \in Calls[run[c]] : place[a] # c /\ r = <<"req", <<c, a>>>>
       \/ /\ run[c] # Test
          /\ LET m == turn[run[c]].cur
             IN  m.call /\ m.remote /\ r = <<"rep", <<c, place[m.from]>>>>

\* Core c's drain is at r, a request's target having room for it.
Pops(c, r) ==
    \E l \in lanes[c] :
        /\ AtLane(c, l)
        /\ IF l[1] = "rep" THEN r = <<"rep", <<l[2], c>>>>
           ELSE r = <<"req", <<l[2], l[3]>>>> /\ Len(mailbox[l[3]]) < MailboxCap[l[3]]

Running(c) == Core(c) /\ pc[0] \notin {"halted", "aborted"}

\* xsend and xreply load count and find room; drain loads it to decrement it.
Load(c, r) ==
    /\ Running(c) /\ changes[c] = {}
    /\ \/ Pushes(c, r) /\ count[r] < RingCapacity(r)
       \/ Pops(c, r) /\ count[r] # 0
    /\ changes' = [changes EXCEPT ![c] = {r}]
    /\ seen' = [seen EXCEPT ![c] = count[r]]
    /\ UNCHANGED <<vars, count>>

\* (Slip: drain stores the count it loaded.)
StoredUndiminished(c, r) == IF r[2][1] = c THEN seen[c] + 1 ELSE seen[c]

\* What core c stores: one more if it is the edge's sender, one less if not.
Stored(c, r) == IF r[2][1] = c THEN seen[c] + 1 ELSE seen[c] - 1

\* The rest of the push or pop that the load began.
Store(c) ==
    \E r \in changes[c] :
        /\ CoreStep(c)
        /\ \A q \in Rings : Queue(q)' # Queue(q) <=> q = r
        /\ count' = [count EXCEPT ![r] = Stored(c, r)]
        /\ changes' = [changes EXCEPT ![c] = {}]
        /\ UNCHANGED seen

\* A step of core c that changes no ring.
Elsewhere(c) ==
    /\ changes[c] = {}
    /\ CoreStep(c)
    /\ UNCHANGED <<req, rep, count, changes, seen>>

\* MaxSends bounds what is begun, too.
Begun == {c \in Cores : \E r \in changes[c] : r[1] = "req" /\ r[2][1] = c}
Bounded == issued + Cardinality(Begun) <= MaxSends

RingStep(c) == (Store(c) \/ Elsewhere(c) \/ \E r \in Rings : Load(c, r)) /\ Bounded'

RingsNext ==
    IF CountsExact THEN (\E c \in Cores : RingStep(c)) \/ (Stopped /\ UNCHANGED ringVars)
                   ELSE TRUE

RingsSpec ==
    RingsInit /\ [][RingsNext]_ringVars /\ \A c \in Cores : WF_ringVars(RingStep(c))

-----------------------------------------------------------------------------
(* An image in which two cores never change one count at a time: a request *)
(* ring has one slot, so that its count is changed by one side after the   *)
(* other; and over a pair of cores only one turn awaits, so that a reply   *)
(* ring holds the reply to its one call at most.                           *)
RingsHoldOne ==
    \A p \in Placements :
        /\ \A t \in Turns : \A a \in Calls[t] : p[t] # p[a] => MailboxCap[a] = 1
        /\ \A t, u \in Turns : \A a \in Awaits[t], b \in Awaits[u] :
               p[t] # p[a] /\ p[t] = p[u] /\ p[a] = p[b] => t = u
=============================================================================
