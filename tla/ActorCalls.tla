------------------------------ MODULE ActorCalls ------------------------------
(***************************************************************************)
(* What the runtime promises about messages between actors                 *)
(* (docs/language/04-compiler.md, sections 2 and 3), whatever mailboxes,   *)
(* rings, cores and wakes carry them: a message that is admitted is taken  *)
(* at most once, those of one sender in its order; an actor handles one    *)
(* message at a time, and a call it made meanwhile before it goes on; the  *)
(* answer to a call reaches the turn that made it, once.                   *)
(***************************************************************************)
EXTENDS Naturals

CONSTANTS
    Actors, Test,   \* the turns: one of each actor, and the test's
    Calls,          \* the actors each turn may send to
    Messages        \* records with a number, a sender, and whether it is a call

VARIABLES
    last,       \* the number of the last attempt to send or call
    posted,     \* per actor: the messages admitted and not yet taken
    handling,   \* per actor: the message it handles, if any
    answers,    \* the calls answered and not yet taken up by their callers
    waits,      \* per turn: the call it waits for, or 0
    open        \* has the test not yet returned?

vars == <<last, posted, handling, answers, waits, open>>

Turns == Actors \cup {Test}

Init ==
    /\ last = 0 /\ answers = {} /\ open = TRUE
    /\ posted = [a \in Actors |-> {}] /\ handling = [a \in Actors |-> {}]
    /\ waits = [t \in Turns |-> 0]

\* A turn that does not wait and has something to do.
Active(t) == waits[t] = 0 /\ IF t = Test THEN open ELSE handling[t] # {}

Attempt(t) == last' = last + 1 /\ Active(t)

\* A message that is not admitted.
Refuse(t) == Attempt(t) /\ UNCHANGED <<posted, handling, answers, waits, open>>

\* A send; or a call, for which its turn waits.
Post(t, a) ==
    /\ Attempt(t) /\ a \in Calls[t]
    /\ \E m \in Messages :
           /\ m.id = last' /\ m.from = t
           /\ posted' = [posted EXCEPT ![a] = @ \cup {m}]
           /\ waits' = IF m.call THEN [waits EXCEPT ![t] = m.id] ELSE waits
    /\ UNCHANGED <<handling, answers, open>>

\* An actor that handles nothing takes a message, of one sender the oldest.
Take(a) ==
    \E m \in posted[a] :
        /\ handling[a] = {}
        /\ \A n \in posted[a] : n.from = m.from => m.id <= n.id
        /\ posted' = [posted EXCEPT ![a] = @ \ {m}]
        /\ handling' = [handling EXCEPT ![a] = {m}]
        /\ UNCHANGED <<last, answers, waits, open>>

\* It has handled it, and answers if it was a call.
Finish(a) ==
    \E m \in handling[a] :
        /\ waits[a] = 0
        /\ handling' = [handling EXCEPT ![a] = {}]
        /\ answers' = IF m.call THEN answers \cup {m.id} ELSE answers
        /\ UNCHANGED <<last, posted, waits, open>>

\* A turn goes on with the answer to its call.
Resume(t) ==
    /\ waits[t] \in answers
    /\ answers' = answers \ {waits[t]}
    /\ waits' = [waits EXCEPT ![t] = 0]
    /\ UNCHANGED <<last, posted, handling, open>>

Return ==
    /\ open /\ Active(Test) /\ open' = FALSE
    /\ UNCHANGED <<last, posted, handling, answers, waits>>

Next ==
    \/ \E t \in Turns : Refuse(t) \/ Resume(t) \/ \E a \in Actors : Post(t, a)
    \/ \E a \in Actors : Take(a) \/ Finish(a)
    \/ Return

Spec == Init /\ [][Next]_vars
=============================================================================
