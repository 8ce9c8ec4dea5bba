------------------------------ MODULE VmmSched ------------------------------
(***************************************************************************)
(* The VMM's scheduler of vCPU threads (crates/wrela-vmm/src/engine.rs):   *)
(* one host thread per guest core (run_core), the shared Sched behind one  *)
(* mutex and one condition variable, the baton `current` that orders       *)
(* yields, the park, release and exit doorbells (handle_exit), pending     *)
(* words in guest memory, and the wall-clock watchdog.                     *)
(*                                                                         *)
(* A section under the mutex is one step; guest execution and the pending  *)
(* words it reads and raises are not under the mutex.  The guest is any    *)
(* program that checkpoints before it parks, as runtime.wr's loops do.     *)
(* Recording boots only (a replay forces the recorded choices); no block   *)
(* device completes.                                                       *)
(***************************************************************************)
EXTENDS Naturals

CONSTANTS
    NCores,       \* parsed.cores
    MaxRaises,    \* bound on the pending words guest code raises
    MaxKeeps      \* bound on the exits that are neither park, release nor halt

ASSUME SchedAssumption ==
    NCores \in Nat \ {0} /\ MaxRaises \in Nat /\ MaxKeeps \in Nat

Cores == 0 .. NCores - 1

VARIABLES
    state,      \* sched.state: the CoreState of every core
    current,    \* sched.current: the core that holds the baton
    done,       \* sched.done
    released,   \* has core 0 rung the release doorbell?
    exitCode,   \* has exit_code been set?
    error,      \* the first error recorded
    watchdog,   \* has the watchdog fired?
    phase,      \* where each vCPU thread is
    parking,    \* the park flag of the Yield a thread carries
    releasing,  \* the release flag of that Yield
    pend,       \* PENDING.words[core] # 0, in guest memory
    raises,     \* pending words raised by guest code so far
    keeps       \* other exits so far

schedVars == <<state, current, done, released, exitCode, error, watchdog>>
yieldVars == <<parking, releasing>>
countVars == <<raises, keeps>>
vars == <<schedVars, phase, yieldVars, pend, countVars>>

CoreStates == {"Unreleased", "Runnable", "Parked", "Finished"}
Errors == {"none", "timeout", "releasedTwice", "noCoreRunnable"}
Phases == {"head", "guest", "polled", "park", "decide", "sleep", "baton",
           "blocked", "halting", "returned"}

\* (Slip: every core may run from the start.)
BornRunnable(c) == "Runnable"

\* The state a core starts in.
Born(c) == IF c = 0 THEN "Runnable" ELSE "Unreleased"

Init ==
    /\ state = [c \in Cores |-> Born(c)]
    /\ current = 0
    /\ done = FALSE /\ released = FALSE /\ exitCode = FALSE
    /\ error = "none" /\ watchdog = FALSE
    /\ phase = [c \in Cores |-> "head"]
    /\ parking = [c \in Cores |-> FALSE]
    /\ releasing = [c \in Cores |-> FALSE]
    /\ pend = [c \in Cores |-> FALSE]
    /\ raises = 0 /\ keeps = 0

Goto(c, label) == phase' = [phase EXCEPT ![c] = label]

\* (Slip: nobody is notified.)
GotoQuiet(c, label) == Goto(c, label)

\* wake.notify_all: the threads blocked on the condition variable look again.
Notified(ph) == [c \in Cores |-> IF ph[c] = "blocked" THEN "baton" ELSE ph[c]]
GotoNotify(c, label) == phase' = Notified([phase EXCEPT ![c] = label])

\* The first error wins.
Recorded(e) == IF error = "none" THEN e ELSE error

\* handle_exit answered Step::Yield { release, park }.
Yield(c, park, release) ==
    /\ parking' = [parking EXCEPT ![c] = park]
    /\ releasing' = [releasing EXCEPT ![c] = release]
    /\ Goto(c, "baton")

-----------------------------------------------------------------------------
(* The head of run_core's loop (a 1 ms poll while there is nothing to do).  *)

\* sched.done: the thread returns.
Leave(c) ==
    /\ phase[c] = "head" /\ done
    /\ state' = [state EXCEPT ![c] = "Finished"]
    /\ Goto(c, "returned")
    /\ UNCHANGED <<current, done, released, exitCode, error, watchdog, yieldVars,
                   pend, countVars>>

\* (Slip: the parked core does not look at its word.)
MayEnterRunnable(c) == state[c] = "Runnable"

\* A parked core whose word was raised is runnable; a runnable core enters the
\* guest.
MayEnter(c) == state[c] = "Runnable" \/ (state[c] = "Parked" /\ pend[c])

Enter(c) ==
    /\ phase[c] = "head" /\ ~ done
    /\ MayEnter(c)
    /\ state' = [state EXCEPT ![c] = "Runnable"]
    /\ Goto(c, "guest")
    /\ UNCHANGED <<current, done, released, exitCode, error, watchdog, yieldVars,
                   pend, countVars>>

-----------------------------------------------------------------------------
(* The guest, in vcpu.run.                                                  *)

InGuest(c) == phase[c] \in {"guest", "polled"}

\* A release fetch-OR of some core's pending word.
GuestRaise(c, d) ==
    /\ InGuest(c) /\ raises < MaxRaises
    /\ released \/ d = 0
    /\ pend' = [pend EXCEPT ![d] = TRUE]
    /\ raises' = raises + 1
    /\ UNCHANGED <<schedVars, phase, yieldVars, keeps>>

\* A checkpoint takes the core's own word; what it announced is handled.
GuestCheckpoint(c) ==
    /\ phase[c] = "guest"
    /\ pend' = [pend EXCEPT ![c] = FALSE]
    /\ Goto(c, "polled")
    /\ UNCHANGED <<schedVars, yieldVars, countVars>>

\* The park doorbell (of core 0 only once the others are released).
GuestPark(c) ==
    /\ phase[c] = "polled"
    /\ NCores > 1 => released
    /\ Goto(c, "park")
    /\ UNCHANGED <<schedVars, yieldVars, pend, countVars>>

\* Any other exit keeps the core running, and notifies.
GuestKeep(c) ==
    /\ InGuest(c) /\ keeps < MaxKeeps
    /\ keeps' = keeps + 1
    /\ GotoNotify(c, "head")
    /\ UNCHANGED <<schedVars, yieldVars, pend, raises>>

\* The release doorbell: core 0, once, before anything else.  The secondary
\* cores become runnable in turn; one that is not Unreleased any more (the
\* watchdog made its thread return) fails the boot as a second release.
GuestRelease ==
    /\ phase[0] = "polled" /\ ~ released /\ NCores > 1
    /\ LET gone == {c \in Cores \ {0} : state[c] # "Unreleased"}
       IN  IF gone = {}
           THEN /\ released' = TRUE
                /\ state' = [c \in Cores |-> IF c = 0 THEN state[c] ELSE "Runnable"]
                /\ Yield(0, FALSE, TRUE)
                /\ UNCHANGED <<done, error>>
           ELSE /\ error' = Recorded("releasedTwice")
                /\ done' = TRUE
                /\ state' = [c \in Cores |->
                       IF c = 0 THEN "Finished"
                       ELSE IF \A g \in gone : c < g THEN "Runnable" ELSE state[c]]
                /\ GotoNotify(0, "returned")
                /\ UNCHANGED <<released, yieldVars>>
    /\ UNCHANGED <<current, exitCode, watchdog, pend, countVars>>

\* (Slip: the exit code is dropped.)
GuestHaltDropped ==
    /\ phase[0] = "polled" /\ (NCores > 1 => released)
    /\ Goto(0, "halting")
    /\ UNCHANGED <<schedVars, yieldVars, pend, countVars>>

\* The exit doorbell: the exit code is kept, then up to 50 ms pass before
\* done is set.
GuestHalt ==
    /\ phase[0] = "polled" /\ (NCores > 1 => released)
    /\ exitCode' = TRUE
    /\ Goto(0, "halting")
    /\ UNCHANGED <<state, current, done, released, error, watchdog, yieldVars,
                   pend, countVars>>

\* (Slip: the other threads are not notified.)
HaltEndQuiet ==
    /\ phase[0] = "halting"
    /\ done' = TRUE
    /\ state' = [state EXCEPT ![0] = "Finished"]
    /\ Goto(0, "returned")
    /\ UNCHANGED <<current, released, exitCode, error, watchdog, yieldVars, pend,
                   countVars>>

\* The boot is done: core 0's thread returns.
HaltEnd ==
    /\ phase[0] = "halting"
    /\ done' = TRUE
    /\ state' = [state EXCEPT ![0] = "Finished"]
    /\ GotoNotify(0, "returned")
    /\ UNCHANGED <<current, released, exitCode, error, watchdog, yieldVars, pend,
                   countVars>>

\* The watchdog cancelled this vCPU while it ran: Timeout, and fail_core.
Canceled(c) ==
    /\ InGuest(c) /\ watchdog
    /\ error' = Recorded("timeout")
    /\ done' = TRUE
    /\ state' = [state EXCEPT ![c] = "Finished"]
    /\ GotoNotify(c, "returned")
    /\ UNCHANGED <<current, released, exitCode, watchdog, yieldVars, pend, countVars>>

-----------------------------------------------------------------------------
(* handle_exit for the park doorbell.                                       *)

\* A secondary core with a raised word keeps running, otherwise it yields to
\* park; so does core 0 of several when no deadline is set, except that it
\* yields even with a raised word, then without parking.
ParkNow(c) ==
    /\ phase[c] = "park"
    /\ c = 0 => NCores > 1
    /\ IF c # 0 /\ pend[c]
       THEN GotoNotify(c, "head") /\ UNCHANGED yieldVars
       ELSE Yield(c, ~ pend[c], FALSE)
    /\ UNCHANGED <<schedVars, pend, countVars>>

SiblingRunnable ==
    \E c \in Cores \ {0} : state[c] = "Runnable" \/ (state[c] = "Parked" /\ pend[c])

\* Core 0 parks with a deadline: it yields to a sibling that can run ...
ParkDeadline ==
    /\ phase[0] = "park"
    /\ IF SiblingRunnable
       THEN Yield(0, FALSE, FALSE)
       ELSE Goto(0, "decide") /\ UNCHANGED yieldVars
    /\ UNCHANGED <<schedVars, pend, countVars>>

\* ... or sleeps until the deadline unless its word is raised by now.
ParkDecide ==
    /\ phase[0] = "decide"
    /\ IF pend[0] THEN GotoNotify(0, "head") ELSE Goto(0, "sleep")
    /\ UNCHANGED <<schedVars, yieldVars, pend, countVars>>

\* The deadline passed: record the wake, raise vector 0.  A sleep that the end
\* of the boot cut short is a timeout if nothing else explains it.
SleepEnd ==
    /\ phase[0] = "sleep"
    /\ IF ~ done
       THEN /\ pend' = [pend EXCEPT ![0] = TRUE]
            /\ GotoNotify(0, "head")
            /\ UNCHANGED <<state, error>>
       ELSE IF error = "none" /\ ~ exitCode
       THEN /\ error' = "timeout"
            /\ state' = [state EXCEPT ![0] = "Finished"]
            /\ GotoNotify(0, "returned")
            /\ UNCHANGED pend
       ELSE GotoNotify(0, "head") /\ UNCHANGED <<state, error, pend>>
    /\ UNCHANGED <<current, done, released, exitCode, watchdog, yieldVars, countVars>>

-----------------------------------------------------------------------------
(* Step::Yield: wait for the baton, then pass it on.                        *)

\* The core with the baton will not pass it on.
HolderStuck ==
    \/ state[current] \in {"Finished", "Unreleased"}
    \/ state[current] = "Parked" /\ ~ pend[current]

\* (Slip: the thread returns without a note of it.)
BatonDoneUnnoted(c) ==
    /\ phase[c] = "baton" /\ done
    /\ GotoNotify(c, "returned")
    /\ UNCHANGED <<schedVars, yieldVars, pend, countVars>>

\* The boot ended meanwhile.
BatonDone(c) ==
    /\ phase[c] = "baton" /\ done
    /\ state' = [state EXCEPT ![c] = "Finished"]
    /\ GotoNotify(c, "returned")
    /\ UNCHANGED <<current, done, released, exitCode, error, watchdog, yieldVars,
                   pend, countVars>>

\* Not its turn: block on the condition variable.
BatonWait(c) ==
    /\ phase[c] = "baton" /\ ~ done
    /\ current # c /\ ~ HolderStuck
    /\ Goto(c, "blocked")
    /\ UNCHANGED <<schedVars, yieldVars, pend, countVars>>

\* next_core: the first core after `from`, cyclically, that is parked with a
\* raised word; else the first runnable one.  A set of one; NCores is None.
NextCore(from) ==
    LET at(step) == (from + step) % NCores
        first(S) == {at(s) : s \in {t \in S : \A r \in S : t <= r}}
        woken == {s \in 1 .. NCores : state[at(s)] = "Parked" /\ pend[at(s)]}
        ready == {s \in 1 .. NCores : state[at(s)] = "Runnable"}
    IN  IF woken # {} THEN first(woken)
        ELSE IF ready # {} THEN first(ready) ELSE {NCores}

\* (Slip: simply the next number.)
NewHolderNext(c, next) == IF releasing[c] \/ next = NCores THEN c ELSE c + 1

\* The baton stays with a releasing core, and with one that finds no next.
NewHolder(c, next) == IF releasing[c] \/ next = NCores THEN c ELSE next

\* The yielding core commits: the baton goes to next_core, which may make that
\* core runnable; then the core parks.
Commit(c) ==
    /\ phase[c] = "baton" /\ ~ done
    /\ current = c \/ HolderStuck
    /\ \E next \in NextCore(c) :
           LET none == next = NCores /\ ~ releasing[c]
               live == IF next = NCores THEN state
                       ELSE [state EXCEPT ![next] = "Runnable"]
           IN  /\ current' = NewHolder(c, next)
               /\ done' = none
               /\ error' = IF none /\ ~ exitCode
                           THEN Recorded("noCoreRunnable") ELSE error
               /\ state' = IF none THEN [live EXCEPT ![c] = "Finished"]
                           ELSE IF parking[c] THEN [live EXCEPT ![c] = "Parked"]
                           ELSE live
               /\ GotoNotify(c, IF none THEN "returned" ELSE "head")
    /\ parking' = [parking EXCEPT ![c] = FALSE]
    /\ releasing' = [releasing EXCEPT ![c] = FALSE]
    /\ UNCHANGED <<released, exitCode, watchdog, pend, countVars>>

-----------------------------------------------------------------------------
\* The wall clock ran out.
Watchdog ==
    /\ ~ watchdog
    /\ \E c \in Cores : phase[c] # "returned"
    /\ watchdog' = TRUE /\ done' = TRUE
    /\ phase' = Notified(phase)
    /\ UNCHANGED <<state, current, released, exitCode, error, yieldVars, pend,
                   countVars>>

Thread(c) ==
    \/ Leave(c) \/ Enter(c) \/ GuestCheckpoint(c) \/ GuestPark(c) \/ GuestKeep(c)
    \/ Canceled(c) \/ ParkNow(c) \/ BatonDone(c) \/ BatonWait(c) \/ Commit(c)
    \/ c = 0 /\ (GuestRelease \/ GuestHalt \/ HaltEnd \/ ParkDeadline
                 \/ ParkDecide \/ SleepEnd)

\* The boot is over once every thread returned.
Over == (\A c \in Cores : phase[c] = "returned") /\ UNCHANGED vars

Next ==
    \/ \E c \in Cores : Thread(c) \/ \E d \in Cores : GuestRaise(c, d)
    \/ Watchdog \/ Over

\* Host threads run; whether a core raises another's word is the guest's
\* choice, and the watchdog never needs to fire.
Spec == Init /\ [][Next]_vars /\ \A c \in Cores : WF_vars(Thread(c))

-----------------------------------------------------------------------------
(* Properties.                                                             *)

\* The types of the state.
TypeOK ==
    /\ state \in [Cores -> CoreStates]
    /\ current \in Cores
    /\ done \in BOOLEAN /\ released \in BOOLEAN /\ exitCode \in BOOLEAN
    /\ watchdog \in BOOLEAN
    /\ error \in Errors
    /\ phase \in [Cores -> Phases]
    /\ parking \in [Cores -> BOOLEAN]
    /\ releasing \in [Cores -> BOOLEAN]
    /\ pend \in [Cores -> BOOLEAN]
    /\ raises \in 0 .. MaxRaises /\ keeps \in 0 .. MaxKeeps

\* A secondary core executes nothing before core 0 has released it, however
\* the baton moves.
NothingBeforeRelease ==
    \A c \in Cores \ {0} : ~ released => phase[c] \in {"head", "returned"}

\* The scheduler knows a core as parked or finished only while its thread is
\* not executing the guest, nor about to commit a yield.
StateMatchesThread ==
    \A c \in Cores :
        /\ state[c] \in {"Parked", "Unreleased"} => phase[c] \in {"head", "returned"}
        /\ state[c] = "Finished" <=> phase[c] = "returned"

\* A boot that ends without an exit code or an error was ended by the watchdog.
NoSilentEnd ==
    (\A c \in Cores : phase[c] = "returned") =>
        exitCode \/ error # "none" \/ watchdog

\* A thread blocks on the condition variable only while somebody who is not
\* blocked will notify it: no set of threads waits for each other's baton.
NobodyWaitsForNobody ==
    (\E c \in Cores : phase[c] = "blocked") =>
        \E c \in Cores : phase[c] \notin {"blocked", "returned"} /\
                         (phase[c] = "head" => state[c] = "Runnable" \/ pend[c])

\* A raised pending word is never slept through: its parked core runs again
\* unless the boot ends.
WakeServed ==
    \A c \in Cores : state[c] = "Parked" /\ pend[c] ~> InGuest(c) \/ done

\* A core that yields gets the baton.
BatonServed ==
    \A c \in Cores : phase[c] = "baton" ~> phase[c] \in {"head", "returned"}

\* Once done is set every thread returns.
AllReturn == done ~> \A c \in Cores : phase[c] = "returned"

\* engine.rs:1063: when every core is parked with an empty pending word, no
\* turn can ever run again; the boot is to end with that diagnosis.
DeadlockDiagnosed ==
    (\A c \in Cores : state[c] = "Parked" /\ ~ pend[c]) => done
=============================================================================
