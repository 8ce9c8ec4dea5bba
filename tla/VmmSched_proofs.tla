--------------------------- MODULE VmmSched_proofs ---------------------------
(***************************************************************************)
(* Proofs about VmmSched, for every number of cores: the safety properties *)
(* of the run vmm_three_cores.                                             *)
(***************************************************************************)
EXTENDS VmmSched, TLAPS

-----------------------------------------------------------------------------
(* What next_core answers: no core, or one that may run.                     *)
LEMMA NextCoreMayRun ==
    ASSUME NEW from \in Cores, NEW next \in NextCore(from)
    PROVE  \/ next = NCores
           \/ /\ next \in Cores
              /\ state[next] = "Runnable" \/ (state[next] = "Parked" /\ pend[next])
<1> DEFINE at(step) == (from + step) % NCores
<1>1. \A step \in 1 .. NCores : at(step) \in Cores
    BY SchedAssumption DEF Cores
<1> QED
    BY <1>1 DEF NextCore

(* The two ways of naming the next place of a thread keep the types.         *)
LEMMA GotoTypes ==
    ASSUME NEW c \in Cores, NEW label \in Phases, phase \in [Cores -> Phases]
    PROVE  /\ Goto(c, label) => phase' \in [Cores -> Phases]
           /\ GotoNotify(c, label) => phase' \in [Cores -> Phases]
BY DEF Goto, GotoNotify, Notified, Phases

(* Every field is in its range when the threads are spawned ...              *)
LEMMA TypeInit == Init => TypeOK
<1> SUFFICES ASSUME Init PROVE TypeOK
    OBVIOUS
<1>1. 0 \in Cores
    BY SchedAssumption DEF Cores
<1>2. state \in [Cores -> CoreStates] /\ phase \in [Cores -> Phases]
    BY DEF Init, Born, CoreStates, Phases
<1>3. /\ parking \in [Cores -> BOOLEAN] /\ releasing \in [Cores -> BOOLEAN]
      /\ pend \in [Cores -> BOOLEAN]
    BY DEF Init
<1>4. raises \in 0 .. MaxRaises /\ keeps \in 0 .. MaxKeeps
    BY SchedAssumption DEF Init
<1> QED
    BY <1>1, <1>2, <1>3, <1>4 DEF Init, TypeOK, Errors

(* ... and after every step of a thread, the guest or the watchdog.          *)
LEMMA TypeNext == TypeOK /\ [Next]_vars => TypeOK'
<1> SUFFICES ASSUME TypeOK, [Next]_vars PROVE TypeOK'
    OBVIOUS
<1> USE SchedAssumption DEF TypeOK, CoreStates, Errors, schedVars, yieldVars, countVars
<1> DEFINE P == {"head", "guest", "polled", "park", "decide", "sleep", "baton",
                 "blocked", "halting", "returned"}
<1>0. P = Phases /\ 0 \in Cores
    BY DEF Phases, Cores
<1>1. ASSUME NEW c \in Cores, Leave(c) PROVE TypeOK'
    BY <1>1, <1>0, GotoTypes DEF Leave
<1>2. ASSUME NEW c \in Cores, Enter(c) PROVE TypeOK'
    BY <1>2, <1>0, GotoTypes DEF Enter
<1>3. ASSUME NEW c \in Cores, GuestCheckpoint(c) PROVE TypeOK'
    BY <1>3, <1>0, GotoTypes DEF GuestCheckpoint
<1>4. ASSUME NEW c \in Cores, GuestPark(c) PROVE TypeOK'
    BY <1>4, <1>0, GotoTypes DEF GuestPark
<1>5. ASSUME NEW c \in Cores, GuestKeep(c) PROVE TypeOK'
    BY <1>5, <1>0, GotoTypes DEF GuestKeep
<1>6. ASSUME NEW c \in Cores, Canceled(c) PROVE TypeOK'
    BY <1>6, <1>0, GotoTypes DEF Canceled, Recorded
<1>7. ASSUME NEW c \in Cores, ParkNow(c) PROVE TypeOK'
    BY <1>7, <1>0, GotoTypes DEF ParkNow, Yield
<1>8. ASSUME NEW c \in Cores, BatonDone(c) PROVE TypeOK'
    BY <1>8, <1>0, GotoTypes DEF BatonDone
<1>9. ASSUME NEW c \in Cores, BatonWait(c) PROVE TypeOK'
    BY <1>9, <1>0, GotoTypes DEF BatonWait
<1>10. ASSUME NEW c \in Cores, Commit(c) PROVE TypeOK'
  <2>1. PICK next \in NextCore(c) :
          LET none == next = NCores /\ ~ releasing[c]
              live == IF next = NCores THEN state
                      ELSE [state EXCEPT ![next] = "Runnable"]
          IN  /\ current' = NewHolder(c, next)
              /\ done' = none
              /\ error' = IF none /\ ~ exitCode
                          THEN Recorded("noCoreRunnable") ELSE error
              /\ state' = IF none THEN [live EXCEPT ![c] = "Finished"]
                          ELSE IF parking[c] THEN [live EXCEPT ![c] = "Parked"]
                          ELSE live
              /\ GotoNotify(c, IF none THEN "returned" ELSE "head")
    BY <1>10 DEF Commit
  <2>2. next = NCores \/ next \in Cores
    BY NextCoreMayRun
  <2>3. current' \in Cores
    BY <2>1, <2>2 DEF NewHolder
  <2>4. state' \in [Cores -> CoreStates]
    BY <2>1
  <2>5. phase' \in [Cores -> Phases]
    BY <2>1, <1>0, GotoTypes
  <2>6. done' \in BOOLEAN /\ error' \in Errors
    BY <2>1 DEF Recorded
  <2> QED
    BY <1>10, <2>3, <2>4, <2>5, <2>6 DEF Commit
<1>11. CASE GuestRelease
    BY <1>11, <1>0, GotoTypes, ZenonT(30) DEF GuestRelease, Yield, Recorded
<1>12. CASE GuestHalt
    BY <1>12, <1>0, GotoTypes DEF GuestHalt
<1>13. CASE HaltEnd
    BY <1>13, <1>0, GotoTypes DEF HaltEnd
<1>14. CASE ParkDeadline
    BY <1>14, <1>0, GotoTypes DEF ParkDeadline, Yield
<1>15. CASE ParkDecide
    BY <1>15, <1>0, GotoTypes DEF ParkDecide
<1>16. CASE SleepEnd
    BY <1>16, <1>0, GotoTypes DEF SleepEnd
<1>17. ASSUME NEW c \in Cores, NEW d \in Cores, GuestRaise(c, d) PROVE TypeOK'
    BY <1>17 DEF GuestRaise
<1>18. CASE Watchdog
    BY <1>18, <1>0 DEF Watchdog, Notified
<1>19. CASE UNCHANGED vars
    BY <1>19 DEF vars
<1> QED
    BY <1>1, <1>2, <1>3, <1>4, <1>5, <1>6, <1>7, <1>8, <1>9, <1>10, <1>11, <1>12,
       <1>13, <1>14, <1>15, <1>16, <1>17, <1>18, <1>19 DEF Next, Thread, Over

(* Every word of the scheduler and every thread's place keep their types; in *)
(* particular the baton is always held by a declared core.                   *)
THEOREM SchedTypeCorrect == Spec => []TypeOK
BY TypeInit, TypeNext, PTL DEF Spec

-----------------------------------------------------------------------------
(* Where every thread is after one of them went on, without and with a       *)
(* notification.                                                             *)
LEMMA GotoPlaces ==
    ASSUME NEW c \in Cores, NEW label \in Phases \ {"blocked"}, TypeOK
    PROVE  /\ Goto(c, label) => \A d \in Cores :
                  phase'[d] = IF d = c THEN label ELSE phase[d]
           /\ GotoNotify(c, label) => \A d \in Cores :
                  phase'[d] = IF d = c THEN label
                              ELSE IF phase[d] = "blocked" THEN "baton" ELSE phase[d]
BY DEF Goto, GotoNotify, Notified, TypeOK

(* What Commit does, with the core that next_core found named.               *)
LEMMA CommitStep ==
    ASSUME NEW c \in Cores, Commit(c), TypeOK
    PROVE  \E next \in Cores \cup {NCores} :
             /\ next # NCores =>
                    \/ state[next] = "Runnable"
                    \/ state[next] = "Parked" /\ pend[next]
             /\ current' = NewHolder(c, next)
             /\ done' = (next = NCores /\ ~ releasing[c])
             /\ error' = IF done' /\ ~ exitCode
                         THEN Recorded("noCoreRunnable") ELSE error
             /\ \A d \in Cores :
                    state'[d] = IF d = c /\ done' THEN "Finished"
                                ELSE IF d = c /\ parking[c] THEN "Parked"
                                ELSE IF d = next THEN "Runnable" ELSE state[d]
             /\ GotoNotify(c, IF done' THEN "returned" ELSE "head")
<1>1. PICK next \in NextCore(c) :
        LET none == next = NCores /\ ~ releasing[c]
            live == IF next = NCores THEN state
                    ELSE [state EXCEPT ![next] = "Runnable"]
        IN  /\ current' = NewHolder(c, next)
            /\ done' = none
            /\ error' = IF none /\ ~ exitCode
                        THEN Recorded("noCoreRunnable") ELSE error
            /\ state' = IF none THEN [live EXCEPT ![c] = "Finished"]
                        ELSE IF parking[c] THEN [live EXCEPT ![c] = "Parked"]
                        ELSE live
            /\ GotoNotify(c, IF none THEN "returned" ELSE "head")
    BY DEF Commit
<1>2. next \in Cores \cup {NCores} /\ NCores \notin Cores
    BY NextCoreMayRun, SchedAssumption DEF Cores
<1>3. next # NCores => state[next] = "Runnable" \/ (state[next] = "Parked" /\ pend[next])
    BY NextCoreMayRun
<1>4. \A d \in Cores :
        state'[d] = IF d = c /\ done' THEN "Finished"
                    ELSE IF d = c /\ parking[c] THEN "Parked"
                    ELSE IF d = next THEN "Runnable" ELSE state[d]
    BY <1>1, <1>2 DEF TypeOK
<1> QED
    BY <1>1, <1>2, <1>3, <1>4

-----------------------------------------------------------------------------
(* Secondaries start unreleased at their loop head ...                       *)
LEMMA MatchesInit == Init => StateMatchesThread
BY SchedAssumption DEF Init, StateMatchesThread, Born

(* ... and a core is parked or finished only where its thread leaves the guest. *)
LEMMA MatchesNext ==
    TypeOK /\ StateMatchesThread /\ [Next]_vars => StateMatchesThread'
<1> SUFFICES ASSUME TypeOK, StateMatchesThread, [Next]_vars PROVE StateMatchesThread'
    OBVIOUS
<1>0. 0 \in Cores
    BY SchedAssumption DEF Cores
<1> USE DEF StateMatchesThread, TypeOK, schedVars, CoreStates, Phases
<1>1. ASSUME NEW c \in Cores, Leave(c) PROVE StateMatchesThread'
    BY <1>1, GotoPlaces DEF Leave
<1>2. ASSUME NEW c \in Cores, Enter(c) PROVE StateMatchesThread'
    BY <1>2, GotoPlaces DEF Enter, MayEnter
<1>3. ASSUME NEW c \in Cores, GuestCheckpoint(c) PROVE StateMatchesThread'
    BY <1>3, GotoPlaces DEF GuestCheckpoint
<1>4. ASSUME NEW c \in Cores, GuestPark(c) PROVE StateMatchesThread'
    BY <1>4, GotoPlaces DEF GuestPark
<1>5. ASSUME NEW c \in Cores, GuestKeep(c) PROVE StateMatchesThread'
    BY <1>5, GotoPlaces DEF GuestKeep, InGuest
<1>6. ASSUME NEW c \in Cores, Canceled(c) PROVE StateMatchesThread'
    BY <1>6, GotoPlaces DEF Canceled, InGuest
<1>7. ASSUME NEW c \in Cores, ParkNow(c) PROVE StateMatchesThread'
    BY <1>7, GotoPlaces DEF ParkNow, Yield
<1>8. ASSUME NEW c \in Cores, BatonDone(c) PROVE StateMatchesThread'
    BY <1>8, GotoPlaces DEF BatonDone
<1>9. ASSUME NEW c \in Cores, BatonWait(c) PROVE StateMatchesThread'
    BY <1>9 DEF BatonWait, Goto
<1>10. ASSUME NEW c \in Cores, Commit(c) PROVE StateMatchesThread'
  <2>1. PICK next \in Cores \cup {NCores} :
          /\ next # NCores =>
                 \/ state[next] = "Runnable"
                 \/ state[next] = "Parked" /\ pend[next]
          /\ \A d \in Cores :
                 state'[d] = IF d = c /\ done' THEN "Finished"
                             ELSE IF d = c /\ parking[c] THEN "Parked"
                             ELSE IF d = next THEN "Runnable" ELSE state[d]
          /\ GotoNotify(c, IF done' THEN "returned" ELSE "head")
    BY <1>10, CommitStep
  <2>2. \A d \in Cores :
          phase'[d] = IF d = c THEN (IF done' THEN "returned" ELSE "head")
                      ELSE IF phase[d] = "blocked" THEN "baton" ELSE phase[d]
    BY <2>1, GotoPlaces
  <2>3. phase[c] = "baton" /\ state[c] # "Finished" /\ NCores \notin Cores
    BY <1>10, SchedAssumption DEF Commit, Cores
  <2> QED
    BY <2>1, <2>2, <2>3
<1>11. CASE GuestRelease
  <2>1. CASE \A c \in Cores \ {0} : state[c] = "Unreleased"
    <3>1. /\ Goto(0, "baton")
          /\ \A c \in Cores : state'[c] = IF c = 0 THEN state[0] ELSE "Runnable"
      BY <1>11, <2>1, <1>0 DEF GuestRelease, Yield
    <3>2. \A c \in Cores : phase'[c] = IF c = 0 THEN "baton" ELSE phase[c]
      BY <3>1, <1>0, GotoPlaces
    <3> QED
      BY <1>11, <2>1, <3>1, <3>2, <1>0 DEF GuestRelease
  <2>2. CASE \E c \in Cores \ {0} : state[c] # "Unreleased"
    <3>1. /\ GotoNotify(0, "returned")
          /\ \A c \in Cores : \/ c = 0 /\ state'[c] = "Finished"
                              \/ c # 0 /\ state'[c] = state[c]
                              \/ c # 0 /\ state[c] = "Unreleased"
                                       /\ state'[c] = "Runnable"
      <4> DEFINE gone == {c \in Cores \ {0} : state[c] # "Unreleased"}
      <4>1. gone # {} /\ \A c \in Cores : c < c <=> FALSE
        BY <2>2 DEF Cores
      <4>2. /\ GotoNotify(0, "returned")
            /\ state' = [c \in Cores |->
                   IF c = 0 THEN "Finished"
                   ELSE IF \A g \in gone : c < g THEN "Runnable" ELSE state[c]]
        BY <1>11, <4>1 DEF GuestRelease
      <4> QED
        BY <4>1, <4>2
    <3>2. \A c \in Cores :
            phase'[c] = IF c = 0 THEN "returned"
                        ELSE IF phase[c] = "blocked" THEN "baton" ELSE phase[c]
      BY <3>1, <1>0, GotoPlaces
    <3> QED
      BY <3>1, <3>2, <1>0
  <2> QED
    BY <2>1, <2>2
<1>12. CASE GuestHalt
    BY <1>12, <1>0, GotoPlaces DEF GuestHalt
<1>13. CASE HaltEnd
    BY <1>13, <1>0, GotoPlaces DEF HaltEnd
<1>14. CASE ParkDeadline
    BY <1>14, <1>0, GotoPlaces DEF ParkDeadline, Yield
<1>15. CASE ParkDecide
    BY <1>15, <1>0, GotoPlaces DEF ParkDecide
<1>16. CASE SleepEnd
    BY <1>16, <1>0, GotoPlaces DEF SleepEnd
<1>17. ASSUME NEW c \in Cores, NEW d \in Cores, GuestRaise(c, d)
       PROVE  StateMatchesThread'
    BY <1>17 DEF GuestRaise
<1>18. CASE Watchdog
    BY <1>18 DEF Watchdog, Notified
<1>19. CASE UNCHANGED vars
    BY <1>19 DEF vars
<1> QED
    BY <1>1, <1>2, <1>3, <1>4, <1>5, <1>6, <1>7, <1>8, <1>9, <1>10, <1>11, <1>12,
       <1>13, <1>14, <1>15, <1>16, <1>17, <1>18, <1>19 DEF Next, Thread, Over

(* The scheduler's idea of a core agrees with its thread: parked or          *)
(* unreleased only outside the guest and outside a yield, finished exactly   *)
(* when its thread has returned.                                             *)
THEOREM SchedMatchesThreads == Spec => []StateMatchesThread
BY TypeInit, TypeNext, MatchesInit, MatchesNext, PTL DEF Spec

-----------------------------------------------------------------------------
(* Nothing before the release: until then a secondary core is unreleased, or *)
(* the boot is over and its thread will never enter the guest.               *)
ReleaseInv ==
    ~ released => \A c \in Cores \ {0} :
        phase[c] \in {"head", "returned"} /\ (done \/ state[c] = "Unreleased")

(* No secondary is released at the start ...                                 *)
LEMMA ReleaseInit == Init => ReleaseInv
BY DEF Init, ReleaseInv, Born

(* ... and only the release doorbell makes one runnable.                     *)
LEMMA ReleaseNext ==
    TypeOK /\ StateMatchesThread /\ ReleaseInv /\ [Next]_vars => ReleaseInv'
<1> SUFFICES ASSUME TypeOK, StateMatchesThread, ReleaseInv, [Next]_vars
             PROVE  ReleaseInv'
    OBVIOUS
<1>0. 0 \in Cores
    BY SchedAssumption DEF Cores
<1> USE DEF ReleaseInv, TypeOK, schedVars, Phases
<1>1. ASSUME NEW c \in Cores, Leave(c) PROVE ReleaseInv'
    BY <1>1, <1>0, GotoPlaces DEF Leave, InGuest, MayEnter, Yield
<1>2. ASSUME NEW c \in Cores, Enter(c) PROVE ReleaseInv'
    BY <1>2, <1>0, GotoPlaces DEF Enter, InGuest, MayEnter, Yield
<1>3. ASSUME NEW c \in Cores, GuestCheckpoint(c) PROVE ReleaseInv'
    BY <1>3, <1>0, GotoPlaces DEF GuestCheckpoint, InGuest, MayEnter, Yield
<1>4. ASSUME NEW c \in Cores, GuestPark(c) PROVE ReleaseInv'
    BY <1>4, <1>0, GotoPlaces DEF GuestPark, InGuest, MayEnter, Yield
<1>5. ASSUME NEW c \in Cores, GuestKeep(c) PROVE ReleaseInv'
    BY <1>5, <1>0, GotoPlaces DEF GuestKeep, InGuest, MayEnter, Yield
<1>6. ASSUME NEW c \in Cores, Canceled(c) PROVE ReleaseInv'
    BY <1>6, <1>0, GotoPlaces DEF Canceled, InGuest, MayEnter, Yield
<1>7. ASSUME NEW c \in Cores, ParkNow(c) PROVE ReleaseInv'
    BY <1>7, <1>0, GotoPlaces DEF ParkNow, InGuest, MayEnter, Yield
<1>8. ASSUME NEW c \in Cores, BatonDone(c) PROVE ReleaseInv'
    BY <1>8, <1>0, GotoPlaces DEF BatonDone, InGuest, MayEnter, Yield
<1>9. ASSUME NEW c \in Cores, BatonWait(c) PROVE ReleaseInv'
    BY <1>9 DEF BatonWait, Goto
<1>10. ASSUME NEW c \in Cores, Commit(c) PROVE ReleaseInv'
  <2> SUFFICES ASSUME ~ released PROVE ReleaseInv'
    BY <1>10 DEF Commit
  <2>1. c = 0 /\ ~ done
    BY <1>10 DEF Commit
  <2>2. PICK next \in Cores \cup {NCores} :
          /\ next # NCores => state[next] \in {"Runnable", "Parked"}
          /\ \A d \in Cores :
                 state'[d] = IF d = c /\ done' THEN "Finished"
                             ELSE IF d = c /\ parking[c] THEN "Parked"
                             ELSE IF d = next THEN "Runnable" ELSE state[d]
          /\ GotoNotify(c, IF done' THEN "returned" ELSE "head")
    BY <1>10, CommitStep
  <2>3. \A d \in Cores \ {0} : phase'[d] = phase[d]
    BY <2>1, <2>2, GotoPlaces
  <2>4. \A d \in Cores \ {0} : d # next /\ state'[d] = state[d]
    BY <2>1, <2>2, SchedAssumption DEF Cores
  <2> QED
    BY <2>1, <2>3, <2>4
<1>11. CASE GuestRelease
    BY <1>11, <1>0, GotoPlaces DEF GuestRelease, InGuest, MayEnter, Yield
<1>12. CASE GuestHalt
    BY <1>12, <1>0, GotoPlaces DEF GuestHalt, InGuest, MayEnter, Yield
<1>13. CASE HaltEnd
    BY <1>13, <1>0, GotoPlaces DEF HaltEnd, InGuest, MayEnter, Yield
<1>14. CASE ParkDeadline
    BY <1>14, <1>0, GotoPlaces DEF ParkDeadline, InGuest, MayEnter, Yield
<1>15. CASE ParkDecide
    BY <1>15, <1>0, GotoPlaces DEF ParkDecide, InGuest, MayEnter, Yield
<1>16. CASE SleepEnd
    BY <1>16, <1>0, GotoPlaces DEF SleepEnd, InGuest, MayEnter, Yield
<1>17. ASSUME NEW c \in Cores, NEW d \in Cores, GuestRaise(c, d) PROVE ReleaseInv'
    BY <1>17, <1>0, GotoPlaces DEF GuestRaise, InGuest, MayEnter, Yield
<1>18. CASE Watchdog
    BY <1>18 DEF Watchdog, Notified
<1>19. CASE UNCHANGED vars
    BY <1>19 DEF vars
<1> QED
    BY <1>1, <1>2, <1>3, <1>4, <1>5, <1>6, <1>7, <1>8, <1>9, <1>10, <1>11, <1>12,
       <1>13, <1>14, <1>15, <1>16, <1>17, <1>18, <1>19 DEF Next, Thread, Over

(* No secondary core executes a guest instruction before core 0 has rung the *)
(* release doorbell, whatever becomes of the baton and the watchdog.         *)
THEOREM NothingRunsBeforeRelease == Spec => []NothingBeforeRelease
<1>1. ReleaseInv => NothingBeforeRelease
    BY DEF ReleaseInv, NothingBeforeRelease
<1> QED
    BY TypeInit, TypeNext, MatchesInit, MatchesNext, ReleaseInit, ReleaseNext, <1>1,
       PTL DEF Spec

-----------------------------------------------------------------------------
(* Every end of a boot has a cause, and every thread that returned has seen  *)
(* the end.                                                                  *)
EndInv ==
    /\ \A c \in Cores : phase[c] = "returned" => done
    /\ done => exitCode \/ error # "none" \/ watchdog
    /\ phase[0] = "halting" => exitCode

(* The boot has not ended at the start ...                                   *)
LEMMA EndInit == Init => EndInv
BY SchedAssumption DEF Init, EndInv, Cores

(* ... and every step that ends it leaves a cause behind.                    *)
LEMMA EndNext == TypeOK /\ EndInv /\ [Next]_vars => EndInv'
<1> SUFFICES ASSUME TypeOK, EndInv, [Next]_vars PROVE EndInv'
    OBVIOUS
<1>0. 0 \in Cores
    BY SchedAssumption DEF Cores
<1> USE DEF EndInv, TypeOK, schedVars, Phases
<1>1. ASSUME NEW c \in Cores, Leave(c) PROVE EndInv'
    BY <1>1, <1>0, GotoPlaces DEF Leave, InGuest, Yield, Recorded
<1>2. ASSUME NEW c \in Cores, Enter(c) PROVE EndInv'
    BY <1>2, <1>0, GotoPlaces DEF Enter, InGuest, Yield, Recorded
<1>3. ASSUME NEW c \in Cores, GuestCheckpoint(c) PROVE EndInv'
    BY <1>3, <1>0, GotoPlaces DEF GuestCheckpoint, InGuest, Yield, Recorded
<1>4. ASSUME NEW c \in Cores, GuestPark(c) PROVE EndInv'
    BY <1>4, <1>0, GotoPlaces DEF GuestPark, InGuest, Yield, Recorded
<1>5. ASSUME NEW c \in Cores, GuestKeep(c) PROVE EndInv'
    BY <1>5, <1>0, GotoPlaces DEF GuestKeep, InGuest, Yield, Recorded
<1>6. ASSUME NEW c \in Cores, Canceled(c) PROVE EndInv'
    BY <1>6, <1>0, GotoPlaces DEF Canceled, InGuest, Yield, Recorded
<1>7. ASSUME NEW c \in Cores, ParkNow(c) PROVE EndInv'
    BY <1>7, <1>0, GotoPlaces DEF ParkNow, InGuest, Yield, Recorded
<1>8. ASSUME NEW c \in Cores, BatonDone(c) PROVE EndInv'
    BY <1>8, <1>0, GotoPlaces DEF BatonDone, InGuest, Yield, Recorded
<1>9. ASSUME NEW c \in Cores, BatonWait(c) PROVE EndInv'
    BY <1>9 DEF BatonWait, Goto
<1>10. ASSUME NEW c \in Cores, Commit(c) PROVE EndInv'
  <2>1. /\ done' => exitCode \/ error' # "none"
        /\ GotoNotify(c, IF done' THEN "returned" ELSE "head")
    BY <1>10, CommitStep DEF Recorded
  <2>2. \A d \in Cores :
          phase'[d] = IF d = c THEN (IF done' THEN "returned" ELSE "head")
                      ELSE IF phase[d] = "blocked" THEN "baton" ELSE phase[d]
    BY <2>1, GotoPlaces
  <2> QED
    BY <1>10, <1>0, <2>1, <2>2 DEF Commit
<1>11. CASE GuestRelease
    BY <1>11, <1>0, GotoPlaces DEF GuestRelease, InGuest, Yield, Recorded
<1>12. CASE GuestHalt
    BY <1>12, <1>0, GotoPlaces DEF GuestHalt, InGuest, Yield, Recorded
<1>13. CASE HaltEnd
    BY <1>13, <1>0, GotoPlaces DEF HaltEnd, InGuest, Yield, Recorded
<1>14. CASE ParkDeadline
    BY <1>14, <1>0, GotoPlaces DEF ParkDeadline, InGuest, Yield, Recorded
<1>15. CASE ParkDecide
    BY <1>15, <1>0, GotoPlaces DEF ParkDecide, InGuest, Yield, Recorded
<1>16. CASE SleepEnd
    BY <1>16, <1>0, GotoPlaces DEF SleepEnd, InGuest, Yield, Recorded
<1>17. ASSUME NEW c \in Cores, NEW d \in Cores, GuestRaise(c, d) PROVE EndInv'
    BY <1>17 DEF GuestRaise
<1>18. CASE Watchdog
    BY <1>18, <1>0 DEF Watchdog, Notified
<1>19. CASE UNCHANGED vars
    BY <1>19 DEF vars
<1> QED
    BY <1>1, <1>2, <1>3, <1>4, <1>5, <1>6, <1>7, <1>8, <1>9, <1>10, <1>11, <1>12,
       <1>13, <1>14, <1>15, <1>16, <1>17, <1>18, <1>19 DEF Next, Thread, Over

(* A boot never ends without an exit code, an error or the watchdog.         *)
THEOREM BootsEndWithACause == Spec => []NoSilentEnd
<1>1. EndInv => NoSilentEnd
    BY SchedAssumption DEF EndInv, NoSilentEnd, Cores
<1> QED
    BY TypeInit, TypeNext, EndInit, EndNext, <1>1, PTL DEF Spec

-----------------------------------------------------------------------------
(* Whoever waits for the baton waits for a holder that is not blocked, and   *)
(* that runs or has been woken.                                              *)
WaitInv ==
    (\E c \in Cores : phase[c] = "blocked") =>
        /\ ~ done
        /\ phase[current] # "blocked"
        /\ state[current] \notin {"Finished", "Unreleased"}
        /\ state[current] = "Parked" => pend[current]

(* Nobody is blocked at the start ...                                        *)
LEMMA WaitInit == Init => WaitInv
BY DEF Init, WaitInv

(* After a notification nobody is blocked.                                   *)
LEMMA NotifiedWaitInv ==
    ASSUME NEW c \in Cores, NEW label \in Phases \ {"blocked"}, TypeOK,
           GotoNotify(c, label)
    PROVE  WaitInv'
BY GotoPlaces DEF WaitInv

(* ... and a step that disturbs the holder of the baton wakes everybody.     *)
LEMMA WaitNext ==
    TypeOK /\ StateMatchesThread /\ WaitInv /\ [Next]_vars => WaitInv'
<1> SUFFICES ASSUME TypeOK, StateMatchesThread, WaitInv, [Next]_vars PROVE WaitInv'
    OBVIOUS
<1>0. 0 \in Cores
    BY SchedAssumption DEF Cores
<1> USE DEF Phases
<1>1. ASSUME NEW c \in Cores, Leave(c) PROVE WaitInv'
    BY <1>1, GotoPlaces DEF Leave, WaitInv, TypeOK
<1>2. ASSUME NEW c \in Cores, Enter(c) PROVE WaitInv'
    BY <1>2, GotoPlaces DEF Enter, WaitInv, TypeOK
<1>3. ASSUME NEW c \in Cores, GuestCheckpoint(c) PROVE WaitInv'
    BY <1>3, GotoPlaces DEF GuestCheckpoint, WaitInv, TypeOK, StateMatchesThread, schedVars
<1>4. ASSUME NEW c \in Cores, GuestPark(c) PROVE WaitInv'
    BY <1>4, GotoPlaces DEF GuestPark, WaitInv, TypeOK, schedVars
<1>5. ASSUME NEW c \in Cores, GuestKeep(c) PROVE WaitInv'
    BY <1>5, <1>0, NotifiedWaitInv DEF GuestKeep
<1>6. ASSUME NEW c \in Cores, Canceled(c) PROVE WaitInv'
    BY <1>6, <1>0, NotifiedWaitInv DEF Canceled
<1>7. ASSUME NEW c \in Cores, ParkNow(c) PROVE WaitInv'
  <2>1. CASE c # 0 /\ pend[c]
    BY <1>7, <2>1, NotifiedWaitInv DEF ParkNow
  <2>2. CASE ~ (c # 0 /\ pend[c])
    BY <1>7, <2>2, GotoPlaces DEF ParkNow, Yield, WaitInv, TypeOK, schedVars
  <2> QED
    BY <2>1, <2>2
<1>8. ASSUME NEW c \in Cores, BatonDone(c) PROVE WaitInv'
    BY <1>8, <1>0, NotifiedWaitInv DEF BatonDone
<1>9. ASSUME NEW c \in Cores, BatonWait(c) PROVE WaitInv'
    BY <1>9 DEF BatonWait, Goto, HolderStuck, WaitInv, TypeOK, schedVars
<1>10. ASSUME NEW c \in Cores, Commit(c) PROVE WaitInv'
    BY <1>10, CommitStep, NotifiedWaitInv
<1>11. CASE GuestRelease
  <2>1. CASE \A c \in Cores \ {0} : state[c] = "Unreleased"
    <3>1. /\ Goto(0, "baton") /\ UNCHANGED <<current, done, pend>>
          /\ \A c \in Cores : state'[c] = IF c = 0 THEN state[0] ELSE "Runnable"
      BY <1>11, <2>1, <1>0 DEF GuestRelease, Yield
    <3>2. state[0] # "Finished" /\ state[0] # "Unreleased" /\ state[0] # "Parked"
      BY <1>11, <1>0 DEF GuestRelease, StateMatchesThread
    <3> QED
      BY <3>1, <3>2, <1>0, GotoPlaces DEF WaitInv, TypeOK
  <2>2. CASE \E c \in Cores \ {0} : state[c] # "Unreleased"
    BY <1>11, <2>2, <1>0, NotifiedWaitInv DEF GuestRelease
  <2> QED
    BY <2>1, <2>2
<1>12. CASE GuestHalt
    BY <1>12, <1>0, GotoPlaces DEF GuestHalt, WaitInv, TypeOK
<1>13. CASE HaltEnd
    BY <1>13, <1>0, NotifiedWaitInv DEF HaltEnd
<1>14. CASE ParkDeadline
    BY <1>14, <1>0, GotoPlaces DEF ParkDeadline, Yield, WaitInv, TypeOK, schedVars
<1>15. CASE ParkDecide
  <2>1. CASE pend[0]
    BY <1>15, <2>1, <1>0, NotifiedWaitInv DEF ParkDecide
  <2>2. CASE ~ pend[0]
    BY <1>15, <2>2, <1>0, GotoPlaces DEF ParkDecide, WaitInv, TypeOK, schedVars
  <2> QED
    BY <2>1, <2>2
<1>16. CASE SleepEnd
    BY <1>16, <1>0, NotifiedWaitInv DEF SleepEnd
<1>17. ASSUME NEW c \in Cores, NEW d \in Cores, GuestRaise(c, d) PROVE WaitInv'
    BY <1>17 DEF GuestRaise, WaitInv, TypeOK, schedVars
<1>18. CASE Watchdog
    BY <1>18 DEF Watchdog, Notified, WaitInv, TypeOK
<1>19. CASE UNCHANGED vars
    BY <1>19 DEF vars, schedVars, WaitInv
<1> QED
    BY <1>1, <1>2, <1>3, <1>4, <1>5, <1>6, <1>7, <1>8, <1>9, <1>10, <1>11, <1>12,
       <1>13, <1>14, <1>15, <1>16, <1>17, <1>18, <1>19 DEF Next, Thread, Over

(* No set of threads waits for one another: while one is blocked on the      *)
(* condition variable, another one runs, or will once its poll sees its      *)
(* raised word.                                                              *)
THEOREM NoCircularWait == Spec => []NobodyWaitsForNobody
<1>1. TypeOK /\ StateMatchesThread /\ WaitInv => NobodyWaitsForNobody
    BY DEF TypeOK, StateMatchesThread, WaitInv, NobodyWaitsForNobody, CoreStates
<1> QED
    BY TypeInit, TypeNext, MatchesInit, MatchesNext, WaitInit, WaitNext, <1>1,
       PTL DEF Spec
=============================================================================
