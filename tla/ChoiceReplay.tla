----------------------------- MODULE ChoiceReplay -----------------------------
(***************************************************************************)
(* Recording a boot and replaying it: the VMM's Chooser (record.rs), which *)
(* logs every choice of a recording boot and, in a replaying boot, answers *)
(* each request with the next entry of the log; the handlers of the engine *)
(* that ask it; and the input transport.  A replaying boot is strict: the  *)
(* first divergence ends it.                                               *)
(*                                                                         *)
(* The guest is any program: recording, each core asks what it likes; in   *)
(* the replay each core asks again what it asked, as long as all answers   *)
(* have been the recorded ones, and whatever it likes after another one.   *)
(* The cores leave the guest for the VMM concurrently, so that the order   *)
(* in which they ask may differ between the two boots, and so may the last *)
(* exits of the cores that run on after another one has halted.  Who holds *)
(* the baton, is parked or has been released is VmmSched's part.           *)
(***************************************************************************)
EXTENDS Naturals, Sequences, FiniteSets

CONSTANTS
    Cores,           \* the cores the image declares
    Programs,        \* sets of the kinds of exit a program makes
    Values,          \* clock readings, entropy, digests
    Pairs,           \* <<mailbox, sender>> of the admissions
    QueueCapacity,   \* of the live input queue
    MaxSteps,        \* bound on exits and admissions, one per core that left aside
    MaxLines         \* bound on the lines of the input transport

None == "none"

ASSUME ReplayAssumption ==
    /\ Cores # {}
    /\ \A p \in Pairs : Len(p) = 2
    /\ \A u \in Programs :
          u \subseteq {"clock", "blk", "deadline", "frame", "status", "input",
                       "progress"}
    /\ QueueCapacity \in Nat \ {0} /\ MaxSteps \in Nat /\ MaxLines \in Nat

VARIABLES
    uses,       \* the exits this program makes
    chooser,    \* the Chooser
    input,      \* the transport's lines, the queue, the next sequence number
    lock,       \* the core that commits admissions and keeps the lock, if any
    done,       \* sched.done
    left,       \* the cores whose threads return, or have
    over,       \* has the replaying boot ended?
    did,        \* per core: what it asked and was answered, recording
    pos,        \* per core: how much of that it has asked again
    asked,      \* exits of this boot that asked something
    same,       \* have all answers of the replay been the recorded ones?
    drift       \* in what the replaying boot's host differed (history)

boot == <<lock, done, left, over>>
vars == <<uses, chooser, input, boot, did, pos, asked, same, drift>>

Recording == chooser.mode = "record"
Replaying == chooser.mode = "replay"

Entry(kind, val) == [kind |-> kind, val |-> val]

Recorder == [mode |-> "record", log |-> <<>>, idx |-> 1,
             bag |-> [p \in Pairs |-> 0], kept |-> <<>>, fault |-> None]

NoInput == [lines |-> 0, queue |-> 0, seq |-> 0]

\* The replayer counts the admissions of the log, whatever their places.
Replayer(log) ==
    [Recorder EXCEPT
        !.mode = "replay", !.log = log,
        !.bag = [p \in Pairs |->
                    Cardinality({i \in DOMAIN log : log[i] = Entry("admission", p)})]]

(***************************************************************************)
(* The Chooser.  Both modes keep what they answered, in `log` and `kept`.  *)
(* A fault is a divergence or, from the input path, a fault of the guest.  *)
(***************************************************************************)
Keep(ch, entry) ==
    IF ch.mode = "record" THEN [ch EXCEPT !.log = Append(@, entry)]
                          ELSE [ch EXCEPT !.kept = Append(@, entry)]

Fail(ch, why) == IF ch.fault = None THEN [ch EXCEPT !.fault = why] ELSE ch

\* (Slip: admissions are answered out of the log's order, but not passed over.)
UpcomingNext(ch) == ch.idx

\* The entry a replayer is at; admissions are passed over.
Upcoming(ch) ==
    CHOOSE i \in ch.idx .. Len(ch.log) + 1 :
        /\ i = Len(ch.log) + 1 \/ ch.log[i].kind # "admission"
        /\ \A j \in ch.idx .. i - 1 : ch.log[j].kind = "admission"

Matches(ch, kind) == Upcoming(ch) <= Len(ch.log) /\ ch.log[Upcoming(ch)].kind = kind

\* request.fallback(): readings and input events have a constant of their own.
Fallback(kind, live) == Entry(kind, IF kind \in {"clock", "input"} THEN 0 ELSE live)

Answer(ch, kind, live) ==
    IF ch.mode = "record" THEN Entry(kind, live)
    ELSE IF Matches(ch, kind) THEN ch.log[Upcoming(ch)] ELSE Fallback(kind, live)

\* (Slip: the entry that answers is not consumed.)
AdvanceTo(ch) == [ch EXCEPT !.idx = Upcoming(ch)]

Advance(ch) == [ch EXCEPT !.idx = IF Upcoming(ch) <= Len(ch.log)
                                  THEN Upcoming(ch) + 1 ELSE Upcoming(ch)]

\* Once the log is used up, only a hand-off of the baton goes unremarked.
Choose(ch, kind, live) ==
    LET kept == Keep(Advance(ch), Answer(ch, kind, live))
    IN  IF ch.fault # None THEN ch
        ELSE IF ch.mode = "record" THEN Keep(ch, Answer(ch, kind, live))
        ELSE IF Matches(ch, kind) THEN kept
        ELSE IF Upcoming(ch) <= Len(ch.log) THEN Fail(kept, "tag")
        ELSE IF kind = "progress" THEN kept ELSE Fail(kept, "underrun")

\* Outputs and completions are compared with what this boot observed.
ChooseChecked(ch, kind, observed) ==
    IF Answer(ch, kind, observed).val = observed THEN Choose(ch, kind, observed)
    ELSE Fail(Choose(ch, kind, observed), "payload")

\* An admission is looked for anywhere in the log.  One that is not there
\* diverges if a left-over one has its mailbox or its sender.
Admit(ch, p) ==
    LET like == {q \in Pairs : ch.bag[q] > 0 /\ (q[1] = p[1] \/ q[2] = p[2])}
    IN  IF ch.fault # None THEN ch
        ELSE IF ch.mode = "record" \/ like = {} THEN Keep(ch, Entry("admission", p))
        ELSE IF ch.bag[p] > 0
        THEN Keep([ch EXCEPT !.bag[p] = @ - 1], Entry("admission", p))
        ELSE Fail(Keep([ch EXCEPT !.bag[CHOOSE q \in like : TRUE] = @ - 1],
                       Entry("admission", p)), "admission")

\* (Slip: a log that is not used up goes unremarked.)
FinishAny(ch) == ch

\* finish: what is left of the log may only be admissions and hand-offs.
Finish(ch) ==
    IF \A i \in ch.idx .. Len(ch.log) : ch.log[i].kind \in {"admission", "progress"}
    THEN ch ELSE Fail(ch, "overrun")

InputAt(log, i) == i <= Len(log) /\ log[i].kind = "input"

\* replay_input_pending looks at the replayer's entry, and passes over none.
InputPending(ch) == InputAt(ch.log, ch.idx)

(***************************************************************************)
(* The guest's side of an exit.                                            *)
(***************************************************************************)
Repeating == Replaying /\ same

Due(c) == did[c][pos[c] + 1]

\* Core c has asked all that it was recorded to ask.
Past(c) == pos[c] >= Len(did[c])

Running(c) == ~over /\ chooser.fault = None /\ lock \subseteq {c} /\ c \notin left

Kept == IF Recording THEN chooser.log ELSE chooser.kept

Committed == Cardinality({i \in DOMAIN Kept : Kept[i].kind = "admission"})

\* Core c, now outside the guest, asks this; `live` is what this boot has
\* to offer and is the program's doing when `own` holds.
MayAsk(c, kind, live, own) ==
    /\ Running(c)
    /\ c \in lock => kind \in {"progress", "halt"}
    /\ kind # "halt" => kind \in uses /\ asked + Committed < MaxSteps + Cardinality(left)
    /\ Repeating /\ ~Past(c) =>
           /\ Due(c).kind = kind
           /\ own => Due(c).val = live

\* Where a replayer of this log is once its choices have been asked for.
Reached(log) ==
    CHOOSE i \in 1 .. Len(log) + 1 :
        /\ i = 1 \/ log[i - 1].kind # "admission"
        /\ \A j \in i .. Len(log) : log[j].kind = "admission"

\* The core is answered, and runs on; a core whose exit is not over when
\* `done` is set does not enter the guest again.
Told(c, kind, answer) ==
    /\ asked' = asked + 1 /\ lock' = {} /\ UNCHANGED <<done, over>>
    /\ left' = IF done \/ kind = "halt" THEN left \cup {c} ELSE left
    /\ IF Recording
       THEN /\ did' = [did EXCEPT ![c] = Append(@, [kind |-> kind, val |-> answer,
                           n |-> asked, at |-> Reached(chooser.log)])]
            /\ UNCHANGED <<pos, same, drift>>
       ELSE /\ pos' = [pos EXCEPT ![c] = @ + 1]
            /\ same' = (same /\ (Past(c) \/ answer = Due(c).val))
            /\ drift' = IF ~same THEN drift
                        ELSE IF Past(c) THEN drift \cup {"end"}
                        ELSE IF Due(c).n # asked THEN drift \cup {"order"} ELSE drift
            /\ UNCHANGED did

(***************************************************************************)
(* The handlers.                                                           *)
(***************************************************************************)
ClockRead(c) ==
    \E v \in Values :
        /\ MayAsk(c, "clock", v, FALSE)
        /\ chooser' = Choose(chooser, "clock", v)
        /\ Told(c, "clock", Answer(chooser, "clock", v).val)
        /\ UNCHANGED input

\* commit_completions: a completion and the raise of the device's vector.
Completion(c) ==
    \E v \in Values :
        /\ MayAsk(c, "blk", v, TRUE)
        /\ chooser' = Choose(ChooseChecked(chooser, "blk", v), "vector", 1)
        /\ Told(c, "blk", Answer(chooser, "blk", v).val)
        /\ UNCHANGED input

\* A park that slept to its deadline; it does not ask once `done` is set.
DeadlineWake(c) ==
    /\ ~done /\ MayAsk(c, "deadline", 1, TRUE)
    /\ chooser' = Choose(Choose(chooser, "deadline", 1), "vector", 0)
    /\ Told(c, "deadline", 1)
    /\ UNCHANGED input

Present(c) ==
    \E v \in Values :
        /\ MayAsk(c, "frame", v, TRUE)
        /\ chooser' = ChooseChecked(chooser, "frame", v)
        /\ Told(c, "frame", v)
        /\ UNCHANGED input

\* (Slip: the queue is looked at before the new lines are pushed.)
OverfullBefore == input.queue > QueueCapacity

\* poll_live: every line so far is pushed; a full queue is an error.
Overfull == input.queue + input.lines > QueueCapacity

Polled == [input EXCEPT !.queue = @ + input.lines, !.lines = 0]

\* The status read is answered without asking the Chooser.
InputStatus(c) ==
    LET pending == IF Replaying THEN InputPending(chooser) ELSE Polled.queue > 0
    IN  /\ MayAsk(c, "status", pending, FALSE)
        /\ input' = IF Recording /\ ~Overfull THEN Polled ELSE input
        /\ chooser' = IF Recording /\ Overfull THEN Fail(chooser, "full") ELSE chooser
        /\ Told(c, "status", pending)

\* choose_input: the next event, whose sequence number is checked.
InputEvent(c) ==
    LET empty == IF Replaying THEN ~InputPending(chooser) ELSE Polled.queue = 0
        event == Answer(chooser, "input", input.seq).val
        chosen == Choose(chooser, "input", input.seq)
    IN  /\ MayAsk(c, "input", input.seq, FALSE)
        /\ IF Recording /\ Overfull
           THEN chooser' = Fail(chooser, "full") /\ UNCHANGED input
           ELSE IF empty
           THEN chooser' = Fail(chooser, "empty") /\ UNCHANGED input
           ELSE /\ chooser' = IF event = input.seq THEN chosen
                              ELSE Fail(chosen, "sequence")
                /\ input' = [Polled EXCEPT !.seq = @ + 1,
                                           !.queue = IF Replaying THEN @ ELSE @ - 1]
        /\ Told(c, "input", event)

\* A yielder that has the baton, given to it or taken from a core that cannot
\* run; the live next core is the schedule's, not the program's.
MayYield(c, d) ==
    Cardinality(Cores) > 1 /\ ~done /\ MayAsk(c, "progress", d, FALSE)

MayHalt(c) == MayAsk(c, "halt", 0, TRUE)

\* commit_admissions: a core that yields or halts commits what exits have
\* observed, one admission after the other, and keeps the lock.
Commit(c) ==
    \E p \in Pairs :
        /\ MayHalt(c) \/ \E d \in Cores : MayYield(c, d)
        /\ asked + Committed < MaxSteps + Cardinality(left)
        /\ lock' = {c} /\ chooser' = Admit(chooser, p)
        /\ drift' = IF Replaying /\ chooser.bag[p] = 0
                    THEN drift \cup {"admission"} ELSE drift
        /\ UNCHANGED <<input, done, left, over, did, pos, asked, same>>

\* The baton goes to the next core, in a replay to the recorded one.
Yield(c) ==
    \E d \in Cores :
        /\ MayYield(c, d)
        /\ chooser' = Choose(chooser, "progress", d)
        /\ Told(c, "progress", Answer(chooser, "progress", d).val)
        /\ UNCHANGED input

\* A core that halts lets the others run on for a while ...
Halt(c) ==
    /\ MayHalt(c) /\ Told(c, "halt", 0)
    /\ UNCHANGED <<input, chooser>>

\* ... until its thread, or that of a yielder, sets `done`.
Done ==
    /\ left # {} /\ ~done /\ ~over /\ lock = {} /\ chooser.fault = None
    /\ done' = TRUE
    /\ UNCHANGED <<uses, chooser, input, lock, left, over, did, pos, asked, same,
                   drift>>

\* All threads have returned.  A recording polls the transport once more and
\* is then replayed; a replay looks for what is left of the log.
End ==
    /\ done /\ ~over /\ lock = {} /\ chooser.fault = None
    /\ IF Recording
       THEN /\ chooser' = IF Overfull THEN Fail(chooser, "full")
                          ELSE Replayer(chooser.log)
            /\ done' = FALSE /\ left' = {} /\ asked' = 0 /\ input' = NoInput
            /\ UNCHANGED <<over, drift>>
       ELSE /\ chooser' = Finish(chooser) /\ over' = TRUE
            /\ drift' = IF same /\ \E c \in Cores : ~Past(c)
                        THEN drift \cup {"end"} ELSE drift
            /\ UNCHANGED <<input, done, left, asked>>
    /\ UNCHANGED <<uses, lock, did, pos, same>>

\* A host tool appends a line to the transport.
Line ==
    /\ Recording /\ input.seq + input.queue + input.lines < MaxLines
    /\ input' = [input EXCEPT !.lines = @ + 1]
    /\ UNCHANGED <<uses, chooser, boot, did, pos, asked, same, drift>>

Init ==
    /\ uses \in Programs /\ chooser = Recorder
    /\ input = NoInput
    /\ lock = {} /\ done = FALSE /\ left = {}
    /\ over = FALSE /\ did = [c \in Cores |-> <<>>]
    /\ pos = [c \in Cores |-> 0] /\ asked = 0 /\ same = TRUE /\ drift = {}

Exit(c) ==
    /\ \/ ClockRead(c) \/ Completion(c) \/ DeadlineWake(c) \/ Present(c)
       \/ InputStatus(c) \/ InputEvent(c) \/ Commit(c) \/ Yield(c) \/ Halt(c)
    /\ UNCHANGED uses

Next == Line \/ Done \/ End \/ \E c \in Cores : Exit(c)

Spec == Init /\ [][Next]_vars
-----------------------------------------------------------------------------
Kinds == {"clock", "blk", "vector", "deadline", "frame", "input", "progress",
          "admission"}

Faults == {"tag", "underrun", "overrun", "payload", "admission", "full", "empty",
           "sequence"}

\* The records keep their shape; the transport never overfills its queue, and
\* a recorder has no divergence to report.
TypeOK ==
    /\ chooser.mode \in {"record", "replay"} /\ chooser.fault \in Faults \cup {None}
    /\ \A i \in DOMAIN chooser.log : chooser.log[i].kind \in Kinds
    /\ \A i \in DOMAIN chooser.kept : chooser.kept[i].kind \in Kinds
    /\ chooser.idx \in 1 .. Len(chooser.log) + 1
    /\ chooser.bag \in [Pairs -> Nat]
    /\ input.queue \in 0 .. QueueCapacity
    /\ lock \subseteq Cores /\ left \subseteq Cores
    /\ done \in BOOLEAN /\ over \in BOOLEAN /\ same \in BOOLEAN
    /\ drift \subseteq {"order", "end", "admission"}
    /\ Recording => chooser.fault \in {None, "full", "empty"} /\ chooser.kept = <<>>

Choices(log) == {i \in DOMAIN log : log[i].kind # "admission"}

\* How many of the first n entries are choices: the place of the n-th, if it is.
Count(log, n) == Cardinality({i \in 1 .. n : log[i].kind # "admission"})

Total(log) == Count(log, Len(log))

\* A replay without a fault has kept the recorded choices, in their order and
\* without a gap, up to where it is; past the log's end only hand-offs of the
\* baton (choose_next against the log it was given and the one it keeps).
KeepsTheLog ==
    Replaying /\ chooser.fault = None =>
        LET log == chooser.log
            kept == chooser.kept
        IN  \A k \in Choices(kept) :
                \/ \E i \in Choices(log) :
                      Count(log, i) = Count(kept, k) /\ log[i] = kept[k]
                \/ Count(kept, k) > Total(log) /\ kept[k].kind = "progress"

\* A replay that ended well has left out nothing but admissions and hand-offs.
NothingMissed ==
    over /\ chooser.fault = None =>
        \A i \in Choices(chooser.log) :
            \/ Count(chooser.log, i) <= Total(chooser.kept)
            \/ chooser.log[i].kind = "progress"

\* Every status read was told, recording, what a replayer of the log will tell
\* it, that there is input exactly if the entry after the last choice is input;
\* and no event was read with an admission between it and the last choice.
InputImplied ==
    \A c \in Cores : \A j \in DOMAIN did[c] :
        LET e == did[c][j]
        IN  /\ e.kind = "status" => e.val = InputAt(chooser.log, e.at)
            /\ e.kind = "input" => InputAt(chooser.log, e.at)

\* If the cores make the recorded exits in the recorded order and no others, no
\* admission is observed that was not recorded, and what the recording told of
\* the input is implied by its log, the replay answers every core as the
\* recording did and never takes it for a divergence.
Reproduced ==
    Replaying /\ drift = {} /\ InputImplied => same /\ chooser.fault = None
=============================================================================
