------------------------- MODULE ChoiceReplay_proofs -------------------------
(***************************************************************************)
(* Proofs about ChoiceReplay, for every number of cores, every program,    *)
(* every set of values and every bound.                                    *)
(*                                                                         *)
(* ReplayInv is the inductive invariant of the first results: the state's  *)
(* types, and Follows, which ties the replayer's cursor to the number of   *)
(* choices it has kept.  ExactInv adds, for a boot whose host has not      *)
(* drifted, where in the log the entries of each exit are.                 *)
(***************************************************************************)
EXTENDS ChoiceReplay, FiniteSetTheorems, SequenceTheorems, WellFoundedInduction, TLAPS

\* What an entry of the log may hold, and a core may be told.
Logged == Values \cup Nat \cup Pairs \cup Cores

LogEntry == [kind : Kinds, val : Logged]

Choosers == [mode : {"record", "replay"}, log : Seq(LogEntry), idx : Nat \ {0},
             bag : [Pairs -> Nat], kept : Seq(LogEntry),
             fault : Faults \cup {None}]

\* A recorder has kept nothing else and has no divergence to report.
ChooserType(ch) ==
    /\ ch \in Choosers /\ ch.idx <= Len(ch.log) + 1
    /\ \A i \in DOMAIN ch.log :
          ch.log[i].kind = "progress" => ch.log[i].val \in Cores
    /\ ch.mode = "record" => ch.fault \in {None, "full", "empty"} /\ ch.kept = <<>>

\* The choices kept are those of the log, with hand-offs after its last.
KeptIs(log, kept) ==
    \A k \in Choices(kept) :
        \/ \E i \in Choices(log) : Count(log, i) = Count(kept, k) /\ log[i] = kept[k]
        \/ Count(kept, k) > Total(log) /\ kept[k].kind = "progress"

\* ... as many as the replayer's cursor has passed.
Follows(ch) ==
    ch.mode = "replay" /\ ch.fault = None =>
        /\ KeptIs(ch.log, ch.kept)
        /\ IF ch.idx <= Len(ch.log)
           THEN Total(ch.kept) = Count(ch.log, ch.idx - 1)
           ELSE Total(ch.kept) >= Total(ch.log)


\* What a core asked and was told, at which exit of the boot.
Asked == {"clock", "blk", "deadline", "frame", "status", "input", "progress", "halt"}

Exchange == [kind : Asked, val : Logged \cup BOOLEAN, n : Nat, at : Nat \ {0}]

\* A replaying boot has no transport.
InputType ==
    /\ input \in [lines : Nat, queue : 0 .. QueueCapacity, seq : Nat]
    /\ Replaying => input.lines = 0

ExitType ==
    /\ did \in [Cores -> Seq(Exchange)] /\ pos \in [Cores -> Nat]
    /\ asked \in Nat /\ same \in BOOLEAN
    /\ drift \subseteq {"order", "end", "admission"}
    /\ lock \subseteq Cores /\ left \subseteq Cores /\ done \in BOOLEAN

Finished ==
    over => /\ Replaying
            /\ chooser.fault = None =>
                   \A i \in chooser.idx .. Len(chooser.log) :
                       chooser.log[i].kind \in {"admission", "progress"}

ReplayInv ==
    /\ ChooserType(chooser) /\ Follows(chooser)
    /\ InputType /\ ExitType /\ Finished
    /\ over \in BOOLEAN

\* A replayer that has answered everything before entry u is at entry i: only
\* admissions lie between, and a choice comes before.
Place(log, i, u) ==
    /\ i \in Nat \ {0} /\ i <= u
    /\ i = 1 \/ log[i - 1].kind # "admission"
    /\ \A j \in i .. u - 1 : log[j].kind = "admission"

\* Entries u to t-1 of the log are the own ones of an exit of this kind that
\* told the core val.
Own(kind, val, log, u, t) ==
    \/ /\ kind \in {"clock", "frame", "input", "progress"} /\ t = u + 1
       /\ u <= Len(log) /\ log[u] = Entry(kind, val)
    \/ /\ kind = "blk" /\ t = u + 2 /\ u + 1 <= Len(log)
       /\ log[u] = Entry("blk", val) /\ log[u + 1] = Entry("vector", 1)
    \/ /\ kind = "deadline" /\ val = 1 /\ t = u + 2 /\ u + 1 <= Len(log)
       /\ log[u] = Entry("deadline", 1) /\ log[u + 1] = Entry("vector", 0)
    \/ /\ kind = "status" \/ (kind = "halt" /\ val = 0)
       /\ t = u /\ u <= Len(log) + 1

\* Entries s to t-1 are those of this exit: committed admissions and its own.
Fits(e, log, s, t) ==
    \E u \in Nat \ {0} :
        /\ s <= u /\ \A i \in s .. u - 1 : log[i].kind = "admission"
        /\ Place(log, e.at, u) /\ Own(e.kind, e.val, log, u, t)

\* Exit n of the recording has the entries from start[n] on, and found seqs[n]
\* as the input's next sequence number.
Recorded(e, log, start, seqs) ==
    /\ Fits(e, log, start[e.n], start[e.n + 1])
    /\ e.kind = "input" => e.val = seqs[e.n]
    /\ seqs[e.n + 1] = IF e.kind = "input" THEN seqs[e.n] + 1 ELSE seqs[e.n]

\* The exits 0 to last-1, each of which some core made.
Layout(told, log, start, seqs, last) ==
    /\ last \in Nat
    /\ start \in [0 .. last -> Nat \ {0}] /\ start[0] = 1
    /\ seqs \in [0 .. last -> Nat] /\ seqs[0] = 0
    /\ \A c \in Cores : \A j \in DOMAIN told[c] :
          told[c][j].n < last /\ Recorded(told[c][j], log, start, seqs)
    /\ \A n \in 0 .. last - 1 :
          \E c \in Cores : \E j \in DOMAIN told[c] : told[c][j].n = n

\* What comes after them is admissions.
Trailing(log, s) == s <= Len(log) + 1 /\ \A i \in s .. Len(log) : log[i].kind = "admission"

\* The whole log is laid out so by the first exits of the boot.
LaidOut(told, log, last, seq) ==
    \E start \in [0 .. last -> Nat \ {0}], seqs \in [0 .. last -> Nat] :
        /\ Layout(told, log, start, seqs, last)
        /\ Trailing(log, start[last]) /\ seqs[last] = seq

\* The cores have asked again what the first exits of the recording did, and
\* the replayer is where it should be before the next one.
Repeated(start, seqs, last) ==
    /\ asked <= last
    /\ Place(chooser.log, chooser.idx, start[asked]) /\ input.seq = seqs[asked]
    /\ \A c \in Cores : \A j \in 1 .. pos[c] :
          j \in DOMAIN did[c] /\ did[c][j].n < asked

ReplayedSoFar ==
    \E last \in Nat :
        \E start \in [0 .. last -> Nat \ {0}], seqs \in [0 .. last -> Nat] :
            /\ Layout(did, chooser.log, start, seqs, last)
            /\ Trailing(chooser.log, start[last])
            /\ ~ over => Repeated(start, seqs, last)

ExactInv ==
    /\ Recording => same /\ drift = {} /\ \A c \in Cores : pos[c] = 0
    /\ Recording /\ chooser.fault = None =>
           LaidOut(did, chooser.log, asked, input.seq)
    /\ Replaying /\ drift = {} /\ InputImplied =>
           same /\ chooser.fault = None /\ ReplayedSoFar
-----------------------------------------------------------------------------
(***************************************************************************)
(* Counting the choices of a log.                                          *)
(***************************************************************************)
LEMMA CountType ==
    ASSUME NEW s, NEW n \in Nat
    PROVE  /\ IsFiniteSet({i \in 1 .. n : s[i].kind # "admission"})
           /\ Count(s, n) \in Nat
<1>1. IsFiniteSet(1 .. n)
  BY FS_Interval
<1>2. {i \in 1 .. n : s[i].kind # "admission"} \in SUBSET (1 .. n)
  OBVIOUS
<1> QED BY <1>1, <1>2, FS_Subset, FS_CardinalityType DEF Count

LEMMA CountStep ==
    ASSUME NEW s, NEW n \in Nat
    PROVE  Count(s, n + 1) = Count(s, n) + (IF s[n + 1].kind # "admission" THEN 1 ELSE 0)
<1> DEFINE S == {i \in 1 .. n : s[i].kind # "admission"}
           T == {i \in 1 .. n + 1 : s[i].kind # "admission"}
<1>1. IsFiniteSet(S) /\ Cardinality(S) \in Nat
  BY CountType DEF Count
<1>2. CASE s[n + 1].kind # "admission"
  <2>1. T = S \cup {n + 1} /\ n + 1 \notin S
    BY <1>2
  <2> HIDE DEF S, T
  <2>2. Cardinality(T) = Cardinality(S) + 1
    BY <1>1, <2>1, FS_AddElement
  <2> QED BY <1>2, <2>2 DEF Count, S, T
<1>3. CASE s[n + 1].kind = "admission"
  <2>1. T = S
    BY <1>3
  <2>2. Count(s, n + 1) = Count(s, n)
    BY <2>1 DEF Count
  <2>3. Count(s, n) \in Nat
    BY CountType
  <2> QED BY <1>3, <2>2, <2>3
<1> QED BY <1>2, <1>3

LEMMA CountMonotone ==
    ASSUME NEW s, NEW m \in Nat, NEW n \in Nat, m <= n
    PROVE  Count(s, m) <= Count(s, n)
<1>1. {i \in 1 .. m : s[i].kind # "admission"}
          \in SUBSET {i \in 1 .. n : s[i].kind # "admission"}
  OBVIOUS
<1> QED BY <1>1, CountType, FS_Subset DEF Count

LEMMA CountPasses ==
    ASSUME NEW s, NEW m \in Nat, NEW n \in Nat, m <= n,
           \A i \in m + 1 .. n : s[i].kind = "admission"
    PROVE  Count(s, n) = Count(s, m)
<1>1. {i \in 1 .. m : s[i].kind # "admission"} = {i \in 1 .. n : s[i].kind # "admission"}
  OBVIOUS
<1> QED BY <1>1 DEF Count

LEMMA CountAppend ==
    ASSUME NEW s \in Seq(LogEntry), NEW e \in LogEntry
    PROVE  /\ \A n \in 0 .. Len(s) : Count(Append(s, e), n) = Count(s, n)
           /\ Total(Append(s, e)) =
                  Total(s) + (IF e.kind # "admission" THEN 1 ELSE 0)
           /\ Total(s) \in Nat
<1>1. /\ Len(Append(s, e)) = Len(s) + 1 /\ Len(s) \in Nat
      /\ \A i \in 1 .. Len(s) : Append(s, e)[i] = s[i]
      /\ Append(s, e)[Len(s) + 1] = e
  OBVIOUS
<1>2. ASSUME NEW n \in 0 .. Len(s) PROVE Count(Append(s, e), n) = Count(s, n)
  <2>1. {i \in 1 .. n : Append(s, e)[i].kind # "admission"}
            = {i \in 1 .. n : s[i].kind # "admission"}
    BY <1>1
  <2> QED BY <2>1 DEF Count
<1>3. Total(Append(s, e)) = Total(s) + (IF e.kind # "admission" THEN 1 ELSE 0)
  <2>1. Count(Append(s, e), Len(s) + 1) = Count(Append(s, e), Len(s))
            + (IF e.kind # "admission" THEN 1 ELSE 0)
    BY <1>1, CountStep
  <2>2. Count(Append(s, e), Len(s)) = Count(s, Len(s))
    BY <1>1, <1>2
  <2> QED BY <1>1, <2>1, <2>2 DEF Total
<1> QED BY <1>1, <1>2, <1>3, CountType DEF Total

(***************************************************************************)
(* The choices kept follow the log when the next one is the log's next, or *)
(* a hand-off past its end; admissions do not matter.                      *)
(***************************************************************************)
LEMMA KeepsFollowing ==
    ASSUME NEW log \in Seq(LogEntry), NEW kept \in Seq(LogEntry), NEW e \in LogEntry,
           KeptIs(log, kept),
           \/ e.kind = "admission"
           \/ \E i \in Choices(log) : Count(log, i) = Total(kept) + 1 /\ log[i] = e
           \/ Total(kept) >= Total(log) /\ e.kind = "progress"
    PROVE  KeptIs(log, Append(kept, e))
<1> DEFINE new == Append(kept, e)
<1>1. /\ DOMAIN new = 1 .. Len(kept) + 1 /\ Len(kept) \in Nat
      /\ DOMAIN kept = 1 .. Len(kept)
      /\ \A i \in 1 .. Len(kept) : new[i] = kept[i]
      /\ new[Len(kept) + 1] = e /\ Len(new) = Len(kept) + 1
  OBVIOUS
<1>2. /\ \A n \in 0 .. Len(kept) : Count(new, n) = Count(kept, n)
      /\ e.kind # "admission" => Count(new, Len(kept) + 1) = Total(kept) + 1
      /\ Total(kept) \in Nat
  BY <1>1, CountAppend DEF Total
<1>3. Total(log) \in Nat
  BY CountType, LenProperties DEF Total
<1> HIDE DEF new
<1>4. SUFFICES ASSUME NEW k \in Choices(new)
               PROVE  \/ \E i \in Choices(log) : Count(log, i) = Count(new, k) /\ log[i] = new[k]
                      \/ Count(new, k) > Total(log) /\ new[k].kind = "progress"
  BY DEF KeptIs, new
<1>5. CASE k \in 1 .. Len(kept)
  <2>1. k \in Choices(kept) /\ new[k] = kept[k] /\ Count(new, k) = Count(kept, k)
    BY <1>1, <1>2, <1>5 DEF Choices
  <2> QED BY <2>1 DEF KeptIs
<1>6. CASE k = Len(kept) + 1
  <2>1. e.kind # "admission" /\ new[k] = e /\ Count(new, k) = Total(kept) + 1
    BY <1>1, <1>2, <1>6 DEF Choices
  <2>2. CASE \E i \in Choices(log) : Count(log, i) = Total(kept) + 1 /\ log[i] = e
    BY <2>1, <2>2
  <2>3. CASE Total(kept) >= Total(log) /\ e.kind = "progress"
    BY <1>2, <1>3, <2>1, <2>3
  <2> QED BY <2>1, <2>2, <2>3
<1>7. k \in 1 .. Len(kept) + 1
  BY <1>1 DEF Choices
<1> QED BY <1>1, <1>5, <1>6, <1>7

(***************************************************************************)
(* The Chooser's cursor.                                                   *)
(***************************************************************************)
LEMMA HasLeast ==
    ASSUME NEW S \in SUBSET Nat, S # {}
    PROVE  \E m \in S : \A k \in S : m <= k
<1> DEFINE R == OpToRel(<, Nat)
<1>1. IsWellFoundedOn(R, Nat)
  BY NatLessThanWellFounded
<1>2. \A x, y \in Nat : y < x => <<y, x>> \in R
  BY Zenon DEF OpToRel
<1> HIDE DEF R
<1>0. S \subseteq Nat
  OBVIOUS
<1>3. PICK x \in S : \A y \in S : ~ (<<y, x>> \in R)
  BY <1>0, <1>1, WFMin
<1>4. ASSUME NEW k \in S PROVE x <= k
  <2>1. x \in Nat /\ k \in Nat
    BY <1>0
  <2>2. ~ (k < x)
    BY <1>2, <1>3, <2>1
  <2> QED BY <2>1, <2>2
<1> QED BY <1>4

LEMMA UpcomingIs ==
    ASSUME NEW ch, ChooserType(ch), NEW i \in ch.idx .. Len(ch.log) + 1,
           i = Len(ch.log) + 1 \/ ch.log[i].kind # "admission",
           \A j \in ch.idx .. i - 1 : ch.log[j].kind = "admission"
    PROVE  Upcoming(ch) = i
<1>1. ch.idx \in Nat \ {0} /\ Len(ch.log) \in Nat
  BY DEF ChooserType, Choosers
<1>2. ASSUME NEW k \in ch.idx .. Len(ch.log) + 1,
             k = Len(ch.log) + 1 \/ ch.log[k].kind # "admission",
             \A j \in ch.idx .. k - 1 : ch.log[j].kind = "admission"
      PROVE  k = i
  <2>1. ~ (k < i)
    BY <1>1, <1>2
  <2>2. ~ (i < k)
    BY <1>1, <1>2
  <2> QED BY <1>1, <2>1, <2>2
<1> QED BY <1>2 DEF Upcoming

LEMMA UpcomingType ==
    ASSUME NEW ch, ChooserType(ch)
    PROVE  /\ Upcoming(ch) \in ch.idx .. Len(ch.log) + 1
           /\ Upcoming(ch) \in Nat \ {0}
           /\ \/ Upcoming(ch) = Len(ch.log) + 1
              \/ Upcoming(ch) \in Choices(ch.log)
           /\ \A j \in ch.idx .. Upcoming(ch) - 1 : ch.log[j].kind = "admission"
<1>1. /\ ch.idx \in Nat \ {0} /\ Len(ch.log) \in Nat /\ ch.idx <= Len(ch.log) + 1
      /\ DOMAIN ch.log = 1 .. Len(ch.log)
  BY DEF ChooserType, Choosers
<1> DEFINE S == {i \in ch.idx .. Len(ch.log) + 1 :
                    i = Len(ch.log) + 1 \/ ch.log[i].kind # "admission"}
<1>2. S \in SUBSET Nat /\ Len(ch.log) + 1 \in S
  BY <1>1
<1>3. PICK m \in S : \A k \in S : m <= k
  BY <1>2, HasLeast
<1>4. ASSUME NEW j \in ch.idx .. m - 1 PROVE ch.log[j].kind = "admission"
  <2>1. j \in ch.idx .. Len(ch.log) + 1 /\ ~ (m <= j) /\ j # Len(ch.log) + 1
    BY <1>1, <1>3, <1>4
  <2>2. j \notin S
    BY <1>3, <2>1
  <2> QED BY <2>1, <2>2
<1>5. Upcoming(ch) = m
  BY <1>1, <1>3, <1>4, UpcomingIs
<1> QED BY <1>1, <1>3, <1>4, <1>5 DEF Choices

\* Two places that only admissions lie between, and after choices, are one.
LEMMA OnePlace ==
    ASSUME NEW log, NEW m \in Nat \ {0}, NEW n \in Nat \ {0}, NEW u \in Nat,
           m <= u, n <= u,
           m = 1 \/ log[m - 1].kind # "admission",
           n = 1 \/ log[n - 1].kind # "admission",
           \A i \in m .. u - 1 : log[i].kind = "admission",
           \A i \in n .. u - 1 : log[i].kind = "admission"
    PROVE  m = n
<1>1. ASSUME NEW x \in Nat \ {0}, NEW y \in Nat \ {0}, x < y, y <= u,
             y = 1 \/ log[y - 1].kind # "admission",
             \A i \in x .. u - 1 : log[i].kind = "admission"
      PROVE  FALSE
  <2>1. y - 1 \in x .. u - 1 /\ y # 1
    BY <1>1
  <2> QED BY <1>1, <2>1
<1>2. ~ (m < n) /\ ~ (n < m)
  BY <1>1
<1> QED BY <1>2

LEMMA ReachedType ==
    ASSUME NEW log \in Seq(LogEntry)
    PROVE  /\ Reached(log) \in Nat \ {0} /\ Reached(log) <= Len(log) + 1
           /\ Reached(log) = 1 \/ log[Reached(log) - 1].kind # "admission"
           /\ \A j \in Reached(log) .. Len(log) : log[j].kind = "admission"
<1> DEFINE S == {i \in 1 .. Len(log) + 1 :
                    \A j \in i .. Len(log) : log[j].kind = "admission"}
<1>1. Len(log) \in Nat /\ S \in SUBSET Nat /\ Len(log) + 1 \in S
  <2>1. Len(log) \in Nat
    OBVIOUS
  <2> QED BY <2>1
<1>2. PICK m \in S : \A k \in S : m <= k
  BY <1>1, HasLeast
<1>3. /\ m \in 1 .. Len(log) + 1
      /\ \A j \in m .. Len(log) : log[j].kind = "admission"
  BY <1>2
<1>4. ASSUME m # 1 PROVE log[m - 1].kind # "admission"
  <2>1. SUFFICES ASSUME log[m - 1].kind = "admission" PROVE FALSE
    OBVIOUS
  <2>2. m - 1 \in 1 .. Len(log) + 1
    BY <1>1, <1>3, <1>4
  <2>3. \A j \in m - 1 .. Len(log) : log[j].kind = "admission"
    <3> SUFFICES ASSUME NEW j \in m - 1 .. Len(log) PROVE log[j].kind = "admission"
      OBVIOUS
    <3>1. j = m - 1 \/ j \in m .. Len(log)
      BY <1>1, <1>3
    <3> QED BY <1>3, <2>1, <3>1
  <2>4. m - 1 \in S
    BY <2>2, <2>3
  <2>5. m <= m - 1
    BY <1>2, <2>4
  <2> QED BY <1>3, <2>5
<1> DEFINE AtEnd(i) == /\ i = 1 \/ log[i - 1].kind # "admission"
                       /\ \A j \in i .. Len(log) : log[j].kind = "admission"
<1>5. Reached(log) = CHOOSE i \in 1 .. Len(log) + 1 : AtEnd(i)
  BY DEF Reached
<1>6. m \in 1 .. Len(log) + 1 /\ AtEnd(m)
  BY <1>3, <1>4
<1> HIDE DEF AtEnd
<1>7. Reached(log) \in 1 .. Len(log) + 1 /\ AtEnd(Reached(log))
  BY <1>5, <1>6
<1> QED BY <1>1, <1>7 DEF AtEnd

(***************************************************************************)
(* What the Chooser's operations keep.                                     *)
(***************************************************************************)
LEMMA FailKeeps ==
    ASSUME NEW ch, NEW why \in Faults, ChooserType(ch),
           ch.mode = "record" => why \in {"full", "empty"}
    PROVE  /\ ChooserType(Fail(ch, why)) /\ Follows(Fail(ch, why))
           /\ Fail(ch, why).fault # None
           /\ Fail(ch, why).mode = ch.mode /\ Fail(ch, why).log = ch.log
<1>1. why # None
  BY DEF Faults, None
<1>2. CASE ch.fault = None
  <2>1. Fail(ch, why) = [ch EXCEPT !.fault = why]
    BY <1>2 DEF Fail
  <2> QED BY <1>1, <2>1 DEF ChooserType, Choosers, Follows
<1>3. CASE ch.fault # None
  <2>1. Fail(ch, why) = ch
    BY <1>3 DEF Fail
  <2> QED BY <1>3, <2>1 DEF ChooserType, Choosers, Follows
<1> QED BY <1>2, <1>3

LEMMA AnswerType ==
    ASSUME NEW ch, ChooserType(ch), NEW kind \in Kinds, NEW live \in Logged
    PROVE  /\ Answer(ch, kind, live) \in LogEntry
           /\ Answer(ch, kind, live).kind = kind
           /\ Answer(ch, kind, live).val \in Logged
           /\ kind = "progress" /\ live \in Cores =>
                  Answer(ch, kind, live).val \in Cores
<1>1. Entry(kind, live) \in LogEntry /\ Entry(kind, 0) \in LogEntry
  BY DEF Entry, LogEntry, Logged
<1>2. /\ Entry(kind, live).kind = kind /\ Entry(kind, live).val = live
      /\ Fallback(kind, live) \in {Entry(kind, live), Entry(kind, 0)}
      /\ kind = "progress" => Fallback(kind, live) = Entry(kind, live)
      /\ Entry(kind, 0).kind = kind
  BY DEF Entry, Fallback
<1>3. CASE ch.mode = "record"
  BY <1>1, <1>2, <1>3 DEF Answer, LogEntry
<1>4. CASE ch.mode # "record" /\ ~ Matches(ch, kind)
  BY <1>1, <1>2, <1>4 DEF Answer, LogEntry
<1>5. CASE ch.mode # "record" /\ Matches(ch, kind)
  <2>1. Answer(ch, kind, live) = ch.log[Upcoming(ch)]
    BY <1>5 DEF Answer
  <2>2. /\ Upcoming(ch) \in DOMAIN ch.log /\ ch.log \in Seq(LogEntry)
        /\ ch.log[Upcoming(ch)].kind = kind
    BY <1>5, UpcomingType DEF Matches, ChooserType, Choosers
  <2>3. ch.log[Upcoming(ch)] \in LogEntry
    BY <2>2, ElementOfSeq
  <2>4. kind = "progress" => ch.log[Upcoming(ch)].val \in Cores
    BY <2>2 DEF ChooserType
  <2> QED BY <2>1, <2>2, <2>3, <2>4 DEF LogEntry
<1> QED BY <1>3, <1>4, <1>5

\* A recorder logs, a replayer keeps beside the log.
LEMMA RecorderKeeps ==
    ASSUME NEW ch, ChooserType(ch), ch.mode = "record", NEW e \in LogEntry,
           e.kind = "progress" => e.val \in Cores
    PROVE  /\ ChooserType(Keep(ch, e)) /\ Follows(Keep(ch, e))
           /\ Keep(ch, e) = [ch EXCEPT !.log = Append(ch.log, e)]
           /\ Keep(ch, e).mode = "record"
<1>1. Keep(ch, e) = [ch EXCEPT !.log = Append(ch.log, e)]
  BY DEF Keep
<1>2. /\ ch \in Choosers /\ ch.log \in Seq(LogEntry)
      /\ Append(ch.log, e) \in Seq(LogEntry)
      /\ Len(Append(ch.log, e)) = Len(ch.log) + 1 /\ Len(ch.log) \in Nat
      /\ DOMAIN Append(ch.log, e) = 1 .. Len(ch.log) + 1
      /\ DOMAIN ch.log = 1 .. Len(ch.log)
      /\ \A i \in 1 .. Len(ch.log) : Append(ch.log, e)[i] = ch.log[i]
      /\ Append(ch.log, e)[Len(ch.log) + 1] = e
  BY DEF ChooserType, Choosers
<1>3. /\ Keep(ch, e) \in Choosers /\ Keep(ch, e).mode = "record"
      /\ Keep(ch, e).idx = ch.idx /\ Keep(ch, e).log = Append(ch.log, e)
      /\ Keep(ch, e).fault = ch.fault /\ Keep(ch, e).kept = ch.kept
  BY <1>1, <1>2 DEF Choosers
<1>4. ASSUME NEW i \in DOMAIN Append(ch.log, e), Append(ch.log, e)[i].kind = "progress"
      PROVE  Append(ch.log, e)[i].val \in Cores
  <2>1. CASE i = Len(ch.log) + 1
    BY <1>2, <1>4, <2>1
  <2>2. CASE i \in 1 .. Len(ch.log)
    BY <1>2, <1>4, <2>2 DEF ChooserType
  <2> QED BY <1>2, <2>1, <2>2
<1>5. ChooserType(Keep(ch, e))
  <2>1. ch.idx <= Len(ch.log) + 1 /\ ch.idx \in Nat
    BY DEF ChooserType, Choosers
  <2> QED BY <1>2, <1>3, <1>4, <2>1 DEF ChooserType
<1> QED BY <1>1, <1>3, <1>5 DEF Follows

LEMMA ReplayerKeeps ==
    ASSUME NEW ch, ChooserType(ch), ch.mode = "replay", NEW e \in LogEntry
    PROVE  /\ ChooserType(Keep(ch, e))
           /\ Keep(ch, e) = [ch EXCEPT !.kept = Append(ch.kept, e)]
           /\ Keep(ch, e).mode = "replay" /\ Keep(ch, e).log = ch.log
           /\ Keep(ch, e).idx = ch.idx /\ Keep(ch, e).bag = ch.bag
           /\ Keep(ch, e).fault = ch.fault /\ Keep(ch, e).kept = Append(ch.kept, e)
<1>1. Keep(ch, e) = [ch EXCEPT !.kept = Append(ch.kept, e)]
  BY DEF Keep
<1>2. ch \in Choosers /\ Append(ch.kept, e) \in Seq(LogEntry)
  BY DEF ChooserType, Choosers
<1>3. /\ Keep(ch, e) \in Choosers
      /\ Keep(ch, e).mode = "replay" /\ Keep(ch, e).log = ch.log
      /\ Keep(ch, e).idx = ch.idx /\ Keep(ch, e).bag = ch.bag
      /\ Keep(ch, e).fault = ch.fault /\ Keep(ch, e).kept = Append(ch.kept, e)
  BY <1>1, <1>2 DEF Choosers
<1> QED BY <1>1, <1>3 DEF ChooserType

LEMMA AdvanceKeeps ==
    ASSUME NEW ch, ChooserType(ch), ch.mode = "replay"
    PROVE  /\ ChooserType(Advance(ch))
           /\ Advance(ch) = [ch EXCEPT !.idx = IF Upcoming(ch) <= Len(ch.log)
                                               THEN Upcoming(ch) + 1 ELSE Upcoming(ch)]
           /\ Advance(ch).mode = "replay" /\ Advance(ch).log = ch.log
           /\ Advance(ch).kept = ch.kept /\ Advance(ch).bag = ch.bag
           /\ Advance(ch).fault = ch.fault
           /\ Advance(ch).idx = IF Upcoming(ch) <= Len(ch.log)
                                THEN Upcoming(ch) + 1 ELSE Upcoming(ch)
<1> DEFINE n == IF Upcoming(ch) <= Len(ch.log) THEN Upcoming(ch) + 1 ELSE Upcoming(ch)
<1>1. n \in Nat \ {0} /\ n <= Len(ch.log) + 1 /\ ch \in Choosers
  <2>1. /\ Upcoming(ch) \in Nat \ {0} /\ Upcoming(ch) \in ch.idx .. Len(ch.log) + 1
        /\ Len(ch.log) \in Nat /\ ch.idx \in Nat
    BY UpcomingType DEF ChooserType, Choosers
  <2> QED BY <2>1 DEF ChooserType
<1>2. Advance(ch) = [ch EXCEPT !.idx = n]
  BY DEF Advance
<1> HIDE DEF n
<1>3. /\ Advance(ch) \in Choosers /\ Advance(ch).idx = n
      /\ Advance(ch).mode = "replay" /\ Advance(ch).log = ch.log
      /\ Advance(ch).kept = ch.kept /\ Advance(ch).bag = ch.bag
      /\ Advance(ch).fault = ch.fault
  BY <1>1, <1>2 DEF Choosers
<1>4. ChooserType(Advance(ch))
  BY <1>1, <1>3 DEF ChooserType
<1> QED BY <1>2, <1>3, <1>4 DEF n

\* The replayer's next choice is the first it has not kept.
LEMMA UpcomingCount ==
    ASSUME NEW ch, ChooserType(ch), Follows(ch), ch.mode = "replay", ch.fault = None
    PROVE  /\ Upcoming(ch) <= Len(ch.log) =>
                  Count(ch.log, Upcoming(ch)) = Total(ch.kept) + 1
           /\ Upcoming(ch) > Len(ch.log) => Total(ch.kept) >= Total(ch.log)
           /\ Total(ch.kept) \in Nat /\ Total(ch.log) \in Nat
<1> DEFINE u == Upcoming(ch)
           log == ch.log
<1>1. /\ u \in ch.idx .. Len(log) + 1 /\ u \in Nat \ {0}
      /\ u = Len(log) + 1 \/ u \in Choices(log)
      /\ \A j \in ch.idx .. u - 1 : log[j].kind = "admission"
  BY UpcomingType
<1>2. ch.idx \in Nat \ {0} /\ Len(log) \in Nat /\ Len(ch.kept) \in Nat
  BY DEF ChooserType, Choosers
<1>3. Total(ch.kept) \in Nat /\ Total(log) \in Nat
  BY <1>2, CountType DEF Total
<1> HIDE DEF u, log
<1>4. Count(log, u - 1) = Count(log, ch.idx - 1)
  <2>1. /\ ch.idx - 1 \in Nat /\ u - 1 \in Nat /\ ch.idx - 1 <= u - 1
        /\ \A j \in (ch.idx - 1) + 1 .. u - 1 : log[j].kind = "admission"
    BY <1>1, <1>2
  <2> QED BY <2>1, CountPasses
<1>5. Follows(ch) => IF ch.idx <= Len(log) THEN Total(ch.kept) = Count(log, ch.idx - 1)
                     ELSE Total(ch.kept) >= Total(log)
  BY DEF Follows, log
<1>6. ASSUME u <= Len(log) PROVE Count(log, u) = Total(ch.kept) + 1
  <2>1. u \in Choices(log) /\ ch.idx <= Len(log)
    BY <1>1, <1>2, <1>6
  <2>2. Count(log, (u - 1) + 1) = Count(log, u - 1) + 1
    <3>1. log[(u - 1) + 1].kind # "admission" /\ u - 1 \in Nat
      BY <1>1, <2>1 DEF Choices
    <3> QED BY <3>1, CountStep
  <2>3. (u - 1) + 1 = u
    BY <1>1
  <2> QED BY <1>4, <1>5, <2>1, <2>2, <2>3
<1>7. ASSUME u > Len(log) PROVE Total(ch.kept) >= Total(log)
  <2>1. CASE ch.idx <= Len(log)
    <3>1. u - 1 = Len(log)
      BY <1>1, <1>2, <1>7
    <3> QED BY <1>3, <1>4, <1>5, <2>1, <3>1 DEF Total
  <2>2. CASE ~ (ch.idx <= Len(log))
    BY <1>5, <2>2
  <2> QED BY <2>1, <2>2
<1> QED BY <1>3, <1>6, <1>7 DEF u, log

LEMMA ChooseKeeps ==
    ASSUME NEW ch, ChooserType(ch), Follows(ch),
           NEW kind \in Kinds, kind # "admission", NEW live \in Logged,
           kind = "progress" => live \in Cores
    PROVE  /\ ChooserType(Choose(ch, kind, live)) /\ Follows(Choose(ch, kind, live))
           /\ Choose(ch, kind, live).mode = ch.mode
           /\ ch.mode = "replay" => Choose(ch, kind, live).log = ch.log
<1> DEFINE e == Answer(ch, kind, live)
           kept == Keep(Advance(ch), e)
<1>1. /\ e \in LogEntry /\ e.kind = kind
      /\ kind = "progress" => e.val \in Cores
  BY AnswerType
<1>2. CASE ch.fault # None
  BY <1>2 DEF Choose
<1>3. CASE ch.fault = None /\ ch.mode = "record"
  <2>1. Choose(ch, kind, live) = Keep(ch, e)
    BY <1>3 DEF Choose
  <2> HIDE DEF e
  <2> QED BY <1>1, <1>3, <2>1, RecorderKeeps
<1>4. CASE ch.fault = None /\ ch.mode = "replay"
  <2>1. /\ ChooserType(Advance(ch)) /\ Advance(ch).mode = "replay"
        /\ Advance(ch).log = ch.log /\ Advance(ch).kept = ch.kept
        /\ Advance(ch).fault = None
        /\ Advance(ch).idx = IF Upcoming(ch) <= Len(ch.log)
                             THEN Upcoming(ch) + 1 ELSE Upcoming(ch)
    BY <1>4, AdvanceKeeps
  <2> HIDE DEF e
  <2>2. /\ ChooserType(kept) /\ kept.mode = "replay" /\ kept.log = ch.log
        /\ kept.idx = Advance(ch).idx /\ kept.fault = None
        /\ kept.kept = Append(ch.kept, e)
    BY <1>1, <2>1, ReplayerKeeps
  <2>3. /\ Upcoming(ch) <= Len(ch.log) =>
               Count(ch.log, Upcoming(ch)) = Total(ch.kept) + 1
        /\ Upcoming(ch) > Len(ch.log) => Total(ch.kept) >= Total(ch.log)
        /\ Total(ch.kept) \in Nat /\ Total(ch.log) \in Nat
    BY <1>4, UpcomingCount
  <2>4. /\ ch.log \in Seq(LogEntry) /\ ch.kept \in Seq(LogEntry)
        /\ KeptIs(ch.log, ch.kept) /\ Len(ch.log) \in Nat
    BY <1>4 DEF ChooserType, Choosers, Follows
  <2>5. Total(kept.kept) = Total(ch.kept) + 1
    BY <1>1, <2>2, <2>4, CountAppend
  <2>6. /\ Upcoming(ch) \in Nat \ {0} /\ Upcoming(ch) <= Len(ch.log) + 1
        /\ Upcoming(ch) <= Len(ch.log) => Upcoming(ch) \in Choices(ch.log)
    BY <2>4, UpcomingType
  <2> HIDE DEF kept
  <2>7. CASE Matches(ch, kind)
    <3>1. Choose(ch, kind, live) = kept
      BY <1>4, <2>7 DEF Choose, kept, e
    <3>2. Upcoming(ch) <= Len(ch.log) /\ e = ch.log[Upcoming(ch)]
      BY <1>4, <2>7 DEF Matches, Answer, e
    <3>3. \E i \in Choices(ch.log) :
              Count(ch.log, i) = Total(ch.kept) + 1 /\ ch.log[i] = e
      BY <2>3, <2>6, <3>2
    <3>4. KeptIs(ch.log, kept.kept)
      BY <1>1, <2>2, <2>4, <3>3, KeepsFollowing
    <3>5. Total(kept.kept) = Count(ch.log, Upcoming(ch)) /\ kept.idx = Upcoming(ch) + 1
      BY <2>1, <2>2, <2>3, <2>5, <3>2
    <3>6. IF kept.idx <= Len(kept.log) THEN Total(kept.kept) = Count(kept.log, kept.idx - 1)
          ELSE Total(kept.kept) >= Total(kept.log)
      <4>1. CASE kept.idx <= Len(kept.log)
        <5>1. kept.idx - 1 = Upcoming(ch)
          BY <2>6, <3>5
        <5> QED BY <2>2, <3>5, <4>1, <5>1
      <4>2. CASE ~ (kept.idx <= Len(kept.log))
        <5>1. Upcoming(ch) = Len(ch.log)
          BY <2>2, <2>4, <2>6, <3>2, <3>5, <4>2
        <5> QED BY <2>2, <2>3, <3>5, <4>2, <5>1 DEF Total
      <4> QED BY <4>1, <4>2
    <3> QED BY <1>4, <2>2, <3>1, <3>4, <3>6 DEF Follows
  <2>8. CASE ~ Matches(ch, kind) /\ Upcoming(ch) > Len(ch.log) /\ kind = "progress"
    <3>1. Choose(ch, kind, live) = kept
      BY <1>4, <2>4, <2>6, <2>8 DEF Choose, kept, e
    <3>2. KeptIs(ch.log, kept.kept)
      BY <1>1, <2>2, <2>3, <2>4, <2>8, KeepsFollowing
    <3>3. kept.idx > Len(kept.log)
      BY <2>1, <2>2, <2>4, <2>6, <2>8
    <3>4. Total(kept.kept) >= Total(kept.log)
      BY <2>2, <2>3, <2>5, <2>8
    <3>5. ~ (kept.idx <= Len(kept.log))
      <4>1. kept.idx \in Nat /\ Len(kept.log) \in Nat
        BY <2>2 DEF ChooserType, Choosers
      <4> QED BY <3>3, <4>1
    <3>6. Follows(kept)
      BY <2>2, <3>2, <3>4, <3>5 DEF Follows
    <3> QED BY <1>4, <2>2, <3>1, <3>6
  <2>9. CASE ~ Matches(ch, kind) /\ ~ (Upcoming(ch) > Len(ch.log) /\ kind = "progress")
    <3>1. \E why \in Faults : Choose(ch, kind, live) = Fail(kept, why)
      <4>1. Choose(ch, kind, live) = Fail(kept, "tag")
                \/ Choose(ch, kind, live) = Fail(kept, "underrun")
        BY <1>4, <2>4, <2>6, <2>9 DEF Choose, kept, e
      <4> QED BY <4>1 DEF Faults
    <3> QED BY <1>4, <2>2, <3>1, FailKeeps
  <2> QED BY <2>7, <2>8, <2>9
<1>5. ch.mode \in {"record", "replay"}
  BY DEF ChooserType, Choosers
<1> QED BY <1>2, <1>3, <1>4, <1>5

LEMMA CheckedKeeps ==
    ASSUME NEW ch, ChooserType(ch), Follows(ch),
           NEW kind \in Kinds, kind \notin {"admission", "progress"}, NEW seen \in Logged
    PROVE  /\ ChooserType(ChooseChecked(ch, kind, seen))
           /\ Follows(ChooseChecked(ch, kind, seen))
           /\ ChooseChecked(ch, kind, seen).mode = ch.mode
           /\ ch.mode = "replay" => ChooseChecked(ch, kind, seen).log = ch.log
<1> DEFINE new == Choose(ch, kind, seen)
<1>1. /\ ChooserType(new) /\ Follows(new) /\ new.mode = ch.mode
      /\ ch.mode = "replay" => new.log = ch.log
  BY ChooseKeeps
<1>2. ch.mode = "record" => Answer(ch, kind, seen).val = seen
  BY DEF Answer, Entry
<1> HIDE DEF new
<1>3. CASE Answer(ch, kind, seen).val = seen
  BY <1>1, <1>3 DEF ChooseChecked, new
<1>4. CASE Answer(ch, kind, seen).val # seen
  <2>1. ChooseChecked(ch, kind, seen) = Fail(new, "payload")
    BY <1>4 DEF ChooseChecked, new
  <2>2. "payload" \in Faults
    BY DEF Faults
  <2> QED BY <1>1, <1>2, <1>4, <2>1, <2>2, FailKeeps
<1> QED BY <1>3, <1>4

\* The cursor does not move over an admission that is answered.
LEMMA AdmissionKeeps ==
    ASSUME NEW ch, ChooserType(ch), Follows(ch), NEW p \in Pairs
    PROVE  LET new == Keep(ch, Entry("admission", p))
           IN  /\ ChooserType(new) /\ Follows(new) /\ new.mode = ch.mode
               /\ new.fault = ch.fault /\ new.idx = ch.idx
               /\ ch.mode = "replay" => new.log = ch.log
<1> DEFINE e == Entry("admission", p)
           new == Keep(ch, e)
<1>1. e \in LogEntry /\ e.kind = "admission"
  BY DEF Entry, LogEntry, Logged, Kinds
<1> HIDE DEF e
<1>2. CASE ch.mode = "record"
  <2>1. /\ ChooserType(new) /\ Follows(new) /\ new.mode = "record"
        /\ new = [ch EXCEPT !.log = Append(ch.log, e)]
    BY <1>1, <1>2, RecorderKeeps
  <2> HIDE DEF new
  <2>2. new.fault = ch.fault /\ new.idx = ch.idx
    BY <2>1 DEF ChooserType, Choosers
  <2> QED BY <1>2, <2>1, <2>2 DEF new, e
<1>3. CASE ch.mode = "replay"
  <2>1. /\ ChooserType(new) /\ new.mode = "replay" /\ new.log = ch.log
        /\ new.idx = ch.idx /\ new.fault = ch.fault
        /\ new.kept = Append(ch.kept, e)
    BY <1>1, <1>3, ReplayerKeeps
  <2> HIDE DEF new
  <2>2. ASSUME ch.fault = None PROVE KeptIs(new.log, new.kept) /\ Total(new.kept) = Total(ch.kept)
    <3>1. /\ ch.log \in Seq(LogEntry) /\ ch.kept \in Seq(LogEntry)
          /\ KeptIs(ch.log, ch.kept)
      BY <1>3, <2>2 DEF ChooserType, Choosers, Follows
    <3>2. KeptIs(ch.log, Append(ch.kept, e))
      BY <1>1, <3>1, KeepsFollowing
    <3>3. Total(Append(ch.kept, e)) = Total(ch.kept)
      BY <1>1, <3>1, CountAppend
    <3> QED BY <2>1, <3>2, <3>3
  <2>3. Follows(new)
    BY <1>3, <2>1, <2>2 DEF Follows
  <2> QED BY <1>3, <2>1, <2>3 DEF new, e
<1> QED BY <1>2, <1>3 DEF ChooserType, Choosers

LEMMA BagKeeps ==
    ASSUME NEW ch, ChooserType(ch), Follows(ch), NEW p \in Pairs, ch.bag[p] > 0
    PROVE  LET new == [ch EXCEPT !.bag[p] = @ - 1]
           IN  /\ ChooserType(new) /\ Follows(new) /\ new.mode = ch.mode
               /\ new.fault = ch.fault /\ new.idx = ch.idx /\ new.log = ch.log
<1> DEFINE new == [ch EXCEPT !.bag[p] = @ - 1]
<1>1. ch \in Choosers /\ ch.bag \in [Pairs -> Nat]
  BY DEF ChooserType, Choosers
<1>2. [ch.bag EXCEPT ![p] = @ - 1] \in [Pairs -> Nat]
  BY <1>1
<1>3. new = [ch EXCEPT !.bag = [ch.bag EXCEPT ![p] = @ - 1]]
  BY <1>1 DEF Choosers
<1> HIDE DEF new
<1>4. /\ new \in Choosers /\ new.mode = ch.mode /\ new.fault = ch.fault
      /\ new.idx = ch.idx /\ new.log = ch.log /\ new.kept = ch.kept
  BY <1>1, <1>2, <1>3 DEF Choosers
<1> QED BY <1>4 DEF ChooserType, Follows, new

LEMMA AdmitKeeps ==
    ASSUME NEW ch, ChooserType(ch), Follows(ch), NEW p \in Pairs
    PROVE  /\ ChooserType(Admit(ch, p)) /\ Follows(Admit(ch, p))
           /\ Admit(ch, p).mode = ch.mode
           /\ ch.mode = "replay" => Admit(ch, p).log = ch.log
           /\ ch.mode = "replay" /\ ch.fault = None /\ ch.bag[p] > 0 =>
                  Admit(ch, p).fault = None /\ Admit(ch, p).idx = ch.idx
<1> DEFINE like == {q \in Pairs : ch.bag[q] > 0 /\ (q[1] = p[1] \/ q[2] = p[2])}
<1>0. ch.bag[p] > 0 => p \in like
  OBVIOUS
<1>1. CASE ch.fault # None
  BY <1>1 DEF Admit
<1>2. CASE ch.fault = None /\ (ch.mode = "record" \/ like = {})
  <2>1. Admit(ch, p) = Keep(ch, Entry("admission", p))
    BY <1>2 DEF Admit
  <2> HIDE DEF like
  <2> QED BY <1>0, <1>2, <2>1, AdmissionKeeps
<1>3. CASE ch.fault = None /\ ch.mode # "record" /\ like # {} /\ ch.bag[p] > 0
  <2> DEFINE new == [ch EXCEPT !.bag[p] = @ - 1]
  <2>1. Admit(ch, p) = Keep(new, Entry("admission", p))
    BY <1>3 DEF Admit
  <2>2. /\ ChooserType(new) /\ Follows(new) /\ new.mode = ch.mode
        /\ new.fault = ch.fault /\ new.idx = ch.idx /\ new.log = ch.log
    BY <1>3, BagKeeps
  <2> HIDE DEF new
  <2> QED BY <1>3, <2>1, <2>2, AdmissionKeeps
<1>4. CASE ch.fault = None /\ ch.mode # "record" /\ like # {} /\ ~ (ch.bag[p] > 0)
  <2> DEFINE q == CHOOSE r \in like : TRUE
             new == [ch EXCEPT !.bag[q] = @ - 1]
  <2>1. q \in like
    BY <1>4
  <2>2. Admit(ch, p) = Fail(Keep(new, Entry("admission", p)), "admission")
    BY <1>4 DEF Admit
  <2>3. q \in Pairs /\ ch.bag[q] > 0
    BY <2>1
  <2> HIDE DEF q
  <2>4. /\ ChooserType(new) /\ Follows(new) /\ new.mode = ch.mode
        /\ new.fault = ch.fault /\ new.idx = ch.idx /\ new.log = ch.log
    BY <2>3, BagKeeps
  <2> HIDE DEF new
  <2> DEFINE k == Keep(new, Entry("admission", p))
  <2>5. /\ ChooserType(k) /\ Follows(k) /\ k.mode = ch.mode
        /\ ch.mode = "replay" => k.log = ch.log
    BY <2>4, AdmissionKeeps
  <2> HIDE DEF k
  <2>6. "admission" \in Faults
    BY DEF Faults
  <2>7. Admit(ch, p) = Fail(k, "admission")
    BY <2>2 DEF k
  <2> QED BY <1>4, <2>5, <2>6, <2>7, FailKeeps
<1> QED BY <1>1, <1>2, <1>3, <1>4

-----------------------------------------------------------------------------
(***************************************************************************)
(* Every exit keeps the invariant.                                         *)
(***************************************************************************)
LEMMA ToldKeeps ==
    ASSUME ExitType, NEW c \in Cores, NEW kind \in Asked,
           NEW answer \in Logged \cup BOOLEAN, chooser.log \in Seq(LogEntry),
           Told(c, kind, answer)
    PROVE  ExitType'
<1>0. lock' \subseteq Cores /\ left' \subseteq Cores /\ done' \in BOOLEAN /\ asked' \in Nat
  BY DEF ExitType, Told
<1>1. CASE Recording
  <2> DEFINE e == [kind |-> kind, val |-> answer, n |-> asked, at |-> Reached(chooser.log)]
  <2>1. /\ did' = [did EXCEPT ![c] = Append(@, e)]
        /\ UNCHANGED <<pos, same, drift>>
    BY <1>1 DEF Told
  <2>2. e \in Exchange
    BY ReachedType DEF ExitType, Exchange
  <2> HIDE DEF e
  <2>3. did' \in [Cores -> Seq(Exchange)]
    BY <2>1, <2>2 DEF ExitType
  <2> QED BY <1>0, <2>1, <2>3 DEF ExitType
<1>2. CASE ~ Recording
  <2>1. /\ pos' = [pos EXCEPT ![c] = @ + 1] /\ UNCHANGED did
        /\ same' = (same /\ (Past(c) \/ answer = Due(c).val))
        /\ drift' = IF ~same THEN drift
                    ELSE IF Past(c) THEN drift \cup {"end"}
                    ELSE IF Due(c).n # asked THEN drift \cup {"order"} ELSE drift
    BY <1>2 DEF Told
  <2>2. same' \in BOOLEAN /\ drift' \subseteq {"order", "end", "admission"}
    BY <2>1 DEF ExitType
  <2>3. pos' \in [Cores -> Nat]
    BY <2>1 DEF ExitType
  <2> QED BY <1>0, <2>1, <2>2, <2>3 DEF ExitType
<1> QED BY <1>1, <1>2

LEMMA StepKeeps ==
    ASSUME ReplayInv, NEW c \in Cores, NEW kind \in Asked,
           NEW answer \in Logged \cup BOOLEAN,
           Told(c, kind, answer), ~ over, InputType',
           ChooserType(chooser'), Follows(chooser')
    PROVE  ReplayInv'
<1>1. ExitType'
  <2>1. chooser.log \in Seq(LogEntry)
    BY DEF ReplayInv, ChooserType, Choosers
  <2> QED BY <2>1, ToldKeeps DEF ReplayInv
<1>2. ChooserType(chooser)' /\ Follows(chooser)'
  BY DEF ChooserType, Follows
<1>3. over' = over
  BY DEF Told
<1> QED BY <1>1, <1>2, <1>3 DEF ReplayInv, Finished

LEMMA InputStays ==
    ASSUME InputType, UNCHANGED input, chooser'.mode = chooser.mode
    PROVE  InputType'
BY DEF InputType, Replaying

LEMMA ClockReadKeeps ==
    ASSUME ReplayInv, NEW c \in Cores, ClockRead(c)
    PROVE  ReplayInv'
<1>1. PICK v \in Values :
          /\ MayAsk(c, "clock", v, FALSE)
          /\ chooser' = Choose(chooser, "clock", v)
          /\ Told(c, "clock", Answer(chooser, "clock", v).val)
          /\ UNCHANGED input
  BY DEF ClockRead
<1>2. v \in Logged /\ "clock" \in Kinds /\ "clock" \in Asked
  BY DEF Logged, Kinds, Asked
<1>3. /\ ChooserType(chooser') /\ Follows(chooser') /\ chooser'.mode = chooser.mode
  BY <1>1, <1>2, ChooseKeeps DEF ReplayInv
<1>4. Answer(chooser, "clock", v).val \in Logged
  BY <1>2, AnswerType DEF ReplayInv
<1>5. InputType' /\ ~ over
  BY <1>1, <1>3, InputStays DEF ReplayInv, MayAsk, Running
<1> QED BY <1>1, <1>2, <1>3, <1>4, <1>5, StepKeeps

LEMMA CompletionKeeps ==
    ASSUME ReplayInv, NEW c \in Cores, Completion(c)
    PROVE  ReplayInv'
<1>1. PICK v \in Values :
          /\ MayAsk(c, "blk", v, TRUE)
          /\ chooser' = Choose(ChooseChecked(chooser, "blk", v), "vector", 1)
          /\ Told(c, "blk", Answer(chooser, "blk", v).val)
          /\ UNCHANGED input
  BY DEF Completion
<1>2. v \in Logged /\ {"blk", "vector"} \subseteq Kinds /\ "blk" \in Asked /\ 1 \in Logged
  BY DEF Logged, Kinds, Asked
<1> DEFINE mid == ChooseChecked(chooser, "blk", v)
<1>3. ChooserType(mid) /\ Follows(mid) /\ mid.mode = chooser.mode
  BY <1>2, CheckedKeeps DEF ReplayInv
<1>4. chooser' = Choose(mid, "vector", 1)
  BY <1>1
<1> HIDE DEF mid
<1>5. ChooserType(chooser') /\ Follows(chooser') /\ chooser'.mode = chooser.mode
  BY <1>2, <1>3, <1>4, ChooseKeeps
<1>6. Answer(chooser, "blk", v).val \in Logged
  BY <1>2, AnswerType DEF ReplayInv
<1>7. InputType' /\ ~ over
  BY <1>1, <1>5, InputStays DEF ReplayInv, MayAsk, Running
<1> QED BY <1>1, <1>2, <1>5, <1>6, <1>7, StepKeeps

LEMMA DeadlineWakeKeeps ==
    ASSUME ReplayInv, NEW c \in Cores, DeadlineWake(c)
    PROVE  ReplayInv'
<1>1. /\ MayAsk(c, "deadline", 1, TRUE)
      /\ chooser' = Choose(Choose(chooser, "deadline", 1), "vector", 0)
      /\ Told(c, "deadline", 1)
      /\ UNCHANGED input
  BY DEF DeadlineWake
<1>2. /\ 0 \in Logged /\ 1 \in Logged
      /\ {"deadline", "vector"} \subseteq Kinds /\ "deadline" \in Asked
  BY DEF Logged, Kinds, Asked
<1> DEFINE mid == Choose(chooser, "deadline", 1)
<1>3. ChooserType(mid) /\ Follows(mid) /\ mid.mode = chooser.mode
  BY <1>2, ChooseKeeps DEF ReplayInv
<1>4. chooser' = Choose(mid, "vector", 0)
  BY <1>1
<1> HIDE DEF mid
<1>5. ChooserType(chooser') /\ Follows(chooser') /\ chooser'.mode = chooser.mode
  BY <1>2, <1>3, <1>4, ChooseKeeps
<1>6. InputType' /\ ~ over
  BY <1>1, <1>5, InputStays DEF ReplayInv, MayAsk, Running
<1> QED BY <1>1, <1>2, <1>5, <1>6, StepKeeps

LEMMA PresentKeeps ==
    ASSUME ReplayInv, NEW c \in Cores, Present(c)
    PROVE  ReplayInv'
<1>1. PICK v \in Values :
          /\ MayAsk(c, "frame", v, TRUE)
          /\ chooser' = ChooseChecked(chooser, "frame", v)
          /\ Told(c, "frame", v)
          /\ UNCHANGED input
  BY DEF Present
<1>2. v \in Logged /\ "frame" \in Kinds /\ "frame" \in Asked
  BY DEF Logged, Kinds, Asked
<1>3. ChooserType(chooser') /\ Follows(chooser') /\ chooser'.mode = chooser.mode
  BY <1>1, <1>2, CheckedKeeps DEF ReplayInv
<1>4. InputType' /\ ~ over
  BY <1>1, <1>3, InputStays DEF ReplayInv, MayAsk, Running
<1> QED BY <1>1, <1>2, <1>3, <1>4, StepKeeps

\* Polling takes every line; a full queue has been refused before.
LEMMA PolledType ==
    ASSUME ReplayInv, Replaying \/ ~ Overfull
    PROVE  /\ Polled \in [lines : Nat, queue : 0 .. QueueCapacity, seq : Nat]
           /\ Polled.lines = 0 /\ Polled.seq = input.seq
<1>1. input \in [lines : Nat, queue : 0 .. QueueCapacity, seq : Nat]
  BY DEF ReplayInv, InputType
<1>2. QueueCapacity \in Nat
  BY ReplayAssumption
<1> DEFINE q == input.queue + input.lines
<1>3. q \in 0 .. QueueCapacity
  BY <1>1, <1>2 DEF ReplayInv, InputType, Overfull
<1>4. Polled = [[input EXCEPT !.queue = q] EXCEPT !.lines = 0]
  BY <1>1 DEF Polled
<1> HIDE DEF q
<1> QED BY <1>1, <1>3, <1>4

LEMMA InputStatusKeeps ==
    ASSUME ReplayInv, NEW c \in Cores, InputStatus(c)
    PROVE  ReplayInv'
<1> DEFINE pending == IF Replaying THEN InputPending(chooser) ELSE Polled.queue > 0
<1>1. /\ MayAsk(c, "status", pending, FALSE)
      /\ input' = IF Recording /\ ~Overfull THEN Polled ELSE input
      /\ chooser' = IF Recording /\ Overfull THEN Fail(chooser, "full") ELSE chooser
      /\ Told(c, "status", pending)
  BY DEF InputStatus
<1>2. pending \in BOOLEAN
  <2>1. InputPending(chooser) \in BOOLEAN
    BY DEF InputPending, InputAt
  <2>2. (Polled.queue > 0) \in BOOLEAN
    OBVIOUS
  <2> QED BY <2>1, <2>2
<1> HIDE DEF pending
<1>3. "full" \in Faults /\ "status" \in Asked
  BY DEF Faults, Asked
<1>4. ChooserType(chooser') /\ Follows(chooser') /\ chooser'.mode = chooser.mode
  <2>1. CASE Recording /\ Overfull
    BY <1>1, <1>3, <2>1, FailKeeps DEF ReplayInv
  <2>2. CASE ~ (Recording /\ Overfull)
    BY <1>1, <2>2 DEF ReplayInv
  <2> QED BY <2>1, <2>2
<1>5. InputType'
  <2>1. CASE Recording /\ ~ Overfull
    <3>1. input' = Polled
      BY <1>1, <2>1
    <3> QED BY <1>4, <2>1, <3>1, PolledType DEF InputType, Recording, Replaying
  <2>2. CASE ~ (Recording /\ ~ Overfull)
    BY <1>1, <1>4, <2>2, InputStays DEF ReplayInv
  <2> QED BY <2>1, <2>2
<1>6. ~ over
  BY <1>1 DEF ReplayInv, MayAsk, Running
<1> QED BY <1>1, <1>2, <1>3, <1>4, <1>5, <1>6, StepKeeps

LEMMA InputEventKeeps ==
    ASSUME ReplayInv, NEW c \in Cores, InputEvent(c)
    PROVE  ReplayInv'
<1> DEFINE empty == IF Replaying THEN ~InputPending(chooser) ELSE Polled.queue = 0
           event == Answer(chooser, "input", input.seq).val
           chosen == Choose(chooser, "input", input.seq)
<1>1. /\ MayAsk(c, "input", input.seq, FALSE)
      /\ IF Recording /\ Overfull
         THEN chooser' = Fail(chooser, "full") /\ UNCHANGED input
         ELSE IF empty
         THEN chooser' = Fail(chooser, "empty") /\ UNCHANGED input
         ELSE /\ chooser' = IF event = input.seq THEN chosen ELSE Fail(chosen, "sequence")
              /\ input' = [Polled EXCEPT !.seq = @ + 1,
                                         !.queue = IF Replaying THEN @ ELSE @ - 1]
      /\ Told(c, "input", event)
  BY DEF InputEvent
<1>2. /\ input.seq \in Logged /\ input.seq \in Nat /\ "input" \in Kinds /\ "input" \in Asked
      /\ {"full", "empty", "sequence"} \subseteq Faults
  BY DEF Logged, Kinds, Asked, Faults, ReplayInv, InputType
<1>3. /\ ChooserType(chosen) /\ Follows(chosen) /\ chosen.mode = chooser.mode
  BY <1>2, ChooseKeeps DEF ReplayInv
<1>4. event \in Logged /\ (Recording => event = input.seq)
  <2>1. event \in Logged
    BY <1>2, AnswerType DEF ReplayInv
  <2> QED BY <2>1 DEF Answer, Entry, Recording
<1>5. ~ over
  BY <1>1 DEF ReplayInv, MayAsk, Running
<1>6. (Recording \/ Replaying) /\ ~ (Recording /\ Replaying)
  BY DEF ReplayInv, ChooserType, Choosers, Recording, Replaying
<1>7. Replaying => empty = ~ InputPending(chooser)
  OBVIOUS
<1>8. Recording => (empty <=> Polled.queue = 0)
  BY <1>6
<1> HIDE DEF empty, event, chosen
<1>9. ChooserType(chooser') /\ Follows(chooser') /\ chooser'.mode = chooser.mode
  <2>1. CASE chooser' = Fail(chooser, "full") /\ Recording
    BY <1>2, <2>1, FailKeeps DEF ReplayInv
  <2>2. CASE chooser' = Fail(chooser, "empty")
    BY <1>2, <2>2, FailKeeps DEF ReplayInv
  <2>3. CASE chooser' = chosen
    BY <1>3, <2>3
  <2>4. CASE chooser' = Fail(chosen, "sequence") /\ ~ Recording
    <3>1. chosen.mode # "record"
      BY <1>3, <2>4 DEF Recording
    <3> QED BY <1>2, <1>3, <2>4, <3>1, FailKeeps
  <2> QED BY <1>1, <1>4, <2>1, <2>2, <2>3, <2>4
<1>10. InputType'
  <2>1. CASE UNCHANGED input
    BY <1>9, <2>1, InputStays DEF ReplayInv
  <2>2. CASE /\ ~ (Recording /\ Overfull) /\ ~ empty
             /\ input' = [Polled EXCEPT !.seq = @ + 1,
                                        !.queue = IF Replaying THEN @ ELSE @ - 1]
    <3>1. /\ Polled \in [lines : Nat, queue : 0 .. QueueCapacity, seq : Nat]
          /\ Polled.lines = 0 /\ Polled.seq = input.seq
      BY <1>6, <2>2, PolledType
    <3>2. Recording => Polled.queue > 0
      BY <1>8, <2>2, <3>1
    <3> DEFINE q == IF Replaying THEN Polled.queue ELSE Polled.queue - 1
    <3>3. q \in 0 .. QueueCapacity
      BY <1>6, <3>1, <3>2, ReplayAssumption
    <3>4. input' = [[Polled EXCEPT !.seq = Polled.seq + 1] EXCEPT !.queue = q]
      BY <2>2, <3>1
    <3> HIDE DEF q
    <3>5. input' \in [lines : Nat, queue : 0 .. QueueCapacity, seq : Nat] /\ input'.lines = 0
      <4> DEFINE mid == [Polled EXCEPT !.seq = Polled.seq + 1]
      <4>1. mid \in [lines : Nat, queue : 0 .. QueueCapacity, seq : Nat] /\ mid.lines = 0
        BY <3>1
      <4>2. input' = [mid EXCEPT !.queue = q]
        BY <3>4
      <4> HIDE DEF mid
      <4> QED BY <3>3, <4>1, <4>2
    <3> QED BY <3>5 DEF InputType
  <2> QED BY <1>1, <2>1, <2>2
<1> QED BY <1>1, <1>2, <1>4, <1>5, <1>9, <1>10, StepKeeps

LEMMA CommitKeeps ==
    ASSUME ReplayInv, NEW c \in Cores, Commit(c)
    PROVE  ReplayInv'
<1>1. PICK p \in Pairs :
        /\ MayHalt(c) \/ \E d \in Cores : MayYield(c, d)
        /\ lock' = {c} /\ chooser' = Admit(chooser, p)
        /\ drift' = IF Replaying /\ chooser.bag[p] = 0
                    THEN drift \cup {"admission"} ELSE drift
        /\ UNCHANGED <<input, done, left, over, did, pos, asked, same>>
  BY DEF Commit
<1>2. ~ over
  BY <1>1 DEF MayHalt, MayYield, MayAsk, Running
<1>3. ChooserType(chooser') /\ Follows(chooser') /\ chooser'.mode = chooser.mode
  BY <1>1, AdmitKeeps DEF ReplayInv
<1>4. InputType'
  BY <1>1, <1>3, InputStays DEF ReplayInv
<1>5. ExitType'
  BY <1>1 DEF ReplayInv, ExitType
<1> QED BY <1>1, <1>2, <1>3, <1>4, <1>5
        DEF ReplayInv, Finished, ChooserType, Follows

LEMMA YieldKeeps ==
    ASSUME ReplayInv, NEW c \in Cores, Yield(c)
    PROVE  ReplayInv'
<1>1. PICK d \in Cores :
          /\ MayYield(c, d)
          /\ chooser' = Choose(chooser, "progress", d)
          /\ Told(c, "progress", Answer(chooser, "progress", d).val)
          /\ UNCHANGED input
  BY DEF Yield
<1>2. /\ d \in Logged /\ "progress" \in Kinds /\ "progress" \in Asked
      /\ "progress" # "admission"
  BY DEF Logged, Kinds, Asked
<1>3. ChooserType(chooser') /\ Follows(chooser') /\ chooser'.mode = chooser.mode
  BY <1>1, <1>2, ChooseKeeps DEF ReplayInv
<1>4. Answer(chooser, "progress", d).val \in Logged
  BY <1>2, AnswerType DEF ReplayInv
<1>5. InputType' /\ ~ over
  BY <1>1, <1>3, InputStays DEF ReplayInv, MayYield, MayAsk, Running
<1> QED BY <1>1, <1>2, <1>3, <1>4, <1>5, StepKeeps

LEMMA HaltKeeps ==
    ASSUME ReplayInv, NEW c \in Cores, Halt(c)
    PROVE  ReplayInv'
<1>1. /\ ~ over /\ Told(c, "halt", 0) /\ UNCHANGED <<input, chooser>>
  BY DEF Halt, MayHalt, MayAsk, Running
<1>2. "halt" \in Asked /\ 0 \in Logged
  BY DEF Asked, Logged
<1>3. ChooserType(chooser') /\ Follows(chooser') /\ InputType'
  BY <1>1, InputStays DEF ReplayInv
<1> QED BY <1>1, <1>2, <1>3, StepKeeps

LEMMA ReplayerType ==
    ASSUME NEW log \in Seq(LogEntry),
           \A i \in DOMAIN log : log[i].kind = "progress" => log[i].val \in Cores
    PROVE  /\ ChooserType(Replayer(log)) /\ Follows(Replayer(log))
           /\ Replayer(log).mode = "replay" /\ Replayer(log).log = log
           /\ Replayer(log).idx = 1 /\ Replayer(log).fault = None
<1> DEFINE bag == [p \in Pairs |->
                      Cardinality({i \in DOMAIN log : log[i] = Entry("admission", p)})]
<1>1. bag \in [Pairs -> Nat]
  <2> SUFFICES ASSUME NEW p \in Pairs
               PROVE  Cardinality({i \in DOMAIN log : log[i] = Entry("admission", p)}) \in Nat
    OBVIOUS
  <2>1. DOMAIN log = 1 .. Len(log) /\ Len(log) \in Nat
    OBVIOUS
  <2>2. IsFiniteSet(1 .. Len(log))
    BY <2>1, FS_Interval
  <2>3. {i \in DOMAIN log : log[i] = Entry("admission", p)} \in SUBSET (1 .. Len(log))
    BY <2>1
  <2> QED BY <2>2, <2>3, FS_Subset, FS_CardinalityType
<1>2. Replayer(log) = [mode |-> "replay", log |-> log, idx |-> 1, bag |-> bag,
                       kept |-> <<>>, fault |-> None]
  <2> DEFINE rec == [mode |-> "record", log |-> <<>>, idx |-> 1,
                     bag |-> [p \in Pairs |-> 0], kept |-> <<>>, fault |-> None]
  <2>1. Replayer(log) = [rec EXCEPT !.mode = "replay", !.log = log, !.bag = bag]
    BY DEF Replayer, Recorder
  <2> HIDE DEF bag
  <2> QED BY <2>1
<1> HIDE DEF bag
<1>3. Replayer(log) \in Choosers
  <2>1. <<>> \in Seq(LogEntry)
    OBVIOUS
  <2> QED BY <1>1, <1>2, <2>1 DEF Choosers
<1>4. ChooserType(Replayer(log))
  <2>1. Len(log) \in Nat
    OBVIOUS
  <2> QED BY <1>2, <1>3, <2>1 DEF ChooserType
<1>5. Follows(Replayer(log))
  <2>1. Count(log, 0) = 0 /\ Count(<<>>, 0) = 0
    <3>1. \A s : {i \in 1 .. 0 : s[i].kind # "admission"} = {}
      OBVIOUS
    <3> QED BY <3>1, FS_EmptySet DEF Count
  <2>2. Total(<<>>) = 0
    <3>1. Len(<<>>) = 0
      OBVIOUS
    <3>2. Total(<<>>) = Count(<<>>, 0)
      BY <3>1, Zenon DEF Total
    <3> QED BY <2>1, <3>2
  <2>3. KeptIs(log, <<>>)
    BY DEF KeptIs, Choices
  <2>4. CASE Len(log) = 0
    BY <1>2, <2>1, <2>2, <2>3, <2>4 DEF Follows, Total
  <2>5. CASE Len(log) # 0
    <3>1. 1 <= Len(log)
      BY <2>5, LenProperties
    <3> QED BY <1>2, <2>1, <2>2, <2>3, <3>1 DEF Follows
  <2> QED BY <2>4, <2>5
<1> QED BY <1>2, <1>4, <1>5

LEMMA FinishKeeps ==
    ASSUME NEW ch, ChooserType(ch), Follows(ch), ch.mode = "replay"
    PROVE  /\ ChooserType(Finish(ch)) /\ Follows(Finish(ch))
           /\ Finish(ch).mode = "replay"
           /\ Finish(ch).fault = None =>
                  \A i \in Finish(ch).idx .. Len(Finish(ch).log) :
                      Finish(ch).log[i].kind \in {"admission", "progress"}
<1>1. "overrun" \in Faults
  BY DEF Faults
<1>2. CASE \A i \in ch.idx .. Len(ch.log) : ch.log[i].kind \in {"admission", "progress"}
  BY <1>2 DEF Finish
<1>3. CASE ~ \A i \in ch.idx .. Len(ch.log) : ch.log[i].kind \in {"admission", "progress"}
  <2>1. Finish(ch) = Fail(ch, "overrun")
    BY <1>3 DEF Finish
  <2> QED BY <1>1, <2>1, FailKeeps
<1> QED BY <1>2, <1>3

LEMMA DoneKeeps ==
    ASSUME ReplayInv, Done
    PROVE  ReplayInv'
BY DEF Done, ReplayInv, ChooserType, Follows, Finished, InputType, ExitType, Replaying

LEMMA EndKeeps ==
    ASSUME ReplayInv, End
    PROVE  ReplayInv'
<1>1. /\ ~ over
      /\ IF Recording
         THEN /\ chooser' = IF Overfull THEN Fail(chooser, "full")
                            ELSE Replayer(chooser.log)
              /\ done' = FALSE /\ left' = {} /\ asked' = 0 /\ input' = NoInput
              /\ UNCHANGED <<over, drift>>
         ELSE /\ chooser' = Finish(chooser) /\ over' = TRUE
              /\ drift' = IF same /\ \E c \in Cores : ~Past(c)
                          THEN drift \cup {"end"} ELSE drift
              /\ UNCHANGED <<input, done, left, asked>>
      /\ UNCHANGED <<lock, did, pos, same>>
  BY DEF End
<1>2. ExitType'
  <2>1. /\ drift' \subseteq {"order", "end", "admission"} /\ done' \in BOOLEAN
        /\ left' \subseteq Cores /\ asked' \in Nat /\ UNCHANGED <<lock, did, pos, same>>
    <3>1. CASE Recording
      <4>1. done' = FALSE /\ left' = {} /\ asked' = 0 /\ UNCHANGED <<drift, lock, did, pos, same>>
        BY <1>1, <3>1
      <4> QED BY <4>1 DEF ReplayInv, ExitType
    <3>2. CASE ~ Recording
      <4>1. UNCHANGED <<done, left, asked>> /\ drift' \subseteq drift \cup {"end"}
        BY <1>1, <3>2
      <4> QED BY <1>1, <4>1 DEF ReplayInv, ExitType
    <3> QED BY <3>1, <3>2
  <2> QED BY <2>1 DEF ReplayInv, ExitType
<1>3. "full" \in Faults
  BY DEF Faults
<1>4. CASE Recording
  <2>1. ChooserType(chooser') /\ Follows(chooser')
    <3>1. CASE Overfull
      BY <1>1, <1>3, <1>4, <3>1, FailKeeps DEF ReplayInv
    <3>2. CASE ~ Overfull
      <4>1. /\ chooser.log \in Seq(LogEntry)
            /\ \A i \in DOMAIN chooser.log :
                  chooser.log[i].kind = "progress" => chooser.log[i].val \in Cores
        BY DEF ReplayInv, ChooserType, Choosers
      <4> QED BY <1>1, <1>4, <3>2, <4>1, ReplayerType
    <3> QED BY <3>1, <3>2
  <2>2. InputType'
    <3>1. input' = [lines |-> 0, queue |-> 0, seq |-> 0]
      BY <1>1, <1>4 DEF NoInput
    <3> QED BY <3>1, ReplayAssumption DEF InputType
  <2>3. over' = FALSE
    BY <1>1, <1>4 DEF ReplayInv
  <2> QED BY <1>2, <2>1, <2>2, <2>3 DEF ReplayInv, Finished, ChooserType, Follows
<1>5. CASE ~ Recording
  <2>1. chooser' = Finish(chooser) /\ over' = TRUE /\ UNCHANGED input
    BY <1>1, <1>5
  <2>2. chooser.mode = "replay"
    BY <1>5 DEF ReplayInv, ChooserType, Choosers, Recording
  <2>3. /\ ChooserType(chooser') /\ Follows(chooser') /\ chooser'.mode = "replay"
        /\ chooser'.fault = None =>
               \A i \in chooser'.idx .. Len(chooser'.log) :
                   chooser'.log[i].kind \in {"admission", "progress"}
    BY <2>1, <2>2, FinishKeeps DEF ReplayInv
  <2>4. InputType'
    BY <2>1, <2>2, <2>3, InputStays DEF ReplayInv
  <2> QED BY <1>2, <2>1, <2>3, <2>4
          DEF ReplayInv, Finished, ChooserType, Follows, Replaying
<1> QED BY <1>4, <1>5

LEMMA LineKeeps ==
    ASSUME ReplayInv, Line
    PROVE  ReplayInv'
<1>1. /\ Recording /\ input' = [input EXCEPT !.lines = @ + 1]
      /\ UNCHANGED <<uses, chooser, boot, did, pos, asked, same, drift>>
  BY DEF Line
<1>2. InputType'
  <2>1. input' \in [lines : Nat, queue : 0 .. QueueCapacity, seq : Nat]
    BY <1>1 DEF ReplayInv, InputType
  <2> QED BY <1>1, <2>1 DEF InputType, Recording, Replaying
<1>3. ExitType' /\ over' \in BOOLEAN
  BY <1>1 DEF ReplayInv, ExitType, boot
<1>4. ChooserType(chooser)' /\ Follows(chooser)' /\ Finished'
  BY <1>1 DEF ReplayInv, ChooserType, Follows, Finished, Replaying, boot
<1> QED BY <1>2, <1>3, <1>4 DEF ReplayInv

LEMMA InitKeeps == Init => ReplayInv
<1> SUFFICES ASSUME Init PROVE ReplayInv
  OBVIOUS
<1>1. chooser = [mode |-> "record", log |-> <<>>, idx |-> 1, bag |-> [p \in Pairs |-> 0],
                 kept |-> <<>>, fault |-> None]
  BY DEF Init, Recorder
<1>2. chooser \in Choosers
  <2>1. <<>> \in Seq(LogEntry) /\ [p \in Pairs |-> 0] \in [Pairs -> Nat]
    OBVIOUS
  <2> QED BY <1>1, <2>1 DEF Choosers
<1>3. ChooserType(chooser) /\ Follows(chooser)
  BY <1>1, <1>2 DEF ChooserType, Follows
<1>4. InputType
  BY <1>1, ReplayAssumption DEF Init, NoInput, InputType, Replaying
<1>5. ExitType
  <2>1. [c \in Cores |-> <<>>] \in [Cores -> Seq(Exchange)]
    OBVIOUS
  <2> QED BY <2>1 DEF Init, ExitType
<1> QED BY <1>3, <1>4, <1>5 DEF Init, ReplayInv, Finished

LEMMA NextKeeps ==
    ASSUME ReplayInv, [Next]_vars
    PROVE  ReplayInv'
<1>1. CASE Line
  BY <1>1, LineKeeps
<1>2. ASSUME NEW c \in Cores, Exit(c) PROVE ReplayInv'
  BY <1>2, ClockReadKeeps, CompletionKeeps, DeadlineWakeKeeps, PresentKeeps,
     InputStatusKeeps, InputEventKeeps, CommitKeeps, YieldKeeps, HaltKeeps DEF Exit
<1>3. CASE UNCHANGED vars
  BY <1>3 DEF vars, boot, ReplayInv, ChooserType, Follows, Finished, InputType, ExitType,
              Replaying
<1> QED BY <1>1, <1>2, <1>3, DoneKeeps, EndKeeps DEF Next

-----------------------------------------------------------------------------
(* Everything kept follows the log, and the cursor tells how much of it:    *)
(* ReplayInv holds of every boot (Chooser of record.rs).                    *)
THEOREM ReplayInvariant == Spec => []ReplayInv
<1>1. ReplayInv /\ [Next]_vars => ReplayInv'
  BY NextKeeps
<1> QED BY <1>1, InitKeeps, PTL DEF Spec

(* The records keep their shape, the transport never overfills its queue    *)
(* and a recorder has no divergence to report.                              *)
THEOREM TypeCorrect == Spec => []TypeOK
<1>1. ReplayInv => TypeOK
  <2> SUFFICES ASSUME ReplayInv PROVE TypeOK
    OBVIOUS
  <2>1. /\ chooser \in Choosers /\ chooser.idx <= Len(chooser.log) + 1
        /\ Recording => chooser.fault \in {None, "full", "empty"} /\ chooser.kept = <<>>
    BY DEF ReplayInv, ChooserType, Recording
  <2>2. /\ chooser.log \in Seq(LogEntry) /\ chooser.kept \in Seq(LogEntry)
        /\ chooser.idx \in Nat \ {0}
    BY <2>1 DEF Choosers
  <2>3. chooser.idx \in 1 .. Len(chooser.log) + 1
    BY <2>1, <2>2, LenProperties
  <2>4. /\ \A i \in DOMAIN chooser.log : chooser.log[i].kind \in Kinds
        /\ \A i \in DOMAIN chooser.kept : chooser.kept[i].kind \in Kinds
    <3>1. \A s \in Seq(LogEntry) : \A i \in DOMAIN s : s[i] \in LogEntry
      OBVIOUS
    <3>2. \A e \in LogEntry : e.kind \in Kinds
      BY DEF LogEntry
    <3> QED BY <2>2, <3>1, <3>2
  <2> QED BY <2>1, <2>3, <2>4 DEF TypeOK, ReplayInv, InputType, ExitType, Choosers
<1> QED BY <1>1, ReplayInvariant, PTL

(* A replay without a fault has kept the recorded choices, in their order   *)
(* and without a gap; past the log's end only hand-offs of the baton        *)
(* (choose_next).                                                           *)
THEOREM LogKept == Spec => []KeepsTheLog
<1>1. ReplayInv => KeepsTheLog
  BY DEF ReplayInv, Follows, KeptIs, KeepsTheLog, Replaying
<1> QED BY <1>1, ReplayInvariant, PTL

(* A replay that ended without a fault has left out nothing of the log but  *)
(* admissions and hand-offs (finish).                                       *)
THEOREM NothingLeftOut == Spec => []NothingMissed
<1>1. ReplayInv => NothingMissed
  <2> SUFFICES ASSUME ReplayInv, over, chooser.fault = None,
                      NEW i \in Choices(chooser.log)
               PROVE  \/ Count(chooser.log, i) <= Total(chooser.kept)
                      \/ chooser.log[i].kind = "progress"
    BY DEF NothingMissed
  <2> DEFINE log == chooser.log
             kept == chooser.kept
             idx == chooser.idx
  <2>1. /\ chooser.mode = "replay" /\ log \in Seq(LogEntry) /\ kept \in Seq(LogEntry)
        /\ idx \in Nat \ {0} /\ i \in 1 .. Len(log) /\ Len(log) \in Nat
        /\ log[i].kind # "admission" /\ Len(kept) \in Nat
    BY DEF ReplayInv, Finished, Replaying, ChooserType, Choosers, Choices
  <2>2. /\ \A j \in idx .. Len(log) : log[j].kind \in {"admission", "progress"}
        /\ IF idx <= Len(log) THEN Total(kept) = Count(log, idx - 1)
           ELSE Total(kept) >= Total(log)
    BY <2>1 DEF ReplayInv, Finished, Follows
  <2>3. Total(kept) \in Nat /\ Total(log) \in Nat /\ Count(log, i) \in Nat
    <3>1. i \in Nat
      BY <2>1
    <3> QED BY <2>1, <3>1, CountType DEF Total
  <2> HIDE DEF log, kept, idx
  <2>4. CASE i >= idx
    BY <2>1, <2>2, <2>4 DEF log
  <2>5. CASE i < idx /\ idx <= Len(log)
    <3>1. i <= idx - 1 /\ i \in Nat /\ idx - 1 \in Nat
      BY <2>1, <2>5
    <3>2. Count(log, i) <= Count(log, idx - 1)
      BY <3>1, CountMonotone
    <3> QED BY <2>2, <2>5, <3>2 DEF log, kept
  <2>6. CASE i < idx /\ ~ (idx <= Len(log))
    <3>1. Count(log, i) <= Total(log)
      BY <2>1, CountMonotone DEF Total
    <3>2. Total(kept) >= Total(log)
      BY <2>2, <2>6
    <3>3. Count(log, i) <= Total(kept)
      BY <2>3, <3>1, <3>2
    <3> QED BY <3>3 DEF log, kept
  <2> QED BY <2>1, <2>4, <2>5, <2>6
<1> QED BY <1>1, ReplayInvariant, PTL

-----------------------------------------------------------------------------
(***************************************************************************)
(* What is recorded, and that it stays where it is.                        *)
(***************************************************************************)
LEMMA FitsExtends ==
    ASSUME NEW e, NEW log \in Seq(LogEntry), NEW more \in Seq(LogEntry),
           NEW s \in Nat \ {0}, NEW t \in Nat \ {0},
           Len(log) <= Len(more), \A i \in 1 .. Len(log) : more[i] = log[i],
           Fits(e, log, s, t)
    PROVE  Fits(e, more, s, t)
<1>1. Len(log) \in Nat /\ Len(more) \in Nat
  OBVIOUS
<1>2. PICK u \in Nat \ {0} :
        /\ s <= u /\ \A i \in s .. u - 1 : log[i].kind = "admission"
        /\ Place(log, e.at, u) /\ Own(e.kind, e.val, log, u, t)
  BY DEF Fits
<1>3. u <= Len(log) + 1
  BY <1>1, <1>2 DEF Own
<1>4. \A i \in s .. u - 1 : more[i].kind = "admission"
  <2>1. \A i \in s .. u - 1 : i \in 1 .. Len(log)
    BY <1>1, <1>3
  <2> QED BY <1>2, <2>1
<1>5. Place(more, e.at, u)
  <2>1. /\ \A i \in e.at .. u - 1 : i \in 1 .. Len(log)
        /\ e.at # 1 => e.at - 1 \in 1 .. Len(log)
    BY <1>1, <1>2, <1>3 DEF Place
  <2> QED BY <1>2, <2>1 DEF Place
<1>6. Own(e.kind, e.val, more, u, t)
  <2>1. CASE /\ e.kind \in {"clock", "frame", "input", "progress"} /\ t = u + 1
             /\ u <= Len(log) /\ log[u] = Entry(e.kind, e.val)
    <3>1. u \in 1 .. Len(log)
      BY <1>1, <2>1
    <3> QED BY <1>1, <2>1, <3>1 DEF Own
  <2>2. CASE /\ e.kind = "blk" /\ t = u + 2 /\ u + 1 <= Len(log)
             /\ log[u] = Entry("blk", e.val) /\ log[u + 1] = Entry("vector", 1)
    <3>1. u \in 1 .. Len(log) /\ u + 1 \in 1 .. Len(log)
      BY <1>1, <2>2
    <3> QED BY <1>1, <2>2, <3>1 DEF Own
  <2>3. CASE /\ e.kind = "deadline" /\ e.val = 1 /\ t = u + 2 /\ u + 1 <= Len(log)
             /\ log[u] = Entry("deadline", 1) /\ log[u + 1] = Entry("vector", 0)
    <3>1. u \in 1 .. Len(log) /\ u + 1 \in 1 .. Len(log)
      BY <1>1, <2>3
    <3> QED BY <1>1, <2>3, <3>1 DEF Own
  <2>4. CASE /\ e.kind = "status" \/ (e.kind = "halt" /\ e.val = 0)
             /\ t = u /\ u <= Len(log) + 1
    BY <1>1, <2>4 DEF Own
  <2> QED BY <1>2, <2>1, <2>2, <2>3, <2>4 DEF Own
<1> QED BY <1>2, <1>4, <1>5, <1>6 DEF Fits

\* Entries more.
LEMMA LayoutGrows ==
    ASSUME ExitType, NEW log \in Seq(LogEntry), NEW more \in Seq(LogEntry),
           NEW last, NEW start, NEW seqs, Layout(did, log, start, seqs, last),
           Len(log) <= Len(more), \A i \in 1 .. Len(log) : more[i] = log[i]
    PROVE  Layout(did, more, start, seqs, last)
<1>1. last \in Nat /\ start \in [0 .. last -> Nat \ {0}]
  BY DEF Layout
<1>2. ASSUME NEW c \in Cores, NEW j \in DOMAIN did[c]
      PROVE  Recorded(did[c][j], more, start, seqs)
  <2> DEFINE x == did[c][j]
  <2>1. x.n < last /\ Recorded(x, log, start, seqs)
    BY DEF Layout
  <2>2. x \in Exchange
    BY DEF ExitType
  <2> HIDE DEF x
  <2>3. x.n \in 0 .. last /\ x.n + 1 \in 0 .. last
    BY <1>1, <2>1, <2>2 DEF Exchange
  <2>4. start[x.n] \in Nat \ {0} /\ start[x.n + 1] \in Nat \ {0}
    BY <1>1, <2>3
  <2>5. Fits(x, log, start[x.n], start[x.n + 1])
    BY <2>1 DEF Recorded
  <2>6. Fits(x, more, start[x.n], start[x.n + 1])
    BY <2>4, <2>5, FitsExtends
  <2>7. Recorded(x, more, start, seqs)
    BY <2>1, <2>6 DEF Recorded
  <2> QED BY <2>7 DEF x
<1> QED BY <1>2 DEF Layout

\* One exit more.
LEMMA LayoutExtends ==
    ASSUME ExitType, NEW log \in Seq(LogEntry), NEW more \in Seq(LogEntry),
           NEW seq, LaidOut(did, log, asked, seq),
           Len(log) <= Len(more), \A i \in 1 .. Len(log) : more[i] = log[i],
           NEW c \in Cores, NEW e \in Exchange, e.n = asked, e.at = Reached(log),
           Own(e.kind, e.val, more, Len(log) + 1, Len(more) + 1),
           e.kind = "input" => e.val = seq
    PROVE  LaidOut([did EXCEPT ![c] = Append(@, e)], more, asked + 1,
                   IF e.kind = "input" THEN seq + 1 ELSE seq)
<1>0. PICK start \in [0 .. asked -> Nat \ {0}], seqs \in [0 .. asked -> Nat] :
          /\ Layout(did, log, start, seqs, asked)
          /\ Trailing(log, start[asked]) /\ seqs[asked] = seq
  BY DEF LaidOut
<1> DEFINE start2 == [n \in 0 .. asked + 1 |-> IF n <= asked THEN start[n] ELSE Len(more) + 1]
           next == IF e.kind = "input" THEN seq + 1 ELSE seq
           seqs2 == [n \in 0 .. asked + 1 |-> IF n <= asked THEN seqs[n] ELSE next]
           told == [did EXCEPT ![c] = Append(@, e)]
<1>1. Layout(did, more, start, seqs, asked)
  BY <1>0, LayoutGrows
<1>2. /\ asked \in Nat /\ start \in [0 .. asked -> Nat \ {0}] /\ start[0] = 1
      /\ seqs \in [0 .. asked -> Nat] /\ seqs[0] = 0
      /\ \A d \in Cores : \A j \in DOMAIN did[d] :
            did[d][j].n < asked /\ Recorded(did[d][j], more, start, seqs)
      /\ \A n \in 0 .. asked - 1 :
            \E d \in Cores : \E j \in DOMAIN did[d] : did[d][j].n = n
  BY <1>1 DEF Layout
<1>3. Len(log) \in Nat /\ Len(more) \in Nat
  OBVIOUS
<1>4. /\ start2 \in [0 .. asked + 1 -> Nat \ {0}] /\ start2[0] = 1
      /\ start2[asked + 1] = Len(more) + 1
      /\ \A n \in 0 .. asked : start2[n] = start[n]
  BY <1>2, <1>3
<1>5. next \in Nat
  BY <1>0, <1>2
<1> HIDE DEF next, start2
<1>6. /\ seqs2 \in [0 .. asked + 1 -> Nat] /\ seqs2[0] = 0
      /\ seqs2[asked + 1] = next
      /\ \A n \in 0 .. asked : seqs2[n] = seqs[n]
  BY <1>2, <1>5
<1> HIDE DEF seqs2
<1>7. /\ \A d \in Cores : \A j \in DOMAIN did[d] :
            j \in DOMAIN told[d] /\ told[d][j] = did[d][j]
      /\ \A d \in Cores : \A j \in DOMAIN told[d] :
            \/ d = c /\ j = Len(did[c]) + 1 /\ told[d][j] = e
            \/ j \in DOMAIN did[d] /\ told[d][j] = did[d][j]
      /\ Len(did[c]) + 1 \in DOMAIN told[c] /\ told[c][Len(did[c]) + 1] = e
  <2>1. /\ \A d \in Cores : told[d] = IF d = c THEN Append(did[c], e) ELSE did[d]
        /\ \A d \in Cores : did[d] \in Seq(Exchange)
    BY DEF ExitType
  <2> HIDE DEF told
  <2>2. /\ Len(did[c]) \in Nat /\ DOMAIN did[c] = 1 .. Len(did[c])
        /\ DOMAIN Append(did[c], e) = 1 .. Len(did[c]) + 1
        /\ \A j \in 1 .. Len(did[c]) : Append(did[c], e)[j] = did[c][j]
        /\ Append(did[c], e)[Len(did[c]) + 1] = e
    BY <2>1
  <2>3. ASSUME NEW d \in Cores, d # c PROVE told[d] = did[d]
    BY <2>1, <2>3
  <2>4. told[c] = Append(did[c], e)
    BY <2>1
  <2>5. /\ \A j \in DOMAIN did[c] : j \in DOMAIN told[c] /\ told[c][j] = did[c][j]
        /\ \A j \in DOMAIN told[c] :
              \/ j = Len(did[c]) + 1 /\ told[c][j] = e
              \/ j \in DOMAIN did[c] /\ told[c][j] = did[c][j]
        /\ Len(did[c]) + 1 \in DOMAIN told[c] /\ told[c][Len(did[c]) + 1] = e
    BY <2>2, <2>4
  <2> QED BY <2>3, <2>5
<1> HIDE DEF told
<1>8. Fits(e, more, start[asked], Len(more) + 1)
  <2> DEFINE u == Len(log) + 1
  <2>1. u \in Nat \ {0} /\ start[asked] <= u /\ start[asked] \in Nat \ {0}
    BY <1>0, <1>2, <1>3 DEF Trailing
  <2>2. \A i \in start[asked] .. u - 1 : more[i].kind = "admission"
    <3>1. \A i \in start[asked] .. u - 1 : i \in start[asked] .. Len(log) /\ i \in 1 .. Len(log)
      BY <1>3, <2>1
    <3> QED BY <1>0, <3>1 DEF Trailing
  <2>3. Place(more, e.at, u)
    <3>1. /\ e.at \in Nat \ {0} /\ e.at <= Len(log) + 1
          /\ e.at = 1 \/ log[e.at - 1].kind # "admission"
          /\ \A j \in e.at .. Len(log) : log[j].kind = "admission"
      BY ReachedType
    <3>2. /\ \A i \in e.at .. u - 1 : i \in e.at .. Len(log) /\ i \in 1 .. Len(log)
          /\ e.at # 1 => e.at - 1 \in 1 .. Len(log)
      BY <1>3, <3>1
    <3> QED BY <3>1, <3>2 DEF Place
  <2>4. Own(e.kind, e.val, more, u, Len(more) + 1)
    OBVIOUS
  <2> HIDE DEF u
  <2> QED BY <2>1, <2>2, <2>3, <2>4 DEF Fits
<1>9. ASSUME NEW d \in Cores, NEW j \in DOMAIN told[d]
      PROVE  told[d][j].n < asked + 1 /\ Recorded(told[d][j], more, start2, seqs2)
  <2>1. CASE told[d][j] = e
    <3>1. /\ start2[e.n] = start[asked] /\ start2[e.n + 1] = Len(more) + 1
          /\ seqs2[e.n] = seq /\ seqs2[e.n + 1] = next
      BY <1>0, <1>2, <1>4, <1>6
    <3>2. Recorded(e, more, start2, seqs2)
      BY <1>8, <3>1 DEF Recorded, next
    <3> QED BY <1>2, <2>1, <3>2
  <2>2. CASE j \in DOMAIN did[d] /\ told[d][j] = did[d][j]
    <3> DEFINE x == did[d][j]
    <3>1. x \in Exchange
      BY <2>2 DEF ExitType
    <3>2. x.n < asked /\ Recorded(x, more, start, seqs) /\ told[d][j] = x
      BY <1>2, <2>2
    <3> HIDE DEF x
    <3>3. x.n \in 0 .. asked /\ x.n + 1 \in 0 .. asked /\ x.n \in Nat
      BY <1>2, <3>1, <3>2, SMTT(30) DEF Exchange
    <3>4. /\ start2[x.n] = start[x.n] /\ start2[x.n + 1] = start[x.n + 1]
          /\ seqs2[x.n] = seqs[x.n] /\ seqs2[x.n + 1] = seqs[x.n + 1]
      BY <1>4, <1>6, <3>3
    <3>5. Recorded(x, more, start2, seqs2)
      BY <3>2, <3>4 DEF Recorded
    <3>6. x.n < asked + 1
      BY <1>2, <3>2, <3>3
    <3> QED BY <3>2, <3>5, <3>6
  <2> QED BY <1>7, <2>1, <2>2
<1>10. ASSUME NEW n \in 0 .. asked
       PROVE  \E d \in Cores : \E j \in DOMAIN told[d] : told[d][j].n = n
  <2>1. CASE n = asked
    BY <1>7, <2>1
  <2>2. CASE n # asked
    <3>1. n \in 0 .. asked - 1
      BY <1>2, <2>2
    <3>2. PICK d \in Cores : \E j \in DOMAIN did[d] : did[d][j].n = n
      BY <1>2, <3>1
    <3> QED BY <1>7, <3>2
  <2> QED BY <2>1, <2>2
<1>11. Layout(told, more, start2, seqs2, asked + 1)
  <2>1. (asked + 1) - 1 = asked /\ asked + 1 \in Nat
    BY <1>2
  <2> QED BY <1>4, <1>6, <1>9, <1>10, <2>1 DEF Layout
<1>12. Trailing(more, start2[asked + 1])
  BY <1>3, <1>4 DEF Trailing
<1> QED BY <1>4, <1>6, <1>11, <1>12 DEF LaidOut, told, next

\* A log with the entries of one exit more.
Grows(kind, val, log, more) ==
    /\ Len(log) <= Len(more) /\ \A i \in 1 .. Len(log) : more[i] = log[i]
    /\ Own(kind, val, more, Len(log) + 1, Len(more) + 1)

LEMMA RecordStep ==
    ASSUME ReplayInv, ExactInv, Recording, chooser.fault = None,
           NEW c \in Cores, NEW kind \in Asked, NEW val \in Logged \cup BOOLEAN,
           Told(c, kind, val), ChooserType(chooser'), chooser'.mode = "record",
           chooser'.fault = None =>
               /\ Grows(kind, val, chooser.log, chooser'.log)
               /\ kind = "input" => val = input.seq
               /\ input'.seq = IF kind = "input" THEN input.seq + 1 ELSE input.seq
    PROVE  ExactInv'
<1> DEFINE log == chooser.log
           more == chooser'.log
           seq == input.seq
           e == [kind |-> kind, val |-> val, n |-> asked, at |-> Reached(log)]
<1>1. /\ asked' = asked + 1 /\ did' = [did EXCEPT ![c] = Append(@, e)]
      /\ UNCHANGED <<pos, same, drift>>
  BY DEF Told
<1>2. log \in Seq(LogEntry) /\ more \in Seq(LogEntry)
  BY DEF ReplayInv, ChooserType, Choosers
<1>3. /\ e \in Exchange /\ e.n = asked /\ e.kind = kind /\ e.val = val
      /\ e.at = Reached(log)
  BY <1>2, ReachedType DEF ReplayInv, ExitType, Exchange
<1> HIDE DEF e
<1>4. /\ Recording' /\ ~ Replaying' /\ same' /\ drift' = {}
      /\ \A d \in Cores : pos'[d] = 0
  BY <1>1 DEF ExactInv, Recording, Replaying
<1>5. ASSUME chooser'.fault = None
      PROVE  LaidOut(did, chooser.log, asked, input.seq)'
  <2>1. ExitType /\ LaidOut(did, log, asked, seq)
    BY DEF ReplayInv, ExactInv
  <2>2. /\ Len(log) <= Len(more) /\ \A i \in 1 .. Len(log) : more[i] = log[i]
        /\ Own(e.kind, e.val, more, Len(log) + 1, Len(more) + 1)
        /\ e.kind = "input" => e.val = seq
        /\ input'.seq = IF e.kind = "input" THEN seq + 1 ELSE seq
    BY <1>3, <1>5 DEF Grows
  <2> HIDE DEF log, more, seq
  <2>3. LaidOut([did EXCEPT ![c] = Append(@, e)], more, asked + 1,
                IF e.kind = "input" THEN seq + 1 ELSE seq)
    BY <1>2, <1>3, <2>1, <2>2, LayoutExtends
  <2>4. LaidOut(did', more, asked', input'.seq)
    BY <1>1, <2>2, <2>3
  <2> QED BY <2>4 DEF more
<1> QED BY <1>4, <1>5 DEF ExactInv

(***************************************************************************)
(* A replay's exit asks again what the recording's exit of that number did *)
(* and is answered from the same entries.                                  *)
(***************************************************************************)
Answers(c, kind, live, own, u, t) ==
    /\ u \in Nat \ {0} /\ t \in Nat \ {0}
    /\ Place(chooser.log, chooser.idx, u) /\ Own(kind, Due(c).val, chooser.log, u, t)
    /\ own => Due(c).val = live
    /\ kind = "status" => Due(c).val = InputAt(chooser.log, chooser.idx)
    /\ kind = "input" => Due(c).val = input.seq /\ InputAt(chooser.log, chooser.idx)

Answered(c, kind, answer, t) ==
    /\ answer = Due(c).val /\ chooser'.fault = None
    /\ chooser'.idx = IF kind \in {"status", "halt"} THEN chooser.idx ELSE t
    /\ input'.seq = IF kind = "input" THEN input.seq + 1 ELSE input.seq

\* An exit that has entries of its own ends with a choice.
LEMMA OwnEnds ==
    ASSUME NEW kind \in Asked, NEW val, NEW log, NEW u \in Nat \ {0}, NEW t,
           Own(kind, val, log, u, t)
    PROVE  IF kind \in {"status", "halt"} THEN t = u
           ELSE t \in Nat \ {0} /\ log[t - 1].kind # "admission"
<1>1. (u + 1) - 1 = u /\ (u + 2) - 1 = u + 1
  OBVIOUS
<1> QED BY <1>1 DEF Own, Entry, Asked

LEMMA ReplayStep ==
    ASSUME ReplayInv, ExactInv, Replaying, chooser.fault = None, ~ over,
           NEW c \in Cores, NEW kind \in Asked, NEW live, NEW own, NEW answer,
           MayAsk(c, kind, live, own), Told(c, kind, answer),
           chooser'.mode = "replay", chooser'.log = chooser.log,
           \A u, t : Answers(c, kind, live, own, u, t) => Answered(c, kind, answer, t)
    PROVE  ExactInv'
<1>1. ~ Recording /\ ~ Recording' /\ Replaying'
  BY DEF Recording, Replaying
<1>2. /\ asked' = asked + 1 /\ did' = did /\ over' = over
      /\ pos' = [pos EXCEPT ![c] = @ + 1]
      /\ same' = (same /\ (Past(c) \/ answer = Due(c).val))
      /\ drift' = IF ~same THEN drift
                  ELSE IF Past(c) THEN drift \cup {"end"}
                  ELSE IF Due(c).n # asked THEN drift \cup {"order"} ELSE drift
  BY <1>1 DEF Told
<1>3. InputImplied' => InputImplied
  BY <1>2 DEF InputImplied
<1> SUFFICES ASSUME drift' = {}, InputImplied
             PROVE  same' /\ chooser'.fault = None /\ ReplayedSoFar'
  BY <1>1, <1>3 DEF ExactInv
<1>4. drift = {}
  BY <1>2
<1>5. same /\ ReplayedSoFar
  BY <1>4 DEF ExactInv
<1>6. ~ Past(c) /\ Due(c).n = asked
  BY <1>2, <1>5
<1>7. PICK last \in Nat :
          \E start \in [0 .. last -> Nat \ {0}], seqs \in [0 .. last -> Nat] :
              /\ Layout(did, chooser.log, start, seqs, last)
              /\ Trailing(chooser.log, start[last]) /\ Repeated(start, seqs, last)
  BY <1>5 DEF ReplayedSoFar
<1>8. PICK start \in [0 .. last -> Nat \ {0}], seqs \in [0 .. last -> Nat] :
          /\ Layout(did, chooser.log, start, seqs, last)
          /\ Trailing(chooser.log, start[last]) /\ Repeated(start, seqs, last)
  BY <1>7
<1>9. /\ did[c] \in Seq(Exchange) /\ pos[c] \in Nat /\ asked \in Nat
      /\ pos \in [Cores -> Nat]
  BY DEF ReplayInv, ExitType
<1> DEFINE x == Due(c)
           log == chooser.log
<1>10. /\ pos[c] + 1 \in DOMAIN did[c] /\ x = did[c][pos[c] + 1]
       /\ x.kind = kind /\ (own => x.val = live)
  <2>1. Repeating
    BY <1>5 DEF Repeating
  <2>2. pos[c] + 1 \in DOMAIN did[c]
    BY <1>6, <1>9 DEF Past
  <2> QED BY <1>6, <2>1, <2>2 DEF MayAsk, Due
<1>11. /\ x \in Exchange /\ x.n = asked /\ asked < last
       /\ Recorded(x, log, start, seqs)
  BY <1>6, <1>8, <1>9, <1>10 DEF Layout
<1>12. asked + 1 \in 0 .. last /\ asked \in 0 .. last
  BY <1>9, <1>11
<1>13. PICK t \in Nat \ {0} : t = start[asked + 1]
  BY <1>12
<1>14. PICK r \in Nat \ {0} : r = start[asked]
  BY <1>12
<1>15. Place(log, chooser.idx, r) /\ input.seq = seqs[asked]
  BY <1>8, <1>14 DEF Repeated
<1>16. /\ kind = "input" => x.val = input.seq
       /\ kind = "status" => x.val = InputAt(log, x.at)
       /\ kind = "input" => InputAt(log, x.at)
       /\ seqs[asked + 1] = IF kind = "input" THEN input.seq + 1 ELSE input.seq
  <2>1. /\ kind = "input" => x.val = seqs[asked]
        /\ seqs[asked + 1] = IF kind = "input" THEN seqs[asked] + 1 ELSE seqs[asked]
    <3> HIDE DEF x, log
    <3> QED BY <1>10, <1>11 DEF Recorded
  <2>2. /\ kind = "status" => x.val = InputAt(log, x.at)
        /\ kind = "input" => InputAt(log, x.at)
    <3>1. LET e == did[c][pos[c] + 1]
          IN  /\ e.kind = "status" => e.val = InputAt(chooser.log, e.at)
              /\ e.kind = "input" => InputAt(chooser.log, e.at)
      BY <1>10 DEF InputImplied
    <3> QED BY <1>10, <3>1
  <2> QED BY <1>15, <2>1, <2>2
<1> HIDE DEF x
<1>17. PICK u \in Nat \ {0} :
          /\ r <= u /\ \A i \in r .. u - 1 : log[i].kind = "admission"
          /\ Place(log, x.at, u) /\ Own(kind, x.val, log, u, t)
  <2> HIDE DEF log
  <2> QED BY <1>10, <1>11, <1>13, <1>14 DEF Recorded, Fits
<1>18. Place(log, chooser.idx, u)
  <2> HIDE DEF log
  <2>1. /\ chooser.idx \in Nat \ {0} /\ chooser.idx <= r
        /\ chooser.idx = 1 \/ log[chooser.idx - 1].kind # "admission"
        /\ \A j \in chooser.idx .. r - 1 : log[j].kind = "admission"
    BY <1>15 DEF Place
  <2>2. \A j \in chooser.idx .. u - 1 :
            j \in chooser.idx .. r - 1 \/ j \in r .. u - 1
    BY <1>17, <2>1
  <2>3. chooser.idx <= u
    BY <1>17, <2>1
  <2> QED BY <1>17, <2>1, <2>2, <2>3 DEF Place
<1>19. x.at = chooser.idx
  <2> HIDE DEF log
  <2> QED BY <1>17, <1>18, OnePlace DEF Place
<1>20. Answers(c, kind, live, own, u, t)
  BY <1>10, <1>16, <1>17, <1>18, <1>19 DEF Answers, x
<1>21. Answered(c, kind, answer, t)
  BY <1>20
<1>22. Place(log, chooser'.idx, t)
  <2> HIDE DEF log
  <2>1. CASE kind \in {"status", "halt"}
    BY <1>17, <1>18, <1>21, <2>1, OwnEnds DEF Answered
  <2>2. CASE kind \notin {"status", "halt"}
    <3>1. chooser'.idx = t /\ log[t - 1].kind # "admission"
      BY <1>17, <1>21, <2>2, OwnEnds DEF Answered
    <3> QED BY <3>1 DEF Place
  <2> QED BY <2>1, <2>2
<1>23. ASSUME NEW d \in Cores, NEW j \in 1 .. pos'[d]
       PROVE  j \in DOMAIN did[d] /\ did[d][j].n < asked + 1
  <2>1. CASE d = c /\ j = pos[c] + 1
    BY <1>9, <1>10, <1>11, <2>1
  <2>2. CASE ~ (d = c /\ j = pos[c] + 1)
    <3>1. j \in 1 .. pos[d]
      BY <1>2, <1>9, <2>2
    <3>2. j \in DOMAIN did[d] /\ did[d][j].n < asked
      BY <1>8, <3>1 DEF Repeated
    <3>3. did[d][j] \in Exchange
      BY <3>2 DEF ReplayInv, ExitType
    <3>4. did[d][j].n \in Nat
      BY <3>3 DEF Exchange
    <3> QED BY <1>9, <3>2, <3>4
  <2> QED BY <2>1, <2>2
<1>24. ReplayedSoFar'
  <2>1. Layout(did', chooser'.log, start, seqs, last) /\ Trailing(chooser'.log, start[last])
    BY <1>2, <1>8
  <2>2. Repeated(start, seqs, last)'
    <3>1. /\ asked' <= last /\ Place(chooser'.log, chooser'.idx, start[asked'])
          /\ input'.seq = seqs[asked']
      BY <1>2, <1>12, <1>13, <1>16, <1>21, <1>22 DEF Answered
    <3>2. \A d \in Cores : \A j \in 1 .. pos'[d] :
              j \in DOMAIN did'[d] /\ did'[d][j].n < asked'
      BY <1>2, <1>23
    <3> QED BY <3>1, <3>2 DEF Repeated
  <2> QED BY <2>1, <2>2 DEF ReplayedSoFar
<1> QED BY <1>2, <1>5, <1>21, <1>24 DEF Answered

(***************************************************************************)
(* The Chooser's answers: a recorder logs what it is offered, a replayer   *)
(* whose next choice is of the kind asked for answers it.                  *)
(***************************************************************************)
LEMMA RecordChoose ==
    ASSUME NEW ch, ChooserType(ch), ch.mode = "record", ch.fault = None,
           NEW kind \in Kinds, NEW live \in Logged, kind = "progress" => live \in Cores
    PROVE  /\ Answer(ch, kind, live) = Entry(kind, live)
           /\ Choose(ch, kind, live).log = Append(ch.log, Entry(kind, live))
           /\ Choose(ch, kind, live).mode = "record"
           /\ Choose(ch, kind, live).fault = None
           /\ ChooseChecked(ch, kind, live) = Choose(ch, kind, live)
<1> DEFINE e == Entry(kind, live)
<1>1. Answer(ch, kind, live) = e
  BY DEF Answer
<1>2. e \in LogEntry /\ e.val = live /\ e.kind = kind
  BY DEF Entry, LogEntry
<1> HIDE DEF e
<1>3. Choose(ch, kind, live) = Keep(ch, e)
  BY <1>1 DEF Choose
<1>4. Keep(ch, e) = [ch EXCEPT !.log = Append(ch.log, e)]
  BY <1>2, RecorderKeeps
<1>5. ch \in Choosers
  BY DEF ChooserType
<1>6. /\ Keep(ch, e).log = Append(ch.log, e) /\ Keep(ch, e).mode = "record"
      /\ Keep(ch, e).fault = None
  BY <1>4, <1>5 DEF Choosers
<1>7. ChooseChecked(ch, kind, live) = Choose(ch, kind, live)
  BY <1>1, <1>2 DEF ChooseChecked
<1> QED BY <1>1, <1>3, <1>6, <1>7 DEF e

\* A replayer whose next choice is entry s, of this kind, behind admissions
\* at most.
NextIs(ch, s, kind) ==
    /\ ChooserType(ch) /\ ch.mode = "replay" /\ ch.fault = None
    /\ s \in ch.idx .. Len(ch.log)
    /\ ch.log[s].kind = kind /\ kind # "admission"
    /\ \A j \in ch.idx .. s - 1 : ch.log[j].kind = "admission"

\* ... and one that has answered it.
Passed(old, ch, s) ==
    /\ ch.mode = "replay" /\ ch.fault = None /\ ch.idx = s + 1 /\ ch.log = old.log

LEMMA ReplayChoose ==
    ASSUME NEW ch, NEW s, NEW kind, NextIs(ch, s, kind), NEW live
    PROVE  /\ Answer(ch, kind, live) = ch.log[s]
           /\ Passed(ch, Choose(ch, kind, live), s)
<1>0. ChooserType(ch) /\ ch.mode = "replay" /\ ch.fault = None
  BY DEF NextIs
<1>1. ch.idx \in Nat \ {0} /\ Len(ch.log) \in Nat /\ ch.log \in Seq(LogEntry)
  BY <1>0 DEF ChooserType, Choosers
<1>2. Upcoming(ch) = s
  <2>1. /\ s \in ch.idx .. Len(ch.log) + 1 /\ ch.log[s].kind # "admission"
        /\ \A j \in ch.idx .. s - 1 : ch.log[j].kind = "admission"
    BY <1>1 DEF NextIs
  <2> QED BY <1>0, <2>1, UpcomingIs
<1>3. Matches(ch, kind) /\ Upcoming(ch) <= Len(ch.log) /\ s \in 1 .. Len(ch.log)
  BY <1>1, <1>2 DEF Matches, NextIs
<1>4. Answer(ch, kind, live) = ch.log[s]
  BY <1>0, <1>2, <1>3 DEF Answer
<1>5. Choose(ch, kind, live) = Keep(Advance(ch), ch.log[s])
  BY <1>0, <1>3, <1>4 DEF Choose
<1>6. ch.log[s] \in LogEntry
  BY <1>1, <1>3
<1>7. /\ ChooserType(Advance(ch)) /\ Advance(ch).mode = "replay"
      /\ Advance(ch).log = ch.log /\ Advance(ch).fault = None /\ Advance(ch).idx = s + 1
  BY <1>0, <1>2, <1>3, AdvanceKeeps
<1>8. Passed(ch, Keep(Advance(ch), ch.log[s]), s)
  BY <1>6, <1>7, ReplayerKeeps DEF Passed
<1> QED BY <1>4, <1>5, <1>8

LEMMA ReplayChecked ==
    ASSUME NEW ch, NEW s, NEW kind, NextIs(ch, s, kind), NEW live, ch.log[s].val = live
    PROVE  Passed(ch, ChooseChecked(ch, kind, live), s)
BY ReplayChoose DEF ChooseChecked

LEMMA Modes ==
    ASSUME ReplayInv
    PROVE  /\ chooser.mode \in {"record", "replay"} /\ ChooserType(chooser)
           /\ Recording <=> ~ Replaying
           /\ Recording <=> chooser.mode = "record"
           /\ Replaying <=> chooser.mode = "replay"
           /\ chooser.idx \in Nat \ {0} /\ Len(chooser.log) \in Nat
           /\ chooser.log \in Seq(LogEntry)
BY DEF ReplayInv, ChooserType, Choosers, Recording, Replaying

\* One entry more.
LEMMA OneMore ==
    ASSUME NEW log \in Seq(LogEntry), NEW e \in LogEntry
    PROVE  LET more == Append(log, e)
           IN  /\ Len(more) = Len(log) + 1 /\ more \in Seq(LogEntry) /\ Len(log) \in Nat
               /\ \A i \in 1 .. Len(log) : more[i] = log[i]
               /\ more[Len(log) + 1] = e
OBVIOUS

LEMMA EntryType ==
    ASSUME NEW kind \in Kinds, NEW val \in Logged
    PROVE  Entry(kind, val) \in LogEntry
BY DEF Entry, LogEntry

\* An exit with one entry of its own kind.
LEMMA OneEntryFits ==
    ASSUME NEW log \in Seq(LogEntry), NEW val \in Logged,
           NEW kind \in {"clock", "frame", "input", "progress"},
           NEW more, more = Append(log, Entry(kind, val))
    PROVE  Grows(kind, val, log, more)
<1>1. Entry(kind, val) \in LogEntry
  BY EntryType DEF Kinds
<1> QED BY <1>1, OneMore DEF Own, Grows

\* A completion raises the device's vector, a deadline the timer's.
Raises(kind, val, vector) ==
    \/ kind = "blk" /\ vector = 1
    \/ kind = "deadline" /\ vector = 0 /\ val = 1

\* An exit with a second entry, for the vector that it raises.
LEMMA TwoEntriesFit ==
    ASSUME NEW log \in Seq(LogEntry), NEW val \in Logged, NEW vector, NEW kind,
           Raises(kind, val, vector),
           NEW more, more = Append(Append(log, Entry(kind, val)), Entry("vector", vector))
    PROVE  Grows(kind, val, log, more)
<1> DEFINE mid == Append(log, Entry(kind, val))
<1>1. Entry(kind, val) \in LogEntry /\ Entry("vector", vector) \in LogEntry
  BY EntryType DEF Kinds, Logged, Raises
<1>2. /\ Len(mid) = Len(log) + 1 /\ mid \in Seq(LogEntry) /\ Len(log) \in Nat
      /\ \A i \in 1 .. Len(log) : mid[i] = log[i]
      /\ mid[Len(log) + 1] = Entry(kind, val)
  BY <1>1, OneMore
<1> HIDE DEF mid
<1>3. /\ Len(more) = Len(mid) + 1 /\ \A i \in 1 .. Len(mid) : more[i] = mid[i]
      /\ more[Len(mid) + 1] = Entry("vector", vector)
  BY <1>1, <1>2, OneMore DEF mid
<1>4. /\ Len(more) = Len(log) + 2 /\ more[Len(log) + 1] = Entry(kind, val)
      /\ more[(Len(log) + 1) + 1] = Entry("vector", vector)
      /\ \A i \in 1 .. Len(log) : more[i] = log[i]
  <2>1. Len(log) + 1 \in 1 .. Len(mid) /\ \A i \in 1 .. Len(log) : i \in 1 .. Len(mid)
    BY <1>2
  <2> QED BY <1>2, <1>3, <2>1
<1>5. Own(kind, val, more, Len(log) + 1, Len(more) + 1)
  <2>1. Len(more) + 1 = (Len(log) + 1) + 2 /\ (Len(log) + 1) + 1 <= Len(more)
    BY <1>2, <1>4
  <2>2. CASE kind = "blk" /\ vector = 1
    BY <1>4, <2>1, <2>2 DEF Own
  <2>3. CASE kind = "deadline" /\ vector = 0 /\ val = 1
    BY <1>4, <2>1, <2>3 DEF Own
  <2> QED BY <2>2, <2>3 DEF Raises
<1> QED BY <1>2, <1>4, <1>5 DEF Grows

\* An exit without an entry.
LEMMA NoEntryFits ==
    ASSUME NEW log \in Seq(LogEntry), NEW val
    PROVE  Grows("status", val, log, log) /\ Grows("halt", 0, log, log)
<1>1. Len(log) \in Nat
  OBVIOUS
<1>2. Len(log) + 1 <= Len(log) + 1 /\ Len(log) <= Len(log)
  BY <1>1
<1> DEFINE u == Len(log) + 1
<1>3. u <= Len(log) + 1
  BY <1>2
<1> HIDE DEF u
<1>4. Own("status", val, log, u, u)
  BY <1>3 DEF Own
<1>5. Own("halt", 0, log, u, u)
  BY <1>3 DEF Own
<1> QED BY <1>2, <1>4, <1>5 DEF Grows, u

\* What a replay's exit finds in the log.
LEMMA OneAnswers ==
    ASSUME ReplayInv, Replaying, chooser.fault = None, NEW c \in Cores,
           NEW kind \in {"clock", "frame", "input", "progress"},
           NEW live, NEW own, NEW u, NEW t, Answers(c, kind, live, own, u, t)
    PROVE  /\ NextIs(chooser, u, kind) /\ t = u + 1
           /\ chooser.log[u] = Entry(kind, Due(c).val)
<1>1. /\ u \in Nat \ {0} /\ t = u + 1 /\ u <= Len(chooser.log)
      /\ chooser.log[u] = Entry(kind, Due(c).val) /\ chooser.idx <= u
      /\ \A j \in chooser.idx .. u - 1 : chooser.log[j].kind = "admission"
  BY DEF Answers, Own, Place
<1>2. chooser.log[u].kind = kind /\ kind # "admission"
  BY <1>1 DEF Entry
<1>3. u \in chooser.idx .. Len(chooser.log)
  BY <1>1, Modes
<1> QED BY <1>1, <1>2, <1>3, Modes DEF NextIs

LEMMA CompletionAnswer ==
    ASSUME ReplayInv, Replaying, chooser.fault = None,
           NEW c, NEW live, NEW u, NEW t, Answers(c, "blk", live, TRUE, u, t)
    PROVE  /\ NextIs(chooser, u, "blk") /\ t = u + 2 /\ u + 1 <= Len(chooser.log)
           /\ chooser.log[u] = Entry("blk", Due(c).val)
           /\ chooser.log[u + 1] = Entry("vector", 1)
<1>1. /\ u \in Nat \ {0} /\ t = u + 2 /\ u + 1 <= Len(chooser.log)
      /\ chooser.log[u] = Entry("blk", Due(c).val) /\ chooser.idx <= u
      /\ chooser.log[u + 1] = Entry("vector", 1)
      /\ \A j \in chooser.idx .. u - 1 : chooser.log[j].kind = "admission"
  BY DEF Answers, Own, Place
<1>2. chooser.log[u].kind = "blk"
  BY <1>1 DEF Entry
<1>3. u \in chooser.idx .. Len(chooser.log)
  BY <1>1, Modes
<1> QED BY <1>1, <1>2, <1>3, Modes DEF NextIs

LEMMA DeadlineAnswer ==
    ASSUME ReplayInv, Replaying, chooser.fault = None,
           NEW c, NEW live, NEW u, NEW t, Answers(c, "deadline", live, TRUE, u, t)
    PROVE  /\ NextIs(chooser, u, "deadline") /\ t = u + 2 /\ u + 1 <= Len(chooser.log)
           /\ chooser.log[u + 1] = Entry("vector", 0) /\ Due(c).val = 1
<1>1. /\ u \in Nat \ {0} /\ t = u + 2 /\ u + 1 <= Len(chooser.log)
      /\ chooser.log[u] = Entry("deadline", Due(c).val) /\ chooser.idx <= u
      /\ chooser.log[u + 1] = Entry("vector", 0)
      /\ \A j \in chooser.idx .. u - 1 : chooser.log[j].kind = "admission"
      /\ Due(c).val = 1
  BY DEF Answers, Own, Place
<1>2. chooser.log[u].kind = "deadline"
  BY <1>1 DEF Entry
<1>3. u \in chooser.idx .. Len(chooser.log)
  BY <1>1, Modes
<1> QED BY <1>1, <1>2, <1>3, Modes DEF NextIs

\* Both entries answer the replay's two requests.
LEMMA BothPassed ==
    ASSUME NEW ch, NEW mid, NEW s, NEW kind, NextIs(ch, s, kind), ChooserType(mid),
           Passed(ch, mid, s), s + 1 <= Len(ch.log),
           NEW vector, ch.log[s + 1] = Entry("vector", vector), NEW live
    PROVE  /\ Choose(mid, "vector", live).fault = None
           /\ Choose(mid, "vector", live).idx = s + 2
<1>1. s \in Nat \ {0} /\ Len(ch.log) \in Nat
  BY DEF NextIs, ChooserType, Choosers
<1>2. mid.idx = s + 1 /\ mid.log = ch.log /\ mid.mode = "replay" /\ mid.fault = None
  BY DEF Passed
<1>3. NextIs(mid, mid.idx, "vector")
  BY <1>1, <1>2 DEF NextIs, Entry
<1>4. Passed(mid, Choose(mid, "vector", live), mid.idx)
  BY <1>3, ReplayChoose
<1> QED BY <1>1, <1>2, <1>4 DEF Passed

(***************************************************************************)
(* Every step keeps the replay exact.                                      *)
(***************************************************************************)
LEMMA ClockReadExact ==
    ASSUME ReplayInv, ExactInv, NEW c \in Cores, ClockRead(c)
    PROVE  ExactInv'
<1>1. PICK v \in Values :
          /\ MayAsk(c, "clock", v, FALSE)
          /\ chooser' = Choose(chooser, "clock", v)
          /\ Told(c, "clock", Answer(chooser, "clock", v).val)
          /\ UNCHANGED input
  BY DEF ClockRead
<1>2. /\ v \in Logged /\ "clock" \in Kinds /\ "clock" \in Asked
      /\ chooser.fault = None /\ ~ over
  BY <1>1 DEF Logged, Kinds, Asked, MayAsk, Running
<1>3. /\ ChooserType(chooser') /\ chooser'.mode = chooser.mode
      /\ chooser.mode = "replay" => chooser'.log = chooser.log
  BY <1>1, <1>2, ChooseKeeps DEF ReplayInv
<1>4. CASE Recording
  <2>1. /\ Answer(chooser, "clock", v).val = v
        /\ chooser'.log = Append(chooser.log, Entry("clock", v))
    BY <1>1, <1>2, <1>4, Modes, RecordChoose DEF Entry
  <2>2. Grows("clock", v, chooser.log, chooser'.log)
    BY <1>2, <2>1, Modes, OneEntryFits
  <2>3. Told(c, "clock", v) /\ input'.seq = input.seq
    BY <1>1, <2>1
  <2> QED BY <1>2, <1>3, <1>4, <2>2, <2>3, Modes, RecordStep
<1>5. CASE Replaying
  <2> DEFINE answer == Answer(chooser, "clock", v).val
  <2>1. ASSUME NEW u, NEW t, Answers(c, "clock", v, FALSE, u, t)
        PROVE  Answered(c, "clock", answer, t)
    <3>1. /\ NextIs(chooser, u, "clock") /\ t = u + 1
          /\ chooser.log[u] = Entry("clock", Due(c).val)
      BY <1>2, <1>5, <2>1, OneAnswers
    <3>2. Passed(chooser, chooser', u) /\ answer = Due(c).val
      BY <1>1, <3>1, ReplayChoose DEF Entry
    <3> HIDE DEF answer
    <3> QED BY <1>1, <3>1, <3>2 DEF Passed, Answered
  <2>2. MayAsk(c, "clock", v, FALSE) /\ Told(c, "clock", answer)
    BY <1>1
  <2>3. chooser'.mode = "replay" /\ chooser'.log = chooser.log
    BY <1>3, <1>5, Modes
  <2> HIDE DEF answer
  <2> QED BY <1>2, <1>5, <2>1, <2>2, <2>3, ReplayStep
<1> QED BY <1>4, <1>5, Modes

LEMMA CompletionExact ==
    ASSUME ReplayInv, ExactInv, NEW c \in Cores, Completion(c)
    PROVE  ExactInv'
<1>1. PICK v \in Values :
          /\ MayAsk(c, "blk", v, TRUE)
          /\ chooser' = Choose(ChooseChecked(chooser, "blk", v), "vector", 1)
          /\ Told(c, "blk", Answer(chooser, "blk", v).val)
          /\ UNCHANGED input
  BY DEF Completion
<1>2. /\ v \in Logged /\ {"blk", "vector"} \subseteq Kinds /\ "blk" \in Asked /\ 1 \in Logged
      /\ chooser.fault = None /\ ~ over
  BY <1>1 DEF Logged, Kinds, Asked, MayAsk, Running
<1> DEFINE mid == ChooseChecked(chooser, "blk", v)
<1>3. /\ ChooserType(mid) /\ Follows(mid) /\ mid.mode = chooser.mode
      /\ chooser.mode = "replay" => mid.log = chooser.log
  BY <1>2, CheckedKeeps DEF ReplayInv
<1>4. chooser' = Choose(mid, "vector", 1)
  BY <1>1
<1>5. /\ ChooserType(chooser') /\ chooser'.mode = chooser.mode
      /\ chooser.mode = "replay" => chooser'.log = chooser.log
  <2> HIDE DEF mid
  <2> QED BY <1>2, <1>3, <1>4, ChooseKeeps
<1>6. CASE Recording
  <2>1. /\ Answer(chooser, "blk", v).val = v
        /\ mid.log = Append(chooser.log, Entry("blk", v))
        /\ mid.mode = "record" /\ mid.fault = None
    BY <1>2, <1>6, Modes, RecordChoose DEF Entry
  <2> HIDE DEF mid
  <2>2. chooser'.log = Append(Append(chooser.log, Entry("blk", v)), Entry("vector", 1))
    BY <1>2, <1>3, <1>4, <2>1, RecordChoose, SMTT(30)
  <2>3. Grows("blk", v, chooser.log, chooser'.log)
    <3>1. chooser.log \in Seq(LogEntry) /\ Raises("blk", v, 1)
      BY Modes DEF Raises
    <3> QED BY <1>2, <2>2, <3>1, TwoEntriesFit, Zenon
  <2>4. Told(c, "blk", v) /\ input'.seq = input.seq
    BY <1>1, <2>1
  <2> QED BY <1>2, <1>5, <1>6, <2>3, <2>4, Modes, RecordStep
<1>7. CASE Replaying
  <2> DEFINE answer == Answer(chooser, "blk", v).val
  <2>1. ASSUME NEW u, NEW t, Answers(c, "blk", v, TRUE, u, t)
        PROVE  Answered(c, "blk", answer, t)
    <3>1. /\ NextIs(chooser, u, "blk") /\ t = u + 2 /\ u + 1 <= Len(chooser.log)
          /\ chooser.log[u] = Entry("blk", Due(c).val)
          /\ chooser.log[u + 1] = Entry("vector", 1)
      BY <1>2, <1>7, <2>1, CompletionAnswer
    <3>2. Due(c).val = v
      BY <2>1 DEF Answers
    <3>3. Passed(chooser, mid, u) /\ answer = Due(c).val
      BY <3>1, <3>2, ReplayChecked, ReplayChoose DEF Entry
    <3> HIDE DEF mid, answer
    <3>4. chooser'.fault = None /\ chooser'.idx = u + 2
      BY <1>3, <1>4, <3>1, <3>3, BothPassed
    <3> QED BY <1>1, <3>1, <3>3, <3>4 DEF Answered
  <2>2. MayAsk(c, "blk", v, TRUE) /\ Told(c, "blk", answer)
    BY <1>1
  <2>3. chooser'.mode = "replay" /\ chooser'.log = chooser.log
    BY <1>5, <1>7, Modes
  <2> HIDE DEF answer
  <2> QED BY <1>2, <1>7, <2>1, <2>2, <2>3, ReplayStep
<1> QED BY <1>6, <1>7, Modes

LEMMA DeadlineWakeExact ==
    ASSUME ReplayInv, ExactInv, NEW c \in Cores, DeadlineWake(c)
    PROVE  ExactInv'
<1>1. /\ MayAsk(c, "deadline", 1, TRUE)
      /\ chooser' = Choose(Choose(chooser, "deadline", 1), "vector", 0)
      /\ Told(c, "deadline", 1)
      /\ UNCHANGED input
  BY DEF DeadlineWake
<1>2. /\ {"deadline", "vector"} \subseteq Kinds /\ "deadline" \in Asked
      /\ 0 \in Logged /\ 1 \in Logged /\ chooser.fault = None /\ ~ over
  BY <1>1 DEF Logged, Kinds, Asked, MayAsk, Running
<1> DEFINE mid == Choose(chooser, "deadline", 1)
<1>3. /\ ChooserType(mid) /\ Follows(mid) /\ mid.mode = chooser.mode
      /\ chooser.mode = "replay" => mid.log = chooser.log
  BY <1>2, ChooseKeeps DEF ReplayInv
<1>4. chooser' = Choose(mid, "vector", 0)
  BY <1>1
<1>5. /\ ChooserType(chooser') /\ chooser'.mode = chooser.mode
      /\ chooser.mode = "replay" => chooser'.log = chooser.log
  <2> HIDE DEF mid
  <2> QED BY <1>2, <1>3, <1>4, ChooseKeeps
<1>6. CASE Recording
  <2>1. /\ mid.log = Append(chooser.log, Entry("deadline", 1))
        /\ mid.mode = "record" /\ mid.fault = None
    BY <1>2, <1>6, Modes, RecordChoose
  <2> HIDE DEF mid
  <2>2. chooser'.log = Append(Append(chooser.log, Entry("deadline", 1)), Entry("vector", 0))
    BY <1>2, <1>3, <1>4, <2>1, RecordChoose
  <2>3. Grows("deadline", 1, chooser.log, chooser'.log)
    <3>1. chooser.log \in Seq(LogEntry) /\ Raises("deadline", 1, 0)
      BY Modes DEF Raises
    <3> QED BY <1>2, <2>2, <3>1, TwoEntriesFit, Zenon
  <2>4. input'.seq = input.seq
    BY <1>1
  <2> QED BY <1>1, <1>2, <1>5, <1>6, <2>3, <2>4, Modes, RecordStep
<1>7. CASE Replaying
  <2>1. ASSUME NEW u, NEW t, Answers(c, "deadline", 1, TRUE, u, t)
        PROVE  Answered(c, "deadline", 1, t)
    <3>1. /\ NextIs(chooser, u, "deadline") /\ t = u + 2 /\ u + 1 <= Len(chooser.log)
          /\ chooser.log[u + 1] = Entry("vector", 0) /\ Due(c).val = 1
      BY <1>2, <1>7, <2>1, DeadlineAnswer
    <3>2. Passed(chooser, mid, u)
      BY <3>1, ReplayChoose
    <3> HIDE DEF mid
    <3>3. chooser'.fault = None /\ chooser'.idx = u + 2
      BY <1>3, <1>4, <3>1, <3>2, BothPassed
    <3> QED BY <1>1, <3>1, <3>3 DEF Answered
  <2>2. chooser'.mode = "replay" /\ chooser'.log = chooser.log
    BY <1>5, <1>7, Modes
  <2> QED BY <1>1, <1>2, <1>7, <2>1, <2>2, ReplayStep
<1> QED BY <1>6, <1>7, Modes

LEMMA PresentExact ==
    ASSUME ReplayInv, ExactInv, NEW c \in Cores, Present(c)
    PROVE  ExactInv'
<1>1. PICK v \in Values :
          /\ MayAsk(c, "frame", v, TRUE)
          /\ chooser' = ChooseChecked(chooser, "frame", v)
          /\ Told(c, "frame", v)
          /\ UNCHANGED input
  BY DEF Present
<1>2. /\ v \in Logged /\ "frame" \in Kinds /\ "frame" \in Asked
      /\ chooser.fault = None /\ ~ over
  BY <1>1 DEF Logged, Kinds, Asked, MayAsk, Running
<1>3. /\ ChooserType(chooser') /\ chooser'.mode = chooser.mode
      /\ chooser.mode = "replay" => chooser'.log = chooser.log
  BY <1>1, <1>2, CheckedKeeps DEF ReplayInv
<1>4. CASE Recording
  <2>1. chooser'.log = Append(chooser.log, Entry("frame", v))
    BY <1>1, <1>2, <1>4, Modes, RecordChoose
  <2>2. Grows("frame", v, chooser.log, chooser'.log)
    BY <1>2, <2>1, Modes, OneEntryFits
  <2>3. input'.seq = input.seq
    BY <1>1
  <2> QED BY <1>1, <1>2, <1>3, <1>4, <2>2, <2>3, Modes, RecordStep
<1>5. CASE Replaying
  <2>1. ASSUME NEW u, NEW t, Answers(c, "frame", v, TRUE, u, t)
        PROVE  Answered(c, "frame", v, t)
    <3>1. /\ NextIs(chooser, u, "frame") /\ t = u + 1
          /\ chooser.log[u] = Entry("frame", Due(c).val)
      BY <1>2, <1>5, <2>1, OneAnswers
    <3>2. Due(c).val = v
      BY <2>1 DEF Answers
    <3>3. Passed(chooser, chooser', u)
      BY <1>1, <3>1, <3>2, ReplayChecked DEF Entry
    <3> QED BY <1>1, <3>1, <3>2, <3>3 DEF Passed, Answered
  <2>2. chooser'.mode = "replay" /\ chooser'.log = chooser.log
    BY <1>3, <1>5, Modes
  <2> QED BY <1>1, <1>2, <1>5, <2>1, <2>2, ReplayStep
<1> QED BY <1>4, <1>5, Modes

LEMMA InputStatusExact ==
    ASSUME ReplayInv, ExactInv, NEW c \in Cores, InputStatus(c)
    PROVE  ExactInv'
<1> DEFINE pending == IF Replaying THEN InputPending(chooser) ELSE Polled.queue > 0
<1>1. /\ MayAsk(c, "status", pending, FALSE)
      /\ input' = IF Recording /\ ~Overfull THEN Polled ELSE input
      /\ chooser' = IF Recording /\ Overfull THEN Fail(chooser, "full") ELSE chooser
      /\ Told(c, "status", pending)
  BY DEF InputStatus
<1>2. pending \in BOOLEAN
  <2>1. InputPending(chooser) \in BOOLEAN
    BY DEF InputPending, InputAt
  <2>2. (Polled.queue > 0) \in BOOLEAN
    OBVIOUS
  <2> QED BY <2>1, <2>2
<1>3. Replaying => pending = InputAt(chooser.log, chooser.idx)
  BY DEF InputPending
<1> HIDE DEF pending
<1>4. "full" \in Faults /\ "status" \in Asked /\ chooser.fault = None /\ ~ over
  BY <1>1 DEF Faults, Asked, MayAsk, Running
<1>5. CASE Recording /\ Overfull
  <2>1. ChooserType(chooser') /\ chooser'.mode = "record" /\ chooser'.fault # None
    BY <1>1, <1>4, <1>5, Modes, FailKeeps
  <2> QED BY <1>1, <1>2, <1>4, <1>5, <2>1, RecordStep
<1>6. CASE Recording /\ ~ Overfull
  <2>1. chooser' = chooser /\ input'.seq = input.seq
    BY <1>1, <1>6, PolledType
  <2>2. Grows("status", pending, chooser.log, chooser'.log)
    <3>1. chooser.log \in Seq(LogEntry)
      BY Modes
    <3>2. Grows("status", pending, chooser.log, chooser.log)
      BY <3>1, NoEntryFits
    <3> QED BY <2>1, <3>2
  <2>3. ChooserType(chooser') /\ chooser'.mode = "record"
    BY <1>6, <2>1, Modes
  <2> QED BY <1>1, <1>2, <1>4, <1>6, <2>1, <2>2, <2>3, RecordStep
<1>7. CASE Replaying
  <2>1. chooser' = chooser /\ input' = input
    BY <1>1, <1>7, Modes
  <2>2. \A u, t : Answers(c, "status", pending, FALSE, u, t) =>
                      Answered(c, "status", pending, t)
    BY <1>3, <1>4, <1>7, <2>1 DEF Answers, Answered
  <2>3. chooser'.mode = "replay" /\ chooser'.log = chooser.log
    BY <1>7, <2>1, Modes
  <2> QED BY <1>1, <1>4, <1>7, <2>2, <2>3, ReplayStep
<1> QED BY <1>5, <1>6, <1>7, Modes

LEMMA InputEventExact ==
    ASSUME ReplayInv, ExactInv, NEW c \in Cores, InputEvent(c)
    PROVE  ExactInv'
<1> DEFINE empty == IF Replaying THEN ~InputPending(chooser) ELSE Polled.queue = 0
           event == Answer(chooser, "input", input.seq).val
           chosen == Choose(chooser, "input", input.seq)
<1>1. /\ MayAsk(c, "input", input.seq, FALSE)
      /\ IF Recording /\ Overfull
         THEN chooser' = Fail(chooser, "full") /\ UNCHANGED input
         ELSE IF empty
         THEN chooser' = Fail(chooser, "empty") /\ UNCHANGED input
         ELSE /\ chooser' = IF event = input.seq THEN chosen ELSE Fail(chosen, "sequence")
              /\ input' = [Polled EXCEPT !.seq = @ + 1,
                                         !.queue = IF Replaying THEN @ ELSE @ - 1]
      /\ Told(c, "input", event)
  BY DEF InputEvent
<1>2. /\ input.seq \in Logged /\ input.seq \in Nat /\ "input" \in Kinds /\ "input" \in Asked
      /\ {"full", "empty", "sequence"} \subseteq Faults
      /\ chooser.fault = None /\ ~ over
  BY <1>1 DEF Logged, Kinds, Asked, Faults, ReplayInv, InputType, MayAsk, Running
<1>3. /\ ChooserType(chosen) /\ chosen.mode = chooser.mode
      /\ chooser.mode = "replay" => chosen.log = chooser.log
  BY <1>2, ChooseKeeps DEF ReplayInv
<1>4. Recording => /\ event = input.seq /\ chosen.log = Append(chooser.log, Entry("input", input.seq))
                   /\ chosen.fault = None
  BY <1>2, Modes, RecordChoose DEF Entry
<1>5. event \in Logged
  BY <1>2, AnswerType DEF ReplayInv
<1>6. Replaying => empty = ~ InputPending(chooser)
  OBVIOUS
<1>7. Replaying \/ ~ Overfull =>
          [Polled EXCEPT !.seq = @ + 1, !.queue = IF Replaying THEN @ ELSE @ - 1].seq = input.seq + 1
  <2>1. Replaying \/ ~ Overfull =>
            /\ Polled \in [lines : Nat, queue : 0 .. QueueCapacity, seq : Nat]
            /\ Polled.seq = input.seq
    BY PolledType
  <2> QED BY <2>1
<1> DEFINE next == [Polled EXCEPT !.seq = @ + 1, !.queue = IF Replaying THEN @ ELSE @ - 1]
<1> HIDE DEF empty, event, chosen, next
<1>8. /\ \/ Recording /\ Overfull /\ chooser' = Fail(chooser, "full")
         \/ ~ (Recording /\ Overfull) /\ empty /\ chooser' = Fail(chooser, "empty")
         \/ /\ ~ (Recording /\ Overfull) /\ ~ empty /\ event = input.seq
            /\ chooser' = chosen /\ input' = next
         \/ /\ ~ (Recording /\ Overfull) /\ ~ empty /\ event # input.seq
            /\ chooser' = Fail(chosen, "sequence")
  BY <1>1 DEF next
<1>9. /\ ChooserType(chooser') /\ chooser'.mode = chooser.mode
      /\ chooser.mode = "replay" => chooser'.log = chooser.log
      /\ Recording /\ chooser'.fault = None =>
             ~ Overfull /\ chooser' = chosen /\ input' = next
  <2>1. CASE Recording /\ Overfull /\ chooser' = Fail(chooser, "full")
    BY <1>2, <2>1, Modes, FailKeeps
  <2>2. CASE ~ (Recording /\ Overfull) /\ empty /\ chooser' = Fail(chooser, "empty")
    BY <1>2, <2>2, Modes, FailKeeps
  <2>3. CASE /\ ~ (Recording /\ Overfull) /\ ~ empty /\ event = input.seq
             /\ chooser' = chosen /\ input' = next
    BY <1>3, <2>3
  <2>4. CASE /\ ~ (Recording /\ Overfull) /\ ~ empty /\ event # input.seq
             /\ chooser' = Fail(chosen, "sequence")
    <3>1. chosen.mode # "record" /\ ~ Recording
      BY <1>3, <1>4, <2>4, Modes
    <3> QED BY <1>2, <1>3, <2>4, <3>1, FailKeeps
  <2> QED BY <1>8, <2>1, <2>2, <2>3, <2>4
<1>10. CASE Recording
  <2>1. Told(c, "input", input.seq)
    BY <1>1, <1>4, <1>10
  <2>2. ASSUME chooser'.fault = None
        PROVE  /\ Grows("input", input.seq, chooser.log, chooser'.log)
               /\ input'.seq = input.seq + 1
    <3> DEFINE log == chooser.log
               more == chooser'.log
    <3>1. log \in Seq(LogEntry) /\ more = Append(log, Entry("input", input.seq))
      BY <1>4, <1>9, <1>10, <2>2, Modes
    <3>2. input'.seq = input.seq + 1
      BY <1>7, <1>9, <1>10, <2>2 DEF next
    <3> HIDE DEF log, more
    <3>3. Grows("input", input.seq, log, more)
      BY <1>2, <3>1, OneEntryFits
    <3> QED BY <3>2, <3>3 DEF log, more
  <2> QED BY <1>2, <1>9, <1>10, <2>1, <2>2, Modes, RecordStep DEF Grows
<1>11. CASE Replaying
  <2> DEFINE live == input.seq
  <2>1. ASSUME NEW u, NEW t, Answers(c, "input", live, FALSE, u, t)
        PROVE  Answered(c, "input", event, t)
    <3>1. /\ NextIs(chooser, u, "input") /\ t = u + 1
          /\ chooser.log[u] = Entry("input", Due(c).val)
      BY <1>2, <1>11, <2>1, OneAnswers
    <3>2. Due(c).val = input.seq /\ InputPending(chooser)
      BY <2>1 DEF Answers, InputPending
    <3>3. Passed(chooser, chosen, u) /\ event = input.seq
      BY <3>1, <3>2, ReplayChoose DEF chosen, event, Entry
    <3>4. chooser' = chosen /\ input' = next
      BY <1>6, <1>8, <1>11, <3>2, <3>3, Modes
    <3> QED BY <1>7, <1>11, <3>1, <3>2, <3>3, <3>4 DEF Passed, next, Answered
  <2>2. MayAsk(c, "input", live, FALSE) /\ Told(c, "input", event)
    BY <1>1
  <2>3. chooser'.mode = "replay" /\ chooser'.log = chooser.log
    BY <1>9, <1>11, Modes
  <2> HIDE DEF live
  <2> QED BY <1>2, <1>11, <2>1, <2>2, <2>3, ReplayStep
<1> QED BY <1>10, <1>11, Modes

\* An admission more: the log's tail grows, and a replay that has it left over
\* neither moves nor diverges.
LEMMA CommitExact ==
    ASSUME ReplayInv, ExactInv, NEW c \in Cores, Commit(c)
    PROVE  ExactInv'
<1>1. PICK p \in Pairs :
        /\ MayHalt(c) \/ \E d \in Cores : MayYield(c, d)
        /\ chooser' = Admit(chooser, p)
        /\ drift' = IF Replaying /\ chooser.bag[p] = 0
                    THEN drift \cup {"admission"} ELSE drift
        /\ UNCHANGED <<input, over, did, pos, asked, same>>
  BY DEF Commit
<1>2. chooser.fault = None
  BY <1>1 DEF MayHalt, MayYield, MayAsk, Running
<1>3. /\ ChooserType(chooser') /\ chooser'.mode = chooser.mode
      /\ chooser.mode = "replay" => chooser'.log = chooser.log
      /\ chooser.mode = "replay" /\ chooser.bag[p] > 0 =>
             chooser'.fault = None /\ chooser'.idx = chooser.idx
  BY <1>1, <1>2, AdmitKeeps DEF ReplayInv
<1>4. CASE Recording
  <2> DEFINE e == Entry("admission", p)
             log == chooser.log
             more == chooser'.log
  <2>1. e \in LogEntry /\ e.kind = "admission"
    BY EntryType DEF Entry, Kinds, Logged
  <2>2. chooser' = Keep(chooser, e)
    BY <1>1, <1>2, <1>4, Modes DEF Admit
  <2> HIDE DEF e
  <2>3. chooser' = [chooser EXCEPT !.log = Append(chooser.log, e)]
    BY <1>4, <2>1, <2>2, Modes, RecorderKeeps
  <2>4. more = Append(log, e) /\ log \in Seq(LogEntry)
    BY <2>3, Modes DEF ChooserType, Choosers
  <2>5. LaidOut(did, log, asked, input.seq) /\ same /\ drift = {} /\ \A d \in Cores : pos[d] = 0
    BY <1>2, <1>4 DEF ExactInv
  <2>6. PICK start \in [0 .. asked -> Nat \ {0}], seqs \in [0 .. asked -> Nat] :
            /\ Layout(did, log, start, seqs, asked)
            /\ Trailing(log, start[asked]) /\ seqs[asked] = input.seq
    BY <2>5 DEF LaidOut
  <2>7. Recording' /\ ~ Replaying' /\ drift' = drift
    BY <1>1, <1>3, <1>4, Modes DEF Recording, Replaying
  <2> HIDE DEF log, more
  <2>8. /\ Len(more) = Len(log) + 1 /\ more \in Seq(LogEntry) /\ Len(log) \in Nat
        /\ \A i \in 1 .. Len(log) : more[i] = log[i]
        /\ more[Len(log) + 1] = e
    BY <2>1, <2>4, OneMore
  <2>9. Layout(did, more, start, seqs, asked)
    <3>1. ExitType /\ Len(log) <= Len(more)
      BY <2>8 DEF ReplayInv
    <3> QED BY <2>4, <2>6, <2>8, <3>1, LayoutGrows
  <2>10. Trailing(more, start[asked])
    <3>1. PICK s \in Nat \ {0} : s = start[asked]
      BY DEF ReplayInv, ExitType
    <3>2. \A i \in s .. Len(more) :
              \/ i \in s .. Len(log) /\ i \in 1 .. Len(log)
              \/ i = Len(log) + 1
      BY <2>8
    <3> QED BY <2>1, <2>6, <2>8, <3>1, <3>2 DEF Trailing
  <2>11. LaidOut(did, more, asked, input.seq)
    BY <2>6, <2>9, <2>10 DEF LaidOut
  <2>12. LaidOut(did, chooser.log, asked, input.seq)'
    BY <1>1, <2>11 DEF more
  <2> QED BY <1>1, <2>5, <2>7, <2>12 DEF ExactInv
<1>5. CASE Replaying
  <2>1. chooser'.log = chooser.log /\ ~ Recording' /\ Replaying'
    BY <1>3, <1>5, Modes DEF Recording, Replaying
  <2> SUFFICES ASSUME drift' = {}, InputImplied'
               PROVE  same' /\ chooser'.fault = None /\ ReplayedSoFar'
    BY <2>1 DEF ExactInv
  <2>2. drift = {} /\ InputImplied
    BY <1>1, <2>1 DEF InputImplied
  <2>3. same /\ ReplayedSoFar
    BY <1>5, <2>2 DEF ExactInv
  <2>4. chooser.bag[p] > 0
    <3>1. chooser.bag[p] # 0
      BY <1>1, <1>5
    <3> QED BY <3>1 DEF ReplayInv, ChooserType, Choosers
  <2>5. chooser'.fault = None /\ chooser'.idx = chooser.idx
    BY <1>3, <1>5, <2>4, Modes
  <2> QED BY <1>1, <2>1, <2>3, <2>5 DEF ReplayedSoFar, Repeated
<1> QED BY <1>4, <1>5, Modes

LEMMA YieldExact ==
    ASSUME ReplayInv, ExactInv, NEW c \in Cores, Yield(c)
    PROVE  ExactInv'
<1>1. PICK d \in Cores :
        /\ MayYield(c, d)
        /\ chooser' = Choose(chooser, "progress", d)
        /\ Told(c, "progress", Answer(chooser, "progress", d).val)
        /\ UNCHANGED input
  BY DEF Yield
<1>2. MayAsk(c, "progress", d, FALSE)
  BY <1>1 DEF MayYield
<1>3. /\ d \in Logged /\ "progress" \in Kinds /\ "progress" \in Asked
      /\ chooser.fault = None /\ ~ over
  BY <1>2 DEF Logged, Kinds, Asked, MayAsk, Running
<1>4. /\ ChooserType(chooser') /\ chooser'.mode = chooser.mode
      /\ chooser.mode = "replay" => chooser'.log = chooser.log
  BY <1>1, <1>3, ChooseKeeps DEF ReplayInv
<1>5. CASE Recording
  <2>1. /\ Answer(chooser, "progress", d).val = d
        /\ chooser'.log = Append(chooser.log, Entry("progress", d))
    BY <1>1, <1>3, <1>5, Modes, RecordChoose DEF Entry
  <2>2. Grows("progress", d, chooser.log, chooser'.log)
    BY <1>3, <2>1, Modes, OneEntryFits
  <2>3. Told(c, "progress", d) /\ input'.seq = input.seq
    BY <1>1, <2>1
  <2> QED BY <1>3, <1>4, <1>5, <2>2, <2>3, Modes, RecordStep
<1>6. CASE Replaying
  <2> DEFINE answer == Answer(chooser, "progress", d).val
  <2>1. ASSUME NEW u, NEW t, Answers(c, "progress", d, FALSE, u, t)
        PROVE  Answered(c, "progress", answer, t)
    <3>1. /\ NextIs(chooser, u, "progress") /\ t = u + 1
          /\ chooser.log[u] = Entry("progress", Due(c).val)
      BY <1>3, <1>6, <2>1, OneAnswers
    <3>2. Passed(chooser, chooser', u) /\ answer = Due(c).val
      BY <1>1, <3>1, ReplayChoose DEF Entry
    <3> HIDE DEF answer
    <3> QED BY <1>1, <3>1, <3>2 DEF Passed, Answered
  <2>2. Told(c, "progress", answer)
    BY <1>1
  <2>3. chooser'.mode = "replay" /\ chooser'.log = chooser.log
    BY <1>4, <1>6, Modes
  <2> HIDE DEF answer
  <2> QED BY <1>2, <1>3, <1>6, <2>1, <2>2, <2>3, ReplayStep
<1> QED BY <1>5, <1>6, Modes

LEMMA HaltExact ==
    ASSUME ReplayInv, ExactInv, NEW c \in Cores, Halt(c)
    PROVE  ExactInv'
<1>1. /\ MayAsk(c, "halt", 0, TRUE) /\ Told(c, "halt", 0)
      /\ UNCHANGED <<input, chooser>>
  BY DEF Halt, MayHalt
<1>2. chooser.fault = None /\ ~ over /\ "halt" \in Asked /\ 0 \in Logged
  BY <1>1 DEF MayAsk, Running, Asked, Logged
<1>3. CASE Recording
  <2>1. Grows("halt", 0, chooser.log, chooser'.log)
    BY <1>1, Modes, NoEntryFits
  <2> QED BY <1>1, <1>2, <1>3, <2>1, Modes, RecordStep
<1>4. CASE Replaying
  <2>1. \A u, t : Answers(c, "halt", 0, TRUE, u, t) => Answered(c, "halt", 0, t)
    BY <1>1, <1>2 DEF Answers, Answered
  <2> QED BY <1>1, <1>2, <1>4, <2>1, Modes, ReplayStep
<1> QED BY <1>3, <1>4, Modes

LEMMA ExactStays ==
    ASSUME ExactInv, input'.seq = input.seq,
           UNCHANGED <<chooser, over, did, pos, asked, same, drift>>
    PROVE  ExactInv'
<1>1. LaidOut(did, chooser.log, asked, input.seq)' = LaidOut(did, chooser.log, asked, input.seq)
  OBVIOUS
<1>2. ReplayedSoFar => ReplayedSoFar'
  BY DEF ReplayedSoFar, Repeated
<1>3. InputImplied' = InputImplied
  BY DEF InputImplied
<1> QED BY <1>1, <1>2, <1>3 DEF ExactInv, Recording, Replaying

\* The recording becomes the log of a replay at its start; a replay of all
\* exits has used its log up.
LEMMA EndExact ==
    ASSUME ReplayInv, ExactInv, End
    PROVE  ExactInv'
<1>1. /\ ~ over /\ chooser.fault = None /\ UNCHANGED <<did, pos, same>>
      /\ Recording =>
            /\ chooser' = IF Overfull THEN Fail(chooser, "full")
                          ELSE Replayer(chooser.log)
            /\ asked' = 0 /\ input' = NoInput /\ UNCHANGED <<over, drift>>
      /\ ~ Recording =>
            /\ chooser' = Finish(chooser) /\ over' = TRUE
            /\ drift' = IF same /\ \E c \in Cores : ~Past(c)
                        THEN drift \cup {"end"} ELSE drift
            /\ UNCHANGED asked
  BY DEF End
<1>2. CASE Recording /\ Overfull
  <2>1. "full" \in Faults
    BY DEF Faults
  <2>2. chooser' = Fail(chooser, "full") /\ UNCHANGED drift
    BY <1>1, <1>2
  <2>3. chooser'.fault # None /\ chooser'.mode = "record"
    BY <1>1, <1>2, <2>1, <2>2, Modes, FailKeeps
  <2> QED BY <1>1, <1>2, <2>2, <2>3 DEF ExactInv, Recording, Replaying
<1>3. CASE Recording /\ ~ Overfull
  <2> DEFINE log == chooser.log
  <2>1. /\ chooser' = Replayer(log) /\ asked' = 0 /\ input' = NoInput
        /\ UNCHANGED <<over, drift>>
    BY <1>1, <1>3
  <2>2. /\ log \in Seq(LogEntry)
        /\ \A i \in DOMAIN log : log[i].kind = "progress" => log[i].val \in Cores
    BY DEF ReplayInv, ChooserType, Choosers
  <2>3. /\ chooser'.mode = "replay" /\ chooser'.log = log /\ chooser'.idx = 1
        /\ chooser'.fault = None
    BY <2>1, <2>2, ReplayerType
  <2>4. /\ same /\ drift = {} /\ (\A c \in Cores : pos[c] = 0)
        /\ LaidOut(did, log, asked, input.seq) /\ asked \in Nat
    BY <1>1, <1>3 DEF ExactInv, ReplayInv, ExitType
  <2> PICK last \in Nat : last = asked
    BY <2>4
  <2>5. PICK start \in [0 .. last -> Nat \ {0}], seqs \in [0 .. last -> Nat] :
            Layout(did, log, start, seqs, last) /\ Trailing(log, start[last])
    BY <2>4 DEF LaidOut
  <2>6. start[0] = 1 /\ seqs[0] = 0
    BY <2>5 DEF Layout
  <2> HIDE DEF log
  <2>7. Place(log, 1, 1)
    BY DEF Place
  <2>8. Repeated(start, seqs, last)'
    <3>1. 0 <= last /\ input'.seq = seqs[0] /\ Place(log, 1, start[0])
      BY <2>1, <2>4, <2>6, <2>7 DEF NoInput
    <3>2. \A c \in Cores : \A j \in 1 .. pos'[c] : FALSE
      BY <1>1, <2>4
    <3>3. asked' <= last /\ Place(chooser'.log, chooser'.idx, start[asked'])
          /\ input'.seq = seqs[asked']
      BY <2>1, <2>3, <3>1
    <3> QED BY <3>2, <3>3 DEF Repeated
  <2>9. ReplayedSoFar'
    <3>1. Layout(did', chooser'.log, start, seqs, last) /\ Trailing(chooser'.log, start[last])
      BY <1>1, <2>3, <2>5
    <3> QED BY <2>8, <3>1 DEF ReplayedSoFar
  <2> QED BY <1>1, <2>1, <2>3, <2>4, <2>9 DEF ExactInv, Recording, Replaying
<1>4. CASE Replaying
  <2>1. /\ chooser' = Finish(chooser) /\ over' = TRUE /\ UNCHANGED <<did, same, asked>>
        /\ drift' = IF same /\ \E c \in Cores : ~Past(c)
                    THEN drift \cup {"end"} ELSE drift
    BY <1>1, <1>4, Modes
  <2>2. chooser'.mode = "replay" /\ chooser'.log = chooser.log
    <3>1. "overrun" \in Faults
      BY DEF Faults
    <3>2. chooser' = chooser \/ chooser' = Fail(chooser, "overrun")
      BY <2>1 DEF Finish
    <3> QED BY <1>4, <3>1, <3>2, Modes, FailKeeps
  <2> SUFFICES ASSUME drift' = {}, InputImplied'
               PROVE  same' /\ chooser'.fault = None /\ ReplayedSoFar'
    BY <2>2 DEF ExactInv, Recording, Replaying
  <2>3. drift = {} /\ InputImplied
    BY <2>1, <2>2 DEF InputImplied
  <2>4. same /\ ReplayedSoFar /\ \A c \in Cores : Past(c)
    BY <1>4, <2>1, <2>3 DEF ExactInv
  <2>5. PICK last \in Nat :
            \E start \in [0 .. last -> Nat \ {0}], seqs \in [0 .. last -> Nat] :
                /\ Layout(did, chooser.log, start, seqs, last)
                /\ Trailing(chooser.log, start[last]) /\ Repeated(start, seqs, last)
    BY <1>1, <2>4 DEF ReplayedSoFar
  <2>6. PICK start \in [0 .. last -> Nat \ {0}], seqs \in [0 .. last -> Nat] :
            /\ Layout(did, chooser.log, start, seqs, last)
            /\ Trailing(chooser.log, start[last]) /\ Repeated(start, seqs, last)
    BY <2>5
  <2>7. asked = last
    <3>1. asked \in Nat /\ asked <= last
      BY <2>6 DEF Repeated, ReplayInv, ExitType
    <3>2. ASSUME asked # last PROVE FALSE
      <4>1. asked \in 0 .. last - 1
        BY <3>1, <3>2
      <4>2. PICK c \in Cores : \E j \in DOMAIN did[c] : did[c][j].n = asked
        BY <2>6, <4>1 DEF Layout
      <4>3. PICK j \in DOMAIN did[c] : did[c][j].n = asked
        BY <4>2
      <4>4. j \in 1 .. pos[c]
        BY <2>4, <4>3 DEF Past, ReplayInv, ExitType
      <4>5. did[c][j].n < asked
        BY <2>6, <4>4 DEF Repeated
      <4> QED BY <3>1, <4>3, <4>5
    <3> QED BY <3>2
  <2>8. \A i \in chooser.idx .. Len(chooser.log) : chooser.log[i].kind = "admission"
    <3>1. PICK s \in Nat \ {0} : s = start[last]
      OBVIOUS
    <3>2. Place(chooser.log, chooser.idx, s) /\ Trailing(chooser.log, s)
      BY <2>6, <2>7, <3>1 DEF Repeated
    <3>3. \A i \in chooser.idx .. Len(chooser.log) :
              i \in chooser.idx .. s - 1 \/ i \in s .. Len(chooser.log)
      BY Modes
    <3> QED BY <3>2, <3>3 DEF Place, Trailing
  <2>9. chooser' = chooser
    BY <2>1, <2>8 DEF Finish
  <2>10. ReplayedSoFar'
    <3>1. Layout(did', chooser'.log, start, seqs, last) /\ Trailing(chooser'.log, start[last])
      BY <2>1, <2>2, <2>6
    <3> QED BY <2>1, <3>1 DEF ReplayedSoFar
  <2> QED BY <1>1, <2>1, <2>4, <2>9, <2>10
<1> QED BY <1>2, <1>3, <1>4, Modes

LEMMA InitExact == Init => ExactInv
<1> SUFFICES ASSUME Init PROVE ExactInv
  OBVIOUS
<1>1. /\ chooser.mode = "record" /\ chooser.log = <<>> /\ same /\ drift = {} /\ asked = 0
      /\ did = [c \in Cores |-> <<>>] /\ input.seq = 0 /\ \A c \in Cores : pos[c] = 0
  BY DEF Init, Recorder, NoInput
<1> DEFINE start == [n \in 0 .. 0 |-> 1]
           seqs == [n \in 0 .. 0 |-> 0]
<1>2. /\ start \in [0 .. 0 -> Nat \ {0}] /\ start[0] = 1
      /\ seqs \in [0 .. 0 -> Nat] /\ seqs[0] = 0
  OBVIOUS
<1> HIDE DEF start, seqs
<1>3. Len(chooser.log) = 0 /\ \A c \in Cores : DOMAIN did[c] = {}
  BY <1>1
<1>4. Layout(did, chooser.log, start, seqs, 0)
  <2>1. \A n \in 0 .. 0 - 1 : FALSE
    OBVIOUS
  <2> QED BY <1>2, <1>3, <2>1 DEF Layout
<1>5. Trailing(chooser.log, start[0])
  BY <1>2, <1>3 DEF Trailing
<1>6. LaidOut(did, chooser.log, 0, 0)
  BY <1>2, <1>4, <1>5 DEF LaidOut
<1> QED BY <1>1, <1>6 DEF ExactInv, Recording, Replaying

LEMMA NextExact ==
    ASSUME ReplayInv, ExactInv, [Next]_vars
    PROVE  ExactInv'
<1>1. CASE Line \/ Done \/ UNCHANGED vars
  <2>1. /\ UNCHANGED <<chooser, over, did, pos, asked, same, drift>>
        /\ input'.seq = input.seq
    BY <1>1 DEF Line, Done, vars, boot, ReplayInv, InputType
  <2> QED BY <2>1, ExactStays
<1>2. CASE End
  BY <1>2, EndExact
<1>3. ASSUME NEW c \in Cores, Exit(c) PROVE ExactInv'
  BY <1>3, ClockReadExact, CompletionExact, DeadlineWakeExact, PresentExact,
     InputStatusExact, InputEventExact, CommitExact, YieldExact, HaltExact DEF Exit
<1> QED BY <1>1, <1>2, <1>3 DEF Next

(* If the cores make the recorded exits in the recorded order and no others, *)
(* no admission is observed that was not recorded, and what the recording    *)
(* told of the input is implied by its log, the replay answers every core as *)
(* the recording did and never takes it for a divergence (Chooser of         *)
(* record.rs, for every guest).                                              *)
THEOREM ReplayExact == Spec => []Reproduced
<1>1. ReplayInv /\ ExactInv /\ [Next]_vars => (ReplayInv /\ ExactInv)'
  BY NextKeeps, NextExact
<1>2. ExactInv => Reproduced
  BY DEF ExactInv, Reproduced
<1> QED BY <1>1, <1>2, InitKeeps, InitExact, PTL DEF Spec
=============================================================================
