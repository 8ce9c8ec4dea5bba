--------------------------- MODULE ActorCalls_proofs ---------------------------
(***************************************************************************)
(* The steps of ActorRuntime implement ActorCalls, for every number of     *)
(* actors and cores, every acyclic handle graph, every placement and every *)
(* capacity; ActorRings_proofs draws the theorem from it.                  *)
(*                                                                         *)
(* The abstract state is read off the boxes of ActorRuntime_proofs: what   *)
(* is posted to an actor lies in its mailbox and the rings to it, what it  *)
(* handles in its turn, and the answers in the reply rings and the turns   *)
(* that are ready.  A step that moves a message between two boxes of one   *)
(* kind is a stutter; PostInv and Ordered make every other one a step of   *)
(* ActorCalls.                                                             *)
(***************************************************************************)
EXTENDS ActorRuntime_proofs

\* The boxes with the messages posted to actor a, and those with replies.
Inbox(a) == {<<"mailbox", a>>} \cup {<<"req", e>> : e \in Cores \X {a}}
ReplyBoxes == {"rep"} \X (Cores \X Cores)

\* The messages in the boxes of a set.
Inside(B, S) == UNION {Held(B, b) : b \in S}
-----------------------------------------------------------------------------
(* The abstract state in terms of the boxes.                               *)

(* Boxes that hold the same messages hold the same together.               *)
LEMMA InsideSame ==
    ASSUME NEW B, NEW C, NEW S, \A d \in S : Held(C, d) = Held(B, d)
    PROVE  Inside(C, S) = Inside(B, S)
BY DEF Inside

(* A message put into one of them is inside.                               *)
LEMMA InsidePut ==
    ASSUME NEW B, NEW C, NEW S, NEW b \in S, NEW m \in Message,
           Held(C, b) = Held(B, b) \cup {m},
           \A d \in S \ {b} : Held(C, d) = Held(B, d)
    PROVE  Inside(C, S) = Inside(B, S) \cup {m}
<1>1. ASSUME NEW x \in Inside(C, S) PROVE x \in Inside(B, S) \cup {m}
  <2>1. PICK d \in S : x \in Held(C, d)
    BY DEF Inside
  <2> QED BY <2>1 DEF Inside
<1>2. ASSUME NEW x \in Inside(B, S) PROVE x \in Inside(C, S)
  <2>1. PICK d \in S : x \in Held(B, d)
    BY <1>2 DEF Inside
  <2>2. x \in Held(C, d)
    BY <2>1
  <2> QED BY <2>2 DEF Inside
<1>3. m \in Inside(C, S)
  BY DEF Inside
<1> QED BY <1>1, <1>2, <1>3

(* A message taken out of one of them is no longer inside.                 *)
LEMMA InsideCut ==
    ASSUME NEW B \in Contents, UniqueIn(B), NEW C, NEW S \in SUBSET Boxes, NEW b \in S,
           NEW m \in Held(B, b), Held(C, b) = Held(B, b) \ {m},
           \A d \in S \ {b} : Held(C, d) = Held(B, d)
    PROVE  Inside(C, S) = Inside(B, S) \ {m}
<1>1. ASSUME NEW x \in Inside(C, S) PROVE x \in Inside(B, S) /\ x # m
  <2>1. PICK d \in S : x \in Held(C, d)
    BY DEF Inside
  <2>2. x \in Held(B, d)
    BY <2>1
  <2>3. x # m
    <3>1. CASE d = b
      BY <2>1, <3>1
    <3>2. CASE d # b
      <4>1. x = m => b = d
        BY <2>2, HeldOnce
      <4> QED BY <3>2, <4>1
    <3> QED BY <3>1, <3>2
  <2> QED BY <2>2, <2>3 DEF Inside
<1>2. ASSUME NEW x \in Inside(B, S), x # m PROVE x \in Inside(C, S)
  <2>1. PICK d \in S : x \in Held(B, d)
    BY DEF Inside
  <2>2. x \in Held(C, d)
    BY <1>2, <2>1
  <2> QED BY <2>2 DEF Inside
<1> QED BY <1>1, <1>2

(* A message moved from one of them to another stays inside.               *)
LEMMA InsideMoved ==
    ASSUME NEW B, NEW C, NEW S, NEW b \in S, NEW d \in S \ {b}, NEW m \in Held(B, b),
           Held(C, b) = Held(B, b) \ {m}, Held(C, d) = Held(B, d) \cup {m},
           \A e \in S \ {b, d} : Held(C, e) = Held(B, e)
    PROVE  Inside(C, S) = Inside(B, S)
<1>1. ASSUME NEW x \in Inside(C, S) PROVE x \in Inside(B, S)
  <2>1. PICK e \in S : x \in Held(C, e)
    BY DEF Inside
  <2>2. x \in Held(B, e) \/ x = m
    BY <2>1
  <2> QED BY <2>2 DEF Inside
<1>2. ASSUME NEW x \in Inside(B, S) PROVE x \in Inside(C, S)
  <2>1. PICK e \in S : x \in Held(B, e)
    BY <1>2 DEF Inside
  <2>2. x \in Held(C, e) \/ x \in Held(C, d)
    BY <2>1
  <2> QED BY <2>2 DEF Inside
<1> QED BY <1>1, <1>2

(* The boxes of an actor.                                                  *)
LEMMA InboxAt ==
    ASSUME NEW a \in Actors
    PROVE  /\ <<"mailbox", a>> \in Inbox(a)
           /\ \A s \in Cores : <<"req", <<s, a>>>> \in Inbox(a) /\ <<s, a>> \in Edges
           /\ <<"turn", a>> \in Boxes /\ <<"turn", a>> \notin ReplyBoxes
           /\ \A u \in Actors : u # a => <<"turn", u>> # <<"turn", a>>
BY DEF Inbox, Boxes, Edges, ReplyBoxes

(* The sets of boxes do not overlap.                                       *)
LEMMA BoxesApart ==
    /\ ReplyBoxes \subseteq Boxes
    /\ \A a \in Actors : \A b \in Inbox(a) :
           /\ b \in Boxes /\ b \notin ReplyBoxes
           /\ \A u \in Actors : b # <<"turn", u>> /\ (u # a => b \notin Inbox(u))
<1>1. ASSUME NEW a \in Actors, NEW b \in Inbox(a)
      PROVE  b \in Boxes /\ b \notin ReplyBoxes
  BY DEF Inbox, Boxes, Edges, ReplyBoxes
<1>2. ASSUME NEW a \in Actors, NEW b \in Inbox(a), NEW u \in Actors
      PROVE  b # <<"turn", u>> /\ (u # a => b \notin Inbox(u))
  BY DEF Inbox
<1>3. ReplyBoxes \subseteq Boxes
  BY DEF ReplyBoxes, Boxes
<1> QED BY <1>1, <1>2, <1>3

(* What lies in a box is what the members of its queue are.                *)
LEMMA BoxMembers ==
    /\ \A a \in Actors :
           /\ Held(box, <<"mailbox", a>>) = Members(mailbox[a])
           /\ Held(box, <<"turn", a>>) = IF turn[a].busy THEN {turn[a].cur} ELSE {}
    /\ \A e \in Edges : Held(box, <<"req", e>>) = Members(req[e])
    /\ \A e \in Cores \X Cores : Held(box, <<"rep", e>>) = Members(rep[e])
<1>1. ASSUME NEW a \in Actors
      PROVE  /\ Held(box, <<"mailbox", a>>) = Members(mailbox[a])
             /\ Held(box, <<"turn", a>>) = IF turn[a].busy THEN {turn[a].cur} ELSE {}
  <2>1. Held(box, <<"mailbox", a>>) = Members(mailbox[a])
    BY BoxAt DEF Held, Members
  <2>2. box[<<"turn", a>>] = IF turn[a].busy THEN <<turn[a].cur>> ELSE <<>>
    BY BoxAt
  <2>3. CASE turn[a].busy
    <3>1. Len(box[<<"turn", a>>]) = 1 /\ box[<<"turn", a>>][1] = turn[a].cur
      BY <2>2, <2>3
    <3> QED BY <2>1, <2>3, <3>1 DEF Held
  <2>4. CASE ~ turn[a].busy
    <3>1. Len(box[<<"turn", a>>]) = 0
      BY <2>2, <2>4
    <3> QED BY <2>1, <2>4, <3>1 DEF Held
  <2> QED BY <2>1, <2>3, <2>4
<1>2. ASSUME NEW e \in Edges PROVE Held(box, <<"req", e>>) = Members(req[e])
  BY BoxAt DEF Held, Members
<1>3. ASSUME NEW e \in Cores \X Cores PROVE Held(box, <<"rep", e>>) = Members(rep[e])
  BY BoxAt DEF Held, Members
<1> QED BY <1>1, <1>2, <1>3

(* The abstract state, read off the boxes ...                              *)
LEMMA ViewsNow ==
    /\ Posted = [a \in Actors |-> Inside(box, Inbox(a))]
    /\ Handling = [a \in Actors |-> Held(box, <<"turn", a>>)]
    /\ Answers = {turn[t].reply : t \in {u \in Turns : turn[u].ready}}
                 \cup {m.id : m \in Inside(box, ReplyBoxes)}
<1>1. ASSUME NEW a \in Actors
      PROVE  Inside(box, Inbox(a))
                 = Members(mailbox[a]) \cup UNION {Members(req[<<s, a>>]) : s \in Cores}
  <2>1. ASSUME NEW x \in Inside(box, Inbox(a))
        PROVE  x \in Members(mailbox[a]) \/ \E s \in Cores : x \in Members(req[<<s, a>>])
    <3>1. PICK b \in Inbox(a) : x \in Held(box, b)
      BY DEF Inside
    <3>2. CASE b = <<"mailbox", a>>
      BY <3>1, <3>2, BoxMembers
    <3>3. CASE b # <<"mailbox", a>>
      <4>1. PICK s \in Cores : b = <<"req", <<s, a>>>>
        BY <3>3 DEF Inbox
      <4>2. Held(box, <<"req", <<s, a>>>>) = Members(req[<<s, a>>])
        BY BoxMembers, InboxAt, BoxesApart
      <4> QED BY <3>1, <4>1, <4>2
    <3> QED BY <3>2, <3>3
  <2>2. Members(mailbox[a]) \subseteq Inside(box, Inbox(a))
    <3>1. <<"mailbox", a>> \in Inbox(a) /\ Held(box, <<"mailbox", a>>) = Members(mailbox[a])
      BY BoxMembers, InboxAt, BoxesApart
    <3> QED BY <3>1 DEF Inside
  <2>3. ASSUME NEW s \in Cores PROVE Members(req[<<s, a>>]) \subseteq Inside(box, Inbox(a))
    <3>1. <<"req", <<s, a>>>> \in Inbox(a) /\ <<s, a>> \in Edges
      BY InboxAt, BoxesApart
    <3>2. Held(box, <<"req", <<s, a>>>>) = Members(req[<<s, a>>])
      BY <3>1, BoxMembers
    <3> QED BY <3>1, <3>2 DEF Inside
  <2> QED BY <2>1, <2>2, <2>3
<1>2. Inside(box, ReplyBoxes) = UNION {Members(rep[e]) : e \in Cores \X Cores}
  <2>1. ASSUME NEW x \in Inside(box, ReplyBoxes)
        PROVE  \E e \in Cores \X Cores : x \in Members(rep[e])
    <3>1. PICK b \in ReplyBoxes : x \in Held(box, b)
      BY DEF Inside
    <3>2. PICK e \in Cores \X Cores : b = <<"rep", e>>
      BY DEF ReplyBoxes
    <3> QED BY <3>1, <3>2, BoxMembers
  <2>2. ASSUME NEW e \in Cores \X Cores PROVE Members(rep[e]) \subseteq Inside(box, ReplyBoxes)
    <3>1. <<"rep", e>> \in ReplyBoxes
      BY DEF ReplyBoxes
    <3> QED BY <3>1, BoxMembers DEF Inside
  <2> QED BY <2>1, <2>2
<1>3. UNION {{m.id : m \in Members(rep[e])} : e \in Cores \X Cores}
          = {m.id : m \in Inside(box, ReplyBoxes)}
  BY <1>2
<1> QED BY <1>1, <1>3, BoxMembers DEF Posted, Handling, Answers

(* ... before a step and after it.                                         *)
LEMMA Views ==
    /\ Posted = [a \in Actors |-> Inside(box, Inbox(a))]
    /\ Posted' = [a \in Actors |-> Inside(box', Inbox(a))]
    /\ Handling = [a \in Actors |-> Held(box, <<"turn", a>>)]
    /\ Handling' = [a \in Actors |-> Held(box', <<"turn", a>>)]
    /\ Answers = {turn[t].reply : t \in {u \in Turns : turn[u].ready}}
                 \cup {m.id : m \in Inside(box, ReplyBoxes)}
    /\ Answers' = {turn'[t].reply : t \in {u \in Turns : turn'[u].ready}}
                 \cup {m.id : m \in Inside(box', ReplyBoxes)}
<1>1. (/\ Posted = [a \in Actors |-> Inside(box, Inbox(a))]
       /\ Handling = [a \in Actors |-> Held(box, <<"turn", a>>)]
       /\ Answers = {turn[t].reply : t \in {u \in Turns : turn[u].ready}}
                    \cup {m.id : m \in Inside(box, ReplyBoxes)})'
  BY ViewsNow, PTL
<1>2. /\ Posted' = [a \in Actors |-> Inside(box', Inbox(a))]
      /\ Handling' = [a \in Actors |-> Held(box', <<"turn", a>>)]
      /\ Answers' = {turn'[t].reply : t \in {u \in Turns : turn'[u].ready}}
                 \cup {m.id : m \in Inside(box', ReplyBoxes)}
  BY <1>1 DEF Inside, Held
<1> QED BY <1>2, ViewsNow
-----------------------------------------------------------------------------
(* The steps of ActorCalls, as ActorRuntime takes them.                    *)

\* A step of ActorCalls, or none.
AbstractStep == Abstract!Next \/ UNCHANGED Abstract!vars

(* Nothing moves that the callers could see.                               *)
LEMMA StillStep ==
    ASSUME box' = box, UNCHANGED <<issued, awaiting>>, turn'[Test].busy = turn[Test].busy,
           \A t \in Turns : turn'[t].ready = turn[t].ready /\ turn'[t].reply = turn[t].reply
    PROVE  AbstractStep
<1>1. Posted' = Posted /\ Handling' = Handling
  BY Views
<1>2. Answers' = Answers
  BY Views
<1> QED BY <1>1, <1>2 DEF AbstractStep, Abstract!vars

(* A turn that runs neither waits nor has it nothing to do.                *)
LEMMA RunningActive ==
    ASSUME Types, Letters, Flow, NEW c \in Cores, run[c] # NoTurn
    PROVE  run[c] \in Turns /\ awaiting[run[c]] = 0 /\ Abstract!Active(run[c])
<1>1. run[c] \in Turns /\ turn[run[c]].busy /\ ~ turn[run[c]].susp
  BY DEF Types, CoreType, Flow
<1>2. awaiting[run[c]] = 0
  BY <1>1 DEF Letters, Waits
<1>3. run[c] # Test => Handling[run[c]] # {}
  BY <1>1, Constants DEF Handling
<1> QED BY <1>1, <1>2, <1>3 DEF Abstract!Active

(* A send or call that is not admitted.                                    *)
LEMMA RefuseStep ==
    ASSUME Types, Letters, Flow, NEW c \in Cores, NEW a \in Actors, NotAdmitted(c, a)
    PROVE  Abstract!Next
<1> USE DEF msgVars
<1>1. /\ run[c] \in Turns /\ issued' = issued + 1
      /\ run[c] # NoTurn
  BY AttemptNumbers, Constants DEF NotAdmitted
<1>2. UNCHANGED <<Posted, Handling, Answers, awaiting>> /\ turn' = turn
  BY DEF NotAdmitted, Posted, Handling, Answers
<1>3. Abstract!Active(run[c])
  BY <1>1, RunningActive
<1>4. Abstract!Refuse(run[c])
  BY <1>1, <1>2, <1>3 DEF Abstract!Refuse, Abstract!Attempt
<1> QED BY <1>1, <1>4, Constants DEF Abstract!Next, Abstract!Turns

(* A send, or an awaited call: the message joins those of its mailbox or     *)
(* ring, and its number is the attempt's.                                    *)
LEMMA PostStep ==
    ASSUME Types, Letters, Flow, NEW c \in Cores, NEW a \in Actors, Attempt(c, a),
           NEW m \in Message, m.id = issued', m.from = run[c], m.remote = (place[a] # c),
           Enqueue(c, a, m), m.call => a \in Awaits[m.from], UNCHANGED <<place, rep>>,
           \A t \in Turns : /\ turn'[t].busy = turn[t].busy /\ turn'[t].cur = turn[t].cur
                            /\ turn'[t].ready = turn[t].ready
                            /\ turn'[t].reply = turn[t].reply,
           awaiting' = IF m.call THEN [awaiting EXCEPT ![run[c]] = m.id] ELSE awaiting
    PROVE  Abstract!Next
<1>1. /\ run[c] \in Turns /\ run[c] # NoTurn /\ a \in Calls[run[c]]
      /\ issued' = issued + 1 /\ place[run[c]] = c
  BY AttemptNumbers, Constants DEF Flow
<1>2. \A b \in Actors : turn'[b].busy = turn[b].busy /\ turn'[b].cur = turn[b].cur
  BY Constants
<1>3. PICK b \in Boxes : /\ box' = Put(box, b, m)
                         /\ b \in {<<"mailbox", a>>, <<"req", <<c, a>>>>}
  BY <1>1, <1>2, EnqueuePuts
<1>4. b \in Inbox(a)
  <2>1. <<"mailbox", a>> \in Inbox(a) /\ <<"req", <<c, a>>>> \in Inbox(a)
    BY InboxAt
  <2> QED BY <1>3, <2>1
<1>5. \A d \in Boxes : \A x \in Held(box, d) : x.id # m.id
  <2>1. \A d \in Boxes : \A x \in Held(box, d) : x.id \in 1 .. issued
    BY LettersKnown DEF KnownMessage
  <2> QED BY <1>1, <2>1, LettersKnown
<1>6. /\ Held(box', b) = Held(box, b) \cup {m}
      /\ \A d \in Boxes \ {b} : Held(box', d) = Held(box, d)
  BY <1>3, <1>5, LettersKnown, PutBox
<1>7. Posted' = [Posted EXCEPT ![a] = @ \cup {m}]
  <2>1. Inside(box', Inbox(a)) = Inside(box, Inbox(a)) \cup {m}
    <3>1. \A d \in Inbox(a) \ {b} : Held(box', d) = Held(box, d)
      BY <1>6, InboxAt, BoxesApart
    <3> QED BY <1>4, <1>6, <3>1, InsidePut
  <2>2. ASSUME NEW u \in Actors, u # a PROVE Inside(box', Inbox(u)) = Inside(box, Inbox(u))
    <3>1. \A d \in Inbox(u) : Held(box', d) = Held(box, d)
      BY <1>4, <1>6, <2>2, InboxAt, BoxesApart
    <3> QED BY <3>1, InsideSame
  <2> QED BY <2>1, <2>2, Views
<1>8. Handling' = Handling
  BY <1>2 DEF Handling
<1>9. Answers' = Answers
  <2>1. \A d \in ReplyBoxes : Held(box', d) = Held(box, d)
    BY <1>4, <1>6, InboxAt, BoxesApart
  <2>2. Inside(box', ReplyBoxes) = Inside(box, ReplyBoxes)
    BY <2>1, InsideSame
  <2> QED BY <2>2, Views
<1>10. Abstract!Active(run[c]) /\ turn'[Test].busy = turn[Test].busy
  BY <1>1, RunningActive, Constants
<1>11. Abstract!Post(run[c], a)
  BY <1>1, <1>7, <1>8, <1>9, <1>10 DEF Abstract!Post, Abstract!Attempt
<1> QED BY <1>1, <1>11, Constants DEF Abstract!Next, Abstract!Turns

(* A send is one of them.                                                  *)
LEMMA SendStep ==
    ASSUME Types, Letters, Flow, NEW c \in Cores, NEW a \in Actors, Send(c, a)
    PROVE  Abstract!Next
<1> DEFINE m == [id |-> issued', from |-> run[c], call |-> FALSE, remote |-> place[a] # c]
<1>1. Attempt(c, a)
  BY DEF Send
<1>2. /\ m \in Message /\ m.id = issued' /\ m.from = run[c] /\ ~ m.call
      /\ m.remote = (place[a] # c)
  BY <1>1, NewMessage
<1>3. /\ Enqueue(c, a, m) /\ UNCHANGED <<place, rep, turn, awaiting>>
  BY DEF Send
<1> HIDE DEF m
<1> QED BY <1>1, <1>2, <1>3, PostStep

(* An awaited call is the other: its turn waits for it.                    *)
LEMMA CallStep ==
    ASSUME Types, Letters, Flow, NEW c \in Cores, NEW a \in Actors, Call(c, a)
    PROVE  Abstract!Next
<1> DEFINE m == [id |-> issued', from |-> run[c], call |-> TRUE, remote |-> place[a] # c]
           t == run[c]
<1>1. Attempt(c, a) /\ t \in Turns
  BY AttemptNumbers DEF Call
<1>2. /\ m \in Message /\ m.id = issued' /\ m.from = t /\ m.call
      /\ m.remote = (place[a] # c)
  BY <1>1, NewMessage
<1>3. /\ Enqueue(c, a, m) /\ UNCHANGED <<place, rep>>
      /\ turn' = [turn EXCEPT ![t].susp = TRUE] /\ a \in Awaits[t]
      /\ awaiting' = [awaiting EXCEPT ![t] = m.id]
  BY DEF Call
<1> HIDE DEF m
<1>4. ASSUME NEW u \in Turns
      PROVE  /\ turn'[u].busy = turn[u].busy /\ turn'[u].cur = turn[u].cur
             /\ turn'[u].ready = turn[u].ready /\ turn'[u].reply = turn[u].reply
  BY <1>1, <1>3 DEF Types, TurnType, TurnRecords
<1> QED BY <1>1, <1>2, <1>3, <1>4, PostStep

(* rt_select starts an actor on the head of its mailbox, of one sender the *)
(* oldest of all that are posted to it.                                    *)
LEMMA TakeStep ==
    ASSUME Types, Letters, Ordered, NEW c \in Cores, NEW a \in Actors, Select(c, a),
           ~ turn[a].busy
    PROVE  Abstract!Next
<1> USE DEF msgVars
<1> DEFINE m == Head(mailbox[a])
           b == <<"mailbox", a>>
           d == <<"turn", a>>
<1>1. /\ turn' = Started(a, m) /\ mailbox' = [mailbox EXCEPT ![a] = Tail(@)]
      /\ UNCHANGED <<awaiting, req, rep, issued>> /\ mailbox[a] # <<>>
  BY DEF Select, Started, Selectable, Chosen
<1>2. /\ b \in Boxes /\ d \in Boxes \ {b} /\ box[b] = mailbox[a]
      /\ box \in Contents /\ UniqueIn(box)
      /\ b \in Inbox(a) /\ d = <<"turn", a>> /\ b = <<"mailbox", a>>
      /\ a \in Turns /\ a # Test
  BY BoxAt, LettersKnown, InboxAt, BoxesApart, Constants
<1> HIDE DEF m, b, d
<1>3. m \in Held(box, b) /\ m \in Message /\ m = Head(box[b]) /\ box[b] # <<>>
  BY <1>1, <1>2, HeldTypes DEF m
<1>4. box' = Put(Cut(box, b), d, m)
  BY <1>1, <1>3, StartMoves DEF b, d, m
<1>5. /\ Held(box', b) = Held(box, b) \ {m} /\ Held(box', d) = Held(box, d) \cup {m}
      /\ \A e \in Boxes \ {b, d} : Held(box', e) = Held(box, e)
  BY <1>2, <1>3, <1>4, ShiftBox
<1>6. Posted' = [Posted EXCEPT ![a] = @ \ {m}]
  <2>1. Inside(box', Inbox(a)) = Inside(box, Inbox(a)) \ {m}
    <3>1. \A e \in Inbox(a) \ {b} : Held(box', e) = Held(box, e)
      BY <1>2, <1>5, InboxAt, BoxesApart
    <3> QED BY <1>2, <1>3, <1>5, <3>1, InsideCut, InboxAt, BoxesApart
  <2>2. ASSUME NEW u \in Actors, u # a PROVE Inside(box', Inbox(u)) = Inside(box, Inbox(u))
    <3>1. \A e \in Inbox(u) : Held(box', e) = Held(box, e)
      BY <1>2, <1>5, <2>2, InboxAt, BoxesApart
    <3> QED BY <3>1, InsideSame
  <2> QED BY <2>1, <2>2, Views
<1>7. Handling[a] = {} /\ Handling' = [Handling EXCEPT ![a] = {m}]
  <2>1. Handling[a] = {}
    BY DEF Handling
  <2>2. Held(box, d) = {}
    BY <1>2, BoxMembers
  <2>3. ASSUME NEW u \in Actors, u # a PROVE Held(box', <<"turn", u>>) = Held(box, <<"turn", u>>)
    <3>1. <<"turn", u>> \in Boxes \ {b, d}
      BY <1>2, <2>3, InboxAt, BoxesApart
    <3> QED BY <1>5, <3>1
  <2> QED BY <1>2, <1>5, <2>1, <2>2, <2>3, Views
<1>8. Answers' = Answers /\ turn'[Test].busy = turn[Test].busy
  <2>1. \A e \in ReplyBoxes : Held(box', e) = Held(box, e)
    BY <1>2, <1>5, InboxAt, BoxesApart
  <2>2. Inside(box', ReplyBoxes) = Inside(box, ReplyBoxes)
    BY <2>1, InsideSame
  <2>3. \A u \in Turns : turn'[u].ready = turn[u].ready /\ turn'[u].reply = turn[u].reply
    BY <1>1, <1>2, <1>3, StartedTypes DEF Types, TurnType
  <2>4. turn'[Test].busy = turn[Test].busy
    BY <1>1, <1>2, <1>3, StartedTypes, Constants DEF Types, TurnType
  <2> QED BY <2>2, <2>3, <2>4, Views
<1>9. m \in Posted[a]
  BY <1>2, <1>3, Views DEF Inside
<1>10. ASSUME NEW n \in Posted[a], n.from = m.from PROVE m.id <= n.id
  <2>1. /\ mailbox[a] \in Seq(Message) /\ Len(mailbox[a]) > 0 /\ Len(mailbox[a]) \in Nat
        /\ m = mailbox[a][1] /\ m.id \in Nat
    BY <1>1, <1>3, MessageNumbers DEF Types, QueueType, m
  <2>2. /\ Rising(mailbox[a]) /\ \A e \in Edges : e[2] = a => Earlier(mailbox[a], req[e])
    BY DEF Ordered, OrderedFor
  <2>3. CASE n \in Members(mailbox[a])
    <3>1. PICK i \in 1 .. Len(mailbox[a]) : n = mailbox[a][i]
      BY <2>3 DEF Members
    <3>2. CASE i = 1
      BY <2>1, <3>1, <3>2
    <3>3. CASE i > 1
      <4>1. 1 \in 1 .. Len(mailbox[a]) /\ 1 < i
        BY <2>1, <3>3
      <4>2. mailbox[a][1].id < mailbox[a][i].id
        BY <1>10, <2>1, <2>2, <3>1, <4>1 DEF Rising
      <4>3. n.id \in Nat
        BY <2>1, <3>1, MessageNumbers
      <4> QED BY <2>1, <3>1, <4>2, <4>3
    <3> QED BY <2>1, <3>2, <3>3
  <2>4. ASSUME NEW s \in Cores, n \in Members(req[<<s, a>>]) PROVE m.id <= n.id
    <3>1. <<s, a>> \in Edges /\ <<s, a>>[2] = a
      BY InboxAt, BoxesApart
    <3>2. PICK i \in 1 .. Len(req[<<s, a>>]) : n = req[<<s, a>>][i]
      BY <2>4 DEF Members
    <3>3. Earlier(mailbox[a], req[<<s, a>>]) /\ 1 \in 1 .. Len(mailbox[a])
      BY <2>1, <2>2, <3>1
    <3>4. mailbox[a][1].id < req[<<s, a>>][i].id
      BY <1>10, <2>1, <3>2, <3>3 DEF Earlier
    <3>5. n.id \in Nat
      BY <3>1, <3>2, MessageNumbers DEF Types, QueueType
    <3> QED BY <2>1, <3>2, <3>4, <3>5
  <2>5. n \in Members(mailbox[a]) \/ \E s \in Cores : n \in Members(req[<<s, a>>])
    BY <1>10 DEF Posted
  <2> QED BY <2>3, <2>4, <2>5
<1>11. Abstract!Take(a)
  BY <1>1, <1>6, <1>7, <1>8, <1>9, <1>10 DEF Abstract!Take
<1> QED BY <1>11 DEF Abstract!Next

(* A suspended turn that is ready goes on with its answer.                 *)
LEMMA ResumeStep ==
    ASSUME Types, Letters, NEW t \in Turns, turn[t].ready, turn' = Resumed(t),
           awaiting' = [awaiting EXCEPT ![t] = 0], UNCHANGED <<mailbox, req, rep, issued>>
    PROVE  Abstract!Next
<1>1. /\ ~ turn'[t].ready /\ turn'[t].busy = turn[t].busy /\ turn'[t].cur = turn[t].cur
      /\ \A u \in Turns : u # t => turn'[u] = turn[u]
  BY ResumedTypes DEF Types, TurnType
<1>2. UNCHANGED <<Posted, Handling>> /\ turn'[Test].busy = turn[Test].busy
  <2>1. Posted' = Posted
    BY DEF Posted
  <2>2. ASSUME NEW u \in Turns PROVE turn'[u].busy = turn[u].busy /\ turn'[u].cur = turn[u].cur
    BY <1>1
  <2>3. Handling' = Handling
    BY <2>2, Constants DEF Handling
  <2> QED BY <2>1, <2>2, <2>3, Constants
<1>3. /\ turn[t].reply = awaiting[t] /\ awaiting[t] # 0
      /\ \A u \in Turns \ {t} : turn[u].ready => turn[u].reply # awaiting[t]
  BY DEF Letters, Waits
<1>4. \A x \in Inside(box, ReplyBoxes) : x.id # awaiting[t]
  <2> SUFFICES ASSUME NEW b \in ReplyBoxes, NEW x \in Held(box, b), x.id = awaiting[t]
               PROVE  FALSE
    BY DEF Inside
  <2>1. KnownMessage(x)
    BY LettersKnown, InboxAt, BoxesApart
  <2> QED BY <2>1 DEF KnownMessage
<1>5. awaiting[t] \in Answers
  BY <1>3, Views
<1>6. Answers' = Answers \ {awaiting[t]}
  <2>1. Inside(box', ReplyBoxes) = Inside(box, ReplyBoxes)
    <3>1. box' = box
      <4>1. \A u \in Actors : turn'[u].busy = turn[u].busy /\ turn'[u].cur = turn[u].cur
        BY <1>1, Constants
      <4>2. \A u \in Actors : /\ box[<<"mailbox", u>>] = mailbox'[u]
                              /\ box[<<"turn", u>>]
                                 = IF turn'[u].busy THEN <<turn'[u].cur>> ELSE <<>>
        BY <4>1, BoxAt
      <4>3. /\ \A e \in Edges : box[<<"req", e>>] = req'[e]
            /\ \A e \in Cores \X Cores : box[<<"rep", e>>] = rep'[e]
        BY BoxAt
      <4> QED BY <4>2, <4>3, BoxAfter, BoxTypes
    <3> QED BY <3>1
  <2>2. {turn'[u].reply : u \in {v \in Turns : turn'[v].ready}}
            = {turn[u].reply : u \in {v \in Turns : turn[v].ready}} \ {awaiting[t]}
    BY <1>1, <1>3
  <2>3. awaiting[t] \notin {x.id : x \in Inside(box, ReplyBoxes)}
    BY <1>4
  <2> QED BY <2>1, <2>2, <2>3, Views
<1>7. Abstract!Resume(t)
  BY <1>2, <1>5, <1>6 DEF Abstract!Resume
<1> QED BY <1>7, Constants DEF Abstract!Next, Abstract!Turns

(* The checkpoint resumes the test, or changes nothing.                    *)
LEMMA CheckpointStep ==
    ASSUME Types, Letters, NEW c \in Cores, Checkpoint(c)
    PROVE  AbstractStep
<1> USE DEF msgVars, histVars
<1>1. UNCHANGED <<mailbox, req, rep, issued>>
  BY DEF Checkpoint
<1>2. CASE c = 0 /\ turn[Test].busy /\ turn[Test].ready
  <2>1. turn' = Resumed(Test) /\ awaiting' = [awaiting EXCEPT ![Test] = 0]
    BY <1>2 DEF Checkpoint
  <2> QED BY <1>1, <1>2, <2>1, ResumeStep, Constants DEF AbstractStep
<1>3. CASE ~ (c = 0 /\ turn[Test].busy /\ turn[Test].ready)
  <2>1. UNCHANGED <<turn, awaiting>>
    BY <1>3 DEF Checkpoint
  <2>2. box' = box
    BY <1>1, <2>1 DEF box
  <2> QED BY <1>1, <2>1, <2>2, StillStep
<1> QED BY <1>2, <1>3

(* rt_select resumes a turn or starts one.                                 *)
LEMMA SelectStep ==
    ASSUME Types, Letters, Ordered, NEW c \in Cores, NEW a \in Actors, Select(c, a)
    PROVE  Abstract!Next
<1>1. CASE turn[a].busy
  <2>1. /\ turn' = Resumed(a) /\ awaiting' = [awaiting EXCEPT ![a] = 0]
        /\ UNCHANGED <<mailbox, req, rep, issued>> /\ turn[a].ready
    BY <1>1 DEF Select, Chosen, Selectable
  <2> QED BY <2>1, ResumeStep, Constants
<1>2. CASE ~ turn[a].busy
  BY <1>2, TakeStep
<1> QED BY <1>1, <1>2

\* Turn t has the answer it had, if any.
SameAnswer(t) == turn'[t].ready = turn[t].ready /\ turn'[t].reply = turn[t].reply

(* The method returns: its message is done with, and the answer to a call is *)
(* in the caller's turn or in the ring to its core.                          *)
LEMMA FinishStep ==
    ASSUME Types, Letters, Flow, ~ refused', NEW c \in Cores, Complete(c)
    PROVE  Abstract!Next
<1> DEFINE t == run[c]
           m == turn[t].cur
           b == <<"turn", t>>
           back == <<c, place[m.from]>>
<1>1. /\ t \in Turns /\ t # Test /\ t \in Actors
  BY Constants DEF Complete, Types, CoreType
<1>2. turn[t].busy /\ awaiting[t] = 0
  <2>1. run[c] # NoTurn
    BY <1>1, Constants
  <2> QED BY <2>1, RunningActive DEF Flow
<1>3. UNCHANGED <<place, mailbox, req, awaiting, issued>> /\ Deliver(c, t, Freed(t))
  BY DEF Complete, Freed
<1>4. /\ b \in Boxes /\ b \notin ReplyBoxes /\ Held(box, b) = {m} /\ box[b] # <<>>
      /\ Head(box[b]) = m /\ \A a \in Actors : b \notin Inbox(a)
      /\ b = <<"turn", t>>
  <2>1. box[b] = <<m>> /\ Held(box, b) = {m}
    BY <1>1, <1>2, BoxAt, BoxMembers
  <2>2. box[b] # <<>> /\ Head(box[b]) = m
    BY <2>1
  <2> QED BY <1>1, <2>1, <2>2, InboxAt, BoxesApart
<1> HIDE DEF m, b, back, t
<1>5. KnownMessage(m) /\ m \in Message /\ m.from \in Turns /\ UniqueIn(box) /\ box \in Contents
  BY <1>4, LettersKnown
<1>6. /\ Freed(t) \in [Turns -> TurnRecords] /\ ~ Freed(t)[t].busy
      /\ Freed(t)[t].ready = turn[t].ready /\ Freed(t)[t].reply = turn[t].reply
      /\ \A u \in Turns : u # t => Freed(t)[u] = turn[u]
  BY <1>1, FreedTypes DEF Types, TurnType
<1>7. /\ Held(Cut(box, b), b) = {} /\ Cut(box, b) \in Contents /\ UniqueIn(Cut(box, b))
      /\ \A d \in Boxes \ {b} : Held(Cut(box, b), d) = Held(box, d)
      /\ \A d \in Boxes : \A x \in Held(Cut(box, b), d) : x.id # m.id
  BY <1>4, <1>5, CutBox
<1>8. ASSUME \A a \in Actors : \A d \in Inbox(a) \cup {<<"turn", a>>} :
                 d # b => Held(box', d) = Held(box, d),
             Held(box', b) = {}, turn'[Test].busy = turn[Test].busy,
             Answers' = IF m.call THEN Answers \cup {m.id} ELSE Answers
      PROVE  Abstract!Next
  <2>1. Posted' = Posted
    <3>1. ASSUME NEW a \in Actors PROVE Inside(box', Inbox(a)) = Inside(box, Inbox(a))
      <4>1. \A d \in Inbox(a) : Held(box', d) = Held(box, d)
        BY <1>4, <1>8
      <4> QED BY <4>1, InsideSame
    <3> QED BY <3>1, Views
  <2>2. Handling[t] = {m} /\ Handling' = [Handling EXCEPT ![t] = {}]
    <3>1. ASSUME NEW a \in Actors, a # t PROVE Held(box', <<"turn", a>>) = Held(box, <<"turn", a>>)
      <4>1. <<"turn", a>> # b
        BY <1>1, <1>4, <3>1, InboxAt
      <4> QED BY <1>8, <4>1
    <3>2. Held(box', <<"turn", t>>) = {} /\ Held(box, <<"turn", t>>) = {m}
      BY <1>4, <1>8
    <3> QED BY <1>1, <3>1, <3>2, Views
  <2>3. Abstract!Finish(t)
    BY <1>2, <1>3, <1>8, <2>1, <2>2 DEF Abstract!Finish
  <2> QED BY <1>1, <2>3 DEF Abstract!Next
<1>9. CASE ~ (m.call /\ m.remote)
  <2>1. /\ UNCHANGED rep
        /\ turn' = IF m.call THEN Answered(Freed(t), m) ELSE Freed(t)
    BY <1>3, <1>9 DEF Deliver, m, Answered
  <2>2. /\ m.call => turn'[m.from].ready /\ turn'[m.from].reply = m.id
        /\ \A u \in Turns : ~ m.call \/ u # m.from => SameAnswer(u)
        /\ \A u \in Turns : /\ turn'[u].busy = Freed(t)[u].busy
                            /\ turn'[u].cur = Freed(t)[u].cur
    BY <1>5, <1>6, <2>1, AnsweredTypes DEF SameAnswer
  <2>3. ~ turn'[t].busy /\ turn'[Test].busy = turn[Test].busy
        /\ \A a \in Actors \ {t} : turn'[a].busy = turn[a].busy /\ turn'[a].cur = turn[a].cur
    BY <1>1, <1>6, <2>2, Constants
  <2>4. box' = Cut(box, b)
    BY <1>1, <1>2, <1>3, <2>1, <2>3, FreeCuts DEF b
  <2>5. /\ Held(box', b) = {} /\ \A d \in Boxes \ {b} : Held(box', d) = Held(box, d)
    BY <1>7, <2>4
  <2>6. Inside(box', ReplyBoxes) = Inside(box, ReplyBoxes)
    <3>1. \A d \in ReplyBoxes : Held(box', d) = Held(box, d)
      BY <1>4, <2>5, BoxesApart
    <3> QED BY <3>1, InsideSame
  <2>7. Answers' = IF m.call THEN Answers \cup {m.id} ELSE Answers
    <3>1. CASE m.call
      <4>1. ~ turn[m.from].ready
        BY <1>5, <3>1 DEF KnownMessage
      <4>2. {turn'[u].reply : u \in {v \in Turns : turn'[v].ready}}
                = {turn[u].reply : u \in {v \in Turns : turn[v].ready}} \cup {m.id}
        BY <1>5, <2>2, <3>1, <4>1 DEF SameAnswer
      <4> QED BY <2>6, <3>1, <4>2, Views
    <3>2. CASE ~ m.call
      <4>1. {turn'[u].reply : u \in {v \in Turns : turn'[v].ready}}
                = {turn[u].reply : u \in {v \in Turns : turn[v].ready}}
        BY <2>2, <3>2 DEF SameAnswer
      <4> QED BY <2>6, <3>2, <4>1, Views
    <3> QED BY <3>1, <3>2
  <2>8. \A a \in Actors : \A d \in Inbox(a) \cup {<<"turn", a>>} :
            d # b => Held(box', d) = Held(box, d)
    BY <2>5, InboxAt, BoxesApart
  <2> QED BY <1>8, <2>3, <2>5, <2>7, <2>8
<1>10. CASE m.call /\ m.remote
  <2> DEFINE r == <<"rep", back>>
  <2>1. /\ rep' = [rep EXCEPT ![back] = Append(@, m)] /\ turn' = Freed(t)
    BY <1>3, <1>10 DEF Deliver, m, back
  <2>2. back \in Cores \X Cores /\ r \in Boxes \ {b} /\ r \in ReplyBoxes
    <3>1. place[m.from] \in Cores
      <4>1. place \in [Turns -> Cores]
        BY Constants DEF Types, CoreType
      <4> QED BY <1>5, <4>1
    <3>2. back \in Cores \X Cores
      BY <3>1 DEF back
    <3> QED BY <1>4, <3>2, BoxesApart DEF ReplyBoxes
  <2>3. /\ ~ turn'[t].busy /\ turn'[Test].busy = turn[Test].busy
        /\ \A a \in Actors \ {t} : turn'[a].busy = turn[a].busy /\ turn'[a].cur = turn[a].cur
        /\ \A u \in Turns : SameAnswer(u)
    BY <1>1, <1>6, <2>1, Constants DEF SameAnswer
  <2>4. box' = Put(Cut(box, b), r, m)
    <3>1. rep' = [rep EXCEPT ![back] = Append(@, turn[t].cur)]
      BY <2>1 DEF m
    <3> QED BY <1>1, <1>2, <1>3, <2>2, <2>3, <3>1, ReplyMoves DEF b, m
  <2> HIDE DEF r
  <2>5. /\ Held(box', r) = Held(box, r) \cup {m} /\ Held(box', b) = {}
        /\ \A d \in Boxes \ {b, r} : Held(box', d) = Held(box, d)
    <3>1. /\ Held(box', r) = Held(Cut(box, b), r) \cup {m}
          /\ \A d \in Boxes \ {r} : Held(box', d) = Held(Cut(box, b), d)
      BY <1>5, <1>7, <2>2, <2>4, PutBox
    <3> QED BY <1>4, <1>7, <2>2, <3>1
  <2>6. Inside(box', ReplyBoxes) = Inside(box, ReplyBoxes) \cup {m}
    <3>1. \A d \in ReplyBoxes \ {r} : Held(box', d) = Held(box, d)
      BY <1>4, <2>5, BoxesApart
    <3> QED BY <1>5, <2>2, <2>5, <3>1, InsidePut
  <2>7. Answers' = IF m.call THEN Answers \cup {m.id} ELSE Answers
    <3>1. {x.id : x \in Inside(box', ReplyBoxes)}
              = {x.id : x \in Inside(box, ReplyBoxes)} \cup {m.id}
      BY <2>6
    <3>2. {turn'[u].reply : u \in {v \in Turns : turn'[v].ready}}
              = {turn[u].reply : u \in {v \in Turns : turn[v].ready}}
      BY <2>3 DEF SameAnswer
    <3> QED BY <1>10, <3>1, <3>2, Views
  <2>8. \A a \in Actors : \A d \in Inbox(a) \cup {<<"turn", a>>} :
            d # b => Held(box', d) = Held(box, d)
    BY <2>2, <2>5, InboxAt, BoxesApart, ZenonT(30)
  <2> QED BY <1>8, <2>3, <2>5, <2>7, <2>8
<1> QED BY <1>9, <1>10

(* A drain moves a request on to the mailbox ...                           *)
LEMMA RequestStep ==
    ASSUME Types, Letters, NEW c \in Cores, NEW l \in lanes[c], DrainRequest(c, l)
    PROVE  AbstractStep
<1> DEFINE a == l[3]
           e == <<l[2], l[3]>>
           m == Head(req[e])
           b == <<"req", e>>
           d == <<"mailbox", a>>
<1>1. e \in Edges /\ e[2] = a /\ a \in Actors /\ req[e] # <<>> /\ e \in Cores \X {a}
  BY LaneTypes DEF DrainRequest, LaneEmpty, Edges
<1>2. UNCHANGED <<rep, turn, awaiting, issued>>
  BY DEF DrainRequest, histVars
<1>3. CASE Len(mailbox[a]) < MailboxCap[a]
  <2>1. /\ mailbox' = [mailbox EXCEPT ![a] = Append(@, m)]
        /\ req' = [req EXCEPT ![e] = Tail(@)]
    BY <1>3 DEF DrainRequest
  <2>2. /\ box \in Contents /\ UniqueIn(box) /\ b \in Boxes /\ d \in Boxes \ {b}
        /\ box[b] = req[e] /\ b \in Inbox(a) /\ d \in Inbox(a) \ {b}
    BY <1>1, BoxAt, LettersKnown DEF Inbox
  <2> HIDE DEF a, e, m, b, d
  <2>3. m \in Held(box, b) /\ m \in Message /\ m = Head(box[b]) /\ box[b] # <<>>
    BY <1>1, <2>2, HeldTypes DEF m
  <2>4. box' = Put(Cut(box, b), d, m)
    BY <1>1, <1>2, <2>1, <2>3, RequestMoves DEF b, d, m
  <2>5. /\ Held(box', b) = Held(box, b) \ {m} /\ Held(box', d) = Held(box, d) \cup {m}
        /\ \A f \in Boxes \ {b, d} : Held(box', f) = Held(box, f)
    BY <2>2, <2>3, <2>4, ShiftBox
  <2>6. Posted' = Posted
    <3>1. Inside(box', Inbox(a)) = Inside(box, Inbox(a))
      <4>1. \A f \in Inbox(a) \ {b, d} : Held(box', f) = Held(box, f)
        BY <1>1, <2>5, BoxesApart
      <4> QED BY <2>2, <2>3, <2>5, <4>1, InsideMoved
    <3>2. ASSUME NEW u \in Actors, u # a PROVE Inside(box', Inbox(u)) = Inside(box, Inbox(u))
      <4>1. \A f \in Inbox(u) : Held(box', f) = Held(box, f)
        BY <1>1, <2>2, <2>5, <3>2, BoxesApart
      <4> QED BY <4>1, InsideSame
    <3> QED BY <3>1, <3>2, Views
  <2>7. Handling' = Handling /\ Answers' = Answers
    BY <1>2 DEF Handling, Answers
  <2> QED BY <1>2, <2>6, <2>7 DEF AbstractStep, Abstract!vars
<1>4. CASE ~ (Len(mailbox[a]) < MailboxCap[a])
  <2>1. UNCHANGED <<mailbox, req>>
    BY <1>4 DEF DrainRequest
  <2>2. box' = box
    BY <1>2, <2>1 DEF box
  <2> QED BY <1>2, <2>2, StillStep
<1> QED BY <1>3, <1>4

(* ... and a reply on to the turn, which nobody sees.                      *)
LEMMA ReplyStep ==
    ASSUME Types, Letters, NEW c \in Cores, NEW l \in lanes[c], DrainReply(c, l)
    PROVE  AbstractStep
<1> DEFINE e == <<l[2], c>>
           m == Head(rep[e])
           b == <<"rep", e>>
<1>1. e \in Cores \X Cores /\ rep[e] # <<>>
  BY LaneTypes DEF DrainReply, LaneEmpty
<1>2. /\ turn' = Answered(turn, m) /\ rep' = [rep EXCEPT ![e] = Tail(@)]
      /\ UNCHANGED <<mailbox, req, awaiting, issued>>
  BY DEF DrainReply, Answered, histVars
<1>3. /\ box \in Contents /\ UniqueIn(box) /\ b \in Boxes /\ box[b] = rep[e]
      /\ b \in ReplyBoxes /\ b[1] = "rep"
  BY <1>1, BoxAt, LettersKnown DEF ReplyBoxes
<1> HIDE DEF m, e, b
<1>4. m \in Held(box, b) /\ m \in Message /\ m = Head(box[b]) /\ box[b] # <<>>
  BY <1>1, <1>3, HeldTypes DEF m
<1>5. m.from \in Turns /\ ~ turn[m.from].ready
  <2>1. m.from \in Turns /\ m.call /\ KnownMessage(m)
    BY <1>3, <1>4, LettersKnown DEF Routed
  <2> QED BY <2>1 DEF KnownMessage
<1>6. /\ turn'[m.from].ready /\ turn'[m.from].reply = m.id
      /\ \A u \in Turns : turn'[u].busy = turn[u].busy /\ turn'[u].cur = turn[u].cur
      /\ \A u \in Turns : u # m.from => turn'[u] = turn[u]
  <2>1. /\ turn'[m.from].ready /\ turn'[m.from].reply = m.id
        /\ turn'[m.from].busy = turn[m.from].busy /\ turn'[m.from].cur = turn[m.from].cur
        /\ \A u \in Turns : u # m.from => turn'[u] = turn[u]
    BY <1>2, <1>4, AnsweredTypes DEF Types, TurnType
  <2>2. \A u \in Turns : turn'[u].busy = turn[u].busy /\ turn'[u].cur = turn[u].cur
    BY <2>1
  <2> QED BY <2>1, <2>2
<1>7. box' = Cut(box, b)
  <2>1. \A a \in Actors : turn'[a].busy = turn[a].busy /\ turn'[a].cur = turn[a].cur
    BY <1>6, Constants
  <2> QED BY <1>1, <1>2, <2>1, ReplyCuts DEF b
<1>8. /\ Held(box', b) = Held(box, b) \ {m}
      /\ \A d \in Boxes \ {b} : Held(box', d) = Held(box, d)
  BY <1>3, <1>4, <1>7, CutBox
<1>9. Posted' = Posted /\ Handling' = Handling
  <2>1. ASSUME NEW a \in Actors PROVE Inside(box', Inbox(a)) = Inside(box, Inbox(a))
    <3>1. \A d \in Inbox(a) : Held(box', d) = Held(box, d)
      BY <1>3, <1>8, BoxesApart
    <3> QED BY <3>1, InsideSame
  <2>2. Handling' = Handling
    BY <1>6, Constants DEF Handling
  <2> QED BY <2>1, <2>2, Views
<1>10. Answers' = Answers
  <2>1. Inside(box', ReplyBoxes) = Inside(box, ReplyBoxes) \ {m}
    <3>1. \A d \in ReplyBoxes \ {b} : Held(box', d) = Held(box, d)
      BY <1>8, BoxesApart
    <3> QED BY <1>3, <1>4, <1>8, <3>1, InsideCut, BoxesApart
  <2>2. {turn'[u].reply : u \in {v \in Turns : turn'[v].ready}}
            = {turn[u].reply : u \in {v \in Turns : turn[v].ready}} \cup {m.id}
    BY <1>5, <1>6
  <2>3. m \in Inside(box, ReplyBoxes)
    BY <1>3, <1>4 DEF Inside
  <2>4. {x.id : x \in Inside(box, ReplyBoxes)}
            = {x.id : x \in Inside(box, ReplyBoxes) \ {m}} \cup {m.id}
    BY <2>3
  <2> QED BY <2>1, <2>2, <2>4, Views
<1> QED BY <1>2, <1>6, <1>9, <1>10, Constants DEF AbstractStep, Abstract!vars

(* The test returns.                                                       *)
LEMMA ReturnStep ==
    ASSUME Types, Letters, Flow, TestPasses
    PROVE  Abstract!Next
<1>1. /\ UNCHANGED <<mailbox, req, rep, awaiting, issued>> /\ run[0] = Test
      /\ turn' = [turn EXCEPT ![Test].busy = FALSE]
  BY DEF TestPasses, msgVars
<1>2. /\ ~ turn'[Test].busy /\ turn'[Test].ready = turn[Test].ready
      /\ turn'[Test].reply = turn[Test].reply
      /\ \A t \in Turns \ {Test} : turn'[t] = turn[t]
  BY <1>1, Constants DEF Types, TurnType, TurnRecords
<1>3. Posted' = Posted /\ Handling' = Handling
  <2>1. \A a \in Actors : turn'[a] = turn[a]
    BY <1>2, Constants
  <2> QED BY <1>1, <2>1 DEF Posted, Handling
<1>4. Answers' = Answers
  <2>1. \A u \in Turns : turn'[u].ready = turn[u].ready /\ turn'[u].reply = turn[u].reply
    BY <1>2
  <2> QED BY <1>1, <2>1 DEF Answers
<1>5. Abstract!Active(Test) /\ turn[Test].busy
  BY <1>1, RunningActive, Constants DEF Flow
<1>6. Abstract!Return
  BY <1>1, <1>2, <1>3, <1>4, <1>5 DEF Abstract!Return
<1> QED BY <1>6 DEF Abstract!Next
-----------------------------------------------------------------------------
(* The refinement.                                                         *)

(* The boot starts with nothing posted and the test open.                  *)
LEMMA AbstractInit == Init => Abstract!Init
<1> SUFFICES ASSUME Init PROVE Abstract!Init
  OBVIOUS
<1>1. ASSUME NEW t \in Turns
      PROVE  turn[t].busy = (t = Test) /\ ~ turn[t].ready /\ awaiting[t] = 0
  BY <1>1 DEF Init, IdleTurn
<1>2. Members(<<>>) = {}
  BY DEF Members
<1>3. Posted = [a \in Actors |-> {}]
  BY <1>2, InboxAt DEF Init, Posted
<1>4. Handling = [a \in Actors |-> {}]
  BY <1>1, Constants DEF Handling
<1>5. Answers = {}
  <2>1. {turn[t].reply : t \in {u \in Turns : turn[u].ready}} = {}
    BY <1>1
  <2>2. \A e \in Cores \X Cores : {x.id : x \in Members(rep[e])} = {}
    BY <1>2 DEF Init
  <2> QED BY <2>1, <2>2 DEF Answers
<1>6. awaiting = [t \in Actors \cup {Test} |-> 0]
  BY Constants DEF Init
<1> QED BY <1>1, <1>3, <1>4, <1>5, <1>6, Constants DEF Init, Abstract!Init, Abstract!Turns

(* Every step is a step of ActorCalls, or none.                            *)
LEMMA AbstractNext ==
    PostInv /\ Ordered /\ [Next]_vars /\ NoReplyRefused' => AbstractStep
<1> SUFFICES ASSUME Types, Letters, Flow, Ordered, [Next]_vars, ~ refused'
             PROVE  AbstractStep
  BY DEF PostInv, NoReplyRefused
<1> USE DEF msgVars, coreVars, histVars
<1>1. ASSUME UNCHANGED <<mailbox, req, rep, turn, awaiting, issued>> PROVE AbstractStep
  <2>1. box' = box
    BY <1>1 DEF box
  <2> QED BY <1>1, <2>1, StillStep
<1>2. ASSUME NEW c \in Cores, Body(c) PROVE AbstractStep
  BY <1>2, RefuseStep, SendStep, CallStep, FinishStep DEF Body, AbstractStep
<1>3. ASSUME NEW c \in Cores, Executor(c) PROVE AbstractStep
  <2>1. CASE \/ LoopTop(c) \/ NothingRan(c) \/ GoIdle(c) \/ Park(c) \/ Wake(c)
             \/ DrainEnd(c) \/ DrainStart(c)
    BY <1>1, <2>1 DEF LoopTop, NothingRan, GoIdle, Park, Wake, DrainEnd, DrainStart
  <2>2. ASSUME NEW l \in lanes[c], NextLane(c, l) \/ DrainReply(c, l) \/ DrainRequest(c, l)
        PROVE  AbstractStep
    <3>1. CASE NextLane(c, l)
      BY <1>1, <3>1 DEF NextLane
    <3> QED BY <2>2, <3>1, ReplyStep, RequestStep
  <2>3. ASSUME NEW a \in Actors, Select(c, a) PROVE AbstractStep
    BY <2>3, SelectStep DEF AbstractStep
  <2> QED BY <1>3, <2>1, <2>2, <2>3, CheckpointStep DEF Executor, Drain
<1>4. CASE BackEdge \/ ScanIdle \/ ScanPending
  BY <1>1, <1>4 DEF BackEdge, ScanIdle, ScanPending
<1>5. CASE TestPasses
  BY <1>5, ReturnStep DEF AbstractStep
<1>6. CASE UNCHANGED vars
  BY <1>1, <1>6 DEF vars
<1> QED BY <1>2, <1>3, <1>4, <1>5, <1>6 DEF Next, CoreStep, Stopped

(* CallsSpec: the runtime of all cores is one runtime.  Every run of it, the *)
(* mailboxes, rings, drains, wakes and placements left out, is one of        *)
(* ActorCalls: a message is admitted or not, taken once and in its sender's  *)
(* order, and its answer ends the wait of the turn that made the call.       *)
LEMMA RuntimeImplementsCalls == SafetySpec => CallsSpec
<1>1. Init => Ordered
  BY DEF Init, Ordered, OrderedFor, Rising, Earlier, Edges
<1>2. SafetySpec => []Ordered
  BY <1>1, OrderNext, PostInvariant, PTL DEF SafetySpec
<1>3. PostInv /\ PostInv' /\ Ordered /\ [Next]_vars => [Abstract!Next]_(Abstract!vars)
  BY AbstractNext DEF PostInv, AbstractStep
<1> QED BY <1>2, <1>3, AbstractInit, PostInvariant, PTL DEF SafetySpec, CallsSpec, Abstract!Spec
=============================================================================
