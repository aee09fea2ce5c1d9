---------------------------- MODULE ActorProofs ----------------------------
(***************************************************************************)
(* Proofs about Actor for every set of commands and waits, every limit of  *)
(* the history and every size of the pipe: replies reach their command, a  *)
(* late one harms nobody, and close() leaves no process behind.            *)
(***************************************************************************)
EXTENDS Actor, FiniteSetTheorems, TLAPS

IsAnswer(i) == outbox[i].kind \in Answers

\* Both pipes: an id is in at most one place, it is in the table until its
\* reply is read, and a reply says what the process did.
WireInv ==
    /\ \A i \in DOMAIN inbox :
          inbox[i] \in pending /\ outcome[inbox[i]] = "none"
    /\ \A i, j \in DOMAIN inbox : inbox[i] = inbox[j] => i = j
    /\ \A i \in DOMAIN outbox :
          IsAnswer(i) => /\ outbox[i].of \in pending
                         /\ outcome[outbox[i].of] = outbox[i].kind
    /\ \A i, j \in DOMAIN outbox :
          IsAnswer(i) /\ IsAnswer(j) /\ outbox[i].of = outbox[j].of => i = j
    /\ \A c \in All : stage[c] = "idle" => c \notin pending /\ outcome[c] = "none"

\* A command that waits has a future that nobody else gave up, and an answer
\* stays what the process did on its way to the caller.
AnswerInv ==
    /\ \A c \in All : stage[c] \in {"draining", "waiting"} =>
          future[c] \notin {"none", "cancelled"}
    /\ \A c \in All : future[c] \in Answers => future[c] = outcome[c]
    /\ \A c \in All : result[c] \in Answers => result[c] = outcome[c]

\* The reader has ended exactly if it left its reason, and it is not a reply
\* without an id.
ReaderInv ==
    /\ reader = "ended" <=> failure # "none"
    /\ failure # "KeyError"
    /\ failure = "Actor exited" => child = "dead" /\ outbox = <<>>

\* close() goes on to the join only when the process is gone.
CloseInv ==
    /\ closing \in {"joining", "closed"} => child = "dead"
    /\ closing = "closed" => reader = "ended"

\* A wait that failed did so for lack of a match.
WaitInv ==
    \A w \in Waiters :
        wait[w] = "failed" => reader = "ended" /\ Matches(w) <= asked[w].after

\* The pipe to the parent holds Pipe lines; only the line that a dying process
\* has cut can be one more.
PipeInv == Len(outbox) <= IF child = "dead" THEN Pipe + 1 ELSE Pipe

IInv == TypeOK /\ WireInv /\ AnswerInv /\ ReaderInv /\ CloseInv /\ WaitInv

-----------------------------------------------------------------------------
\* The initial state satisfies the invariant.
LEMMA InitIInv ==
    ASSUME Init
    PROVE  IInv
<1>1. TypeOK
  BY BoundsAssumption DEF Init, TypeOK
<1>2. WireInv /\ AnswerInv
  BY DEF Init, WireInv, AnswerInv, Answers
<1>3. ReaderInv /\ CloseInv /\ WaitInv
  BY DEF Init, ReaderInv, CloseInv, WaitInv
<1> QED
  BY <1>1, <1>2, <1>3 DEF IInv

-----------------------------------------------------------------------------
\* Pipes are queues: what is written comes last, what is read came first.
Written(q, r, x) ==
    /\ Len(r) = Len(q) + 1
    /\ DOMAIN r = 1..(Len(q) + 1) /\ DOMAIN q = 1..Len(q)
    /\ \A i \in DOMAIN q : r[i] = q[i]
    /\ r[Len(q) + 1] = x
Taken(q, r) ==
    /\ Len(r) = Len(q) - 1
    /\ DOMAIN r = 1..(Len(q) - 1) /\ DOMAIN q = 1..Len(q) /\ 1 \in DOMAIN q
    /\ \A i \in DOMAIN r : i + 1 \in DOMAIN q /\ r[i] = q[i + 1]
    /\ Head(q) = q[1]

LEMMA Append_Written ==
    ASSUME NEW S, NEW q \in Seq(S), NEW x \in S
    PROVE  Append(q, x) \in Seq(S) /\ Written(q, Append(q, x), x)
<1> QED
  BY DEF Written

LEMMA Tail_Taken ==
    ASSUME NEW S, NEW q \in Seq(S), q # <<>>
    PROVE  /\ Tail(q) \in Seq(S) /\ Head(q) \in S
           /\ Len(q) \in Nat /\ Taken(q, Tail(q))
<1> QED
  BY DEF Taken

\* An event fits the history unless there is a flood.
LEMMA Append_Events ==
    ASSUME events \in Seq(Kinds), Len(events) <= MaxEvents, ~Flood,
           NEW k \in Kinds
    PROVE  /\ Append(events, k) \in Seq(Kinds)
           /\ Len(Append(events, k)) <= MaxEvents
<1> QED
  BY BoundsAssumption DEF Flood

Lines == [kind : Answers \cup {"partial"}, of : All] \cup [kind : {"event"}, of : Kinds]

\* Every step keeps the types.
LEMMA TypeStep ==
    ASSUME IInv, [Next]_vars
    PROVE  TypeOK'
<1> USE BoundsAssumption
    DEF IInv, TypeOK, command, table, history, waits, process
<1>1. ASSUME NEW c \in All, Give(c),
             closing' \in {"open", "exiting"}
      PROVE  TypeOK'
  <2>1. inbox' \in Seq(All)
    <3>1. Append(inbox, c) \in Seq(All)
      BY Append_Written
    <3> QED
      BY <1>1, <3>1 DEF Give
  <2> QED
    BY <1>1, <2>1 DEF Give
<1>2. ASSUME NEW c \in All, Proceed(c) PROVE TypeOK'
  <2>1. CASE Drained(c)
    BY <2>1 DEF Drained
  <2>2. CASE DrainFails(c)
    BY <2>2 DEF DrainFails, Return
  <2>3. CASE Resume(c)
    <3>1. future[c] \notin {"none", "pending", "cancelled"}
      BY <2>3 DEF Resume, AnswerInv
    <3> QED
      BY <2>3, <3>1 DEF Resume, Return
  <2> QED
    BY <1>2, <2>1, <2>2, <2>3 DEF Proceed
<1>3. ASSUME NEW c \in All, Expire(c) PROVE TypeOK'
  BY <1>3 DEF Expire, Return, Forget, Answers
<1>4. ASSUME NEW w \in Waiters, NEW kind \in Kinds, NEW after \in 0..MaxEvents,
             Await(w, kind, after)
      PROVE  TypeOK'
  BY <1>4 DEF Await
<1>5. ASSUME NEW w \in Waiters, Look(w) \/ WaitExpires(w) PROVE TypeOK'
  <2>1. CASE Look(w)
    BY <2>1 DEF Look, Verdict
  <2>2. CASE WaitExpires(w)
    BY <2>2 DEF WaitExpires
  <2> QED
    BY <1>5, <2>1, <2>2
<1>6. ASSUME ReadLine \/ ReadEnd PROVE TypeOK'
  <2>1. Notified \in [Waiters -> {"idle", "awake", "asleep", "got", "failed",
                                  "timeout"}]
    BY DEF Notified
  <2>2. Failed(future) \in [All -> Answers \cup {"none", "pending", "failed",
                                               "cancelled"}]
    BY DEF Failed
  <2>e. ASSUME NEW why \in {"KeyError", "AssertionError", "JSONDecodeError", "Actor exited"},
               End(why), outbox' \in Seq(Lines),
               UNCHANGED <<command, pending, asked, closing, child, inbox, outcome, late>>
        PROVE  TypeOK'
    BY <2>1, <2>2, <2>e DEF End, Lines
  <2>3. CASE ReadEnd
    BY <2>1, <2>2, <2>3 DEF ReadEnd, End
  <2>4. CASE ReadLine
    <3>1. /\ outbox' \in Seq(Lines)
          /\ Head(outbox) \in Lines
      <4>1. outbox \in Seq(Lines)
        BY DEF Lines
      <4> QED
        BY <2>4, <4>1, Tail_Taken DEF ReadLine
    <3>2. CASE Result(Head(outbox))
      <4>1. Head(outbox).of \in All /\ Head(outbox).kind \in Answers
        BY <3>1, <3>2 DEF Result, Lines, Answers
      <4>2. CASE Head(outbox).of \in pending
        <5>1. /\ pending' = pending \ {Head(outbox).of}
              /\ future' = [future EXCEPT ![Head(outbox).of] =
                               IF @ = "pending" THEN Head(outbox).kind ELSE @]
              /\ UNCHANGED <<history, wait>>
          BY <3>2, <4>2 DEF Result, Correlated
        <5>2. future' \in [All -> Answers \cup {"none", "pending", "failed",
                                               "cancelled"}]
          BY <4>1, <5>1
        <5> QED
          BY <2>4, <3>1, <5>1, <5>2 DEF ReadLine, Lines
      <4>3. CASE Head(outbox).of \notin pending
        <5>1. End("KeyError") /\ UNCHANGED pending
          BY <3>2, <4>3 DEF Result, Correlated
        <5> HIDE DEF TypeOK
        <5> QED
          BY <2>e, <2>4, <3>1, <5>1 DEF ReadLine
      <4> QED
        BY <4>2, <4>3
    <3>3. CASE Event(Head(outbox))
      <4>1. Head(outbox).of \in Kinds
        BY <3>1, <3>3 DEF Event, Lines, Answers
      <4>2. CASE Flood
        <5>1. End("AssertionError") /\ UNCHANGED pending
          BY <3>3, <4>2 DEF Event
        <5> HIDE DEF TypeOK
        <5> QED
          BY <2>e, <2>4, <3>1, <5>1 DEF ReadLine
      <4>3. CASE ~Flood
        <5>1. events' \in Seq(Kinds) /\ Len(events') <= MaxEvents
          BY <3>3, <4>1, <4>3, Append_Events DEF Event
        <5> QED
          BY <2>1, <2>4, <3>1, <3>3, <4>3, <5>1 DEF ReadLine, Event, Lines
      <4> QED
        BY <4>2, <4>3
    <3>4. CASE Partial(Head(outbox))
      <4>1. End("JSONDecodeError") /\ UNCHANGED pending
        BY <3>4 DEF Partial
      <4> HIDE DEF TypeOK
      <4> QED
        BY <2>e, <2>4, <3>1, <4>1 DEF ReadLine
    <3> QED
      BY <2>4, <3>2, <3>3, <3>4 DEF ReadLine
  <2> QED
    BY <1>6, <2>3, <2>4
<1>7. ASSUME NEW c \in All, NEW answer \in Answers, Serve(c, answer)
      PROVE  TypeOK'
  <2>1. Line(answer, c) \in Lines
    BY DEF Line, Lines
  <2>2. outbox' \in Seq(Lines)
    <3>1. outbox \in Seq(Lines)
      BY DEF Lines
    <3> QED
      BY <1>7, <2>1, <3>1, Append_Written DEF Serve, Emit
  <2>3. inbox' \in Seq(All)
    BY <1>7, Tail_Taken DEF Serve
  <2> QED
    BY <1>7, <2>2, <2>3 DEF Serve, Lines
<1>8. ASSUME NEW kind \in Kinds, EmitEvent(kind) PROVE TypeOK'
  <2>1. Line("event", kind) \in Lines
    BY DEF Line, Lines
  <2>2. outbox' \in Seq(Lines)
    <3>1. outbox \in Seq(Lines)
      BY DEF Lines
    <3> QED
      BY <1>8, <2>1, <3>1, Append_Written DEF EmitEvent, Emit
  <2> QED
    BY <1>8, <2>2 DEF EmitEvent, Lines
<1>9. CASE Leave
  BY <1>9 DEF Leave
<1>10. CASE Crash
  <2>1. Line("partial", Exit) \in Lines
    BY DEF Line, Lines, All
  <2>2. outbox \in Seq(Lines)
    BY DEF Lines
  <2>3. Append(outbox, Line("partial", Exit)) \in Seq(Lines)
    BY <2>1, <2>2, Append_Written
  <2>4. outbox' \in Seq(Lines)
    BY <1>10, <2>2, <2>3 DEF Crash
  <2> QED
    BY <1>10, <2>4 DEF Crash, Lines
<1>11. CASE CloseDead \/ CloseNext
  BY <1>11 DEF CloseDead, CloseNext, ExitDone, Gone, Kill, Killed, Joined
<1>12. CASE UNCHANGED vars
  BY <1>12 DEF vars
<1>13. ASSUME NEW c \in Commands, Command(c) PROVE TypeOK'
  BY <1>1, <1>13 DEF Command, All
<1>14. CASE CloseExit
  BY <1>1, <1>14 DEF CloseExit, All
<1> QED
  BY <1>2, <1>3, <1>4, <1>5, <1>6, <1>7, <1>8, <1>9, <1>10, <1>11, <1>12,
     <1>13, <1>14
  DEF Next, Read, Process

-----------------------------------------------------------------------------
\* A line that is no reply disturbs neither pipe.
LEMMA WireEvent ==
    ASSUME IInv, NEW line \in Lines, line.kind \notin Answers,
           outbox' = Append(outbox, line),
           UNCHANGED <<inbox, pending, outcome, stage>>
    PROVE  WireInv'
<1>1. outbox \in Seq(Lines)
  BY DEF IInv, TypeOK, Lines
<1>2. Written(outbox, outbox', line) /\ Len(outbox) \in Nat
  BY <1>1, Append_Written
<1>3. \A i \in DOMAIN outbox' :
         IsAnswer(i)' => i \in DOMAIN outbox /\ outbox'[i] = outbox[i]
  BY <1>2 DEF IsAnswer, Written
<1> QED
  BY <1>3 DEF IInv, WireInv, IsAnswer

\* Steps that touch neither pipe nor the table.
LEMMA WireKept ==
    ASSUME IInv, UNCHANGED <<inbox, outbox, outcome, pending>>,
           \A c \in All : stage'[c] = "idle" => stage[c] = "idle"
    PROVE  WireInv'
<1> QED
  BY DEF IInv, WireInv, IsAnswer

\* A command that was idle is in no pipe yet.
LEMMA WireGiven ==
    ASSUME IInv, NEW c \in All, Give(c)
    PROVE  WireInv'
<1>1. /\ c \notin pending /\ outcome[c] = "none" /\ pending' = pending \cup {c}
      /\ outbox' = outbox /\ outcome' = outcome
      /\ \A d \in All : stage'[d] = "idle" => d # c /\ stage[d] = "idle"
      /\ inbox' = inbox \/ inbox' = Append(inbox, c)
  BY DEF Give, process, IInv, TypeOK, WireInv
<1>2. inbox \in Seq(All)
  BY DEF IInv, TypeOK
<1>3. /\ \A i \in DOMAIN inbox' : inbox'[i] \in pending' /\ outcome'[inbox'[i]] = "none"
      /\ \A i, j \in DOMAIN inbox' : inbox'[i] = inbox'[j] => i = j
  <2>1. CASE inbox' = inbox
    BY <1>1, <2>1 DEF IInv, WireInv
  <2>2. CASE inbox' = Append(inbox, c)
    <3>1. Written(inbox, inbox', c) /\ Len(inbox) \in Nat
      BY <1>2, <2>2, Append_Written
    <3>2. \A i \in DOMAIN inbox' : i \in DOMAIN inbox \/ i = Len(inbox) + 1
      BY <3>1 DEF Written
    <3>3. \A i \in DOMAIN inbox : inbox'[i] = inbox[i] /\ inbox[i] # c
      BY <1>1, <3>1 DEF Written, IInv, WireInv
    <3>4. inbox'[Len(inbox) + 1] = c
      BY <3>1 DEF Written
    <3> QED
      BY <1>1, <3>2, <3>3, <3>4 DEF IInv, WireInv
  <2> QED
    BY <1>1, <2>1, <2>2
<1>4. /\ \A i \in DOMAIN outbox' :
            IsAnswer(i)' => /\ outbox'[i].of \in pending'
                            /\ outcome'[outbox'[i].of] = outbox'[i].kind
      /\ \A i, j \in DOMAIN outbox' :
            IsAnswer(i)' /\ IsAnswer(j)' /\ outbox'[i].of = outbox'[j].of => i = j
  BY <1>1 DEF IInv, WireInv, IsAnswer
<1>5. \A d \in All : stage'[d] = "idle" => d \notin pending' /\ outcome'[d] = "none"
  BY <1>1 DEF IInv, WireInv
<1> QED
  BY <1>3, <1>4, <1>5 DEF WireInv

\* The process moves an id from one pipe to the other.
LEMMA WireServed ==
    ASSUME IInv, NEW c \in All, NEW answer \in Answers, Serve(c, answer)
    PROVE  WireInv' /\ outcome[c] = "none"
<1>1. /\ inbox # <<>> /\ Head(inbox) = c /\ inbox' = Tail(inbox)
      /\ outbox' = Append(outbox, Line(answer, c))
      /\ pending' = pending /\ stage' = stage
      /\ outcome' = [outcome EXCEPT ![c] = answer]
  BY DEF Serve, Emit, table, command
<1>2. /\ inbox \in Seq(All) /\ outbox \in Seq(Lines)
      /\ outcome \in [All -> Answers \cup {"none"}]
  BY DEF IInv, TypeOK, Lines
<1>3. Taken(inbox, inbox') /\ Len(inbox) \in Nat
  BY <1>1, <1>2, Tail_Taken
<1>4. Written(outbox, outbox', Line(answer, c)) /\ Len(outbox) \in Nat
  <2>1. Line(answer, c) \in Lines
    BY DEF Line, Lines
  <2> QED
    BY <1>1, <1>2, <2>1, Append_Written
<1>5. c \in pending /\ outcome[c] = "none"
  BY <1>1, <1>3 DEF Taken, IInv, WireInv
<1>6. /\ \A i \in DOMAIN inbox' : inbox'[i] \in pending' /\ outcome'[inbox'[i]] = "none"
      /\ \A i, j \in DOMAIN inbox' : inbox'[i] = inbox'[j] => i = j
  <2>1. \A i \in DOMAIN inbox' :
           /\ i + 1 \in DOMAIN inbox /\ inbox'[i] = inbox[i + 1]
           /\ i \in 1..(Len(inbox) - 1)
    BY <1>3 DEF Taken
  <2>2. \A i \in DOMAIN inbox' : inbox'[i] # c /\ inbox'[i] \in All
    BY <1>1, <1>2, <1>3, <2>1 DEF Taken, IInv, WireInv
  <2>3. \A i \in DOMAIN inbox' : inbox'[i] \in pending' /\ outcome'[inbox'[i]] = "none"
    BY <1>1, <1>2, <2>1, <2>2 DEF IInv, WireInv
  <2>4. \A i, j \in DOMAIN inbox' : inbox'[i] = inbox'[j] => i + 1 = j + 1
    BY <2>1 DEF IInv, WireInv
  <2> QED
    BY <1>3, <2>1, <2>3, <2>4
<1>7. /\ \A i \in DOMAIN outbox' : i \in DOMAIN outbox \/ i = Len(outbox) + 1
      /\ \A i \in DOMAIN outbox : outbox'[i] = outbox[i]
      /\ outbox'[Len(outbox) + 1].of = c /\ outbox'[Len(outbox) + 1].kind = answer
  BY <1>4 DEF Written, Line
<1>8. \A i \in DOMAIN outbox : IsAnswer(i) => /\ outbox[i].of # c
                                              /\ outbox[i].of \in All
  <2>1. pending \subseteq All
    BY DEF IInv, TypeOK
  <2> QED
    BY <1>5, <2>1 DEF IInv, WireInv, IsAnswer, Answers
<1>9. /\ \A i \in DOMAIN outbox' :
            IsAnswer(i)' => /\ outbox'[i].of \in pending'
                            /\ outcome'[outbox'[i].of] = outbox'[i].kind
      /\ \A i, j \in DOMAIN outbox' :
            IsAnswer(i)' /\ IsAnswer(j)' /\ outbox'[i].of = outbox'[j].of => i = j
  BY <1>1, <1>2, <1>5, <1>7, <1>8 DEF IInv, WireInv, IsAnswer
<1>10. \A d \in All : stage'[d] = "idle" => d \notin pending' /\ outcome'[d] = "none"
  BY <1>1, <1>2, <1>5 DEF IInv, WireInv
<1> QED
  BY <1>5, <1>6, <1>9, <1>10 DEF WireInv

\* The reader takes a line; the reply it may be is the only one to its id.
LEMMA WireRead ==
    ASSUME IInv, ReadLine
    PROVE  /\ WireInv'
           /\ Result(Head(outbox)) => /\ Head(outbox).of \in pending
                                      /\ outcome[Head(outbox).of] = Head(outbox).kind
<1>1. /\ outbox # <<>> /\ outbox' = Tail(outbox) /\ stage' = stage
      /\ inbox' = inbox /\ outcome' = outcome
  BY DEF ReadLine, command
<1>2. outbox \in Seq(Lines)
  BY DEF IInv, TypeOK, Lines
<1>3. Taken(outbox, outbox') /\ Len(outbox) \in Nat
  BY <1>1, <1>2, Tail_Taken
<1>4. /\ \A i \in DOMAIN outbox' :
            /\ i + 1 \in DOMAIN outbox /\ outbox'[i] = outbox[i + 1]
            /\ i \in 1..(Len(outbox) - 1)
      /\ 1 \in DOMAIN outbox /\ Head(outbox) = outbox[1]
  BY <1>3 DEF Taken
<1>5. CASE Result(Head(outbox))
  <2> DEFINE c == Head(outbox).of
  <2>1. IsAnswer(1)
    BY <1>4, <1>5 DEF Result, IsAnswer
  <2>2. c \in pending /\ outcome[c] = Head(outbox).kind /\ outcome[c] # "none"
    BY <1>4, <2>1 DEF IInv, WireInv, IsAnswer, Answers
  <2>3. pending' = pending \ {c}
    BY <1>5, <2>2 DEF Result, Correlated
  <2>4. \A i \in DOMAIN outbox' : IsAnswer(i)' => outbox'[i].of # c
    <3> SUFFICES ASSUME NEW i \in DOMAIN outbox', IsAnswer(i)', outbox'[i].of = c
                 PROVE  FALSE
      OBVIOUS
    <3>1. IsAnswer(i + 1) /\ outbox[i + 1].of = outbox[1].of
      BY <1>4 DEF IsAnswer
    <3>2. i + 1 = 1
      BY <1>4, <2>1, <3>1 DEF IInv, WireInv
    <3> QED
      BY <1>3, <1>4, <3>2
  <2> HIDE DEF c
  <2>5. /\ \A i \in DOMAIN inbox' : inbox'[i] \in pending' /\ outcome'[inbox'[i]] = "none"
        /\ \A i, j \in DOMAIN inbox' : inbox'[i] = inbox'[j] => i = j
    BY <1>1, <2>2, <2>3 DEF IInv, WireInv
  <2>6. \A i \in DOMAIN outbox' :
           IsAnswer(i)' => /\ outbox'[i].of \in pending'
                           /\ outcome'[outbox'[i].of] = outbox'[i].kind
    BY <1>1, <1>4, <2>3, <2>4 DEF IInv, WireInv, IsAnswer
  <2>7. \A i, j \in DOMAIN outbox' :
           IsAnswer(i)' /\ IsAnswer(j)' /\ outbox'[i].of = outbox'[j].of
              => i + 1 = j + 1
    BY <1>4 DEF IInv, WireInv, IsAnswer
  <2>8. \A i, j \in DOMAIN outbox' : i + 1 = j + 1 => i = j
    BY <1>3, <1>4
  <2>9. \A d \in All : stage'[d] = "idle" => d \notin pending' /\ outcome'[d] = "none"
    BY <1>1, <2>3 DEF IInv, WireInv
  <2>10. WireInv'
    BY <2>5, <2>6, <2>7, <2>8, <2>9 DEF WireInv
  <2> QED
    BY <2>2, <2>10 DEF c
<1>6. CASE ~Result(Head(outbox))
  <2>1. pending' = pending
    BY <1>6 DEF ReadLine, Event, Partial
  <2>2. \A i, j \in DOMAIN outbox' :
           IsAnswer(i)' /\ IsAnswer(j)' /\ outbox'[i].of = outbox'[j].of
              => i + 1 = j + 1
    BY <1>4 DEF IInv, WireInv, IsAnswer
  <2>3. \A i, j \in DOMAIN outbox' : i + 1 = j + 1 => i = j
    BY <1>3, <1>4
  <2> QED
    BY <1>1, <1>4, <1>6, <2>1, <2>2, <2>3 DEF IInv, WireInv, IsAnswer
<1> QED
  BY <1>5, <1>6

\* Every step keeps the pipes in order.
LEMMA WireStep ==
    ASSUME IInv, [Next]_vars
    PROVE  WireInv'
<1>1. ASSUME NEW c \in Commands, Command(c) PROVE WireInv'
  BY <1>1, WireGiven DEF Command, All
<1>2. CASE CloseExit
  BY <1>2, WireGiven DEF CloseExit, All
<1>3. ASSUME \/ \E c \in All : Proceed(c) \/ Expire(c)
             \/ \E w \in Waiters, kind \in Kinds, after \in 0..MaxEvents :
                   Await(w, kind, after)
             \/ \E w \in Waiters : Look(w) \/ WaitExpires(w)
             \/ ReadEnd \/ Leave \/ CloseDead \/ CloseNext \/ UNCHANGED vars
      PROVE  WireInv'
  <2>1. /\ UNCHANGED <<inbox, outbox, outcome, pending>>
        /\ \A c \in All : stage'[c] = "idle" => stage[c] = "idle"
    <3>1. ASSUME NEW c \in All, Proceed(c)
          PROVE  /\ UNCHANGED <<inbox, outbox, outcome, pending>>
                 /\ \A d \in All : stage'[d] = "idle" => stage[d] = "idle"
      BY <3>1 DEF Proceed, Drained, DrainFails, Resume, Return, table, process, IInv,
          TypeOK
    <3>2. ASSUME NEW c \in All, Expire(c)
          PROVE  /\ UNCHANGED <<inbox, outbox, outcome, pending>>
                 /\ \A d \in All : stage'[d] = "idle" => stage[d] = "idle"
      BY <3>2 DEF Expire, Forget, Return, process, IInv, TypeOK
    <3>3. CASE UNCHANGED <<stage, inbox, outbox, outcome, pending>>
      BY <3>3
    <3>4. ASSUME NEW w \in Waiters, NEW kind \in Kinds, NEW after \in 0..MaxEvents,
                 Await(w, kind, after)
          PROVE  UNCHANGED <<stage, inbox, outbox, outcome, pending>>
      BY <3>4 DEF Await, command, table, process
    <3>5. ASSUME NEW w \in Waiters, Look(w) \/ WaitExpires(w)
          PROVE  UNCHANGED <<stage, inbox, outbox, outcome, pending>>
      BY <3>5 DEF Look, WaitExpires, command, table, process
    <3>6. CASE ReadEnd \/ Leave \/ CloseDead \/ UNCHANGED vars
      BY <3>3, <3>6 DEF ReadEnd, Leave, CloseDead, command, table, process, vars
    <3>7. CASE CloseNext
      BY <3>3, <3>7
      DEF CloseNext, ExitDone, Gone, Kill, Joined, command, table, process
    <3> QED
      BY <1>3, <3>1, <3>2, <3>3, <3>4, <3>5, <3>6, <3>7
  <2> QED
    BY <2>1, WireKept
<1>4. CASE ReadLine
  BY <1>4, WireRead
<1>5. ASSUME NEW c \in All, NEW answer \in Answers, Serve(c, answer)
      PROVE  WireInv'
  BY <1>5, WireServed
<1>6. ASSUME NEW kind \in Kinds, EmitEvent(kind) PROVE WireInv'
  <2>1. Line("event", kind) \in Lines /\ Line("event", kind).kind \notin Answers
    BY DEF Line, Lines, Answers
  <2> QED
    BY <1>6, <2>1, WireEvent DEF EmitEvent, Emit, table, command
<1>7. CASE Crash
  <2>1. Line("partial", Exit) \in Lines /\ Line("partial", Exit).kind \notin Answers
    BY DEF Line, Lines, Answers, All
  <2>2. UNCHANGED <<inbox, pending, outcome, stage>>
    BY <1>7 DEF Crash, table, command
  <2>3. CASE outbox' = outbox
    BY <2>2, <2>3, WireKept
  <2>4. CASE outbox' = Append(outbox, Line("partial", Exit))
    BY <2>1, <2>2, <2>4, WireEvent
  <2> QED
    BY <1>7, <2>3, <2>4 DEF Crash
<1> QED
  BY <1>1, <1>2, <1>3, <1>4, <1>5, <1>6, <1>7 DEF Next, Read, Process

-----------------------------------------------------------------------------
RestInv == AnswerInv /\ ReaderInv /\ CloseInv /\ WaitInv

\* The events of a kind can be counted.
LEMMA CountIsNat ==
    ASSUME TypeOK, NEW kind
    PROVE  Count(kind) \in Nat
<1>1. Len(events) \in Nat /\ DOMAIN events = 1..Len(events)
  <2>1. events \in Seq(Kinds)
    BY DEF TypeOK
  <2> QED
    BY <2>1
<1>2. IsFiniteSet(1..Len(events))
  BY <1>1, FS_Interval
<1>3. {i \in DOMAIN events : events[i] = kind} \subseteq 1..Len(events)
  BY <1>1
<1> QED
  BY <1>2, <1>3, FS_Subset, FS_CardinalityType DEF Count

\* The end of the reader gives nobody an answer, and whoever waits looks again.
LEMMA RestEnd ==
    ASSUME IInv, NEW why \in {"AssertionError", "JSONDecodeError", "Actor exited"},
           End(why), reader = "reading",
           UNCHANGED <<command, asked, closing, child, outcome>>,
           why = "Actor exited" => child = "dead" /\ outbox' = <<>>
    PROVE  RestInv'
<1>1. /\ TypeOK /\ RestInv /\ failure = "none"
      /\ failure' = why /\ reader' = "ended" /\ future' = Failed(future)
      /\ wait' = Notified /\ events' = events
  BY DEF End, IInv, RestInv, ReaderInv, TypeOK
<1>2. \A c \in All : \/ future'[c] = future[c]
                     \/ future'[c] = "failed"
  BY <1>1 DEF Failed
<1>3. AnswerInv'
  BY <1>1, <1>2 DEF RestInv, AnswerInv, Answers, command
<1>4. \A w \in Waiters : wait'[w] = "failed" => wait[w] = "failed"
  BY <1>1 DEF Notified
<1>5. WaitInv'
  BY <1>1, <1>4 DEF RestInv, WaitInv, Matches, Count
<1>6. ReaderInv' /\ CloseInv'
  BY <1>1 DEF RestInv, ReaderInv, CloseInv
<1> QED
  BY <1>3, <1>5, <1>6 DEF RestInv

\* The reader takes a line.
LEMMA RestRead ==
    ASSUME IInv, ReadLine
    PROVE  RestInv'
<1>1. /\ reader = "reading" /\ outbox' = Tail(outbox)
      /\ UNCHANGED <<command, asked, closing, child, outcome>>
  BY DEF ReadLine
<1>2. TypeOK /\ RestInv /\ failure = "none"
  BY <1>1 DEF IInv, RestInv, ReaderInv, TypeOK
<1>3. CASE Result(Head(outbox))
  <2> DEFINE c == Head(outbox).of
  <2>1. c \in pending /\ c \in All /\ outcome[c] = Head(outbox).kind
    BY <1>2, <1>3, WireRead DEF TypeOK
  <2>2. /\ future' = [future EXCEPT ![c] =
                         IF @ = "pending" THEN Head(outbox).kind ELSE @]
        /\ UNCHANGED <<history, wait>>
    BY <1>3, <2>1 DEF Result, Correlated
  <2> HIDE DEF c
  <2>3. \A d \in All : \/ future'[d] = future[d]
                       \/ /\ future'[d] = outcome[d]
                          /\ future[d] = "pending"
    BY <1>2, <2>1, <2>2 DEF TypeOK
  <2>4. Head(outbox).kind \in Answers
    BY <1>3 DEF Result
  <2>5. \A d \in All : \/ future'[d] = future[d]
                       \/ future'[d] = outcome[d] /\ future'[d] \in Answers
    BY <1>2, <2>1, <2>2, <2>4 DEF TypeOK
  <2>6. AnswerInv'
    BY <1>1, <1>2, <2>5 DEF RestInv, AnswerInv, Answers, command
  <2>7. ReaderInv' /\ CloseInv' /\ WaitInv'
    BY <1>1, <1>2, <2>2
    DEF RestInv, ReaderInv, CloseInv, WaitInv, Matches,
        Count, history
  <2> QED
    BY <2>6, <2>7 DEF RestInv
<1>4. CASE Event(Head(outbox))
  <2>1. CASE Flood
    BY <1>1, <1>4, <2>1, RestEnd DEF Event
  <2>2. CASE ~Flood
    <3>1. wait' = Notified /\ UNCHANGED <<future, failure, reader>>
      BY <1>4, <2>2 DEF Event
    <3>2. \A w \in Waiters : wait'[w] # "failed"
      BY <1>1, <1>2, <3>1 DEF Notified, RestInv, WaitInv
    <3> QED
      BY <1>1, <1>2, <3>1, <3>2
      DEF RestInv, AnswerInv, ReaderInv, CloseInv, WaitInv,
          command
  <2> QED
    BY <2>1, <2>2
<1>5. CASE Partial(Head(outbox))
  BY <1>1, <1>5, RestEnd DEF Partial
<1> QED
  BY <1>3, <1>4, <1>5 DEF ReadLine

\* A wait fails only after it has counted the matches.
LEMMA RestLook ==
    ASSUME IInv, NEW w \in Waiters, Look(w) \/ WaitExpires(w)
    PROVE  RestInv'
<1>1. TypeOK /\ RestInv
  BY DEF IInv, RestInv
<1>2. Matches(w) \in Nat /\ asked[w].after \in Nat
  <2>1. Matches(w) \in Nat
    BY <1>1, CountIsNat DEF Matches
  <2>2. asked[w] \in [kind : Kinds \cup {"none"}, after : 0..MaxEvents]
    BY <1>1 DEF TypeOK
  <2> QED
    BY <2>1, <2>2, BoundsAssumption
<1>3. /\ \A v \in Waiters : v # w => wait'[v] = wait[v]
      /\ UNCHANGED <<asked, command, table, history, closing, process>>
  BY <1>1 DEF Look, WaitExpires, TypeOK
<1>4. wait'[w] = "failed" => failure # "none" /\ ~(Matches(w) > asked[w].after)
  BY <1>1 DEF Look, WaitExpires, Verdict, TypeOK
<1>5. \A v \in Waiters : Matches(v)' = Matches(v) /\ asked'[v] = asked[v]
  BY <1>3 DEF Matches, Count, history
<1>6. Matches(w) <= asked[w].after \/ Matches(w) > asked[w].after
  BY <1>2
<1>7. WaitInv'
  BY <1>1, <1>3, <1>4, <1>5, <1>6 DEF RestInv, WaitInv, ReaderInv, history
<1> QED
  BY <1>1, <1>3, <1>7
  DEF RestInv, AnswerInv, ReaderInv,
      CloseInv, command, table, history, process

\* Every step keeps the answers, the reader, close() and the waits.
LEMMA RestStep ==
    ASSUME IInv, [Next]_vars
    PROVE  RestInv'
<1>1. TypeOK /\ RestInv
  BY DEF IInv, RestInv
<1> USE <1>1
    DEF RestInv, AnswerInv, ReaderInv,
        CloseInv, WaitInv, Matches, Count, command, table, history, waits,
        process
<1>2. ASSUME NEW c \in All, Give(c), closing' \in {closing, "exiting"}
      PROVE  RestInv'
  <2>1. \A d \in All : d # c => stage'[d] = stage[d] /\ future'[d] = future[d]
    BY <1>2 DEF Give, TypeOK
  <2>2. future'[c] = "pending" /\ "pending" \notin Answers
    BY <1>2 DEF Give, TypeOK, Answers
  <2>3. UNCHANGED <<result, outcome, events, failure, reader, wait, asked,
                    child, outbox>>
    BY <1>2 DEF Give
  <2> QED
    BY <1>2, <2>1, <2>2, <2>3
<1>3. ASSUME NEW c \in All, Proceed(c) PROVE RestInv'
  <2>1. CASE Drained(c)
    BY <2>1 DEF Drained, TypeOK
  <2>2. CASE DrainFails(c)
    BY <2>2 DEF DrainFails, Return, TypeOK, Answers
  <2>3. CASE Resume(c)
    BY <2>3 DEF Resume, Return, TypeOK
  <2> QED
    BY <1>3, <2>1, <2>2, <2>3 DEF Proceed
<1>4. ASSUME NEW c \in All, Expire(c) PROVE RestInv'
  BY <1>4 DEF Expire, Return, TypeOK, Answers
<1>5. ASSUME NEW w \in Waiters, NEW kind \in Kinds, NEW after \in 0..MaxEvents,
             Await(w, kind, after)
      PROVE  RestInv'
  BY <1>5 DEF Await, TypeOK
<1>6. ASSUME NEW w \in Waiters, Look(w) \/ WaitExpires(w) PROVE RestInv'
  BY <1>6, RestLook
<1>7. CASE ReadLine
  BY <1>7, RestRead
<1>8. CASE ReadEnd
  BY <1>8, RestEnd DEF ReadEnd
<1>9. ASSUME NEW c \in All, NEW answer \in Answers, Serve(c, answer)
      PROVE  RestInv'
  <2>1. c \in All /\ outcome[c] = "none"
    BY <1>9, WireServed
  <2>2. future[c] \notin Answers /\ result[c] \notin Answers
    BY <2>1 DEF Answers
  <2>3. /\ \A d \in All : d # c => outcome'[d] = outcome[d]
        /\ child # "dead" /\ child' # "dead"
        /\ UNCHANGED <<command, table, history, waits, closing>>
    BY <1>9, <2>1 DEF Serve, Emit, TypeOK
  <2> QED
    BY <2>2, <2>3
<1>10. ASSUME NEW kind \in Kinds, EmitEvent(kind) PROVE RestInv'
  BY <1>10 DEF EmitEvent, Emit
<1>11. CASE Leave \/ Crash
  BY <1>11 DEF Leave, Crash
<1>12. CASE CloseDead \/ CloseNext
  <2>1. CASE CloseDead
    BY <2>1 DEF CloseDead
  <2>2. CASE ExitDone
    BY <2>2 DEF ExitDone
  <2>3. CASE Gone
    BY <2>3 DEF Gone
  <2>4. CASE Kill
    BY <2>4 DEF Kill, Killed
  <2>5. CASE Joined
    BY <2>5 DEF Joined
  <2> QED
    BY <1>12, <2>1, <2>2, <2>3, <2>4, <2>5 DEF CloseNext
<1>13. CASE UNCHANGED vars
  BY <1>13 DEF vars
<1>14. ASSUME NEW c \in Commands, Command(c) PROVE RestInv'
  BY <1>2, <1>14 DEF Command, All
<1>15. CASE CloseExit
  BY <1>2, <1>15 DEF CloseExit, All
<1> QED
  BY <1>3, <1>4, <1>5, <1>6, <1>7, <1>8, <1>9, <1>10, <1>11, <1>12, <1>13,
     <1>14, <1>15
  DEF Next, Read, Process

-----------------------------------------------------------------------------
\* The inductive invariant holds in every reachable state.
THEOREM Invariance == Spec => []IInv
<1>1. Init => IInv
  BY InitIInv
<1>2. IInv /\ [Next]_vars => IInv'
  BY TypeStep, WireStep, RestStep DEF IInv, RestInv
<1> QED
  BY <1>1, <1>2, PTL DEF Spec

\* Who writes to the pipe finds room in it, or dies; who reads it makes room.
LEMMA PipeStep ==
    ASSUME IInv, PipeInv, [Next]_vars
    PROVE  PipeInv'
<1>1. outbox \in Seq(Lines) /\ Len(outbox) \in Nat /\ Pipe \in Nat
  <2>1. outbox \in Seq(Lines)
    BY DEF IInv, TypeOK, Lines
  <2> QED
    BY <2>1, BoundsAssumption
<1>2. ASSUME NEW x \in Lines PROVE Len(Append(outbox, x)) = Len(outbox) + 1
  BY <1>1, Append_Written DEF Written
<1> USE DEF PipeInv, command, table, history, waits, process
<1>3. ASSUME outbox' = outbox, child' = child \/ child' = "dead"
      PROVE  PipeInv'
  BY <1>1, <1>3
<1>4. ASSUME NEW c \in All, NEW answer \in Answers, Serve(c, answer)
      PROVE  PipeInv'
  <2>1. Line(answer, c) \in Lines
    BY DEF Line, Lines
  <2>2. /\ outbox' = Append(outbox, Line(answer, c)) /\ Len(outbox) < Pipe
        /\ child # "dead"
    BY <1>4 DEF Serve, Emit
  <2>3. Len(outbox') <= Pipe
    BY <1>1, <1>2, <2>1, <2>2
  <2> QED
    BY <1>1, <2>3
<1>5. ASSUME NEW kind \in Kinds, EmitEvent(kind)
      PROVE  PipeInv'
  <2>1. Line("event", kind) \in Lines
    BY DEF Line, Lines
  <2>2. /\ outbox' = Append(outbox, Line("event", kind)) /\ Len(outbox) < Pipe
    BY <1>5 DEF EmitEvent, Emit
  <2>3. Len(outbox') <= Pipe
    BY <1>1, <1>2, <2>1, <2>2
  <2> QED
    BY <1>1, <2>3
<1>6. CASE Crash
  <2>1. Line("partial", Exit) \in Lines
    BY DEF Line, Lines, All
  <2>2. Len(outbox') <= Len(outbox) + 1
    BY <1>1, <1>2, <1>6, <2>1 DEF Crash
  <2>3. Len(outbox) <= Pipe /\ child' = "dead" /\ Len(outbox') \in Nat
    BY <1>1, <1>2, <1>6, <2>1 DEF Crash
  <2> QED
    BY <1>1, <2>2, <2>3
<1>7. CASE ReadLine
  <2>1. outbox # <<>> /\ outbox' = Tail(outbox) /\ child' = child
    BY <1>7 DEF ReadLine
  <2>2. Len(outbox') = Len(outbox) - 1
    BY <1>1, <2>1, Tail_Taken DEF Taken
  <2> QED
    BY <1>1, <2>1, <2>2
<1>8. CASE ReadEnd \/ Leave \/ CloseDead \/ CloseNext \/ UNCHANGED vars
  BY <1>3, <1>8
  DEF ReadEnd, Leave, CloseDead, CloseNext, ExitDone, Gone, Kill, Killed, Joined, vars
<1>9. ASSUME NEW c \in All, Give(c) \/ Proceed(c) \/ Expire(c)
      PROVE  PipeInv'
  BY <1>3, <1>9 DEF Give, Proceed, Drained, DrainFails, Resume, Expire
<1>10. ASSUME NEW w \in Waiters, NEW kind \in Kinds, NEW after \in 0..MaxEvents,
              Await(w, kind, after)
       PROVE  PipeInv'
  BY <1>3, <1>10 DEF Await
<1>11. ASSUME NEW w \in Waiters, Look(w) \/ WaitExpires(w)
       PROVE  PipeInv'
  BY <1>3, <1>11 DEF Look, WaitExpires
<1>12. ASSUME NEW c \in Commands, Command(c) PROVE PipeInv'
  BY <1>9, <1>12 DEF Command, All
<1>13. CASE CloseExit
  BY <1>9, <1>13 DEF CloseExit, All
<1> HIDE DEF PipeInv
<1> QED
  BY <1>4, <1>5, <1>6, <1>7, <1>8, <1>9, <1>10, <1>11, <1>12, <1>13
  DEF Next, Read, Process

\* Type correctness and the two limits: the history never holds more than
\* MaxEvents events, and the pipe never more than Pipe lines, but for the line
\* that the process cuts when it dies (Actor.read).
THEOREM TypeCorrect == Spec => [](TypeOK /\ PipeInv)
<1>1. Init => PipeInv
  BY BoundsAssumption DEF Init, PipeInv
<1>2. IInv /\ PipeInv /\ [Next]_vars => PipeInv'
  BY PipeStep
<1>3. IInv => TypeOK
  BY DEF IInv
<1> QED
  BY <1>1, <1>2, <1>3, Invariance, PTL DEF Spec

\* A command returns what the process answered to that command: the replies of
\* commands that timed out neither reach another nor end the reader
\* (Actor.read, Actor.command).
THEOREM Safe_RepliesMatch == Spec => []RepliesMatch
<1>1. IInv => RepliesMatch
  BY DEF IInv, AnswerInv, ReaderInv, RepliesMatch
<1> QED
  BY <1>1, Invariance, PTL

\* An event that arrived before the actor failed is not hidden by the failure
\* (Actor.event).
THEOREM Safe_FailureOnlyWithoutMatch == Spec => []FailureOnlyWithoutMatch
<1>1. IInv => FailureOnlyWithoutMatch
  BY DEF IInv, WaitInv, FailureOnlyWithoutMatch
<1> QED
  BY <1>1, Invariance, PTL

\* close() leaves neither a process nor a reader behind (Actor.close).
THEOREM Safe_ClosedLeavesNothing == Spec => []ClosedLeavesNothing
<1>1. IInv => ClosedLeavesNothing
  BY DEF IInv, ReaderInv, CloseInv, ClosedLeavesNothing
<1> QED
  BY <1>1, Invariance, PTL

-----------------------------------------------------------------------------
\* EndReachesAll, and why: as long as the reader reads, an open future is in
\* the table, where the end of the reader will find it.
EndInv ==
    /\ EndReachesAll
    /\ \A c \in All :
          reader = "reading" /\ stage[c] \in {"draining", "waiting"}
             /\ future[c] = "pending" => c \in pending

\* The end of the reader fails every future in the table and wakes everybody.
LEMMA EndReached ==
    ASSUME IInv, EndInv, NEW why, End(why), reader = "reading",
           UNCHANGED <<stage, pending, late>>
    PROVE  EndInv'
<1>1. /\ reader' = "ended"
      /\ \A c \in All : future'[c] = IF c \in pending /\ future[c] = "pending"
                                    THEN "failed" ELSE future[c]
      /\ \A w \in Waiters : wait'[w] # "asleep"
  BY DEF End, Failed, Notified
<1> QED
  BY <1>1 DEF EndInv, EndReachesAll

\* Every step preserves it.
LEMMA EndStep ==
    ASSUME IInv, EndInv, [Next]_vars
    PROVE  EndInv'
<1> USE DEF IInv, EndInv, EndReachesAll, TypeOK, command, table, history, waits,
            process
<1>1. ASSUME NEW c \in All, Give(c) PROVE EndInv'
  BY <1>1 DEF Give
<1>2. ASSUME NEW c \in All, Proceed(c) PROVE EndInv'
  <2>1. CASE Drained(c)
    <3>1. \A d \in All : stage'[d] \in {"draining", "waiting"}
                           => stage[d] \in {"draining", "waiting"}
      BY <2>1 DEF Drained
    <3>2. UNCHANGED <<future, pending, reader, wait, late>>
      BY <2>1 DEF Drained
    <3> QED
      BY <3>1, <3>2
  <2>2. CASE DrainFails(c)
    BY <2>2 DEF DrainFails, Return
  <2>3. CASE Resume(c)
    BY <2>3 DEF Resume, Return
  <2> QED
    BY <1>2, <2>1, <2>2, <2>3 DEF Proceed
<1>3. ASSUME NEW c \in All, Expire(c) PROVE EndInv'
  BY <1>3 DEF Expire, Return, Forget
<1>4. ASSUME NEW w \in Waiters, NEW kind \in Kinds, NEW after \in 0..MaxEvents,
             Await(w, kind, after)
      PROVE  EndInv'
  BY <1>4 DEF Await
<1>5. ASSUME NEW w \in Waiters, Look(w) PROVE EndInv'
  <2>1. reader = "ended" => Verdict(w) # "asleep"
    BY DEF Verdict, ReaderInv
  <2> QED
    BY <1>5, <2>1 DEF Look
<1>6. ASSUME NEW w \in Waiters, WaitExpires(w) PROVE EndInv'
  BY <1>6 DEF WaitExpires
<1>7. CASE ReadLine
  <2>1. reader = "reading" /\ UNCHANGED <<stage, late>>
    BY <1>7 DEF ReadLine
  <2>2. CASE \E why : End(why) /\ UNCHANGED pending
    BY <2>1, <2>2, EndReached
  <2>3. CASE UNCHANGED <<future, pending, reader>>
    BY <2>1, <2>3
  <2>4. ASSUME NEW c, c \in pending, pending' = pending \ {c},
               NEW answer \in Answers,
               future' = [future EXCEPT ![c] = IF @ = "pending" THEN answer ELSE @],
               reader' = reader
        PROVE  EndInv'
    BY <2>1, <2>4 DEF Answers
  <2>5. CASE Result(Head(outbox))
    BY <2>2, <2>4, <2>5 DEF Result, Correlated
  <2>6. CASE Event(Head(outbox))
    BY <2>2, <2>3, <2>6 DEF Event
  <2>7. CASE Partial(Head(outbox))
    BY <2>2, <2>7 DEF Partial
  <2> QED
    BY <1>7, <2>5, <2>6, <2>7 DEF ReadLine
<1>8. CASE ReadEnd
  BY <1>8, EndReached DEF ReadEnd
<1>9. CASE Process
  BY <1>9 DEF Process, Serve, EmitEvent, Leave, Crash
<1>10. CASE CloseDead \/ CloseNext
  BY <1>10 DEF CloseDead, CloseNext, ExitDone, Gone, Kill, Joined
<1>11. CASE UNCHANGED vars
  BY <1>11 DEF vars
<1> QED
  BY <1>1, <1>2, <1>3, <1>4, <1>5, <1>6, <1>7, <1>8, <1>9, <1>10, <1>11
  DEF Next, Read, Command, CloseExit, All

\* The end of the reader reaches every command given before it, drained or
\* not, and every event() (Actor.read).
THEOREM Safe_EndReachesAll == Spec => []EndReachesAll
<1>1. Init => EndInv
  BY DEF Init, EndInv, EndReachesAll
<1>2. IInv /\ EndInv /\ [Next]_vars => EndInv'
  BY EndStep
<1>3. EndInv => EndReachesAll
  BY DEF EndInv
<1> QED
  BY <1>1, <1>2, <1>3, Invariance, PTL DEF Spec
=============================================================================
