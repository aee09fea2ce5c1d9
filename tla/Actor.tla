------------------------------- MODULE Actor -------------------------------
(***************************************************************************)
(* The driver of one SDK process in the interoperability fixture: class    *)
(* Actor of scripts/interop.py and the process at the other end of its     *)
(* pipes, tests/interop/csharp/Program.cs.  Commands go down one pipe;     *)
(* replies and events come back on the other, in any relation to the       *)
(* deadlines of the parent, and the process may die between two steps.     *)
(* The parent is one asyncio loop: a step is the code between two awaits.  *)
(* No task awaits while it holds the condition's lock, so taking the lock  *)
(* is not a step.                                                          *)
(***************************************************************************)
EXTENDS Naturals, Sequences, FiniteSets

CONSTANTS
    Commands,    \* the commands of a scenario, each given once
    Exit,        \* the command that close() gives
    Waiters,     \* the calls of event()
    Kinds,       \* kinds of events
    MaxEvents,   \* 512 in read()
    Pipe         \* bound: lines that fit into the pipe to the parent

ASSUME BoundsAssumption == MaxEvents \in Nat /\ Pipe \in Nat \ {0}
ASSUME ExitAssumption == Exit \notin Commands

All == Commands \cup {Exit}

VARIABLES
    stage,    \* where each command is: idle, draining, waiting, done
    future,   \* its future
    result,   \* how it ended for the scenario
    pending,  \* Actor.pending: the ids in the table
    events,   \* Actor.events
    failure,  \* Actor.failure
    reader,   \* the task Actor.reader: reading, ended
    wait,     \* how each event() stands: idle, awake, asleep, or its end
    asked,    \* what each event() waits for
    closing,  \* where close() is
    child,    \* the process: running, leaving (after exit), dead
    inbox,    \* its stdin
    outbox,   \* its stdout, not yet read by the parent
    outcome,  \* history: what the process did with each command
    late      \* history: commands given after the reader had ended

command == <<stage, result>>
table == <<future, pending>>
history == <<events, failure, reader>>
process == <<child, inbox, outbox, outcome>>
waits == <<wait, asked>>
vars == <<command, table, history, waits, closing, process, late>>

Line(kind, of) == [kind |-> kind, of |-> of]
Answers == {"ok", "rejected"}
Waiting(w) == wait[w] \in {"asleep", "awake"}

Init ==
    /\ stage = [c \in All |-> "idle"] /\ result = [c \in All |-> "none"]
    /\ future = [c \in All |-> "none"] /\ pending = {}
    /\ events = <<>> /\ failure = "none" /\ reader = "reading"
    /\ wait = [w \in Waiters |-> "idle"]
    /\ asked = [w \in Waiters |-> [kind |-> "none", after |-> 0]]
    /\ closing = "open"
    /\ child = "running" /\ inbox = <<>> /\ outbox = <<>>
    /\ outcome = [c \in All |-> "none"] /\ late = {}

-----------------------------------------------------------------------------
(* command()                                                               *)

\* The id enters the table, the line is written.  A process that is gone
\* reads nothing, and write() does not say so.
Give(c) ==
    /\ stage[c] = "idle"
    /\ stage' = [stage EXCEPT ![c] = "draining"]
    /\ future' = [future EXCEPT ![c] = "pending"]
    /\ pending' = pending \cup {c}
    /\ inbox' = IF child = "dead" THEN inbox ELSE Append(inbox, c)
    /\ late' = IF reader = "ended" THEN late \cup {c} ELSE late
    /\ UNCHANGED <<result, history, waits, child, outbox, outcome>>

Command(c) == closing = "open" /\ Give(c) /\ UNCHANGED closing

Return(c, how) ==
    /\ stage' = [stage EXCEPT ![c] = "done"]
    /\ result' = [result EXCEPT ![c] = how]

Drained(c) ==
    /\ stage[c] = "draining"
    /\ stage' = [stage EXCEPT ![c] = "waiting"]
    /\ UNCHANGED <<result, table, history, waits, closing, process, late>>

\* The loop has seen that the pipe is broken.  The id stays in the table.
DrainFails(c) ==
    /\ stage[c] = "draining" /\ child = "dead"
    /\ Return(c, "broken")
    /\ UNCHANGED <<table, history, waits, closing, process, late>>

\* The awaited future is done.
Resume(c) ==
    /\ stage[c] = "waiting" /\ future[c] # "pending"
    /\ Return(c, future[c])
    /\ UNCHANGED <<table, history, waits, closing, process, late>>

\* wait_for cancels the future, unless the answer came in the same turn of the
\* loop; the id stays in the table for the late reply.
Forget(c) == pending
Expire(c) ==
    /\ stage[c] = "waiting"
    /\ Return(c, "timeout")
    /\ future' = [future EXCEPT ![c] = IF @ = "pending" THEN "cancelled" ELSE @]
    /\ pending' = Forget(c)
    /\ UNCHANGED <<history, waits, closing, process, late>>

-----------------------------------------------------------------------------
(* event()                                                                 *)

Count(kind) == Cardinality({i \in DOMAIN events : events[i] = kind})
Matches(w) == Count(asked[w].kind)

\* The first event of its kind, or the one after those counted so far.
Await(w, kind, after) ==
    /\ wait[w] = "idle"
    /\ after \in {0, Count(kind)}
    /\ wait' = [wait EXCEPT ![w] = "awake"]
    /\ asked' = [asked EXCEPT ![w] = [kind |-> kind, after |-> after]]
    /\ UNCHANGED <<command, table, history, closing, process, late>>

\* One turn of the loop: the history first, then the failure, then sleep.
FaultVerdict(w) ==
    IF failure # "none" THEN "failed"
    ELSE IF Matches(w) > asked[w].after THEN "got" ELSE "asleep"
Verdict(w) ==
    IF Matches(w) > asked[w].after THEN "got"
    ELSE IF failure # "none" THEN "failed" ELSE "asleep"
Look(w) ==
    /\ wait[w] = "awake"
    /\ wait' = [wait EXCEPT ![w] = Verdict(w)]
    /\ UNCHANGED <<asked, command, table, history, closing, process, late>>

WaitExpires(w) ==
    /\ Waiting(w)
    /\ wait' = [wait EXCEPT ![w] = "timeout"]
    /\ UNCHANGED <<asked, command, table, history, closing, process, late>>

\* condition.notify_all()
FaultNotified == wait
Notified ==
    [w \in Waiters |-> IF wait[w] = "asleep" THEN "awake" ELSE wait[w]]

-----------------------------------------------------------------------------
(* read()                                                                  *)

\* The except and finally blocks: every future in the table fails, and every
\* event() looks again.
FaultFailed(f) ==
    [c \in All |-> IF c \in pending /\ stage[c] = "waiting" /\ f[c] = "pending"
                  THEN "failed" ELSE f[c]]
Failed(f) ==
    [c \in All |-> IF c \in pending /\ f[c] = "pending" THEN "failed" ELSE f[c]]
End(why) ==
    /\ failure' = why /\ reader' = "ended"
    /\ future' = Failed(future)
    /\ wait' = Notified
    /\ UNCHANGED events

\* The future a reply belongs to.
FaultCorrelated(c) ==
    IF \E d \in pending : future[d] = "pending"
    THEN CHOOSE d \in pending : future[d] = "pending" ELSE c
Correlated(c) == c

Result(line) ==
    /\ line.kind \in Answers
    /\ LET c == Correlated(line.of)
       IN  IF c \in pending
           THEN /\ pending' = pending \ {c}
                /\ future' = [future EXCEPT ![c] =
                                IF @ = "pending" THEN line.kind ELSE @]
                /\ UNCHANGED <<history, wait>>
           ELSE End("KeyError") /\ UNCHANGED pending

Flood == Len(events) >= MaxEvents
Event(line) ==
    /\ line.kind = "event"
    /\ UNCHANGED pending
    /\ IF Flood
       THEN End("AssertionError")
       ELSE /\ events' = Append(events, line.of)
            /\ wait' = Notified
            /\ UNCHANGED <<future, failure, reader>>

Partial(line) ==
    line.kind = "partial" /\ End("JSONDecodeError") /\ UNCHANGED pending

ReadLine ==
    /\ reader = "reading" /\ outbox # <<>>
    /\ outbox' = Tail(outbox)
    /\ \/ Result(Head(outbox))
       \/ Event(Head(outbox))
       \/ Partial(Head(outbox))
    /\ UNCHANGED <<command, asked, closing, child, inbox, outcome, late>>

\* End of file, after everything the process has written.
ReadEnd ==
    /\ reader = "reading" /\ outbox = <<>> /\ child = "dead"
    /\ End("Actor exited")
    /\ UNCHANGED <<command, pending, asked, closing, process, late>>

-----------------------------------------------------------------------------
(* The process.  It blocks on a full pipe, which only the reader empties.  *)

Emit(line) ==
    /\ child # "dead" /\ Len(outbox) < Pipe
    /\ outbox' = Append(outbox, line)

\* One command after the other; the SDK call succeeds or throws.
Serve(c, answer) ==
    /\ child = "running" /\ inbox # <<>> /\ Head(inbox) = c
    /\ Emit(Line(answer, c))
    /\ inbox' = Tail(inbox)
    /\ outcome' = [outcome EXCEPT ![c] = answer]
    /\ child' = IF c = Exit /\ answer = "ok" THEN "leaving" ELSE child
    /\ UNCHANGED <<command, table, history, waits, closing, late>>

\* A callback of the SDK, even while the client is being disposed.
EmitEvent(kind) ==
    /\ Emit(Line("event", kind))
    /\ UNCHANGED <<command, table, history, waits, closing, child, inbox,
                   outcome, late>>

Leave ==
    /\ child = "leaving" /\ child' = "dead"
    /\ UNCHANGED <<command, table, history, waits, closing, inbox, outbox,
                   outcome, late>>

\* Killed from outside, or an exception of its own; its last line may be cut.
Crash ==
    /\ child # "dead" /\ child' = "dead"
    /\ outbox' \in {outbox, Append(outbox, Line("partial", Exit))}
    /\ UNCHANGED <<command, table, history, waits, closing, inbox, outcome, late>>

-----------------------------------------------------------------------------
(* close()                                                                 *)

\* The process has no return code as far as the loop knows.
CloseExit == closing = "open" /\ closing' = "exiting" /\ Give(Exit)

CloseDead ==
    /\ closing = "open" /\ child = "dead" /\ closing' = "joining"
    /\ UNCHANGED <<command, table, history, waits, process, late>>

ExitDone ==
    /\ closing = "exiting" /\ result[Exit] = "ok"
    /\ closing' = "leaving"
    /\ UNCHANGED <<command, table, history, waits, process, late>>

Gone ==
    /\ closing = "leaving" /\ child = "dead" /\ closing' = "joining"
    /\ UNCHANGED <<command, table, history, waits, process, late>>

\* No answer to exit, or no end of the process within five seconds: kill it.
FaultKilled == child
Killed == "dead"
Kill ==
    /\ \/ closing = "exiting" /\ result[Exit] \notin {"none", "ok"}
       \/ closing = "leaving"
    /\ child' = Killed /\ closing' = "joining"
    /\ UNCHANGED <<command, table, history, waits, inbox, outbox, outcome, late>>

Joined ==
    /\ closing = "joining" /\ reader = "ended" /\ closing' = "closed"
    /\ UNCHANGED <<command, table, history, waits, process, late>>

-----------------------------------------------------------------------------
Proceed(c) == Drained(c) \/ DrainFails(c) \/ Resume(c)
Read == ReadLine \/ ReadEnd
CloseNext == ExitDone \/ Gone \/ Kill \/ Joined
Process ==
    \/ \E c \in All, answer \in Answers : Serve(c, answer)
    \/ \E kind \in Kinds : EmitEvent(kind)
    \/ Leave \/ Crash

Next ==
    \/ \E c \in Commands : Command(c)
    \/ \E c \in All : Proceed(c) \/ Expire(c)
    \/ \E w \in Waiters, kind \in Kinds, after \in 0..MaxEvents : Await(w, kind, after)
    \/ \E w \in Waiters : Look(w) \/ WaitExpires(w)
    \/ Read \/ Process
    \/ CloseExit \/ CloseDead \/ CloseNext

\* The loop runs what is ready.  Of the deadlines only those of close() are
\* assumed to fire; the process owes nothing.
Fairness ==
    /\ WF_vars(Read) /\ WF_vars(CloseNext) /\ WF_vars(Expire(Exit))
    /\ \A c \in All : WF_vars(Proceed(c))
    /\ \A w \in Waiters : WF_vars(Look(w))

Spec == Init /\ [][Next]_vars /\ Fairness

-----------------------------------------------------------------------------
\* Types, and the limit of the event history.
TypeOK ==
    /\ stage \in [All -> {"idle", "draining", "waiting", "done"}]
    /\ future \in [All -> Answers \cup {"none", "pending", "failed", "cancelled"}]
    /\ result \in [All -> Answers \cup {"none", "failed", "timeout", "broken"}]
    /\ pending \subseteq All /\ late \subseteq All
    /\ events \in Seq(Kinds) /\ Len(events) <= MaxEvents
    /\ failure \in {"none", "KeyError", "AssertionError", "JSONDecodeError",
                    "Actor exited"}
    /\ reader \in {"reading", "ended"}
    /\ wait \in [Waiters -> {"idle", "awake", "asleep", "got", "failed", "timeout"}]
    /\ asked \in [Waiters -> [kind : Kinds \cup {"none"}, after : 0..MaxEvents]]
    /\ closing \in {"open", "exiting", "leaving", "joining", "closed"}
    /\ child \in {"running", "leaving", "dead"}
    /\ inbox \in Seq(All)
    /\ outbox \in Seq([kind : Answers \cup {"partial"}, of : All]
                      \cup [kind : {"event"}, of : Kinds])
    /\ outcome \in [All -> Answers \cup {"none"}]

\* A command returns what the process answered to that command, although the
\* reply of an earlier one that timed out may come in between ("Correlate
\* private JSON-line commands", interop.py:102); nor does that late reply end
\* the reader with an id it does not know (interop.py:113-116).
RepliesMatch ==
    /\ \A c \in All : result[c] \in Answers => result[c] = outcome[c]
    /\ failure # "KeyError"

\* event() reports the failure of the actor only if the history does not hold
\* what it waits for: what arrived before the end is not lost.
FailureOnlyWithoutMatch ==
    \A w \in Waiters : wait[w] = "failed" => Matches(w) <= asked[w].after

\* When the reader has ended no command given before it has an open future,
\* whether its line was still being drained or it already waited, and no
\* event() sleeps: nobody depends on a deadline (interop.py:123-131).
EndReachesAll ==
    reader = "ended" =>
        /\ \A c \in All \ late :
              stage[c] \in {"draining", "waiting"} => future[c] # "pending"
        /\ \A w \in Waiters : wait[w] # "asleep"

\* close() returns when the process is gone and its output has been read or
\* given up, whichever way the exit command went.
ClosedLeavesNothing ==
    closing = "closed" =>
        /\ child = "dead" /\ reader = "ended"
        /\ failure = "Actor exited" => outbox = <<>>

\* Everybody who waits is told: the end of the reader reaches every command
\* given before it without the command's own deadline, and wakes every event();
\* close() returns even if the process is stuck on a pipe that nobody reads
\* (interop.py:123-131, 159-168).
EndIsTold ==
    /\ \A c \in All :
          reader = "ended" /\ stage[c] \in {"draining", "waiting"} /\ c \notin late
              ~> stage[c] = "done"
    /\ \A w \in Waiters : reader = "ended" /\ Waiting(w) ~> ~Waiting(w)
    /\ closing # "open" ~> closing = "closed"
=============================================================================
