# A formal model of the WuKongIM C# Easy SDK

This directory holds TLA+ modules for the concurrent core of the SDK, for the
fixtures that test it against real servers and for the release of its package,
the TLC configurations that check them on small instances, and TLAPS proofs that
hold for every size. Paths such as `WKIM.cs:243` mean
`src/WuKongEasySDK/WKIM.cs` in the repository, `interop.py`,
`interop_cluster.py` and `release.py` are in `scripts/`; other paths are relative
to the repository's root. `PROJECT.json` lists every run, the source lines behind
every definition, the hazards and the theorems.

## The system

The SDK is one class, `WKIM`, that speaks JSON-RPC over a WebSocket. All of its
difficulty is concurrency: application threads, one supervisor task, two tasks
per session, one dispatcher task, timers, and a server and a network that may
do anything. Around it the repository has Python programs that are concurrent
themselves: a fixture that drives SDK processes through fault relays, one that
crashes nodes of a cluster under them, and the release of the package, which
races with whoever else publishes or tags.

| Part | State | Operations | Interacts with |
|---|---|---|---|
| Connection supervisor | `_gate`, `_stopping`, `_connected`, `_session`, `_lifetime`, `_ready`, `_run`, `_dispose`; the locals of `RunAsync` | `ConnectAsync`, `DisconnectAsync`, `DisposeAsync`, `RunAsync` | starts and joins the session's tasks; queues events; settles the callers |
| Requests of a session | `Session`: `Socket`, `WriteLock`, `Capacity`, `Pending`, `Token`; one `Pending` per request | `SendAsync`, `RequestAsync`, `WriteAsync`, `ReceiveAsync`, `HandleAsync`, `HeartbeatAsync` | shares the write lock and the permits between sends, pings and acknowledgements; its end ends the session |
| Event queue | the channel `_events`, the handlers, `_dispatcher` | `Queue`, `TryQueue`, `Invoke`, `DispatchAsync` | fed by the other two and by completing sends; drained by `DisposeAsync` |
| Options and delays | `WKIMOptions` | `Validate`, the delay of each retry | read by the supervisor |
| Framing and decoding | the buffer of `ReceiveAsync` | reassembly, `Read`, `DecodePayload` | feeds `HandleAsync` |
| Public types | records, enums, converters (`Models.cs`) | none | data |
| Interoperability fixture | `Proxy`, `Actor`, `Server` and `scenarios` in `interop.py` | start, command, event, drop, close; the script, its cleanup, its deadline | drives two SDKs against a real server |
| TLS stage | `interop_tls.py` | certificates, refused handshakes | the fixture |
| Cluster acceptance | `interop_cluster.py` | `stable_slots`, `node_health`, `channel_ready`, `retry_activation`, `cluster_scenarios` | starts, crashes and polls three servers; replaces clients |
| Release | `release.py`, `.github/workflows/release.yml` | validate, pack, push, wait, compare, install, announce | nuget.org, GitHub, git tags |
| Smoke script | `smoke.py` | start, run the example, stop | one server |
| Tests and example | `tests/`, `examples/` | | read as a reference for the server's behaviour |

What is hard, and what makes each part correct:

* **Supervisor.** `_ready` is replaced whenever an established session is lost,
  while callers wait on the object they were given; one flag `_stopping` serves
  every `DisconnectAsync`; the login result arrives outside the lock; the
  cleanup of a session awaits two tasks before the next may be opened. Correct
  means: no caller is left on a completion nobody settles, none that joins
  a run which nobody has stopped is told of a login that is already lost (a run
  that is being stopped is another matter, see "Runs that are violated"), one
  session at a time, a bounded number of
  retries, and every call returns.
* **Requests.** A permit, a table entry, the write lock and a completion are
  taken and returned on a dozen paths: answer, error, bad argument, full table,
  timeout and cancellation at any of three awaits, aborted socket, lost session.
  Correct means: nothing leaks, one writer at a time, at most one transmission,
  success only with the server's answer, and no request that hangs for ever.
* **Events.** Three producers and `DisposeAsync` race for a bounded channel, and
  handlers are captured before they run. Correct means: an overflowing message
  is not acknowledged, sessions do not mix, everything queued is handled, and
  nothing runs after disposal.
* **Fixture.** Replies race deadlines, the process may die at any step, the relay
  cuts only the connections it knows, and the script judges from counts that go
  on moving. Correct means: a late reply harms nobody, the end of the process
  reaches whoever waits, a recorded case is true, and nothing is left behind.
* **Cluster.** Readiness is inferred from polls of one node after the other;
  starts run concurrently and one may fail; clients are replaced while the old
  ones still retry. Correct means: "stable" was stable for as long as it says,
  one process per identity, no refusal is retried away, nothing is left behind.
* **Release.** A push may find another package in its place, a run may be
  repeated from the middle, and tags move between its steps. Correct means: what
  is announced is what everybody gets, and the wait for it is bounded.

The full list, each at its line, is under `hazards` in `PROJECT.json`.

## Modules

```
Session          what Supervisor, Requests and Events have in
                 common: one session after another, and the
                 disposal of the client                          (abstract)
SessionProofs    theorems about Session
Lifecycle        what the client promises about its connection   (abstract)
Supervisor       implements Lifecycle and Session                (detailed)
SupervisorProofs theorems about Supervisor
MCSupervisor     Supervisor for TLC
RequestContract  what a session promises about its requests      (abstract)
Requests         implements RequestContract and Session          (detailed)
RequestsProofs   theorems about Requests
MCRequests       Requests for TLC
Events           the queue, the dispatcher and their end; implements Session
EventsProofs     theorems about Events
MCEvents         Events for TLC
Actor            the interoperability fixture's driver of one SDK process
ActorProofs      theorems about Actor
MCActor          Actor for TLC
Relay            the fixture's fault relays
Interop          the single-server run: extends Relay with the server, the SDKs,
                 the script, its cleanup and its deadline
InteropProofs    theorems about Interop
MCInterop        Interop for TLC
Readiness        how the cluster fixture waits for public state to settle
Cluster          the three-node run: extends Readiness with nodes, SDK processes,
                 the script, its cleanup and its verdict
ClusterProofs    theorems about Cluster
MCCluster        Cluster for TLC
Release          the release of a version by workflow and script
ReleaseProofs    theorems about Release
MCRelease        Release for TLC
```

A step is what the code does between two points where another thread can see
it: one block under `_gate`, one operation on a shared object, or the code
between two awaits. Operators called `Fault...` are not part of any
specification. Each is a plausible wrong version of the operator after it, and
`PROJECT.json` (`mutants`) says which property rejects it.

### Session

`Supervisor`, `Requests` and `Events` describe one program from three sides, and
each leaves the other two out: the supervisor has a receiver that may end, the
requests have a supervisor that may stop them, the events have both. `Session` is
what must fit together: the status of the current session, its token, whether its
receiver and its heartbeat still run, whether it is disposed, and how far
`DisposeAsync` is. All three implement it (`ImplementsSession`, checked in the
runs `supervisor`, `requests_safety` and `events` and proved for all constants),
each through its own mapping: `Requests`, which starts with an admitted session,
begins at `"open"`; `Events`, which has neither token nor heartbeat, maps them to
what the phase of its supervisor implies. So no module relies on a step that
another one would not take: that a session is not disposed under a running task,
that none is opened beside another or after the stop of the disposal, that
nothing is admitted with a cancelled token, and that a session which nobody
stopped is given up only when one of its tasks has ended. `SessionProofs` says
what follows for whoever relies on the interface.

### Supervisor

| Variable | Code |
|---|---|
| `stopping`, `connected`, `session`, `lifetime` | the fields; `session` is "not null", `lifetime` is null, live, cancelled or disposed |
| `ready`, `outcome` | `_ready` is a number; `outcome[i]` is the state of the i-th completion it ever referred to |
| `runId`, `pc` | which task `_run` is, and where that task is in `RunAsync`; `"idle"` is `_run.IsCompleted` |
| `everConnected`, `attempt`, `authenticated`, `permanent` | the locals of `RunAsync` |
| `sess`, `reply`, `receiver`, `heartbeat`, `first` | the current `Session`, the answer to CONNECT, its two tasks, and which `Task.WhenAny` returned |
| `call` | what each application thread awaits |
| `disposal` | the task `_dispose` |
| `opened` | history: sessions since the last login |

The actions follow the code in order: `StartRun` and `JoinRun` are the two
branches of `ConnectAsync`; `Disconnect` and `DisconnectReturns` the two locked
blocks of `DisconnectAsync`; `DisposeStop` to `DisposeDone` the body of the
disposal task; `LoopExit` to `Exit` the loop, with `CloseSession`,
`StopSession`, `Unpublish` and `DisposeSession` as its finally block. The
receiver and the heartbeat appear by how they end, because `Requests` models
what they do. `AdmitOverflow` is the admission whose `Queue(Connected)` throws.
`DisposeLifetime` and `DisposeDone` are two steps because lines 164 and 165 run
outside the lock, so `DisconnectAsync` can meet a disposed source in between.

### Requests

One session after its login. `stage[r]` is where a request is in `SendAsync`
and `RequestAsync`; `comp[r]` is its completion; `pending`, `permits` and
`writer` are `Pending`, `Capacity` and `WriteLock`; `seen` and `answered` are
the server; `token` and `socket` are cancelled and aborted by `Session.Stop`.
The server answers any request it has received, once or more, at any later
time, and sends any other frame at any time. A deadline may fire at any time,
so every race between a timeout and an answer is included. A write that expires
aborts the socket, as `ClientWebSocket` does, and the frame may or may not have
left. A frame may reach the server, and be answered, before the write returns
(`Delivered`). CONNECT is alone on its session and is modelled in `Supervisor`.

### Events

The queue holds records of the kind, the session and the handlers captured when
the event was queued. `Admit`, `Report`, `ReportError`, `ReportRetry` queue from
the supervisor, `Receive` and `Notify` from the receiver, `SendCompletes` from a
`SendAsync`. `Callback` is one handler that returns or throws; a throwing one
raises `Error` inside the same callback and the ones after it still run.
`Subscribe` and `Unsubscribe` change the handlers of `Message` at any time;
whether another event has handlers is fixed by `Observed`. `CompleteWriter`,
`Drained` and `DropHandlers` are the end of `DisposeAsync`.

### Actor

`scripts/interop.py` drives each SDK in a process of its own: commands go down
one pipe, replies and events come back on the other. `stage`, `future` and
`pending` are the steps, the futures and the table of `Actor.command`; `events`,
`failure` and `reader` the state of `Actor.read`; `wait` and `asked` the calls of
`Actor.event`; `closing` is where `Actor.close` is. `child`, `inbox` and `outbox`
are the process (`tests/interop/csharp/Program.cs`) and its pipes: it serves one
command after the other, emits events at any time, blocks on a full pipe, and may
die at any step, with its last line cut. The parent is one asyncio loop, so a
step is the code between two awaits; no task awaits while it holds the
condition's lock.

### Relay and Interop

`conn[p][h]` is a handler of `Proxy.handle`: accepted by the loop but not yet
run, waiting for the server, relaying, cut by `drop`, or in its `finally`. The
fields `server` and `born` say which server process its connection reaches and
how many faults had been injected when it was opened; the code has neither, the
properties need them. `relay[p]` has `enabled`, `attempts` (counted up to two,
since the script only compares with its baseline) and how far `close` is.
`Cut` closes the writers known at that moment, which are those of relayed
connections: a handler that still waits for the server is not among them.

`Interop` is `scenarios` of `interop.py`. `Script` lists its awaits and steps in
their order; `pc` is the place. A wait is an action with the awaited condition as
its guard, a check is an action that advances or raises, and `Break` lets any
step raise. `phase` goes through the `finally` block: actors, relays, server, in
that order. `Deadline` is the `wait_for` of `main`, which cancels the script once;
if it strikes in the cleanup the rest of that is skipped (`verdict = "aborted"`).
Counts of events are sets of kinds since the script's last baseline. The SDKs dial, log in, lose connections and retry, and an invalid token may
even retry after its refusal, because that is what the script watches for. For the C# SDK these actions are
`WKIM.RunAsync` seen from its relay, which `Supervisor` has in detail; the other
SDK is not in the repository, and the choice is the same for both. Both
SDKs are members of `Clients`, so the gathers and loops over the two are single
steps. `Actor.close` and `Server.stop` are short here; `Actor` has the former in
detail.

### Readiness and Cluster

`Readiness` has the polling loops of `interop_cluster.py` over time in ticks. A
poll takes `d` ticks and finds an answer or none; `previous` and `since` are the
locals of `stable_slots` (and of the presence loop in `messaging`, where the
answer is just "complete"), `Observe` is their update after one poll, and
`polls` is a history of what was found when. Ten slots are one, and everything
else a row must satisfy is the flag `settled`.

`Cluster` is `cluster_scenarios`. The script is a sequence of operations built
from `Order` and `Failovers`; `pc` is the operation and `at` the point inside it.
`task` and `node` are the concurrent `Server.start` calls and their processes:
`Spawn`, `Ready` and `StartFails` interleave freely, and `Started` is the end of
the `gather`. `Route`, `Launch`, `LoggedIn`, `Rejected` and `RejectedCloses` are
`actor()`, with its retry. `actors` is the list the cleanup closes and `clients`
what the script uses. `Diagnose`, `CloseActor`, `StopNodes` and `Verdict` are the
`except` and `finally` blocks with the check in `main`. The waits for the group
channel and for the person channels are one `ChannelOf`. `Notice` is the SDK
of an actor that loses its connection, `WKIM.RunAsync` again.

### Release

One run of the workflow after the other, as the concurrency group has it: `pc`
is its step, `job` the job it belongs to, `artifact` what the validate job has
uploaded. `Rerun` is "re-run failed jobs": the job starts over, the artifact
stays. `registry` and `served` tell what was pushed to nuget.org from what it
already serves. Others push packages and tags at any time, and any step may fail
(`Break`), the push also after it has taken effect. A package is what
`package_files` can tell apart: version, commit, contents, and whether the
remaining checks pass. `Downloaded` and `NotYet` are one attempt of
`public_package`, with its clock; `Expect` before the wait checks the local
package, `Compare` after it the downloaded one. Only the latest run is repeated
here. GitHub, and the concurrency group (`release.yml:16-18`), would also let an
older failed run be repeated after another began; that order is left out.

## Runs

### Runs that pass

| Run | Instance | Shows |
|---|---|---|
| `supervisor` | 2 callers, 2 retries, at most 3 completions | no orphan, no stale success on a run nobody has stopped, connected only with a live published session, cleanup before the next socket, the retry budget, a stopped run is never revived, the three calls return, and `Lifecycle`, liveness included, and `Session` are implemented |
| `requests_safety` | 2 sends, 1 ping, 2 permits, symmetric sends | permits, table and write lock are exact on every path; success means an answer; `Session` is implemented |
| `requests_liveness` | 1 send, 1 ping, 2 permits | a dead session is disposed, an unanswered ping costs the connection, and `RequestContract` is implemented, liveness included |
| `events` | 1 message, 2 handlers, queue of 2, 2 sessions | overflow, order between sessions, each handler once for each message queued for it, completeness of the callbacks, the end of `DisposeAsync`, and `Session` is implemented |
| `actor` | 1 command, the exit command, 1 event wait, history of 2, pipe of 1 | replies and events reach whom they are for, the end of the process reaches everybody without a deadline, `close` returns and leaves nothing |
| `interop` | 1 client and 1 invalid token, 2 handlers per relay, 1 connection dropped by the server or retried in spite of a refusal | a recorded case is true, a closed relay is quiet, the cleanup ends and leaves nothing |
| `cluster` | 3 nodes, 2 identities, 2 failovers, 1 process that dies, settling time 2, limit 3 | what is called stable was stable, one process per identity, no refusal is hidden, nothing is left, the run ends |
| `release` | 3 commits with one version, 2 contents, 3 runs, wait of 3 with pauses of 2 | what is announced is what everybody gets; the wait is used up and bounded |

`TypeOK` is in no configuration: every module has one, and `TypeCorrect` proves it
for all constants.

The bounds are named in the modules and are guards of the actions:

* `MaxReady` bounds how many completions `_ready` refers to. Each run of
  `RunAsync` creates one, and each lost login another; three allow a login, its
  loss, a second login or a new run, and its loss, which is every way a caller
  can be left behind. The bound is tested before a login is accepted, so no
  code path is cut in the middle.
* Two callers are enough for each pair of calls to race: connect with
  disconnect, two disconnects, disconnect with dispose. The third party is the
  supervisor.
* `MaxReconnectAttempts` is 2, so that a first, a last and a refused retry
  differ. `AutoReconnect = FALSE` is not a run of its own, because it only
  removes `Retry`; the theorems hold for both values.
* Two sends and a ping with two permits: the third request is refused, the two
  compete for the lock, and a ping and a send are in the table together. In
  `requests_liveness` a send and the ping compete for the lock, so that a ping can
  expire because a send holds it. The ping that is refused for lack of a permit
  is in `requests_safety` and `requests_overload`.
* A queue of two with one message and two sessions fills up with the events of
  the first session before the second begins.
  `Connected`, `Disconnected` and `SendAck` have handlers in that run, the other
  kinds have none, so both branches of `TryQueue` are taken.
* One command and `exit` are two ids: the reply of the first can be late, lost
  or between the other's. A history of two is flooded by the third event, and a
  pipe of one line blocks the process as soon as nobody reads.
* Two handlers per relay: one connection is being cut while the retry arrives. The
  second identity behind a relay of its own, the invalid token, keeps the cleanup
  of several relays in the run. More clients only repeat the loops.
* The two identities that are moved between three nodes; the third one of the
  code, which stays where it is throughout, is left out. Its node is where the
  first failover goes, and the second goes to the node that has been crashed and
  restarted. A settling time of two ticks with pauses of one and polls of up to
  one tick needs two or three equal answers; a limit of three allows one restart
  of the count and also runs out.
* Of the three commits one is releasable and on main, one releasable but not on
  main, one on main but not releasable; that they share a version is what makes a
  rerun or another publisher meet an existing package.

Every configuration says `CHECK_DEADLOCK FALSE`: an instance really stops when
its bounds are used up and every call has returned. That nothing hangs before
then is what the liveness properties say.

### Runs that are violated

Each states what a document or message of the repository says, and TLC shows a
behaviour of the code that does otherwise.

| Run | Statement | What happens |
|---|---|---|
| `supervisor_kick` | a server disconnect, a kick included, stops automatic retry (`README.md:112`) | the heartbeat fails first; the receiver then handles the disconnect frame, but its exception is discarded when it is joined (`WKIM.cs:246`), `permanent` stays false and the supervisor retries |
| `supervisor_rejoin` | `ConnectAsync` "opens and authenticates" (`WKIM.cs:74`), and one must "await DisconnectAsync before connecting again" (`WKIM.cs:83`) | an earlier `DisconnectAsync` resumes late and clears the one `_stopping` flag (`WKIM.cs:148`) while a later one still waits; `ConnectAsync` is let in, joins the run that is being stopped, and is given the success of the stopped login, because `_ready` is not renewed for a cancelled lifetime (`WKIM.cs:243`) |
| `requests_overload` | excess callers fail with backpressure (`README.md:137`) | sends that hold every permit make the heartbeat's ping fail the same way, which ends the session |
| `events_unheard` | an ACK means admission into the event queue (`README.md:118`) | a message that arrives while `Message` has no handler is acknowledged and discarded |

## Fairness

Liveness is checked under weak fairness of what the runtime schedules, and of
nothing else.

* `Supervisor`: the supervisor, the disposal task and a caller whose wait is
  over make progress. Inside the supervisor this assumes that `ConnectTimeout`
  and the reconnect delay elapse, because `CancelAfter` and `Task.Delay` are
  timers. A receiver or heartbeat is assumed to end only once its token is
  cancelled. The application, the server and the network owe nothing.
* `Requests`: code that is ready runs; waits and I/O end after the token is
  cancelled or the socket aborted. No timer is assumed to fire, so
  `DeadSessionDisposed` and the liveness of `RequestContract` show that a lost
  session ends its requests without waiting for `RequestTimeout`. The request
  that registers after the receiver has failed the table is ended by the token.
* `Events`: the dispatcher runs and handlers return, as `README.md:115` asks of
  them; a closed session is cleaned up and the disposal goes on.
* `Actor`: the loop runs what is ready, and the deadlines that `close` sets
  (20 seconds for `exit`, 5 for the process) fire. No other deadline is assumed,
  and the process owes nothing.
* `Interop`: the relays' handlers and the cleanup run, a server that was killed
  exits, one that was started becomes ready. The script, the SDKs and the
  deadline owe nothing, so `CleanupEnds` is about a cleanup without help: it
  waits for handlers, and each of those ends because its peer or its dial does,
  or because it has been cancelled.
* `Cluster`: the script goes on when it can, and a start that is pending ends,
  because each of its waits has a deadline. A login need not come: the script may
  raise instead, which stands for the deadline of `actor()`.
* `Release`: a run takes its next step. nuget.org need not ever serve a package.

## Proofs

The theorems hold for every value of the constants that satisfies the named
assumptions of the modules: the retry limit and the bounds are natural numbers,
the capacities positive, `AutoReconnect` a boolean, the sets of sends and pings
finite and disjoint, and the names that stand for "nobody" or "the receiver"
not among them; the actor's exit command is not one of the scenario's; times are
natural numbers and pauses positive; the relays are those of the clients and of
the invalid tokens; no identity connects twice in the bootstrap. TLC evaluates the
same assumptions in the runs and had checked each inductive invariant before it
was proved. In the seven modules of the detailed specifications the properties
are not inductive alone, and `IInv` adds what the code relies on without stating it. Lemmas prove that `Init` establishes it and every action
preserves it, `Invariance` draws the conclusion, and the theorems `Safe_...`
read the properties off.

**`SupervisorProofs`**: all invariants of the run `supervisor`, for any number
of callers and retries. `NoOrphan`, for instance, needs to know that the
completion `_ready` refers to has been settled by the time `pc` reaches
`"exiting"`, and `NoStaleSuccess`, which speaks of runs nobody has
stopped, that a session which ended before its login found
no success in `_ready`. `IInv`
adds `CompletionInv`, which completions are settled at which point; `CallInv`,
that callers wait on objects that exist; `AuthInv`, what the local
`authenticated` says about the login and the completion it settles; `SessionInv`, where the
session is published, live or stopped; `LifetimeInv`, that a run has a lifetime
and the disposal outlasts the run; `RetryInv`, how `attempt` and the number of
opened sessions relate. `Refinement`: every step is a step of `Lifecycle` or
leaves it unchanged; `RefinementStep` goes through the actions with `IInv`
before and after and names the abstract action that each one is.
`SessionRefinement` is the whole of `ImplementsSession`, and needs more: `TaskInv`
says which tasks can run at which point of the loop, and that as long as
`Task.WhenAny` has not returned neither has ended. `Safe_NoMissedEnd` states it:
both tasks were started, both run while it has not returned, and the one it
returns has ended; a receiver that ends before the login is complete is noticed
after it. `Safe_WindingDown` is
the safety half of `CallsReturn`: once the lifetime is cancelled it stays so, and
every step of the run lowers `RunLeft`, whatever callers, tasks and the disposal do
in between. What is left to fairness is that the next step is taken.

**`RequestsProofs`**: permits, write lock, answers and the disposal of a
session, for any number of sends and pings and any `MaxPendingRequests`.
`CapacityConserved` is about a cardinality: `CountStep` shows, with the
library's theorems on finite sets, that a step which moves one request into or
out of the stages that hold a permit changes the count by one, and that every
action that does so takes or returns a permit. Success needs `AnswerInv` (a
completion is settled as answered only for a request the server answered) and
`SeenInv` (it answers only what it received); the disposal needs `TaskInv`, how
far receiver, heartbeat and cleanup can be apart. `Refinement`: every step is a
step of `RequestContract` or leaves it unchanged. `SessionRefinement` adds
`LiveInv`, what the connection and the token say about the two tasks of the session.
`Safe_Unwinding` is the safety half of `DeadSessionDisposed`: after `Session.Stop`
no write begins, every step of a request lowers its `Left` and raises no
other's, the heartbeat only counts down, and the receiver only ends.

**`EventsProofs`**: overflow, order and the end of the queue, for any messages,
handlers, capacity and number of sessions. `QueueInv` strengthens the order with
what it depends on: no queued event belongs to a later session than the
current one, and once the `Disconnected` of the current session is queued the
supervisor is past the report. `QueueAppended` and `QueueTaken` show that
appending an event of the current session and taking the head keep it.
`RestInv` says that the message whose acknowledgement is being written was
admitted if anybody wanted it, and that a draining disposal has completed the
channel. `Safe_ExactlyOnce` is a count without numbers: `Waiting` and `InHand` say
where a message is for a handler, and one lemma for each way in which that changes
(appended, taken, called back) shows that it is in one place and that its place
only moves towards `handled`. `Safe_Draining` is the safety half of
`DisposeCompletes`. `SessionRefinement` needs nothing beyond `IInv`.

**`ActorProofs`**: correlation, history and shutdown, for any commands and waits.
`WireInv` is the argument for the correlation: an id is in at most one of the two
pipes, it stays in the table until its reply is read, and a reply says what the
process did. So no reply meets an empty entry, and a late one finds its own
cancelled future. `Safe_EndReachesAll` is the safety half of `EndIsTold`: the
`finally` of the reader fails all that the table holds and wakes all that sleep, in
one step, so nobody is left to a deadline. The one exception is in the statement:
commands given after the end (`late`). `TypeCorrect` has the limits of the history
and, with `PipeInv`, of the pipe: only the line that a dying process cuts may
exceed it.

**`ReleaseProofs`**: `ProgressInv` says what the run has found out at each step:
its artifact is tested once it has left the validate job, its commit is on main
once it may push, and once the comparison is over the registry serves the same
contents. The last holds for good because nobody can replace a pushed version.
`Safe_Wait` is an action property; it needs that a poll begins within the limit.
`Safe_RunsDown` is the safety half of `RunEnds`: every step of a run lowers `Left`,
in which a poll counts with the time that remains. `PollPasses` is the reason that
the polls do not go on for ever: the sleep between two is never empty.

**`SessionProofs`**: `Promised` is an invariant of the interface, `Sequential` an
action property: tokens are never taken back, ended tasks never return, and a
session begins only when the one before is disposed and the client is not.

**`InteropProofs`**: `RelayInv` is why a closed relay is quiet: from the moment
`close` has cancelled the handlers none of them can wait for the server or relay,
those that were only accepted find `enabled` false, and it stays false.
`CleanupInv` says what each phase has dealt with. `EvidenceInv` is why the cases
are true: a client's connection is either younger than the last fault, or it is
the one the script is still waiting to see lost; and while the network is down
every counted attempt was turned away. `ScriptGoes` and `Onward` relate a step of
the script to the places the invariant names.

**`ClusterProofs`**: `EvidenceInv` says that the answer of a loop was found by
every poll since `since`. `CleanupInv` needs that no start is pending outside the
step that waits for all of them, which is the `return_exceptions=True` of the
code. `RefusalInv` holds the script at a refusal until it has been judged.
`IdentityInv` is about the script itself: whoever runs is the client being logged
in or the current one of its identity, and between now and the next connect of
that identity the script retires it. `BootstrapConnects`, `FailoverReplaces` and
`Replaced` prove that of the operations, for any list of failovers. `TypeCorrect` says, with
`OperationOK`, that an operation names the one identity, and the node, it needs.

What is only model-checked is liveness, because it rests on fairness and so on
`ENABLED`: `CallsReturn`, `DeadSessionDisposed`, `DeadPeerDetected`,
`QueuedIsHandled`, `DisposeCompletes`, `EndIsTold`, `CleanupEnds`, both `RunEnds`,
and the liveness halves of `ImplementsLifecycle` and `ImplementsContract`, of which
the theorems called `Refinement` prove the steps. The theorems about what is left
(`Safe_WindingDown`, `Safe_Unwinding`, `Safe_Draining`, `Safe_RunsDown`) prove that
progress, once made, is kept; that it is made is what TLC checks. No theorem is
about the statements of the violated runs. `DisposedAfterTasks`, the types and
these measures are proved and no run checks them by themselves.

## Not modelled

* Contents of messages, identifiers and results; JSON and Base64; logging;
  credentials. No property here depends on them.
* Functional arguments of the application that call back into the client, other
  than handlers. A handler that awaits `DisposeAsync` deadlocks by design;
  `README.md:115` forbids it.
* The error that a failed `ConnectAsync` carries (`terminal`). Only success and
  failure are told apart.
* `ConnectAsync` and `SendAsync` calls that throw at once: they change nothing.
* Options and retry delays: `Validate` is a list of comparisons and the delay is
  arithmetic on doubles before a cap. The retry budget is in `Supervisor`; how
  long a delay is makes no difference to its steps. A duration below one
  millisecond, which passes `Validate` and is zero for the timers, is listed as a
  hazard (`Models.cs:60`).
* Reassembly of fragments in `ReceiveAsync`: a loop of one task over its own
  buffer. `Requests` and `Events` start with the complete frame, or with the
  failure of the receiver that an oversized one causes.
* The single-server fixture without its relays' bytes: `verify_exchange` and
  `verify_group` compare contents; an exchange either succeeds or raises. The
  build of the actors, `interop_tls.py` and `smoke.py` run external tools in a
  fixed order.
* What the diagnostics of the cluster run read and write; they only delay the
  cleanup. Bytes copied by a relay, the log files, the reports' texts.
* The contents of a package beyond what `package_files` distinguishes, the
  signature nuget.org adds, permissions and secrets of the workflow. A version
  tag that is pushed between the tag check and the announcement is modelled; the
  announcement then keeps the existing tag, as `gh release create` does.
* A composition of `Supervisor`, `Requests` and `Events`: the product is beyond TLC
  at the sizes where any of them is interesting. What the others do is a free
  choice in each, and `Session` is what those choices keep to. What `Session` leaves
  out is not related: that a full queue of `Events` is the `AdmitOverflow` of
  `Supervisor`, for instance.
* The public types, the tests and the example have no behaviour of their own.
