--------------------------- MODULE InteropProofs ---------------------------
(***************************************************************************)
(* Proofs about Interop for every set of clients and every number of       *)
(* handlers: a closed relay is quiet, an undisturbed cleanup leaves        *)
(* nothing, and a recorded case is true.                                   *)
(***************************************************************************)
EXTENDS Interop, TLAPS

\* The relays: they close after the script, and a handler that is cancelled or
\* finds its relay disabled never touches the server again.
RelayInv ==
    /\ phase \in {"script", "actors"} => \A p \in Proxies : relay[p].state \in {"none", "listening"}
    /\ \A p \in Proxies :
          /\ relay[p].state \in {"closing", "joining", "closed"} => ~relay[p].enabled
          /\ relay[p].state \in {"joining", "closed"} =>
                \A h \in Handlers : conn[p][h].stage \in {"free", "accepted", "leaving"}
          /\ relay[p].state # "joining" => joined[p] = {}

\* The cleanup: what a phase has dealt with is gone.
CleanupInv ==
    /\ phase = "script" <=> verdict = "running"
    /\ verdict = "aborted" => phase = "ended"
    /\ verdict # "aborted" =>
          /\ phase \in {"relays", "server", "ended"} => Linked(Proxies, {"none", "dead"})
          /\ phase \in {"server", "ended"} =>
                \A p \in Proxies : relay[p].state \in {"none", "closed"}
          /\ phase = "ended" => server = "down"

\* Between a fault and the loss the script waits for, a client may still be on
\* a connection older than the fault; then, and only then, it owes that loss.
Waiting(p) == pc \in {11, 16, 17} /\ "disconnected" \notin events[p]
Young(p) == client[p].via # None /\ conn[p][client[p].via].stage \in {"accepted", "dialing", "relaying"}
                => conn[p][client[p].via].born = faults

\* What the script has evidence for: the age of the connections, and the
\* relays that refused a retry while the network was down.
EvidenceInv ==
    /\ \A p \in Proxies : client[p].link = "live" => client[p].via # None
    /\ \A p \in Invalid : "connected" \notin events[p]
    /\ phase = "script" => \A p \in Clients : Young(p) \/ Waiting(p)
    /\ phase = "script" /\ pc \in {11, 12} =>
          \A p \in Clients : ~relay[p].enabled /\ (relay[p].attempts > 0 => p \in refused)
    /\ phase = "script" /\ pc \in {13, 14} => Clients \subseteq refused

IInv == TypeOK /\ RelayInv /\ CleanupInv /\ EvidenceInv

-----------------------------------------------------------------------------
\* Where in the script the steps are that the evidence depends on.
LEMMA ScriptSteps ==
    ASSUME NEW i \in 1..Len(Script)
    PROVE  /\ Len(Script) = 26
           /\ Script[i] = "drop" <=> i = 10
           /\ Script[i] = "lost" <=> i = 11
           /\ Script[i] = "retried" <=> i = 12
           /\ Script[i] = "network" <=> i = 14
           /\ Script[i] = "crash" <=> i = 15
           /\ Script[i] = "gone" <=> i = 17
           /\ Script[i] = "disconnect" <=> i = 22
           /\ Script[i] = "down" <=> i = 16
           /\ Script[i] = "resumed" => i \in {13, 20}
           /\ Script[i] \in {"start", "ready", "create", "connect", "connected", "messaging",
                              "invalid", "rejection", "token", "recovery", "quiet", "manual"}
                 => i \notin 10..17
<1>1. Len(Script) = 26
  BY DEF Script
<1>2. i \in 1..26
  BY <1>1
<1> QED
  BY <1>1, <1>2 DEF Script

\* The initial state satisfies the invariant.
LEMMA InitIInv ==
    ASSUME Init
    PROVE  IInv
<1>1. TypeOK
  BY DEF Init, RelayInit, TypeOK, RelayTypeOK, Free, Stages, Links, Kinds, None, Script
<1>2. RelayInv /\ CleanupInv
  BY DEF Init, RelayInit, RelayInv, CleanupInv, Free
<1>3. EvidenceInv
  BY ProxiesAssumption DEF Init, RelayInit, EvidenceInv, Young, Waiting, None
<1> QED
  BY <1>1, <1>2, <1>3 DEF IInv

-----------------------------------------------------------------------------
\* A step of the script goes on to the next, or the script is over.
LEMMA Onward ==
    ASSUME TypeOK, phase = "script"
    PROVE  /\ Advance => /\ pc' \in 1..Len(Script) /\ phase' \in {"script", "actors"}
                         /\ verdict' \in {verdict, "completed"}
                         /\ phase' = "script" => pc' = pc + 1 /\ verdict' = verdict
                         /\ phase' = "actors" => verdict' = "completed"
           /\ Raise => pc' = 1 /\ phase' = "actors" /\ verdict' = "failed" /\ cases' = cases
           /\ 1 \in 1..Len(Script)
<1>1. Len(Script) = 26 /\ pc \in 1..26
  BY DEF TypeOK, Script
<1> QED
  BY <1>1 DEF Advance, Raise, Over

Connection == [stage : Stages, server : Nat, born : Nat]

\* One connection changes, the others do not.
LEMMA ConnectionSet ==
    ASSUME conn \in [Proxies -> [Handlers -> Connection]],
           NEW p \in Proxies, NEW h \in Handlers, NEW c \in Connection
    PROVE  LET next == [conn EXCEPT ![p][h] = c] IN
           /\ next \in [Proxies -> [Handlers -> Connection]]
           /\ \A q \in Proxies, g \in Handlers :
                 next[q][g] = IF q = p /\ g = h THEN c ELSE conn[q][g]
<1> DEFINE row == [conn[p] EXCEPT ![h] = c]
<1>1. row \in [Handlers -> Connection] /\ \A g \in Handlers : row[g] = IF g = h THEN c ELSE conn[p][g]
  OBVIOUS
<1>2. [conn EXCEPT ![p][h] = c] = [conn EXCEPT ![p] = row]
  OBVIOUS
<1> HIDE DEF row
<1> QED
  BY <1>1, <1>2

\* What the handlers of the relays do to their table.
LEMMA RelayTyped ==
    ASSUME RelayTypeOK, NEW p \in Proxies, NEW h \in Handlers
    PROVE  /\ \A age \in Nat : Accept(p, h, age) => RelayTypeOK'
           /\ Enter(p, h) => RelayTypeOK'
           /\ \A life_ \in Nat : Dialed(p, h, life_) => RelayTypeOK'
           /\ DialFails(p, h) => RelayTypeOK'
           /\ PumpEnds(p, h) => RelayTypeOK'
           /\ Left(p, h) => RelayTypeOK'
<1>0. conn \in [Proxies -> [Handlers -> Connection]] /\ conn[p][h] \in Connection
  BY DEF RelayTypeOK, Connection
<1>a. \A stage \in Stages : Without(stage) \in Connection
  BY DEF Connection, Without, Free
<1>b. \A c \in Connection : conn' = [conn EXCEPT ![p][h] = c] =>
          conn' \in [Proxies -> [Handlers -> [stage : Stages, server : Nat, born : Nat]]]
  BY <1>0, ConnectionSet DEF Connection
<1>1. ASSUME NEW age \in Nat, Accept(p, h, age) PROVE RelayTypeOK'
  <2>1. [stage |-> "accepted", server |-> 0, born |-> age] \in Connection
    BY DEF Connection, Stages
  <2> QED
    BY <1>1, <1>b, <2>1 DEF Accept, RelayTypeOK
<1>2. ASSUME Enter(p, h) PROVE RelayTypeOK'
  <2>3. More(relay[p].attempts) \in 0..2
    <3>1. relay[p].attempts \in 0..2
      BY DEF RelayTypeOK
    <3>2. \A n \in 0..2 : More(n) \in 0..2
      BY DEF More
    <3> QED
      BY <3>1, <3>2
  <2> DEFINE c == IF relay[p].enabled THEN [conn[p][h] EXCEPT !.stage = "dialing"] ELSE Without("leaving")
  <2>1. c \in Connection
    BY <1>0, <1>a DEF Connection, Stages
  <2>2. conn' = [conn EXCEPT ![p][h] = c]
    BY <1>2 DEF Enter
  <2> HIDE DEF c
  <2>4. conn' \in [Proxies -> [Handlers -> [stage : Stages, server : Nat, born : Nat]]]
    BY <1>b, <2>1, <2>2
  <2>5. /\ relay' \in [Proxies -> [enabled : BOOLEAN, attempts : 0..2,
              state : {"none", "listening", "closing", "joining", "closed"}]]
        /\ refused' \subseteq Proxies /\ joined' = joined
    BY <1>2, <2>3 DEF Enter, RelayTypeOK
  <2> QED
    BY <2>4, <2>5 DEF RelayTypeOK
<1>3. ASSUME NEW life_ \in Nat, Dialed(p, h, life_) PROVE RelayTypeOK'
  <2> DEFINE c == [conn[p][h] EXCEPT !.stage = "relaying", !.server = life_]
  <2>1. c \in Connection
    BY <1>0 DEF Connection, Stages
  <2>2. conn' = [conn EXCEPT ![p][h] = c]
    BY <1>3 DEF Dialed
  <2> HIDE DEF c
  <2> QED
    BY <1>3, <1>b, <2>1, <2>2 DEF Dialed, RelayTypeOK
<1>4. ASSUME DialFails(p, h) PROVE RelayTypeOK'
  BY <1>4, <1>a, <1>b DEF DialFails, Leave, RelayTypeOK, Stages
<1>5. ASSUME PumpEnds(p, h) PROVE RelayTypeOK'
  BY <1>5, <1>a, <1>b DEF PumpEnds, Leave, RelayTypeOK, Stages
<1>6. ASSUME Left(p, h) PROVE RelayTypeOK'
  <2>1. Free \in Connection
    BY DEF Connection, Free, Stages
  <2> QED
    BY <1>6, <1>b, <2>1 DEF Left, RelayTypeOK
<1> QED
  BY <1>1, <1>2, <1>3, <1>4, <1>5, <1>6

\* What the end of a relay does to the table.
LEMMA CloseTyped ==
    ASSUME RelayTypeOK, NEW p \in Proxies
    PROVE  Closing(p) \/ CancelTasks(p) \/ Closed(p) => RelayTypeOK'
<1>0. conn \in [Proxies -> [Handlers -> Connection]]
  BY DEF RelayTypeOK, Connection
<1>a. \A stage \in Stages : Without(stage) \in Connection
  BY DEF Connection, Without, Free
<1>1. ASSUME Closing(p) PROVE RelayTypeOK'
  <2>1. Cut({p}) \in [Proxies -> [Handlers -> Connection]]
    BY <1>0, <1>a DEF Cut, Stages
  <2> QED
    BY <1>1, <2>1 DEF Closing, RelayTypeOK, Connection
<1>2. ASSUME CancelTasks(p) PROVE RelayTypeOK'
  <2> DEFINE row == [g \in Handlers |-> IF g \in Tracked(p) THEN Without("leaving") ELSE conn[p][g]]
  <2>1. row \in [Handlers -> Connection]
    BY <1>0, <1>a DEF Stages
  <2>2. Tracked(p) \subseteq Handlers
    BY DEF Tracked, In
  <2>3. conn' = [conn EXCEPT ![p] = row]
    BY <1>2 DEF CancelTasks
  <2> HIDE DEF row
  <2>4. conn' \in [Proxies -> [Handlers -> Connection]]
    BY <1>0, <2>1, <2>3
  <2>5. relay' \in [Proxies -> [enabled : BOOLEAN, attempts : 0..2,
              state : {"none", "listening", "closing", "joining", "closed"}]]
    BY <1>2 DEF CancelTasks, RelayTypeOK
  <2>6. joined' \in [Proxies -> SUBSET Handlers] /\ refused' \subseteq Proxies
    BY <1>2, <2>2 DEF CancelTasks, RelayTypeOK
  <2> QED
    BY <2>4, <2>5, <2>6 DEF RelayTypeOK, Connection
<1>3. ASSUME Closed(p) PROVE RelayTypeOK'
  BY <1>3 DEF Closed, RelayTypeOK
<1> QED
  BY <1>1, <1>2, <1>3

-----------------------------------------------------------------------------
Waits ==
    \/ Await("ready", server = "ready") \/ Await("down", server = "down")
    \/ Await("connected", Linked(Clients, {"live"}))
    \/ Await("rejection", Linked(Invalid, {"refused"}))
    \/ Await("lost", Reported("disconnected") /\ Reported("reconnecting"))
    \/ Await("gone", Reported("disconnected"))
    \/ Await("resumed", Reported("connected"))

LinkState == [link : Links, via : Handlers \cup {None}]

\* Links and events of a set of clients at once, or of one, keep their types.
LEMMA LinkTyped ==
    ASSUME client \in [Proxies -> LinkState], NEW ps \in SUBSET Proxies, NEW link \in Links,
           Link(ps, link)
    PROVE  client' \in [Proxies -> LinkState]
BY DEF Link, LinkState

LEMMA EventsTyped ==
    ASSUME events \in [Proxies -> SUBSET Kinds], NEW ps \in SUBSET Proxies, Baseline(ps)
    PROVE  events' \in [Proxies -> SUBSET Kinds]
BY DEF Baseline

LEMMA GoesTyped ==
    ASSUME client \in [Proxies -> LinkState], events \in [Proxies -> SUBSET Kinds],
           NEW p \in Proxies, NEW link \in Links, NEW kinds \in SUBSET Kinds,
           Goes(p, link, kinds)
    PROVE  client' \in [Proxies -> LinkState] /\ events' \in [Proxies -> SUBSET Kinds]
BY DEF Goes, LinkState

\* So does a client whose link or handler is set by itself.
LEMMA FieldsTyped ==
    ASSUME client \in [Proxies -> LinkState], NEW p \in Proxies, NEW link \in Links,
           NEW via \in Handlers \cup {None}
    PROVE  /\ [client EXCEPT ![p].via = via, ![p].link = link] \in [Proxies -> LinkState]
           /\ [client EXCEPT ![p].link = link] \in [Proxies -> LinkState]
<1>1. [client[p] EXCEPT !.via = via, !.link = link] \in LinkState
  BY DEF LinkState
<1>2. [client[p] EXCEPT !.link = link] \in LinkState
  BY DEF LinkState
<1> QED
  BY <1>1, <1>2

\* The script sets fields of relays.
RelayState == [enabled : BOOLEAN, attempts : 0..2,
               state : {"none", "listening", "closing", "joining", "closed"}]

LEMMA RelayRecords ==
    ASSUME NEW r \in RelayState
    PROVE  /\ \A enabled \in BOOLEAN : [r EXCEPT !.attempts = 0, !.enabled = enabled] \in RelayState
           /\ [r EXCEPT !.state = "listening"] \in RelayState
           /\ [r EXCEPT !.enabled = TRUE] \in RelayState
<1>1. [r EXCEPT !.attempts = 0] \in RelayState
  BY DEF RelayState
<1>2. \A x \in RelayState, enabled \in BOOLEAN : [x EXCEPT !.enabled = enabled] \in RelayState
  BY DEF RelayState
<1>3. [r EXCEPT !.state = "listening"] \in RelayState
  BY DEF RelayState
<1> QED
  BY <1>1, <1>2, <1>3

LEMMA BaselineTyped ==
    ASSUME RelayTypeOK, NEW ps \in SUBSET Proxies, NEW enabled \in BOOLEAN,
           Baseline(ps), Attempted(ps, enabled),
           conn' \in [Proxies -> [Handlers -> Connection]], joined' = joined
    PROVE  RelayTypeOK'
<1>1. relay \in [Proxies -> RelayState]
  BY DEF RelayTypeOK, RelayState
<1>2. relay' \in [Proxies -> RelayState]
  BY <1>1, RelayRecords DEF Attempted
<1>3. refused' \subseteq Proxies
  BY DEF Baseline, RelayTypeOK
<1> QED
  BY <1>2, <1>3 DEF RelayTypeOK, RelayState, Connection

\* Every step keeps the types.
LEMMA TypeStep ==
    ASSUME TypeOK, [Next]_vars
    PROVE  TypeOK'
<1> USE DEF TypeOK, None, Quietly
<1>0. /\ Clients \subseteq Proxies /\ Invalid \subseteq Proxies
      /\ client \in [Proxies -> LinkState]
      /\ relay \in [Proxies -> RelayState]
      /\ conn \in [Proxies -> [Handlers -> Connection]]
  BY ProxiesAssumption DEF LinkState, RelayTypeOK, RelayState, Connection
<1>1. CASE StartServer
  BY <1>1, Onward DEF StartServer, At, RelayTypeOK, relaying, sdk
<1>2. CASE CreateClients \/ CreateInvalid
  <2>1. relay' \in [Proxies -> RelayState]
    <3>1. \A r \in RelayState : [r EXCEPT !.state = "listening"] \in RelayState
      BY RelayRecords
    <3>2. CASE CreateClients
      BY <1>0, <3>1, <3>2 DEF CreateClients, Create
    <3>3. CASE CreateInvalid
      BY <1>0, <3>1, <3>3 DEF CreateInvalid, Create
    <3> QED
      BY <1>2, <3>2, <3>3
  <2>3. RelayTypeOK'
    BY <1>2, <2>1 DEF CreateClients, CreateInvalid, Create, RelayTypeOK, RelayState
  <2>2. client' \in [Proxies -> LinkState]
    BY <1>0, <1>2, LinkTyped DEF CreateClients, CreateInvalid, Create, Links
  <2> QED
    BY <1>2, <2>2, <2>3, Onward DEF LinkState, CreateClients, CreateInvalid, Create, At, process
<1>3. CASE GiveConnect
  <2>1. client' \in [Proxies -> LinkState]
    BY <1>0, <1>3, LinkTyped DEF GiveConnect, Links
  <2> QED
    BY <1>3, <2>1, Onward DEF LinkState, GiveConnect, At, process, relaying, RelayTypeOK
<1>4. CASE Judge
  <2>1. client' \in [Proxies -> LinkState]
    BY <1>0, <1>4, LinkTyped DEF Judge, Links
  <2> QED
    BY <1>4, <2>1, Onward DEF LinkState, Judge, At, process, relaying, RelayTypeOK
<1>5. CASE DropNetwork
  <2>1. events' \in [Proxies -> SUBSET Kinds]
    BY <1>0, <1>5, EventsTyped DEF DropNetwork
  <2>2. conn' \in [Proxies -> [Handlers -> Connection]]
    BY <1>0, <1>5 DEF DropNetwork, Cut, Without, Free, Stages, Connection
  <2>3. RelayTypeOK'
    BY <1>0, <1>5, <2>2, BaselineTyped DEF DropNetwork
  <2> QED
    BY <1>5, <2>1, <2>3, Onward DEF DropNetwork, At, process
<1>6. CASE Retried
  <2>1. relay' \in [Proxies -> RelayState]
    <3>1. \A r \in RelayState : [r EXCEPT !.enabled = TRUE] \in RelayState
      BY RelayRecords
    <3> QED
      BY <1>0, <1>6, <3>1 DEF Retried
  <2>2. RelayTypeOK'
    BY <1>6, <2>1 DEF Retried, RelayTypeOK, RelayState
  <2> QED
    BY <1>6, <2>2, Onward DEF Retried, At, process, sdk
<1>7. CASE CrashServer
  <2>1. events' \in [Proxies -> SUBSET Kinds]
    BY <1>0, <1>7, EventsTyped DEF CrashServer
  <2>2. RelayTypeOK'
    BY <1>0, <1>7, BaselineTyped DEF CrashServer
  <2> QED
    BY <1>7, <2>1, <2>2, Onward DEF CrashServer, At
<1>8. CASE GiveDisconnect
  <2>1. /\ events' \in [Proxies -> SUBSET Kinds]
        /\ client' \in [Proxies -> LinkState]
    BY <1>0, <1>8, LinkTyped, EventsTyped DEF GiveDisconnect, Links
  <2>2. RelayTypeOK'
    BY <1>0, <1>8, BaselineTyped DEF GiveDisconnect
  <2> QED
    BY <1>8, <2>1, <2>2, Onward DEF LinkState, GiveDisconnect, At, process
<1>9. CASE Quiet \/ Break \/ Waits
  BY <1>9, Onward DEF Quiet, Break, Waits, Await, At, process, sdk, relaying, RelayTypeOK
<1>10. ASSUME NEW case \in {"messaging", "network", "recovery", "manual"}, Exchange(case)
       PROVE TypeOK'
  BY <1>10, Onward DEF Exchange, At, process, sdk, relaying, RelayTypeOK
<1>11. ASSUME NEW p \in Proxies, CloseActor(p)
       PROVE TypeOK'
  <2>1. client' \in [Proxies -> LinkState]
    BY <1>0, <1>11, LinkTyped DEF CloseActor, Links
  <2> QED
    BY <1>11, <2>1 DEF LinkState, CloseActor, script, process, relaying, RelayTypeOK
<1>12. ASSUME NEW p \in Proxies, CloseRelay(p) \/ CloseGoesOn(p)
       PROVE TypeOK'
  <2>1. RelayTypeOK'
    BY <1>12, CloseTyped DEF CloseRelay, CloseGoesOn
  <2> QED
    BY <1>12, <2>1 DEF CloseRelay, CloseGoesOn, script, process, sdk
<1>13. CASE StopServer \/ ServerRuns
  BY <1>13 DEF StopServer, ServerRuns, script, sdk, relaying, RelayTypeOK
<1>14. CASE NextPhase
  BY <1>14 DEF NextPhase, process, sdk, relaying, RelayTypeOK
<1>15. CASE Deadline
  BY <1>15, Onward DEF Deadline, Over, process, sdk, relaying, RelayTypeOK
<1>16. ASSUME NEW p \in Proxies, NEW h \in Handlers, Relaying(p, h)
       PROVE TypeOK'
  BY <1>16, RelayTyped DEF Relaying, script, process, sdk
<1>17. ASSUME NEW p \in Proxies, NEW h \in Handlers, ServerDrops(p, h)
       PROVE TypeOK'
  BY <1>17, RelayTyped DEF ServerDrops, script, process, sdk
<1>18. ASSUME NEW p \in Proxies, NEW h \in Handlers, Dial(p, h)
       PROVE TypeOK'
  <2>1. RelayTypeOK'
    BY <1>18, RelayTyped DEF Dial
  <2>2. client' \in [Proxies -> LinkState]
    <3> DEFINE link == IF client[p].link = "first" THEN "first" ELSE "retry"
    <3>1. client' = [client EXCEPT ![p].via = h, ![p].link = link]
      BY <1>0, <1>18 DEF Dial
    <3>2. link \in Links
      BY DEF Links
    <3> HIDE DEF link
    <3> QED
      BY <1>0, <3>1, <3>2, FieldsTyped
  <2> QED
    BY <1>18, <2>1, <2>2 DEF LinkState, Dial, script, process
<1>19. ASSUME NEW p \in Proxies, LogsIn(p) \/ Loses(p)
       PROVE TypeOK'
  <2>1. PICK link \in Links, kinds \in SUBSET Kinds : Goes(p, link, kinds)
    BY <1>19 DEF LogsIn, Loses, Links, Kinds
  <2> QED
    BY <2>1, <1>0, GoesTyped DEF LinkState, Goes, script, process, relaying, RelayTypeOK
<1>20. ASSUME NEW p \in Proxies, RetriesAnyway(p)
       PROVE TypeOK'
  <2>1. client' \in [Proxies -> LinkState]
    BY <1>0, <1>20, FieldsTyped DEF RetriesAnyway, Links
  <2>2. losses' \in Nat
    BY <1>20 DEF RetriesAnyway
  <2> QED
    BY <1>20, <2>1, <2>2 DEF LinkState, RetriesAnyway, script, process, relaying, RelayTypeOK
<1>21. CASE UNCHANGED vars
  BY <1>21 DEF vars, script, process, sdk, relaying, RelayTypeOK
<1> QED
  BY <1>1, <1>2, <1>3, <1>4, <1>5, <1>6, <1>7, <1>8, <1>9, <1>10, <1>11, <1>12, <1>13,
     <1>14, <1>15, <1>16, <1>17, <1>18, <1>19, <1>20, <1>21
  DEF Next, Scenario, Cleanup, Sdk, Waits

-----------------------------------------------------------------------------
\* While the script runs no relay closes.
LEMMA ScriptKeepsRelays ==
    ASSUME IInv, Scenario
    PROVE  /\ phase = "script" /\ phase' \in {"script", "actors"}
           /\ \A p \in Proxies : relay'[p].state \in {"none", "listening"}
           /\ joined' = joined
<1>1. phase = "script"
  BY DEF Scenario, StartServer, CreateClients, CreateInvalid, GiveConnect, Judge,
         DropNetwork, Retried, CrashServer, GiveDisconnect, Quiet, Break, Exchange, Await, At
<1>2. phase' \in {"script", "actors"}
  BY <1>1, Onward
  DEF IInv, Scenario, StartServer, CreateClients, CreateInvalid, GiveConnect, Judge,
      DropNetwork, Retried, CrashServer, GiveDisconnect, Quiet, Break, Exchange, Await
<1>3. \A p \in Proxies : relay[p].state \in {"none", "listening"}
  BY <1>1 DEF IInv, RelayInv
<1>4. relay \in [Proxies -> RelayState]
  BY DEF IInv, TypeOK, RelayTypeOK, RelayState
<1>5. CASE CreateClients \/ CreateInvalid
  BY <1>1, <1>2, <1>3, <1>4, <1>5 DEF CreateClients, CreateInvalid, Create, RelayState
<1>6. CASE DropNetwork \/ CrashServer \/ GiveDisconnect
  <2>1. PICK enabled \in BOOLEAN : Attempted(Clients, enabled)
    BY <1>6 DEF DropNetwork, CrashServer, GiveDisconnect
  <2>2. \A p \in Proxies : relay'[p].state = relay[p].state
    BY <1>4, <2>1 DEF Attempted, RelayState
  <2> QED
    BY <1>1, <1>2, <1>3, <1>6, <2>2 DEF DropNetwork, CrashServer, GiveDisconnect
<1>7. CASE Retried
  BY <1>1, <1>2, <1>3, <1>4, <1>7 DEF Retried, RelayState
<1>8. ASSUME relay' = relay, joined' = joined
      PROVE \A p \in Proxies : relay'[p].state \in {"none", "listening"}
  BY <1>3, <1>8
<1> QED
  BY <1>1, <1>2, <1>5, <1>6, <1>7, <1>8
  DEF Scenario, StartServer, GiveConnect, Judge, Quiet, Break, Exchange, Await, relaying

\* What a step of a handler does to its connection, and what it leaves alone.
LEMMA HandlerMove ==
    ASSUME RelayTypeOK, NEW p \in Proxies, NEW h \in Handlers, NEW n \in Nat,
           \/ Enter(p, h) \/ Dialed(p, h, n) \/ DialFails(p, h) \/ PumpEnds(p, h) \/ Left(p, h)
    PROVE  /\ \E c \in Connection :
                 /\ conn' = [conn EXCEPT ![p][h] = c]
                 /\ \/ c.stage \in {"free", "leaving"}
                    \/ /\ c.stage \in {"dialing", "relaying"}
                       /\ conn[p][h].stage \in {"accepted", "dialing"}
                       /\ conn[p][h].stage = "accepted" => relay[p].enabled
                       /\ c.born = conn[p][h].born
           /\ \A q \in Proxies :
                 /\ relay'[q].state = relay[q].state
                 /\ relay'[q].enabled = relay[q].enabled
                 /\ joined'[q] \subseteq joined[q]
                 /\ ~relay[q].enabled /\ relay'[q].attempts > 0 =>
                       relay[q].attempts > 0 \/ q \in refused'
           /\ refused \subseteq refused'
<1>0. /\ conn[p][h] \in Connection
      /\ relay \in [Proxies -> RelayState] /\ joined \in [Proxies -> SUBSET Handlers]
  BY DEF RelayTypeOK, Connection, RelayState
<1>1. /\ Free \in Connection /\ Free.stage = "free"
      /\ Without("leaving") \in Connection /\ Without("leaving").stage = "leaving"
  BY DEF Free, Without, Connection, Stages
<1>2. CASE Enter(p, h)
  <2>1. ASSUME relay[p].enabled
        PROVE  LET c == [conn[p][h] EXCEPT !.stage = "dialing"] IN
               /\ c \in Connection /\ c.stage = "dialing" /\ c.born = conn[p][h].born
               /\ conn' = [conn EXCEPT ![p][h] = c]
    BY <1>0, <1>2, <2>1 DEF Enter, Connection, Stages
  <2>2. ASSUME ~relay[p].enabled
        PROVE  conn' = [conn EXCEPT ![p][h] = Without("leaving")]
    BY <1>2, <2>2 DEF Enter
  <2>3. \A q \in Proxies : /\ relay'[q].state = relay[q].state
                           /\ relay'[q].enabled = relay[q].enabled
                           /\ q # p => relay'[q] = relay[q]
    BY <1>0, <1>2 DEF Enter, RelayState
  <2> QED
    BY <1>1, <1>2, <2>1, <2>2, <2>3 DEF Enter
<1>3. CASE Dialed(p, h, n)
  <2> DEFINE c == [conn[p][h] EXCEPT !.stage = "relaying", !.server = n]
  <2>1. LET r == [conn[p][h] EXCEPT !.stage = "relaying"] IN
        r \in Connection /\ r.stage = "relaying" /\ r.born = conn[p][h].born
    BY <1>0 DEF Connection, Stages
  <2>2. \A x \in Connection : LET y == [x EXCEPT !.server = n] IN
            y \in Connection /\ y.stage = x.stage /\ y.born = x.born
    BY DEF Connection
  <2>3. c \in Connection /\ c.stage = "relaying" /\ c.born = conn[p][h].born
    BY <2>1, <2>2
  <2>4. conn' = [conn EXCEPT ![p][h] = c]
    BY <1>3 DEF Dialed
  <2> HIDE DEF c
  <2> QED
    BY <1>3, <2>3, <2>4 DEF Dialed
<1>4. CASE DialFails(p, h) \/ PumpEnds(p, h)
  BY <1>1, <1>4 DEF DialFails, PumpEnds, Leave
<1>5. CASE Left(p, h)
  <2>1. \A q \in Proxies : joined'[q] \subseteq joined[q]
    BY <1>0, <1>5 DEF Left
  <2> QED
    BY <1>1, <1>5, <2>1 DEF Left
<1> QED
  BY <1>2, <1>3, <1>4, <1>5

\* Every step keeps what the relays promise.
LEMMA RelayStep ==
    ASSUME IInv, [Next]_vars
    PROVE  RelayInv'
<1>0. /\ relay \in [Proxies -> RelayState]
      /\ conn \in [Proxies -> [Handlers -> Connection]]
      /\ joined \in [Proxies -> SUBSET Handlers]
  BY DEF IInv, TypeOK, RelayTypeOK, RelayState, Connection
<1>1. CASE Scenario
  BY <1>1, ScriptKeepsRelays DEF IInv, RelayInv
<1>2. ASSUME UNCHANGED relaying, phase \notin {"script", "actors"} => phase' \notin {"script", "actors"}
      PROVE RelayInv'
  BY <1>2 DEF IInv, RelayInv, relaying
<1>3. ASSUME NEW p \in Proxies, CloseActor(p)
      PROVE  RelayInv'
  BY <1>2, <1>3 DEF CloseActor, script
<1>4. ASSUME NEW p \in Proxies, CloseRelay(p)
      PROVE  RelayInv'
  <2>1. /\ relay[p].state = "listening"
        /\ \A q \in Proxies : q # p => relay'[q] = relay[q]
        /\ relay'[p].state = "closing" /\ ~relay'[p].enabled
        /\ joined' = joined /\ phase' = phase /\ phase = "relays"
    BY <1>0, <1>4 DEF CloseRelay, Closing, script, RelayState
  <2>2. \A q \in Proxies : q # p => \A h \in Handlers : conn'[q][h] = conn[q][h]
    BY <1>4 DEF CloseRelay, Closing, Cut
  <2> QED
    BY <2>1, <2>2 DEF IInv, RelayInv
<1>5. ASSUME NEW p \in Proxies, CancelTasks(p), phase = "relays", phase' = phase
      PROVE  RelayInv'
  <2> DEFINE row == [h \in Handlers |-> IF h \in Tracked(p) THEN Without("leaving") ELSE conn[p][h]]
  <2>1. \A h \in Handlers : row[h].stage \in {"free", "accepted", "leaving"}
    BY <1>0 DEF Tracked, In, Without, Free, Connection, Stages
  <2>2. conn' = [conn EXCEPT ![p] = row]
    BY <1>5 DEF CancelTasks
  <2> HIDE DEF row
  <2>3. /\ \A h \in Handlers : conn'[p][h].stage \in {"free", "accepted", "leaving"}
        /\ \A q \in Proxies : q # p => conn'[q] = conn[q]
    BY <1>0, <2>1, <2>2
  <2>4. /\ relay[p].state = "closing" /\ relay'[p].state = "joining"
        /\ relay'[p].enabled = relay[p].enabled
        /\ \A q \in Proxies : q # p => relay'[q] = relay[q] /\ joined'[q] = joined[q]
    BY <1>0, <1>5 DEF CancelTasks, RelayState
  <2> QED
    BY <1>5, <2>3, <2>4 DEF IInv, RelayInv
<1>6. ASSUME NEW p \in Proxies, Closed(p), phase = "relays", phase' = phase
      PROVE  RelayInv'
  <2>1. /\ relay[p].state = "joining" /\ relay'[p].state = "closed" /\ joined[p] = {}
        /\ relay'[p].enabled = relay[p].enabled /\ joined' = joined /\ conn' = conn
        /\ \A q \in Proxies : q # p => relay'[q] = relay[q]
    BY <1>0, <1>6 DEF Closed, RelayState
  <2> QED
    BY <1>6, <2>1 DEF IInv, RelayInv
<1>7. CASE StopServer \/ ServerRuns
  BY <1>2, <1>7 DEF StopServer, ServerRuns, script
<1>8. CASE NextPhase
  BY <1>2, <1>8 DEF NextPhase
<1>9. CASE Deadline
  BY <1>2, <1>9 DEF Deadline, Over
<1>10. ASSUME NEW p \in Proxies, NEW h \in Handlers, NEW c \in Connection,
              conn' = [conn EXCEPT ![p][h] = c], UNCHANGED phase,
              \A q \in Proxies : /\ relay'[q].state = relay[q].state
                                 /\ relay'[q].enabled = relay[q].enabled
                                 /\ joined'[q] \subseteq joined[q],
              c.stage \in {"free", "accepted", "leaving"} \/ relay[p].state \notin {"joining", "closed"}
       PROVE  RelayInv'
  <2>1. \A q \in Proxies, g \in Handlers : conn'[q][g] = IF q = p /\ g = h THEN c ELSE conn[q][g]
    BY <1>0, <1>10, ConnectionSet
  <2>2. \A q \in Proxies : joined[q] = {} => joined'[q] = {}
    BY <1>10
  <2> QED
    BY <1>10, <2>1, <2>2 DEF IInv, RelayInv
<1>12. ASSUME NEW p \in Proxies, NEW h \in Handlers, Relaying(p, h) \/ ServerDrops(p, h)
       PROVE  RelayInv'
  <2>1. /\ \/ Enter(p, h) \/ Dialed(p, h, life) \/ DialFails(p, h) \/ PumpEnds(p, h) \/ Left(p, h)
        /\ phase' = phase /\ RelayTypeOK /\ life \in Nat
    BY <1>12 DEF Relaying, ServerDrops, script, IInv, TypeOK
  <2>2. PICK c \in Connection :
            /\ conn' = [conn EXCEPT ![p][h] = c]
            /\ \/ c.stage \in {"free", "leaving"}
               \/ /\ conn[p][h].stage \in {"accepted", "dialing"}
                  /\ conn[p][h].stage = "accepted" => relay[p].enabled
    BY <2>1, HandlerMove
  <2>3. \A q \in Proxies : /\ relay'[q].state = relay[q].state
                           /\ relay'[q].enabled = relay[q].enabled
                           /\ joined'[q] \subseteq joined[q]
    BY <2>1, HandlerMove
  <2>4. c.stage \in {"free", "accepted", "leaving"} \/ relay[p].state \notin {"joining", "closed"}
    BY <2>2 DEF IInv, RelayInv
  <2> QED
    BY <1>10, <2>1, <2>2, <2>3, <2>4
<1>14. ASSUME NEW p \in Proxies, NEW h \in Handlers, Dial(p, h)
       PROVE  RelayInv'
  <2> DEFINE c == [stage |-> "accepted", server |-> 0, born |-> faults]
  <2>1. c \in Connection /\ c.stage = "accepted"
    BY DEF Connection, Stages, IInv, TypeOK
  <2>2. conn' = [conn EXCEPT ![p][h] = c]
    BY <1>14 DEF Dial, Accept
  <2>3. UNCHANGED <<phase, relay, joined>>
    BY <1>14 DEF Dial, Accept, script
  <2> HIDE DEF c
  <2> QED
    BY <1>10, <2>1, <2>2, <2>3
<1>15. ASSUME NEW p \in Proxies, LogsIn(p) \/ Loses(p) \/ RetriesAnyway(p)
       PROVE  RelayInv'
  BY <1>2, <1>15 DEF LogsIn, Loses, RetriesAnyway, Goes, script
<1>16. CASE UNCHANGED vars
  BY <1>2, <1>16 DEF vars, script
<1> QED
  BY <1>1, <1>3, <1>4, <1>5, <1>6, <1>7, <1>8, <1>9, <1>12, <1>14, <1>15, <1>16
  DEF Next, Cleanup, Sdk, CloseGoesOn, script

-----------------------------------------------------------------------------
\* A step of the script goes on or gives up.
LEMMA ScriptGoes ==
    ASSUME IInv, Scenario
    PROVE  phase = "script" /\ (Advance \/ Raise)
BY DEF Scenario, StartServer, CreateClients, CreateInvalid, GiveConnect, Judge, DropNetwork,
       Retried, CrashServer, GiveDisconnect, Quiet, Break, Exchange, Await, At

\* Every step keeps what the cleanup has reached.
LEMMA CleanupStep ==
    ASSUME IInv, [Next]_vars
    PROVE  CleanupInv'
<1>0. /\ client \in [Proxies -> LinkState] /\ relay \in [Proxies -> RelayState]
      /\ conn \in [Proxies -> [Handlers -> Connection]]
      /\ TypeOK /\ CleanupInv
  BY DEF IInv, TypeOK, LinkState, RelayTypeOK, RelayState, Connection
<1>1. CASE Scenario
  <2>1. /\ phase = "script" /\ (Advance \/ Raise)
        /\ phase' \in {"script", "actors"}
    BY <1>1, ScriptGoes, ScriptKeepsRelays
  <2>2. /\ phase' = "script" => verdict' = verdict
        /\ phase' = "actors" => verdict' \in {"completed", "failed"}
    BY <1>0, <2>1, Onward
  <2> QED
    BY <1>0, <2>1, <2>2 DEF CleanupInv
<1>2. ASSUME UNCHANGED <<phase, verdict>>,
             phase \in {"relays", "server", "ended"} /\ Linked(Proxies, {"none", "dead"})
                 => Linked(Proxies, {"none", "dead"})',
             phase \in {"server", "ended"} => \A p \in Proxies : relay'[p].state = relay[p].state,
             server = "down" /\ phase = "ended" => server' = "down"
      PROVE  CleanupInv'
  BY <1>0, <1>2 DEF CleanupInv
<1>3. ASSUME NEW p \in Proxies, CloseActor(p)
      PROVE  CleanupInv'
  BY <1>2, <1>3 DEF CloseActor, script, process, relaying
<1>4. ASSUME NEW p \in Proxies, CloseRelay(p) \/ CloseGoesOn(p)
      PROVE  CleanupInv'
  BY <1>2, <1>4 DEF CloseRelay, CloseGoesOn, script, process, sdk, Linked
<1>5. CASE StopServer \/ ServerRuns
  BY <1>2, <1>5 DEF StopServer, ServerRuns, script, sdk, relaying, Linked
<1>6. CASE NextPhase
  BY <1>0, <1>6 DEF NextPhase, CleanupInv, ServerStopped, Owned, sdk, process, relaying, Linked
<1>7. CASE Deadline
  BY <1>0, <1>7 DEF Deadline, Over, CleanupInv
<1>8. ASSUME NEW p \in Proxies, NEW h \in Handlers, Relaying(p, h) \/ ServerDrops(p, h)
      PROVE  CleanupInv'
  <2>1. /\ \/ Enter(p, h) \/ Dialed(p, h, life) \/ DialFails(p, h) \/ PumpEnds(p, h) \/ Left(p, h)
        /\ RelayTypeOK /\ life \in Nat
        /\ UNCHANGED <<phase, verdict, client, server>>
    BY <1>8 DEF Relaying, ServerDrops, script, sdk, process, IInv, TypeOK
  <2>2. \A q \in Proxies : relay'[q].state = relay[q].state
    BY <2>1, HandlerMove
  <2> QED
    BY <1>2, <2>1, <2>2 DEF Linked
<1>9. ASSUME NEW p \in Proxies, Sdk(p)
      PROVE  CleanupInv'
  <2>1. /\ UNCHANGED <<phase, verdict, server, relay>>
        /\ client[p].link \notin {"none", "dead"}
    BY <1>9 DEF Sdk, RetriesAnyway, LogsIn, Loses, Goes, Dial, Accept, script, process, relaying
  <2> QED
    BY <1>2, <2>1 DEF Linked
<1>10. CASE UNCHANGED vars
  BY <1>2, <1>10 DEF vars, script, process, sdk, relaying, Linked
<1> QED
  BY <1>1, <1>3, <1>4, <1>5, <1>6, <1>7, <1>8, <1>9, <1>10 DEF Next, Cleanup

-----------------------------------------------------------------------------
\* What a step of the script does to the ages of the connections.
LEMMA ScriptKeepsAges ==
    ASSUME IInv, Scenario, phase' = "script"
    PROVE  \A p \in Clients : Young(p)' \/ Waiting(p)'
<1>0. /\ phase = "script" /\ pc' = pc + 1 /\ pc \in 1..Len(Script) /\ pc \in Nat
      /\ \A p \in Clients : Young(p) \/ Waiting(p)
      /\ Clients \subseteq Proxies
  BY ScriptGoes, Onward, ProxiesAssumption DEF IInv, TypeOK, EvidenceInv, Raise, Over
<1>1. SUFFICES ASSUME NEW p \in Clients
               PROVE  Young(p)' \/ Waiting(p)'
  OBVIOUS
<1>2. CASE DropNetwork \/ CrashServer
  <2>1. events'[p] = {}
    BY <1>0, <1>2 DEF DropNetwork, CrashServer, Baseline
  <2>2. At("drop") \/ At("crash")
    BY <1>2 DEF DropNetwork, CrashServer
  <2>3. pc \in {10, 15}
    BY <1>0, <2>2, ScriptSteps DEF At
  <2>4. pc' \in {11, 16}
    BY <1>0, <2>3
  <2> QED
    BY <2>1, <2>4 DEF Waiting
<1>3. CASE CreateClients \/ GiveConnect \/ GiveDisconnect
  <2>1. PICK link : Link(Clients, link)
    BY <1>3 DEF CreateClients, Create, GiveConnect, GiveDisconnect
  <2>2. client'[p].via = None
    BY <1>0, <2>1 DEF Link
  <2> QED
    BY <2>2 DEF Young
<1>4. ASSUME UNCHANGED <<conn, faults, events>>, client'[p] = client[p],
             pc \in {11, 17} => "disconnected" \in events[p]
      PROVE  Young(p)' \/ Waiting(p)'
  BY <1>0, <1>4 DEF Young, Waiting
<1>5. CASE CreateInvalid \/ Judge
  <2>1. client'[p] = client[p]
    BY <1>0, <1>5, ProxiesAssumption DEF CreateInvalid, Create, Judge, Link
  <2>2. pc \notin {11, 17}
    BY <1>0, <1>5, ScriptSteps DEF CreateInvalid, Judge, At
  <2> QED
    BY <1>4, <1>5, <2>1, <2>2 DEF CreateInvalid, Create, Judge, relaying, Quietly
<1>6. CASE StartServer \/ Retried \/ Quiet \/ \E case \in {"messaging", "network", "recovery", "manual"} : Exchange(case)
  <2>1. pc \notin {11, 17}
    BY <1>0, <1>6, ScriptSteps DEF StartServer, Retried, Quiet, Exchange, At
  <2> QED
    BY <1>4, <1>6, <2>1 DEF StartServer, Retried, Quiet, Exchange, relaying, sdk, Quietly
<1>7. CASE Waits
  <2>1. pc \in {11, 17} => "disconnected" \in events[p]
    BY <1>0, <1>7, ScriptSteps DEF Waits, Await, At, Reported
  <2> QED
    BY <1>4, <1>7, <2>1 DEF Waits, Await, relaying, sdk
<1>8. ~Break
  BY DEF Break, Raise, Over
<1> QED
  BY <1>2, <1>3, <1>5, <1>6, <1>7, <1>8 DEF Scenario, Waits

\* What a step of the script does to the evidence of the retries.
LEMMA ScriptKeepsRefusals ==
    ASSUME IInv, Scenario, phase' = "script"
    PROVE  /\ pc' \in {11, 12} =>
                 \A p \in Clients : ~relay'[p].enabled /\ (relay'[p].attempts > 0 => p \in refused')
           /\ pc' \in {13, 14} => Clients \subseteq refused'
<1>0. /\ phase = "script" /\ pc' = pc + 1 /\ pc \in 1..Len(Script) /\ pc \in Nat
      /\ pc \in {11, 12} =>
            \A p \in Clients : ~relay[p].enabled /\ (relay[p].attempts > 0 => p \in refused)
      /\ pc \in {13, 14} => Clients \subseteq refused
      /\ Clients \subseteq Proxies
      /\ relay \in [Proxies -> RelayState]
  BY ScriptGoes, Onward, ProxiesAssumption
  DEF IInv, TypeOK, RelayTypeOK, RelayState, EvidenceInv, Raise, Over
<1>1. CASE pc \notin 10..13
  BY <1>0, <1>1
<1>2. CASE pc = 10
  <2>1. DropNetwork
    BY <1>0, <1>2, ScriptSteps
    DEF Scenario, StartServer, CreateClients, CreateInvalid, GiveConnect, Judge, DropNetwork,
        Retried, CrashServer, GiveDisconnect, Quiet, Break, Raise, Over, Exchange, Await, At
  <2>2. \A r \in RelayState : LET s == [r EXCEPT !.attempts = 0, !.enabled = FALSE] IN
            ~s.enabled /\ s.attempts = 0
    BY DEF RelayState
  <2>3. \A p \in Clients : ~relay'[p].enabled /\ relay'[p].attempts = 0
    BY <1>0, <2>1, <2>2 DEF DropNetwork, Attempted
  <2> QED
    BY <1>0, <1>2, <2>3
<1>3. CASE pc = 11
  <2>1. UNCHANGED relaying
    BY <1>0, <1>3, ScriptSteps
    DEF Scenario, StartServer, CreateClients, CreateInvalid, GiveConnect, Judge, DropNetwork,
        Retried, CrashServer, GiveDisconnect, Quiet, Break, Exchange, Await, At
  <2> QED
    BY <1>0, <1>3, <2>1 DEF relaying
<1>4. CASE pc = 12
  <2>0. Script[pc] = "retried"
    BY <1>0, <1>4, ScriptSteps
  <2>1. Retried
    BY <1>0, <2>0
    DEF Scenario, StartServer, CreateClients, CreateInvalid, GiveConnect, Judge, DropNetwork,
        CrashServer, GiveDisconnect, Quiet, Break, Raise, Over, Exchange, Await, At
  <2>2. Clients \subseteq refused
    BY <1>0, <1>4, <2>1 DEF Retried, Crossed, Raise, Over
  <2> QED
    BY <1>0, <1>4, <2>1, <2>2 DEF Retried
<1>5. CASE pc = 13
  <2>1. /\ ~At("create") /\ ~At("invalid") /\ ~At("drop") /\ ~At("retried") /\ ~At("crash")
        /\ ~At("disconnect") /\ ~At("token")
    BY <1>0, <1>5, ScriptSteps DEF At
  <2>2. UNCHANGED relaying
    BY <2>1
    DEF Scenario, StartServer, CreateClients, CreateInvalid, GiveConnect, Judge, DropNetwork,
        Retried, CrashServer, GiveDisconnect, Quiet, Break, Exchange, Await
  <2> QED
    BY <1>0, <1>5, <2>2 DEF relaying
<1> QED
  BY <1>0, <1>1, <1>2, <1>3, <1>4, <1>5

-----------------------------------------------------------------------------
\* Clients that are not touched, or lose their connection, or keep an older one.
LEMMA AgesKept ==
    ASSUME IInv, NEW p \in Clients, phase = "script", UNCHANGED <<pc, faults>>,
           events[p] \cap {"disconnected"} = events'[p] \cap {"disconnected"},
           client'[p].via = client[p].via,
           \A h \in Handlers : conn'[p][h].stage \in {"accepted", "dialing", "relaying"} =>
               /\ conn[p][h].stage \in {"accepted", "dialing", "relaying"}
               /\ conn'[p][h].born = conn[p][h].born
    PROVE  Young(p)' \/ Waiting(p)'
<1>1. client[p].via # None => client[p].via \in Handlers
  BY ProxiesAssumption DEF IInv, TypeOK
<1>2. Young(p) \/ Waiting(p)
  BY DEF IInv, EvidenceInv
<1>3. Waiting(p) => Waiting(p)'
  BY DEF Waiting
<1>4. Young(p) => Young(p)'
  BY <1>1 DEF Young
<1> QED
  BY <1>2, <1>3, <1>4

\* Every step keeps what the script has evidence for.
LEMMA EvidenceStep ==
    ASSUME IInv, [Next]_vars
    PROVE  EvidenceInv'
<1>0. /\ TypeOK /\ EvidenceInv /\ Clients \subseteq Proxies /\ Invalid \subseteq Proxies
      /\ Clients \cap Invalid = {}
      /\ client \in [Proxies -> LinkState] /\ events \in [Proxies -> SUBSET Kinds]
      /\ conn \in [Proxies -> [Handlers -> Connection]]
  BY ProxiesAssumption DEF IInv, TypeOK, RelayTypeOK, LinkState, Connection
<1>1. CASE Scenario
  <2>1. \A p \in Proxies : client'[p].link = "live" => client'[p].via # None
    <3>1. client' = client \/ \E ps \in SUBSET Proxies, link \in Links \ {"live"} : Link(ps, link)
      BY <1>0, <1>1
      DEF Scenario, StartServer, CreateClients, CreateInvalid, Create, GiveConnect, Judge, DropNetwork,
          Retried, CrashServer, GiveDisconnect, Quiet, Break, Exchange, Await, sdk, Links
    <3>2. ASSUME NEW ps \in SUBSET Proxies, NEW link \in Links \ {"live"}, Link(ps, link)
          PROVE  \A p \in Proxies : client'[p].link = "live" => client'[p].via # None
      BY <1>0, <3>2 DEF Link, EvidenceInv
    <3> QED
      BY <1>0, <3>1, <3>2 DEF EvidenceInv
  <2>2. \A p \in Invalid : "connected" \notin events'[p]
    <3>1. events' = events \/ Baseline(Clients)
      BY <1>1
      DEF Scenario, StartServer, CreateClients, CreateInvalid, Create, GiveConnect, Judge, DropNetwork,
          Retried, CrashServer, GiveDisconnect, Quiet, Break, Exchange, Await, sdk
    <3> QED
      BY <1>0, <3>1 DEF Baseline, EvidenceInv
  <2> QED
    BY <1>1, <2>1, <2>2, ScriptKeepsAges, ScriptKeepsRefusals DEF EvidenceInv
<1>2. ASSUME UNCHANGED <<client, events>>, phase' # "script"
      PROVE  EvidenceInv'
  BY <1>0, <1>2 DEF EvidenceInv
<1>3. ASSUME NEW p \in Proxies, CloseActor(p)
      PROVE  EvidenceInv'
  BY <1>0, <1>3 DEF CloseActor, Link, EvidenceInv, script
<1>4. CASE NextPhase \/ StopServer \/ Deadline \/ \E p \in Proxies : CloseRelay(p) \/ CloseGoesOn(p)
  BY <1>2, <1>4 DEF NextPhase, StopServer, Deadline, Over, CloseRelay, CloseGoesOn, script, sdk
<1>5. CASE ServerRuns \/ UNCHANGED vars
  BY <1>0, <1>5 DEF ServerRuns, vars, script, sdk, process, relaying, Quietly, EvidenceInv, Young, Waiting
<1>6. ASSUME NEW p \in Proxies, NEW h \in Handlers, Relaying(p, h) \/ ServerDrops(p, h)
      PROVE  EvidenceInv'
  <2>1. /\ \/ Enter(p, h) \/ Dialed(p, h, life) \/ DialFails(p, h) \/ PumpEnds(p, h) \/ Left(p, h)
        /\ RelayTypeOK /\ life \in Nat
        /\ UNCHANGED <<phase, pc, faults, client, events>>
    BY <1>6 DEF Relaying, ServerDrops, script, sdk, Quietly, IInv, TypeOK
  <2>2. PICK c \in Connection :
            /\ conn' = [conn EXCEPT ![p][h] = c]
            /\ \/ c.stage \in {"free", "leaving"}
               \/ /\ conn[p][h].stage \in {"accepted", "dialing"}
                  /\ c.born = conn[p][h].born
    BY <2>1, HandlerMove
  <2>3. \A q \in Proxies : /\ relay'[q].enabled = relay[q].enabled
                           /\ ~relay[q].enabled /\ relay'[q].attempts > 0 =>
                                 relay[q].attempts > 0 \/ q \in refused'
    BY <2>1, HandlerMove
  <2>4. refused \subseteq refused'
    BY <2>1, HandlerMove
  <2>5. \A q \in Proxies, g \in Handlers : conn'[q][g] = IF q = p /\ g = h THEN c ELSE conn[q][g]
    BY <1>0, <2>2, ConnectionSet
  <2>6. phase = "script" => \A q \in Clients : Young(q)' \/ Waiting(q)'
    BY <1>0, <2>1, <2>2, <2>5, AgesKept
  <2> QED
    BY <1>0, <2>1, <2>3, <2>4, <2>6 DEF EvidenceInv
<1>7. ASSUME NEW p \in Proxies, NEW h \in Handlers, Dial(p, h)
      PROVE  EvidenceInv'
  <2> DEFINE c == [stage |-> "accepted", server |-> 0, born |-> faults]
  <2>1. c \in Connection /\ c.born = faults
    BY <1>0 DEF Connection, Stages, TypeOK
  <2>2. conn' = [conn EXCEPT ![p][h] = c]
    BY <1>7 DEF Dial, Accept
  <2> HIDE DEF c
  <2>3. \A q \in Proxies, g \in Handlers : conn'[q][g] = IF q = p /\ g = h THEN c ELSE conn[q][g]
    BY <1>0, <2>1, <2>2, ConnectionSet
  <2>4. /\ client'[p].via = h /\ client'[p].link # "live"
        /\ \A q \in Proxies : q # p => client'[q] = client[q]
    BY <1>0, <1>7 DEF Dial, LinkState
  <2>5. UNCHANGED <<phase, pc, faults, events, relay, refused>>
    BY <1>7 DEF Dial, Accept, script, Quietly
  <2>6. phase = "script" /\ p \in Clients => Young(p)'
    BY <1>0, <2>1, <2>3, <2>4, <2>5 DEF Young
  <2>7. \A q \in Clients : q # p /\ phase = "script" => Young(q)' \/ Waiting(q)'
    BY <1>0, <2>3, <2>4, <2>5, AgesKept
  <2> QED
    BY <1>0, <2>4, <2>5, <2>6, <2>7 DEF EvidenceInv
<1>8. ASSUME NEW p \in Proxies, LogsIn(p)
      PROVE  EvidenceInv'
  <2>1. /\ client[p].via # None
        /\ p \in Clients => Goes(p, "live", {"connected"})
        /\ p \notin Clients => Goes(p, "refused", {})
    BY <1>8 DEF LogsIn, Through
  <2>2. UNCHANGED <<phase, pc, faults, conn, relay, refused>>
    BY <2>1 DEF Goes, script, Quietly, relaying
  <2>3. CASE p \in Clients
    <3>1. /\ client'[p].via = client[p].via
          /\ events'[p] = events[p] \cup {"connected"}
          /\ \A q \in Proxies : q # p => client'[q] = client[q] /\ events'[q] = events[q]
      BY <1>0, <2>1, <2>3 DEF Goes, LinkState
    <3>2. phase = "script" => \A q \in Clients : Young(q)' \/ Waiting(q)'
      BY <1>0, <2>2, <3>1, AgesKept
    <3> QED
      BY <1>0, <2>1, <2>2, <2>3, <3>1, <3>2 DEF EvidenceInv
  <2>4. CASE p \notin Clients
    <3>1. /\ client'[p].link = "refused"
          /\ events' = events
          /\ \A q \in Proxies : q # p => client'[q] = client[q]
      BY <1>0, <2>1, <2>4 DEF Goes, LinkState
    <3> QED
      BY <1>0, <2>2, <2>4, <3>1 DEF EvidenceInv, Young, Waiting
  <2> QED
    BY <2>3, <2>4
<1>9. ASSUME NEW p \in Proxies, Loses(p)
      PROVE  EvidenceInv'
  <2>1. PICK link \in Links \ {"live"}, kinds \in SUBSET {"disconnected", "reconnecting"} : Goes(p, link, kinds)
    BY <1>9 DEF Loses, Links
  <2>2. /\ client'[p].via = None /\ client'[p].link # "live"
        /\ events'[p] = events[p] \cup kinds
        /\ \A q \in Proxies : q # p => client'[q] = client[q] /\ events'[q] = events[q]
        /\ UNCHANGED <<phase, pc, faults, conn, relay, refused>>
    BY <1>0, <2>1 DEF Goes, LinkState, script, Quietly, relaying
  <2>3. p \in Clients => Young(p)'
    BY <2>2 DEF Young
  <2>4. \A q \in Clients : q # p /\ phase = "script" => Young(q)' \/ Waiting(q)'
    BY <1>0, <2>2 DEF EvidenceInv, Young, Waiting
  <2>5. \A q \in Invalid : "connected" \notin events'[q]
    BY <1>0, <2>2 DEF EvidenceInv
  <2>6. \A q \in Proxies : client'[q].link = "live" => client'[q].via # None
    BY <1>0, <2>2 DEF EvidenceInv
  <2> QED
    BY <1>0, <2>2, <2>3, <2>4, <2>5, <2>6 DEF EvidenceInv
<1>10. ASSUME NEW p \in Proxies, RetriesAnyway(p)
       PROVE  EvidenceInv'
  <2>1. /\ client'[p].via = client[p].via /\ client'[p].link = "backoff"
        /\ \A q \in Proxies : q # p => client'[q] = client[q]
        /\ UNCHANGED <<phase, pc, faults, events, conn, relay, refused>>
    BY <1>0, <1>10 DEF RetriesAnyway, LinkState, script, relaying
  <2> QED
    BY <1>0, <2>1 DEF EvidenceInv, Young, Waiting
<1> QED
  BY <1>1, <1>3, <1>4, <1>5, <1>6, <1>7, <1>8, <1>9, <1>10 DEF Next, Cleanup, Sdk

-----------------------------------------------------------------------------
\* The invariant holds always.
THEOREM Invariance == Spec => []IInv
<1>1. Init => IInv
  BY InitIInv
<1>2. IInv /\ [Next]_vars => IInv'
  BY TypeStep, RelayStep, CleanupStep, EvidenceStep DEF IInv
<1> QED
  BY <1>1, <1>2, PTL DEF Spec

\* Every variable has the values the script gives it.
THEOREM TypeCorrect == Spec => []TypeOK
<1>1. IInv => TypeOK
  BY DEF IInv
<1> QED
  BY <1>1, Invariance, PTL

\* A relay that has been closed never touches the server again
\* (Proxy.close, interop.py:92-98).
THEOREM Safe_ClosedRelayIsQuiet == Spec => []ClosedRelayIsQuiet
<1>1. IInv => ClosedRelayIsQuiet
  BY DEF IInv, RelayInv, ClosedRelayIsQuiet, In
<1> QED
  BY <1>1, Invariance, PTL

\* A cleanup that the deadline has not cut short leaves nothing
\* (finally of scenarios, interop.py:368-380).
THEOREM Safe_RunLeavesNothing == Spec => []RunLeavesNothing
<1>1. IInv => RunLeavesNothing
  <2>1. IInv /\ phase = "ended" /\ verdict # "aborted" => \A p \in Proxies : joined[p] = {}
    BY DEF IInv, RelayInv, CleanupInv
  <2> QED
    BY <2>1 DEF IInv, CleanupInv, RunLeavesNothing, Linked
<1> QED
  BY <1>1, Invariance, PTL

\* A case that the report records is true: the exchange went over connections
\* younger than the last fault, the network's retries were refused while it was
\* down, and the invalid token was tried once (interop.py:309-341, 353, 366).
THEOREM Safe_CasesAreTrue == Spec => CasesAreTrue
<1>1. ASSUME IInv, Next
      PROVE  \A case \in cases' \ cases :
                 /\ case # "token" =>
                        \A p \in Clients : Usable(p) /\ conn[p][client[p].via].born = faults
                 /\ case = "network" => Clients \subseteq refused
                 /\ case = "token" =>
                        \A p \in Invalid : "connected" \notin events[p] /\ relay[p].attempts = 1
  <2>1. ASSUME NEW case \in {"messaging", "network", "recovery", "manual"}, Exchange(case),
               cases' # cases
        PROVE  /\ cases' \ cases \subseteq {case}
               /\ \A p \in Clients : Usable(p) /\ conn[p][client[p].via].born = faults
               /\ case = "network" => Clients \subseteq refused
    <3>1. /\ phase = "script" /\ pc \in 1..Len(Script) /\ Script[pc] = case
          /\ cases' = cases \cup {case}
          /\ \A p \in Clients : Usable(p)
      BY <1>1, <2>1 DEF Exchange, At, Raise, IInv, TypeOK
    <3>2. pc \notin {11, 16, 17} /\ (case = "network" => pc = 14)
      BY <3>1, ScriptSteps
    <3>3. \A p \in Clients : client[p].via # None
      BY <1>1, <3>1, ProxiesAssumption DEF Usable, IInv, EvidenceInv
    <3>4. \A p \in Clients : Young(p)
      BY <1>1, <3>1, <3>2 DEF IInv, EvidenceInv, Waiting
    <3>5. \A p \in Clients : conn[p][client[p].via].born = faults
      BY <3>1, <3>3, <3>4 DEF Usable, Young
    <3> QED
      BY <1>1, <3>1, <3>2, <3>5 DEF IInv, EvidenceInv
  <2>2. ASSUME Judge, cases' # cases
        PROVE  /\ cases' \ cases \subseteq {"token"}
               /\ \A p \in Invalid : "connected" \notin events[p] /\ relay[p].attempts = 1
    BY <1>1, <2>2 DEF Judge, Raise, Unretried, IInv, EvidenceInv
  <2>3. \/ cases' = cases \/ Judge
        \/ \E case \in {"messaging", "network", "recovery", "manual"} : Exchange(case)
    BY <1>1
    DEF Next, Scenario, StartServer, CreateClients, CreateInvalid, Create, GiveConnect, DropNetwork,
        Retried, CrashServer, GiveDisconnect, Quiet, Break, Raise, Await, Cleanup, StopServer,
        NextPhase, CloseActor, CloseRelay, CloseGoesOn, Deadline, ServerRuns, Sdk, RetriesAnyway,
        LogsIn, Loses, Goes, Dial, Relaying, ServerDrops, script
  <2> QED
    BY <2>1, <2>2, <2>3
<1>2. IInv /\ [Next]_vars => [\A case \in cases' \ cases :
                 /\ case # "token" =>
                        \A p \in Clients : Usable(p) /\ conn[p][client[p].via].born = faults
                 /\ case = "network" => Clients \subseteq refused
                 /\ case = "token" =>
                        \A p \in Invalid : "connected" \notin events[p] /\ relay[p].attempts = 1]_vars
  BY <1>1
<1> QED
  BY <1>2, Invariance, PTL DEF Spec, CasesAreTrue

=============================================================================
