--------------------------- MODULE ClusterProofs ---------------------------
(***************************************************************************)
(* Proofs about Cluster for every number of nodes, users and failovers and *)
(* for all the times: what a stability loop returns is settled, a finished *)
(* cleanup leaves no process, and a refused login ends the run.            *)
(***************************************************************************)
EXTENDS Cluster, SequenceTheorems, TLAPS

\* The evidence of a stability loop: an answer was found by every poll since
\* the one that first saw it.
FoundSince(found, t) == \E i \in 1..Len(polls) :
    polls[i].at = t /\ \A j \in i..Len(polls) : polls[j].found = found
Proven == \E i \in 1..Len(polls) :
    /\ \A j \in i..Len(polls) : polls[j].found = answer
    /\ polls[Len(polls)].at - polls[i].at >= Settle
Stabilizing == phase = "script" /\ pc <= Len(Script) /\ Now.op \in {"slots", "messaging"}
EvidenceInv == Stabilizing =>
    /\ previous # None => FoundSince(previous, since)
    /\ answer # None => Proven

\* The cleanup: the nodes start only in the step that waits for all of them,
\* and what a phase has dealt with is gone.
CleanupInv ==
    /\ \A n \in Nodes : task[n] = "pending" => At("start", "wait")
    /\ verdict = "aborted" => phase = "ended"
    /\ verdict # "aborted" =>
          /\ phase \in {"stopping", "ended"} => \A i \in DOMAIN actors : ~actors[i].alive
          /\ (phase = "stopping" /\ at = "stopped") \/ phase = "ended" => \A n \in Nodes : ~Running(n)

\* A refused login holds the script until it is dealt with.
Excused == [code |-> "15", recovery |-> TRUE]
RefusalInv ==
    /\ RefusalEndsRun
    /\ phase = "script" => verdict = "running"
    /\ (verdict \in {"running", "completed"} /\ at \in Codes) =>
          /\ At("connect", at)
          /\ rejections \subseteq {Excused, [code |-> at, recovery |-> Now.flag]}

\* Each running client of the script is the one being logged in or the current
\* one of its identity, and the latter is retired before the next connect.
Due(u, p) == \E k \in p..Len(Script) :
    /\ Script[k].op = "connect" /\ u \in Script[k].users
    /\ \A j \in p..k - 1 : ~(Script[j].op = "retire" /\ u \in Script[j].users)
LoggingIn == phase = "script" /\ pc <= Len(Script) /\ Now.op = "connect" /\ at \in {"login"} \cup Codes
Placed(i) ==
    IF LoggingIn /\ actors[i].uid = user
    THEN i = Len(actors)
    ELSE i = clients[actors[i].uid] /\ ~Due(actors[i].uid, pc)
IdentityInv ==
    /\ OneClientPerIdentity
    /\ phase = "script" => \A i \in DOMAIN actors : actors[i].alive => Placed(i)

IInv == TypeOK /\ EvidenceInv /\ CleanupInv /\ RefusalInv /\ IdentityInv

-----------------------------------------------------------------------------
\* The script is a sequence of operations that have what they need.
Names == {"start", "slots", "health", "channel", "connect", "messaging", "crash", "observed",
          "retire", "down"}
Operation == {s \in [op : Names, node : Nodes \cup {None}, users : SUBSET Users,
                     over : SUBSET Nodes, flag : BOOLEAN] :
    /\ s.op \in {"connect", "observed", "retire"} => \E u \in Users : s.users = {u}
    /\ s.op = "connect" => s.node \in Nodes}

LEMMA Operations ==
    ASSUME NEW n \in Nodes, NEW u \in Users, NEW ns \in SUBSET Nodes, NEW flag \in BOOLEAN
    PROVE  /\ Start(ns) \in Operation /\ Slots(ns) \in Operation
           /\ HealthOf(n, flag) \in Operation /\ ChannelOf(ns, flag) \in Operation
           /\ Connect(u, n, flag) \in Operation
           /\ Crash(n) \in Operation /\ Observed(u) \in Operation
           /\ Retire(u) \in Operation /\ Down(n) \in Operation
<1>1. Start(ns) \in Operation /\ Slots(ns) \in Operation
  BY DEF Start, Slots, Op, Operation, Names
<1>2. HealthOf(n, flag) \in Operation /\ ChannelOf(ns, flag) \in Operation
  BY DEF HealthOf, ChannelOf, Op, Operation, Names
<1>3. Connect(u, n, flag) \in Operation
  BY DEF Connect, Op, Operation, Names
<1>4. Crash(n) \in Operation /\ Down(n) \in Operation
  BY DEF Crash, Down, Op, Operation, Names
<1>5. Observed(u) \in Operation /\ Retire(u) \in Operation
  BY DEF Observed, Retire, Op, Operation, Names
<1> QED
  BY <1>1, <1>2, <1>3, <1>4, <1>5

LEMMA WholeCluster ==
    Start(Nodes) \in Operation /\ Slots(Nodes) \in Operation
    /\ Messaging \in Operation /\ ChannelOf(Nodes, TRUE) \in Operation
<1>1. Start(Nodes) \in Operation /\ Slots(Nodes) \in Operation
  BY DEF Start, Slots, Op, Operation, Names
<1>2. Messaging \in Operation /\ ChannelOf(Nodes, TRUE) \in Operation
  BY DEF Messaging, ChannelOf, Op, Operation, Names
<1> QED
  BY <1>1, <1>2

LEMMA PairTyped ==
    ASSUME NEW S, NEW a \in S, NEW b \in S
    PROVE  <<a, b>> \in Seq(S)
OBVIOUS

LEMMA BootstrapTyped == Bootstrap(Order) \in Seq(Operation)
<1> DEFINE connects == [i \in 1..Len(Order) |-> Connect(Order[i], Ingress[Order[i]], FALSE)]
<1>1. ASSUME NEW i \in 1..Len(Order)
      PROVE  Connect(Order[i], Ingress[Order[i]], FALSE) \in Operation
  <2>1. Order[i] \in Users /\ Ingress[Order[i]] \in Nodes
    BY OrderAssumption, IngressAssumption
  <2> QED
    BY <2>1, Operations
<1>2. Len(Order) \in Nat
  BY OrderAssumption
<1>3. connects \in Seq(Operation)
  <2>1. connects \in [1..Len(Order) -> Operation]
    BY <1>1
  <2> QED
    BY <1>2, <2>1, SeqDef
<1>4. <<Start(Nodes), Slots(Nodes)>> \in Seq(Operation)
  BY WholeCluster, PairTyped
<1>5. <<Messaging, ChannelOf(Nodes, TRUE)>> \in Seq(Operation)
  BY WholeCluster, PairTyped
<1>6. Bootstrap(Order) = (<<Start(Nodes), Slots(Nodes)>> \o connects) \o <<Messaging, ChannelOf(Nodes, TRUE)>>
  BY DEF Bootstrap
<1> HIDE DEF connects
<1> QED
  BY <1>3, <1>4, <1>5, <1>6, ConcatProperties

LEMMA FailoverTyped ==
    ASSUME NEW u \in Users, NEW survivor \in Nodes
    PROVE  /\ Failover(u, survivor) \in Seq(Operation)
           /\ Len(Failover(u, survivor)) = Round
<1> DEFINE n == Ingress[u]
           alive == Nodes \ {n}
<1>1. n \in Nodes /\ alive \in SUBSET Nodes /\ {n} \in SUBSET Nodes /\ Nodes \in SUBSET Nodes
  BY IngressAssumption
<1> HIDE DEF n, alive
<1>2. /\ Crash(n) \in Operation /\ Observed(u) \in Operation /\ Retire(u) \in Operation
      /\ HealthOf(n, FALSE) \in Operation /\ HealthOf(n, TRUE) \in Operation
      /\ Slots(alive) \in Operation /\ ChannelOf(alive, FALSE) \in Operation
      /\ Connect(u, survivor, TRUE) \in Operation /\ Messaging \in Operation
      /\ Down(n) \in Operation /\ Start({n}) \in Operation
      /\ Slots(Nodes) \in Operation /\ ChannelOf(Nodes, TRUE) \in Operation
      /\ Connect(u, n, FALSE) \in Operation
  BY <1>1, Operations, WholeCluster
<1>3. Failover(u, survivor) =
          <<Crash(n), Observed(u), Retire(u), HealthOf(n, FALSE), Slots(alive), ChannelOf(alive, FALSE),
            Connect(u, survivor, TRUE), Messaging, Down(n), Start({n}), HealthOf(n, TRUE),
            Slots(Nodes), ChannelOf(Nodes, TRUE), Retire(u), Connect(u, n, FALSE), Messaging>>
  BY DEF Failover, n, alive
<1>4. Failover(u, survivor) \in [1..Round -> Operation] /\ Round \in Nat
  <2>1. ASSUME NEW i \in 1..Round
        PROVE  Failover(u, survivor)[i] \in Operation
    <3> DEFINE f == Failover(u, survivor)
    <3> SUFFICES f[i] \in Operation
      OBVIOUS
    <3>1. /\ f[1] = Crash(n) /\ f[2] = Observed(u) /\ f[3] = Retire(u) /\ f[4] = HealthOf(n, FALSE)
          /\ f[5] = Slots(alive) /\ f[6] = ChannelOf(alive, FALSE)
          /\ f[7] = Connect(u, survivor, TRUE) /\ f[8] = Messaging
      BY <1>3
    <3>2. /\ f[9] = Down(n) /\ f[10] = Start({n}) /\ f[11] = HealthOf(n, TRUE)
          /\ f[12] = Slots(Nodes) /\ f[13] = ChannelOf(Nodes, TRUE) /\ f[14] = Retire(u)
          /\ f[15] = Connect(u, n, FALSE) /\ f[16] = Messaging
      BY <1>3
    <3> HIDE DEF f
    <3>3. /\ f[1] \in Operation /\ f[2] \in Operation /\ f[3] \in Operation /\ f[4] \in Operation
          /\ f[5] \in Operation /\ f[6] \in Operation /\ f[7] \in Operation /\ f[8] \in Operation
      BY <1>2, <3>1, Zenon
    <3>4. /\ f[9] \in Operation /\ f[10] \in Operation /\ f[11] \in Operation /\ f[12] \in Operation
          /\ f[13] \in Operation /\ f[14] \in Operation /\ f[15] \in Operation /\ f[16] \in Operation
      BY <1>2, <3>2, Zenon
    <3> QED
      BY <3>3, <3>4 DEF Round
  <2>2. DOMAIN Failover(u, survivor) = 1..Round /\ Round \in Nat
    BY <1>3, SMTT(60) DEF Round
  <2>3. Failover(u, survivor) = [i \in 1..Round |-> Failover(u, survivor)[i]]
    BY <1>3, <2>2, SMTT(60) DEF Round
  <2> QED
    BY <2>1, <2>2, <2>3
<1>5. Failover(u, survivor) \in Seq(Operation)
  BY <1>4, SeqDef
<1> QED
  BY <1>4, <1>5, LenProperties

LEMMA LaterTyped ==
    LET operation(i) == LET failover == Failovers[((i - 1) \div Round) + 1]
                        IN Failover(failover[1], failover[2])[((i - 1) % Round) + 1]
    IN [i \in 1..Round * Len(Failovers) |-> operation(i)] \in [1..Round * Len(Failovers) -> Operation]
<1> DEFINE operation(i) == LET failover == Failovers[((i - 1) \div Round) + 1]
                           IN Failover(failover[1], failover[2])[((i - 1) % Round) + 1]
<1>1. Len(Failovers) \in Nat
  BY FailoverAssumption
<1>2. ASSUME NEW i \in 1..Round * Len(Failovers)
      PROVE  operation(i) \in Operation
  <2>1. /\ ((i - 1) \div Round) + 1 \in 1..Len(Failovers)
        /\ ((i - 1) % Round) + 1 \in 1..Round
    BY <1>1 DEF Round
  <2>2. PICK u \in Users, survivor \in Nodes : Failovers[((i - 1) \div Round) + 1] = <<u, survivor>>
    BY <2>1, FailoverAssumption
  <2>3. operation(i) = Failover(u, survivor)[((i - 1) % Round) + 1]
    BY <2>2
  <2> QED
    BY <2>1, <2>3, FailoverTyped
<1> QED
  BY <1>2

LEMMA ScriptTyped == Script \in Seq(Operation) /\ Len(Script) \in Nat
<1> DEFINE later == [i \in 1..Round * Len(Failovers) |->
        LET failover == Failovers[((i - 1) \div Round) + 1]
        IN Failover(failover[1], failover[2])[((i - 1) % Round) + 1]]
<1>1. Round * Len(Failovers) \in Nat
  BY FailoverAssumption DEF Round
<1>2. later \in [1..Round * Len(Failovers) -> Operation]
  BY LaterTyped
<1>3. Script = Bootstrap(Order) \o later
  BY DEF Script
<1> HIDE DEF later
<1>4. later \in Seq(Operation)
  BY <1>1, <1>2, SeqDef
<1> QED
  BY <1>3, <1>4, BootstrapTyped, ConcatProperties, LenProperties

\* Where the operations of the failovers are.
Opening == Len(Bootstrap(Order))
Place(q, r) == Opening + Round * q + r

LEMMA FailoverAt ==
    /\ Opening \in Nat
    /\ \A k \in 1..Opening : k \in 1..Len(Script) /\ Script[k] = Bootstrap(Order)[k]
    /\ \A k \in 1..Len(Script) : k \in 1..Opening \/
           \E q \in 0..Len(Failovers) - 1, r \in 1..Round : k = Place(q, r)
    /\ \A q \in 0..Len(Failovers) - 1, r \in 1..Round :
           /\ Place(q, r) \in 1..Len(Script)
           /\ Failovers[q + 1] \in Users \X Nodes
           /\ Script[Place(q, r)] = Failover(Failovers[q + 1][1], Failovers[q + 1][2])[r]
<1> DEFINE operation(i) == LET failover == Failovers[((i - 1) \div Round) + 1]
                           IN Failover(failover[1], failover[2])[((i - 1) % Round) + 1]
           n == Round * Len(Failovers)
           later == [i \in 1..n |-> operation(i)]
<1>1. Len(Failovers) \in Nat /\ n \in Nat
  BY FailoverAssumption DEF Round
<1>2. Opening \in Nat
  BY BootstrapTyped, LenProperties DEF Opening
<1>3. later \in Seq(Operation) /\ Len(later) = n
  <2>1. later \in [1..n -> Operation]
    BY LaterTyped
  <2>2. later \in Seq(Operation)
    BY <1>1, <2>1, SeqDef
  <2> QED
    BY <1>1, <2>1, <2>2, LenProperties
<1>4. Script = Bootstrap(Order) \o later
  BY DEF Script
<1>5. \A i \in 1..n : later[i] = operation(i)
  OBVIOUS
<1> HIDE DEF later, operation
<1>6. /\ Len(Script) = Opening + n
      /\ \A k \in 1..Opening + n : Script[k] = IF k <= Opening THEN Bootstrap(Order)[k]
                                                             ELSE later[k - Opening]
  BY <1>2, <1>3, <1>4, BootstrapTyped, ConcatProperties DEF Opening
<1>7. ASSUME NEW k \in 1..Len(Script), k \notin 1..Opening
      PROVE  \E q \in 0..Len(Failovers) - 1, r \in 1..Round : k = Place(q, r)
  <2> DEFINE i == k - Opening
             q == (i - 1) \div Round
             r == ((i - 1) % Round) + 1
  <2>1. i \in 1..n
    BY <1>1, <1>2, <1>6, <1>7
  <2>2. q \in 0..Len(Failovers) - 1 /\ r \in 1..Round /\ i = Round * q + r
    <3>1. i \in Nat /\ i >= 1 /\ i <= 16 * Len(Failovers) /\ Len(Failovers) \in Nat
      BY <1>1, <2>1 DEF Round
    <3> HIDE DEF i, n
    <3>2. q \in Int /\ r \in 1..16 /\ i - 1 = 16 * q + (r - 1)
      BY <3>1 DEF Round
    <3> HIDE DEF q, r
    <3>3. q >= 0 /\ q <= Len(Failovers) - 1
      BY <3>1, <3>2
    <3> QED
      BY <3>1, <3>2, <3>3 DEF Round
  <2> HIDE DEF q, r
  <2>3. k = Place(q, r)
    BY <1>1, <1>2, <2>1, <2>2 DEF Round, Place
  <2> QED
    BY <2>2, <2>3
<1>8. ASSUME NEW q \in 0..Len(Failovers) - 1, NEW r \in 1..Round
      PROVE  /\ Place(q, r) \in 1..Len(Script)
             /\ Failovers[q + 1] \in Users \X Nodes
             /\ Script[Place(q, r)] = Failover(Failovers[q + 1][1], Failovers[q + 1][2])[r]
  <2> DEFINE i == Round * q + r
  <2>1. i \in 1..n /\ (i - 1) \div Round = q /\ ((i - 1) % Round) + 1 = r
    BY <1>1 DEF Round
  <2>2. operation(i) = Failover(Failovers[q + 1][1], Failovers[q + 1][2])[r]
    BY <2>1 DEF operation
  <2>3. Failovers[q + 1] \in Users \X Nodes
    BY <1>1, FailoverAssumption
  <2> HIDE DEF i
  <2>4. Opening + i \in 1..Len(Script) /\ Script[Opening + i] = later[i]
    BY <1>1, <1>2, <1>6, <2>1
  <2>5. Opening + i = Place(q, r)
    BY <1>1, <1>2 DEF Round, i, Place
  <2> QED
    BY <1>5, <2>1, <2>2, <2>3, <2>4, <2>5
<1>9. \A k \in 1..Opening : k \in 1..Len(Script) /\ Script[k] = Bootstrap(Order)[k]
  BY <1>1, <1>2, <1>6
<1> QED
  BY <1>2, <1>7, <1>8, <1>9

\* In a failover, each connect of a user follows a retire of that user.
LEMMA FailoverReplaces ==
    ASSUME NEW u \in Users, NEW survivor \in Nodes
    PROVE  LET f == Failover(u, survivor) IN
           /\ \A r \in 1..Round : f[r].op = "connect" => r \in {7, 15} /\ f[r].users = {u}
           /\ f[3].op = "retire" /\ f[3].users = {u} /\ f[14].op = "retire" /\ f[14].users = {u}
<1> DEFINE f == Failover(u, survivor)
<1>1. /\ f[1].op # "connect" /\ f[2].op # "connect" /\ f[4].op # "connect" /\ f[5].op # "connect"
      /\ f[6].op # "connect" /\ f[8].op # "connect" /\ f[9].op # "connect" /\ f[10].op # "connect"
  BY DEF Failover, Op, Crash, Observed, HealthOf, Slots, ChannelOf, Messaging, Down, Start
<1>2. /\ f[11].op # "connect" /\ f[12].op # "connect" /\ f[13].op # "connect" /\ f[16].op # "connect"
      /\ f[7].users = {u} /\ f[15].users = {u}
  BY DEF Failover, Op, HealthOf, Slots, ChannelOf, Messaging, Connect
<1>3. f[3].op = "retire" /\ f[3].users = {u} /\ f[14].op = "retire" /\ f[14].users = {u}
  BY DEF Failover, Op, Retire
<1> HIDE DEF f
<1>4. ASSUME NEW r \in 1..16, f[r].op = "connect"
      PROVE  r \in {7, 15} /\ f[r].users = {u}
  <2>1. r \in {7, 15}
    BY <1>1, <1>2, <1>3, <1>4
  <2> QED
    BY <1>2, <2>1
<1> QED
  BY <1>3, <1>4 DEF Round, f

LEMMA BootstrapConnects ==
    /\ \A k \in 1..Opening : Bootstrap(Order)[k].op = "connect" =>
           /\ k - 2 \in 1..Len(Order) /\ Bootstrap(Order)[k].users = {Order[k - 2]}
<1> DEFINE connects == [i \in 1..Len(Order) |-> Connect(Order[i], Ingress[Order[i]], FALSE)]
           first == <<Start(Nodes), Slots(Nodes)>>
           last == <<Messaging, ChannelOf(Nodes, TRUE)>>
           n == Len(Order)
<1>1. n \in Nat
  BY OrderAssumption
<1>2. connects \in Seq(Operation) /\ Len(connects) = n
  <2>1. ASSUME NEW i \in 1..n
        PROVE  Connect(Order[i], Ingress[Order[i]], FALSE) \in Operation
    <3>1. Order[i] \in Users /\ Ingress[Order[i]] \in Nodes
      BY OrderAssumption, IngressAssumption
    <3> QED
      BY <3>1, Operations
  <2>2. connects \in [1..n -> Operation]
    BY <2>1
  <2> HIDE DEF connects
  <2>3. connects \in Seq(Operation)
    BY <1>1, <2>2, SeqDef
  <2> QED
    BY <1>1, <2>2, <2>3, LenProperties
<1>3. first \in Seq(Operation) /\ Len(first) = 2
  BY WholeCluster, PairTyped
<1>4. last \in Seq(Operation) /\ Len(last) = 2
  BY WholeCluster, PairTyped
<1>5. Bootstrap(Order) = (first \o connects) \o last
  BY DEF Bootstrap
<1>6. \A i \in 1..n : connects[i].users = {Order[i]}
  BY DEF Connect, Op
<1>7. first[1].op # "connect" /\ first[2].op # "connect"
  BY DEF Start, Slots, Op
<1>8. last[1].op # "connect" /\ last[2].op # "connect"
  BY DEF Messaging, ChannelOf, Op
<1> HIDE DEF connects, first, last, n
<1> DEFINE front == first \o connects
<1>9. /\ front \in Seq(Operation) /\ Len(front) = 2 + n
      /\ \A k \in 1..2 + n : front[k] = IF k <= 2 THEN first[k] ELSE connects[k - 2]
  <2>1. /\ front \in Seq(Operation) /\ Len(front) = Len(first) + Len(connects)
        /\ \A k \in 1..Len(first) + Len(connects) :
               front[k] = IF k <= Len(first) THEN first[k] ELSE connects[k - Len(first)]
    BY <1>2, <1>3, ConcatProperties
  <2> HIDE DEF front
  <2> QED
    BY <1>2, <1>3, <2>1
<1> HIDE DEF front
<1>10. /\ Opening = n + 4
       /\ \A k \in 1..n + 4 : Bootstrap(Order)[k] = IF k <= 2 + n THEN front[k] ELSE last[k - (2 + n)]
  <2> DEFINE all == front \o last
  <2>1. /\ Len(all) = Len(front) + Len(last)
        /\ \A k \in 1..Len(front) + Len(last) :
               all[k] = IF k <= Len(front) THEN front[k] ELSE last[k - Len(front)]
    BY <1>4, <1>9, ConcatProperties
  <2>2. all = Bootstrap(Order)
    BY <1>5 DEF front
  <2> HIDE DEF all
  <2>3. Len(front) + Len(last) = n + 4
    BY <1>1, <1>4, <1>9 DEF n
  <2> QED
    BY <1>9, <2>1, <2>2, <2>3 DEF Opening
<1>11. ASSUME NEW k \in 1..n + 4, Bootstrap(Order)[k].op = "connect"
       PROVE  k - 2 \in 1..n /\ Bootstrap(Order)[k].users = {Order[k - 2]}
  <2>1. CASE k \in 1..2
    BY <1>1, <1>7, <1>9, <1>10, <1>11, <2>1
  <2>2. CASE k \in 3..2 + n
    BY <1>1, <1>6, <1>9, <1>10, <1>11, <2>2
  <2>3. CASE k \in 3 + n..4 + n
    BY <1>1, <1>8, <1>10, <1>11, <2>3
  <2> QED
    BY <1>1, <2>1, <2>2, <2>3
<1> QED
  BY <1>10, <1>11 DEF n

\* Between two connects of a user there is a retire of that user.
LEMMA Replaced ==
    ASSUME NEW k \in 1..Len(Script), Script[k].op = "connect",
           NEW m \in 1..k - 1, Script[m].op = "connect", Script[m].users = Script[k].users
    PROVE  \E j \in m + 1..k - 1 : Script[j].op = "retire" /\ Script[j].users = Script[k].users
<1>0. Len(Script) \in Nat /\ Opening \in Nat /\ m \in 1..Len(Script)
  BY ScriptTyped, FailoverAt
<1>1. CASE k \in 1..Opening
  <2>1. m \in 1..Opening
    BY <1>0, <1>1
  <2>2. /\ k - 2 \in 1..Len(Order) /\ Script[k].users = {Order[k - 2]}
        /\ m - 2 \in 1..Len(Order) /\ Script[m].users = {Order[m - 2]}
    BY <1>1, <2>1, FailoverAt, BootstrapConnects
  <2>3. k - 2 = m - 2
    BY <2>2, OrderAssumption
  <2> QED
    BY <1>0, <2>3
<1>2. CASE k \notin 1..Opening
  <2>1. PICK q \in 0..Len(Failovers) - 1, r \in 1..Round : k = Place(q, r)
    BY <1>2, FailoverAt
  <2>2. PICK u \in Users, survivor \in Nodes : Failovers[q + 1] = <<u, survivor>>
    BY FailoverAssumption
  <2> DEFINE f == Failover(u, survivor)
  <2>3. \A i \in 1..Round : Place(q, i) \in 1..Len(Script) /\ Script[Place(q, i)] = f[i]
    BY <2>2, FailoverAt
  <2>4. /\ 3 \in 1..Round /\ 4 \in 1..Round /\ 5 \in 1..Round /\ 6 \in 1..Round /\ 7 \in 1..Round
        /\ 14 \in 1..Round /\ 15 \in 1..Round /\ Round = 16
    BY DEF Round
  <2>5. /\ \A i \in 1..Round : f[i].op = "connect" => i \in {7, 15} /\ f[i].users = {u}
        /\ f[3].op = "retire" /\ f[3].users = {u} /\ f[14].op = "retire" /\ f[14].users = {u}
    BY FailoverReplaces
  <2> HIDE DEF f
  <2>6. r \in {7, 15} /\ Script[k].users = {u}
    BY <2>1, <2>3, <2>5
  <2>7. /\ Script[Place(q, 3)].op = "retire" /\ Script[Place(q, 3)].users = {u}
        /\ Script[Place(q, 14)].op = "retire" /\ Script[Place(q, 14)].users = {u}
    BY <2>3, <2>4, <2>5
  <2>8. \A i \in {3, 4, 5, 6, 14} : m # Place(q, i)
    <3> SUFFICES ASSUME NEW i \in {3, 4, 5, 6, 14}, m = Place(q, i) PROVE FALSE
      OBVIOUS
    <3>1. i \in 1..Round /\ i \notin {7, 15}
      BY <2>4
    <3>2. f[i].op = "connect"
      BY <2>3, <3>1
    <3> QED
      BY <2>5, <3>1, <3>2
  <2>9. CASE r = 7
    <3>1. /\ Place(q, 3) = k - 4 /\ Place(q, 4) = k - 3 /\ Place(q, 5) = k - 2 /\ Place(q, 6) = k - 1
      BY <1>0, <2>1, <2>9, FailoverAssumption DEF Round, Place
    <3>2. m # k - 4 /\ m # k - 3 /\ m # k - 2 /\ m # k - 1
      BY <2>8, <3>1
    <3>3. Place(q, 3) \in m + 1..k - 1
      BY <1>0, <3>1, <3>2
    <3> QED
      BY <2>6, <2>7, <3>3
  <2>10. CASE r = 15
    <3>1. Place(q, 14) = k - 1
      BY <1>0, <2>1, <2>10, FailoverAssumption DEF Round, Place
    <3>2. m # k - 1
      BY <2>8, <3>1
    <3>3. Place(q, 14) \in m + 1..k - 1
      BY <1>0, <3>1, <3>2
    <3> QED
      BY <2>6, <2>7, <3>3
  <2> QED
    BY <2>6, <2>9, <2>10
<1> QED
  BY <1>1, <1>2

\* The operation under way.
LEMMA NowTyped ==
    ASSUME pc \in 1..Len(Script) + 1, pc <= Len(Script)
    PROVE  /\ Now \in Operation /\ pc \in 1..Len(Script)
           /\ Now.flag \in BOOLEAN /\ Now.over \subseteq Nodes
           /\ Now.op = "connect" => user \in Users /\ Now.users = {user} /\ Now.node \in Nodes
           /\ Now.op \in {"observed", "retire"} => user \in Users /\ Now.users = {user}
<1>1. pc \in 1..Len(Script)
  BY ScriptTyped
<1>2. Now \in Operation
  BY <1>1, ScriptTyped DEF Now
<1>3. Now.users # {} => user \in Now.users
  BY DEF user
<1> HIDE DEF Now, user
<1> QED
  BY <1>1, <1>2, <1>3 DEF Operation

-----------------------------------------------------------------------------
Poll == [at : Nat, found : Answers]
ReadinessTyped ==
    /\ now \in Nat /\ since \in Nat /\ previous \in Answers /\ answer \in Answers
    /\ polls \in Seq(Poll)

LEMMA AnswersTyped ==
    /\ \A views, alive : SlotAnswer(views, alive) \in Answers
    /\ \A complete, alive : PresenceAnswer(complete, alive) \in Answers
    /\ None \in Answers /\ Present \in Answers
BY DEF SlotAnswer, PresenceAnswer, Answers, Present

\* A poll keeps the types.
LEMMA PollTyped ==
    ASSUME ReadinessTyped, NEW t \in Nat, NEW found \in Answers, Observe(found, t)
    PROVE  ReadinessTyped'
<1>1. [at |-> t, found |-> found] \in Poll
  BY DEF Poll
<1>2. polls' \in Seq(Poll)
  BY <1>1, AppendProperties DEF Observe, Record, ReadinessTyped
<1>3. t + Pause \in Nat
  BY TimeAssumption
<1> QED
  BY <1>2, <1>3, AnswersTyped DEF Observe, ReadinessTyped

LEMMA SampleTyped ==
    ASSUME ReadinessTyped, NEW d \in 0..Slow, NEW fits \in BOOLEAN, Sample(fits, d)
    PROVE  ReadinessTyped'
<1>1. now + d \in Nat /\ now + d + Pause \in Nat
  BY TimeAssumption DEF ReadinessTyped
<1>2. [at |-> now + d, found |-> IF fits THEN Present ELSE None] \in Poll
  BY <1>1, AnswersTyped DEF Poll
<1>3. polls' \in Seq(Poll)
  BY <1>2, AppendProperties DEF Sample, Record, ReadinessTyped
<1> QED
  BY <1>1, <1>3, AnswersTyped DEF Sample, ReadinessTyped

LEMMA BeginTyped == BeginWait => ReadinessTyped'
BY AnswersTyped DEF BeginWait, ReadinessTyped

\* Every step of the readiness loops that the script takes.
LEMMA WaitTyped ==
    ASSUME ReadinessTyped, StableSlots \/ NodeHealth \/ ChannelMeta \/ Presence
    PROVE  ReadinessTyped'
<1>0. \A d \in 0..Slow : now + d \in Nat
  BY TimeAssumption DEF ReadinessTyped
<1>1. CASE StableSlots
  BY <1>0, <1>1, PollTyped, AnswersTyped DEF StableSlots, PollSlots
<1>2. CASE NodeHealth
  <2>1. PICK health \in Health, d \in 0..Slow : Sample(Healthy(health) = Now.flag, d)
    BY <1>2 DEF NodeHealth, PollHealth
  <2> QED
    BY <2>1, SampleTyped
<1>3. CASE ChannelMeta
  <2>1. PICK row \in Channel, d \in 0..Slow : Sample(ChannelReady(row, Now.over, Now.flag), d)
    BY <1>3 DEF ChannelMeta, PollChannel
  <2>2. ChannelReady(row, Now.over, Now.flag) \in BOOLEAN
    BY DEF ChannelReady
  <2> QED
    BY <2>1, <2>2, SampleTyped
<1>4. CASE Presence
  BY <1>0, <1>4, PollTyped, AnswersTyped DEF Presence, PollPresence
<1> QED
  BY <1>1, <1>2, <1>3, <1>4

-----------------------------------------------------------------------------
\* The table of the processes: one is added, ended, or reports its login.
LEMMA ActorEnds ==
    ASSUME actors \in Seq(Actor), NEW i
    PROVE  LET next == [actors EXCEPT ![i].alive = FALSE] IN
           /\ next \in Seq(Actor) /\ DOMAIN next = DOMAIN actors /\ Len(next) = Len(actors)
           /\ \A j \in DOMAIN actors : /\ next[j].alive <=> actors[j].alive /\ j # i
                                       /\ next[j].uid = actors[j].uid
<1> DEFINE next == [actors EXCEPT ![i].alive = FALSE]
           n == Len(actors)
<1>1. n \in Nat /\ actors \in [1..n -> Actor]
  BY LenProperties
<1>2. /\ next \in [1..n -> Actor]
      /\ \A j \in 1..n : /\ next[j].alive <=> actors[j].alive /\ j # i
                         /\ next[j].uid = actors[j].uid
  BY <1>1 DEF Actor
<1> HIDE DEF next
<1>3. next \in Seq(Actor)
  BY <1>1, <1>2, SeqDef
<1>4. Len(next) = n /\ DOMAIN next = 1..n /\ DOMAIN actors = 1..n
  BY <1>1, <1>2, <1>3, LenProperties
<1> QED
  BY <1>2, <1>3, <1>4 DEF next

LEMMA ActorLogs ==
    ASSUME actors \in Seq(Actor), NEW i,
           NEW login \in {"none", "asked", "connected", "lost", "rejected"}
    PROVE  LET next == [actors EXCEPT ![i].login = login] IN
           /\ next \in Seq(Actor) /\ DOMAIN next = DOMAIN actors /\ Len(next) = Len(actors)
           /\ \A j \in DOMAIN actors : /\ next[j].alive <=> actors[j].alive
                                       /\ next[j].uid = actors[j].uid
<1> DEFINE next == [actors EXCEPT ![i].login = login]
           n == Len(actors)
<1>1. n \in Nat /\ actors \in [1..n -> Actor]
  BY LenProperties
<1>2. /\ next \in [1..n -> Actor]
      /\ \A j \in 1..n : /\ next[j].alive <=> actors[j].alive
                         /\ next[j].uid = actors[j].uid
  BY <1>1 DEF Actor
<1> HIDE DEF next
<1>3. next \in Seq(Actor)
  BY <1>1, <1>2, SeqDef
<1>4. Len(next) = n /\ DOMAIN next = 1..n /\ DOMAIN actors = 1..n
  BY <1>1, <1>2, <1>3, LenProperties
<1> QED
  BY <1>2, <1>3, <1>4 DEF next

LEMMA ActorStarts ==
    ASSUME actors \in Seq(Actor), NEW a \in Actor
    PROVE  LET next == Append(actors, a) IN
           /\ next \in Seq(Actor) /\ Len(actors) \in Nat /\ Len(next) = Len(actors) + 1
           /\ DOMAIN actors = 1..Len(actors) /\ DOMAIN next = 1..Len(actors) + 1
           /\ next[Len(actors) + 1] = a
           /\ \A j \in DOMAIN actors : next[j] = actors[j]
BY AppendProperties, LenProperties

-----------------------------------------------------------------------------
ScriptTypeOK ==
    /\ phase \in {"script", "diagnosing", "closing", "stopping", "ended"}
    /\ pc \in 1..Len(Script) + 1
    /\ at \in {"begin", "wait", "launch", "login", "send", "stopped"} \cup Codes
    /\ verdict \in {"running", "failed", "cancelled", "aborted", "completed"}

ProcessTypeOK ==
    /\ node \in [Nodes -> {"none", "starting", "ready", "dead"}]
    /\ task \in [Nodes -> {"idle", "pending", "ok", "error"}]
    /\ actors \in Seq(Actor) /\ clients \in [Users -> Nat] /\ deaths \in Nat
    /\ rejections \subseteq [code : Codes, recovery : BOOLEAN]

LEMMA TypeParts == TypeOK <=> ScriptTypeOK /\ ProcessTypeOK /\ ReadinessTyped
BY DEF TypeOK, ScriptTypeOK, ProcessTypeOK, ReadinessTyped, Poll

LEMMA AdvanceTyped ==
    ASSUME ScriptTypeOK, Advance, pc <= Len(Script)
    PROVE  /\ ScriptTypeOK' /\ ReadinessTyped'
           /\ \/ phase' = phase /\ verdict' = verdict
              \/ phase' = "closing" /\ verdict' = "completed"
<1>1. pc' \in 1..Len(Script) + 1
  BY ScriptTyped DEF Advance, ScriptTypeOK
<1>2. ReadinessTyped'
  BY BeginTyped DEF Advance
<1>3. \/ phase' = phase /\ verdict' = verdict
      \/ phase' = "closing" /\ verdict' = "completed"
  BY DEF Advance
<1>4. ScriptTypeOK'
  BY <1>1, <1>3 DEF Advance, ScriptTypeOK
<1> QED
  BY <1>2, <1>3, <1>4

LEMMA RaiseTyped ==
    ASSUME ScriptTypeOK, Raise
    PROVE  ScriptTypeOK' /\ ReadinessTyped' /\ phase' = "diagnosing" /\ verdict' = "failed"
BY BeginTyped DEF Raise, ScriptTypeOK

\* Every step keeps the types.
LEMMA TypeStep ==
    ASSUME TypeOK, [Next]_vars
    PROVE  TypeOK'
<1>0. ScriptTypeOK /\ ProcessTypeOK /\ ReadinessTyped
  BY TypeParts
<1>a. SUFFICES ScriptTypeOK' /\ ProcessTypeOK' /\ ReadinessTyped'
  BY DEF TypeOK, ScriptTypeOK, ProcessTypeOK, ReadinessTyped, Poll
<1>b. UNCHANGED readiness => ReadinessTyped'
  BY <1>0 DEF readiness, ReadinessTyped
<1>c. UNCHANGED script => ScriptTypeOK'
  BY <1>0 DEF script, ScriptTypeOK
<1>d. UNCHANGED <<processes, clients, rejections>> => ProcessTypeOK'
  BY <1>0 DEF processes, ProcessTypeOK
<1>e. \A op, point : At(op, point) => pc <= Len(Script)
  BY DEF At
<1>1. CASE StartNodes
  BY <1>0, <1>1, <1>b DEF StartNodes, Stay, ScriptTypeOK, ProcessTypeOK
<1>2. CASE Started \/ Exchanges \/ StillDown \/ LossObserved
  BY <1>0, <1>2, <1>d, <1>e, AdvanceTyped, RaiseTyped DEF Started, Exchanges, StillDown, LossObserved
<1>3. CASE StableSlots \/ NodeHealth \/ ChannelMeta \/ Presence
  BY <1>0, <1>3, <1>c, <1>d, WaitTyped DEF StableSlots, NodeHealth, ChannelMeta, Presence
<1>4. CASE Settled
  <2>1. CASE Advance
    BY <1>0, <1>4, <1>d, <1>e, <2>1, AdvanceTyped DEF Settled
  <2>2. CASE Stay("send") /\ BeginWait
    BY <1>0, <1>4, <1>d, <2>2, BeginTyped DEF Settled, Stay, ScriptTypeOK
  <2> QED
    BY <1>4, <2>1, <2>2 DEF Settled
<1>5. CASE Route
  BY <1>0, <1>5, <1>b, <1>d, RaiseTyped DEF Route, Stay, ScriptTypeOK
<1>6. CASE Launch
  <2>1. [uid |-> user, on |-> Now.node, alive |-> TRUE, login |-> "asked"] \in Actor
    BY <1>0, <1>6, NowTyped DEF Launch, At, ScriptTypeOK, Actor
  <2>2. actors' \in Seq(Actor)
    BY <1>0, <1>6, <2>1, ActorStarts DEF Launch, ProcessTypeOK
  <2> QED
    BY <1>0, <1>6, <1>b, <2>2 DEF Launch, Stay, ScriptTypeOK, ProcessTypeOK
<1>7. CASE CrashNode
  <2>1. ProcessTypeOK'
    BY <1>0, <1>7 DEF CrashNode, ProcessTypeOK
  <2> QED
    BY <1>0, <1>7, <1>e, <2>1, AdvanceTyped DEF CrashNode
<1>8. CASE RetireClient
  <2>1. actors' \in Seq(Actor)
    BY <1>0, <1>8, ActorEnds DEF RetireClient, ProcessTypeOK
  <2>2. ProcessTypeOK'
    BY <1>0, <1>8, <2>1 DEF RetireClient, ProcessTypeOK
  <2> QED
    BY <1>0, <1>8, <1>e, <2>2, AdvanceTyped DEF RetireClient
<1>9. CASE Break
  BY <1>0, <1>9, <1>d, RaiseTyped DEF Break
<1>10. ASSUME NEW code \in Codes, RejectedCloses(code)
       PROVE  ScriptTypeOK' /\ ProcessTypeOK' /\ ReadinessTyped'
  <2>1. actors' \in Seq(Actor)
    BY <1>0, <1>10, ActorEnds DEF RejectedCloses, ProcessTypeOK
  <2>2. ProcessTypeOK'
    BY <1>0, <1>10, <2>1 DEF RejectedCloses, ProcessTypeOK
  <2> QED
    BY <1>0, <1>10, <2>2, RaiseTyped DEF RejectedCloses, Stay, ScriptTypeOK, ReadinessTyped
<1>11. CASE Diagnose \/ ActorsClosed \/ Verdict
  BY <1>0, <1>11, <1>b, <1>d DEF Diagnose, ActorsClosed, Verdict, ScriptTypeOK
<1>12. CASE StopNodes
  BY <1>0, <1>12, <1>b DEF StopNodes, Stay, ScriptTypeOK, ProcessTypeOK
<1>13. ASSUME NEW i, CloseActor(i)
       PROVE  ScriptTypeOK' /\ ProcessTypeOK' /\ ReadinessTyped'
  <2>1. actors' \in Seq(Actor)
    BY <1>0, <1>13, ActorEnds DEF CloseActor, ProcessTypeOK
  <2> QED
    BY <1>0, <1>13, <1>b, <1>c, <2>1 DEF CloseActor, ProcessTypeOK
<1>14. ASSUME NEW n \in Nodes, Spawn(n) \/ Ready(n) \/ StartFails(n)
       PROVE  ScriptTypeOK' /\ ProcessTypeOK' /\ ReadinessTyped'
  BY <1>0, <1>14, <1>b, <1>c DEF Spawn, Ready, StartFails, Running, ProcessTypeOK
<1>15. CASE LoggedIn
  <2>1. actors' \in Seq(Actor)
    BY <1>0, <1>15, ActorLogs DEF LoggedIn, ProcessTypeOK
  <2>2. Last \in Nat
    BY <1>0, LenProperties DEF Last, ProcessTypeOK
  <2>3. ProcessTypeOK'
    BY <1>0, <1>15, <2>1, <2>2 DEF LoggedIn, ProcessTypeOK
  <2> QED
    BY <1>0, <1>15, <1>e, <2>3, AdvanceTyped DEF LoggedIn
<1>16. ASSUME NEW code \in Codes, Rejected(code)
       PROVE  ScriptTypeOK' /\ ProcessTypeOK' /\ ReadinessTyped'
  <2>1. actors' \in Seq(Actor)
    BY <1>0, <1>16, ActorLogs DEF Rejected, ProcessTypeOK
  <2>2. [code |-> code, recovery |-> Now.flag] \in [code : Codes, recovery : BOOLEAN]
    BY <1>0, <1>16, NowTyped DEF Rejected, At, ScriptTypeOK
  <2> QED
    BY <1>0, <1>16, <1>b, <2>1, <2>2 DEF Rejected, Stay, ScriptTypeOK, ProcessTypeOK
<1>17. ASSUME NEW i, Notice(i)
       PROVE  ScriptTypeOK' /\ ProcessTypeOK' /\ ReadinessTyped'
  <2>1. actors' \in Seq(Actor)
    BY <1>0, <1>17, ActorLogs DEF Notice, ProcessTypeOK
  <2> QED
    BY <1>0, <1>17, <1>b, <1>c, <2>1 DEF Notice, ProcessTypeOK
<1>18. ASSUME NEW i, ActorDies(i)
       PROVE  ScriptTypeOK' /\ ProcessTypeOK' /\ ReadinessTyped'
  <2>1. actors' \in Seq(Actor)
    BY <1>0, <1>18, ActorEnds DEF ActorDies, ProcessTypeOK
  <2> QED
    BY <1>0, <1>18, <1>b, <1>c, <2>1 DEF ActorDies, ProcessTypeOK
<1>19. ASSUME NEW n \in Nodes, NodeDies(n)
       PROVE  ScriptTypeOK' /\ ProcessTypeOK' /\ ReadinessTyped'
  BY <1>0, <1>19, <1>b, <1>c DEF NodeDies, ProcessTypeOK
<1>20. CASE Deadline
  BY <1>0, <1>20, <1>b DEF Deadline, ScriptTypeOK, ProcessTypeOK
<1>21. CASE UNCHANGED vars
  BY <1>21, <1>b, <1>c, <1>d DEF vars
<1> QED
  BY <1>1, <1>2, <1>3, <1>4, <1>5, <1>6, <1>7, <1>8, <1>9, <1>10, <1>11, <1>12, <1>13, <1>14,
     <1>15, <1>16, <1>17, <1>18, <1>19, <1>20, <1>21
  DEF Next, Fixture, Starts, External

-----------------------------------------------------------------------------
\* A poll keeps the evidence.
LEMMA PollEvidence ==
    ASSUME ReadinessTyped, answer = None, previous # None => FoundSince(previous, since),
           NEW t \in Nat, NEW found \in Answers, Observe(found, t)
    PROVE  /\ previous' # None => FoundSince(previous, since)'
           /\ answer' # None => Proven'
<1> DEFINE n == Len(polls)
           poll == [at |-> t, found |-> found]
<1>1. /\ poll \in Poll /\ n \in Nat /\ polls' = Append(polls, poll)
      /\ Settle \in Nat
  BY LenProperties, TimeAssumption DEF Poll, ReadinessTyped, Observe, Record
<1>2. /\ polls' \in Seq(Poll) /\ Len(polls') = n + 1
      /\ polls'[n + 1] = poll /\ \A i \in 1..n : polls'[i] = polls[i]
  BY <1>1, AppendProperties DEF ReadinessTyped
<1>3. poll.at = t /\ poll.found = found
  OBVIOUS
<1> HIDE DEF n, poll
<1>4. CASE found = None
  BY <1>4 DEF Observe
<1>5. CASE found # None /\ previous = found
  <2>1. PICK i \in 1..n : polls[i].at = since /\ \A j \in i..n : polls[j].found = found
    BY <1>5 DEF FoundSince, n
  <2>2. polls'[i].at = since /\ i \in 1..n + 1
    BY <1>1, <1>2, <2>1
  <2>3. \A j \in i..n + 1 : polls'[j].found = found
    BY <1>1, <1>2, <1>3, <2>1
  <2>4. previous' = found /\ since' = since
    BY <1>5 DEF Observe
  <2>5. FoundSince(previous, since)'
    BY <1>2, <2>2, <2>3, <2>4 DEF FoundSince
  <2>6. CASE t - since >= Settle
    <3>1. answer' = found
      BY <1>5, <2>6 DEF Observe
    <3>2. polls'[n + 1].at - polls'[i].at >= Settle
      BY <1>2, <1>3, <2>2, <2>6
    <3>3. \A j \in i..n + 1 : polls'[j].found = answer'
      BY <2>3, <3>1
    <3> QED
      BY <1>2, <2>2, <2>5, <3>2, <3>3 DEF Proven
  <2>7. CASE ~(t - since >= Settle)
    BY <1>5, <2>5, <2>7 DEF Observe
  <2> QED
    BY <2>6, <2>7
<1>6. CASE found # None /\ previous # found
  <2>1. previous' = found /\ since' = t /\ answer' = None
    BY <1>6 DEF Observe
  <2>2. /\ polls'[n + 1].at = t /\ n + 1 \in 1..n + 1
        /\ \A j \in (n + 1)..(n + 1) : polls'[j].found = found
    BY <1>1, <1>2, <1>3
  <2> QED
    BY <1>2, <2>1, <2>2 DEF FoundSince
<1> QED
  BY <1>4, <1>5, <1>6

LEMMA BeginEvidence == BeginWait => EvidenceInv'
BY DEF BeginWait, EvidenceInv

\* Every step keeps the evidence.
LEMMA EvidenceStep ==
    ASSUME TypeOK, EvidenceInv, [Next]_vars
    PROVE  EvidenceInv'
<1>0. ReadinessTyped
  BY TypeParts
<1>1. ASSUME BeginWait PROVE EvidenceInv'
  BY <1>1, BeginEvidence
<1>2. ASSUME UNCHANGED <<phase, pc, readiness>> PROVE EvidenceInv'
  BY <1>2 DEF EvidenceInv, Stabilizing, Now, FoundSince, Proven, readiness
<1>3. ASSUME UNCHANGED <<phase, pc>>, At("connect", at) \/ At("health", at) \/ At("channel", at)
      PROVE  EvidenceInv'
  BY <1>3 DEF EvidenceInv, Stabilizing, Now, At
<1>4. ASSUME phase' # "script" PROVE EvidenceInv'
  BY <1>4 DEF EvidenceInv, Stabilizing
<1>5. ASSUME NEW found \in Answers, NEW d \in 0..Slow, answer = None, Observe(found, now + d),
             UNCHANGED script, Stabilizing
      PROVE  EvidenceInv'
  <2>1. now + d \in Nat
    BY <1>0, TimeAssumption DEF ReadinessTyped
  <2>2. previous # None => FoundSince(previous, since)
    BY <1>5 DEF EvidenceInv
  <2> QED
    BY <1>0, <1>5, <2>1, <2>2, PollEvidence DEF EvidenceInv
<1>6. CASE StableSlots
  <2>1. PICK views \in [Now.over -> SlotView], d \in 0..Slow :
            answer = None /\ Observe(SlotAnswer(views, Now.over), now + d)
    BY <1>6 DEF StableSlots, PollSlots, InTime
  <2> QED
    BY <1>5, <1>6, <2>1, AnswersTyped DEF StableSlots, At, Stabilizing
<1>7. CASE Presence
  <2>1. PICK complete \in [Alive -> BOOLEAN], d \in 0..Slow :
            answer = None /\ Observe(PresenceAnswer(complete, Alive), now + d)
    BY <1>7 DEF Presence, PollPresence, InTime
  <2> QED
    BY <1>5, <1>7, <2>1, AnswersTyped DEF Presence, At, Stabilizing
<1>8. CASE NodeHealth \/ ChannelMeta
  BY <1>3, <1>8 DEF NodeHealth, ChannelMeta, At, script
<1>9. CASE StartNodes \/ Route \/ Launch
  BY <1>1, <1>2, <1>9 DEF StartNodes, Route, Launch, Stay, Raise
<1>10. CASE Started \/ Settled \/ Exchanges \/ CrashNode \/ LossObserved \/ RetireClient
            \/ StillDown \/ Break \/ LoggedIn
  BY <1>1, <1>10
  DEF Started, Settled, Exchanges, CrashNode, LossObserved, RetireClient, StillDown, Break,
      LoggedIn, Advance, Raise
<1>11. ASSUME NEW code \in Codes, RejectedCloses(code) \/ Rejected(code)
       PROVE  EvidenceInv'
  BY <1>1, <1>3, <1>11 DEF RejectedCloses, Rejected, Stay, Raise, At
<1>12. CASE Diagnose \/ ActorsClosed \/ Verdict
  BY <1>4, <1>12 DEF Diagnose, ActorsClosed, Verdict
<1>13. CASE StopNodes \/ Deadline
  BY <1>4, <1>13 DEF StopNodes, Deadline, Stay
<1>14. ASSUME NEW i, CloseActor(i) \/ Notice(i) \/ ActorDies(i)
       PROVE  EvidenceInv'
  BY <1>2, <1>14 DEF CloseActor, Notice, ActorDies, script
<1>15. ASSUME NEW n \in Nodes, Spawn(n) \/ Ready(n) \/ StartFails(n) \/ NodeDies(n)
       PROVE  EvidenceInv'
  BY <1>2, <1>15 DEF Spawn, Ready, StartFails, NodeDies, script
<1>16. CASE UNCHANGED vars
  BY <1>2, <1>16 DEF vars, script
<1> QED
  BY <1>6, <1>7, <1>8, <1>9, <1>10, <1>11, <1>12, <1>13, <1>14, <1>15, <1>16
  DEF Next, Fixture, Starts, External

-----------------------------------------------------------------------------
\* Every step keeps what the cleanup has reached.
LEMMA CleanupStep ==
    ASSUME TypeOK, CleanupInv, [Next]_vars
    PROVE  CleanupInv'
<1>0. /\ actors \in Seq(Actor) /\ node \in [Nodes -> {"none", "starting", "ready", "dead"}]
      /\ task \in [Nodes -> {"idle", "pending", "ok", "error"}]
  BY DEF TypeOK
<1>1. ASSUME phase = "script", phase' \in {"script", "diagnosing", "closing"},
             verdict' \in {verdict, "failed", "completed", "cancelled"},
             \A n \in Nodes : task'[n] # "pending"
      PROVE  CleanupInv'
  BY <1>1 DEF CleanupInv
<1>2. ASSUME ~At("start", "wait") PROVE \A n \in Nodes : task[n] # "pending"
  BY <1>2 DEF CleanupInv
<1>3. \A op, point : At(op, point) /\ (op # "start" \/ point # "wait") =>
          phase = "script" /\ \A n \in Nodes : task[n] # "pending"
  BY <1>2 DEF At
<1>4. /\ Advance /\ phase = "script" => /\ phase' \in {"script", "closing"}
                                      /\ verdict' \in {verdict, "completed"}
      /\ Raise => phase' = "diagnosing" /\ verdict' = "failed"
  BY DEF Advance, Raise
<1>5. CASE Started
  BY <1>1, <1>4, <1>5 DEF Started, Joined, At, processes
<1>6. CASE Exchanges \/ LossObserved \/ StillDown \/ Settled \/ Route
  <2>1. \E op, point : At(op, point) /\ (op # "start" \/ point # "wait")
    BY <1>6 DEF Exchanges, LossObserved, StillDown, Settled, Route
  <2>2. task' = task /\ (Advance \/ Raise \/ UNCHANGED <<phase, verdict>>)
    BY <1>6 DEF Exchanges, LossObserved, StillDown, Settled, Route, processes, Stay
  <2> QED
    BY <1>1, <1>3, <1>4, <2>1, <2>2
<1>7. CASE StableSlots \/ NodeHealth \/ ChannelMeta \/ Presence
  BY <1>7
  DEF StableSlots, NodeHealth, ChannelMeta, Presence, script, processes, CleanupInv, At, Now, Running
<1>8. CASE StartNodes
  <2>1. phase' = "script" /\ At("start", "wait")' /\ verdict' = verdict /\ phase = "script"
    BY <1>8 DEF StartNodes, At, Stay, Now
  <2> QED
    BY <2>1 DEF CleanupInv
<1>9. CASE Launch \/ LoggedIn \/ CrashNode \/ RetireClient
  <2>1. \E op, point : At(op, point) /\ (op # "start" \/ point # "wait")
    BY <1>9 DEF Launch, LoggedIn, CrashNode, RetireClient
  <2>2. task' = task /\ (Advance \/ UNCHANGED <<phase, verdict>>)
    BY <1>9 DEF Launch, LoggedIn, CrashNode, RetireClient, Stay
  <2> QED
    BY <1>1, <1>3, <1>4, <2>1, <2>2
<1>10. CASE Break
  BY <1>1, <1>2, <1>4, <1>10 DEF Break, processes
<1>11. ASSUME NEW code \in Codes, RejectedCloses(code) \/ Rejected(code)
       PROVE  CleanupInv'
  <2>1. \E op, point : At(op, point) /\ (op # "start" \/ point # "wait")
    BY <1>11 DEF RejectedCloses, Rejected
  <2>2. task' = task /\ (Raise \/ UNCHANGED <<phase, verdict>>)
    BY <1>11 DEF RejectedCloses, Rejected, Stay
  <2> QED
    BY <1>1, <1>3, <1>4, <2>1, <2>2
<1>12. CASE Diagnose \/ ActorsClosed \/ Verdict
  <2>1. \A n \in Nodes : task'[n] # "pending"
    BY <1>2, <1>12 DEF Diagnose, ActorsClosed, Verdict, processes, At
  <2> QED
    BY <1>12, <2>1 DEF Diagnose, ActorsClosed, Verdict, processes, CleanupInv, Owned, Running
<1>13. CASE StopNodes
  <2>1. \A n \in Nodes : task'[n] # "pending"
    BY <1>2, <1>13 DEF StopNodes, At
  <2>2. \A n \in Nodes : ~Running(n)'
    BY <1>0, <1>13 DEF StopNodes, Running
  <2> QED
    BY <1>13, <2>1, <2>2 DEF StopNodes, CleanupInv, Stay
<1>14. ASSUME NEW i, CloseActor(i) \/ Notice(i) \/ ActorDies(i)
       PROVE  CleanupInv'
  <2>1. /\ DOMAIN actors' = DOMAIN actors
        /\ \A j \in DOMAIN actors : actors'[j].alive => actors[j].alive
    BY <1>0, <1>14, ActorEnds, ActorLogs DEF CloseActor, Notice, ActorDies
  <2>2. UNCHANGED <<phase, pc, at, verdict, task, node>>
    BY <1>14 DEF CloseActor, Notice, ActorDies, script
  <2> QED
    BY <2>1, <2>2 DEF CleanupInv, At, Now, Running
<1>15. ASSUME NEW n \in Nodes, Spawn(n) \/ Ready(n) \/ StartFails(n)
       PROVE  CleanupInv'
  <2>1. At("start", "wait") /\ UNCHANGED script
    BY <1>15 DEF Spawn, Ready, StartFails, CleanupInv
  <2>2. At("start", "wait")' /\ phase' = "script" /\ verdict' = verdict
    BY <2>1 DEF At, Now, script
  <2> QED
    BY <2>1, <2>2 DEF CleanupInv, At
<1>16. ASSUME NEW n \in Nodes, NodeDies(n)
       PROVE  CleanupInv'
  <2>1. \A m \in Nodes : Running(m)' => Running(m)
    BY <1>0, <1>16 DEF NodeDies, Running
  <2> QED
    BY <1>16, <2>1 DEF NodeDies, CleanupInv, script, At, Now
<1>17. CASE Deadline
  BY <1>0, <1>17 DEF Deadline, CleanupInv
<1>18. CASE UNCHANGED vars
  BY <1>18 DEF vars, script, processes, CleanupInv, At, Now, Running
<1> QED
  BY <1>5, <1>6, <1>7, <1>8, <1>9, <1>10, <1>11, <1>12, <1>13, <1>14, <1>15, <1>16, <1>17, <1>18
  DEF Next, Fixture, Starts, External

-----------------------------------------------------------------------------
\* Every step keeps the refusals in evidence until the run deals with them.
LEMMA RefusalStep ==
    ASSUME TypeOK, RefusalInv, [Next]_vars
    PROVE  RefusalInv'
<1>2. ASSUME UNCHANGED <<phase, pc, at, verdict, rejections>> PROVE RefusalInv'
  BY <1>2 DEF RefusalInv, RefusalEndsRun, At, Now
<1>3. ASSUME verdict' \notin {"running", "completed"}, phase' # "script" PROVE RefusalInv'
  BY <1>3 DEF RefusalInv, RefusalEndsRun
<1>4. /\ "begin" \notin Codes /\ "wait" \notin Codes /\ "send" \notin Codes
      /\ "launch" \notin Codes /\ "login" \notin Codes /\ "stopped" \notin Codes
  BY DEF Codes
<1>5. ASSUME NEW op, NEW point, At(op, point), point \notin Codes
      PROVE  verdict = "running" /\ phase = "script" /\ rejections \subseteq {Excused}
  BY <1>5 DEF RefusalInv, RefusalEndsRun, At, Excused
<1>6. ASSUME NEW op, NEW point, At(op, point), point \notin Codes, UNCHANGED rejections,
             Advance \/ Raise \/ \E to \in {"wait", "send", "launch", "login"} : Stay(to)
      PROVE  RefusalInv'
  <2>1. CASE Advance
    <3>1. at' = "begin" /\ rejections' \subseteq {Excused} /\ (phase' = "script" => verdict' = "running")
      BY <1>5, <1>6, <2>1 DEF Advance
    <3> QED
      BY <1>4, <3>1 DEF RefusalInv, RefusalEndsRun, Excused
  <2>2. CASE Raise
    BY <1>3, <2>2 DEF Raise
  <2>3. CASE \E to \in {"wait", "send", "launch", "login"} : Stay(to)
    <3>1. at' \notin Codes /\ rejections' \subseteq {Excused} /\ verdict' = "running"
      BY <1>4, <1>5, <1>6, <2>3 DEF Stay
    <3> QED
      BY <3>1 DEF RefusalInv, RefusalEndsRun, Excused
  <2> QED
    BY <1>6, <2>1, <2>2, <2>3
<1>7. CASE StartNodes \/ Started \/ Settled \/ Exchanges \/ Route \/ Launch \/ CrashNode
           \/ LossObserved \/ RetireClient \/ StillDown \/ LoggedIn
  <2>1. /\ \E op, point : At(op, point) /\ point \notin Codes
        /\ UNCHANGED rejections
        /\ Advance \/ Raise \/ \E to \in {"wait", "send", "launch", "login"} : Stay(to)
    BY <1>4, <1>7
    DEF StartNodes, Started, Settled, Exchanges, Route, Launch, CrashNode, LossObserved,
        RetireClient, StillDown, LoggedIn
  <2> QED
    BY <1>6, <2>1
<1>8. CASE StableSlots \/ NodeHealth \/ ChannelMeta \/ Presence
  BY <1>2, <1>8 DEF StableSlots, NodeHealth, ChannelMeta, Presence, script
<1>9. CASE Break
  BY <1>3, <1>9 DEF Break, Raise
<1>10. ASSUME NEW code \in Codes, Rejected(code)
       PROVE  RefusalInv'
  <2>1. /\ verdict' = "running" /\ phase' = "script" /\ at' = code
        /\ rejections' \subseteq {Excused, [code |-> code, recovery |-> Now.flag]}
        /\ At("connect", code)' /\ Now' = Now
    BY <1>4, <1>5, <1>10 DEF Rejected, Stay, At, Now
  <2> QED
    BY <2>1 DEF RefusalInv, RefusalEndsRun
<1>11. ASSUME NEW code \in Codes, RejectedCloses(code)
       PROVE  RefusalInv'
  <2>1. /\ at = code /\ verdict = "running" /\ phase = "script"
        /\ rejections \subseteq {Excused, [code |-> code, recovery |-> Now.flag]}
    BY <1>11 DEF RejectedCloses, At, RefusalInv
  <2>2. CASE RetryActivation(code, Now.flag)
    <3>1. Now.flag = TRUE /\ code = "15"
      BY <1>11, <2>2, NowTyped DEF RetryActivation, RejectedCloses, At, TypeOK
    <3>2. rejections' \subseteq {Excused} /\ verdict' = "running" /\ at' = "launch"
      BY <1>11, <2>1, <2>2, <3>1 DEF RejectedCloses, Stay, Excused
    <3> QED
      BY <1>4, <3>2 DEF RefusalInv, RefusalEndsRun, Excused
  <2>3. CASE ~RetryActivation(code, Now.flag)
    BY <1>3, <1>11, <2>3 DEF RejectedCloses, Raise
  <2> QED
    BY <2>2, <2>3
<1>12. CASE Diagnose \/ ActorsClosed \/ StopNodes \/ Verdict
  <2>1. /\ phase # "script" /\ phase' # "script" /\ verdict' \in {verdict, "failed"}
        /\ UNCHANGED rejections /\ (at' = at \/ at' \notin Codes)
    BY <1>4, <1>12 DEF Diagnose, ActorsClosed, StopNodes, Verdict, Stay
  <2>2. verdict \in {"running", "completed"} => at \notin Codes
    BY <2>1 DEF RefusalInv, At
  <2> QED
    BY <2>1, <2>2 DEF RefusalInv, RefusalEndsRun
<1>13. ASSUME NEW i, CloseActor(i) \/ Notice(i) \/ ActorDies(i)
       PROVE  RefusalInv'
  BY <1>2, <1>13 DEF CloseActor, Notice, ActorDies, script
<1>14. ASSUME NEW n \in Nodes, Spawn(n) \/ Ready(n) \/ StartFails(n) \/ NodeDies(n)
       PROVE  RefusalInv'
  BY <1>2, <1>14 DEF Spawn, Ready, StartFails, NodeDies, script
<1>15. CASE Deadline
  BY <1>3, <1>15 DEF Deadline
<1>16. CASE UNCHANGED vars
  BY <1>2, <1>16 DEF vars, script
<1> QED
  BY <1>7, <1>8, <1>9, <1>10, <1>11, <1>12, <1>13, <1>14, <1>15, <1>16
  DEF Next, Fixture, Starts, External

-----------------------------------------------------------------------------
\* What is due after an operation was due before it, unless the operation
\* retires the user; after a connect, that user is not due.
LEMMA DueStep ==
    ASSUME NEW p \in 1..Len(Script), NEW u, Due(u, p + 1)
    PROVE  Due(u, p) \/ (Script[p].op = "retire" /\ u \in Script[p].users)
<1>1. Len(Script) \in Nat
  BY ScriptTyped
<1>2. PICK k \in p + 1..Len(Script) :
          /\ Script[k].op = "connect" /\ u \in Script[k].users
          /\ \A j \in p + 1..k - 1 : ~(Script[j].op = "retire" /\ u \in Script[j].users)
  BY DEF Due
<1>3. SUFFICES ASSUME ~(Script[p].op = "retire" /\ u \in Script[p].users) PROVE Due(u, p)
  OBVIOUS
<1>4. \A j \in p..k - 1 : ~(Script[j].op = "retire" /\ u \in Script[j].users)
  <2> SUFFICES ASSUME NEW j \in p..k - 1
               PROVE  ~(Script[j].op = "retire" /\ u \in Script[j].users)
    OBVIOUS
  <2>1. j = p \/ j \in p + 1..k - 1
    BY <1>1
  <2> QED
    BY <1>2, <1>3, <2>1
<1>5. k \in p..Len(Script)
  BY <1>1
<1> QED
  BY <1>2, <1>4, <1>5 DEF Due

LEMMA DueConnect ==
    ASSUME NEW p \in 1..Len(Script), NEW u, Script[p].op = "connect", Script[p].users = {u}
    PROVE  Due(u, p) /\ ~Due(u, p + 1)
<1>1. Len(Script) \in Nat
  BY ScriptTyped
<1>2. Due(u, p)
  <2>1. p \in p..Len(Script) /\ p..p - 1 = {}
    BY <1>1
  <2> QED
    BY <2>1 DEF Due
<1>3. ASSUME Due(u, p + 1) PROVE FALSE
  <2>1. PICK k \in p + 1..Len(Script) :
            /\ Script[k].op = "connect" /\ u \in Script[k].users
            /\ \A j \in p + 1..k - 1 : ~(Script[j].op = "retire" /\ u \in Script[j].users)
    BY <1>3 DEF Due
  <2>2. k \in 1..Len(Script) /\ p \in 1..k - 1
    BY <1>1
  <2>3. Script[k] \in Operation
    BY <2>2, ScriptTyped
  <2>4. Script[k].users = {u}
    BY <2>1, <2>3 DEF Operation
  <2>5. PICK j \in p + 1..k - 1 : Script[j].op = "retire" /\ Script[j].users = Script[k].users
    BY <2>1, <2>2, <2>4, Replaced
  <2> QED
    BY <2>1, <2>4, <2>5
<1> QED
  BY <1>2, <1>3

\* Every step keeps one running client of an identity.
LEMMA IdentityStep ==
    ASSUME TypeOK, IdentityInv, [Next]_vars
    PROVE  IdentityInv'
<1>0. /\ actors \in Seq(Actor) /\ pc \in 1..Len(Script) + 1 /\ Len(Script) \in Nat
      /\ clients \in [Users -> Nat]
  BY ScriptTyped DEF TypeOK
<1> DEFINE Fewer == /\ DOMAIN actors' = DOMAIN actors /\ Len(actors') = Len(actors)
                    /\ \A j \in DOMAIN actors : /\ actors'[j].alive => actors[j].alive
                                                /\ actors'[j].uid = actors[j].uid
           AllPlaced == \A i \in DOMAIN actors : actors[i].alive => Placed(i)
<1>1. AllPlaced' => OneClientPerIdentity'
  <2> SUFFICES ASSUME AllPlaced', NEW i \in DOMAIN actors', NEW j \in DOMAIN actors',
                      actors'[i].alive, actors'[j].alive, actors'[i].uid = actors'[j].uid
               PROVE  i = j
    BY DEF OneClientPerIdentity
  <2>1. Placed(i)' /\ Placed(j)'
    OBVIOUS
  <2> QED
    BY <2>1 DEF Placed
<1>2. ASSUME Fewer PROVE OneClientPerIdentity'
  BY <1>2 DEF IdentityInv, OneClientPerIdentity
<1>3. ASSUME Fewer, phase' # "script" PROVE IdentityInv'
  BY <1>2, <1>3 DEF IdentityInv
<1>4. ASSUME Fewer, UNCHANGED <<phase, pc, clients>>, LoggingIn' <=> LoggingIn
      PROVE  IdentityInv'
  <2>1. ASSUME NEW i \in DOMAIN actors', actors'[i].alive, phase' = "script"
        PROVE  Placed(i)'
    <3>1. Placed(i)
      BY <1>4, <2>1 DEF IdentityInv
    <3> QED
      BY <1>4, <2>1, <3>1 DEF Placed, user, Now
  <2> QED
    BY <1>2, <1>4, <2>1 DEF IdentityInv
<1>5. UNCHANGED actors => Fewer
  OBVIOUS
<1>6. ASSUME UNCHANGED actors, Raise PROVE IdentityInv'
  BY <1>3, <1>5, <1>6 DEF Raise
<1>7. "begin" \notin {"login"} \cup Codes /\ "launch" \notin {"login"} \cup Codes
  BY DEF Codes
<1>8. ASSUME UNCHANGED <<actors, clients>>, Advance, phase = "script", pc <= Len(Script),
             Now.op \notin {"connect", "retire"}
      PROVE  IdentityInv'
  <2>1. ASSUME NEW i \in DOMAIN actors', actors'[i].alive, phase' = "script"
        PROVE  Placed(i)'
    <3>1. i = clients[actors[i].uid] /\ ~Due(actors[i].uid, pc)
      BY <1>8, <2>1 DEF IdentityInv, Placed, LoggingIn
    <3>2. ~Due(actors[i].uid, pc + 1)
      BY <1>0, <1>8, <3>1, DueStep DEF Now
    <3>3. ~LoggingIn' /\ pc' = pc + 1
      BY <1>7, <1>8 DEF Advance, LoggingIn
    <3> QED
      BY <1>8, <3>1, <3>2, <3>3 DEF Placed
  <2> QED
    BY <1>2, <1>5, <1>8, <2>1 DEF IdentityInv
<1>9. CASE Started \/ Exchanges \/ CrashNode \/ LossObserved \/ StillDown
  <2>1. /\ UNCHANGED <<actors, clients>> /\ phase = "script" /\ pc <= Len(Script)
        /\ Now.op \notin {"connect", "retire"} /\ (Advance \/ Raise)
    BY <1>9 DEF Started, Exchanges, CrashNode, LossObserved, StillDown, At, processes
  <2> QED
    BY <1>6, <1>8, <2>1
<1>10. CASE Settled
  <2>1. /\ UNCHANGED <<actors, clients>> /\ phase = "script" /\ pc <= Len(Script)
        /\ Now.op \notin {"connect", "retire"} /\ (Advance \/ Stay("send"))
    BY <1>10 DEF Settled, At, processes
  <2>2. CASE Stay("send")
    BY <1>4, <1>5, <2>1, <2>2 DEF Stay, LoggingIn, Now
  <2> QED
    BY <1>8, <2>1, <2>2
<1>11. CASE StartNodes
  BY <1>4, <1>5, <1>11 DEF StartNodes, Stay, At, LoggingIn, Now
<1>12. CASE StableSlots \/ NodeHealth \/ ChannelMeta \/ Presence
  BY <1>4, <1>5, <1>12
  DEF StableSlots, NodeHealth, ChannelMeta, Presence, script, processes, LoggingIn, Now
<1>13. CASE Route
  <2>1. CASE Raise
    BY <1>6, <1>13, <2>1 DEF Route, processes
  <2>2. CASE Stay("launch")
    BY <1>4, <1>5, <1>7, <1>13, <2>2 DEF Route, processes, Stay, LoggingIn, At
  <2> QED
    BY <1>13, <2>1, <2>2 DEF Route
<1>14. CASE Launch
  <2> DEFINE new == [uid |-> user, on |-> Now.node, alive |-> TRUE, login |-> "asked"]
             n == Len(actors)
  <2>1. /\ user \in Users /\ Now.users = {user} /\ Now.op = "connect" /\ pc \in 1..Len(Script)
        /\ new \in Actor
    BY <1>0, <1>14, NowTyped DEF Launch, At, Actor
  <2>2. Due(user, pc)
    BY <2>1, DueConnect DEF Now
  <2>3. /\ n \in Nat /\ Len(actors') = n + 1 /\ DOMAIN actors = 1..n
        /\ DOMAIN actors' = 1..n + 1 /\ actors'[n + 1] = new
        /\ \A j \in DOMAIN actors : actors'[j] = actors[j]
    BY <1>0, <1>14, <2>1, ActorStarts DEF Launch
  <2>4. LoggingIn' /\ ~LoggingIn /\ UNCHANGED <<phase, pc, clients>> /\ phase = "script"
    BY <1>7, <1>14 DEF Launch, At, LoggingIn, Stay, Now
  <2>5. user' = user
    BY <2>4 DEF user, Now
  <2>6. new.uid = user
    OBVIOUS
  <2> HIDE DEF n, new
  <2>7. ASSUME NEW i \in DOMAIN actors', actors'[i].alive PROVE Placed(i)'
    <3>1. CASE i = n + 1
      BY <2>3, <2>4, <2>5, <2>6, <3>1 DEF Placed
    <3>2. CASE i \in DOMAIN actors
      <4>1. i = clients[actors[i].uid] /\ ~Due(actors[i].uid, pc)
        BY <2>3, <2>4, <2>7, <3>2 DEF IdentityInv, Placed
      <4>2. actors'[i].uid = actors[i].uid /\ actors[i].uid # user
        BY <2>2, <2>3, <3>2, <4>1
      <4> QED
        BY <2>4, <2>5, <4>1, <4>2 DEF Placed
    <3> QED
      BY <2>3, <2>7, <3>1, <3>2
  <2> QED
    BY <1>1, <2>7 DEF IdentityInv
<1>15. CASE LoggedIn
  <2>1. /\ user \in Users /\ Now.users = {user} /\ Now.op = "connect" /\ pc \in 1..Len(Script)
        /\ LoggingIn
    BY <1>0, <1>15, NowTyped DEF LoggedIn, At, LoggingIn
  <2>2. ~Due(user, pc + 1)
    BY <2>1, DueConnect DEF Now
  <2>3. Fewer
    BY <1>0, <1>15, ActorLogs DEF LoggedIn
  <2>4. /\ clients' = [clients EXCEPT ![user] = Last] /\ Advance /\ phase = "script"
    BY <1>15 DEF LoggedIn, At
  <2> HIDE DEF Fewer
  <2>5. ASSUME NEW i \in DOMAIN actors', actors'[i].alive, phase' = "script" PROVE Placed(i)'
    <3>1. Placed(i) /\ i \in DOMAIN actors /\ actors'[i].uid = actors[i].uid
      BY <2>3, <2>4, <2>5 DEF IdentityInv, Fewer
    <3>2. ~LoggingIn' /\ pc' = pc + 1
      BY <1>7, <2>4 DEF Advance, LoggingIn
    <3>3. CASE actors[i].uid = user
      <4>1. i = Last /\ clients'[user] = Last
        BY <1>0, <2>1, <2>4, <3>1, <3>3 DEF Placed, Last
      <4> QED
        BY <2>2, <3>1, <3>2, <3>3, <4>1 DEF Placed
    <3>4. CASE actors[i].uid # user
      <4>1. i = clients[actors[i].uid] /\ ~Due(actors[i].uid, pc)
        BY <3>1, <3>4 DEF Placed
      <4>2. ~Due(actors[i].uid, pc + 1)
        BY <2>1, <4>1, DueStep DEF Now
      <4>3. actors[i].uid \in Users
        <5>1. actors[i] \in Actor
          BY <1>0, <3>1
        <5> QED
          BY <5>1 DEF Actor
      <4>4. clients'[actors[i].uid] = clients[actors[i].uid]
        BY <1>0, <2>4, <3>4, <4>3
      <4> QED
        BY <3>1, <3>2, <4>1, <4>2, <4>4 DEF Placed
    <3> QED
      BY <3>3, <3>4
  <2> QED
    BY <1>2, <2>3, <2>5 DEF IdentityInv
<1>16. ASSUME NEW code \in Codes, Rejected(code) PROVE IdentityInv'
  <2>1. Fewer
    BY <1>0, <1>16, ActorLogs DEF Rejected
  <2> HIDE DEF Fewer
  <2>2. LoggingIn /\ LoggingIn' /\ UNCHANGED <<phase, pc, clients>>
    BY <1>16 DEF Rejected, At, Stay, LoggingIn, Now
  <2> QED
    BY <1>4, <2>1, <2>2
<1>17. ASSUME NEW code \in Codes, RejectedCloses(code) PROVE IdentityInv'
  <2>1. Fewer /\ \A j \in DOMAIN actors : actors'[j].alive => j # Last
    BY <1>0, <1>17, ActorEnds DEF RejectedCloses
  <2> HIDE DEF Fewer
  <2>2. CASE Raise
    BY <1>3, <2>1, <2>2 DEF Raise
  <2>3. CASE Stay("launch")
    <3>1. LoggingIn /\ ~LoggingIn' /\ UNCHANGED <<phase, pc, clients>> /\ phase = "script"
      BY <1>7, <1>17, <2>3 DEF RejectedCloses, At, Stay, LoggingIn, Now
    <3>2. ASSUME NEW i \in DOMAIN actors', actors'[i].alive PROVE Placed(i)'
      <4>1. Placed(i) /\ i # Len(actors) /\ actors'[i].uid = actors[i].uid
        BY <2>1, <3>1, <3>2 DEF IdentityInv, Fewer, Last
      <4> QED
        BY <3>1, <4>1 DEF Placed
    <3> QED
      BY <1>2, <2>1, <3>2 DEF IdentityInv
  <2> QED
    BY <1>17, <2>2, <2>3 DEF RejectedCloses
<1>18. CASE RetireClient
  <2>1. /\ user \in Users /\ Now.users = {user} /\ Now.op = "retire" /\ pc \in 1..Len(Script)
        /\ ~LoggingIn
    BY <1>0, <1>18, NowTyped DEF RetireClient, At, LoggingIn
  <2>2. Fewer /\ \A j \in DOMAIN actors : actors'[j].alive => j # clients[user]
    BY <1>0, <1>18, ActorEnds DEF RetireClient, Mine
  <2>3. clients' = clients /\ Advance /\ phase = "script"
    BY <1>18 DEF RetireClient, At
  <2> HIDE DEF Fewer
  <2>4. ASSUME NEW i \in DOMAIN actors', actors'[i].alive, phase' = "script" PROVE Placed(i)'
    <3>1. Placed(i) /\ i \in DOMAIN actors /\ actors'[i].uid = actors[i].uid
      BY <2>2, <2>3, <2>4 DEF IdentityInv, Fewer
    <3>2. i = clients[actors[i].uid] /\ ~Due(actors[i].uid, pc)
      BY <2>1, <3>1 DEF Placed
    <3>3. actors[i].uid # user
      BY <2>2, <2>4, <3>1, <3>2
    <3>4. ~Due(actors[i].uid, pc + 1)
      BY <2>1, <3>2, <3>3, DueStep DEF Now
    <3>5. ~LoggingIn' /\ pc' = pc + 1
      BY <1>7, <2>3 DEF Advance, LoggingIn
    <3> QED
      BY <2>3, <3>1, <3>2, <3>4, <3>5 DEF Placed
  <2> QED
    BY <1>2, <2>2, <2>4 DEF IdentityInv
<1>19. CASE Break
  BY <1>6, <1>19 DEF Break, processes
<1>20. CASE Diagnose \/ ActorsClosed \/ Verdict
  BY <1>3, <1>5, <1>20 DEF Diagnose, ActorsClosed, Verdict, processes
<1>21. CASE StopNodes \/ Deadline
  BY <1>3, <1>5, <1>21 DEF StopNodes, Deadline, Stay
<1>22. ASSUME NEW i, CloseActor(i) PROVE IdentityInv'
  <2>1. Fewer
    BY <1>0, <1>22, ActorEnds DEF CloseActor
  <2> QED
    BY <1>3, <1>22, <2>1 DEF CloseActor, script
<1>23. ASSUME NEW i, Notice(i) \/ ActorDies(i) PROVE IdentityInv'
  <2>1. Fewer
    <3>1. CASE Notice(i)
      BY <1>0, <3>1, ActorLogs DEF Notice
    <3>2. CASE ActorDies(i)
      BY <1>0, <3>2, ActorEnds DEF ActorDies
    <3> QED
      BY <1>23, <3>1, <3>2
  <2> HIDE DEF Fewer
  <2> QED
    BY <1>4, <1>23, <2>1 DEF Notice, ActorDies, script, LoggingIn, Now
<1>24. ASSUME NEW n \in Nodes, Spawn(n) \/ Ready(n) \/ StartFails(n) \/ NodeDies(n)
       PROVE  IdentityInv'
  BY <1>4, <1>5, <1>24 DEF Spawn, Ready, StartFails, NodeDies, script, LoggingIn, Now
<1>25. CASE UNCHANGED vars
  BY <1>4, <1>5, <1>25 DEF vars, script, processes, LoggingIn, Now
<1> QED
  BY <1>9, <1>10, <1>11, <1>12, <1>13, <1>14, <1>15, <1>16, <1>17, <1>18, <1>19, <1>20, <1>21,
     <1>22, <1>23, <1>24, <1>25
  DEF Next, Fixture, Starts, External

-----------------------------------------------------------------------------
\* The inductive invariant holds of every state.
THEOREM Invariance == Spec => []IInv
<1>1. Init => IInv
  <2> SUFFICES ASSUME Init PROVE IInv
    OBVIOUS
  <2>1. pc = 1 /\ 1 \in 1..Len(Script) + 1 /\ actors = <<>>
    BY ScriptTyped DEF Init
  <2>2. actors \in Seq(Actor) /\ DOMAIN actors = {} /\ polls \in Seq(Poll)
    BY <2>1 DEF Init, ReadinessInit
  <2>3. TypeOK
    BY <2>1, <2>2, AnswersTyped DEF Init, ReadinessInit, TypeOK, Poll
  <2>4. EvidenceInv
    BY DEF Init, ReadinessInit, EvidenceInv
  <2>5. CleanupInv
    BY DEF Init, CleanupInv
  <2>6. RefusalInv
    BY DEF Init, RefusalInv, RefusalEndsRun, Codes
  <2>7. IdentityInv
    BY <2>2 DEF IdentityInv, OneClientPerIdentity
  <2> QED
    BY <2>3, <2>4, <2>5, <2>6, <2>7 DEF IInv
<1>2. IInv /\ [Next]_vars => IInv'
  BY TypeStep, EvidenceStep, CleanupStep, RefusalStep, IdentityStep DEF IInv
<1> QED
  BY <1>1, <1>2, PTL DEF Spec

\* Every variable of a run has the values the scripts give it, and the step
\* that the script has reached is one that can be made: a login, a check or a
\* retirement names one identity, and a login a node of the cluster.
OperationOK == phase = "script" /\ pc <= Len(Script) =>
    /\ Now.op \in Names
    /\ Now.op \in {"connect", "observed", "retire"} =>
          Now.users = {user} /\ user \in Users
    /\ Now.op = "connect" => Now.node \in Nodes

THEOREM TypeCorrect == Spec => [](TypeOK /\ OperationOK)
<1>1. IInv => TypeOK /\ OperationOK
  <2> SUFFICES ASSUME IInv, phase = "script", pc <= Len(Script)
               PROVE  TypeOK /\ OperationOK
    BY DEF OperationOK, IInv
  <2>1. TypeOK /\ pc \in 1..Len(Script) + 1
    BY DEF IInv, TypeOK
  <2>2. /\ Now \in Operation
        /\ Now.op = "connect" => user \in Users /\ Now.users = {user} /\ Now.node \in Nodes
        /\ Now.op \in {"observed", "retire"} => user \in Users /\ Now.users = {user}
    BY <2>1, NowTyped
  <2>3. Now.op \in Names
    BY <2>2 DEF Operation
  <2> HIDE DEF Now, user
  <2> QED
    BY <2>1, <2>2, <2>3 DEF OperationOK
<1> QED
  BY <1>1, Invariance, PTL

\* What a stability loop returns was found by every poll for the whole of the
\* settling time (interop_cluster.py:60-68, 197-203).
THEOREM Safe_SettledEvidence == Spec => []SettledEvidence
<1>1. IInv => SettledEvidence
  BY DEF IInv, EvidenceInv, SettledEvidence, Stable, Stabilizing, Proven
<1> QED
  BY <1>1, Invariance, PTL

\* At no time do two processes of one identity run, for every order of the
\* users and every list of failovers (interop_cluster.py:150, 257, 278).
THEOREM Safe_OneClientPerIdentity == Spec => []OneClientPerIdentity
<1>1. IInv => OneClientPerIdentity
  BY DEF IInv, IdentityInv
<1> QED
  BY <1>1, Invariance, PTL

\* A run that ends without being cut short leaves no process
\* (interop_cluster.py:224-227, 377-382).
THEOREM Safe_RunLeavesNothing == Spec => []RunLeavesNothing
<1>1. IInv => RunLeavesNothing
  BY DEF IInv, CleanupInv, RunLeavesNothing
<1> QED
  BY <1>1, Invariance, PTL

\* A refused login ends the run, but for the activation failure of a
\* replacement (interop_cluster.py:9-11, 151-154).
THEOREM Safe_RefusalEndsRun == Spec => []RefusalEndsRun
<1>1. IInv => RefusalEndsRun
  BY DEF IInv, RefusalInv
<1> QED
  BY <1>1, Invariance, PTL

=============================================================================
