--------------------------- MODULE RequestContract ---------------------------
(***************************************************************************)
(* What one session promises about its requests, without locks, permits or *)
(* tasks: every request is sent at most once, a success is the answer of   *)
(* the server, and a refusal means that the server never saw the request.  *)
(***************************************************************************)
CONSTANT Requests

VARIABLES
    status,     \* of every request
    lost,       \* the session is lost
    seen,       \* the requests the server received
    answered    \* the requests the server answered

vars == <<status, lost, seen, answered>>

\* "rejected": a JSON-RPC error; "refused": by the client; "uncertain": the
\* server may or may not have received it.
Outcomes == {"ok", "rejected", "refused", "uncertain"}

TypeOK ==
    /\ status \in [Requests -> {"idle", "open"} \cup Outcomes]
    /\ lost \in BOOLEAN
    /\ seen \subseteq Requests /\ answered \subseteq seen

Init ==
    /\ status = [r \in Requests |-> "idle"]
    /\ lost = FALSE /\ seen = {} /\ answered = {}

Open(r) ==
    /\ status[r] = "idle"
    /\ status' = [status EXCEPT ![r] = "open"]
    /\ UNCHANGED <<lost, seen, answered>>

\* A request reaches the server while it is open: nothing is replayed.
Deliver(r) ==
    /\ status[r] = "open" /\ r \notin seen
    /\ seen' = seen \cup {r}
    /\ UNCHANGED <<status, lost, answered>>

Answer(r) ==
    /\ r \in seen
    /\ answered' = answered \cup {r}
    /\ UNCHANGED <<status, lost, seen>>

\* A request ends once.  A timeout, a cancellation or a lost session leaves
\* delivery uncertain.
Settle(r, o) ==
    /\ status[r] \in {"idle", "open"}
    /\ o \in {"ok", "rejected"} => r \in answered
    /\ o = "refused" => r \notin seen
    /\ status' = [status EXCEPT ![r] = o]
    /\ UNCHANGED <<lost, seen, answered>>

Lose ==
    /\ lost' = TRUE
    /\ UNCHANGED <<status, seen, answered>>

Next ==
    \/ Lose
    \/ \E r \in Requests :
          \/ Open(r) \/ Deliver(r) \/ Answer(r)
          \/ \E o \in Outcomes : Settle(r, o)

\* Once the session is lost, an open request ends without any timer.
Fairness ==
    \A r \in Requests :
        WF_vars(/\ lost /\ status[r] = "open"
                /\ \E o \in Outcomes : Settle(r, o))

Spec == Init /\ [][Next]_vars /\ Fairness
=============================================================================
