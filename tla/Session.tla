------------------------------ MODULE Session ------------------------------
(***************************************************************************)
(* One session of WKIM.cs after another, as much of it as the supervisor,  *)
(* the requests and the event queue have in common: what each of the three *)
(* detailed specifications does itself, and what it leaves to the others.  *)
(* Supervisor, Requests and Events all implement this interface, so none   *)
(* of them relies on a step that another one does not take.                *)
(***************************************************************************)
VARIABLES
    status,    \* of the current session: opening, open (admitted) or closed
    token,     \* its token is cancelled
    reading,   \* its receiver can still deliver frames
    beating,   \* its heartbeat can still ping
    disposed,  \* it has been disposed, or there was none yet
    halt       \* the client's disposal: no, stopping (the run), done (with it)

vars == <<status, token, reading, beating, disposed, halt>>

\* No session yet, or one that has just been admitted.
Init ==
    /\ halt = "no"
    /\ \/ status = "closed" /\ token = TRUE /\ disposed = TRUE
          /\ reading = FALSE /\ beating = FALSE
       \/ status = "open" /\ token = FALSE /\ disposed = FALSE
          /\ reading = TRUE /\ beating = TRUE

\* The loop goes round: never beside an earlier session, never after a stop.
Open ==
    /\ disposed /\ halt = "no"
    /\ status' = "opening" /\ token' = FALSE /\ disposed' = FALSE
    /\ reading' = TRUE /\ beating' = FALSE
    /\ UNCHANGED halt

\* The login, under _gate.  The heartbeat starts, unless the event of the
\* login does not fit the queue.
Admit ==
    /\ status = "opening" /\ ~token
    /\ status' = "open" /\ beating' \in BOOLEAN
    /\ UNCHANGED <<token, reading, disposed, halt>>

\* The login fails; the receiver may not even have been started.
Fail ==
    /\ status = "opening" /\ status' = "closed"
    /\ token' \in {token, TRUE} /\ reading' \in {reading, FALSE}
    /\ UNCHANGED <<beating, disposed, halt>>

\* An admitted session is given up by itself only when one of its tasks ends.
Lose ==
    /\ status = "open" /\ ~(reading /\ beating)
    /\ status' = "closed"
    /\ UNCHANGED <<token, reading, beating, disposed, halt>>

\* Session.Stop, by DisconnectAsync at any time or by the run: the client is
\* not connected any more.
Stop ==
    /\ ~token /\ token' = TRUE
    /\ status' = IF status = "open" THEN "closed" ELSE status
    /\ UNCHANGED <<reading, beating, disposed>>

ReceiverEnds ==
    /\ reading /\ reading' = FALSE
    /\ UNCHANGED <<status, token, beating, disposed, halt>>

HeartbeatEnds ==
    /\ beating /\ beating' = FALSE
    /\ UNCHANGED <<status, token, reading, disposed, halt>>

\* Session.Dispose: given up, stopped, and both tasks joined.
Dispose ==
    /\ status = "closed" /\ token /\ ~reading /\ ~beating
    /\ ~disposed /\ disposed' = TRUE
    /\ UNCHANGED <<status, token, reading, beating, halt>>

\* DisposeAsync stops the run, and goes on when its last session is disposed.
Halt ==
    /\ halt = "no" /\ halt' = "stopping"
    /\ Stop \/ UNCHANGED <<status, token, reading, beating, disposed>>

Finish ==
    /\ halt = "stopping" /\ disposed
    /\ halt' = "done"
    /\ UNCHANGED <<status, token, reading, beating, disposed>>

Next ==
    \/ Open \/ Admit \/ Fail \/ Lose \/ (Stop /\ UNCHANGED halt)
    \/ ReceiverEnds \/ HeartbeatEnds \/ Dispose \/ Halt \/ Finish

Spec == Init /\ [][Next]_vars
=============================================================================
