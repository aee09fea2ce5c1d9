--------------------------- MODULE SessionProofs ----------------------------
(***************************************************************************)
(* What Supervisor, Requests and Events may rely on because each of them   *)
(* implements Session.                                                     *)
(***************************************************************************)
EXTENDS Session, TLAPS

\* A disposed session has no task left that could touch the next one, an open
\* one has a live token, and a client that is disposed has no session.
Promise ==
    /\ status \in {"opening", "open", "closed"}
    /\ disposed => status = "closed" /\ token /\ ~reading /\ ~beating
    /\ status = "open" => ~token
    /\ halt = "done" => disposed

\* One session's life: it goes back to no earlier status, its token stays
\* cancelled and its tasks stay ended until the next one is opened, which only
\* a disposed one allows; and nothing follows the disposal of the client.
OneLife ==
    /\ token /\ ~token' => disposed
    /\ reading' /\ ~reading => disposed
    /\ beating' /\ ~beating => status = "opening" /\ ~token
    /\ status = "closed" /\ status' # "closed" => disposed /\ halt = "no"
    /\ halt # "done"

\* A failed login can only cancel the token and end the receiver.
LEMMA FailEnds ==
    ASSUME Fail
    PROVE  (token => token') /\ (reading' => reading)
<1>1. token => token'
  <2>1. CASE token' = token
    BY <2>1
  <2>2. CASE token' = TRUE
    BY <2>2
  <2> QED
    BY <2>1, <2>2 DEF Fail
<1>2. reading' => reading
  <2>1. CASE reading' = reading
    BY <2>1
  <2>2. CASE reading' = FALSE
    BY <2>2
  <2> QED
    BY <2>1, <2>2 DEF Fail
<1> QED
  BY <1>1, <1>2

\* The promise holds whichever of the three modules takes the steps
\* (WKIM.cs:178-186, 206-217, 238-250, 497-513).
THEOREM Promised == Spec => []Promise
<1>1. Init => Promise
  BY DEF Init, Promise
<1>2. Promise /\ [Next]_vars => Promise'
  <2> SUFFICES ASSUME Promise, [Next]_vars
               PROVE  Promise'
    OBVIOUS
  <2>1. CASE Open
    BY <2>1 DEF Promise, Open
  <2>2. CASE Admit \/ Lose
    BY <2>2 DEF Promise, Admit, Lose
  <2>7. CASE Fail
    BY <2>7, FailEnds DEF Promise, Fail
  <2>3. CASE (Stop /\ UNCHANGED halt) \/ Halt
    BY <2>3 DEF Promise, Stop, Halt
  <2>4. CASE ReceiverEnds \/ HeartbeatEnds
    BY <2>4 DEF Promise, ReceiverEnds, HeartbeatEnds
  <2>5. CASE Dispose \/ Finish
    BY <2>5 DEF Promise, Dispose, Finish
  <2>6. CASE UNCHANGED vars
    BY <2>6 DEF Promise, vars
  <2> QED
    BY <2>1, <2>2, <2>3, <2>4, <2>5, <2>6, <2>7 DEF Next
<1> QED
  BY <1>1, <1>2, PTL DEF Spec

\* Sessions do not overlap, and the disposal of the client is the end.
THEOREM Sequential == Spec => [][OneLife]_vars
<1>1. Promise /\ [Next]_vars => [OneLife]_vars
  <2> SUFFICES ASSUME Promise, Next
               PROVE  OneLife
    OBVIOUS
  <2>1. CASE Open
    BY <2>1 DEF Promise, Open, OneLife
  <2>2. CASE Admit \/ Lose
    BY <2>2 DEF Promise, Admit, Lose, OneLife
  <2>7. CASE Fail
    BY <2>7, FailEnds DEF Promise, Fail, OneLife
  <2>3. CASE (Stop /\ UNCHANGED halt) \/ Halt
    BY <2>3 DEF Promise, Stop, Halt, OneLife
  <2>4. CASE ReceiverEnds \/ HeartbeatEnds
    BY <2>4 DEF Promise, ReceiverEnds, HeartbeatEnds, OneLife
  <2>5. CASE Dispose \/ Finish
    BY <2>5 DEF Promise, Dispose, Finish, OneLife
  <2> QED
    BY <2>1, <2>2, <2>3, <2>4, <2>5, <2>7 DEF Next
<1> QED
  BY <1>1, Promised, PTL DEF Spec
=============================================================================
