-------------------------- MODULE SupervisorProofs --------------------------
(***************************************************************************)
(* Proofs about Supervisor for every set of callers and every value of its *)
(* constants.  IInv is the inductive invariant; its parts say, for every   *)
(* point of RunAsync, what the fields under _gate look like there.         *)
(***************************************************************************)
EXTENDS Supervisor, TLAPS

InTry == {"opening", "auth", "admit", "online", "closing"}

\* The completions: those replaced are settled, and so is the current one of
\* a run that has ended.
CompletionInv ==
    /\ \A i \in 1..MaxReady : i < ready => outcome[i] # "pending"
    /\ pc = "exiting" => outcome[ready] # "pending"
    /\ pc = "idle" /\ ready > 0 => outcome[ready] # "pending"
    /\ pc # "idle" => ready > 0
    /\ authenticated /\ pc \in {"online", "closing"}
          => outcome[ready] # "pending"

\* A waiting ConnectAsync waits on a completion that exists, a waiting
\* DisconnectAsync on a run that exists.
CallInv ==
    \A c \in Callers :
        /\ call[c].kind = "connect" => call[c].on \in 1..ready
        /\ call[c].kind = "disconnect" => call[c].on \in 0..runId

\* The local authenticated, and the bound under which a session is accepted.
AuthInv ==
    /\ pc \in {"publish", "opening", "auth", "admit"} => ~authenticated
    /\ pc = "online" => authenticated
    /\ authenticated /\ pc \in {"online", "closing"} => everConnected
    /\ pc \in {"publish", "opening"} => reply = "none"
    /\ pc \in {"admit", "online"} => reply = "accepted"
    /\ pc = "closing" /\ authenticated => reply = "accepted"
    /\ reply = "accepted" /\ pc \in InTry => ready < MaxReady
    /\ pc = "closing" /\ ~authenticated /\ ~Cancelled => outcome[ready] # "ok"

\* The session is published from Publish to Unpublish, and live until it is
\* stopped by the run itself or by a cancelled lifetime.
SessionInv ==
    /\ session <=> pc \in InTry \cup {"stop", "joining"}
    /\ pc \in InTry \cup {"publish"} /\ ~Cancelled => sess = "live"
    /\ session => sess \in {"live", "stopped"}
    /\ pc = "publish" => sess \in {"live", "stopped"}

\* A run has a lifetime, and the disposal ends only after the run.
LifetimeInv ==
    /\ pc # "idle" => lifetime \in {"live", "cancelled"}
    /\ disposal \in {"draining", "releasing", "done"} => pc = "idle"

\* What the retry counter stands for: the sessions opened since the last
\* login, plus the one that is about to be opened.
RetryInv ==
    /\ ~AutoReconnect => attempt = 0
    /\ ~everConnected => opened <= 1
    /\ ~everConnected /\ pc = "loop" => opened = 0
    /\ pc = "backoff" => everConnected
    /\ everConnected => opened <= attempt
    /\ everConnected /\ pc \in {"loop", "backoff"} => opened < attempt

\* Everything but the types.
RunInv ==
    /\ CompletionInv /\ CallInv /\ AuthInv /\ SessionInv
    /\ LifetimeInv /\ RetryInv
    /\ NoStaleSuccess /\ ConnectedOnlyWhileLive /\ NoTaskOutlivesSession
    /\ StoppedRunStaysStopped

IInv == TypeOK /\ RunInv

-----------------------------------------------------------------------------
\* The initial state satisfies the invariant.
LEMMA InitIInv ==
    ASSUME Init
    PROVE  IInv
<1>1. TypeOK
  <2>1. /\ stopping \in BOOLEAN /\ connected \in BOOLEAN
        /\ session \in BOOLEAN /\ everConnected \in BOOLEAN
        /\ authenticated \in BOOLEAN /\ permanent \in BOOLEAN
    BY Zenon DEF Init
  <2>2. /\ outcome \in [0..MaxReady -> Completions]
        /\ call \in [Callers -> Calls]
    BY ReadyAssumption DEF Init, Completions, Calls, Idle
  <2>3. /\ \A i \in 0..MaxReady : i > ready => outcome[i] = "pending"
        /\ \A c \in Callers : call[c].on <= ready
    BY ReadyAssumption DEF Init, Idle
  <2> QED
    BY <2>1, <2>2, <2>3, AttemptsAssumption, ReadyAssumption
    DEF Init, TypeOK, Locations
<1>2. CompletionInv /\ CallInv /\ AuthInv /\ SessionInv
  BY ReadyAssumption
  DEF Init, CompletionInv, CallInv, AuthInv, SessionInv, InTry, Idle
<1>3. LifetimeInv /\ RetryInv
  BY DEF Init, LifetimeInv, RetryInv
<1>4. /\ NoStaleSuccess /\ ConnectedOnlyWhileLive /\ NoTaskOutlivesSession
      /\ StoppedRunStaysStopped
  BY ReadyAssumption
  DEF Init, NoStaleSuccess, ConnectedOnlyWhileLive, NoTaskOutlivesSession,
      StoppedRunStaysStopped, Cancelled, RunCompleted, Idle
<1> QED
  BY <1>1, <1>2, <1>3, <1>4 DEF IInv, RunInv

\* Every step preserves the types.  AuthInv says that a session is accepted
\* only while one more completion can be created.
LEMMA TypeStep ==
    ASSUME TypeOK, AuthInv, [Next]_vars
    PROVE  TypeOK'
<1> USE AttemptsAssumption, ReadyAssumption
    DEF TypeOK, AuthInv, InTry, Locations, Before, Closed, Idle, Calls,
        Completions, gateVars, runVars, sessVars, userVars, callVars, locals,
        taskVars
<1>1. ASSUME NEW c \in Callers, StartRun(c) PROVE TypeOK'
  <2>1. everConnected' \in BOOLEAN
    BY <1>1, Zenon DEF StartRun, MayConnect, Begin
  <2> QED
    BY <1>1, <2>1, SMT DEF StartRun, MayConnect, Begin
<1>2. ASSUME NEW c \in Callers, JoinRun(c) PROVE TypeOK'
  BY <1>2 DEF JoinRun, Begin
<1>3. ASSUME NEW c \in Callers, ConnectReturns(c) PROVE TypeOK'
  BY <1>3 DEF ConnectReturns, Return
<1>4. ASSUME NEW c \in Callers, ConnectCanceled(c) PROVE TypeOK'
  BY <1>4 DEF ConnectCanceled, Return
<1>5. ASSUME NEW c \in Callers, Disconnect(c) PROVE TypeOK'
  <2>1. stopping' \in BOOLEAN /\ connected' \in BOOLEAN
    BY <1>5, Zenon DEF Disconnect, Stop, Begin
  <2>2. call' \in [Callers -> Calls] /\ \A d \in Callers : call'[d].on <= ready
    BY <1>5, SMT DEF Disconnect, Begin
  <2> QED
    BY <1>5, <2>1, <2>2, SMT DEF Disconnect, Stop
<1>6. ASSUME NEW c \in Callers, DisconnectReturns(c) PROVE TypeOK'
  <2>1. stopping' \in BOOLEAN
    BY <1>6, Zenon DEF DisconnectReturns, Return
  <2> QED
    BY <1>6, <2>1, SMT DEF DisconnectReturns, Return
<1>7. ASSUME NEW c \in Callers, Dispose(c) PROVE TypeOK'
  BY <1>7 DEF Dispose, Begin
<1>8. ASSUME NEW c \in Callers, DisposeReturns(c) PROVE TypeOK'
  BY <1>8 DEF DisposeReturns, Return
<1>9. CASE DisposeStop
  <2>1. stopping' \in BOOLEAN /\ connected' \in BOOLEAN
    BY <1>9, Zenon DEF DisposeStop, Stop
  <2> QED
    BY <1>9, <2>1, SMT DEF DisposeStop, Stop
<1>10. CASE DisposeStopped
  <2>1. stopping' \in BOOLEAN
    BY <1>10, Zenon DEF DisposeStopped
  <2> QED
    BY <1>10, <2>1, SMT DEF DisposeStopped
<1>11. CASE DisposeLifetime
  BY <1>11 DEF DisposeLifetime
<1>12. CASE DisposeDone
  BY <1>12 DEF DisposeDone
<1>13. CASE LoopExit
  BY <1>13 DEF LoopExit
<1>14. CASE NewSession
  <2>1. authenticated' \in BOOLEAN /\ permanent' \in BOOLEAN
    BY <1>14, Zenon DEF NewSession
  <2> QED
    BY <1>14, <2>1, SMT DEF NewSession
<1>15. CASE Publish
  BY <1>15 DEF Publish
<1>16. CASE SocketOpened
  BY <1>16 DEF SocketOpened
<1>17. CASE OpenFailed
  <2>1. permanent' \in BOOLEAN
    BY <1>17, Zenon DEF OpenFailed, Fail
  <2> QED
    BY <1>17, <2>1, SMT DEF OpenFailed, Fail
<1>18. CASE AuthRefused
  BY <1>18 DEF AuthRefused, Fail
<1>19. CASE AuthKicked
  BY <1>19 DEF AuthKicked, Fail
<1>20. CASE AuthFailed
  <2>1. permanent' \in BOOLEAN
    BY <1>20, Zenon DEF AuthFailed, Fail
  <2> QED
    BY <1>20, <2>1, SMT DEF AuthFailed, Fail
<1>21. CASE AuthAccepted
  BY <1>21 DEF AuthAccepted
<1>22. CASE Admit
  BY <1>22 DEF Admit, MayAdmit, TrySet
<1>23. CASE AdmitOverflow
  <2>1. connected' \in BOOLEAN /\ permanent' \in BOOLEAN
    BY <1>23, Zenon DEF AdmitOverflow, MayAdmit
  <2> QED
    BY <1>23, <2>1, SMT DEF AdmitOverflow, MayAdmit
<1>24. CASE AdmitCancelled
  <2>1. permanent' \in BOOLEAN
    BY <1>24, Zenon DEF AdmitCancelled, Fail
  <2> QED
    BY <1>24, <2>1, SMT DEF AdmitCancelled, Fail
<1>25. CASE SessionLost
  BY <1>25 DEF SessionLost, Fail
<1>26. CASE CloseSession
  <2>1. connected' \in BOOLEAN
    BY <1>26, Zenon DEF CloseSession, RenewReady
  <2> QED
    BY <1>26, <2>1, SMT DEF CloseSession, RenewReady
<1>27. CASE StopSession
  BY <1>27 DEF StopSession
<1>28. CASE Unpublish
  <2>1. session' \in BOOLEAN
    BY <1>28, Zenon DEF Unpublish, TasksJoined
  <2> QED
    BY <1>28, <2>1, SMT DEF Unpublish, TasksJoined
<1>29. CASE DisposeSession
  BY <1>29 DEF DisposeSession
<1>30. CASE GiveUp
  BY <1>30 DEF GiveUp
<1>31. CASE Retry
  BY <1>31 DEF Retry, MayRetry
<1>32. CASE BackoffEnds
  BY <1>32 DEF BackoffEnds
<1>33. CASE Final
  <2>1. connected' \in BOOLEAN
    BY <1>33, Zenon DEF Final, FinalOutcome, TrySet
  <2> QED
    BY <1>33, <2>1, SMT DEF Final, FinalOutcome, TrySet
<1>34. CASE Exit
  BY <1>34 DEF Exit
<1>35. ASSUME NEW r \in {"accepted", "refused"}, Reply(r) PROVE TypeOK'
  BY <1>35 DEF Reply
<1>36. ASSUME NEW how \in {"lost", "kick"}, ReceiverEnds(how) PROVE TypeOK'
  BY <1>36 DEF ReceiverEnds, First
<1>37. CASE HeartbeatEnds
  BY <1>37 DEF HeartbeatEnds, First
<1>38. CASE UNCHANGED vars
  BY <1>38 DEF vars
<1> QED
  BY <1>1, <1>2, <1>3, <1>4, <1>5, <1>6, <1>7, <1>8, <1>9, <1>10, <1>11,
     <1>12, <1>13, <1>14, <1>15, <1>16, <1>17, <1>18, <1>19, <1>20, <1>21,
     <1>22, <1>23, <1>24, <1>25, <1>26, <1>27, <1>28, <1>29, <1>30, <1>31,
     <1>32, <1>33, <1>34, <1>35, <1>36, <1>37, <1>38
  DEF Next, Application, Returns, Disposer, RunAsync, Tasks

\* Every step preserves the rest of the invariant.
LEMMA RunStep ==
    ASSUME TypeOK, RunInv, TypeOK', [Next]_vars
    PROVE  RunInv'
<1> USE AttemptsAssumption, ReconnectAssumption, ReadyAssumption
    DEF TypeOK, RunInv, CompletionInv, CallInv, AuthInv, SessionInv, LifetimeInv,
        RetryInv, NoStaleSuccess, ConnectedOnlyWhileLive,
        NoTaskOutlivesSession, StoppedRunStaysStopped,
        Cancelled, SessionDown, RunCompleted, InTry,
        gateVars, runVars, sessVars, userVars, callVars, locals, taskVars,
        Idle
<1>1. ASSUME NEW c \in Callers, StartRun(c) PROVE RunInv'
  BY <1>1 DEF StartRun, MayConnect, Begin
<1>2. ASSUME NEW c \in Callers, JoinRun(c) PROVE RunInv'
  BY <1>2 DEF JoinRun, Begin
<1>3. ASSUME NEW c \in Callers, ConnectReturns(c) PROVE RunInv'
  BY <1>3 DEF ConnectReturns, Return
<1>4. ASSUME NEW c \in Callers, ConnectCanceled(c) PROVE RunInv'
  BY <1>4 DEF ConnectCanceled, Return
<1>5. ASSUME NEW c \in Callers, Disconnect(c) PROVE RunInv'
  BY <1>5 DEF Disconnect, Stop, Begin
<1>6. ASSUME NEW c \in Callers, DisconnectReturns(c) PROVE RunInv'
  BY <1>6 DEF DisconnectReturns, Return
<1>7. ASSUME NEW c \in Callers, Dispose(c) PROVE RunInv'
  BY <1>7 DEF Dispose, Begin
<1>8. ASSUME NEW c \in Callers, DisposeReturns(c) PROVE RunInv'
  BY <1>8 DEF DisposeReturns, Return
<1>9. CASE DisposeStop
  BY <1>9 DEF DisposeStop, Stop
<1>10. CASE DisposeStopped
  BY <1>10 DEF DisposeStopped
<1>11. CASE DisposeLifetime
  BY <1>11 DEF DisposeLifetime
<1>12. CASE DisposeDone
  BY <1>12 DEF DisposeDone
<1>13. CASE LoopExit
  BY <1>13 DEF LoopExit
<1>14. CASE NewSession
  BY <1>14 DEF NewSession
<1>15. CASE Publish
  BY <1>15 DEF Publish
<1>16. CASE SocketOpened
  BY <1>16 DEF SocketOpened
<1>17. CASE OpenFailed
  BY <1>17 DEF OpenFailed, Fail
<1>18. CASE AuthRefused
  BY <1>18 DEF AuthRefused, Fail
<1>19. CASE AuthKicked
  BY <1>19 DEF AuthKicked, Fail
<1>20. CASE AuthFailed
  BY <1>20 DEF AuthFailed, Fail
<1>21. CASE AuthAccepted
  BY <1>21 DEF AuthAccepted
<1>22. CASE Admit
  BY <1>22 DEF Admit, MayAdmit, TrySet
<1>23. CASE AdmitOverflow
  BY <1>23 DEF AdmitOverflow, MayAdmit
<1>24. CASE AdmitCancelled
  BY <1>24 DEF AdmitCancelled, Fail
<1>25. CASE SessionLost
  BY <1>25 DEF SessionLost, Fail
<1>26. CASE CloseSession
  BY <1>26 DEF CloseSession, RenewReady
<1>27. CASE StopSession
  BY <1>27 DEF StopSession
<1>28. CASE Unpublish
  BY <1>28 DEF Unpublish, TasksJoined
<1>29. CASE DisposeSession
  BY <1>29 DEF DisposeSession
<1>30. CASE GiveUp
  BY <1>30 DEF GiveUp
<1>31. CASE Retry
  BY <1>31 DEF Retry, MayRetry
<1>32. CASE BackoffEnds
  BY <1>32 DEF BackoffEnds
<1>33. CASE Final
  BY <1>33 DEF Final, FinalOutcome, TrySet
<1>34. CASE Exit
  BY <1>34 DEF Exit
<1>35. ASSUME NEW r \in {"accepted", "refused"}, Reply(r) PROVE RunInv'
  BY <1>35 DEF Reply
<1>36. ASSUME NEW how \in {"lost", "kick"}, ReceiverEnds(how) PROVE RunInv'
  BY <1>36 DEF ReceiverEnds, First
<1>37. CASE HeartbeatEnds
  BY <1>37 DEF HeartbeatEnds, First
<1>38. CASE UNCHANGED vars
  BY <1>38 DEF vars
<1> QED
  BY <1>1, <1>2, <1>3, <1>4, <1>5, <1>6, <1>7, <1>8, <1>9, <1>10, <1>11,
     <1>12, <1>13, <1>14, <1>15, <1>16, <1>17, <1>18, <1>19, <1>20, <1>21,
     <1>22, <1>23, <1>24, <1>25, <1>26, <1>27, <1>28, <1>29, <1>30, <1>31,
     <1>32, <1>33, <1>34, <1>35, <1>36, <1>37, <1>38
  DEF Next, Application, Returns, Disposer, RunAsync, Tasks

\* The inductive invariant is one.
THEOREM Invariance == Spec => []IInv
<1>1. Init => IInv
  BY InitIInv
<1>2. IInv /\ [Next]_vars => IInv'
  BY TypeStep, RunStep DEF IInv, RunInv
<1> QED
  BY <1>1, <1>2, PTL DEF Spec

-----------------------------------------------------------------------------
\* Type correctness: in particular the retry counter never exceeds
\* MaxReconnectAttempts, and no completion is settled, or waited for, before
\* it is created.
THEOREM TypeCorrect == Spec => []TypeOK
<1>1. IInv => TypeOK
  BY DEF IInv
<1> QED
  BY <1>1, Invariance, PTL

\* No caller of ConnectAsync is left waiting on a completion that nobody
\* settles, however _ready is replaced and whoever disconnects.
THEOREM Safe_NoOrphan == Spec => []NoOrphan
<1>1. IInv => NoOrphan
  BY ReadyAssumption
  DEF IInv, RunInv, CompletionInv, CallInv, NoOrphan, TypeOK, Calls
<1> QED
  BY <1>1, Invariance, PTL

\* A caller that joins a run nobody has stopped is not given the success of a
\* lost session.
THEOREM Safe_NoStaleSuccess == Spec => []NoStaleSuccess
<1>1. IInv => NoStaleSuccess
  BY DEF IInv, RunInv
<1> QED
  BY <1>1, Invariance, PTL

\* IsConnected is true only for a live, published session, whose Stop() under
\* _gate is safe because a published session is never disposed.
THEOREM Safe_Session == Spec => []ConnectedOnlyWhileLive
<1>1. IInv => ConnectedOnlyWhileLive
  BY DEF IInv, RunInv
<1> QED
  BY <1>1, Invariance, PTL

\* The loop opens a session only after the tasks of the last one are joined.
THEOREM Safe_NoTaskOutlivesSession == Spec => []NoTaskOutlivesSession
<1>1. IInv => NoTaskOutlivesSession
  BY DEF IInv, RunInv
<1> QED
  BY <1>1, Invariance, PTL

\* At most MaxReconnectAttempts sessions are opened between two logins, none
\* without AutoReconnect, and one before the first login.
THEOREM Safe_RetryBudget == Spec => []RetryBudget
<1>1. IInv => RetryBudget
  BY AttemptsAssumption, ReconnectAssumption
  DEF IInv, RunInv, RetryInv, TypeOK, RetryBudget
<1> QED
  BY <1>1, Invariance, PTL

\* Stopping wins: a run that a DisconnectAsync waits for is never revived,
\* and after the disposal has waited for it nothing runs or is connected.
THEOREM Safe_Stop == Spec => []StoppedRunStaysStopped
<1>1. IInv => StoppedRunStaysStopped
  BY DEF IInv, RunInv
<1> QED
  BY <1>1, Invariance, PTL

-----------------------------------------------------------------------------
\* The initial state of the supervisor is one of the lifecycle.
LEMMA RefinementInit ==
    ASSUME Init
    PROVE  Abstract!Init
<1> QED
  BY DEF Init, Abstract!Init, Phase

\* Every step of the supervisor is a step of the lifecycle or a stutter.
LEMMA RefinementStep ==
    ASSUME IInv, [Next]_vars
    PROVE  [Abstract!Next]_Abstract!vars
<1> USE ReconnectAssumption, AttemptsAssumption
    DEF IInv, RunInv, TypeOK, AuthInv, LifetimeInv, RetryInv,
        StoppedRunStaysStopped, Cancelled, SessionDown, RunCompleted,
        InTry, Locations, Before, Closed,
        gateVars, runVars, sessVars, userVars, callVars, locals, taskVars,
        Phase, Budget, Abstract!vars,
        Abstract!Next, Abstract!Connect, Abstract!Login, Abstract!Lose,
        Abstract!Retry, Abstract!GiveUp, Abstract!Stop, Abstract!Settle
<1>1. ASSUME NEW c \in Callers, StartRun(c) PROVE [Abstract!Next]_Abstract!vars
  BY <1>1 DEF StartRun, MayConnect, Begin
<1>2. ASSUME NEW c \in Callers, JoinRun(c) PROVE [Abstract!Next]_Abstract!vars
  BY <1>2 DEF JoinRun, Begin
<1>3. ASSUME NEW c \in Callers, ConnectReturns(c) PROVE [Abstract!Next]_Abstract!vars
  BY <1>3 DEF ConnectReturns, Return
<1>4. ASSUME NEW c \in Callers, ConnectCanceled(c) PROVE [Abstract!Next]_Abstract!vars
  BY <1>4 DEF ConnectCanceled, Return
<1>5. ASSUME NEW c \in Callers, Disconnect(c) PROVE [Abstract!Next]_Abstract!vars
  BY <1>5 DEF Disconnect, Stop, Begin
<1>6. ASSUME NEW c \in Callers, DisconnectReturns(c) PROVE [Abstract!Next]_Abstract!vars
  BY <1>6 DEF DisconnectReturns, Return
<1>7. ASSUME NEW c \in Callers, Dispose(c) PROVE [Abstract!Next]_Abstract!vars
  BY <1>7 DEF Dispose, Begin
<1>8. ASSUME NEW c \in Callers, DisposeReturns(c) PROVE [Abstract!Next]_Abstract!vars
  BY <1>8 DEF DisposeReturns, Return
<1>9. CASE DisposeStop
  BY <1>9 DEF DisposeStop, Stop
<1>10. CASE DisposeStopped
  BY <1>10 DEF DisposeStopped
<1>11. CASE DisposeLifetime
  BY <1>11 DEF DisposeLifetime
<1>12. CASE DisposeDone
  BY <1>12 DEF DisposeDone
<1>13. CASE LoopExit
  BY <1>13 DEF LoopExit
<1>14. CASE NewSession
  BY <1>14 DEF NewSession
<1>15. CASE Publish
  BY <1>15 DEF Publish
<1>16. CASE SocketOpened
  BY <1>16 DEF SocketOpened
<1>17. CASE OpenFailed
  BY <1>17 DEF OpenFailed, Fail
<1>18. CASE AuthRefused
  BY <1>18 DEF AuthRefused, Fail
<1>19. CASE AuthKicked
  BY <1>19 DEF AuthKicked, Fail
<1>20. CASE AuthFailed
  BY <1>20 DEF AuthFailed, Fail
<1>21. CASE AuthAccepted
  BY <1>21 DEF AuthAccepted
<1>22. CASE Admit
  BY <1>22 DEF Admit, MayAdmit, TrySet
<1>23. CASE AdmitOverflow
  BY <1>23 DEF AdmitOverflow, MayAdmit
<1>24. CASE AdmitCancelled
  BY <1>24 DEF AdmitCancelled, Fail
<1>25. CASE SessionLost
  BY <1>25 DEF SessionLost, Fail
<1>26. CASE CloseSession
  BY <1>26 DEF CloseSession, RenewReady
<1>27. CASE StopSession
  BY <1>27 DEF StopSession
<1>28. CASE Unpublish
  BY <1>28 DEF Unpublish, TasksJoined
<1>29. CASE DisposeSession
  BY <1>29 DEF DisposeSession
<1>30. CASE GiveUp
  BY <1>30 DEF GiveUp
<1>31. CASE Retry
  BY <1>31 DEF Retry, MayRetry
<1>32. CASE BackoffEnds
  BY <1>32 DEF BackoffEnds
<1>33. CASE Final
  BY <1>33 DEF Final, FinalOutcome, TrySet
<1>34. CASE Exit
  BY <1>34 DEF Exit
<1>35. ASSUME NEW r \in {"accepted", "refused"}, Reply(r) PROVE [Abstract!Next]_Abstract!vars
  BY <1>35 DEF Reply
<1>36. ASSUME NEW how \in {"lost", "kick"}, ReceiverEnds(how) PROVE [Abstract!Next]_Abstract!vars
  BY <1>36 DEF ReceiverEnds, First
<1>37. CASE HeartbeatEnds
  BY <1>37 DEF HeartbeatEnds, First
<1>38. CASE UNCHANGED vars
  BY <1>38 DEF vars
<1> QED
  BY <1>1, <1>2, <1>3, <1>4, <1>5, <1>6, <1>7, <1>8, <1>9, <1>10, <1>11,
     <1>12, <1>13, <1>14, <1>15, <1>16, <1>17, <1>18, <1>19, <1>20, <1>21,
     <1>22, <1>23, <1>24, <1>25, <1>26, <1>27, <1>28, <1>29, <1>30, <1>31,
     <1>32, <1>33, <1>34, <1>35, <1>36, <1>37, <1>38
  DEF Next, Application, Returns, Disposer, RunAsync, Tasks

\* The supervisor implements the safety part of the lifecycle, for every
\* number of callers, attempts and completions.
THEOREM Refinement ==
    Spec => Abstract!Init /\ [][Abstract!Next]_Abstract!vars
<1> QED
  BY RefinementInit, RefinementStep, Invariance, PTL DEF Spec
-----------------------------------------------------------------------------
\* What the interface of a session needs beside IInv: which task has ended
\* first, that no task of an unopened session runs, and where in RunAsync the
\* current session is stopped and disposed.
TaskInv ==
    /\ first = "receiver" => receiver \in {"lost", "kick"}
    /\ first = "heartbeat" => heartbeat = "ended"
    /\ pc \in {"publish", "opening"} => receiver = "none"
    /\ pc \in {"publish", "opening", "auth", "admit"} => heartbeat = "none"
    /\ pc \in {"auth", "admit", "online"} /\ first = "none"
          => receiver = "running"
    /\ pc = "online" /\ first = "none" => heartbeat = "running"
    /\ pc = "online" => receiver # "none" /\ heartbeat # "none"
    /\ pc = "closing" =>
          IF authenticated THEN first # "none" ELSE heartbeat = "none"
    /\ pc \in InTry \cup {"publish", "stop"} => sess \in {"live", "stopped"}
    /\ pc \in {"joining", "disposing"} => sess = "stopped"
    /\ pc \in {"reporting", "backoff", "loop", "final", "exiting", "idle"}
          => sess \in {"none", "disposed"}

\* The initial state satisfies it.
LEMMA TaskInit ==
    ASSUME Init
    PROVE  TaskInv
<1> QED
  BY DEF Init, TaskInv, InTry

\* Every step preserves it.
LEMMA TaskStep ==
    ASSUME IInv, TaskInv, [Next]_vars
    PROVE  TaskInv'
<1> USE DEF IInv, RunInv, TypeOK, AuthInv, SessionInv, LifetimeInv,
        NoTaskOutlivesSession, TaskInv, Cancelled, RunCompleted, InTry,
        gateVars, runVars, sessVars, userVars, callVars, locals, taskVars
<1>1. ASSUME NEW c \in Callers, StartRun(c) PROVE TaskInv'
  BY <1>1 DEF StartRun, MayConnect, Begin
<1>2. ASSUME NEW c \in Callers, JoinRun(c) PROVE TaskInv'
  BY <1>2 DEF JoinRun, Begin
<1>3. ASSUME NEW c \in Callers, ConnectReturns(c) PROVE TaskInv'
  BY <1>3 DEF ConnectReturns, Return
<1>4. ASSUME NEW c \in Callers, ConnectCanceled(c) PROVE TaskInv'
  BY <1>4 DEF ConnectCanceled, Return
<1>5. ASSUME NEW c \in Callers, Disconnect(c) PROVE TaskInv'
  BY <1>5 DEF Disconnect, Stop, Begin
<1>6. ASSUME NEW c \in Callers, DisconnectReturns(c) PROVE TaskInv'
  BY <1>6 DEF DisconnectReturns, Return
<1>7. ASSUME NEW c \in Callers, Dispose(c) PROVE TaskInv'
  BY <1>7 DEF Dispose, Begin
<1>8. ASSUME NEW c \in Callers, DisposeReturns(c) PROVE TaskInv'
  BY <1>8 DEF DisposeReturns, Return
<1>9. CASE DisposeStop
  BY <1>9 DEF DisposeStop, Stop
<1>10. CASE DisposeStopped
  BY <1>10 DEF DisposeStopped
<1>11. CASE DisposeLifetime
  BY <1>11 DEF DisposeLifetime
<1>12. CASE DisposeDone
  BY <1>12 DEF DisposeDone
<1>13. CASE LoopExit
  BY <1>13 DEF LoopExit
<1>14. CASE NewSession
  BY <1>14 DEF NewSession
<1>15. CASE Publish
  BY <1>15 DEF Publish
<1>16. CASE SocketOpened
  BY <1>16 DEF SocketOpened
<1>17. CASE OpenFailed
  BY <1>17 DEF OpenFailed, Fail
<1>18. CASE AuthRefused
  BY <1>18 DEF AuthRefused, Fail
<1>19. CASE AuthKicked
  BY <1>19 DEF AuthKicked, Fail
<1>20. CASE AuthFailed
  BY <1>20 DEF AuthFailed, Fail
<1>21. CASE AuthAccepted
  BY <1>21 DEF AuthAccepted
<1>22. CASE Admit
  BY <1>22 DEF Admit, MayAdmit, TrySet
<1>23. CASE AdmitOverflow
  BY <1>23 DEF AdmitOverflow, MayAdmit
<1>24. CASE AdmitCancelled
  BY <1>24 DEF AdmitCancelled, Fail
<1>25. CASE SessionLost
  BY <1>25 DEF SessionLost, Fail
<1>26. CASE CloseSession
  BY <1>26 DEF CloseSession, RenewReady
<1>27. CASE StopSession
  BY <1>27 DEF StopSession
<1>28. CASE Unpublish
  BY <1>28 DEF Unpublish, TasksJoined
<1>29. CASE DisposeSession
  BY <1>29 DEF DisposeSession
<1>30. CASE GiveUp
  BY <1>30 DEF GiveUp
<1>31. CASE Retry
  BY <1>31 DEF Retry, MayRetry
<1>32. CASE BackoffEnds
  BY <1>32 DEF BackoffEnds
<1>33. CASE Final
  BY <1>33 DEF Final, FinalOutcome, TrySet
<1>34. CASE Exit
  BY <1>34 DEF Exit
<1>35. ASSUME NEW r \in {"accepted", "refused"}, Reply(r) PROVE TaskInv'
  BY <1>35 DEF Reply
<1>36. ASSUME NEW how \in {"lost", "kick"}, ReceiverEnds(how) PROVE TaskInv'
  BY <1>36 DEF ReceiverEnds, First
<1>37. CASE HeartbeatEnds
  BY <1>37 DEF HeartbeatEnds, First
<1>38. CASE UNCHANGED vars
  BY <1>38 DEF vars
<1> QED
  BY <1>1, <1>2, <1>3, <1>4, <1>5, <1>6, <1>7, <1>8, <1>9, <1>10, <1>11,
     <1>12, <1>13, <1>14, <1>15, <1>16, <1>17, <1>18, <1>19, <1>20, <1>21,
     <1>22, <1>23, <1>24, <1>25, <1>26, <1>27, <1>28, <1>29, <1>30, <1>31,
     <1>32, <1>33, <1>34, <1>35, <1>36, <1>37, <1>38
  DEF Next, Application, Returns, Disposer, RunAsync, Tasks

\* The initial state of the supervisor is one of the interface.
LEMMA SessionInit ==
    ASSUME Init
    PROVE  Interface!Init
<1> QED
  BY DEF Init, Interface!Init, Status, Reading, Halt, SessionDown, Cancelled

\* Every step of the supervisor is a step of the interface or a stutter.
LEMMA SessionStep ==
    ASSUME IInv, TaskInv, [Next]_vars
    PROVE  [Interface!Next]_Interface!vars
<1> USE DEF IInv, RunInv, TypeOK, AuthInv, SessionInv, LifetimeInv,
        NoTaskOutlivesSession, ConnectedOnlyWhileLive, StoppedRunStaysStopped,
        TaskInv, Cancelled, SessionDown, RunCompleted, InTry,
        gateVars, runVars, sessVars, userVars, callVars, locals, taskVars,
        Status, Reading, Halt, Interface!vars, Interface!Next,
        Interface!Open, Interface!Admit, Interface!Fail, Interface!Lose,
        Interface!Stop, Interface!ReceiverEnds, Interface!HeartbeatEnds,
        Interface!Dispose, Interface!Halt, Interface!Finish
<1>1. ASSUME NEW c \in Callers, StartRun(c)
           PROVE  [Interface!Next]_Interface!vars
  <2>1. pc = "idle" /\ pc' = "loop" /\ connected' = connected
    BY <1>1 DEF StartRun
  <2>2. /\ sess' = sess /\ receiver' = receiver /\ heartbeat' = heartbeat
        /\ disposal' = disposal
    BY <1>1 DEF StartRun
  <2>3. SessionDown /\ SessionDown'
    BY <2>1, <2>2
  <2>4. UNCHANGED <<Status, Reading, Halt>>
    BY <2>1, <2>2
  <2> QED
    BY <2>2, <2>3, <2>4
<1>2. ASSUME NEW c \in Callers, JoinRun(c)
           PROVE  [Interface!Next]_Interface!vars
  BY <1>2 DEF JoinRun, Begin
<1>3. ASSUME NEW c \in Callers, ConnectReturns(c)
           PROVE  [Interface!Next]_Interface!vars
  BY <1>3 DEF ConnectReturns, Return
<1>4. ASSUME NEW c \in Callers, ConnectCanceled(c)
           PROVE  [Interface!Next]_Interface!vars
  BY <1>4 DEF ConnectCanceled, Return
<1>5. ASSUME NEW c \in Callers, Disconnect(c)
           PROVE  [Interface!Next]_Interface!vars
  <2>1. /\ pc' = pc /\ receiver' = receiver /\ heartbeat' = heartbeat
        /\ disposal' = disposal /\ ~connected'
        /\ sess' = IF session THEN "stopped" ELSE sess
        /\ lifetime' = IF lifetime = "live" THEN "cancelled" ELSE lifetime
    BY <1>5 DEF Disconnect, Stop, Begin
  <2>2. SessionDown'
    BY <2>1
  <2>3. sess' \in {"none", "disposed"} <=> sess \in {"none", "disposed"}
    BY <2>1
  <2>4. UNCHANGED <<Reading, Halt>>
    BY <2>1
  <2>5. CASE SessionDown
    <3>1. ~connected
      BY <2>5
    <3>2. Status' = Status
      BY <2>1, <3>1
    <3>3. SessionDown' = SessionDown
      BY <2>2, <2>5
    <3>4. UNCHANGED Interface!vars
      BY <2>1, <2>3, <2>4, <3>2, <3>3
    <3> QED
      BY <3>4
  <2>6. CASE ~SessionDown
    <3>1. Status' = IF Status = "open" THEN "closed" ELSE Status
      BY <2>1
    <3>2. Interface!Stop
      BY <2>1, <2>2, <2>3, <2>4, <2>6, <3>1
      DEF Interface!Stop
    <3> QED
      BY <2>4, <3>2
  <2> QED
    BY <2>5, <2>6
<1>6. ASSUME NEW c \in Callers, DisconnectReturns(c)
           PROVE  [Interface!Next]_Interface!vars
  BY <1>6 DEF DisconnectReturns, Return
<1>7. ASSUME NEW c \in Callers, Dispose(c)
           PROVE  [Interface!Next]_Interface!vars
  BY <1>7 DEF Dispose, Begin
<1>8. ASSUME NEW c \in Callers, DisposeReturns(c)
           PROVE  [Interface!Next]_Interface!vars
  BY <1>8 DEF DisposeReturns, Return
<1>9. CASE DisposeStop
  BY <1>9 DEF DisposeStop, Stop
<1>10. CASE DisposeStopped
  BY <1>10 DEF DisposeStopped
<1>11. CASE DisposeLifetime
  BY <1>11 DEF DisposeLifetime
<1>12. CASE DisposeDone
  BY <1>12 DEF DisposeDone
<1>13. CASE LoopExit
  BY <1>13 DEF LoopExit
<1>14. CASE NewSession
  BY <1>14 DEF NewSession
<1>15. CASE Publish
  BY <1>15 DEF Publish
<1>16. CASE SocketOpened
  BY <1>16 DEF SocketOpened
<1>17. CASE OpenFailed
  BY <1>17 DEF OpenFailed, Fail
<1>18. CASE AuthRefused
  BY <1>18 DEF AuthRefused, Fail
<1>19. CASE AuthKicked
  BY <1>19 DEF AuthKicked, Fail
<1>20. CASE AuthFailed
  BY <1>20 DEF AuthFailed, Fail
<1>21. CASE AuthAccepted
  BY <1>21 DEF AuthAccepted
<1>22. CASE Admit
  BY <1>22 DEF Admit, MayAdmit, TrySet
<1>23. CASE AdmitOverflow
  BY <1>23 DEF AdmitOverflow, MayAdmit
<1>24. CASE AdmitCancelled
  BY <1>24 DEF AdmitCancelled, Fail
<1>25. CASE SessionLost
  BY <1>25 DEF SessionLost, Fail
<1>26. CASE CloseSession
  BY <1>26 DEF CloseSession, RenewReady
<1>27. CASE StopSession
  BY <1>27 DEF StopSession
<1>28. CASE Unpublish
  BY <1>28 DEF Unpublish, TasksJoined
<1>29. CASE DisposeSession
  BY <1>29 DEF DisposeSession
<1>30. CASE GiveUp
  BY <1>30 DEF GiveUp
<1>31. CASE Retry
  BY <1>31 DEF Retry, MayRetry
<1>32. CASE BackoffEnds
  BY <1>32 DEF BackoffEnds
<1>33. CASE Final
  BY <1>33 DEF Final, FinalOutcome, TrySet
<1>34. CASE Exit
  BY <1>34 DEF Exit
<1>35. ASSUME NEW r \in {"accepted", "refused"}, Reply(r)
           PROVE  [Interface!Next]_Interface!vars
  BY <1>35 DEF Reply
<1>36. ASSUME NEW how \in {"lost", "kick"}, ReceiverEnds(how)
           PROVE  [Interface!Next]_Interface!vars
  BY <1>36 DEF ReceiverEnds, First
<1>37. CASE HeartbeatEnds
  BY <1>37 DEF HeartbeatEnds, First
<1>38. CASE UNCHANGED vars
  BY <1>38 DEF vars
<1> QED
  BY <1>1, <1>2, <1>3, <1>4, <1>5, <1>6, <1>7, <1>8, <1>9, <1>10, <1>11,
     <1>12, <1>13, <1>14, <1>15, <1>16, <1>17, <1>18, <1>19, <1>20, <1>21,
     <1>22, <1>23, <1>24, <1>25, <1>26, <1>27, <1>28, <1>29, <1>30, <1>31,
     <1>32, <1>33, <1>34, <1>35, <1>36, <1>37, <1>38
  DEF Next, Application, Returns, Disposer, RunAsync, Tasks

\* The supervisor does to its sessions only what the requests and the events
\* of a session rely on, for every number of callers and attempts.
THEOREM SessionRefinement == Spec => ImplementsSession
<1>1. Init => TaskInv
  BY TaskInit
<1>2. IInv /\ TaskInv /\ [Next]_vars => TaskInv'
  BY TaskStep
<1>3. Init => Interface!Init
  BY SessionInit
<1>4. IInv /\ TaskInv /\ [Next]_vars => [Interface!Next]_Interface!vars
  BY SessionStep
<1> QED
  BY <1>1, <1>2, <1>3, <1>4, Invariance, PTL
  DEF Spec, ImplementsSession, Interface!Spec

-----------------------------------------------------------------------------
(* Why a stopped run ends and the calls that wait for it return            *)
(* (CallsReturn), but for the fairness that TLC assumes: it only goes on,  *)
(* and where it waits, it waits for a task that the token ends.            *)

\* The steps a cancelled run has left.
RunLeft ==
    CASE pc = "idle" -> 0
      [] pc = "exiting" -> 1
      [] pc = "final" -> 2
      [] pc = "loop" -> 3
      [] pc = "backoff" -> 4
      [] pc = "reporting" -> 5
      [] pc = "disposing" -> 6
      [] pc = "joining" -> 7
      [] pc = "stop" -> 8
      [] pc = "closing" -> 9
      [] pc = "online" -> 10
      [] pc = "admit" -> 11
      [] pc = "auth" -> 12
      [] pc = "opening" -> 13
      [] OTHER -> 14

\* A cancelled run stays cancelled until it has ended, opens no session and
\* never goes back, whatever the callers and the tasks do: it has at most
\* fourteen steps left (WKIM.cs:139-146, 178, 208, 255-263).
WindingDown ==
    pc # "idle" /\ Cancelled =>
        /\ Cancelled' \/ pc' = "idle"
        /\ pc' = pc \/ RunLeft' < RunLeft
        /\ RunAsync => RunLeft' < RunLeft

\* The end of a task is neither missed nor invented: Task.WhenAny is given two
\* tasks that were started; while it has not returned both run, even if one
\* ended before the login was complete; and the task it returns has ended
\* (WKIM.cs:194, 217-218).
NoMissedEnd ==
    /\ pc = "online" => receiver # "none" /\ heartbeat # "none"
    /\ pc = "online" /\ first = "none"
          => receiver = "running" /\ heartbeat = "running"
    /\ first = "receiver" => receiver \in {"lost", "kick"}
    /\ first = "heartbeat" => heartbeat = "ended"

\* A step of the run, seen alone.
LEMMA RunAsyncLeft ==
    ASSUME IInv, RunAsync, Cancelled
    PROVE  RunLeft' < RunLeft /\ lifetime' = lifetime
<1> USE DEF IInv, TypeOK, Cancelled, RunLeft, SessionDown, MayAdmit, Fail,
        gateVars, locals, callVars
<1>1. CASE LoopExit
  BY <1>1 DEF LoopExit
<1>2. CASE NewSession
  BY <1>2 DEF NewSession
<1>3. CASE Publish
  BY <1>3 DEF Publish
<1>4. CASE SocketOpened
  BY <1>4 DEF SocketOpened
<1>5. CASE OpenFailed
  BY <1>5 DEF OpenFailed
<1>6. CASE AuthRefused \/ AuthKicked \/ AuthFailed
  BY <1>6 DEF AuthRefused, AuthKicked, AuthFailed
<1>7. CASE AuthAccepted \/ Admit \/ AdmitOverflow
  BY <1>7 DEF AuthAccepted, Admit, AdmitOverflow
<1>8. CASE AdmitCancelled
  BY <1>8 DEF AdmitCancelled
<1>9. CASE SessionLost
  BY <1>9 DEF SessionLost
<1>10. CASE CloseSession
  BY <1>10 DEF CloseSession
<1>11. CASE StopSession
  BY <1>11 DEF StopSession
<1>12. CASE Unpublish
  BY <1>12 DEF Unpublish
<1>13. CASE DisposeSession
  BY <1>13 DEF DisposeSession
<1>14. CASE GiveUp
  BY <1>14 DEF GiveUp
<1>15. CASE Retry
  BY <1>15 DEF Retry
<1>16. CASE BackoffEnds
  BY <1>16 DEF BackoffEnds
<1>17. CASE Final
  BY <1>17 DEF Final
<1>18. CASE Exit
  BY <1>18 DEF Exit
<1> QED
  BY <1>1, <1>2, <1>3, <1>4, <1>5, <1>6, <1>7, <1>8, <1>9, <1>10, <1>11,
     <1>12, <1>13, <1>14, <1>15, <1>16, <1>17, <1>18 DEF RunAsync

\* What is not a step of the run leaves it where it is, and cancelled.
LEMMA OthersKeepRun ==
    ASSUME IInv, [Next]_vars, ~RunAsync, pc # "idle", Cancelled
    PROVE  pc' = pc /\ Cancelled'
<1> USE DEF IInv, RunInv, TypeOK, LifetimeInv, Cancelled, RunCompleted,
        gateVars, runVars, callVars, locals
<1>1. ASSUME NEW c \in Callers, Application(c)
      PROVE  pc' = pc /\ Cancelled'
  <2>1. CASE StartRun(c)
    BY <2>1 DEF StartRun
  <2>2. CASE JoinRun(c) \/ ConnectCanceled(c) \/ Dispose(c)
    BY <2>2 DEF JoinRun, ConnectCanceled, Dispose
  <2>3. CASE Disconnect(c)
    BY <2>3 DEF Disconnect, Stop
  <2> QED
    BY <1>1, <2>1, <2>2, <2>3 DEF Application
<1>2. ASSUME NEW c \in Callers, Returns(c)
      PROVE  pc' = pc /\ Cancelled'
  BY <1>2
  DEF Returns, ConnectReturns, DisconnectReturns, DisposeReturns
<1>3. CASE Disposer
  BY <1>3 DEF Disposer, DisposeStop, DisposeStopped, DisposeLifetime,
     DisposeDone, Stop
<1>4. CASE Tasks
  BY <1>4 DEF Tasks, Reply, ReceiverEnds, HeartbeatEnds
<1>5. CASE UNCHANGED vars
  BY <1>5 DEF vars
<1> QED
  BY <1>1, <1>2, <1>3, <1>4, <1>5 DEF Next

\* A cancelled run winds down, for every number of callers and attempts.
THEOREM Safe_WindingDown == Spec => [][WindingDown]_vars
<1>1. IInv /\ [Next]_vars => [WindingDown]_vars
  <2> SUFFICES ASSUME IInv, [Next]_vars, pc # "idle", Cancelled
               PROVE  /\ Cancelled' \/ pc' = "idle"
                      /\ pc' = pc \/ RunLeft' < RunLeft
                      /\ RunAsync => RunLeft' < RunLeft
    BY DEF WindingDown
  <2>1. CASE RunAsync
    BY <2>1, RunAsyncLeft DEF Cancelled
  <2>2. CASE ~RunAsync
    BY <2>2, OthersKeepRun
  <2> QED
    BY <2>1, <2>2
<1> QED
  BY <1>1, Invariance, PTL DEF Spec

\* Task.WhenAny misses no end of a task, and returns no task that still runs.
THEOREM Safe_NoMissedEnd == Spec => []NoMissedEnd
<1>1. Init => TaskInv
  BY TaskInit
<1>2. IInv /\ TaskInv /\ [Next]_vars => TaskInv'
  BY TaskStep
<1>3. TaskInv => NoMissedEnd
  BY DEF TaskInv, NoMissedEnd
<1> QED
  BY <1>1, <1>2, <1>3, Invariance, PTL DEF Spec
=============================================================================
