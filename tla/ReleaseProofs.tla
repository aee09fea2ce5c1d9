--------------------------- MODULE ReleaseProofs ---------------------------
(***************************************************************************)
(* Proofs about Release for every set of revisions, versions and contents, *)
(* any times and any number of runs: what is announced is what nuget.org   *)
(* serves, and the wait for it begins no download after its deadline.      *)
(***************************************************************************)
EXTENDS Release, TLAPS

\* A run has tested its artifact once it has left the validate job.
Tested ==
    /\ artifact \in Package /\ Genuine(artifact, v, run.commit)
    /\ run.commit \in Releasable

\* The public copy is the tested artifact, and stays so.
Compared == v \in served /\ Genuine(registry[v], v, run.commit) /\ registry[v].files = artifact.files

\* Where the run is, and what it has found out by then.
ProgressInv ==
    /\ pc \in {"metadata", "pack", "local"} => job = "validate"
    /\ pc \in {"publish", "push", "expect", "poll", "compare", "install"} => job = "publish"
    /\ pc \in {"release", "announce"} => job = "github-release"
    /\ pc \in {"pack", "local"} => run.commit \in Releasable
    /\ job # "validate" => Tested
    /\ pc \in {"push", "expect", "poll", "compare", "install"} => run.commit \in OnMain
    /\ pc = "compare" => v \in served /\ actual = registry[v]
    /\ pc = "install" => Compared
    /\ job = "github-release" => Compared /\ run.commit \in OnMain

\* Only what was pushed is served, and the clock of a wait is in its bounds.
WorldInv ==
    /\ \A w \in served : registry[w] # NoPackage
    /\ pc \in {"expect", "poll"} => now <= Wait

IInv == TypeOK /\ ProgressInv /\ WorldInv /\ AnnouncedIsPublic

-----------------------------------------------------------------------------
\* A package is never taken for none.
LEMMA PackageExists ==
    ASSUME NEW p \in Package
    PROVE  p # NoPackage
BY SourceAssumption DEF Package, NoPackage

\* The initial state satisfies the invariant.
LEMMA InitIInv ==
    ASSUME Init
    PROVE  IInv
<1>1. run \in [commit : Commits, tag : Versions \cup {None}, publish : BOOLEAN]
  BY DEF Init
<1>2. now \in 0..Wait + Slow /\ began \in 0..Wait
  BY TimesAssumption DEF Init
<1>3. TypeOK
  BY <1>1, <1>2 DEF Init, TypeOK, Steps, Stopped
<1>4. ProgressInv /\ WorldInv /\ AnnouncedIsPublic
  BY DEF Init, ProgressInv, WorldInv, AnnouncedIsPublic
<1> QED
  BY <1>3, <1>4 DEF IInv

\* The version of a revision is a version.
LEMMA VersionTyped ==
    ASSUME TypeOK
    PROVE  v \in Versions
BY SourceAssumption DEF TypeOK, v

-----------------------------------------------------------------------------
\* What others do: a version that is served keeps the package it has.
LEMMA OthersStep ==
    ASSUME IInv, Others
    PROVE  IInv'
<1> USE DEF IInv
<1>1. ASSUME NEW w \in Versions, NEW c \in Commits, PushTag(w, c)
      PROVE  IInv'
  BY <1>1 DEF PushTag, poll, TypeOK, ProgressInv, WorldInv, AnnouncedIsPublic,
              Tested, Compared, v, Genuine
<1>2. ASSUME NEW p \in Package, PushByHand(p)
      PROVE  IInv'
  <2>1. /\ registry' \in [Versions -> Package \cup {NoPackage}]
        /\ \A w \in Versions : registry[w] # NoPackage => registry'[w] = registry[w]
    BY <1>2 DEF PushByHand, TypeOK, Package
  <2>2. \A w \in served : registry'[w] = registry[w]
    BY <2>1 DEF TypeOK, WorldInv
  <2> QED
    BY <1>2, <2>1, <2>2, VersionTyped
    DEF PushByHand, poll, TypeOK, ProgressInv, WorldInv, AnnouncedIsPublic, Tested,
        Compared, v, Genuine
<1>3. ASSUME NEW w \in Versions, Serve(w)
      PROVE  IInv'
  BY <1>3 DEF Serve, poll, TypeOK, ProgressInv, WorldInv, AnnouncedIsPublic,
              Tested, Compared, v, Genuine
<1>4. ASSUME NEW c \in Commits, NEW t \in Versions \cup {None}, NEW publish \in BOOLEAN,
             Begin(c, t, publish)
      PROVE  IInv'
  BY <1>4, TimesAssumption
  DEF Begin, public, TypeOK, ProgressInv, WorldInv, AnnouncedIsPublic, Tested,
      Compared, v, Genuine, Steps, Stopped
<1>5. CASE Rerun
  BY <1>5, TimesAssumption
  DEF Rerun, public, TypeOK, ProgressInv, WorldInv, AnnouncedIsPublic, Tested,
      Compared, v, Genuine, Steps, Stopped
<1> QED
  BY <1>1, <1>2, <1>3, <1>4, <1>5 DEF Others

\* The validate job and the first steps of the publish job.
LEMMA ValidateStep ==
    ASSUME IInv, Metadata \/ Local \/ Publish \/ Install \/ Checkout \/ Expect \/ Compare
                 \/ Break
    PROVE  IInv'
<1> USE DEF IInv, To, poll, public, v
<1>1. CASE Metadata
  BY <1>1 DEF Metadata, ReleaseVersion, TypeOK, ProgressInv, WorldInv, AnnouncedIsPublic,
              Tested, Compared, Genuine, Steps, Stopped
<1>2. CASE Local
  <2>1. artifact # NoPackage => artifact \in Package
    BY DEF TypeOK
  <2>2. Genuine(artifact, v, run.commit) => artifact \in Package
    BY <2>1, SourceAssumption, VersionTyped DEF Genuine, NoPackage
  <2> QED
    BY <1>2, <2>2 DEF Local, TypeOK, ProgressInv, WorldInv, AnnouncedIsPublic,
              Tested, Compared, Genuine, Steps, Stopped
<1>3. CASE Publish
  BY <1>3 DEF Publish, TypeOK, ProgressInv, WorldInv, AnnouncedIsPublic,
              Tested, Compared, Genuine, Steps, Stopped
<1>4. CASE Install
  BY <1>4 DEF Install, TypeOK, ProgressInv, WorldInv, AnnouncedIsPublic,
              Tested, Compared, Genuine, Steps, Stopped
<1>5. CASE Checkout
  BY <1>5, VersionTyped DEF Checkout, TypeOK, ProgressInv, WorldInv, AnnouncedIsPublic,
              Tested, Compared, Genuine, Steps, Stopped
<1>6. CASE Compare
  BY <1>6 DEF Compare, TypeOK, ProgressInv, WorldInv, AnnouncedIsPublic,
              Tested, Compared, Genuine, Steps, Stopped
<1>7. CASE Expect
  BY <1>7 DEF Expect, TypeOK, ProgressInv, WorldInv, AnnouncedIsPublic,
              Tested, Compared, Genuine, Steps, Stopped
<1>8. CASE Break
  BY <1>8 DEF Break, TypeOK, ProgressInv, WorldInv, AnnouncedIsPublic,
              Tested, Compared, Genuine, Steps, Stopped
<1> QED
  BY <1>1, <1>2, <1>3, <1>4, <1>5, <1>6, <1>7, <1>8

\* A new package is built for the revision of the run.
LEMMA PackStep ==
    ASSUME IInv, NEW files \in Files, NEW sound \in BOOLEAN, Pack(files, sound)
    PROVE  IInv'
<1>1. artifact' \in Package
  BY VersionTyped DEF IInv, Pack, TypeOK, Package
<1> QED
  BY <1>1 DEF IInv, Pack, To, poll, public, v, TypeOK, ProgressInv, WorldInv,
      AnnouncedIsPublic, Tested, Compared, Genuine, Steps, Stopped

\* A push leaves a version that exists as it is.
LEMMA PushStep ==
    ASSUME IInv, Push
    PROVE  IInv'
<1>1. /\ registry' \in [Versions -> Package \cup {NoPackage}]
      /\ \A w \in Versions : registry[w] # NoPackage => registry'[w] = registry[w]
  BY VersionTyped DEF IInv, Push, TypeOK, ProgressInv, Tested
<1>2. \A w \in served : registry'[w] = registry[w]
  BY <1>1 DEF IInv, TypeOK, WorldInv
<1> QED
  BY <1>1, <1>2, VersionTyped, TimesAssumption
  DEF IInv, Push, To, v, TypeOK, ProgressInv, WorldInv, AnnouncedIsPublic, Tested,
      Compared, Genuine, Steps, Stopped

\* The wait: the sleep ends at the deadline at the latest.
LEMMA PollStep ==
    ASSUME IInv, NEW d \in 0..Slow, Downloaded(d) \/ NotYet(d)
    PROVE  IInv'
<1> USE DEF IInv, To, public, v
<1>1. /\ Wait \in Nat /\ Slow \in Nat /\ Pause \in Nat /\ d \in Nat /\ d <= Slow
      /\ now \in Nat /\ pc = "poll" /\ now <= Wait /\ began' = now
  BY TimesAssumption DEF Downloaded, NotYet, TypeOK, WorldInv
<1>2. CASE Downloaded(d)
  <2>1. now' \in 0..Wait + Slow /\ began' \in 0..Wait
    BY <1>1, <1>2 DEF Downloaded
  <2>2. registry[v] \in Package \cup {NoPackage}
    BY VersionTyped DEF TypeOK
  <2> QED
    BY <1>2, <2>1, <2>2 DEF Downloaded, TypeOK, ProgressInv, WorldInv, AnnouncedIsPublic,
        Tested, Compared, Genuine, Steps, Stopped
<1>3. CASE NotYet(d)
  <2>1. /\ now' \in 0..Wait + Slow /\ began' \in 0..Wait
        /\ pc' = "poll" => now' <= Wait
    BY <1>1, <1>3 DEF NotYet, Expired, Sleep
  <2>2. pc' \in {"poll", "failed"}
    BY <1>3 DEF NotYet
  <2> QED
    BY <1>1, <1>3, <2>1, <2>2 DEF NotYet, TypeOK, ProgressInv, WorldInv, AnnouncedIsPublic,
        Tested, Compared, Genuine, Steps, Stopped
<1> QED
  BY <1>2, <1>3

\* What is announced has been compared.
LEMMA AnnounceStep ==
    ASSUME IInv, Announce
    PROVE  IInv'
<1> USE DEF IInv, To, poll, v
<1>1. /\ Tested /\ Compared /\ run.commit \in OnMain
      /\ v \in Versions /\ run.commit \in Commits
  BY VersionTyped DEF Announce, ProgressInv, TypeOK
<1>2. /\ release' \in [Versions -> Package \cup {NoPackage}]
      /\ tag' \in [Versions -> Commits \cup {None}]
  BY <1>1 DEF Announce, TypeOK, Tested
<1>3. \A w \in Versions : release'[w] = release[w] \/ (w = v /\ release'[w] = artifact)
  BY <1>1 DEF Announce, TypeOK
<1>4. AnnouncedIsPublic'
  BY <1>1, <1>2, <1>3 DEF Announce, AnnouncedIsPublic, Tested, Compared, Genuine
<1> QED
  BY <1>2, <1>4 DEF Announce, TypeOK, ProgressInv, WorldInv, Tested, Compared,
      Genuine, Steps, Stopped

\* Every reachable state satisfies the invariant.
THEOREM Invariance == Spec => []IInv
<1>1. Init => IInv
  BY InitIInv
<1>2. IInv /\ [Next]_vars => IInv'
  <2> SUFFICES ASSUME IInv, [Next]_vars
               PROVE  IInv'
    OBVIOUS
  <2>1. CASE UNCHANGED vars
    BY <2>1 DEF vars, poll, public, IInv, TypeOK, ProgressInv, WorldInv, AnnouncedIsPublic,
        Tested, Compared, Genuine, v
  <2> QED
    BY <2>1, OthersStep, ValidateStep, PackStep, PushStep, PollStep, AnnounceStep
    DEF Next, Run
<1> QED
  BY <1>1, <1>2, PTL DEF Spec

-----------------------------------------------------------------------------
\* Every variable keeps its type; the clock of a wait never passes its deadline
\* by more than one download.
THEOREM TypeCorrect == Spec => []TypeOK
<1>1. IInv => TypeOK
  BY DEF IInv
<1> QED
  BY <1>1, Invariance, PTL

\* The package of a GitHub release was built from a releasable commit of main
\* and is what nuget.org serves, whoever pushed it and however often runs failed.
THEOREM Safe_AnnouncedIsPublic == Spec => []AnnouncedIsPublic
<1>1. IInv => AnnouncedIsPublic
  BY DEF IInv
<1> QED
  BY <1>1, Invariance, PTL

\* No download begins after the deadline, and none is given up before it.
THEOREM Safe_Wait == Spec => WaitUsesItsTime
<1> DEFINE InTime ==
       /\ began' # began => began' <= Wait
       /\ (\E d \in 0..Slow : NotYet(d)) /\ pc' = "failed" => now' >= Wait
<1>1. IInv /\ [Next]_vars => [InTime]_vars
  <2> SUFFICES ASSUME IInv, [Next]_vars, vars' # vars
               PROVE  InTime
    OBVIOUS
  <2>1. began' # began => began' = 0 \/ (pc = "poll" /\ began' = now)
    BY DEF Next, Others, Run, PushTag, PushByHand, Serve, Begin, Rerun, Break, Metadata, Pack,
        Local, Publish, Push, Expect, Downloaded, NotYet, Compare, Install, Checkout, Announce, poll
  <2>2. began' # began => began' <= Wait
    BY <2>1, TimesAssumption DEF IInv, WorldInv
  <2>3. ASSUME NEW d \in 0..Slow, NotYet(d), pc' = "failed"
        PROVE  now' >= Wait
    BY <2>3 DEF NotYet, To, Expired
  <2> QED
    BY <2>2, <2>3
<1>2. Spec => [][InTime]_vars
  BY <1>1, Invariance, PTL DEF Spec
<1> QED
  BY <1>2 DEF WaitUsesItsTime

-----------------------------------------------------------------------------
(* Why a run ends (RunEnds), but for the fairness that TLC assumes: every  *)
(* step of it uses up some of a finite budget, which others do not touch.  *)

\* The steps and the ticks that a run has left.
Left ==
    CASE pc \in Stopped -> 0
      [] pc = "announce" -> 1
      [] pc = "release" -> 2
      [] pc = "install" -> 3
      [] pc = "compare" -> 4
      [] pc = "poll" -> 5 + (Wait - now)
      [] pc = "expect" -> 6 + Wait
      [] pc = "push" -> 7 + Wait
      [] pc = "publish" -> 8 + Wait
      [] pc = "local" -> 9 + Wait
      [] pc = "pack" -> 10 + Wait
      [] OTHER -> 11 + Wait

\* A poll that is not answered yet moves the clock: the sleep after it is not
\* empty, since the deadline has not come.
LEMMA PollPasses ==
    ASSUME IInv, NEW d \in 0..Slow, NotYet(d), pc' = "poll"
    PROVE  now' > now /\ now' <= Wait
<1>1. now \in Nat /\ Wait \in Nat /\ Pause \in Nat \ {0} /\ d \in Nat
  BY TimesAssumption DEF IInv, TypeOK
<1>2. now + d < Wait /\ now' = now + d + Sleep(now + d)
  BY <1>1 DEF NotYet, Expired, To
<1> QED
  BY <1>1, <1>2 DEF Sleep

\* Every step of a run lowers what it has left; while it is under way nobody
\* else starts one or changes it (release.py:65-81, release.yml:16-18).
Down ==
    pc \notin Stopped =>
        /\ Left \in Nat /\ Left' \in Nat
        /\ Run => Left' < Left
        /\ Others => Left' = Left

\* A run takes at most Left steps, for any times and any other publishers.
THEOREM Safe_RunsDown == Spec => [][Down]_vars
<1>1. IInv /\ IInv' /\ [Next]_vars => [Down]_vars
  <2> SUFFICES ASSUME IInv, IInv', Next, pc \notin Stopped
               PROVE  /\ Left \in Nat /\ Left' \in Nat
                      /\ Run => Left' < Left
                      /\ Others => Left' = Left
    BY DEF Down
  <2>1. /\ Wait \in Nat /\ now \in Nat /\ now' \in Nat
        /\ pc = "poll" => now <= Wait
        /\ pc' = "poll" => now' <= Wait
    BY TimesAssumption DEF IInv, TypeOK, WorldInv
  <2>2. Left \in Nat /\ Left' \in Nat
    BY <2>1 DEF Left
  <2>3. ASSUME Others PROVE Left' = Left
    <3>1. pc' = pc /\ now' = now
      BY <2>3 DEF Others, PushTag, PushByHand, Serve, Begin, Rerun, poll, Stopped
    <3> QED
      BY <3>1 DEF Left
  <2>4. ASSUME Run PROVE Left' < Left
    <3> USE <2>1 DEF Left, To, Stopped
    <3>1. CASE \E d \in 0..Slow : Downloaded(d) \/ NotYet(d)
      BY <3>1, PollPasses DEF Downloaded, NotYet
    <3>2. CASE Metadata \/ Local \/ Publish
      BY <3>2 DEF Metadata, Local, Publish
    <3>3. CASE Push
      BY <3>3 DEF Push
    <3>4. CASE Expect \/ Compare \/ Install \/ Checkout \/ Announce
      BY <3>4 DEF Expect, Compare, Install, Checkout, Announce
    <3>5. CASE \E files \in Files, sound \in BOOLEAN : Pack(files, sound)
      BY <3>5 DEF Pack
    <3>6. CASE Break
      <4>1. pc \in Steps
        BY DEF IInv, TypeOK
      <4>2. Left > 0
        BY <4>1 DEF Steps
      <4> QED
        BY <3>6, <4>2 DEF Break
    <3> QED
      BY <2>4, <3>1, <3>2, <3>3, <3>4, <3>5, <3>6 DEF Run
  <2> QED
    BY <2>2, <2>3, <2>4
<1> QED
  BY <1>1, Invariance, PTL DEF Spec
=============================================================================
