------------------------------ MODULE Release ------------------------------
(***************************************************************************)
(* How a version of the package is released: scripts/release.py, called by *)
(* the jobs of .github/workflows/release.yml.  A run validates a revision  *)
(* and packs it, pushes the package with --skip-duplicate, waits for the   *)
(* public copy, compares and installs it, and only then announces it as a  *)
(* GitHub release.  Runs are serialised by a concurrency group, may fail   *)
(* at any step and be started again; others may push to the registry, too. *)
(***************************************************************************)
EXTENDS Naturals

CONSTANTS
    Commits, Versions, Files, \* revisions, versions, and contents of a package
    Version,    \* the <Version> of the project file at each commit
    Releasable, \* commits with an exact version and one nonempty changelog section
    OnMain,     \* commits reachable from origin/main
    None,
    Wait,       \* --wait-seconds, in ticks
    Pause,      \* the longest sleep between two downloads: 20 seconds
    Slow,       \* bound: the longest download; urlopen gives up after 30 idle seconds
    MaxRuns     \* bound: runs started, reruns included

ASSUME TimesAssumption == {Wait, Slow, MaxRuns} \subseteq Nat /\ Pause \in Nat \ {0}
ASSUME SourceAssumption ==
    Version \in [Commits -> Versions] /\ None \notin Commits \cup Versions

\* What package_files reads: "sound" stands for the checks that do not depend
\* on the release (entries, manifest, id, repository, dependencies, library).
Package == [version : Versions, commit : Commits \cup {None}, files : Files, sound : BOOLEAN]
NoPackage == [version |-> None]

VARIABLES
    pc,       \* the step the run is at; "idle", "failed" and "done" between runs
    job,      \* the job of the workflow it belongs to
    run,      \* GITHUB_SHA, the tag it runs for, and whether it publishes
    artifact, \* the package of the validate job, kept for the later jobs
    actual,   \* what public_package downloaded
    now,      \* time since the wait began
    began,    \* when the last download began
    seenTag,  \* the tag of the version when the github-release job checked out
    registry, \* nuget.org: the package pushed as each version
    served,   \* versions that nuget.org serves to everybody
    release,  \* GitHub: the package attached to the release of each version
    tag,      \* git: the commit of each version tag
    runs      \* runs started so far

poll == <<actual, now, began>>
public == <<registry, served, release, tag>>
vars == <<pc, job, run, artifact, poll, seenTag, public, runs>>

Stopped == {"idle", "failed", "done"}
Steps == Stopped \cup {"metadata", "pack", "local", "publish", "push", "expect", "poll",
                       "compare", "install", "release", "announce"}
v == Version[run.commit]
To(step) == pc' = step /\ UNCHANGED <<job, run, runs>>

Init ==
    /\ pc = "idle" /\ job = "validate" /\ runs = 0
    /\ run \in [commit : Commits, tag : {None}, publish : {FALSE}]
    /\ artifact = NoPackage /\ actual = NoPackage
    /\ now = 0 /\ began = 0 /\ seenTag = None
    /\ registry = [w \in Versions |-> NoPackage] /\ served = {}
    /\ release = [w \in Versions |-> NoPackage]
    /\ tag = [w \in Versions |-> None]
-----------------------------------------------------------------------------
\* Others.  A version tag is pushed; a package is pushed by hand; nuget.org has
\* validated a package and serves it, some time after it was pushed.
PushTag(w, c) ==
    /\ tag[w] = None
    /\ tag' = [tag EXCEPT ![w] = c]
    /\ UNCHANGED <<pc, job, run, artifact, poll, seenTag, registry, served, release, runs>>

PushByHand(p) ==
    /\ registry[p.version] = NoPackage
    /\ registry' = [registry EXCEPT ![p.version] = p]
    /\ UNCHANGED <<pc, job, run, artifact, poll, seenTag, served, release, tag, runs>>

Serve(w) ==
    /\ registry[w] # NoPackage /\ w \notin served
    /\ served' = served \cup {w}
    /\ UNCHANGED <<pc, job, run, artifact, poll, seenTag, registry, release, tag, runs>>
-----------------------------------------------------------------------------
\* A run for a tag publishes; a dispatched one only from main and when asked to.
Begin(c, t, publish) ==
    /\ pc \in Stopped /\ runs < MaxRuns
    /\ IF t = None THEN publish => c \in OnMain ELSE tag[t] = c /\ publish
    /\ pc' = "metadata" /\ job' = "validate" /\ runs' = runs + 1
    /\ run' = [commit |-> c, tag |-> t, publish |-> publish]
    /\ artifact' = NoPackage /\ actual' = NoPackage /\ now' = 0 /\ began' = 0 /\ seenTag' = None
    /\ UNCHANGED public

\* "Re-run failed jobs" of the latest run: the job starts over, the artifact of
\* an earlier job stays.
Rerun ==
    /\ pc = "failed" /\ runs < MaxRuns
    /\ pc' = CASE job = "validate" -> "metadata" [] job = "publish" -> "publish" [] OTHER -> "release"
    /\ runs' = runs + 1
    /\ actual' = NoPackage /\ now' = 0 /\ began' = 0 /\ seenTag' = None
    /\ UNCHANGED <<job, run, artifact, public>>

\* Any step can fail: a tool, a timeout, a lost answer.
Break ==
    /\ pc \notin Stopped
    /\ To("failed")
    /\ UNCHANGED <<artifact, poll, seenTag, public>>

ReleaseVersion == run.commit \in Releasable /\ run.tag \in {None, v}

Metadata ==
    /\ pc = "metadata"
    /\ To(IF ReleaseVersion THEN "pack" ELSE "failed")
    /\ UNCHANGED <<artifact, poll, seenTag, public>>

Pack(files, sound) ==
    /\ pc = "pack"
    /\ artifact' = [version |-> v, commit |-> run.commit, files |-> files, sound |-> sound]
    /\ To("local")
    /\ UNCHANGED <<poll, seenTag, public>>

\* package_files accepts p; its result, the entries without the signature, is p.files.
Genuine(p, version, commit) == p.sound /\ p.version = version /\ p.commit = commit

\* Mode "local": check the package and install it from the directory it is in.
Local ==
    /\ pc = "local"
    /\ IF Genuine(artifact, v, run.commit) /\ run.publish
       THEN pc' = "publish" /\ job' = "publish" /\ UNCHANGED <<run, runs>>
       ELSE To(IF Genuine(artifact, v, run.commit) THEN "done" ELSE "failed")
    /\ UNCHANGED <<artifact, poll, seenTag, public>>

Publish ==
    /\ pc = "publish"
    /\ To(IF run.commit \in OnMain THEN "push" ELSE "failed")
    /\ UNCHANGED <<artifact, poll, seenTag, public>>

\* dotnet nuget push --skip-duplicate.  The answer may be lost: the step then
\* fails although the package has been pushed.
Push ==
    /\ pc = "push"
    /\ registry' = IF registry[v] = NoPackage THEN [registry EXCEPT ![v] = artifact] ELSE registry
    /\ \E step \in {"expect", "failed"} : To(step)
    /\ now' = 0 /\ began' = 0
    /\ UNCHANGED <<artifact, actual, seenTag, served, release, tag>>
-----------------------------------------------------------------------------
\* Mode "public": the tested package is read and checked before the wait.
Expect ==
    /\ pc = "expect"
    /\ To(IF Genuine(artifact, v, run.commit) THEN "poll" ELSE "failed")
    /\ UNCHANGED <<artifact, poll, seenTag, public>>

\* One download that takes d ticks.
Downloaded(d) ==
    /\ pc = "poll" /\ v \in served
    /\ actual' = registry[v]
    /\ began' = now /\ now' = now + d
    /\ To("compare")
    /\ UNCHANGED <<artifact, seenTag, public>>

Sleep(t) == IF Wait - t < Pause THEN Wait - t ELSE Pause

FaultExpired(t) == t + Pause >= Wait
Expired(t) == t >= Wait

\* 404, 408, 429, 5xx, no connection: try again unless the time is over.  Any
\* other answer is an instance of Break.
FaultNotYet(d) ==
    /\ pc = "poll"
    /\ began' = 0 /\ now' = d + Sleep(d)
    /\ To("poll")
    /\ UNCHANGED <<artifact, actual, seenTag, public>>
NotYet(d) ==
    /\ pc = "poll"
    /\ began' = now
    /\ LET t == now + d IN
       IF Expired(t) THEN now' = t /\ To("failed")
       ELSE now' = t + Sleep(t) /\ To("poll")
    /\ UNCHANGED <<artifact, actual, seenTag, public>>

FaultCompare ==
    /\ pc = "compare"
    /\ To(IF Genuine(actual, v, run.commit) THEN "install" ELSE "failed")
    /\ UNCHANGED <<artifact, poll, seenTag, public>>
Compare ==
    /\ pc = "compare"
    /\ To(IF Genuine(actual, v, run.commit) /\ artifact.files = actual.files
          THEN "install" ELSE "failed")
    /\ UNCHANGED <<artifact, poll, seenTag, public>>

\* A fresh consumer restores exactly this version and runs.
Install ==
    /\ pc = "install"
    /\ pc' = "release" /\ job' = "github-release"
    /\ UNCHANGED <<run, runs, artifact, poll, seenTag, public>>

\* The github-release job checks out the repository with its tags ...
Checkout ==
    /\ pc = "release"
    /\ seenTag' = tag[v]
    /\ To("announce")
    /\ UNCHANGED <<artifact, poll, public>>

\* ... and creates the release, and the tag if there is none by now.
Announce ==
    /\ pc = "announce"
    /\ IF seenTag \notin {None, run.commit}
       THEN To("failed") /\ UNCHANGED <<release, tag>>
       ELSE /\ To("done")
            /\ release' = IF release[v] = NoPackage
                          THEN [release EXCEPT ![v] = artifact] ELSE release
            /\ tag' = IF release[v] = NoPackage /\ tag[v] = None
                      THEN [tag EXCEPT ![v] = run.commit] ELSE tag
    /\ UNCHANGED <<artifact, poll, seenTag, registry, served>>
-----------------------------------------------------------------------------
Others ==
    \/ \E w \in Versions, c \in Commits : PushTag(w, c)
    \/ \E p \in Package : PushByHand(p)
    \/ \E w \in Versions : Serve(w)
    \/ \E c \in Commits, t \in Versions \cup {None}, publish \in BOOLEAN : Begin(c, t, publish)
    \/ Rerun

Run ==
    \/ Metadata \/ Local \/ Publish \/ Push \/ Expect \/ Compare \/ Install \/ Checkout \/ Announce
    \/ \E files \in Files, sound \in BOOLEAN : Pack(files, sound)
    \/ \E d \in 0..Slow : Downloaded(d) \/ NotYet(d)
    \/ Break

Next == Others \/ Run

Fairness == WF_vars(Run)
Spec == Init /\ [][Next]_vars /\ Fairness
-----------------------------------------------------------------------------
\* Every variable has the values the scripts and the services give it.
TypeOK ==
    /\ pc \in Steps /\ job \in {"validate", "publish", "github-release"} /\ runs \in Nat
    /\ run \in [commit : Commits, tag : Versions \cup {None}, publish : BOOLEAN]
    /\ artifact \in Package \cup {NoPackage} /\ actual \in Package \cup {NoPackage}
    /\ now \in 0..Wait + Slow /\ began \in 0..Wait /\ seenTag \in Commits \cup {None}
    /\ registry \in [Versions -> Package \cup {NoPackage}] /\ served \subseteq Versions
    /\ release \in [Versions -> Package \cup {NoPackage}]
    /\ tag \in [Versions -> Commits \cup {None}]

\* What is announced is what everybody gets: the package attached to a GitHub
\* release was built from a releasable commit of main, and nuget.org serves
\* that version with the same contents and from the same commit, whatever was
\* pushed before, by whom, and however often the run was started
\* (release.py:138-143, docs/releasing.md:59-66).  The commit of a tag that
\* others push is not part of it.
AnnouncedIsPublic == \A w \in Versions : release[w] # NoPackage =>
    /\ Genuine(release[w], w, release[w].commit)
    /\ release[w].commit \in OnMain \cap Releasable
    /\ w \in served /\ Genuine(registry[w], w, release[w].commit)
    /\ registry[w].files = release[w].files

\* The wait is bounded, and used up: no download begins after the deadline,
\* and the wait is not given up while a download could still begin before it
\* (release.py:78-81).
WaitUsesItsTime == [][
    /\ began' # began => began' <= Wait
    /\ (\E d \in 0..Slow : NotYet(d)) /\ pc' = "failed" => now' >= Wait]_vars

\* Every run comes to an end: the wait for nuget.org does not go on for ever.
RunEnds == pc \notin Stopped ~> pc \in Stopped
=============================================================================
