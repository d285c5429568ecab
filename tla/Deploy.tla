------------------------------- MODULE Deploy -------------------------------
(***************************************************************************)
(* The way of a champion into the legs that trade: ops/promote_pipeline,   *)
(* emquant/export_snapshot and emquant/build_pilot.                        *)
(*                                                                         *)
(* Every evening the watch compares the champion of the experiment store   *)
(* with the one the parameter snapshot was exported from.  When they       *)
(* differ it exports the snapshot anew, into the working tree, and leaves  *)
(* a package (logs/pending_deployment.json) for a person to read.  The     *)
(* person then runs the deployment for a leg: commit the snapshot, build   *)
(* the leg's single file stamped with that commit, commit the build, move  *)
(* the leg's main.py aside under the stamp the package recorded, install   *)
(* the build and restart the leg.  What can go wrong on the way is in      *)
(* Faults:                                                                 *)
(*   export     the export fails before it writes the snapshot;            *)
(*   pack       it fails, or the watch does, after that;                   *)
(*   probe      the stamp of an installed main.py cannot be read;          *)
(*   git        the build gets no answer from git and is stamped unknown;  *)
(*   commit, build, keep, replace, write, relaunch                         *)
(*              the step of a deployment raises, or the person stops it;   *)
(*   torn       the writing of main.py ends part way;                      *)
(*   checkout   the person gives a package up with git checkout;           *)
(*   overlap    the watch and a deployment run at the same time: nothing   *)
(*              in the code keeps them apart.                              *)
(***************************************************************************)
EXTENDS Integers, Sequences, FiniteSets, SequencesExt, Functions

CONSTANTS
    Ver,         \* champions; each stands for its parameters
    Leg,         \* exp and main: the strategy directories of the terminal
    MaxCommits,  \* bound: commits of the snapshot
    Faults       \* what may go wrong, see above

ASSUME BoundAssumption == MaxCommits \in Nat \ {0}

NoVer == "none"
NoBuild == [c |-> NoVer, stamp |-> 0]
TornFile == [c |-> "torn", stamp |-> 0]
Unknown == -1  \* the stamp of a build that got no answer from git
NoPackage == [c |-> NoVer, stamps |-> [l \in Leg |-> 0]]

ASSUME VerAssumption == NoVer \notin Ver /\ TornFile.c \notin Ver

VARIABLES
    champion, \* experiment store: resolve_champion
    params,   \* config/params_snapshot.json in the working tree
    commits,  \* git: the committed snapshots, a stamp being a position here
    art,      \* per leg the built single file in the working tree
    kept,     \* ... and the one last committed
    main,     \* per leg main.py in its strategy directory
    bak,      \* per leg the main.py.bak_<stamp> beside it
    ran,      \* per leg the builds it was started with, so far
    pending,  \* the package: what it describes and the stamps it found
    watch,    \* the watch at work: its step, the stamps it read
    deploy,   \* the deployment at work: its step, its leg, the stamps of its package
    job       \* job_ledger: the status of the last watch

vars == <<champion, params, commits, art, kept, main, bak, ran,
          pending, watch, deploy, job>>

Stamp == Unknown .. MaxCommits  \* 0: none could be read ("pre")
Builds == [c : Ver, stamp : Stamp]
Files == Builds \cup {NoBuild, TornFile}
Idle == [at |-> "idle", stamps |-> NoPackage.stamps]
Steps == {"commit", "build", "keep", "replace", "write", "relaunch"}

TypeOK ==
    /\ champion \in Ver \cup {NoVer} /\ params \in Ver /\ commits \in Seq(Ver)
    /\ Len(commits) \in 1 .. MaxCommits
    /\ art \in [Leg -> Builds] /\ main \in [Leg -> Files]
    /\ kept \in [Leg -> Builds] /\ ran \in [Leg -> SUBSET Builds]
    /\ bak \in [Leg -> [Stamp -> Files]]
    /\ pending \in [c : Ver, stamps : [Leg -> Stamp]] \cup {NoPackage}
    /\ watch \in [at : {"idle", "export", "pack"}, stamps : [Leg -> Stamp]]
    /\ deploy \in [at : Steps \cup {"idle"}, leg : Leg, stamps : [Leg -> Stamp]]
    /\ job \in {"none", "running", "done", "failed"}

Init ==
    /\ champion \in Ver \cup {NoVer} /\ params \in Ver /\ commits = <<params>>
    /\ art = [l \in Leg |-> [c |-> params, stamp |-> 1]]
    /\ main = art /\ kept = art /\ ran = [l \in Leg |-> {art[l]}]
    /\ bak = [l \in Leg |-> [s \in Stamp |-> NoBuild]]
    /\ pending = NoPackage /\ watch = Idle /\ job = "none"
    /\ deploy \in [at : {"idle"}, leg : Leg, stamps : {NoPackage.stamps}]

\* The other one of the two is not at work, or that is not waited for.
Free(other) == other.at = "idle" \/ "overlap" \in Faults

(***************************************************************************)
(* The experiment store: a promotion replaces the champion at any time.    *)
(***************************************************************************)
Promote(v) ==
    /\ v # champion /\ champion' = v
    /\ UNCHANGED <<params, commits, art, kept, main, bak, ran, pending, watch, deploy, job>>

(***************************************************************************)
(* watch, 18:50 on working days.                                           *)
(***************************************************************************)
\* Variant: nothing is compared while a package waits.
DivergedUnlessPacked ==
    champion # NoVer /\ params # champion /\ pending = NoPackage

\* Whether the snapshot lags; the stamps of the legs are read and not compared.
Diverged == champion # NoVer /\ params # champion

\* deployed_stamp imports main.py; whatever goes wrong there is no stamp at all.
ReadStamps(l) == {main[l].stamp} \cup (IF "probe" \in Faults THEN {0} ELSE {})

WatchDetect ==
    /\ watch.at = "idle" /\ Free(deploy)
    /\ IF Diverged
       THEN /\ \E s \in [Leg -> Stamp] :
                 /\ \A l \in Leg : s[l] \in ReadStamps(l)
                 /\ watch' = [at |-> "export", stamps |-> s]
            /\ job' = "running"
       ELSE job' = "done" /\ UNCHANGED watch
    /\ UNCHANGED <<champion, params, commits, art, kept, main, bak, ran, pending, deploy>>

\* export_snapshot asks the store again, and writes the snapshot as its last step
\* but one: the pool of symbols and the package are still to be written then.
WatchExport ==
    /\ watch.at = "export" /\ watch' = [watch EXCEPT !.at = "pack"]
    /\ params' = champion
    /\ UNCHANGED <<champion, commits, art, kept, main, bak, ran, pending, deploy, job>>

\* Before the snapshot is written, or after: a package half written cannot be read.
WatchFails ==
    /\ watch' = Idle
    /\ \/ watch.at = "export" /\ "export" \in Faults /\ job' = "failed" /\ UNCHANGED pending
       \/ /\ watch.at = "pack" /\ "pack" \in Faults /\ job' \in {"failed", "running"}
          /\ pending' \in {pending, NoPackage}
    /\ UNCHANGED <<champion, params, commits, art, kept, main, bak, ran, deploy>>

\* Variant: a package that waits is left as it is.
PackageUnlessWaiting ==
    IF pending # NoPackage THEN pending ELSE [c |-> params, stamps |-> watch.stamps]

\* The parameters it describes are those of the snapshot after the export.
Package == [c |-> params, stamps |-> watch.stamps]

WatchPack ==
    /\ watch.at = "pack" /\ watch' = Idle /\ job' = "done"
    /\ pending' = Package
    /\ UNCHANGED <<champion, params, commits, art, kept, main, bak, ran, deploy>>

(***************************************************************************)
(* deploy(leg, execute=True), outside trading hours; --allow-main for the  *)
(* main leg.                                                               *)
(***************************************************************************)
\* Variant: the build comes first, its commit with that of the snapshot.
FirstStepBuild == "build"

FirstStep == "commit"

DeployStart(l) ==
    /\ deploy.at = "idle" /\ Free(watch)
    /\ pending # NoPackage /\ Len(commits) < MaxCommits
    /\ deploy' = [at |-> FirstStep, leg |-> l, stamps |-> pending.stamps]
    /\ UNCHANGED <<champion, params, commits, art, kept, main, bak, ran, pending, watch, job>>

Goes(step, next) == deploy.at = step /\ deploy' = [deploy EXCEPT !.at = next]
Ends == deploy' = [deploy EXCEPT !.at = "idle", !.stamps = NoPackage.stamps]

CommitConfig ==
    /\ Goes("commit", "build")
    /\ commits' = IF Last(commits) = params THEN commits ELSE Append(commits, params)
    /\ UNCHANGED <<champion, params, art, kept, main, bak, ran, pending, watch, job>>

\* Variant: the stamp of the commit that is to hold the build.
BuildStampsNext == {Len(commits) + 1}

\* git log -1 over the inputs of the build; without an answer the build goes on.
BuildStamps == {Len(commits)} \cup (IF "git" \in Faults THEN {Unknown} ELSE {})

Build ==
    /\ Goes("build", "keep")
    /\ \E s \in BuildStamps : art' = [art EXCEPT ![deploy.leg] = [c |-> params, stamp |-> s]]
    /\ UNCHANGED <<champion, params, commits, kept, main, bak, ran, pending, watch, job>>

CommitBuild ==
    /\ Goes("keep", "replace")
    /\ kept' = [kept EXCEPT ![deploy.leg] = art[deploy.leg]]
    /\ UNCHANGED <<champion, params, commits, art, main, bak, ran, pending, watch, job>>

\* Variant: the file moved aside always has the same name.
BakNameFixed(l) == 0

BakName(l) == deploy.stamps[l]

\* Moving a main.py that an earlier attempt left moved raises.
Replace ==
    /\ main[deploy.leg] # NoBuild
    /\ Goes("replace", "write")
    /\ bak' = [bak EXCEPT ![deploy.leg][BakName(deploy.leg)] = main[deploy.leg]]
    /\ main' = [main EXCEPT ![deploy.leg] = NoBuild]
    /\ UNCHANGED <<champion, params, commits, art, kept, ran, pending, watch, job>>

Write ==
    /\ Goes("write", "relaunch")
    /\ main' = [main EXCEPT ![deploy.leg] = art[deploy.leg]]
    /\ UNCHANGED <<champion, params, commits, art, kept, bak, ran, pending, watch, job>>

\* The exit code of the restart is not read; the package is used up.
Relaunch ==
    /\ deploy.at = "relaunch" /\ Ends
    /\ ran' = [ran EXCEPT ![deploy.leg] = @ \cup {main[deploy.leg]}]
    /\ pending' = NoPackage
    /\ UNCHANGED <<champion, params, commits, art, kept, main, bak, watch, job>>

\* A step raises, or the person stops the deployment: the package stays.
DeployFails ==
    /\ \/ deploy.at \in Faults /\ UNCHANGED main
       \/ deploy.at = "replace" /\ main[deploy.leg] = NoBuild /\ UNCHANGED main
       \/ /\ deploy.at = "write" /\ "torn" \in Faults
          /\ main' = [main EXCEPT ![deploy.leg] = TornFile]
    /\ Ends
    /\ UNCHANGED <<champion, params, commits, art, kept, bak, ran, pending, watch, job>>

\* What the watch has exported is thrown away; its package stays.
Checkout ==
    /\ "checkout" \in Faults /\ Free(watch) /\ Free(deploy)
    /\ params' = Last(commits)
    /\ UNCHANGED <<champion, commits, art, kept, main, bak, ran, pending, watch, deploy, job>>

WatchStep == WatchExport \/ WatchFails \/ WatchPack
DeployStep ==
    \/ CommitConfig \/ Build \/ CommitBuild \/ Replace \/ Write \/ Relaunch \/ DeployFails

Next ==
    \/ \E v \in Ver : Promote(v)
    \/ WatchDetect \/ WatchStep
    \/ \E l \in Leg : DeployStart(l)
    \/ DeployStep
    \/ Checkout

Spec == Init /\ [][Next]_vars

\* The scheduler runs the watch every working day, and of the exports and the
\* packages not all fail; a deployment begun comes to an end.
Fairness ==
    /\ SF_vars(WatchDetect) /\ SF_vars(WatchExport) /\ SF_vars(WatchPack)
    /\ WF_vars(WatchStep)
    /\ WF_vars(DeployStep)

FairSpec == Spec /\ Fairness

-----------------------------------------------------------------------------
\* The stamp a leg shows names no commit (it is unknown), or names the commit of
\* the very parameters the leg trades with: build_pilot reads the working tree and
\* stamps what git has last, whatever failed or was thrown away before.
StampTells ==
    \A l \in Leg : \A b \in ran[l] \cup ({main[l]} \ {NoBuild, TornFile}) :
        b.stamp # Unknown => b.stamp \in DOMAIN commits /\ b.c = commits[b.stamp]

\* The way back is never lost: whatever a leg was once started with is in its
\* directory still, as main.py or under one of the names of the bak chain.
OldKept ==
    \A l \in Leg : ran[l] \subseteq {main[l]} \cup Range(bak[l])

\* Whatever happens between the package and the last step, a leg is given only
\* the parameters that the package shown to the person describes.
PlanTells ==
    [][\A l \in Leg :
           main'[l] \notin {main[l], NoBuild, TornFile} => main'[l].c = pending.c]_vars

Prepared(v) ==
    \/ pending.c = v /\ params = v
    \/ \E l \in Leg : main[l].c = v

\* A champion that stays is brought before a person, or is in a leg already, if
\* exports fail before they write, deployments fail and packages are replaced; an
\* export that fails after it has written the snapshot is another matter.
ChampionIsPrepared ==
    \A v \in Ver : (champion = v) ~> (champion # v \/ Prepared(v))
=============================================================================
