---------------------------- MODULE DeployProofs ----------------------------
(***************************************************************************)
(* Proofs about Deploy, for every set of champions and legs, every bound   *)
(* and every set of faults: types; and, each under an assumption that says *)
(* which faults it does not survive, the stamp of a build, what a leg is   *)
(* given and that the way back is kept.                                    *)
(***************************************************************************)
EXTENDS Deploy, TLAPS

(***************************************************************************)
(* The inductive invariant, in parts.                                      *)
(***************************************************************************)
\* The watch and a deployment take turns.
TakeTurns == "overlap" \notin Faults

\* The stamp of a build, unless unknown, tells its parameters.
Right(b) == b.stamp # Unknown => b.stamp \in DOMAIN commits /\ b.c = commits[b.stamp]

\* What the steps done so far have established for the types of the next ones.
Begun ==
    /\ watch.at = "export" => champion \in Ver
    /\ deploy.at = "commit" => Len(commits) < MaxCommits
    /\ deploy.at = "relaunch" => main[deploy.leg] \in Builds

\* The two exclude each other, and a deployment has the package in force.
Apart ==
    /\ watch.at = "idle" \/ deploy.at = "idle"
    /\ deploy.at # "idle" => pending # NoPackage /\ deploy.stamps = pending.stamps

\* ... and for what is built and installed.
Staged ==
    /\ deploy.at = "build" => commits[Len(commits)] = params
    /\ deploy.at \in {"keep", "replace", "write", "relaunch"} => art[deploy.leg].c = params
    /\ deploy.at = "write" => main[deploy.leg] = NoBuild

BuildsRight ==
    \A l \in Leg :
        /\ Right(art[l])
        /\ main[l] \notin {NoBuild, TornFile} => Right(main[l])
        /\ \A b \in ran[l] : Right(b)

TypeInv == TypeOK /\ Begun

StampInv == TypeInv /\ Apart /\ Staged /\ BuildsRight

-----------------------------------------------------------------------------
LEMMA NoStamps == 0 \in Stamp /\ NoPackage.stamps \in [Leg -> Stamp]
<1>1. 0 \in Stamp
  BY BoundAssumption DEF Stamp, Unknown
<1> QED
  BY <1>1 DEF NoPackage

LEMMA TypeInit == Init => TypeInv
<1> SUFFICES ASSUME Init PROVE TypeInv
  OBVIOUS
<1> USE BoundAssumption DEF Init, Stamp, Builds, Files, NoPackage, Unknown
<1>1. 0 \in Stamp /\ 1 \in Stamp
  OBVIOUS
<1>2. commits \in Seq(Ver) /\ Len(commits) = 1
  OBVIOUS
<1>3. art \in [Leg -> Builds]
  OBVIOUS
<1>4. watch \in [at : {"idle", "export", "pack"}, stamps : [Leg -> Stamp]]
  BY DEF Idle
<1> QED
  BY <1>1, <1>2, <1>3, <1>4 DEF TypeInv, Begun, TypeOK, Steps, Idle

LEMMA TypeStep == TypeInv /\ [Next]_vars => TypeInv'
<1> SUFFICES ASSUME TypeInv, [Next]_vars PROVE TypeOK' /\ Begun'
  BY DEF TypeInv
<1> USE BoundAssumption DEF TypeInv, Begun, TypeOK, Stamp, Builds, Files, Steps, Unknown
<1> DEFINE Goal == TypeOK' /\ Begun'
<1>1. ASSUME NEW v \in Ver, Promote(v) PROVE Goal
  BY <1>1 DEF Promote
<1>2. CASE WatchDetect
  <2>1. watch' \in [at : {"idle", "export", "pack"}, stamps : [Leg -> Stamp]]
    <3>1. CASE Diverged
      <4>1. PICK s \in [Leg -> Stamp] : watch' = [at |-> "export", stamps |-> s]
        BY <1>2, <3>1 DEF WatchDetect
      <4> QED
        BY <4>1
    <3>2. CASE ~Diverged
      BY <1>2, <3>2 DEF WatchDetect
    <3> QED
      BY <3>1, <3>2
  <2>2. watch'.at = "export" => champion' \in Ver
    BY <1>2 DEF WatchDetect, Diverged
  <2> QED
    BY <1>2, <2>1, <2>2 DEF WatchDetect
<1>3. CASE WatchExport
  BY <1>3 DEF WatchExport
<1>4. CASE WatchFails
  BY <1>4, NoStamps DEF WatchFails, Idle
<1>5. CASE WatchPack
  BY <1>5, NoStamps DEF WatchPack, Package, Idle
<1>6. ASSUME NEW l \in Leg, DeployStart(l) PROVE Goal
  <2>1. pending.stamps \in [Leg -> Stamp]
    BY NoStamps
  <2> QED
    BY <1>6, <2>1 DEF DeployStart, FirstStep
<1>7. CASE CommitConfig
  <2>1. /\ Append(commits, params) \in Seq(Ver)
        /\ Len(Append(commits, params)) = Len(commits) + 1
    OBVIOUS
  <2>2. commits' \in Seq(Ver) /\ Len(commits') \in 1 .. MaxCommits
    BY <1>7, <2>1 DEF CommitConfig, Goes
  <2> QED
    BY <1>7, <2>2 DEF CommitConfig, Goes
<1>8. CASE Build
  <2>1. PICK s \in BuildStamps : art' = [art EXCEPT ![deploy.leg] = [c |-> params, stamp |-> s]]
    BY <1>8 DEF Build
  <2>2. [c |-> params, stamp |-> s] \in Builds
    BY <2>1 DEF BuildStamps
  <2> QED
    BY <1>8, <2>1, <2>2 DEF Build, Goes
<1>9. CASE CommitBuild
  BY <1>9 DEF CommitBuild, Goes
<1>10. CASE Replace
  BY <1>10 DEF Replace, Goes, BakName
<1>11. CASE Write
  BY <1>11 DEF Write, Goes
<1>12. CASE Relaunch
  BY <1>12, NoStamps DEF Relaunch, Ends
<1>13. CASE DeployFails
  <2>1. main' \in [Leg -> Files]
    BY <1>13 DEF DeployFails
  <2> QED
    BY <1>13, <2>1, NoStamps DEF DeployFails, Ends
<1>14. CASE UNCHANGED vars
  BY <1>14 DEF vars
<1>15. CASE Checkout
  <2>1. Last(commits) \in Ver
    BY DEF Last
  <2> QED
    BY <1>15, <2>1 DEF Checkout
<1> QED
  BY <1>1, <1>2, <1>3, <1>4, <1>5, <1>6, <1>7, <1>8, <1>9, <1>10, <1>11, <1>12, <1>13,
     <1>14, <1>15 DEF Next, WatchStep, DeployStep

LEMMA StampInit == Init => StampInv
<1> SUFFICES ASSUME Init PROVE StampInv
  OBVIOUS
<1>1. TypeInv
  BY TypeInit
<1>2. Apart /\ Staged
  BY DEF Init, Idle, Apart, Staged
<1>3. BuildsRight
  BY DEF Init, BuildsRight, Right
<1> QED
  BY <1>1, <1>2, <1>3 DEF StampInv

\* Once committed, a snapshot keeps its stamp.
LEMMA StampsLast ==
  ASSUME TypeOK, Len(commits') \in Nat, Len(commits') >= Len(commits),
         DOMAIN commits' = 1 .. Len(commits'),
         \A i \in 1 .. Len(commits) : commits'[i] = commits[i],
         NEW b, Right(b)
  PROVE  b.stamp # Unknown => b.stamp \in DOMAIN commits' /\ b.c = commits'[b.stamp]
BY DEF TypeOK, Right

LEMMA StampStep == ASSUME TakeTurns PROVE StampInv /\ [Next]_vars => StampInv'
<1> SUFFICES ASSUME StampInv, [Next]_vars PROVE StampInv'
  OBVIOUS
<1>0. TypeInv' /\ TypeOK /\ TypeOK' /\ Begun
  BY TypeStep DEF StampInv, TypeInv
<1> USE <1>0 DEF StampInv, Right
<1> DEFINE Rest == Apart /\ Staged /\ BuildsRight
<1>1. ASSUME NEW v \in Ver, Promote(v) PROVE Rest'
  BY <1>1 DEF Promote, Apart, Staged, BuildsRight
<1>2. CASE WatchDetect
  BY <1>2 DEF WatchDetect, Free, TakeTurns, Apart, Staged, BuildsRight
<1>3. CASE WatchExport
  BY <1>3 DEF WatchExport, Apart, Staged, BuildsRight, TypeOK
<1>4. CASE WatchFails
  BY <1>4 DEF WatchFails, Idle, Apart, Staged, BuildsRight
<1>5. CASE WatchPack
  BY <1>5 DEF WatchPack, Package, Idle, Apart, Staged, BuildsRight, TypeOK
<1>6. ASSUME NEW l \in Leg, DeployStart(l) PROVE Rest'
  BY <1>6 DEF DeployStart, FirstStep, Free, TakeTurns, Apart, Staged, BuildsRight
<1>7. CASE CommitConfig
  <2>1. /\ commits[Len(commits)] = params => commits' = commits
        /\ commits[Len(commits)] # params => commits' = Append(commits, params)
    BY <1>7 DEF CommitConfig, Last
  <2>2. /\ commits'[Len(commits')] = params
        /\ Len(commits') \in Nat /\ Len(commits') >= Len(commits)
        /\ DOMAIN commits' = 1 .. Len(commits')
        /\ \A i \in 1 .. Len(commits) : commits'[i] = commits[i]
    BY <2>1 DEF TypeOK
  <2>3. \A b : Right(b) => (b.stamp # Unknown => b.stamp \in DOMAIN commits'
                                                 /\ b.c = commits'[b.stamp])
    BY <2>2, StampsLast
  <2>4. BuildsRight'
    BY <1>7, <2>3 DEF CommitConfig, Goes, BuildsRight
  <2> QED
    BY <1>7, <2>2, <2>4 DEF CommitConfig, Goes, Apart, Staged, TypeOK
<1>8. CASE Build
  <2>1. PICK s \in BuildStamps : art' = [art EXCEPT ![deploy.leg] = [c |-> params, stamp |-> s]]
    BY <1>8 DEF Build
  <2>2. s # Unknown => s \in DOMAIN commits /\ params = commits[s]
    BY <1>8, <2>1 DEF Build, Goes, BuildStamps, Staged, TypeOK
  <2> QED
    BY <1>8, <2>1, <2>2 DEF Build, Goes, Apart, Staged, BuildsRight, TypeOK
<1>9. CASE CommitBuild
  BY <1>9 DEF CommitBuild, Goes, Apart, Staged, BuildsRight, TypeOK
<1>10. CASE Replace
  BY <1>10 DEF Replace, Goes, Apart, Staged, BuildsRight, TypeOK
<1>11. CASE Write
  <2>1. main' = [main EXCEPT ![deploy.leg] = art[deploy.leg]]
    BY <1>11 DEF Write
  <2>2. BuildsRight'
    BY <1>11, <2>1 DEF Write, BuildsRight, TypeOK
  <2> QED
    BY <1>11, <2>1, <2>2 DEF Write, Goes, Apart, Staged, TypeOK
<1>12. CASE Relaunch
  <2>1. main[deploy.leg] \notin {NoBuild, TornFile}
    BY <1>12, VerAssumption DEF Relaunch, Begun, Builds, NoBuild, TornFile
  <2> QED
    BY <1>12, <2>1 DEF Relaunch, Ends, Apart, Staged, BuildsRight, TypeOK
<1>13. CASE DeployFails
  <2>1. main' = main \/ main' = [main EXCEPT ![deploy.leg] = TornFile]
    BY <1>13 DEF DeployFails
  <2>2. BuildsRight'
    <3>1. CASE main' = main
      BY <1>13, <3>1 DEF DeployFails, BuildsRight
    <3>2. CASE main' = [main EXCEPT ![deploy.leg] = TornFile]
      BY <1>13, <3>2 DEF DeployFails, BuildsRight, TypeOK
    <3> QED
      BY <2>1, <3>1, <3>2
  <2> QED
    BY <1>13, <2>2 DEF DeployFails, Ends, Apart, Staged, TypeOK
<1>14. CASE UNCHANGED vars
  BY <1>14 DEF vars, Apart, Staged, BuildsRight
<1>15. CASE Checkout
  BY <1>15 DEF Checkout, Free, TakeTurns, Apart, Staged, BuildsRight
<1> QED
  BY <1>1, <1>2, <1>3, <1>4, <1>5, <1>6, <1>7, <1>8, <1>9, <1>10, <1>11, <1>12, <1>13,
     <1>14, <1>15 DEF Next, WatchStep, DeployStep

\* Every variable keeps its type, under all of the faults: a champion once found
\* stays one while it is exported, and a commit is made only within the bound.
THEOREM TypeCorrect == Spec => []TypeOK
<1>1. TypeInv => TypeOK
  BY DEF TypeInv
<1> QED
  BY <1>1, TypeInit, TypeStep, PTL DEF Spec

\* If the watch and a deployment take turns, the stamp a leg shows is unknown or
\* tells the commit of the parameters it trades with: the build comes after the
\* commit of the snapshot, and no export comes between.
THEOREM StampsTell == ASSUME TakeTurns PROVE Spec => []StampTells
<1>1. StampInv => StampTells
  BY DEF StampInv, BuildsRight, Right, StampTells
<1>2. StampInv /\ [Next]_vars => StampInv'
  BY StampStep
<1> QED
  BY <1>1, <1>2, StampInit, PTL DEF Spec

-----------------------------------------------------------------------------
(***************************************************************************)
(* The package.                                                            *)
(***************************************************************************)
\* No watch ends between the snapshot and its package, and no package is given up
\* with git checkout.
PackagesHold == TakeTurns /\ "pack" \notin Faults /\ "checkout" \notin Faults

\* A package describes the snapshot, except between an export and its package.
Described == watch.at # "pack" /\ pending # NoPackage => pending.c = params

LEMMA DescribedStep ==
  ASSUME PackagesHold PROVE StampInv /\ Described /\ [Next]_vars => Described'
<1> SUFFICES ASSUME StampInv, Described, [Next]_vars PROVE Described'
  OBVIOUS
<1> USE DEF StampInv, TypeInv, Described
<1>1. CASE WatchExport \/ WatchFails \/ WatchPack
  BY <1>1 DEF WatchExport, WatchFails, WatchPack, Package, Idle, PackagesHold, TypeOK
<1>2. CASE ~(WatchExport \/ WatchFails \/ WatchPack)
  <2>1. UNCHANGED params /\ pending' \in {pending, NoPackage}
    BY <1>2 DEF Next, vars, Promote, WatchDetect, WatchStep, DeployStart, DeployStep,
       CommitConfig, Build, CommitBuild, Replace, Write, Relaunch, DeployFails, Checkout,
       PackagesHold
  <2>2. watch' = watch \/ watch.at = "idle"
    BY <1>2 DEF Next, vars, Promote, WatchDetect, WatchStep, DeployStart, DeployStep,
       CommitConfig, Build, CommitBuild, Replace, Write, Relaunch, DeployFails, Checkout
  <2> QED
    BY <2>1, <2>2
<1> QED
  BY <1>1, <1>2

\* A leg is given only the parameters that the package in force describes.
THEOREM PlansTell == ASSUME PackagesHold PROVE Spec => PlanTells
<1>1. StampInv /\ Described /\ [Next]_vars =>
        [\A l \in Leg : main'[l] \notin {main[l], NoBuild, TornFile}
                          => main'[l].c = pending.c]_vars
  <2> SUFFICES ASSUME StampInv, Described, Next, NEW l \in Leg,
                      main'[l] \notin {main[l], NoBuild, TornFile}
               PROVE  main'[l].c = pending.c
    OBVIOUS
  <2> USE DEF StampInv, TypeInv
  <2>1. ~ UNCHANGED main
    OBVIOUS
  <2>2. CASE Replace
    BY <2>2 DEF Replace, TypeOK
  <2>3. CASE Write
    <3>1. deploy.leg = l /\ main'[l] = art[l]
      BY <2>3 DEF Write, TypeOK
    <3>2. art[l].c = params /\ pending # NoPackage /\ watch.at = "idle"
      BY <2>3, <3>1 DEF Write, Goes, Staged, Apart
    <3> QED
      BY <3>1, <3>2 DEF Described
  <2>4. CASE DeployFails
    BY <2>4 DEF DeployFails, TypeOK
  <2> QED
    BY <2>1, <2>2, <2>3, <2>4 DEF Next, Promote, WatchDetect, WatchStep, WatchExport,
       WatchFails, WatchPack, DeployStart, DeployStep, CommitConfig, Build, CommitBuild,
       Relaunch, Checkout
<1>2. StampInv /\ [Next]_vars => StampInv'
  BY StampStep DEF PackagesHold
<1>3. Init => Described
  BY DEF Init, Described
<1>4. StampInv /\ Described /\ [Next]_vars => Described'
  BY DescribedStep
<1> QED
  BY <1>1, <1>2, <1>3, <1>4, StampInit, PTL DEF Spec, PlanTells

-----------------------------------------------------------------------------
(***************************************************************************)
(* The bak chain.                                                          *)
(***************************************************************************)
\* Every main.py is moved aside under a name of its own: its stamp names a commit
\* and is read, it is written whole, the restart answers in time.
NamesHold == TakeTurns /\ Faults \cap {"git", "probe", "torn", "relaunch"} = {}

\* The stamps the watch reads, and a package records, are those of the legs now.
Recorded ==
    /\ watch.at # "idle" => \A l \in Leg : watch.stamps[l] = main[l].stamp
    /\ pending # NoPackage =>
         \A l \in Leg :
             \/ main[l] = NoBuild
             \/ deploy.at = "relaunch" /\ deploy.leg = l
             \/ pending.stamps[l] = main[l].stamp

\* What is built and installed is whole and names a commit.
Known ==
    \A l \in Leg :
        art[l].stamp # Unknown /\ main[l].stamp # Unknown /\ main[l] # TornFile

\* A file moved aside has its own stamp in its name.
Named ==
    \A l \in Leg : \A s \in Stamp :
        bak[l][s] # NoBuild =>
            s # Unknown /\ bak[l][s] # TornFile /\ Right(bak[l][s]) /\ bak[l][s].stamp = s

Held == \A l \in Leg : \A b \in ran[l] : b = main[l] \/ \E s \in Stamp : b = bak[l][s]

KeptInv == StampInv /\ Recorded /\ Known /\ Named /\ Held

LEMMA KeptInit == Init => KeptInv
<1> SUFFICES ASSUME Init PROVE KeptInv
  OBVIOUS
<1>1. StampInv
  BY StampInit
<1>2. Recorded /\ Named /\ Held
  BY DEF Init, Idle, Recorded, Named, Held
<1>3. Known
  BY DEF Init, Known, Unknown, TornFile
<1> QED
  BY <1>1, <1>2, <1>3 DEF KeptInv

LEMMA KnownStep == ASSUME NamesHold PROVE StampInv /\ Known /\ [Next]_vars => Known'
<1> SUFFICES ASSUME StampInv, Known, [Next]_vars PROVE Known'
  OBVIOUS
<1> USE BoundAssumption DEF StampInv, TypeInv, TypeOK, NamesHold, Known
<1>1. CASE Build
  <2>1. art' = [art EXCEPT ![deploy.leg] = [c |-> params, stamp |-> Len(commits)]]
    BY <1>1 DEF Build, BuildStamps
  <2> QED
    BY <1>1, <2>1 DEF Build, Unknown
<1>2. CASE Replace
  BY <1>2 DEF Replace, NoVer, NoBuild, TornFile, Unknown, TypeOK
<1>3. CASE Write
  <2>1. art[deploy.leg] # TornFile
    <3>1. art[deploy.leg].stamp \in DOMAIN commits
      BY DEF BuildsRight, Right
    <3> QED
      BY <3>1 DEF TornFile
  <2> QED
    BY <1>3, <2>1 DEF Write
<1>4. CASE DeployFails
  BY <1>4 DEF DeployFails
<1>5. CASE ~(Build \/ Replace \/ Write \/ DeployFails)
  BY <1>5 DEF Next, vars, Promote, WatchDetect, WatchStep, WatchExport, WatchFails, WatchPack,
     DeployStart, DeployStep, CommitConfig, CommitBuild, Relaunch, Checkout
<1> QED
  BY <1>1, <1>2, <1>3, <1>4, <1>5

LEMMA KeptStep == ASSUME NamesHold PROVE KeptInv /\ [Next]_vars => KeptInv'
<1> SUFFICES ASSUME KeptInv, [Next]_vars PROVE KeptInv'
  OBVIOUS
<1>0. StampInv /\ StampInv' /\ TypeOK /\ TypeOK' /\ Known /\ Known'
  BY StampStep, KnownStep DEF KeptInv, StampInv, TypeInv, NamesHold
<1> USE <1>0 DEF KeptInv
<1> DEFINE Rest == Recorded /\ Named /\ Held
\* Steps that leave the legs' directories, the commits and the package alone.
<1>1. ASSUME UNCHANGED <<commits, main, bak, ran, pending>>, watch' = watch \/ watch'.at = "idle",
             deploy'.at = "relaunch" <=> deploy.at = "relaunch", deploy'.leg = deploy.leg
      PROVE  Rest'
  BY <1>1 DEF Recorded, Named, Right, Held
<1>2. ASSUME NEW v \in Ver, Promote(v) PROVE Rest'
  BY <1>1, <1>2 DEF Promote
<1>3. CASE WatchDetect
  <2>1. Recorded'
    BY <1>3 DEF WatchDetect, ReadStamps, NamesHold, Recorded
  <2> QED
    BY <1>3, <2>1 DEF WatchDetect, Named, Right, Held
<1>4. CASE WatchExport
  BY <1>4 DEF WatchExport, Recorded, Named, Right, Held, TypeOK
<1>5. CASE WatchFails
  <2>1. Recorded'
    BY <1>5 DEF WatchFails, Recorded, Idle
  <2> QED
    BY <1>5, <2>1 DEF WatchFails, Named, Right, Held
<1>6. CASE WatchPack
  <2>1. Recorded'
    BY <1>6 DEF WatchPack, Package, Recorded, Idle
  <2> QED
    BY <1>6, <2>1 DEF WatchPack, Named, Right, Held
<1>7. ASSUME NEW l \in Leg, DeployStart(l) PROVE Rest'
  BY <1>7 DEF DeployStart, FirstStep, Recorded, Named, Right, Held
<1>8. CASE CommitConfig
  <2>1. commits' = commits \/ commits' = Append(commits, params)
    BY <1>8 DEF CommitConfig
  <2>2. /\ Len(commits') \in Nat /\ Len(commits') >= Len(commits)
        /\ DOMAIN commits' = 1 .. Len(commits')
        /\ \A i \in 1 .. Len(commits) : commits'[i] = commits[i]
    BY <2>1 DEF TypeOK
  <2>3. Named'
    BY <1>8, <2>2, StampsLast DEF CommitConfig, Named, Right
  <2> QED
    BY <1>8, <2>3 DEF CommitConfig, Goes, Recorded, Held, TypeOK
<1>9. CASE Build \/ CommitBuild
  BY <1>1, <1>9 DEF Build, CommitBuild, Goes, TypeOK
<1>10. CASE Replace
  <2> DEFINE leg == deploy.leg
             name == deploy.stamps[leg]
             now == main[leg]
  <2>1. /\ deploy.at = "replace" /\ now # NoBuild /\ leg \in Leg /\ name \in Stamp
        /\ bak' = [bak EXCEPT ![leg] = [bak[leg] EXCEPT ![name] = now]]
        /\ main' = [main EXCEPT ![leg] = NoBuild]
        /\ deploy' = [deploy EXCEPT !.at = "write"]
        /\ UNCHANGED <<commits, ran, pending, watch>>
    BY <1>10 DEF Replace, Goes, BakName, TypeOK
  <2>2. name = now.stamp /\ name # Unknown /\ now # TornFile /\ Right(now)
    BY <2>1 DEF Recorded, Known, StampInv, Apart, BuildsRight
  \* What it is moved over, if anything, is the same file.
  <2>3. bak[leg][name] # NoBuild => bak[leg][name] = now
    <3>1. bak[leg][name] # NoBuild =>
            /\ bak[leg][name] \in Builds /\ now \in Builds
            /\ bak[leg][name].stamp = now.stamp /\ bak[leg][name].c = now.c
      BY <2>1, <2>2 DEF Named, Right, TypeOK, Files
    <3> QED
      BY <3>1 DEF Builds
  <2>4. Named'
    BY <2>1, <2>2 DEF Named, Right, TypeOK
  <2>5. Recorded'
    BY <2>1 DEF Recorded, StampInv, Apart, TypeOK
  <2>6. ASSUME NEW l \in Leg, NEW b \in ran[l]
        PROVE  b = main'[l] \/ \E s \in Stamp : b = bak'[l][s]
    <3>1. b # NoBuild
      BY VerAssumption DEF TypeOK, Builds, NoBuild
    <3>2. CASE l # leg
      BY <2>1, <3>2 DEF Held, TypeOK
    <3>3. CASE l = leg
      <4>1. bak'[leg][name] = now
        BY <2>1 DEF TypeOK
      <4>2. \A s \in Stamp : s # name => bak'[leg][s] = bak[leg][s]
        BY <2>1 DEF TypeOK
      <4>3. b = now \/ \E s \in Stamp : b = bak[leg][s]
        BY <3>3 DEF Held
      <4> QED
        BY <2>1, <2>3, <3>1, <3>3, <4>1, <4>2, <4>3
    <3> QED
      BY <3>2, <3>3
  <2> QED
    BY <2>1, <2>4, <2>5, <2>6 DEF Held
<1>11. CASE Write
  <2>1. /\ deploy.at = "write" /\ deploy.leg \in Leg /\ main[deploy.leg] = NoBuild
        /\ main' = [main EXCEPT ![deploy.leg] = art[deploy.leg]]
        /\ deploy' = [deploy EXCEPT !.at = "relaunch"]
        /\ UNCHANGED <<commits, bak, ran, pending, watch>>
    BY <1>11 DEF Write, Goes, StampInv, Staged, TypeOK
  <2>2. Recorded'
    BY <2>1 DEF Recorded, StampInv, Apart, TypeOK
  <2>3. Held'
    <3>1. \A l \in Leg : \A b \in ran[l] : b # NoBuild
      BY VerAssumption DEF TypeOK, Builds, NoBuild
    <3> QED
      BY <2>1, <3>1 DEF Held, TypeOK
  <2> QED
    BY <2>1, <2>2, <2>3 DEF Named, Right
<1>12. CASE Relaunch
  <2>1. /\ pending' = NoPackage
        /\ ran' = [ran EXCEPT ![deploy.leg] = @ \cup {main[deploy.leg]}]
        /\ UNCHANGED <<commits, main, bak, watch>>
    BY <1>12 DEF Relaunch, Ends
  <2>2. Held'
    BY <2>1 DEF Held, TypeOK
  <2> QED
    BY <2>1, <2>2 DEF Recorded, Named, Right
<1>13. CASE DeployFails
  <2>1. deploy.at # "relaunch" /\ deploy'.at = "idle" /\ deploy'.leg = deploy.leg
        /\ UNCHANGED main
    BY <1>13 DEF DeployFails, Ends, NamesHold, TypeOK
  <2> QED
    BY <1>1, <1>13, <2>1 DEF DeployFails, TypeOK
<1>14. CASE UNCHANGED vars
  BY <1>1, <1>14 DEF vars
<1>15. CASE Checkout
  BY <1>1, <1>15 DEF Checkout
<1> QED
  BY <1>2, <1>3, <1>4, <1>5, <1>6, <1>7, <1>8, <1>9, <1>10, <1>11, <1>12, <1>13, <1>14, <1>15
     DEF Next, WatchStep, DeployStep

\* Whatever a leg was started with is in its directory still, if every stamp is
\* there and read, files are written whole, the restart answers and the watch does
\* not run meanwhile: the name under which a main.py is moved aside is then its own
\* stamp, so it replaces nothing but its equal.
THEOREM OldIsKept == ASSUME NamesHold PROVE Spec => []OldKept
<1>1. KeptInv => OldKept
  BY DEF KeptInv, StampInv, TypeInv, TypeOK, Held, OldKept, Range
<1>2. KeptInv /\ [Next]_vars => KeptInv'
  BY KeptStep
<1> QED
  BY <1>1, <1>2, KeptInit, PTL DEF Spec
=============================================================================
