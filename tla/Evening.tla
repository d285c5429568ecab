------------------------------ MODULE Evening ------------------------------
(***************************************************************************)
(* The evening of a trading day: pipeline_then_eod (trading/orchestrate/   *)
(* pipeline.py), which the server's scheduler calls at 18:00, over the     *)
(* daily lake.                                                             *)
(*                                                                         *)
(* The chain writes its row in the job ledger and runs ops/data_pipeline   *)
(* in a process of its own, which syncs the lake and then checks it, and   *)
(* syncs and checks again until it is fresh or 20:00 has struck.  The      *)
(* chain checks once more, records the outcome in data_ready, spawns the   *)
(* repair, has the brief sent and closes its row.  The server may be       *)
(* killed at any step; the process it started goes on.  A server that      *)
(* starts syncs what is stale, in a process of its own again.              *)
(***************************************************************************)
EXTENDS Lake

VARIABLES
    late,  \* the deadline has struck
    up,    \* the server runs
    row,   \* job_ledger: per day the status of the job "pipeline"
    ready, \* data_ready: per day what was last recorded of "daily"
    chain, \* where pipeline_then_eod is
    pipe,  \* where the process ops/data_pipeline.py is
    rc,    \* ... and its exit code so far is 0
    boot   \* a sync that the start of the server began beside the others

chainVars == <<late, up, row, ready, chain, pipe, rc, boot>>
vars == <<lakeVars, chainVars>>

Boot == INSTANCE Lake WITH sync <- boot

TypeOK ==
    /\ LakeTypeOK /\ Boot!LakeTypeOK /\ late \in BOOLEAN /\ up \in BOOLEAN /\ rc \in BOOLEAN
    /\ row \in [Day -> {"none", "running", "done", "failed"}]
    /\ ready \in [Day -> {"none", "ok", "melted"}]
    /\ chain \in {"idle", "wait", "verify", "brief", "close"}
    /\ pipe \in {"idle", "collect", "check", "again", "exit"}

Init ==
    /\ LakeInit /\ late = TRUE /\ up = TRUE /\ rc = TRUE
    /\ row = [d \in Day |-> "none"] /\ ready = [d \in Day |-> "none"]
    /\ chain = "idle" /\ pipe = "idle" /\ boot = Idle(NoTable)

Ask == sync' = [Idle(NoTable) EXCEPT !.at = "asked"]

(***************************************************************************)
(* The clock.  A repair gives up after thirty minutes and the sync of an   *)
(* evening is over by midnight, so a day begins with everything at rest.   *)
(***************************************************************************)
NextDay ==
    /\ chain = "idle" /\ pipe = "idle" /\ sync.at = "idle" /\ repair.at = "idle"
    /\ boot.at = "idle" /\ Dawn /\ late' = FALSE
    /\ UNCHANGED <<up, row, ready, chain, pipe, rc, boot>>

Deadline ==
    ~late /\ late' = TRUE /\ UNCHANGED <<lakeVars, up, row, ready, chain, pipe, rc, boot>>

Market == Publish /\ UNCHANGED chainVars

(***************************************************************************)
(* pipeline_then_eod: the 18:00 run, or a later one made by hand.          *)
(***************************************************************************)
Begin ==
    /\ up /\ chain = "idle" /\ sync.at = "idle" /\ row[today] \notin {"running", "done"}
    /\ row' = [row EXCEPT ![today] = "running"]
    /\ chain' = "wait" /\ pipe' = "collect" /\ rc' = TRUE /\ Ask
    /\ UNCHANGED <<today, out, ex, src, cuts, lake, pending, unfillable, repair,
                   late, up, ready, boot>>

Collected ==
    /\ chain = "wait" /\ pipe = "exit" /\ pipe' = "idle"
    /\ IF rc THEN chain' = "verify" /\ UNCHANGED row
       ELSE chain' = "idle" /\ row' = [row EXCEPT ![today] = "failed"]
    /\ UNCHANGED <<lakeVars, late, up, ready, rc, boot>>

\* The freshness decides, not the exit code; the repair starts on its own.
Verify ==
    /\ chain = "verify"
    /\ ready' = [ready EXCEPT ![today] = IF Fresh(lake) THEN "ok" ELSE "melted"]
    /\ IF Fresh(lake)
       THEN chain' = "brief" /\ UNCHANGED row /\ RepairSpawn
       ELSE chain' = "idle" /\ row' = [row EXCEPT ![today] = "failed"] /\ UNCHANGED repair
    /\ UNCHANGED <<today, out, ex, src, cuts, lake, pending, unfillable, sync,
                   late, up, pipe, rc, boot>>

Brief ==
    /\ chain = "brief" /\ chain' = "close"
    /\ UNCHANGED <<lakeVars, late, up, row, ready, pipe, rc, boot>>

Close ==
    /\ chain = "close" /\ chain' = "idle" /\ row' = [row EXCEPT ![today] = "done"]
    /\ UNCHANGED <<lakeVars, late, up, ready, pipe, rc, boot>>

(***************************************************************************)
(* ops/data_pipeline.py: collect, then run_check("t2").                    *)
(***************************************************************************)
PipeCollected ==
    /\ pipe = "collect" /\ sync.at = "idle" /\ pipe' = "check" /\ rc' = sync.ok
    /\ UNCHANGED <<lakeVars, late, up, row, ready, chain, boot>>

\* Variant: the deadline is not looked at.
MayTryAgainForever == TRUE

MayTryAgain == ~late

Check ==
    /\ pipe = "check"
    /\ \/ /\ Fresh(lake) /\ pipe' = "exit"
          /\ ready' = [ready EXCEPT ![today] = "ok"] /\ UNCHANGED <<sync, rc>>
       \/ /\ ~Fresh(lake) /\ MayTryAgain /\ pipe' = "again" /\ Ask
          /\ UNCHANGED <<ready, rc>>
       \/ /\ ~Fresh(lake) /\ ~MayTryAgain /\ pipe' = "exit" /\ rc' = FALSE
          /\ ready' = [ready EXCEPT ![today] = "melted"] /\ UNCHANGED sync
    /\ UNCHANGED <<today, out, ex, src, cuts, lake, pending, unfillable, repair,
                   late, up, row, chain, boot>>

\* How the new run of the sync ended is not looked at.
PipeAgain ==
    /\ pipe = "again" /\ sync.at = "idle" /\ pipe' = "check"
    /\ UNCHANGED <<lakeVars, late, up, row, ready, chain, rc, boot>>

\* The exit code of a process whose server was killed goes to nobody.
PipeOrphan ==
    /\ pipe = "exit" /\ chain = "idle" /\ pipe' = "idle"
    /\ UNCHANGED <<lakeVars, late, up, row, ready, chain, rc, boot>>

(***************************************************************************)
(* The server.                                                             *)
(***************************************************************************)
Kill ==
    /\ "down" \in Faults /\ up /\ up' = FALSE /\ chain' = "idle"
    /\ UNCHANGED <<lakeVars, late, row, ready, pipe, rc, boot>>

(***************************************************************************)
(* Start-up syncs what is stale (sweep_stale_on_startup).  Its sentinel    *)
(* keeps two such syncs apart, and keeps out neither the chain's own nor   *)
(* the repair: that they do not meet is a matter of time alone.  One that  *)
(* meets no other is the same as one of the chain's.                       *)
(***************************************************************************)
Restart ==
    /\ ~up /\ up' = TRUE
    /\ \/ pipe = "idle" /\ sync.at = "idle" /\ repair.at = "idle" /\ Ask /\ UNCHANGED boot
       \/ /\ "overlap" \in Faults /\ boot.at = "idle" /\ boot' = [boot EXCEPT !.at = "asked"]
          /\ UNCHANGED sync
       \/ UNCHANGED <<sync, boot>>
    /\ UNCHANGED <<today, out, ex, src, cuts, lake, pending, unfillable, repair,
                   late, row, ready, chain, pipe, rc>>

ChainStep == Collected \/ Verify \/ Brief \/ Close
PipeStep  == PipeCollected \/ Check \/ PipeAgain \/ PipeOrphan
Work      == (SyncStep \/ RepairStep) /\ UNCHANGED chainVars
BootWork  == Boot!SyncStep /\ UNCHANGED <<sync, late, up, row, ready, chain, pipe, rc>>

Next == \/ NextDay \/ Deadline \/ Market \/ Begin \/ Kill \/ Restart
        \/ ChainStep \/ PipeStep \/ Work \/ BootWork

Spec == Init /\ [][Next]_vars

\* What has begun goes on, and the clock does.
Fairness ==
    /\ WF_vars(ChainStep) /\ WF_vars(PipeStep) /\ WF_vars(Work) /\ WF_vars(Deadline)

FairSpec == Spec /\ Fairness

(***************************************************************************)
(* Properties.                                                             *)
(***************************************************************************)
IsReady(d) == row[d] = "done" /\ ready[d] = "ok"      \* get_ready

\* A day that get_ready calls ready has its rows in the lake, then and later:
\* neither a day cut short, nor a later sync or repair of the whole file belies it.
ReadyIsTrue == \A d \in Day : IsReady(d) => src[d] \ Firm \subseteq Rows(lake, d)

\* A repair adds rows and touches none that is there when it writes, though it works
\* for minutes on a copy of its own.
RepairKeepsRows ==
    [][RepairWrite => \A d \in Day, s \in Sym :
         lake[d][s] # 0 => lake'[d][s] = lake[d][s]]_vars

\* A chain ends, whatever Tushare does: the check stops asking at the deadline.
EveryChainEnds == chain # "idle" ~> chain = "idle"
=============================================================================
