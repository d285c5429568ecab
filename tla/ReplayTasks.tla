---------------------------- MODULE ReplayTasks ----------------------------
(***************************************************************************)
(* The asynchronous replay queue: the task table (backtest/tasks_db.py),   *)
(* the scheduler thread, its consumer threads and its process pool of one  *)
(* (backtest/scheduler.py), and the worker (backtest/worker.py).           *)
(*                                                                         *)
(* Each server process of Proc has a scheduler and a pool of its own; the  *)
(* table is shared.  A step is one statement on the table, or one move of  *)
(* a thread between two.  Reports of progress are 50 and 100 per cent.     *)
(*                                                                         *)
(* Faults names what may go wrong:                                         *)
(*   slow    more than _HEARTBEAT_TIMEOUT passes without a report although *)
(*           the task is in the pool (loading, or waiting for the worker)  *)
(*   death   the worker process dies, which breaks the pool                *)
(*   down    a server process ends                                         *)
(*   orphan  its worker outlives it                                        *)
(***************************************************************************)
EXTENDS Integers, Sequences, FiniteSets

CONSTANTS
    Task, Proc, Faults,
    Weekly,     \* tasks come from maybe_enqueue_weekly_replay alone
    MaxDowns    \* bound: ends of server processes in a run

ASSUME ReplayAssumption ==
    /\ Faults \subseteq {"slow", "death", "down", "orphan"}
    /\ Weekly \in BOOLEAN /\ MaxDowns \in Nat
    /\ "none" \notin Task

VARIABLES
    row,       \* replay_tasks: status, progress, and whether the beat is fresh
    created,   \* the tasks in order of created_at
    up,        \* per process: it runs
    pc,        \* its scheduler thread: where it is in _loop
    claimed,   \* ... the task it has claimed and not yet submitted
    doomed,    \* ... the stale tasks _sweep_stale has still to mark
    flags,     \* ... abort_flags: the tasks with a registered event
    queue,     \* its pool: submitted tasks no worker has taken
    broken,    \* ... BrokenProcessPool
    wk,        \* ... the task of its worker, and how far the replay is
    msgs,      \* its progress queues
    cons,      \* its consumer threads: off, check, get, or the report to write
    aborted,   \* tasks whose event is set
    orphans,   \* tasks of workers that outlived their process
    downs

thread == <<pc, claimed, doomed, flags>>
pool   == <<queue, broken, wk>>
relay  == <<msgs, cons>>
vars   == <<row, created, up, thread, pool, relay, aborted, orphans, downs>>

Over   == {"SUCCESS", "FAILED", "CANCELLED"}
Status == {"ABSENT", "PENDING", "RUNNING"} \cup Over
NoTask == "none"
NoWork == [task |-> NoTask, at |-> "idle"]

TypeOK ==
    /\ row \in [Task -> [status : Status, progress : {0, 50, 100}, fresh : BOOLEAN]]
    /\ created \in Seq(Task) /\ up \in [Proc -> BOOLEAN]
    /\ pc \in [Proc -> {"poll", "register", "submit", "sweep", "mark"}]
    /\ claimed \in [Proc -> Task \cup {NoTask}] /\ doomed \in [Proc -> SUBSET Task]
    /\ flags \in [Proc -> SUBSET Task] /\ queue \in [Proc -> Seq(Task)]
    /\ broken \in [Proc -> BOOLEAN]
    /\ wk \in [Proc -> [task : Task \cup {NoTask},
                        at : {"idle", "load", "first", "second", "end"}]]
    /\ msgs \in [Proc -> [Task -> Seq({50, 100})]]
    /\ cons \in [Proc -> [Task -> {"off", "check", "get", "write50", "write100"}]]
    /\ aborted \subseteq Task /\ orphans \subseteq Task /\ downs \in Nat

NoRelay == [t \in Task |-> "off"]
NoMsgs  == [t \in Task |-> << >>]

Init ==
    /\ row = [t \in Task |-> [status |-> "ABSENT", progress |-> 0, fresh |-> TRUE]]
    /\ created = << >> /\ up = [p \in Proc |-> FALSE]
    /\ pc = [p \in Proc |-> "poll"] /\ claimed = [p \in Proc |-> NoTask]
    /\ doomed = [p \in Proc |-> {}] /\ flags = [p \in Proc |-> {}]
    /\ queue = [p \in Proc |-> << >>] /\ broken = [p \in Proc |-> FALSE]
    /\ wk = [p \in Proc |-> NoWork]
    /\ msgs = [p \in Proc |-> NoMsgs] /\ cons = [p \in Proc |-> NoRelay]
    /\ aborted = {} /\ orphans = {} /\ downs = 0

(***************************************************************************)
(* The table.                                                              *)
(***************************************************************************)
HasStatus(s) == {t \in Task : row[t].status = s}

\* create_task; the weekly producer waits until nothing is open (and for a week).
Create(t) ==
    /\ row[t].status = "ABSENT"
    /\ Weekly => HasStatus("PENDING") \cup HasStatus("RUNNING") = {}
    /\ row' = [row EXCEPT ![t].status = "PENDING"]
    /\ created' = Append(created, t)
    /\ UNCHANGED <<up, thread, pool, relay, aborted, orphans, downs>>

\* Variant: a status nobody else knows.
MarkedMisspelt(t, s) ==
    [row EXCEPT ![t].status = IF s = "CANCELLED" THEN "CANCELED" ELSE s,
                ![t].progress = IF s = "SUCCESS" THEN 100 ELSE @]

\* mark_success, mark_failed and mark_cancelled look at no status.
Marked(t, s) == [row EXCEPT ![t].status = s,
                            ![t].progress = IF s = "SUCCESS" THEN 100 ELSE @]

\* Variant: the claim takes whatever is not over.
OpenTasks == {t \in Task : row[t].status \in {"PENDING", "RUNNING"}}

Claimable == HasStatus("PENDING")

\* claim_next_pending: the oldest.
Oldest(S) ==
    created[CHOOSE i \in DOMAIN created :
               created[i] \in S /\ \A j \in 1..(i - 1) : created[j] \notin S]

\* More than _HEARTBEAT_TIMEOUT without a report.
InPool(t) == \E p \in Proc : up[p] /\ (wk[p].task = t \/ \E i \in DOMAIN queue[p] : queue[p][i] = t)

Age(t) ==
    /\ row[t].status = "RUNNING" /\ row[t].fresh
    /\ "slow" \in Faults \/ ~(InPool(t) \/ \E p \in Proc : up[p] /\ claimed[p] = t)
    /\ row' = [row EXCEPT ![t].fresh = FALSE]
    /\ UNCHANGED <<created, up, thread, pool, relay, aborted, orphans, downs>>

(***************************************************************************)
(* The scheduler thread: _loop is _poll_once, then _sweep_stale.           *)
(***************************************************************************)
\* Variant: an interrupted task is run again.
Requeued ==
    [t \in Task |-> IF row[t].status = "RUNNING" THEN [row[t] EXCEPT !.status = "PENDING"]
                   ELSE row[t]]

\* reset_running_to_failed
Interrupted ==
    [t \in Task |-> IF row[t].status = "RUNNING" THEN [row[t] EXCEPT !.status = "FAILED"]
                   ELSE row[t]]

\* start: what still runs in the table has been interrupted.
Start(p) ==
    /\ ~up[p] /\ up' = [up EXCEPT ![p] = TRUE]
    /\ row' = Interrupted
    /\ UNCHANGED <<created, thread, pool, relay, aborted, orphans, downs>>

Poll(p) ==
    /\ up[p] /\ pc[p] = "poll"
    /\ \/ /\ Claimable = {} /\ pc' = [pc EXCEPT ![p] = "sweep"]
          /\ UNCHANGED <<row, claimed>>
       \/ /\ Claimable # {}
          /\ LET t == Oldest(Claimable)
             IN  /\ row' = [row EXCEPT ![t].status = "RUNNING", ![t].fresh = TRUE]
                 /\ claimed' = [claimed EXCEPT ![p] = t]
          /\ pc' = [pc EXCEPT ![p] = "register"]
    /\ UNCHANGED <<created, up, doomed, flags, pool, relay, aborted, orphans, downs>>

\* Variant: the event is registered by nobody before the task can run.
RegisterLate(p) ==
    /\ up[p] /\ pc[p] = "register" /\ pc' = [pc EXCEPT ![p] = "submit"]
    /\ UNCHANGED <<row, created, up, claimed, doomed, flags, pool, relay, aborted,
                   orphans, downs>>

Register(p) ==
    /\ up[p] /\ pc[p] = "register" /\ pc' = [pc EXCEPT ![p] = "submit"]
    /\ flags' = [flags EXCEPT ![p] = @ \cup {claimed[p]}]
    /\ UNCHANGED <<row, created, up, claimed, doomed, pool, relay, aborted, orphans, downs>>

\* A broken pool raises: _loop swallows it, and this round sweeps nothing.
Submit(p) ==
    /\ up[p] /\ pc[p] = "submit"
    /\ claimed' = [claimed EXCEPT ![p] = NoTask]
    /\ \/ /\ broken[p] /\ pc' = [pc EXCEPT ![p] = "poll"] /\ UNCHANGED <<queue, cons>>
       \/ /\ ~broken[p] /\ pc' = [pc EXCEPT ![p] = "sweep"]
          /\ queue' = [queue EXCEPT ![p] = Append(@, claimed[p])]
          /\ cons' = [cons EXCEPT ![p][claimed[p]] = "check"]
    /\ UNCHANGED <<row, created, up, doomed, flags, broken, wk, msgs, aborted, orphans,
                   downs>>

\* Variant: only tasks that have reported are looked at.
StaleReported == {t \in HasStatus("RUNNING") : ~row[t].fresh /\ row[t].progress > 0}

Stale == {t \in HasStatus("RUNNING") : ~row[t].fresh}

SweepList(p) ==
    /\ up[p] /\ pc[p] = "sweep" /\ pc' = [pc EXCEPT ![p] = "mark"]
    /\ doomed' = [doomed EXCEPT ![p] = Stale]
    /\ UNCHANGED <<row, created, up, claimed, flags, pool, relay, aborted, orphans, downs>>

SweepMark(p) ==
    /\ up[p] /\ pc[p] = "mark"
    /\ \/ /\ doomed[p] = {} /\ pc' = [pc EXCEPT ![p] = "poll"]
          /\ UNCHANGED <<row, doomed, flags>>
       \/ /\ \E t \in doomed[p] : /\ row' = Marked(t, "FAILED")
                                  /\ doomed' = [doomed EXCEPT ![p] = @ \ {t}]
                                  /\ flags' = [flags EXCEPT ![p] = @ \ {t}]
          /\ UNCHANGED pc
    /\ UNCHANGED <<created, up, claimed, pool, relay, aborted, orphans, downs>>

\* request_cancel: without a registered event nothing happens.
Cancel(p, t) ==
    /\ up[p] /\ t \in flags[p] /\ t \notin aborted
    /\ aborted' = aborted \cup {t}
    /\ UNCHANGED <<row, created, up, thread, pool, relay, orphans, downs>>

(***************************************************************************)
(* _consume_queues, one thread per submitted task.                         *)
(***************************************************************************)
At(p, t, c) == cons' = [cons EXCEPT ![p][t] = c]

ConsumerCheck(p, t) ==
    /\ up[p] /\ cons[p][t] = "check"
    /\ At(p, t, IF row[t].status \in {"RUNNING", "PENDING"} THEN "get" ELSE "off")
    /\ UNCHANGED <<row, created, up, thread, pool, msgs, aborted, orphans, downs>>

ConsumerGet(p, t) ==
    /\ up[p] /\ cons[p][t] = "get"
    /\ \/ /\ msgs[p][t] = << >> /\ At(p, t, "check") /\ UNCHANGED msgs
       \/ /\ msgs[p][t] # << >>
          /\ At(p, t, IF Head(msgs[p][t]) = 50 THEN "write50" ELSE "write100")
          /\ msgs' = [msgs EXCEPT ![p][t] = Tail(@)]
    /\ UNCHANGED <<row, created, up, thread, pool, aborted, orphans, downs>>

\* update_progress and update_heartbeat look at no status either.
ConsumerWrite(p, t) ==
    /\ up[p] /\ cons[p][t] \in {"write50", "write100"} /\ At(p, t, "check")
    /\ row' = [row EXCEPT ![t].progress = IF cons[p][t] = "write50" THEN 50 ELSE 100,
                          ![t].fresh = TRUE]
    /\ UNCHANGED <<created, up, thread, pool, msgs, aborted, orphans, downs>>

(***************************************************************************)
(* run_replay_worker.                                                      *)
(***************************************************************************)
Take(p) ==
    /\ up[p] /\ wk[p] = NoWork /\ queue[p] # << >>
    /\ wk' = [wk EXCEPT ![p] = [task |-> Head(queue[p]), at |-> "load"]]
    /\ queue' = [queue EXCEPT ![p] = Tail(@)]
    /\ UNCHANGED <<row, created, up, thread, broken, relay, aborted, orphans, downs>>

\* The data are there, or some symbols are done: the event is read at the top of the
\* loop over the symbols, a report goes out at its end.
Reports == [first |-> <<50, "second">>, second |-> <<100, "end">>]

Advance(p) ==
    /\ up[p] /\ LET t == wk[p].task
       IN  \/ /\ wk[p].at = "load" /\ wk' = [wk EXCEPT ![p].at = "first"] /\ UNCHANGED msgs
           \/ /\ wk[p].at \in DOMAIN Reports /\ t \notin aborted
              /\ msgs' = [msgs EXCEPT ![p][t] = Append(@, Reports[wk[p].at][1])]
              /\ wk' = [wk EXCEPT ![p].at = Reports[wk[p].at][2]]
    /\ UNCHANGED <<row, created, up, thread, queue, broken, cons, aborted, orphans, downs>>

\* The run ends: with its report, aborted, or by an exception.
Finish(p) ==
    /\ up[p] /\ wk[p] # NoWork
    /\ LET t == wk[p].task
       IN  \/ wk[p].at = "end" /\ row' = Marked(t, "SUCCESS")
           \/ wk[p].at \in DOMAIN Reports /\ t \in aborted /\ row' = Marked(t, "CANCELLED")
           \/ row' = Marked(t, "FAILED")
    /\ wk' = [wk EXCEPT ![p] = NoWork]
    /\ UNCHANGED <<created, up, thread, queue, broken, relay, aborted, orphans, downs>>

(***************************************************************************)
(* Processes end.                                                          *)
(***************************************************************************)
\* The pool gives up all its work; the table is not told.
Die(p) ==
    /\ "death" \in Faults /\ up[p] /\ ~broken[p]
    /\ broken' = [broken EXCEPT ![p] = TRUE]
    /\ wk' = [wk EXCEPT ![p] = NoWork] /\ queue' = [queue EXCEPT ![p] = << >>]
    /\ UNCHANGED <<row, created, up, thread, relay, aborted, orphans, downs>>

Down(p) ==
    /\ "down" \in Faults /\ up[p] /\ downs < MaxDowns /\ downs' = downs + 1
    /\ up' = [up EXCEPT ![p] = FALSE] /\ pc' = [pc EXCEPT ![p] = "poll"]
    /\ claimed' = [claimed EXCEPT ![p] = NoTask] /\ doomed' = [doomed EXCEPT ![p] = {}]
    /\ flags' = [flags EXCEPT ![p] = {}] /\ queue' = [queue EXCEPT ![p] = << >>]
    /\ broken' = [broken EXCEPT ![p] = FALSE] /\ wk' = [wk EXCEPT ![p] = NoWork]
    /\ msgs' = [msgs EXCEPT ![p] = NoMsgs] /\ cons' = [cons EXCEPT ![p] = NoRelay]
    /\ orphans' \in {orphans} \cup (IF "orphan" \in Faults /\ wk[p] # NoWork
                                    THEN {orphans \cup {wk[p].task}} ELSE {})
    /\ UNCHANGED <<row, created, aborted>>

\* An orphan ends its run as it would have; without its manager it fails at the event.
OrphanEnds(t) ==
    /\ t \in orphans /\ orphans' = orphans \ {t}
    /\ \E s \in Over : row' = Marked(t, s)
    /\ UNCHANGED <<created, up, thread, pool, relay, aborted, downs>>

-----------------------------------------------------------------------------
Scheduler(p) == Poll(p) \/ Register(p) \/ Submit(p) \/ SweepList(p) \/ SweepMark(p)

Consumer(p, t) == ConsumerCheck(p, t) \/ ConsumerGet(p, t) \/ ConsumerWrite(p, t)

Worker(p) == Take(p) \/ Advance(p) \/ Finish(p)

Next ==
    \/ \E t \in Task : Create(t) \/ Age(t) \/ OrphanEnds(t)
    \/ \E p \in Proc : Start(p) \/ Scheduler(p) \/ Worker(p) \/ Die(p) \/ Down(p)
    \/ \E p \in Proc, t \in Task : Consumer(p, t) \/ Cancel(p, t)

Spec == Init /\ [][Next]_vars

\* The scheduler thread gets its turns, a stopped server is started again, and time
\* passes over a task that reports nothing.  The worker may hang for ever.
Fairness ==
    /\ \A p \in Proc : WF_vars(Start(p)) /\ WF_vars(Scheduler(p))
    /\ \A t \in Task : WF_vars(Age(t))

FairSpec == Spec /\ Fairness

-----------------------------------------------------------------------------
\* A task is never handed to two workers, whatever restarts and however many
\* schedulers share the table (the purpose of the write lock in claim_next_pending).
Hands(t) ==
    {<<"thread", p>> : p \in {q \in Proc : claimed[q] = t}}
    \cup (UNION {{<<"queue", p, i>> : i \in {j \in DOMAIN queue[p] : queue[p][j] = t}} :
                 p \in Proc})
    \cup {<<"worker", p>> : p \in {q \in Proc : wk[q].task = t}}
    \cup (IF t \in orphans THEN {<<"orphan">>} ELSE {})

OneHand == \A t \in Task : Cardinality(Hands(t)) <= 1

\* A task whose worker or place in the pool is there can be cancelled as long as the
\* table says RUNNING: its event is registered before it is submitted (_poll_once).
Cancellable ==
    \A p \in Proc, t \in Task :
        InPool(t) /\ row[t].status = "RUNNING" => \E q \in Proc : t \in flags[q]

\* Whatever is submitted is over some day: run, given up after a silence, or failed by
\* the restart (_sweep_stale: no task stays RUNNING for ever).
EveryTaskEnds ==
    \A t \in Task : row[t].status = "PENDING" ~> row[t].status \in Over

-----------------------------------------------------------------------------
(***************************************************************************)
(* What the documents say and the code does not keep ("Divergences" in the *)
(* README, with the constants under which TLC shows it).                   *)
(***************************************************************************)
\* SUCCESS, FAILED and CANCELLED are for good (the state machine above _VALID_STATUS,
\* "PENDING -> RUNNING -> SUCCESS/FAILED/CANCELLED").
OverIsOver ==
    [][\A t \in Task : row[t].status \in Over => row'[t].status = row[t].status]_vars

\* A task that waits in the pool is not given up ("submit queues, no task is lost",
\* _poll_once).
QueuedIsKept ==
    \A p \in Proc : \A i \in DOMAIN queue[p] : row[queue[p][i]].status \notin Over

\* A successful task shows all its progress (mark_success).
SuccessIsFull == \A t \in Task : row[t].status = "SUCCESS" => row[t].progress = 100

-----------------------------------------------------------------------------
Life == INSTANCE TaskLife WITH status <- [t \in Task |-> row[t].status]

LivesOnce == Life!Spec

=============================================================================
