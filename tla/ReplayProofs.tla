---------------------------- MODULE ReplayProofs ----------------------------
(***************************************************************************)
(* Proofs about ReplayTasks, for every set of tasks, of server processes   *)
(* and of faults: types, one hand per task and, where the code claims it,  *)
(* the right to cancel and the life of a task.                             *)
(***************************************************************************)
EXTENDS ReplayTasks, FiniteSetTheorems, WellFoundedInduction, TLAPS

-----------------------------------------------------------------------------
(***************************************************************************)
(* Types.                                                                  *)
(***************************************************************************)
\* Every task that waits has its place in the order of created_at.
Listed ==
    \A t \in Task : row[t].status = "PENDING" => \E i \in DOMAIN created : created[i] = t

\* The scheduler thread has a claim between its claim and its submit, and the worker
\* a task while it is at work.
Threads ==
    \A p \in Proc :
        /\ IF pc[p] \in {"register", "submit"} THEN claimed[p] \in Task
           ELSE claimed[p] = NoTask
        /\ wk[p] = NoWork \/ (wk[p].task \in Task /\ wk[p].at # "idle")

TypeInv == TypeOK /\ Listed /\ Threads

LEMMA LeastNat == ASSUME NEW S \in SUBSET Nat, S # {} PROVE \E i \in S : \A j \in S : ~(j < i)
<1> DEFINE R == OpToRel(<, Nat)
<1>1. IsWellFoundedOn(R, Nat)
  BY NatLessThanWellFounded
<1> HIDE DEF R
<1>2. \E x \in S : \A y \in S : ~ (<<y, x>> \in R)
  BY <1>1, WFMin
<1>3. \A x, y \in Nat : y < x => <<y, x>> \in R
  BY DEF R, OpToRel
<1> QED
  BY <1>2, <1>3

\* claim_next_pending finds one of the tasks it looks for.
LEMMA OldestIsOne ==
  ASSUME TypeOK, Listed, NEW S, S # {}, S \subseteq HasStatus("PENDING")
  PROVE  Oldest(S) \in S
<1> DEFINE I == {i \in DOMAIN created : created[i] \in S}
<1>1. I \in SUBSET Nat /\ I # {}
  BY DEF HasStatus, Listed, TypeOK
<1>2. PICK i \in I : \A j \in I : ~(j < i)
  BY <1>1, LeastNat, Zenon
<1>3. created[i] \in S /\ \A j \in 1 .. (i - 1) : created[j] \notin S
  BY <1>2 DEF TypeOK
<1>4. \E k \in DOMAIN created : created[k] \in S /\ \A j \in 1 .. (k - 1) : created[j] \notin S
  BY <1>3
<1> QED
  BY <1>4 DEF Oldest

LEMMA TypeInit == Init => TypeInv
<1> SUFFICES ASSUME Init PROVE TypeInv
  OBVIOUS
<1> USE ReplayAssumption DEF Init
<1>1. TypeOK
  BY DEF TypeOK, Status, Over, NoWork, NoTask, NoMsgs, NoRelay
<1>2. Listed /\ Threads
  BY DEF Listed, Threads, NoWork, NoTask
<1> QED
  BY <1>1, <1>2 DEF TypeInv

Row == [status : Status, progress : {0, 50, 100}, fresh : BOOLEAN]

Work == [task : Task \cup {NoTask}, at : {"idle", "load", "first", "second", "end"}]

LEMMA Kept ==
  ASSUME TypeOK
  PROVE  row \in [Task -> Row] /\ wk \in [Proc -> Work]
BY DEF TypeOK, Row, Work

\* What the statements on the table make of a row is a row.
LEMMA StatusSet ==
  ASSUME NEW r \in Row, NEW s \in Status
  PROVE  /\ [r EXCEPT !.status = s] \in Row
         /\ [r EXCEPT !.status = s, !.fresh = TRUE] \in Row
         /\ [r EXCEPT !.status = s, !.progress = IF s = "SUCCESS" THEN 100 ELSE @] \in Row
BY DEF Row

LEMMA ProgressSet ==
  ASSUME NEW r \in Row, NEW n \in {0, 50, 100}
  PROVE  /\ [r EXCEPT !.progress = n, !.fresh = TRUE] \in Row
         /\ [r EXCEPT !.progress = n, !.fresh = TRUE].status = r.status
BY DEF Row

LEMMA FreshSet ==
  ASSUME NEW r \in Row
  PROVE  [r EXCEPT !.fresh = FALSE] \in Row
BY DEF Row

LEMMA MarkedType ==
  ASSUME TypeOK, NEW t \in Task, NEW s \in Over
  PROVE  /\ Marked(t, s) \in [Task -> Row]
         /\ \A u \in Task : Marked(t, s)[u].status = IF u = t THEN s ELSE row[u].status
<1>1. s \in Status
  BY DEF Status
<1>2. Marked(t, s) \in [Task -> Row]
  BY <1>1, Kept, StatusSet DEF Marked
<1>3. \A u \in Task : Marked(t, s)[u].status = IF u = t THEN s ELSE row[u].status
  BY Kept DEF Marked, Row
<1> QED
  BY <1>2, <1>3

\* A consumer writes progress and the beat, never a status.
LEMMA ConsumerKeeps ==
  ASSUME TypeOK, NEW p \in Proc, NEW t \in Task, Consumer(p, t)
  PROVE  row' \in [Task -> Row] /\ \A u \in Task : row'[u].status = row[u].status
<1>1. \/ UNCHANGED row
      \/ \E n \in {0, 50, 100} : row' = [row EXCEPT ![t].progress = n, ![t].fresh = TRUE]
  BY DEF Consumer, ConsumerCheck, ConsumerGet, ConsumerWrite
<1>2. CASE UNCHANGED row
  BY <1>2, Kept
<1>3. ASSUME NEW n \in {0, 50, 100}, row' = [row EXCEPT ![t].progress = n, ![t].fresh = TRUE]
      PROVE  row' \in [Task -> Row] /\ \A u \in Task : row'[u].status = row[u].status
  <2>1. row' \in [Task -> Row]
    BY <1>3, Kept, ProgressSet, ZenonT(40)
  <2>2. \A u \in Task : row'[u].status = row[u].status
    BY <1>3, Kept DEF Row
  <2> QED
    BY <2>1, <2>2
<1> QED
  BY <1>1, <1>2, <1>3

\* Steps that make nothing PENDING and leave the order alone.
LEMMA ListedStep ==
  ASSUME Listed, UNCHANGED created,
         \A t \in Task : row'[t].status = "PENDING" => row[t].status = "PENDING"
  PROVE  Listed'
BY DEF Listed

LEMMA TypeStep == TypeInv /\ [Next]_vars => TypeInv'
<1> SUFFICES ASSUME TypeInv, [Next]_vars PROVE TypeInv'
  OBVIOUS
<1> USE ReplayAssumption DEF TypeInv
<1>1. ASSUME NEW t \in Task, Create(t) PROVE TypeInv'
  <2>1. \E i \in DOMAIN Append(created, t) : Append(created, t)[i] = t
    <3>1. Len(created) + 1 \in DOMAIN Append(created, t) /\ Append(created, t)[Len(created) + 1] = t
      BY DEF TypeOK
    <3> QED
      BY <3>1
  <2>2. \A i \in DOMAIN created : i \in DOMAIN Append(created, t) /\ Append(created, t)[i] = created[i]
    BY DEF TypeOK
  <2>3. Listed'
    BY <1>1, <2>1, <2>2 DEF Create, Listed, TypeOK
  <2>4. row' \in [Task -> Row]
    BY <1>1, Kept, StatusSet DEF Create, Status
  <2>5. TypeOK'
    BY <1>1, <2>4 DEF Create, TypeOK, Row, thread, pool, relay
  <2> QED
    BY <1>1, <2>3, <2>5 DEF Create, Threads, thread, pool
<1>2. ASSUME NEW t \in Task, Age(t) PROVE TypeInv'
  <2>1. row' \in [Task -> Row]
    BY <1>2, Kept, FreshSet DEF Age
  <2>2. \A u \in Task : row'[u].status = row[u].status
    BY <1>2, Kept DEF Age, Row
  <2> QED
    BY <1>2, <2>1, <2>2, ListedStep DEF Age, TypeOK, Row, Threads, thread, pool, relay
<1>3. ASSUME NEW t \in Task, OrphanEnds(t) PROVE TypeInv'
  <2>1. PICK s \in Over : row' = Marked(t, s)
    BY <1>3 DEF OrphanEnds
  <2>2. TypeOK'
    BY <1>3, <2>1, MarkedType DEF OrphanEnds, TypeOK, Row, thread, pool, relay
  <2>3. Listed'
    BY <1>3, <2>1, MarkedType, ListedStep DEF OrphanEnds, Over
  <2> QED
    BY <1>3, <2>2, <2>3 DEF OrphanEnds, Threads, thread, pool
<1>4. ASSUME NEW p \in Proc, Start(p) PROVE TypeInv'
  <2>1. row' \in [Task -> Row]
    BY <1>4, Kept, StatusSet DEF Start, Interrupted, Status, Over
  <2>2. \A t \in Task : row'[t].status = "PENDING" => row[t].status = "PENDING"
    BY <1>4, Kept DEF Start, Interrupted, Row
  <2> QED
    BY <1>4, <2>1, <2>2, ListedStep DEF Start, TypeOK, Row, Threads, thread, pool, relay
<1>5. ASSUME NEW p \in Proc, Poll(p) PROVE TypeInv'
  <2>1. CASE Claimable = {}
    BY <1>5, <2>1, ListedStep, ZenonT(40) DEF Poll, TypeOK, Threads, pool, relay
  <2>2. CASE Claimable # {}
    <3> DEFINE t == Oldest(Claimable)
    <3>1. t \in Task
      BY <2>2, OldestIsOne DEF Claimable, HasStatus
    <3>2. /\ row' = [row EXCEPT ![t].status = "RUNNING", ![t].fresh = TRUE]
          /\ claimed' = [claimed EXCEPT ![p] = t]
          /\ pc' = [pc EXCEPT ![p] = "register"]
          /\ UNCHANGED <<created, up, doomed, flags, queue, broken, wk, msgs, cons, aborted,
                         orphans, downs>>
      BY <1>5, <2>2 DEF Poll, pool, relay
    <3> HIDE DEF t
    <3>3. row' \in [Task -> Row]
      BY <3>1, <3>2, Kept, StatusSet DEF Status
    <3>4. TypeOK'
      BY <3>1, <3>2, <3>3 DEF TypeOK, Row
    <3>5. Listed'
      BY <3>1, <3>2, ListedStep DEF TypeOK
    <3> QED
      BY <3>1, <3>2, <3>4, <3>5 DEF Threads, TypeOK
  <2> QED
    BY <2>1, <2>2
<1>6. ASSUME NEW p \in Proc, Register(p) PROVE TypeInv'
  BY <1>6, ListedStep DEF Register, TypeOK, Threads, pool, relay
<1>7. ASSUME NEW p \in Proc, Submit(p) PROVE TypeInv'
  <2>1. claimed[p] \in Task
    BY <1>7 DEF Submit, Threads
  <2>2. Listed'
    BY <1>7, ListedStep DEF Submit
  <2>3. Threads'
    BY <1>7 DEF Submit, Threads, TypeOK
  <2>4. cons' \in [Proc -> [Task -> {"off", "check", "get", "write50", "write100"}]]
    <3> DEFINE C == {"off", "check", "get", "write50", "write100"}
    <3>1. cons \in [Proc -> [Task -> C]] /\ "check" \in C
      BY DEF TypeOK
    <3>2. cons' = cons \/ cons' = [cons EXCEPT ![p] = [cons[p] EXCEPT ![claimed[p]] = "check"]]
      BY <1>7 DEF Submit
    <3> HIDE DEF C
    <3>3. cons' \in [Proc -> [Task -> C]]
      BY <2>1, <3>1, <3>2
    <3> QED
      BY <3>3 DEF C
  <2>5. queue' \in [Proc -> Seq(Task)]
    <3>1. Append(queue[p], claimed[p]) \in Seq(Task)
      BY <2>1 DEF TypeOK
    <3>2. queue' = queue \/ queue' = [queue EXCEPT ![p] = Append(queue[p], claimed[p])]
      BY <1>7 DEF Submit
    <3> QED
      BY <3>1, <3>2 DEF TypeOK
  <2>6. TypeOK'
    BY <1>7, <2>4, <2>5 DEF Submit, TypeOK
  <2> QED
    BY <2>2, <2>3, <2>6
<1>8. ASSUME NEW p \in Proc, SweepList(p) PROVE TypeInv'
  BY <1>8, ListedStep DEF SweepList, Stale, HasStatus, TypeOK, Threads, pool, relay
<1>9. ASSUME NEW p \in Proc, SweepMark(p) PROVE TypeInv'
  <2>1. CASE doomed[p] = {} /\ pc' = [pc EXCEPT ![p] = "poll"] /\ UNCHANGED <<row, doomed, flags>>
    BY <1>9, <2>1, ListedStep DEF SweepMark, TypeOK, Threads, pool, relay
  <2>2. ASSUME NEW t \in doomed[p], row' = Marked(t, "FAILED"),
               doomed' = [doomed EXCEPT ![p] = @ \ {t}],
               flags' = [flags EXCEPT ![p] = @ \ {t}], UNCHANGED pc
        PROVE  TypeInv'
    <3>1. t \in Task /\ "FAILED" \in Over
      BY DEF TypeOK, Over
    <3>2. TypeOK'
      BY <1>9, <2>2, <3>1, MarkedType DEF SweepMark, TypeOK, Row, pool, relay
    <3>3. Listed'
      BY <1>9, <2>2, <3>1, MarkedType, ListedStep DEF SweepMark
    <3> QED
      BY <1>9, <2>2, <3>2, <3>3 DEF SweepMark, Threads, pool
  <2> QED
    BY <1>9, <2>1, <2>2 DEF SweepMark
<1>10. ASSUME NEW p \in Proc, NEW t \in Task, Cancel(p, t) PROVE TypeInv'
  BY <1>10, ListedStep DEF Cancel, TypeOK, Threads, thread, pool, relay
<1>11. ASSUME NEW p \in Proc, NEW t \in Task, Consumer(p, t) PROVE TypeInv'
  <2>1. UNCHANGED <<created, up, pc, claimed, doomed, flags, queue, broken, wk, aborted,
                    orphans, downs>>
    BY <1>11 DEF Consumer, ConsumerCheck, ConsumerGet, ConsumerWrite, thread, pool
  <2>2. row' \in [Task -> Row] /\ \A u \in Task : row'[u].status = row[u].status
    BY <1>11, ConsumerKeeps
  <2>3. cons' \in [Proc -> [Task -> {"off", "check", "get", "write50", "write100"}]]
    <3> DEFINE C == {"off", "check", "get", "write50", "write100"}
    <3>1. cons \in [Proc -> [Task -> C]]
      BY DEF TypeOK
    <3>2. \E c \in C : cons' = [cons EXCEPT ![p] = [cons[p] EXCEPT ![t] = c]]
      BY <1>11 DEF Consumer, ConsumerCheck, ConsumerGet, ConsumerWrite, At
    <3> HIDE DEF C
    <3>3. cons' \in [Proc -> [Task -> C]]
      BY <3>1, <3>2
    <3> QED
      BY <3>3 DEF C
  <2>4. msgs' \in [Proc -> [Task -> Seq({50, 100})]]
    <3>1. UNCHANGED msgs \/ (msgs[p][t] # << >> /\ msgs' = [msgs EXCEPT ![p][t] = Tail(@)])
      BY <1>11 DEF Consumer, ConsumerCheck, ConsumerGet, ConsumerWrite, TypeOK
    <3> DEFINE M == Seq({50, 100})
    <3>2. msgs \in [Proc -> [Task -> M]] /\ (msgs[p][t] # << >> => Tail(msgs[p][t]) \in M)
      BY DEF TypeOK
    <3> HIDE DEF M
    <3>3. ASSUME NEW m \in M PROVE [msgs EXCEPT ![p][t] = m] \in [Proc -> [Task -> M]]
      BY <3>2
    <3>4. msgs' \in [Proc -> [Task -> M]]
      BY <3>1, <3>2, <3>3
    <3> QED
      BY <3>4 DEF M
  <2> QED
    BY <2>1, <2>2, <2>3, <2>4, ListedStep DEF TypeOK, Row, Threads
<1>12. ASSUME NEW p \in Proc, Take(p) PROVE TypeInv'
  <2>1. Head(queue[p]) \in Task /\ Tail(queue[p]) \in Seq(Task)
    BY <1>12 DEF Take, TypeOK
  <2> QED
    BY <1>12, <2>1, ListedStep DEF Take, TypeOK, Threads, thread, relay
<1>13. ASSUME NEW p \in Proc, Advance(p) PROVE TypeInv'
  <2>1. wk[p].task \in Task
    BY <1>13 DEF Advance, Reports, Threads, NoWork
  <2>2. PICK a \in {"first", "second", "end"} : wk' = [wk EXCEPT ![p].at = a]
    BY <1>13 DEF Advance, Reports
  <2>3. wk' \in [Proc -> Work]
    BY <2>2, Kept DEF Work
  <2>4. Threads'
    BY <1>13, <2>1, <2>2, Kept DEF Advance, Threads, thread, Work
  <2>5. msgs' \in [Proc -> [Task -> Seq({50, 100})]]
    <3> DEFINE t == wk[p].task
    <3>1. \/ UNCHANGED msgs
          \/ \E n \in {50, 100} : msgs' = [msgs EXCEPT ![p][t] = Append(@, n)]
      <4>1. \A r \in DOMAIN Reports : Reports[r][1] \in {50, 100}
        BY DEF Reports
      <4> QED
        BY <1>13, <4>1 DEF Advance
    <3> DEFINE M == Seq({50, 100})
    <3>2. /\ msgs \in [Proc -> [Task -> M]]
          /\ \A n \in {50, 100} : Append(msgs[p][t], n) \in M
      BY <2>1 DEF TypeOK
    <3> HIDE DEF M, t
    <3>3. ASSUME NEW n \in {50, 100}, msgs' = [msgs EXCEPT ![p][t] = Append(@, n)]
          PROVE  msgs' \in [Proc -> [Task -> M]]
      BY <3>2, <3>3
    <3>4. CASE UNCHANGED msgs
      BY <3>4 DEF TypeOK
    <3> QED
      BY <3>1, <3>3, <3>4 DEF M
  <2> QED
    BY <1>13, <2>3, <2>4, <2>5, ListedStep DEF Advance, TypeOK, Work, thread
<1>14. ASSUME NEW p \in Proc, Finish(p) PROVE TypeInv'
  <2>1. wk[p].task \in Task
    BY <1>14 DEF Finish, Threads
  <2>2. PICK s \in Over : row' = Marked(wk[p].task, s)
    BY <1>14 DEF Finish, Over
  <2>3. TypeOK'
    <3>1. wk' \in [Proc -> Work]
      BY <1>14, Kept DEF Finish, NoWork, Work
    <3>2. row' \in [Task -> Row]
      BY <2>1, <2>2, MarkedType
    <3> QED
      BY <1>14, <3>1, <3>2 DEF Finish, TypeOK, Row, Work, thread, relay
  <2>4. Listed'
    <3>1. UNCHANGED created
      BY <1>14 DEF Finish
    <3>2. \A t \in Task : row'[t].status = "PENDING" => row[t].status = "PENDING"
      <4>1. \A t \in Task : row'[t].status = IF t = wk[p].task THEN s ELSE row[t].status
        BY <2>1, <2>2, MarkedType
      <4>2. s # "PENDING"
        BY DEF Over
      <4> QED
        BY <4>1, <4>2
    <3> QED
      BY <3>1, <3>2, ListedStep
  <2> QED
    BY <1>14, <2>3, <2>4 DEF Finish, Threads, TypeOK, thread
<1>15. ASSUME NEW p \in Proc, Die(p) PROVE TypeInv'
  BY <1>15, ListedStep DEF Die, TypeOK, Threads, NoWork, thread, relay
<1>16. ASSUME NEW p \in Proc, Down(p) PROVE TypeInv'
  <2>1. orphans' \subseteq Task
    BY <1>16 DEF Down, Threads, TypeOK
  <2>2. Listed' /\ Threads'
    BY <1>16, ListedStep DEF Down, TypeOK, Threads
  <2> QED
    BY <1>16, <2>1, <2>2 DEF Down, TypeOK, NoWork, NoMsgs, NoRelay
<1>17. CASE UNCHANGED vars
  BY <1>17 DEF vars, thread, pool, relay, TypeOK, Listed, Threads
<1> QED
  BY <1>1, <1>2, <1>3, <1>4, <1>5, <1>6, <1>7, <1>8, <1>9, <1>10, <1>11, <1>12, <1>13,
     <1>14, <1>15, <1>16, <1>17 DEF Next, Scheduler, Worker

\* Every variable keeps its type; the claim always finds a row that exists.
THEOREM TypeCorrect == Spec => []TypeOK
<1>1. TypeInv => TypeOK
  BY DEF TypeInv
<1> QED
  BY <1>1, TypeInit, TypeStep, PTL DEF Spec

-----------------------------------------------------------------------------
(***************************************************************************)
(* One hand per task.                                                      *)
(***************************************************************************)
Early == {"ABSENT", "PENDING"}

InQueue(p, t) == \E i \in DOMAIN queue[p] : queue[p][i] = t

\* The process has the task: its scheduler thread, its pool or its worker.
Has(p, t) == claimed[p] = t \/ InQueue(p, t) \/ wk[p].task = t

\* What a process or an orphan has, or a sweep is about to give up, was claimed once.
Started ==
    /\ \A p \in Proc, t \in Task : Has(p, t) \/ t \in doomed[p] => row[t].status \notin Early
    /\ \A t \in orphans : row[t].status \notin Early

\* Two processes, or a process and an orphan, never have the same task.
Spread ==
    /\ \A p, q \in Proc, t \in Task : Has(p, t) /\ Has(q, t) => p = q
    /\ \A p \in Proc : \A t \in orphans : ~ Has(p, t)

\* Nor has a process a task in two places.
Within ==
    \A p \in Proc :
        /\ \A t \in Task : claimed[p] = t => ~ InQueue(p, t) /\ wk[p].task # t
        /\ \A t \in Task : InQueue(p, t) => wk[p].task # t
        /\ \A i, j \in DOMAIN queue[p] : queue[p][i] = queue[p][j] => i = j

HandInv == TypeInv /\ Started /\ Spread /\ Within

LEMMA HandInit == Init => HandInv
<1> SUFFICES ASSUME Init PROVE HandInv
  OBVIOUS
<1>1. TypeInv
  BY TypeInit
<1>2. \A p \in Proc, t \in Task : ~ Has(p, t)
  BY ReplayAssumption DEF Init, Has, InQueue, NoWork, NoTask
<1>3. Started /\ Spread /\ Within
  BY <1>2, ReplayAssumption DEF Init, Started, Spread, Within, InQueue, NoWork, NoTask
<1> QED
  BY <1>1, <1>3 DEF HandInv

\* A step by which nobody gets a task and no task goes back.
LEMMA HandsShrink ==
  ASSUME Started, Spread, Within,
         \A p \in Proc : queue'[p] = queue[p] \/ queue'[p] = << >>,
         \A p \in Proc, t \in Task : claimed'[p] = t => claimed[p] = t,
         \A p \in Proc, t \in Task : wk'[p].task = t => wk[p].task = t,
         orphans' \subseteq orphans,
         \A p \in Proc : \A t \in Task :
             t \in doomed'[p] => t \in doomed[p] \/ row[t].status \notin Early,
         \A t \in Task : row[t].status \notin Early => row'[t].status \notin Early,
         orphans \subseteq Task
  PROVE  (Started /\ Spread /\ Within)'
<1>1. \A p \in Proc, t \in Task : InQueue(p, t)' => InQueue(p, t)
  BY DEF InQueue
<1>2. \A p \in Proc, t \in Task : Has(p, t)' => Has(p, t)
  BY <1>1 DEF Has
<1>3. Started'
  BY <1>2 DEF Started
<1>4. Spread'
  BY <1>2 DEF Spread
<1>5. Within'
  <2> SUFFICES ASSUME NEW p \in Proc
               PROVE  /\ \A t \in Task : claimed'[p] = t => ~ InQueue(p, t)' /\ wk'[p].task # t
                      /\ \A t \in Task : InQueue(p, t)' => wk'[p].task # t
                      /\ \A i, j \in DOMAIN queue'[p] : queue'[p][i] = queue'[p][j] => i = j
    BY DEF Within
  <2>1. \A i, j \in DOMAIN queue'[p] : queue'[p][i] = queue'[p][j] => i = j
    BY DEF Within
  <2> QED
    BY <1>1, <2>1 DEF Within
<1> QED
  BY <1>3, <1>4, <1>5

\* mark_success, mark_failed, mark_cancelled and the restart put no task back.
LEMMA MarkedOver ==
  ASSUME TypeOK, NEW t \in Task, NEW s \in Over, row' = Marked(t, s)
  PROVE  \A u \in Task : row[u].status \notin Early => row'[u].status \notin Early
<1>1. \A u \in Task : row'[u].status = IF u = t THEN s ELSE row[u].status
  BY MarkedType
<1> QED
  BY <1>1 DEF Over, Early

\* What a submit and a take make of the queue of the pool.
LEMMA Submitted ==
  ASSUME TypeOK, NEW p \in Proc, NEW t \in Task,
         queue'[p] = queue[p] \/ queue'[p] = Append(queue[p], t)
  PROVE  \A u \in Task : InQueue(p, u)' => InQueue(p, u) \/ u = t
<1>1. queue[p] \in Seq(Task)
  BY DEF TypeOK
<1>2. \A i \in DOMAIN Append(queue[p], t) :
         Append(queue[p], t)[i] = t \/ (i \in DOMAIN queue[p] /\ Append(queue[p], t)[i] = queue[p][i])
  BY <1>1
<1> QED
  BY <1>2 DEF InQueue

LEMMA Taken ==
  ASSUME TypeOK, NEW p \in Proc, queue[p] # << >>, queue' = [queue EXCEPT ![p] = Tail(@)]
  PROVE  /\ InQueue(p, Head(queue[p]))
         /\ \A q \in Proc, u \in Task : InQueue(q, u)' => InQueue(q, u)
<1>1. /\ 1 \in DOMAIN queue[p] /\ queue[p][1] = Head(queue[p])
      /\ \A i \in DOMAIN Tail(queue[p]) :
            i + 1 \in DOMAIN queue[p] /\ Tail(queue[p])[i] = queue[p][i + 1]
  BY DEF TypeOK
<1>2. queue'[p] = Tail(queue[p]) /\ \A q \in Proc : q # p => queue'[q] = queue[q]
  BY DEF TypeOK
<1> QED
  BY <1>1, <1>2 DEF InQueue

LEMMA HandStep == HandInv /\ [Next]_vars => HandInv'
<1> SUFFICES ASSUME HandInv, [Next]_vars PROVE (Started /\ Spread /\ Within)'
  BY TypeStep DEF HandInv
<1>0. TypeInv /\ TypeOK /\ TypeInv' /\ Started /\ Spread /\ Within
  BY TypeStep DEF HandInv, TypeInv
<1> USE <1>0
<1> DEFINE Goal == Started /\ Spread /\ Within
<1>1. ASSUME NEW t \in Task, Create(t) PROVE Goal'
  <2>1. \A u \in Task : row[u].status \notin Early => row'[u].status \notin Early
    BY <1>1 DEF Create, TypeOK, Early
  <2> QED
    BY <1>1, <2>1, HandsShrink DEF Create, thread, pool, TypeOK
<1>2. ASSUME NEW t \in Task, Age(t) PROVE Goal'
  <2>1. \A u \in Task : row'[u].status = row[u].status
    BY <1>2, Kept DEF Age, Row
  <2> QED
    BY <1>2, <2>1, HandsShrink DEF Age, thread, pool, TypeOK
<1>3. ASSUME NEW t \in Task, OrphanEnds(t) PROVE Goal'
  <2>1. PICK s \in Over : row' = Marked(t, s)
    BY <1>3 DEF OrphanEnds
  <2>2. \A u \in Task : row[u].status \notin Early => row'[u].status \notin Early
    BY <2>1, MarkedOver
  <2> QED
    BY <1>3, <2>2, HandsShrink DEF OrphanEnds, thread, pool, TypeOK
<1>4. ASSUME NEW p \in Proc, Start(p) PROVE Goal'
  <2>1. \A u \in Task : row[u].status \notin Early => row'[u].status \notin Early
    BY <1>4, Kept DEF Start, Interrupted, Row, Early
  <2> QED
    BY <1>4, <2>1, HandsShrink DEF Start, thread, pool, TypeOK
<1>5. ASSUME NEW p \in Proc, Poll(p) PROVE Goal'
  <2>1. CASE Claimable = {}
    BY <1>5, <2>1, HandsShrink DEF Poll, pool, TypeOK
  <2>2. CASE Claimable # {}
    <3> DEFINE t == Oldest(Claimable)
    <3>1. t \in Task /\ row[t].status = "PENDING"
      BY <2>2, OldestIsOne DEF Claimable, HasStatus, TypeInv
    <3>2. /\ row' = [row EXCEPT ![t].status = "RUNNING", ![t].fresh = TRUE]
          /\ claimed' = [claimed EXCEPT ![p] = t]
          /\ UNCHANGED <<doomed, queue, wk, orphans>>
      BY <1>5, <2>2 DEF Poll, pool
    <3> HIDE DEF t
    <3>3. \A q \in Proc : ~ Has(q, t) /\ t \notin doomed[q] /\ t \notin orphans
      BY <3>1 DEF Started, Early
    <3>4. \A u \in Task : row'[u].status = IF u = t THEN "RUNNING" ELSE row[u].status
      BY <3>1, <3>2, Kept DEF Row
    <3>5. \A q \in Proc, u \in Task : InQueue(q, u)' <=> InQueue(q, u)
      BY <3>2 DEF InQueue
    <3>6. \A q \in Proc, u \in Task : Has(q, u)' => Has(q, u) \/ (q = p /\ u = t)
      BY <3>2, <3>5 DEF Has, TypeOK
    <3>7. Started'
      BY <3>1, <3>2, <3>4, <3>6 DEF Started, Early, TypeOK
    <3>8. Spread'
      <4>1. ASSUME NEW q \in Proc, NEW r \in Proc, NEW u \in Task, Has(q, u)', Has(r, u)'
            PROVE  q = r
        BY <3>3, <3>6, <4>1 DEF Spread
      <4>2. ASSUME NEW q \in Proc, NEW u \in orphans, Has(q, u)' PROVE FALSE
        BY <3>3, <3>6, <4>2 DEF Spread, TypeOK
      <4> QED
        BY <3>2, <4>1, <4>2 DEF Spread
    <3>9. Within'
      BY <3>2, <3>3, <3>5 DEF Within, Has, TypeOK
    <3> QED
      BY <3>7, <3>8, <3>9
  <2> QED
    BY <2>1, <2>2
<1>6. ASSUME NEW p \in Proc, Register(p) PROVE Goal'
  BY <1>6, HandsShrink DEF Register, pool, TypeOK
<1>7. ASSUME NEW p \in Proc, Submit(p) PROVE Goal'
  <2> DEFINE t == claimed[p]
  <2>1. t \in Task /\ UNCHANGED <<row, doomed, wk, orphans>> /\ claimed' = [claimed EXCEPT ![p] = NoTask]
    BY <1>7 DEF Submit, Threads, TypeInv
  <2>2. CASE UNCHANGED queue
    BY <2>1, <2>2, HandsShrink, ReplayAssumption DEF TypeOK, NoTask
  <2>3. CASE queue' = [queue EXCEPT ![p] = Append(@, t)]
    <3> HIDE DEF t
    <3> DEFINE n == Len(queue[p]) + 1
    <3>1. /\ DOMAIN queue'[p] = DOMAIN queue[p] \cup {n} /\ n \notin DOMAIN queue[p]
          /\ queue'[p][n] = t
          /\ \A i \in DOMAIN queue[p] : queue'[p][i] = queue[p][i]
          /\ \A q \in Proc : q # p => queue'[q] = queue[q]
      BY <2>1, <2>3 DEF TypeOK
    <3> HIDE DEF n
    <3>2. \A q \in Proc, u \in Task : InQueue(q, u)' <=> InQueue(q, u) \/ (q = p /\ u = t)
      BY <3>1 DEF InQueue
    <3>3. \A q \in Proc, u \in Task : Has(q, u)' => Has(q, u)
      BY <2>1, <3>2, ReplayAssumption DEF Has, TypeOK, NoTask, t
    <3>4. Started' /\ Spread'
      BY <2>1, <3>3 DEF Started, Spread, TypeOK
    <3>5. \A q \in Proc, u \in Task : claimed'[q] = u => claimed[q] = u /\ q # p
      BY <2>1, ReplayAssumption DEF TypeOK, NoTask
    <3>6. \A i \in DOMAIN queue[p] : queue[p][i] # t
      BY <2>1 DEF Within, InQueue, t
    <3>7. \A q \in Proc : \A i, j \in DOMAIN queue'[q] : queue'[q][i] = queue'[q][j] => i = j
      BY <3>1, <3>6 DEF Within
    <3>8. Within'
      BY <2>1, <3>2, <3>5, <3>7 DEF Within, t
    <3> QED
      BY <3>4, <3>8
  <2> QED
    BY <1>7, <2>2, <2>3 DEF Submit
<1>8. ASSUME NEW p \in Proc, SweepList(p) PROVE Goal'
  <2>1. \A q \in Proc : \A t \in Task : t \in doomed'[q] => t \in doomed[q] \/ row[t].status \notin Early
    BY <1>8 DEF SweepList, Stale, HasStatus, TypeOK, Early
  <2> QED
    BY <1>8, <2>1, HandsShrink DEF SweepList, pool, TypeOK
<1>9. ASSUME NEW p \in Proc, SweepMark(p) PROVE Goal'
  <2>1. CASE UNCHANGED <<row, doomed>>
    BY <1>9, <2>1, HandsShrink DEF SweepMark, pool, TypeOK
  <2>2. ASSUME NEW t \in doomed[p], row' = Marked(t, "FAILED"), doomed' = [doomed EXCEPT ![p] = @ \ {t}]
        PROVE  Goal'
    <3>1. \A u \in Task : row[u].status \notin Early => row'[u].status \notin Early
      BY <2>2, MarkedOver DEF TypeOK, Over
    <3>2. \A q \in Proc : doomed'[q] \subseteq doomed[q]
      BY <2>2 DEF TypeOK
    <3> QED
      BY <1>9, <3>1, <3>2, HandsShrink DEF SweepMark, pool, TypeOK
  <2> QED
    BY <1>9, <2>1, <2>2 DEF SweepMark
<1>10. ASSUME NEW p \in Proc, NEW t \in Task, Cancel(p, t) PROVE Goal'
  BY <1>10, HandsShrink DEF Cancel, thread, pool, TypeOK
<1>11. ASSUME NEW p \in Proc, NEW t \in Task, Consumer(p, t) PROVE Goal'
  <2>1. UNCHANGED <<claimed, doomed, queue, wk, orphans>>
    BY <1>11 DEF Consumer, ConsumerCheck, ConsumerGet, ConsumerWrite, thread, pool
  <2>2. \A u \in Task : row'[u].status = row[u].status
    BY <1>11, ConsumerKeeps
  <2> QED
    BY <2>1, <2>2, HandsShrink DEF TypeOK
<1>12. ASSUME NEW p \in Proc, Take(p) PROVE Goal'
  <2>0. PICK t : t = Head(queue[p])
    OBVIOUS
  <2>1. /\ queue[p] # << >> /\ wk[p] = NoWork /\ UNCHANGED <<row, claimed, doomed, orphans>>
        /\ wk' = [wk EXCEPT ![p] = [task |-> t, at |-> "load"]]
        /\ queue' = [queue EXCEPT ![p] = Tail(@)]
    BY <1>12, <2>0 DEF Take, thread
  <2>2. /\ t \in Task /\ 1 \in DOMAIN queue[p] /\ queue[p][1] = t
        /\ \A i \in DOMAIN Tail(queue[p]) :
              i + 1 \in DOMAIN queue[p] /\ i + 1 # 1 /\ Tail(queue[p])[i] = queue[p][i + 1]
        /\ \A i \in DOMAIN Tail(queue[p]) : i \in Nat
    BY <2>0, <2>1 DEF TypeOK
  <2>3. InQueue(p, t)
    BY <2>2 DEF InQueue
  <2>4. \A q \in Proc, u \in Task : InQueue(q, u)' => InQueue(q, u)
    BY <2>1, <2>2 DEF InQueue, TypeOK
  <2>5. ~ InQueue(p, t)'
    <3> SUFFICES ASSUME NEW i \in DOMAIN Tail(queue[p]), Tail(queue[p])[i] = t PROVE FALSE
      BY <2>1 DEF InQueue, TypeOK
    <3> QED
      BY <2>2 DEF Within
  <2>6. \A q \in Proc, u \in Task : wk'[q].task = u => wk[q].task = u \/ (q = p /\ u = t)
    BY <2>1 DEF TypeOK
  <2>7. \A q \in Proc, u \in Task : Has(q, u)' => Has(q, u)
    BY <2>1, <2>3, <2>4, <2>6 DEF Has
  <2>8. Started' /\ Spread'
    BY <2>1, <2>7 DEF Started, Spread, TypeOK
  <2>9. \A q \in Proc : \A i, j \in DOMAIN queue'[q] : queue'[q][i] = queue'[q][j] => i = j
    <3>1. ASSUME NEW i \in DOMAIN Tail(queue[p]), NEW j \in DOMAIN Tail(queue[p]),
                 Tail(queue[p])[i] = Tail(queue[p])[j]
          PROVE  i = j
      <4>1. i + 1 = j + 1 /\ i \in Nat /\ j \in Nat
        BY <2>2, <3>1 DEF Within
      <4> QED
        BY <4>1
    <3> QED
      BY <2>1, <3>1 DEF Within, TypeOK
  <2>10. \A u \in Task : wk[p].task # u
    BY <2>1, ReplayAssumption DEF NoWork, NoTask
  <2>11. Within'
    <3>1. ASSUME NEW q \in Proc, NEW u \in Task, claimed[q] = u
          PROVE  ~ InQueue(q, u)' /\ wk'[q].task # u
      BY <2>3, <2>4, <2>6, <3>1 DEF Within
    <3>2. ASSUME NEW q \in Proc, NEW u \in Task, InQueue(q, u)'
          PROVE  wk'[q].task # u
      BY <2>4, <2>5, <2>6, <3>2 DEF Within
    <3> QED
      BY <2>1, <2>9, <3>1, <3>2 DEF Within
  <2> QED
    BY <2>8, <2>11
<1>13. ASSUME NEW p \in Proc, Advance(p) PROVE Goal'
  <2>1. \A q \in Proc : wk'[q].task = wk[q].task
    BY <1>13, Kept DEF Advance, Work, Reports
  <2> QED
    BY <1>13, <2>1, HandsShrink DEF Advance, thread, TypeOK
<1>14. ASSUME NEW p \in Proc, Finish(p) PROVE Goal'
  <2>1. wk[p].task \in Task
    BY <1>14 DEF Finish, Threads, TypeInv
  <2>2. PICK s \in Over : row' = Marked(wk[p].task, s)
    BY <1>14 DEF Finish, Over
  <2>3. \A u \in Task : row[u].status \notin Early => row'[u].status \notin Early
    BY <2>1, <2>2, MarkedOver
  <2>4. \A q \in Proc, u \in Task : wk'[q].task = u => wk[q].task = u
    BY <1>14, ReplayAssumption DEF Finish, TypeOK, NoWork, NoTask
  <2>5. UNCHANGED <<claimed, doomed, queue, orphans>>
    BY <1>14 DEF Finish, thread
  <2> QED
    BY <2>3, <2>4, <2>5, HandsShrink DEF TypeOK
<1>15. ASSUME NEW p \in Proc, Die(p) PROVE Goal'
  <2>1. \A q \in Proc, u \in Task : wk'[q].task = u => wk[q].task = u
    BY <1>15, ReplayAssumption DEF Die, TypeOK, NoWork, NoTask
  <2>2. \A q \in Proc : queue'[q] = queue[q] \/ queue'[q] = << >>
    BY <1>15 DEF Die, TypeOK
  <2> QED
    BY <1>15, <2>1, <2>2, HandsShrink DEF Die, thread, TypeOK
<1>16. ASSUME NEW p \in Proc, Down(p) PROVE Goal'
  <2>1. /\ \A q \in Proc, u \in Task : wk'[q].task = u => wk[q].task = u /\ q # p
        /\ \A q \in Proc, u \in Task : claimed'[q] = u => claimed[q] = u /\ q # p
    BY <1>16, ReplayAssumption DEF Down, TypeOK, NoWork, NoTask
  <2>2. \A q \in Proc : doomed'[q] \subseteq doomed[q]
    BY <1>16 DEF Down, TypeOK
  <2>3. /\ \A q \in Proc : queue'[q] = queue[q] \/ queue'[q] = << >>
        /\ queue'[p] = << >>
    BY <1>16 DEF Down, TypeOK
  <2>4. CASE orphans' = orphans
    BY <1>16, <2>1, <2>2, <2>3, <2>4, HandsShrink DEF Down, TypeOK
  <2>5. CASE wk[p] # NoWork /\ orphans' = orphans \cup {wk[p].task}
    <3> DEFINE t == wk[p].task
    <3>1. t \in Task /\ Has(p, t)
      BY <2>5 DEF TypeInv, Threads, Has
    <3>2. \A q \in Proc, u \in Task : InQueue(q, u)' => InQueue(q, u) /\ q # p
      BY <2>3 DEF InQueue
    <3>3. \A q \in Proc, u \in Task : Has(q, u)' => Has(q, u) /\ q # p
      BY <2>1, <3>2 DEF Has
    <3>4. Started'
      BY <1>16, <2>2, <2>5, <3>1, <3>3 DEF Down, Started, TypeOK
    <3>5. Spread'
      BY <2>5, <3>1, <3>3 DEF Spread, TypeOK
    <3>6. Within'
      BY <2>1, <2>3, <3>2 DEF Within
    <3> QED
      BY <3>4, <3>5, <3>6
  <2> QED
    BY <1>16, <2>4, <2>5 DEF Down
<1>17. CASE UNCHANGED vars
  BY <1>17, HandsShrink DEF vars, thread, pool, TypeOK
<1> QED
  BY <1>1, <1>2, <1>3, <1>4, <1>5, <1>6, <1>7, <1>8, <1>9, <1>10, <1>11, <1>12, <1>13,
     <1>14, <1>15, <1>16, <1>17 DEF Next, Scheduler, Worker

\* A task is in one hand at most, however many servers share the table, whatever
\* dies, restarts or outlives its server: a claim moves PENDING to RUNNING in one
\* statement, and nothing moves a task back.
THEOREM OneHandEach == Spec => []OneHand
<1>1. HandInv => OneHand
  <2> SUFFICES ASSUME HandInv, NEW t \in Task PROVE Cardinality(Hands(t)) <= 1
    BY DEF OneHand
  <2> USE DEF HandInv
  <2>1. ASSUME NEW x \in Hands(t)
        PROVE  \/ \E p \in Proc : x = <<"thread", p>> /\ claimed[p] = t
               \/ \E p \in Proc : \E i \in DOMAIN queue[p] : x = <<"queue", p, i>> /\ queue[p][i] = t
               \/ \E p \in Proc : x = <<"worker", p>> /\ wk[p].task = t
               \/ x = <<"orphan">> /\ t \in orphans
    <3> DEFINE T == {<<"thread", p>> : p \in {q \in Proc : claimed[q] = t}}
               Q == UNION {{<<"queue", p, i>> : i \in {j \in DOMAIN queue[p] : queue[p][j] = t}}
                          : p \in Proc}
               W == {<<"worker", p>> : p \in {q \in Proc : wk[q].task = t}}
               O == IF t \in orphans THEN {<<"orphan">>} ELSE {}
    <3>1. Hands(t) = T \cup Q \cup W \cup O
      BY DEF Hands
    <3>2. x \in T => \E p \in Proc : x = <<"thread", p>> /\ claimed[p] = t
      OBVIOUS
    <3>3. x \in Q => \E p \in Proc : \E i \in DOMAIN queue[p] : x = <<"queue", p, i>> /\ queue[p][i] = t
      OBVIOUS
    <3>4. x \in W => \E p \in Proc : x = <<"worker", p>> /\ wk[p].task = t
      OBVIOUS
    <3>5. x \in O => x = <<"orphan">> /\ t \in orphans
      OBVIOUS
    <3> HIDE DEF T, Q, W, O
    <3> QED
      BY <3>1, <3>2, <3>3, <3>4, <3>5
  <2>2. \A x, y \in Hands(t) : x = y
    BY <2>1 DEF Spread, Within, Has, InQueue
  <2>3. Hands(t) = {} \/ \E x : Hands(t) = {x}
    BY <2>2
  <2>4. CASE Hands(t) = {}
    BY <2>4, FS_EmptySet
  <2>5. ASSUME NEW x, Hands(t) = {x} PROVE Cardinality(Hands(t)) <= 1
    <3>1. Cardinality({x}) = 1
      BY FS_Singleton
    <3> QED
      BY <2>5, <3>1
  <2> QED
    BY <2>3, <2>4, <2>5
<1> QED
  BY <1>1, HandInit, HandStep, PTL DEF Spec

-----------------------------------------------------------------------------
(***************************************************************************)
(* The right to cancel.                                                    *)
(***************************************************************************)
\* The process has the task and has registered its event.
Placed(p, t) == (claimed[p] = t /\ pc[p] = "submit") \/ InQueue(p, t) \/ wk[p].task = t

Armed ==
    \A p \in Proc, t \in Task :
        Placed(p, t) /\ row[t].status = "RUNNING" => t \in flags[p]

ArmedInv == HandInv /\ Armed

LEMMA ArmedStep == ArmedInv /\ [Next]_vars => ArmedInv'
<1> SUFFICES ASSUME ArmedInv, [Next]_vars PROVE Armed'
  BY HandStep DEF ArmedInv
<1>0. HandInv /\ TypeInv /\ TypeOK /\ Started /\ Spread /\ Within /\ Armed
  BY DEF ArmedInv, HandInv, TypeInv
<1> USE <1>0
\* Where a process has its tasks, and which of them run, is left alone.
<1>a. ASSUME UNCHANGED <<pc, claimed, queue, wk>>,
             \A p \in Proc, t \in Task : t \in flags[p] => t \in flags'[p],
             \A t \in Task : row'[t].status = "RUNNING" => row[t].status = "RUNNING"
      PROVE  Armed'
  BY <1>a DEF Armed, Placed, InQueue
<1>1. ASSUME NEW t \in Task, Create(t) PROVE Armed'
  <2>1. \A u \in Task : row'[u].status = "RUNNING" => row[u].status = "RUNNING"
    BY <1>1, Kept DEF Create, Row
  <2> QED
    BY <1>1, <1>a, <2>1 DEF Create, thread, pool
<1>2. ASSUME NEW t \in Task, Age(t) PROVE Armed'
  <2>1. \A u \in Task : row'[u].status = row[u].status
    BY <1>2, Kept DEF Age, Row
  <2> QED
    BY <1>2, <1>a, <2>1 DEF Age, thread, pool
<1>3. ASSUME NEW t \in Task, OrphanEnds(t) PROVE Armed'
  <2>1. PICK s \in Over : row' = Marked(t, s)
    BY <1>3 DEF OrphanEnds
  <2>2. \A u \in Task : row'[u].status = IF u = t THEN s ELSE row[u].status
    BY <2>1, MarkedType
  <2>3. \A u \in Task : row'[u].status = "RUNNING" => row[u].status = "RUNNING"
    BY <2>2 DEF Over
  <2> QED
    BY <1>3, <1>a, <2>3 DEF OrphanEnds, thread, pool
<1>4. ASSUME NEW p \in Proc, Start(p) PROVE Armed'
  <2>1. \A u \in Task : row'[u].status = "RUNNING" => row[u].status = "RUNNING"
    BY <1>4, Kept DEF Start, Interrupted, Row
  <2> QED
    BY <1>4, <1>a, <2>1 DEF Start, thread, pool
<1>5. ASSUME NEW p \in Proc, Poll(p) PROVE Armed'
  <2>1. CASE Claimable = {}
    BY <1>5, <2>1 DEF Poll, pool, Armed, Placed, InQueue, TypeOK
  <2>2. CASE Claimable # {}
    <3> PICK t : t = Oldest(Claimable)
      OBVIOUS
    <3>1. t \in Task /\ row[t].status = "PENDING"
      BY <2>2, OldestIsOne DEF Claimable, HasStatus, TypeInv
    <3>2. /\ row' = [row EXCEPT ![t].status = "RUNNING", ![t].fresh = TRUE]
          /\ claimed' = [claimed EXCEPT ![p] = t] /\ pc' = [pc EXCEPT ![p] = "register"]
          /\ UNCHANGED <<flags, queue, wk>>
      BY <1>5, <2>2 DEF Poll, pool
    <3>3. \A q \in Proc : ~ Has(q, t)
      BY <3>1 DEF Started, Early
    <3>4. \A u \in Task : row'[u].status = IF u = t THEN "RUNNING" ELSE row[u].status
      BY <3>1, <3>2, Kept DEF Row
    <3>5. \A q \in Proc, u \in Task : Placed(q, u)' => Placed(q, u)
      BY <3>2 DEF Placed, InQueue, TypeOK
    <3>6. \A q \in Proc, u \in Task : Placed(q, u) => Has(q, u)
      BY DEF Placed, Has
    <3> QED
      BY <3>2, <3>3, <3>4, <3>5, <3>6 DEF Armed
  <2> QED
    BY <2>1, <2>2
<1>6. ASSUME NEW p \in Proc, Register(p) PROVE Armed'
  BY <1>6 DEF Register, pool, Armed, Placed, InQueue, TypeOK
<1>7. ASSUME NEW p \in Proc, Submit(p) PROVE Armed'
  <2>1. PICK t \in Task : t = claimed[p]
    BY <1>7 DEF Submit, Threads, TypeInv
  <2>2. /\ pc[p] = "submit" /\ UNCHANGED <<row, flags, wk>>
        /\ claimed' = [claimed EXCEPT ![p] = NoTask]
        /\ \A q \in Proc : q # p => pc'[q] = pc[q] /\ queue'[q] = queue[q]
        /\ queue'[p] = queue[p] \/ queue'[p] = Append(queue[p], t)
    BY <1>7, <2>1 DEF Submit, TypeOK
  <2>3. \A u \in Task : InQueue(p, u)' => InQueue(p, u) \/ u = t
    BY <2>2, Submitted
  <2>4. \A q \in Proc, u \in Task : Placed(q, u)' => Placed(q, u)
    <3>1. \A q \in Proc, u \in Task : q # p /\ Placed(q, u)' => Placed(q, u)
      BY <2>2 DEF Placed, InQueue, TypeOK
    <3>2. \A u \in Task : Placed(p, u)' => Placed(p, u)
      BY <2>1, <2>2, <2>3, ReplayAssumption DEF Placed, TypeOK, NoTask
    <3> QED
      BY <3>1, <3>2
  <2> QED
    BY <2>2, <2>4 DEF Armed
<1>8. ASSUME NEW p \in Proc, SweepList(p) PROVE Armed'
  BY <1>8 DEF SweepList, pool, Armed, Placed, InQueue, TypeOK
<1>9. ASSUME NEW p \in Proc, SweepMark(p) PROVE Armed'
  <2>1. pc[p] = "mark" /\ pc'[p] # "submit" /\ \A q \in Proc : q # p => pc'[q] = pc[q]
    BY <1>9 DEF SweepMark, TypeOK
  <2>2. UNCHANGED <<claimed, queue, wk>>
    BY <1>9 DEF SweepMark, pool
  <2>3. \A q \in Proc, u \in Task : Placed(q, u)' => Placed(q, u)
    BY <2>1, <2>2 DEF Placed, InQueue
  <2>4. CASE UNCHANGED <<row, flags>>
    BY <2>3, <2>4 DEF Armed
  <2>5. ASSUME NEW t \in doomed[p], row' = Marked(t, "FAILED"), flags' = [flags EXCEPT ![p] = @ \ {t}]
        PROVE  Armed'
    <3>1. \A u \in Task : row'[u].status = IF u = t THEN "FAILED" ELSE row[u].status
      BY <2>5, MarkedType DEF TypeOK, Over
    <3>2. \A q \in Proc, u \in Task : u # t /\ u \in flags[q] => u \in flags'[q]
      BY <2>5 DEF TypeOK
    <3> QED
      BY <2>3, <3>1, <3>2 DEF Armed
  <2> QED
    BY <1>9, <2>4, <2>5 DEF SweepMark
<1>10. ASSUME NEW p \in Proc, NEW t \in Task, Cancel(p, t) PROVE Armed'
  BY <1>10, <1>a DEF Cancel, thread, pool
<1>11. ASSUME NEW p \in Proc, NEW t \in Task, Consumer(p, t) PROVE Armed'
  <2>1. UNCHANGED <<pc, claimed, flags, queue, wk>>
    BY <1>11 DEF Consumer, ConsumerCheck, ConsumerGet, ConsumerWrite, thread, pool
  <2> QED
    BY <1>11, <1>a, <2>1, ConsumerKeeps
<1>12. ASSUME NEW p \in Proc, Take(p) PROVE Armed'
  <2>1. PICK t \in Task : t = Head(queue[p]) /\ queue[p] # << >>
    BY <1>12 DEF Take, TypeOK
  <2>2. /\ UNCHANGED <<row, pc, claimed, flags>>
        /\ wk' = [wk EXCEPT ![p] = [task |-> t, at |-> "load"]]
        /\ queue' = [queue EXCEPT ![p] = Tail(@)]
    BY <1>12, <2>1 DEF Take, thread
  <2>4. InQueue(p, t) /\ \A q \in Proc, u \in Task : InQueue(q, u)' => InQueue(q, u)
    BY <2>1, <2>2, Taken
  <2>5. \A q \in Proc, u \in Task : wk'[q].task = u => wk[q].task = u \/ (q = p /\ u = t)
    BY <2>2 DEF TypeOK
  <2> QED
    BY <2>2, <2>4, <2>5 DEF Armed, Placed
<1>13. ASSUME NEW p \in Proc, Advance(p) PROVE Armed'
  <2>1. \A q \in Proc : wk'[q].task = wk[q].task
    BY <1>13, Kept DEF Advance, Work, Reports
  <2> QED
    BY <1>13, <2>1 DEF Advance, thread, Armed, Placed, InQueue
<1>14. ASSUME NEW p \in Proc, Finish(p) PROVE Armed'
  <2>1. wk[p].task \in Task /\ UNCHANGED <<pc, claimed, flags, queue>>
    BY <1>14 DEF Finish, Threads, TypeInv, thread
  <2>2. PICK s \in Over : row' = Marked(wk[p].task, s)
    BY <1>14 DEF Finish, Over
  <2>3. \A u \in Task : row'[u].status = IF u = wk[p].task THEN s ELSE row[u].status
    BY <2>1, <2>2, MarkedType
  <2>4. \A q \in Proc, u \in Task : wk'[q].task = u => wk[q].task = u
    BY <1>14, ReplayAssumption DEF Finish, TypeOK, NoWork, NoTask
  <2>5. \A q \in Proc, u \in Task : Placed(q, u)' => Placed(q, u)
    BY <2>1, <2>4 DEF Placed, InQueue
  <2>6. s # "RUNNING"
    BY DEF Over
  <2> QED
    BY <2>1, <2>3, <2>5, <2>6 DEF Armed
<1>15. ASSUME NEW p \in Proc, Die(p) PROVE Armed'
  <2>1. \A q \in Proc, u \in Task : wk'[q].task = u => wk[q].task = u
    BY <1>15, ReplayAssumption DEF Die, TypeOK, NoWork, NoTask
  <2>2. \A q \in Proc, u \in Task : InQueue(q, u)' => InQueue(q, u)
    BY <1>15 DEF Die, TypeOK, InQueue
  <2> QED
    BY <1>15, <2>1, <2>2 DEF Die, thread, Armed, Placed
<1>16. ASSUME NEW p \in Proc, Down(p) PROVE Armed'
  <2>1. \A u \in Task : ~ Placed(p, u)'
    BY <1>16, ReplayAssumption DEF Down, TypeOK, Placed, InQueue, NoWork, NoTask
  <2>2. \A q \in Proc : q # p => /\ pc'[q] = pc[q] /\ claimed'[q] = claimed[q]
                                 /\ queue'[q] = queue[q] /\ wk'[q] = wk[q] /\ flags'[q] = flags[q]
    BY <1>16 DEF Down, TypeOK
  <2>3. UNCHANGED row
    BY <1>16 DEF Down
  <2> QED
    BY <2>1, <2>2, <2>3 DEF Armed, Placed, InQueue
<1>17. CASE UNCHANGED vars
  BY <1>17, <1>a DEF vars, thread, pool
<1> QED
  BY <1>1, <1>2, <1>3, <1>4, <1>5, <1>6, <1>7, <1>8, <1>9, <1>10, <1>11, <1>12, <1>13,
     <1>14, <1>15, <1>16, <1>17 DEF Next, Scheduler, Worker

\* A task whose place in the pool or whose worker is there, and which the table says
\* runs, has its event: the event comes before the submit, and goes with the mark.
THEOREM CancelReaches == Spec => []Cancellable
<1>1. Init => ArmedInv
  <2>1. Init => Armed
    BY ReplayAssumption DEF Init, Armed, Placed, InQueue, NoWork, NoTask
  <2> QED
    BY <2>1, HandInit DEF ArmedInv
<1>2. ArmedInv => Cancellable
  BY DEF ArmedInv, Armed, Placed, InQueue, InPool, Cancellable
<1> QED
  BY <1>1, <1>2, ArmedStep, PTL DEF Spec

-----------------------------------------------------------------------------
(***************************************************************************)
(* One server, no silence while a task is in the pool, and no orphan: the  *)
(* life of a task is the one TaskLife states.                              *)
(***************************************************************************)
QuietServer ==
    /\ {"slow", "orphan"} \cap Faults = {}
    /\ \A p, q \in Proc : p = q

\* Who has a task runs it, and then it is not silent; a sweep gives up only what
\* nobody has.
Alive ==
    \A p \in Proc, t \in Task : Has(p, t) => row[t].status = "RUNNING" /\ row[t].fresh = TRUE

Given ==
    \A p, q \in Proc : \A t \in doomed[p] : row[t].status = "RUNNING" /\ ~ Has(q, t)

Off == \A p \in Proc : ~ up[p] => doomed[p] = {} /\ \A t \in Task : ~ Has(p, t)

LifeInv == HandInv /\ Alive /\ Given /\ Off /\ orphans = {}

LEMMA LifeInit == Init => LifeInv
<1> SUFFICES ASSUME Init PROVE LifeInv
  OBVIOUS
<1>1. HandInv
  BY HandInit
<1>2. \A p \in Proc, t \in Task : ~ Has(p, t)
  BY ReplayAssumption DEF Init, Has, InQueue, NoWork, NoTask
<1> QED
  BY <1>1, <1>2 DEF Init, LifeInv, Alive, Given, Off

\* Steps by which nobody gets a task, nor loses one without the row's knowledge.
LEMMA LifeShrinks ==
  ASSUME Alive, Given, Off, UNCHANGED up,
         \A p \in Proc, t \in Task : Has(p, t)' => Has(p, t),
         \A p \in Proc, t \in Task :
             Has(p, t)' => row'[t].status = row[t].status /\ (row[t].fresh = TRUE => row'[t].fresh = TRUE),
         \A p \in Proc : doomed'[p] \subseteq doomed[p],
         \A p \in Proc : \A t \in doomed'[p] : row'[t].status = row[t].status,
         \A p \in Proc : doomed[p] \subseteq Task
  PROVE  (Alive /\ Given /\ Off)'
<1>1. Alive'
  BY DEF Alive
<1>2. Given'
  BY DEF Given
<1>3. Off'
  BY DEF Off
<1> QED
  BY <1>1, <1>2, <1>3

\* The table's view of a step: nothing, one task's move, or the restart.
StatusOf == [t \in Task |-> row[t].status]

LEMMA StatusSame ==
  ASSUME \A t \in Task : row'[t].status = row[t].status
  PROVE  UNCHANGED StatusOf
BY DEF StatusOf

LEMMA StatusMoves ==
  ASSUME NEW t \in Task, NEW S, NEW s \in S, NEW from, row[t].status \in from,
         \A u \in Task : row'[u].status = IF u = t THEN s ELSE row[u].status
  PROVE  Life!Moves(t, from, S)
<1>1. [u \in Task |-> row'[u].status] = [[u \in Task |-> row[u].status] EXCEPT ![t] = s]
  OBVIOUS
<1> QED
  BY <1>1 DEF Life!Moves

LEMMA LifeStep ==
  ASSUME QuietServer
  PROVE  LifeInv /\ [Next]_vars => LifeInv' /\ [Life!Next]_StatusOf
<1> SUFFICES ASSUME LifeInv, [Next]_vars
             PROVE  (Alive /\ Given /\ Off)' /\ orphans' = {} /\ [Life!Next]_StatusOf
  BY HandStep DEF LifeInv
<1>0. HandInv /\ HandInv' /\ TypeInv /\ TypeInv' /\ TypeOK /\ TypeOK' /\ Within /\ Spread
  BY HandStep DEF LifeInv, HandInv, TypeInv
<1> USE <1>0
<1> DEFINE Goal == (Alive /\ Given /\ Off)' /\ orphans' = {} /\ [Life!Next]_StatusOf
<1>a. Alive /\ Given /\ Off /\ orphans = {} /\ \A p \in Proc : doomed[p] \subseteq Task
  BY DEF LifeInv, TypeOK
\* One server: what one process has, nobody else has.
<1>b. \A p, q \in Proc : p = q
  BY DEF QuietServer
\* Steps the rows do not see.
<1>c. ASSUME UNCHANGED <<row, up, orphans>>,
             \A p \in Proc, t \in Task : Has(p, t)' => Has(p, t),
             \A p \in Proc : doomed'[p] \subseteq doomed[p]
      PROVE  Goal
  <2>1. (Alive /\ Given /\ Off)'
    BY <1>a, <1>c, LifeShrinks
  <2> QED
    BY <1>a, <1>c, <2>1, StatusSame
\* A row that runs is marked: its task is nobody's any more, and no sweep's.
<1>d. ASSUME NEW t \in Task, NEW s \in Over, row' = Marked(t, s), UNCHANGED <<up, orphans>>,
             row[t].status = "RUNNING",
             \A p \in Proc, u \in Task : Has(p, u)' => Has(p, u) /\ u # t,
             \A p \in Proc : doomed'[p] \subseteq doomed[p] /\ t \notin doomed'[p]
      PROVE  Goal
  <2>1. \A u \in Task : row'[u].status = IF u = t THEN s ELSE row[u].status
    BY <1>d, MarkedType
  <2>2. \A u \in Task : u # t => row'[u] = row[u]
    BY <1>d DEF Marked, TypeOK
  <2>3. (Alive /\ Given /\ Off)'
    BY <1>a, <1>d, <2>2, LifeShrinks
  <2>4. Life!Moves(t, {"RUNNING"}, Over)
    BY <1>d, <2>1, StatusMoves
  <2> QED
    BY <1>a, <1>d, <2>3, <2>4 DEF Life!Next, Life!Over, Over
<1>1. ASSUME NEW t \in Task, Create(t) PROVE Goal
  <2>1. row[t].status = "ABSENT" /\ UNCHANGED <<up, claimed, queue, wk, doomed, orphans>>
    BY <1>1 DEF Create, thread, pool
  <2>2. /\ \A u \in Task : row'[u].status = IF u = t THEN "PENDING" ELSE row[u].status
        /\ \A u \in Task : row'[u].fresh = row[u].fresh
    BY <1>1, Kept DEF Create, Row
  <2>3. \A p \in Proc, u \in Task : Has(p, u)' => Has(p, u) /\ u # t
    BY <1>a, <2>1 DEF Has, InQueue, Alive
  <2>4. \A p \in Proc : doomed'[p] \subseteq doomed[p] /\ t \notin doomed'[p]
    BY <1>a, <2>1 DEF Given
  <2>5. (Alive /\ Given /\ Off)'
    BY <1>a, <2>1, <2>2, <2>3, <2>4, LifeShrinks
  <2>6. Life!Moves(t, {"ABSENT"}, {"PENDING"})
    BY <2>1, <2>2, StatusMoves
  <2> QED
    BY <1>a, <2>1, <2>5, <2>6 DEF Life!Next
<1>2. ASSUME NEW t \in Task, Age(t) PROVE Goal
  <2>1. /\ row[t].status = "RUNNING" /\ ~ InPool(t) /\ \A p \in Proc : up[p] => claimed[p] # t
        /\ UNCHANGED <<up, claimed, queue, wk, doomed, orphans>>
    BY <1>2 DEF Age, thread, pool, QuietServer
  <2>2. \A p \in Proc : ~ Has(p, t)
    BY <1>a, <2>1 DEF InPool, Has, InQueue, Off
  <2>3. \A u \in Task : row'[u].status = row[u].status /\ (u # t => row'[u] = row[u])
    BY <1>2, Kept DEF Age, Row
  <2>4. \A p \in Proc, u \in Task : Has(p, u)' => Has(p, u) /\ u # t
    BY <2>1, <2>2 DEF Has, InQueue
  <2>5. (Alive /\ Given /\ Off)'
    BY <1>a, <2>1, <2>3, <2>4, LifeShrinks
  <2> QED
    BY <1>a, <2>1, <2>3, <2>5, StatusSame
<1>3. ASSUME NEW t \in Task, OrphanEnds(t) PROVE Goal
  BY <1>3, <1>a DEF OrphanEnds
<1>4. ASSUME NEW p \in Proc, Start(p) PROVE Goal
  <2>1. /\ ~ up[p] /\ up' = [up EXCEPT ![p] = TRUE] /\ row' = Interrupted
        /\ UNCHANGED <<claimed, queue, wk, doomed, orphans>>
    BY <1>4 DEF Start, thread, pool
  <2>2. \A q \in Proc : up'[q] /\ doomed'[q] = {} /\ \A u \in Task : ~ Has(q, u)'
    BY <1>a, <1>b, <2>1 DEF Off, Has, InQueue, TypeOK
  <2>3. \A u \in Task : row'[u].status = IF row[u].status = "RUNNING" THEN "FAILED" ELSE row[u].status
    BY <2>1, Kept DEF Interrupted, Row
  <2>4. [u \in Task |-> row'[u].status] =
          [u \in Task |-> IF [v \in Task |-> row[v].status][u] = "RUNNING" THEN "FAILED"
                          ELSE [v \in Task |-> row[v].status][u]]
    BY <2>3
  <2>5. Life!Interrupt
    BY <2>4 DEF Life!Interrupt
  <2>6. (Alive /\ Given /\ Off)'
    BY <2>2 DEF Alive, Given, Off
  <2> QED
    BY <1>a, <2>1, <2>5, <2>6 DEF Life!Next
<1>5. ASSUME NEW p \in Proc, Poll(p) PROVE Goal
  <2>1. CASE Claimable = {}
    BY <1>5, <1>c, <2>1 DEF Poll, pool, Has, InQueue
  <2>2. CASE Claimable # {}
    <3> PICK t : t = Oldest(Claimable)
      OBVIOUS
    <3>1. t \in Task /\ row[t].status = "PENDING"
      BY <2>2, OldestIsOne DEF Claimable, HasStatus, TypeInv
    <3>2. /\ row' = [row EXCEPT ![t].status = "RUNNING", ![t].fresh = TRUE]
          /\ claimed' = [claimed EXCEPT ![p] = t] /\ up[p]
          /\ UNCHANGED <<up, doomed, queue, wk, orphans>>
      BY <1>5, <2>2 DEF Poll, pool
    <3>3. \A q \in Proc : ~ Has(q, t) /\ t \notin doomed[q]
      BY <1>a, <3>1 DEF Alive, Given
    <3>4. /\ \A u \in Task : row'[u].status = IF u = t THEN "RUNNING" ELSE row[u].status
          /\ row'[t].fresh = TRUE /\ \A u \in Task : u # t => row'[u] = row[u]
      BY <3>1, <3>2, Kept DEF Row
    <3>5. \A q \in Proc, u \in Task : Has(q, u)' => Has(q, u) \/ (q = p /\ u = t)
      BY <3>2 DEF Has, InQueue, TypeOK
    <3>6. Alive'
      BY <1>a, <3>4, <3>5 DEF Alive
    <3>7. Given'
      BY <1>a, <3>2, <3>3, <3>4, <3>5 DEF Given
    <3>8. Off'
      BY <1>a, <3>2, <3>5 DEF Off
    <3>9. Life!Moves(t, {"PENDING"}, {"RUNNING"})
      BY <3>1, <3>4, StatusMoves
    <3> QED
      BY <1>a, <3>1, <3>2, <3>6, <3>7, <3>8, <3>9 DEF Life!Next
  <2> QED
    BY <2>1, <2>2
<1>6. ASSUME NEW p \in Proc, Register(p) PROVE Goal
  BY <1>6, <1>c DEF Register, pool, Has, InQueue
<1>7. ASSUME NEW p \in Proc, Submit(p) PROVE Goal
  <2>1. PICK t \in Task : t = claimed[p]
    BY <1>7 DEF Submit, Threads, TypeInv
  <2>2. /\ UNCHANGED <<row, up, doomed, wk, orphans>>
        /\ claimed' = [claimed EXCEPT ![p] = NoTask]
        /\ queue'[p] = queue[p] \/ queue'[p] = Append(queue[p], t)
    BY <1>7, <2>1 DEF Submit, TypeOK
  <2>3. \A u \in Task : InQueue(p, u)' => InQueue(p, u) \/ u = t
    BY <2>1, <2>2, Submitted
  <2>4. \A u \in Task : Has(p, u)' => Has(p, u)
    BY <2>1, <2>2, <2>3, ReplayAssumption DEF Has, TypeOK, NoTask
  <2> QED
    BY <1>b, <1>c, <2>2, <2>4
<1>8. ASSUME NEW p \in Proc, SweepList(p) PROVE Goal
  <2>1. /\ up[p] /\ doomed' = [doomed EXCEPT ![p] = Stale]
        /\ UNCHANGED <<row, up, claimed, queue, wk, orphans>>
    BY <1>8 DEF SweepList, pool
  <2>2. \A t \in Stale : t \in Task /\ row[t].status = "RUNNING" /\ \A q \in Proc : ~ Has(q, t)
    BY <1>a DEF Stale, HasStatus, Alive
  <2>3. \A q \in Proc, u \in Task : Has(q, u)' => Has(q, u)
    BY <2>1 DEF Has, InQueue
  <2>4. Alive' /\ Off'
    BY <1>a, <2>1, <2>3 DEF Alive, Off, TypeOK
  <2>5. Given'
    BY <1>a, <2>1, <2>2, <2>3 DEF Given, TypeOK
  <2> QED
    BY <1>a, <2>1, <2>4, <2>5, StatusSame
<1>9. ASSUME NEW p \in Proc, SweepMark(p) PROVE Goal
  <2>1. UNCHANGED <<up, claimed, queue, wk, orphans>>
    BY <1>9 DEF SweepMark, pool
  <2>2. \A q \in Proc, u \in Task : Has(q, u)' => Has(q, u)
    BY <2>1 DEF Has, InQueue
  <2>3. CASE UNCHANGED <<row, doomed>>
    BY <1>c, <2>1, <2>2, <2>3
  <2>4. ASSUME NEW t \in doomed[p], row' = Marked(t, "FAILED"), doomed' = [doomed EXCEPT ![p] = @ \ {t}]
        PROVE  Goal
    <3>1. t \in Task /\ "FAILED" \in Over
      BY <1>a DEF Over
    <3>2. row[t].status = "RUNNING" /\ \A q \in Proc : ~ Has(q, t)
      BY <1>a DEF Given
    <3>3. \A q \in Proc : doomed'[q] \subseteq doomed[q] /\ t \notin doomed'[q]
      BY <1>b, <2>4 DEF TypeOK
    <3> QED
      BY <1>d, <2>1, <2>2, <2>4, <3>1, <3>2, <3>3
  <2> QED
    BY <1>9, <2>3, <2>4 DEF SweepMark
<1>10. ASSUME NEW p \in Proc, NEW t \in Task, Cancel(p, t) PROVE Goal
  BY <1>10, <1>c DEF Cancel, thread, pool, Has, InQueue
<1>11. ASSUME NEW p \in Proc, NEW t \in Task, Consumer(p, t) PROVE Goal
  <2>1. UNCHANGED <<up, claimed, doomed, queue, wk, orphans>>
    BY <1>11 DEF Consumer, ConsumerCheck, ConsumerGet, ConsumerWrite, thread, pool
  <2>2. \A u \in Task : row'[u].status = row[u].status
    BY <1>11, ConsumerKeeps
  <2>3. \A u \in Task : row[u].fresh = TRUE => row'[u].fresh = TRUE
    BY <1>11, Kept DEF Consumer, ConsumerCheck, ConsumerGet, ConsumerWrite, Row
  <2>4. \A q \in Proc, u \in Task : Has(q, u)' => Has(q, u)
    BY <2>1 DEF Has, InQueue
  <2>5. (Alive /\ Given /\ Off)'
    BY <1>a, <2>1, <2>2, <2>3, <2>4, LifeShrinks
  <2> QED
    BY <1>a, <2>1, <2>2, <2>5, StatusSame
<1>12. ASSUME NEW p \in Proc, Take(p) PROVE Goal
  <2>1. PICK t \in Task : t = Head(queue[p]) /\ queue[p] # << >>
    BY <1>12 DEF Take, TypeOK
  <2>2. /\ UNCHANGED <<row, up, claimed, doomed, orphans>>
        /\ wk' = [wk EXCEPT ![p] = [task |-> t, at |-> "load"]]
        /\ queue' = [queue EXCEPT ![p] = Tail(@)]
    BY <1>12, <2>1 DEF Take, thread
  <2>3. InQueue(p, t) /\ \A q \in Proc, u \in Task : InQueue(q, u)' => InQueue(q, u)
    BY <2>1, <2>2, Taken
  <2>4. \A q \in Proc, u \in Task : wk'[q].task = u => wk[q].task = u \/ (q = p /\ u = t)
    BY <2>2 DEF TypeOK
  <2>5. \A q \in Proc, u \in Task : Has(q, u)' => Has(q, u)
    BY <2>2, <2>3, <2>4 DEF Has
  <2> QED
    BY <1>c, <2>2, <2>5
<1>13. ASSUME NEW p \in Proc, Advance(p) PROVE Goal
  <2>1. \A q \in Proc : wk'[q].task = wk[q].task
    BY <1>13, Kept DEF Advance, Work, Reports
  <2> QED
    BY <1>13, <1>c, <2>1 DEF Advance, thread, Has, InQueue
<1>14. ASSUME NEW p \in Proc, Finish(p) PROVE Goal
  <2>1. PICK t \in Task : t = wk[p].task
    BY <1>14 DEF Finish, Threads, TypeInv
  <2>2. PICK s \in Over : row' = Marked(t, s)
    BY <1>14, <2>1 DEF Finish, Over
  <2>3. UNCHANGED <<up, claimed, doomed, queue, orphans>> /\ wk' = [wk EXCEPT ![p] = NoWork]
    BY <1>14 DEF Finish, thread
  <2>4. \A q \in Proc, u \in Task : wk'[q].task # u
    BY <1>b, <2>3, ReplayAssumption DEF TypeOK, NoWork, NoTask
  <2>5. \A q \in Proc, u \in Task : Has(q, u)' => Has(q, u) /\ u # t
    BY <1>b, <2>1, <2>3, <2>4 DEF Has, InQueue, Within
  <2>6. row[t].status = "RUNNING" /\ \A q \in Proc : t \notin doomed[q]
    BY <1>a, <2>1 DEF Has, Alive, Given
  <2> QED
    BY <1>d, <2>2, <2>3, <2>5, <2>6
<1>15. ASSUME NEW p \in Proc, Die(p) PROVE Goal
  <2>1. \A q \in Proc, u \in Task : wk'[q].task = u => wk[q].task = u
    BY <1>15, ReplayAssumption DEF Die, TypeOK, NoWork, NoTask
  <2>2. \A q \in Proc, u \in Task : InQueue(q, u)' => InQueue(q, u)
    BY <1>15 DEF Die, TypeOK, InQueue
  <2> QED
    BY <1>15, <1>c, <2>1, <2>2 DEF Die, thread, Has
<1>16. ASSUME NEW p \in Proc, Down(p) PROVE Goal
  <2>1. \A q \in Proc : doomed'[q] = {} /\ \A u \in Task : ~ Has(q, u)'
    BY <1>16, <1>b, ReplayAssumption DEF Down, TypeOK, Has, InQueue, NoWork, NoTask
  <2>2. UNCHANGED <<row, orphans>>
    BY <1>16 DEF Down, QuietServer
  <2>3. (Alive /\ Given /\ Off)'
    BY <2>1 DEF Alive, Given, Off
  <2> QED
    BY <1>a, <2>2, <2>3, StatusSame
<1>17. CASE UNCHANGED vars
  BY <1>17, <1>c DEF vars, thread, pool, Has, InQueue
<1> QED
  BY <1>1, <1>2, <1>3, <1>4, <1>5, <1>6, <1>7, <1>8, <1>9, <1>10, <1>11, <1>12, <1>13,
     <1>14, <1>15, <1>16, <1>17 DEF Next, Scheduler, Worker

\* One server whose tasks report in time keeps the life of a task the table's comment
\* states: over is over, and nothing goes back (_VALID_STATUS).
THEOREM LivesAsStated == ASSUME QuietServer PROVE Spec => LivesOnce
<1>1. Init => Life!Init
  BY DEF Init, Life!Init
<1>2. LifeInv /\ [Next]_vars => LifeInv' /\ [Life!Next]_StatusOf
  BY LifeStep
<1> QED
  BY <1>1, <1>2, LifeInit, PTL DEF Spec, Life!Spec, LivesOnce, StatusOf
=============================================================================
