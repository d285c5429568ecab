---------------------------- MODULE Experiments ----------------------------
(***************************************************************************)
(* The experiment store (experiment/store.py, experiment/models.py) and    *)
(* its two kinds of writers: the command line, one operation a run, and    *)
(* autopromote (research/autopromote.py), a short list of operations.      *)
(*                                                                         *)
(* Writers are processes.  An operation reads its row, reads the ACTIVE    *)
(* rows when a weight is at stake, and only then opens the transaction     *)
(* that updates the row and appends to the audit log: sqlite3 begins it at *)
(* the UPDATE, so another writer may commit between the reads and it.      *)
(* Weights are whole parts of the capital, Whole of them.                  *)
(***************************************************************************)
EXTENDS Integers, Sequences, FiniteSets, FiniteSetsExt

CONSTANTS
    Ver,       \* experiment ids
    Writer,    \* processes that use the store
    Whole,     \* 1.0
    Weights,   \* weights an operator may ask for
    MaxRuns,   \* bound: runs of writers
    Crashes    \* a writer may be killed

ASSUME ExperimentsAssumption ==
    /\ Whole \in Nat \ {0} /\ Weights \subseteq Nat /\ MaxRuns \in Nat
    /\ Crashes \in BOOLEAN /\ IsFiniteSet(Ver)

VARIABLES
    ver,     \* experiment_version: status and weight
    audit,   \* audit_log per version: status changes and weights set
    plan,    \* per writer: the operations of its run still to do
    at,      \* ... where it is in the first of them
    read,    \* ... the row it has read
    changed, \* ... it has changed a row in this run
    runs

vars == <<ver, audit, plan, at, read, changed, runs>>

Status == {"DRAFT", "ACTIVE", "ARCHIVED"}
Kind   == {"promote", "set", "archive", "discard", "rollback"}
Row    == [st : Status \cup {"NONE"}, w : Nat]
Op     == [kind : Kind, v : Ver, w : Nat, soft : BOOLEAN]
Entry  == [kind : Kind, from : Status, to : Status, w : Nat]

NoRow == [st |-> "NONE", w |-> 0]

TypeOK ==
    /\ ver \in [Ver -> Row] /\ audit \in [Ver -> Seq(Entry)]
    /\ plan \in [Writer -> Seq(Op)] /\ at \in [Writer -> {"row", "actives", "write"}]
    /\ read \in [Writer -> Row] /\ changed \in [Writer -> BOOLEAN] /\ runs \in Nat

Init ==
    /\ ver = [v \in Ver |-> NoRow] /\ audit = [v \in Ver |-> << >>]
    /\ plan = [c \in Writer |-> << >>] /\ at = [c \in Writer |-> "row"]
    /\ read = [c \in Writer |-> NoRow] /\ changed = [c \in Writer |-> FALSE]
    /\ runs = 0

(***************************************************************************)
(* The rules of models.py.                                                 *)
(***************************************************************************)
LegalTransitions ==
    {<<"DRAFT", "ACTIVE">>, <<"DRAFT", "ARCHIVED">>, <<"ACTIVE", "ARCHIVED">>,
     <<"ARCHIVED", "ACTIVE">>}

Actives == {v \in Ver : ver[v].st = "ACTIVE"}

Invested(S) == MapThenSumSet(LAMBDA v : ver[v].w, S)

WeightFits(S, w) == Invested(S) + w <= Whole      \* validate_weight_sum

(***************************************************************************)
(* Runs of writers.                                                        *)
(***************************************************************************)
Operation(kind, v, w) == [kind |-> kind, v |-> v, w |-> w, soft |-> FALSE]

Begin(c, ops) ==
    /\ plan[c] = << >> /\ runs < MaxRuns /\ runs' = runs + 1
    /\ plan' = [plan EXCEPT ![c] = ops]
    /\ changed' = [changed EXCEPT ![c] = FALSE]
    /\ UNCHANGED <<ver, audit, at, read>>

\* create_version: the insert refuses an id that is there.
Create(c, v) ==
    /\ plan[c] = << >> /\ ver[v] = NoRow
    /\ ver' = [ver EXCEPT ![v].st = "DRAFT"]
    /\ UNCHANGED <<audit, plan, at, read, changed, runs>>

Command(c) == \E k \in Kind, v \in Ver, w \in Weights : Begin(c, <<Operation(k, v, w)>>)

\* autopromote compares with the champion, or with the version the command line
\* names, which may be any; b = v stands for no other.  First phase: a DRAFT has
\* passed the gates; the weight of b goes down, then the candidate comes in.
Gray(c, v, b, w) ==
    /\ ver[v].st = "DRAFT" /\ ver[b] # NoRow /\ w <= Whole
    /\ Begin(c, (IF b = v THEN << >> ELSE <<Operation("set", b, Whole - w)>>)
                \o <<Operation("promote", v, w)>>)

\* Second phase: b is archived, whether it goes or not, and the candidate takes all.
Retire(b) == [Operation("archive", b, 0) EXCEPT !.soft = TRUE]

Replace(c, v, b) == Begin(c, (IF b = v THEN << >> ELSE <<Retire(b)>>)
                             \o <<Operation("set", v, Whole)>>)

\* Variant: the status of the candidate is not looked at.
ConfirmUnchecked(c, v, b) == ver[v] # NoRow /\ Replace(c, v, b)

Confirm(c, v, b) == ver[v].st = "ACTIVE" /\ Replace(c, v, b)

Kill(c) ==
    /\ Crashes /\ plan[c] # << >>
    /\ plan' = [plan EXCEPT ![c] = << >>] /\ at' = [at EXCEPT ![c] = "row"]
    /\ read' = [read EXCEPT ![c] = NoRow]
    /\ UNCHANGED <<ver, audit, changed, runs>>

(***************************************************************************)
(* One operation of the store.                                             *)
(***************************************************************************)
\* Variant: set-weight looks only for what is not archived.
RowNotArchived(op, row) ==
    CASE op.kind \in {"promote", "discard"} -> row.st = "DRAFT"
      [] op.kind = "set"      -> row.st # "ARCHIVED"
      [] op.kind = "archive"  -> <<row.st, "ARCHIVED">> \in LegalTransitions
      [] op.kind = "rollback" -> <<row.st, "ACTIVE">> \in LegalTransitions

\* What its row must be.  promote and discard name the status themselves; archive and
\* rollback ask the table of transitions alone.
RowAllows(op, row) ==
    CASE op.kind \in {"promote", "discard"} -> row.st = "DRAFT"
      [] op.kind = "set"      -> row.st = "ACTIVE"
      [] op.kind = "archive"  -> <<row.st, "ARCHIVED">> \in LegalTransitions
      [] op.kind = "rollback" -> <<row.st, "ACTIVE">> \in LegalTransitions

\* ValueError: a soft operation is passed over, any other ends the run.
Fail(c) ==
    /\ plan' = [plan EXCEPT ![c] = IF Head(@).soft THEN Tail(@) ELSE << >>]
    /\ at' = [at EXCEPT ![c] = "row"] /\ read' = [read EXCEPT ![c] = NoRow]
    /\ UNCHANGED <<ver, audit, changed, runs>>

ReadRow(c) ==
    /\ plan[c] # << >> /\ at[c] = "row"
    /\ LET op == Head(plan[c])
           row == ver[op.v]
       IN  \/ ~RowAllows(op, row) /\ Fail(c)
           \/ /\ RowAllows(op, row)
              /\ read' = [read EXCEPT ![c] = row]
              /\ at' = [at EXCEPT ![c] = IF op.kind \in {"archive", "discard"}
                                         THEN "write" ELSE "actives"]
              /\ UNCHANGED <<ver, audit, plan, changed, runs>>

\* Variant: what comes back from the archive is not weighed.
AtStakeForgotten(op, row) ==
    IF op.kind = "set" THEN [S |-> Actives \ {op.v}, w |-> op.w]
    ELSE IF op.kind = "promote" THEN [S |-> Actives, w |-> op.w]
    ELSE [S |-> {}, w |-> row.w]

\* The weights that count, and the one that comes to them.
AtStake(op, row) ==
    IF op.kind = "set" THEN [S |-> Actives \ {op.v}, w |-> op.w]
    ELSE [S |-> Actives, w |-> IF op.kind = "promote" THEN op.w ELSE row.w]

ReadActives(c) ==
    /\ at[c] = "actives"
    /\ LET sum == AtStake(Head(plan[c]), read[c])
       IN  \/ ~WeightFits(sum.S, sum.w) /\ Fail(c)
           \/ /\ WeightFits(sum.S, sum.w) /\ at' = [at EXCEPT ![c] = "write"]
              /\ UNCHANGED <<ver, audit, plan, read, changed, runs>>

\* The columns an UPDATE names, on the row of that moment.
Updated(op, row) ==
    CASE op.kind = "promote"               -> [st |-> "ACTIVE", w |-> op.w]
      [] op.kind = "set"                   -> [ver[op.v] EXCEPT !.w = op.w]
      [] op.kind \in {"archive", "discard"} -> [ver[op.v] EXCEPT !.st = "ARCHIVED"]
      [] op.kind = "rollback"              -> [ver[op.v] EXCEPT !.st = "ACTIVE"]

\* Variant: the weight is logged as it was read.
AuditedBefore(op, row) ==
    [kind |-> op.kind, from |-> row.st,
     to |-> CASE op.kind \in {"promote", "rollback"} -> "ACTIVE"
              [] op.kind = "set" -> row.st
              [] OTHER -> "ARCHIVED",
     w |-> IF op.kind = "set" THEN row.w ELSE op.w]

\* What the audit says of it: the status read before, the status and weight set.
Audited(op, row) ==
    [kind |-> op.kind, from |-> row.st,
     to |-> CASE op.kind \in {"promote", "rollback"} -> "ACTIVE"
              [] op.kind = "set" -> row.st
              [] OTHER -> "ARCHIVED",
     w |-> op.w]

Write(c) ==
    /\ at[c] = "write"
    /\ LET op == Head(plan[c])
       IN  /\ ver' = [ver EXCEPT ![op.v] = Updated(op, read[c])]
           /\ audit' = [audit EXCEPT ![op.v] = Append(@, Audited(op, read[c]))]
    /\ plan' = [plan EXCEPT ![c] = Tail(@)] /\ at' = [at EXCEPT ![c] = "row"]
    /\ read' = [read EXCEPT ![c] = NoRow] /\ changed' = [changed EXCEPT ![c] = @ \/ ver' # ver]
    /\ UNCHANGED runs

-----------------------------------------------------------------------------
Next ==
    \E c \in Writer :
        \/ \E v \in Ver : Create(c, v)
        \/ \E v, b \in Ver : Confirm(c, v, b) \/ \E w \in Weights : Gray(c, v, b, w)
        \/ Command(c) \/ ReadRow(c) \/ ReadActives(c) \/ Write(c) \/ Kill(c)

Spec == Init /\ [][Next]_vars

-----------------------------------------------------------------------------
\* The ACTIVE versions never share out more than the capital (models.py, "the weights
\* of all ACTIVE versions sum up to at most 1.0").
BudgetConserved == Invested(Actives) <= Whole

\* The audit log tells the table: the last status and the last weight it reports of a
\* version are those of its row, whoever wrote between (_write_audit, in the same
\* transaction as the change).
LastWhere(s, Test(_)) == LET I == {i \in DOMAIN s : Test(s[i])}
                         IN  IF I = {} THEN {} ELSE {s[Max(I)]}

AuditTells ==
    \A v \in Ver :
        /\ \A e \in LastWhere(audit[v], LAMBDA x : x.kind # "set") : e.to = ver[v].st
        /\ \A e \in LastWhere(audit[v], LAMBDA x : x.kind \in {"promote", "set"}) :
              e.w = ver[v].w

\* A run of autopromote never takes down the last ACTIVE version, not even when it is
\* killed half way: the scan always has something to trade by.
LastActiveStays ==
    [][\A c \in Writer : plan[c] # << >> /\ (Head(plan[c]).soft \/ Len(plan[c]) > 1)
                            => (Actives # {} => Actives' # {})]_vars

-----------------------------------------------------------------------------
(***************************************************************************)
(* What the documents say and the code does not keep ("Divergences" in the *)
(* README, with the constants under which TLC shows it).                   *)
(***************************************************************************)
\* A version trades only after somebody promoted it: DRAFT goes ACTIVE by promote
\* alone ("rollback: ARCHIVED -> ACTIVE").
ActivePromoted ==
    \A v \in Actives : \E i \in DOMAIN audit[v] : audit[v][i].kind = "promote"

\* A run that ends with an error has changed nothing ("never half a change", cli.py).
NothingByHalves ==
    [][\A c \in Writer :
          plan[c] # << >> /\ plan'[c] = << >> /\ at[c] # "write" => ~changed[c]]_vars

=============================================================================
