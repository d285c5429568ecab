------------------------- MODULE ExperimentsProofs -------------------------
(***************************************************************************)
(* Proofs about Experiments, for every set of versions, weights and        *)
(* writers: types, the audit log, and, when no two writers use the store   *)
(* at a time, the capital and the last ACTIVE version.                     *)
(***************************************************************************)
EXTENDS Experiments, SumTheorems, SequenceTheorems, TLAPS

-----------------------------------------------------------------------------
(***************************************************************************)
(* Types.                                                                  *)
(***************************************************************************)
\* A writer past its first read has an operation whose row it found in order.
Checked ==
    \A c \in Writer : at[c] # "row" =>
        /\ plan[c] # << >> /\ RowAllows(Head(plan[c]), read[c])
        /\ at[c] = "actives" => Head(plan[c]).kind \in {"promote", "set", "rollback"}

TypeInv == TypeOK /\ Checked

LEMMA TypeInit == Init => TypeInv
BY ExperimentsAssumption DEF Init, TypeInv, TypeOK, Checked, Row, NoRow

LEMMA FirstIsOp == ASSUME TypeOK, NEW c \in Writer, plan[c] # << >> PROVE Head(plan[c]) \in Op
BY DEF TypeOK

\* The runs of the command line and of autopromote are lists of operations.
LEMMA OperationType ==
  ASSUME NEW k \in Kind, NEW v \in Ver, NEW w \in Nat
  PROVE  Operation(k, v, w) \in Op /\ <<Operation(k, v, w)>> \in Seq(Op)
BY DEF Operation, Op

LEMMA RetireType == ASSUME NEW b \in Ver PROVE Retire(b) \in Op /\ <<Retire(b)>> \in Seq(Op)
<1>1. ASSUME NEW op \in Op PROVE [op EXCEPT !.soft = TRUE] \in Op
  BY DEF Op
<1>2. Retire(b) \in Op
  BY <1>1, OperationType DEF Retire, Kind
<1> QED
  BY <1>2

LEMMA BeginType ==
  ASSUME TypeInv, NEW c \in Writer, NEW ops \in Seq(Op), Begin(c, ops)
  PROVE  TypeInv'
BY DEF Begin, TypeInv, TypeOK, Checked

LEMMA FailType ==
  ASSUME TypeInv, NEW c \in Writer, plan[c] # << >>, Fail(c)
  PROVE  TypeInv'
<1>1. IF Head(plan[c]).soft THEN Tail(plan[c]) \in Seq(Op) ELSE << >> \in Seq(Op)
  BY DEF TypeInv, TypeOK
<1>2. plan' \in [Writer -> Seq(Op)]
  BY <1>1 DEF Fail, TypeInv, TypeOK
<1>3. NoRow \in Row
  BY DEF NoRow, Row
<1> QED
  BY <1>2, <1>3 DEF Fail, TypeInv, TypeOK, Checked

\* The row an operation was found in order with is there.
LEMMA AllowedIsThere ==
  ASSUME NEW op \in Op, NEW r \in Row, RowAllows(op, r)
  PROVE  r.st \in Status
BY DEF RowAllows, LegalTransitions, Op, Kind, Row, Status

LEMMA WriteType ==
  ASSUME TypeInv, NEW c \in Writer, Write(c)
  PROVE  /\ Head(plan[c]) \in Op /\ read[c] \in Row /\ RowAllows(Head(plan[c]), read[c])
         /\ Updated(Head(plan[c]), read[c]) \in Row
         /\ Audited(Head(plan[c]), read[c]) \in Entry
<1>1. /\ at[c] = "write" /\ plan[c] # << >> /\ Head(plan[c]) \in Op /\ read[c] \in Row
      /\ RowAllows(Head(plan[c]), read[c])
  BY FirstIsOp DEF Write, TypeInv, TypeOK, Checked
<1> DEFINE op == Head(plan[c])
           row == read[c]
<1>2. row.st \in Status /\ op.kind \in Kind /\ op.v \in Ver /\ op.w \in Nat /\ ver[op.v] \in Row
  BY <1>1, AllowedIsThere DEF Op, TypeInv, TypeOK
<1> HIDE DEF op, row
<1>3. Updated(op, row) \in Row
  BY <1>2 DEF Updated, Row, Kind, Status
<1>4. Audited(op, row) \in Entry
  BY <1>2 DEF Audited, Entry, Kind, Status
<1> QED
  BY <1>1, <1>3, <1>4 DEF op, row

LEMMA TypeStep == TypeInv /\ [Next]_vars => TypeInv'
<1> SUFFICES ASSUME TypeInv, [Next]_vars PROVE TypeInv'
  OBVIOUS
<1>0. TypeOK /\ Checked
  BY DEF TypeInv
<1> USE ExperimentsAssumption
<1>1. ASSUME NEW c \in Writer, NEW v \in Ver, Create(c, v) PROVE TypeInv'
  BY <1>0, <1>1 DEF Create, TypeInv, TypeOK, Checked, Row, Status
<1>2. ASSUME NEW c \in Writer, NEW v \in Ver, NEW b \in Ver, Confirm(c, v, b) PROVE TypeInv'
  <2> DEFINE ops == (IF b = v THEN << >> ELSE <<Retire(b)>>) \o <<Operation("set", v, Whole)>>
  <2>1. ops \in Seq(Op)
    <3>1. <<Retire(b)>> \in Seq(Op) /\ <<Operation("set", v, Whole)>> \in Seq(Op)
      BY RetireType, OperationType DEF Kind
    <3> QED
      BY <3>1
  <2>2. Begin(c, ops)
    BY <1>2 DEF Confirm, Replace
  <2> HIDE DEF ops
  <2> QED
    BY <2>1, <2>2, BeginType
<1>3. ASSUME NEW c \in Writer, NEW v \in Ver, NEW b \in Ver, NEW w \in Weights, Gray(c, v, b, w)
      PROVE  TypeInv'
  <2> DEFINE ops == (IF b = v THEN << >> ELSE <<Operation("set", b, Whole - w)>>)
                    \o <<Operation("promote", v, w)>>
  <2>1. ops \in Seq(Op)
    <3>1. w \in Nat /\ Whole - w \in Nat
      BY <1>3 DEF Gray
    <3>2. /\ <<Operation("set", b, Whole - w)>> \in Seq(Op)
          /\ <<Operation("promote", v, w)>> \in Seq(Op)
      BY <3>1, OperationType DEF Kind
    <3> QED
      BY <3>2
  <2>2. Begin(c, ops)
    BY <1>3 DEF Gray
  <2> HIDE DEF ops
  <2> QED
    BY <2>1, <2>2, BeginType
<1>4. ASSUME NEW c \in Writer, Command(c) PROVE TypeInv'
  <2>1. PICK k \in Kind, v \in Ver, w \in Weights : Begin(c, <<Operation(k, v, w)>>)
    BY <1>4 DEF Command
  <2>2. <<Operation(k, v, w)>> \in Seq(Op)
    BY OperationType
  <2> QED
    BY <2>1, <2>2, BeginType
<1>5. ASSUME NEW c \in Writer, ReadRow(c) PROVE TypeInv'
  <2>1. CASE Fail(c)
    BY <1>5, <2>1, FailType DEF ReadRow
  <2>2. CASE ~ Fail(c)
    <3> DEFINE op == Head(plan[c])
    <3>1. /\ plan[c] # << >> /\ RowAllows(op, ver[op.v]) /\ op \in Op
          /\ read' = [read EXCEPT ![c] = ver[op.v]]
          /\ at' = [at EXCEPT ![c] = IF op.kind \in {"archive", "discard"} THEN "write" ELSE "actives"]
          /\ UNCHANGED <<ver, audit, plan, changed, runs>>
      BY <1>0, <1>5, <2>2, FirstIsOp DEF ReadRow
    <3>2. op.v \in Ver /\ ver[op.v] \in Row /\ op.kind \in Kind
      BY <1>0, <3>1 DEF Op, TypeOK
    <3>3. TypeOK'
      BY <1>0, <3>1, <3>2 DEF TypeOK
    <3>4. Checked'
      BY <1>0, <3>1, <3>2 DEF Checked, TypeOK, Kind
    <3> QED
      BY <3>3, <3>4 DEF TypeInv
  <2> QED
    BY <2>1, <2>2
<1>6. ASSUME NEW c \in Writer, ReadActives(c) PROVE TypeInv'
  <2>1. CASE Fail(c)
    BY <1>0, <1>6, <2>1, FailType DEF ReadActives, Checked
  <2>2. CASE ~ Fail(c)
    <3>1. at' = [at EXCEPT ![c] = "write"] /\ UNCHANGED <<ver, audit, plan, read, changed, runs>>
      BY <1>6, <2>2 DEF ReadActives
    <3> QED
      BY <1>0, <1>6, <3>1 DEF ReadActives, TypeInv, TypeOK, Checked
  <2> QED
    BY <2>1, <2>2
<1>7. ASSUME NEW c \in Writer, Write(c) PROVE TypeInv'
  <2> DEFINE op == Head(plan[c])
  <2>1. /\ op \in Op /\ plan[c] # << >> /\ Updated(op, read[c]) \in Row
        /\ Audited(op, read[c]) \in Entry
    BY <1>0, <1>7, WriteType DEF Write, Checked
  <2>2. op.v \in Ver
    BY <2>1 DEF Op
  <2> HIDE DEF op
  <2>3. ver' \in [Ver -> Row]
    BY <1>0, <1>7, <2>1, <2>2 DEF Write, TypeOK, op
  <2>4. audit' \in [Ver -> Seq(Entry)]
    BY <1>0, <1>7, <2>1, <2>2 DEF Write, TypeOK, op
  <2>5. plan' \in [Writer -> Seq(Op)]
    <3>1. Tail(plan[c]) \in Seq(Op)
      BY <1>0, <2>1 DEF TypeOK
    <3> QED
      BY <1>0, <1>7, <3>1 DEF Write, TypeOK
  <2>6. /\ at' \in [Writer -> {"row", "actives", "write"}]
        /\ read' \in [Writer -> Row] /\ runs' \in Nat
    BY <1>0, <1>7 DEF Write, TypeOK, NoRow, Row
  <2>7. changed' \in [Writer -> BOOLEAN]
    BY <1>0, <1>7, Zenon DEF Write, TypeOK
  <2>8. Checked'
    BY <1>0, <1>7 DEF Write, Checked, TypeOK
  <2> QED
    BY <2>3, <2>4, <2>5, <2>6, <2>7, <2>8 DEF TypeInv, TypeOK
<1>8. ASSUME NEW c \in Writer, Kill(c) PROVE TypeInv'
  BY <1>0, <1>8 DEF Kill, TypeInv, TypeOK, Checked, NoRow, Row
<1>9. CASE UNCHANGED vars
  BY <1>0, <1>9 DEF vars, TypeInv, TypeOK, Checked
<1> QED
  BY <1>1, <1>2, <1>3, <1>4, <1>5, <1>6, <1>7, <1>8, <1>9 DEF Next

\* Every variable keeps its type: what is audited is always the change of a row that
\* is there.
THEOREM TypeCorrect == Spec => []TypeOK
<1>1. TypeInv => TypeOK
  BY DEF TypeInv
<1> QED
  BY <1>1, TypeInit, TypeStep, PTL DEF Spec

-----------------------------------------------------------------------------
(***************************************************************************)
(* The audit log.                                                          *)
(***************************************************************************)
\* The entry at i is the last of its log whose kind is one of K.
IsLast(s, K, i) ==
    s[i].kind \in K /\ \A j \in DOMAIN s : s[j].kind \in K => j <= i

Moves == Kind \ {"set"}
Sets  == {"promote", "set"}

\* AuditTells, by the places of the entries.
Tells ==
    \A v \in Ver : \A i \in DOMAIN audit[v] :
        /\ IsLast(audit[v], Moves, i) => audit[v][i].to = ver[v].st
        /\ IsLast(audit[v], Sets, i) => audit[v][i].w = ver[v].w

LEMMA GreatestNat ==
  ASSUME NEW n \in Nat, NEW I \in SUBSET (1 .. n), I # {}
  PROVE  Max(I) \in I /\ \A j \in I : j <= Max(I)
<1> DEFINE D == {d \in 0 .. n : n - d \in I}
<1>1. D \in SUBSET Nat /\ D # {}
  <2>1. PICK i \in I : TRUE
    OBVIOUS
  <2>2. n - i \in D /\ D \in SUBSET Nat
    BY <2>1
  <2> HIDE DEF D
  <2> QED
    BY <2>2
<1>2. \E d \in D : \A e \in D : ~ (<<e, d>> \in OpToRel(<, Nat))
  <2> HIDE DEF D
  <2> QED
    BY <1>1, NatLessThanWellFounded, WFMin
<1>3. PICK d \in D : \A e \in D : ~ (e < d)
  <2>1. \A x, y \in Nat : y < x => <<y, x>> \in OpToRel(<, Nat)
    BY DEF OpToRel
  <2> QED
    BY <1>1, <1>2, <2>1
<1>4. n - d \in I /\ \A j \in I : n - d >= j
  <2>1. \A j \in I : n - j \in D /\ j \in Nat
    OBVIOUS
  <2> QED
    BY <1>3, <2>1
<1>5. \E m \in I : \A j \in I : m >= j
  BY <1>4
<1>6. Max(I) \in I /\ \A j \in I : Max(I) >= j
  BY <1>5 DEF Max
<1> QED
  BY <1>6

LEMMA TellsTheSame == TypeOK /\ Tells => AuditTells
<1> SUFFICES ASSUME TypeOK, Tells, NEW v \in Ver
             PROVE  /\ \A e \in LastWhere(audit[v], LAMBDA x : x.kind # "set") : e.to = ver[v].st
                    /\ \A e \in LastWhere(audit[v], LAMBDA x : x.kind \in {"promote", "set"}) :
                          e.w = ver[v].w
  BY DEF AuditTells
<1> DEFINE s == audit[v]
           I == {i \in DOMAIN s : s[i].kind # "set"}
           J == {i \in DOMAIN s : s[i].kind \in {"promote", "set"}}
<1>1. Len(s) \in Nat /\ DOMAIN s = 1 .. Len(s) /\ \A i \in DOMAIN s : s[i].kind \in Kind
  <2>1. s \in Seq(Entry)
    BY DEF TypeOK
  <2>2. Len(s) \in Nat /\ DOMAIN s = 1 .. Len(s) /\ \A i \in DOMAIN s : s[i] \in Entry
    BY <2>1
  <2> QED
    BY <2>2 DEF Entry
<1>2. LastWhere(audit[v], LAMBDA x : x.kind # "set") = IF I = {} THEN {} ELSE {s[Max(I)]}
  BY DEF LastWhere
<1>3. LastWhere(audit[v], LAMBDA x : x.kind \in {"promote", "set"})
        = IF J = {} THEN {} ELSE {s[Max(J)]}
  BY DEF LastWhere
<1>4. I # {} => Max(I) \in DOMAIN s /\ IsLast(s, Moves, Max(I))
  <2>1. I \in SUBSET (1 .. Len(s))
    BY <1>1
  <2>2. I # {} => Max(I) \in I /\ \A j \in I : j <= Max(I)
    BY <1>1, <2>1, GreatestNat
  <2> QED
    BY <1>1, <2>2 DEF IsLast, Moves
<1>5. J # {} => Max(J) \in DOMAIN s /\ IsLast(s, Sets, Max(J))
  <2>1. J \in SUBSET (1 .. Len(s))
    BY <1>1
  <2>2. J # {} => Max(J) \in J /\ \A j \in J : j <= Max(J)
    BY <1>1, <2>1, GreatestNat
  <2> QED
    BY <1>1, <2>2 DEF IsLast, Sets
<1> HIDE DEF I, J
<1> QED
  BY <1>2, <1>3, <1>4, <1>5, ZenonT(40) DEF Tells

\* The log of a version with one more entry.
LEMMA LogGrows ==
  ASSUME NEW s \in Seq(Entry), NEW e \in Entry, NEW K, NEW i \in DOMAIN Append(s, e),
         IsLast(Append(s, e), K, i)
  PROVE  IF e.kind \in K THEN i = Len(s) + 1 /\ Append(s, e)[i] = e
         ELSE i \in DOMAIN s /\ IsLast(s, K, i) /\ Append(s, e)[i] = s[i]
<1> DEFINE n == Len(s) + 1
<1>1. /\ DOMAIN Append(s, e) = 1 .. n /\ n \in DOMAIN Append(s, e) /\ Append(s, e)[n] = e
      /\ DOMAIN s = 1 .. Len(s) /\ Len(s) \in Nat
      /\ \A j \in DOMAIN s : j \in DOMAIN Append(s, e) /\ Append(s, e)[j] = s[j]
  OBVIOUS
<1>2. CASE e.kind \in K
  <2>1. n <= i
    BY <1>1, <1>2 DEF IsLast
  <2> QED
    BY <1>1, <1>2, <2>1
<1>3. CASE e.kind \notin K
  <2>1. i # n
    BY <1>1, <1>3 DEF IsLast
  <2>2. i \in DOMAIN s
    BY <1>1, <2>1
  <2> QED
    BY <1>1, <1>3, <2>2 DEF IsLast
<1> QED
  BY <1>2, <1>3

LEMMA TellsStep == TypeInv /\ Tells /\ [Next]_vars => Tells'
<1> SUFFICES ASSUME TypeInv, Tells, [Next]_vars PROVE Tells'
  OBVIOUS
<1>0. TypeOK
  BY DEF TypeInv
<1>1. CASE UNCHANGED <<ver, audit>>
  BY <1>1 DEF Tells, IsLast
<1>2. ASSUME NEW c \in Writer, NEW v \in Ver, Create(c, v) PROVE Tells'
  <2>1. /\ ver[v].st = "NONE" /\ UNCHANGED audit
        /\ \A u \in Ver : u # v => ver'[u] = ver[u]
        /\ ver'[v].w = ver[v].w
    BY <1>0, <1>2 DEF Create, NoRow, TypeOK, Row
  <2>2. \A i \in DOMAIN audit[v] : audit[v][i].to # "NONE"
    <3>1. audit[v] \in Seq(Entry)
      BY <1>0 DEF TypeOK
    <3>2. \A i \in DOMAIN audit[v] : audit[v][i] \in Entry
      BY <3>1
    <3> QED
      BY <3>2 DEF Entry, Status
  <2> QED
    BY <2>1, <2>2 DEF Tells, IsLast
<1>3. ASSUME NEW c \in Writer, Write(c) PROVE Tells'
  <2> DEFINE op == Head(plan[c])
             row == read[c]
             e == Audited(op, row)
  <2>1. /\ op \in Op /\ row \in Row /\ RowAllows(op, row) /\ e \in Entry
        /\ ver' = [ver EXCEPT ![op.v] = Updated(op, row)]
        /\ audit' = [audit EXCEPT ![op.v] = Append(@, e)]
    BY <1>3, WriteType DEF Write
  <2>2. op.v \in Ver /\ op.kind \in Kind /\ ver[op.v] \in Row
    BY <1>0, <2>1 DEF Op, TypeOK
  <2>3. e.kind = op.kind /\ e.w = op.w
    BY DEF Audited
  <2>4. op.kind \in Moves => e.to = Updated(op, row).st
    BY <2>2 DEF Audited, Updated, Moves, Kind, Row
  <2>5. op.kind \notin Moves => Updated(op, row).st = ver[op.v].st
    BY <2>2 DEF Updated, Moves, Kind, Row
  <2>6. op.kind \in Sets => Updated(op, row).w = op.w
    BY <2>2 DEF Updated, Sets, Kind, Row
  <2>7. op.kind \notin Sets => Updated(op, row).w = ver[op.v].w
    BY <2>2 DEF Updated, Sets, Kind, Row
  <2> HIDE DEF op, row, e
  <2>8. SUFFICES ASSUME NEW u \in Ver, NEW i \in DOMAIN audit'[u]
                 PROVE  /\ IsLast(audit'[u], Moves, i) => audit'[u][i].to = ver'[u].st
                        /\ IsLast(audit'[u], Sets, i) => audit'[u][i].w = ver'[u].w
    BY DEF Tells, IsLast
  <2>9. CASE u # op.v
    <3>1. audit'[u] = audit[u] /\ ver'[u] = ver[u]
      BY <1>0, <2>1, <2>2, <2>9 DEF TypeOK
    <3> QED
      BY <2>8, <3>1 DEF Tells
  <2>10. CASE u = op.v
    <3>1. /\ audit'[u] = Append(audit[u], e) /\ ver'[u] = Updated(op, row)
          /\ audit[u] \in Seq(Entry)
      BY <1>0, <2>1, <2>2, <2>10 DEF TypeOK
    <3>2. IsLast(audit'[u], Moves, i) => audit'[u][i].to = ver'[u].st
      BY <2>1, <2>3, <2>4, <2>5, <2>8, <2>10, <3>1, LogGrows DEF Tells
    <3>3. IsLast(audit'[u], Sets, i) => audit'[u][i].w = ver'[u].w
      BY <2>1, <2>3, <2>6, <2>7, <2>8, <2>10, <3>1, LogGrows DEF Tells
    <3> QED
      BY <3>2, <3>3
  <2> QED
    BY <2>9, <2>10
<1> QED
  BY <1>1, <1>2, <1>3 DEF Next, vars, Confirm, Gray, Replace, Command, Begin, ReadRow,
     ReadActives, Fail, Kill

\* However many writers use the store at a time, the audit log tells the table: a
\* change and its entry are one transaction, and the entry names what was set.
THEOREM AuditAgrees == Spec => []AuditTells
<1>1. Init => Tells
  BY DEF Init, Tells
<1>2. TypeInv /\ Tells => AuditTells
  BY TellsTheSame DEF TypeInv
<1> QED
  BY <1>1, <1>2, TypeInit, TypeStep, TellsStep, PTL DEF Spec

-----------------------------------------------------------------------------
(***************************************************************************)
(* The capital, when no two writers use the store at a time.               *)
(***************************************************************************)
Alone == \A c, d \in Writer : c = d

WeightOf(f) == [v \in Ver |-> f[v].w]

Share(S) == SumOf(WeightOf(ver), S)

\* What validate_weight_sum adds up is the sum of the weights.
LEMMA InvestedIs == ASSUME TypeOK, NEW S \in SUBSET Ver PROVE Invested(S) = Share(S)
<1> DEFINE W == WeightOf(ver)
           Folds(g) == g = [T \in SUBSET S |-> IF T = {} THEN 0
                                               ELSE ver[Pick(T)].w + g[T \ {Pick(T)}]]
<1>1. IsFiniteSet(S) /\ NaturalOn(W, S)
  BY ExperimentsAssumption, FS_Subset DEF NaturalOn, WeightOf, TypeOK, Row
<1>2. \A T \in SUBSET S : T # {} => Pick(T) \in S /\ W[Pick(T)] = ver[Pick(T)].w
  BY DEF Pick, WeightOf
<1>3. ASSUME NEW g PROVE Folds(g) <=> IsSum(W, g, S)
  <2> HIDE DEF W
  <2>1. [T \in SUBSET S |-> IF T = {} THEN 0 ELSE ver[Pick(T)].w + g[T \ {Pick(T)}]]
          = [T \in SUBSET S |-> IF T = {} THEN 0 ELSE W[Pick(T)] + g[T \ {Pick(T)}]]
    BY <1>2
  <2> QED
    BY <2>1, Zenon DEF IsSum
<1>4. Invested(S) = (CHOOSE g : Folds(g))[S]
  BY DEF Invested, MapThenSumSet, MapThenFoldSet, Pick
<1> HIDE DEF Folds, W
<1>5. Folds(CHOOSE g : Folds(g))
  <2>1. \E g : Folds(g)
    BY <1>1, <1>3, SumExists
  <2> QED
    BY <2>1, Zenon
<1>6. (CHOOSE g : Folds(g))[S] = SumOf(W, S)
  BY <1>1, <1>3, <1>5, SumUnique
<1> QED
  BY <1>4, <1>6 DEF Share, W

\* What a writer has read, nobody has changed, and its weight was found to fit.
Fresh ==
    \A c \in Writer : at[c] # "row" =>
        LET op == Head(plan[c])
        IN  /\ read[c] = ver[op.v]
            /\ at[c] = "write" /\ op.kind \in {"promote", "set", "rollback"} =>
                 Share(AtStake(op, read[c]).S) + AtStake(op, read[c]).w <= Whole

BudgetInv == TypeInv /\ Fresh /\ Share(Actives) <= Whole

LEMMA BudgetInit == Init => BudgetInv
<1> SUFFICES ASSUME Init PROVE BudgetInv
  OBVIOUS
<1>1. Actives = {}
  BY DEF Init, Actives, NoRow
<1>2. Share(Actives) = 0
  BY <1>1, SumEmpty DEF Share
<1> QED
  BY <1>2, TypeInit, ExperimentsAssumption DEF Init, BudgetInv, Fresh

\* The sum after a row has changed: what the others have, and what it counts for.
LEMMA ShareAfter ==
  ASSUME TypeOK, TypeOK', NEW v \in Ver, \A u \in Ver : u # v => ver'[u] = ver[u]
  PROVE  /\ Share(Actives \ {v}) \in Nat
         /\ Share(Actives)' = Share(Actives \ {v})
                              + IF ver'[v].st = "ACTIVE" THEN ver'[v].w ELSE 0
         /\ Share(Actives) = Share(Actives \ {v})
                             + IF ver[v].st = "ACTIVE" THEN ver[v].w ELSE 0
<1> DEFINE W == WeightOf(ver)
           X == WeightOf(ver')
           A == Actives
           B == Actives'
<1>1. IsFiniteSet(A) /\ IsFiniteSet(B) /\ IsFiniteSet(A \ {v}) /\ A \subseteq Ver /\ B \subseteq Ver
  BY ExperimentsAssumption, FS_Subset DEF Actives
<1>2. NaturalOn(W, Ver) /\ NaturalOn(X, Ver) /\ W[v] = ver[v].w /\ X[v] = ver'[v].w
  BY DEF NaturalOn, WeightOf, TypeOK, Row
<1>3. NaturalOn(W, A) /\ NaturalOn(X, B) /\ NaturalOn(W, A \ {v})
  BY <1>1, <1>2 DEF NaturalOn
<1>4. B \ {v} = A \ {v} /\ (v \in A <=> ver[v].st = "ACTIVE") /\ (v \in B <=> ver'[v].st = "ACTIVE")
  BY DEF Actives
<1>5. \A u \in A \ {v} : X[u] = W[u]
  BY <1>1 DEF WeightOf
<1>6. SumOf(X, A \ {v}) = SumOf(W, A \ {v})
  BY <1>5, SumAlike
<1>7. SumOf(W, A \ {v}) \in Nat
  BY <1>1, <1>3, SumNat
<1> HIDE DEF W, X, A, B
<1>8. v \in A => SumOf(W, A) = SumOf(W, A \ {v}) + W[v]
  BY <1>1, <1>3, SumSplit
<1>9. v \in B => SumOf(X, B) = SumOf(X, B \ {v}) + X[v]
  BY <1>1, <1>3, SumSplit
<1>10. (v \notin A => A = A \ {v}) /\ (v \notin B => B = B \ {v})
  OBVIOUS
<1>11. SumOf(X, B) = SumOf(W, A \ {v}) + IF ver'[v].st = "ACTIVE" THEN ver'[v].w ELSE 0
  <2>1. SumOf(X, B \ {v}) = SumOf(W, A \ {v})
    BY <1>4, <1>6
  <2>2. CASE v \in B
    BY <1>2, <1>4, <1>9, <2>1, <2>2
  <2>3. CASE v \notin B
    <3>1. SumOf(X, B) = SumOf(W, A \ {v})
      BY <1>10, <2>1, <2>3
    <3> QED
      BY <1>4, <1>7, <2>3, <3>1
  <2> QED
    BY <2>2, <2>3
<1>12. SumOf(W, A) = SumOf(W, A \ {v}) + IF ver[v].st = "ACTIVE" THEN ver[v].w ELSE 0
  <2>1. CASE v \in A
    BY <1>2, <1>4, <1>8, <2>1
  <2>2. CASE v \notin A
    <3>1. SumOf(W, A) = SumOf(W, A \ {v})
      BY <1>10, <2>2
    <3> QED
      BY <1>4, <1>7, <2>2, <3>1
  <2> QED
    BY <2>1, <2>2
<1> QED
  BY <1>7, <1>11, <1>12 DEF Share, W, X, A, B

LEMMA BudgetStep == ASSUME Alone PROVE BudgetInv /\ [Next]_vars => BudgetInv'
<1> SUFFICES ASSUME BudgetInv, [Next]_vars PROVE Fresh' /\ Share(Actives)' <= Whole
  BY TypeStep DEF BudgetInv
<1>0. TypeInv /\ TypeInv' /\ TypeOK /\ TypeOK' /\ Checked /\ Fresh /\ Share(Actives) <= Whole
  BY TypeStep DEF BudgetInv, TypeInv
<1>a. \A c, d \in Writer : c = d
  BY DEF Alone
\* A step that leaves the table alone, and is not a read.
<1>b. ASSUME NEW c \in Writer, UNCHANGED ver, at'[c] = "row"
      PROVE  Fresh' /\ Share(Actives)' <= Whole
  BY <1>0, <1>a, <1>b DEF Fresh, Share, Actives
<1>1. ASSUME NEW c \in Writer, NEW v \in Ver, Create(c, v) PROVE Fresh' /\ Share(Actives)' <= Whole
  <2>1. /\ plan[c] = << >> /\ ver[v].st = "NONE" /\ ver'[v].st = "DRAFT" /\ UNCHANGED at
        /\ \A u \in Ver : u # v => ver'[u] = ver[u]
    BY <1>0, <1>1 DEF Create, NoRow, TypeOK, Row
  <2>2. at'[c] = "row"
    BY <1>0, <2>1 DEF Checked
  <2>3. Fresh'
    BY <1>a, <2>2 DEF Fresh
  <2>4. Share(Actives)' = Share(Actives)
    <3>1. /\ Share(Actives \ {v}) \in Nat
          /\ Share(Actives)' = Share(Actives \ {v})
                              + IF ver'[v].st = "ACTIVE" THEN ver'[v].w ELSE 0
          /\ Share(Actives) = Share(Actives \ {v})
                             + IF ver[v].st = "ACTIVE" THEN ver[v].w ELSE 0
      BY <1>0, <2>1, ShareAfter
    <3> QED
      BY <2>1, <3>1
  <2> QED
    BY <1>0, <2>3, <2>4
<1>2. ASSUME NEW c \in Writer, NEW ops, Begin(c, ops) PROVE Fresh' /\ Share(Actives)' <= Whole
  BY <1>0, <1>b, <1>2 DEF Begin, Checked
<1>3. ASSUME NEW c \in Writer, Fail(c) PROVE Fresh' /\ Share(Actives)' <= Whole
  BY <1>0, <1>b, <1>3 DEF Fail, TypeOK
<1>4. ASSUME NEW c \in Writer, Kill(c) PROVE Fresh' /\ Share(Actives)' <= Whole
  BY <1>0, <1>b, <1>4 DEF Kill, TypeOK
<1>5. ASSUME NEW c \in Writer, ReadRow(c), ~ Fail(c) PROVE Fresh' /\ Share(Actives)' <= Whole
  <2> DEFINE op == Head(plan[c])
  <2>1. /\ read' = [read EXCEPT ![c] = ver[op.v]]
        /\ at' = [at EXCEPT ![c] = IF op.kind \in {"archive", "discard"} THEN "write" ELSE "actives"]
        /\ UNCHANGED <<ver, plan>>
    BY <1>5 DEF ReadRow
  <2>2. Share(Actives)' = Share(Actives)
    BY <2>1 DEF Share, Actives
  <2>3. read'[c] = ver'[Head(plan'[c]).v] /\ ~ (at'[c] = "write" /\
             Head(plan'[c]).kind \in {"promote", "set", "rollback"})
    BY <1>0, <2>1 DEF TypeOK
  <2>4. Fresh'
    BY <1>a, <2>3 DEF Fresh
  <2> QED
    BY <1>0, <2>2, <2>4
<1>6. ASSUME NEW c \in Writer, ReadActives(c), ~ Fail(c) PROVE Fresh' /\ Share(Actives)' <= Whole
  <2> DEFINE op == Head(plan[c])
             sum == AtStake(op, read[c])
  <2>1. at[c] = "actives" /\ WeightFits(sum.S, sum.w) /\ UNCHANGED <<ver, plan, read>>
    BY <1>6 DEF ReadActives
  <2>2. sum.S \in SUBSET Ver
    BY DEF AtStake, Actives
  <2>3. Share(sum.S) + sum.w <= Whole
    BY <1>0, <2>1, <2>2, InvestedIs DEF WeightFits
  <2>4. read[c] = ver[op.v]
    BY <1>0, <2>1 DEF Fresh
  <2>5. Fresh'
    BY <1>a, <2>1, <2>3, <2>4 DEF Fresh, AtStake, Share, Actives
  <2> QED
    BY <1>0, <2>1, <2>5 DEF Share, Actives
<1>7. ASSUME NEW c \in Writer, Write(c) PROVE Fresh' /\ Share(Actives)' <= Whole
  <2> DEFINE op == Head(plan[c])
             row == read[c]
             v == op.v
             sum == AtStake(op, row)
  <2>1. /\ op \in Op /\ row \in Row /\ RowAllows(op, row) /\ at[c] = "write"
        /\ ver' = [ver EXCEPT ![v] = Updated(op, row)] /\ at' = [at EXCEPT ![c] = "row"]
    BY <1>0, <1>7, WriteType DEF Write
  <2>2. v \in Ver /\ op.kind \in Kind /\ op.w \in Nat /\ row = ver[v]
    BY <1>0, <2>1 DEF Op, Fresh
  <2>3. op.kind \in {"promote", "set", "rollback"} => Share(sum.S) + sum.w <= Whole
    BY <1>0, <2>1 DEF Fresh
  <2>4. \A u \in Ver : u # v => ver'[u] = ver[u]
    BY <1>0, <2>1, <2>2 DEF TypeOK
  <2>5. ver'[v] = Updated(op, row)
    BY <1>0, <2>1, <2>2 DEF TypeOK
  <2>6. Fresh'
    BY <1>0, <1>a, <2>1 DEF Fresh, TypeOK
  <2> DEFINE Others == Share(Actives \ {v})
  <2>7. /\ Others \in Nat
        /\ Share(Actives)' = Others + IF ver'[v].st = "ACTIVE" THEN ver'[v].w ELSE 0
        /\ Share(Actives) = Others + IF ver[v].st = "ACTIVE" THEN ver[v].w ELSE 0
    BY <1>0, <2>2, <2>4, ShareAfter
  <2>8. ver[v].w \in Nat
    BY <1>0, <2>2 DEF TypeOK, Row
  <2>9. CASE op.kind \in {"archive", "discard"}
    <3>1. ver'[v].st = "ARCHIVED"
      BY <1>0, <2>2, <2>5, <2>9 DEF Updated, TypeOK, Row
    <3> QED
      BY <1>0, <2>6, <2>7, <2>8, <3>1, ExperimentsAssumption
  <2>10. CASE op.kind \in {"promote", "set", "rollback"}
    <3>1. Share(sum.S) = Others
      <4>1. CASE op.kind = "set"
        BY <4>1 DEF AtStake
      <4>2. CASE op.kind \in {"promote", "rollback"}
        <5>1. v \notin Actives
          BY <2>1, <2>2, <4>2 DEF RowAllows, LegalTransitions, Actives
        <5>2. Actives \ {v} = Actives
          BY <5>1
        <5> QED
          BY <4>2, <5>2 DEF AtStake
      <4> QED
        BY <2>10, <4>1, <4>2
    <3>2. ver'[v].w = sum.w
      <4>1. CASE op.kind = "promote"
        BY <2>5, <4>1 DEF Updated, AtStake
      <4>2. CASE op.kind = "set"
        BY <1>0, <2>2, <2>5, <4>2 DEF Updated, AtStake, TypeOK, Row
      <4>3. CASE op.kind = "rollback"
        BY <1>0, <2>2, <2>5, <4>3 DEF Updated, AtStake, TypeOK, Row
      <4> QED
        BY <2>10, <4>1, <4>2, <4>3
    <3>3. sum.w \in Nat
      BY <2>2, <2>8 DEF AtStake
    <3> HIDE DEF Others, sum
    <3> QED
      BY <2>3, <2>6, <2>7, <2>10, <3>1, <3>2, <3>3, ExperimentsAssumption
  <2> QED
    BY <2>2, <2>9, <2>10 DEF Kind
<1>8. CASE UNCHANGED vars
  BY <1>0, <1>8 DEF vars, Fresh, Share, Actives, AtStake
<1>9. ASSUME NEW c \in Writer, ReadRow(c) \/ ReadActives(c) PROVE Fresh' /\ Share(Actives)' <= Whole
  BY <1>3, <1>5, <1>6, <1>9
<1>10. ASSUME NEW c \in Writer, NEW v \in Ver, NEW b \in Ver, Confirm(c, v, b)
       PROVE  Fresh' /\ Share(Actives)' <= Whole
  BY <1>2, <1>10 DEF Confirm, Replace
<1>11. ASSUME NEW c \in Writer, NEW v \in Ver, NEW b \in Ver, NEW w \in Weights, Gray(c, v, b, w)
       PROVE  Fresh' /\ Share(Actives)' <= Whole
  BY <1>2, <1>11 DEF Gray
<1>12. ASSUME NEW c \in Writer, Command(c) PROVE Fresh' /\ Share(Actives)' <= Whole
  BY <1>2, <1>12 DEF Command
<1> QED
  BY <1>1, <1>4, <1>7, <1>8, <1>9, <1>10, <1>11, <1>12 DEF Next

\* The ACTIVE versions never share out more than the capital, as long as no writer
\* comes between the reads of another and its UPDATE, whoever is killed when.
THEOREM BudgetKept == ASSUME Alone PROVE Spec => []BudgetConserved
<1>1. BudgetInv => BudgetConserved
  BY InvestedIs DEF BudgetInv, TypeInv, BudgetConserved, Actives
<1>2. BudgetInv /\ [Next]_vars => BudgetInv'
  BY BudgetStep
<1> QED
  BY <1>1, <1>2, BudgetInit, PTL DEF Spec

-----------------------------------------------------------------------------
(***************************************************************************)
(* The last ACTIVE version.                                                *)
(***************************************************************************)
\* A run of autopromote archives the champion only before it gives all to a version
\* that is ACTIVE, and lowers a weight only before it promotes.
Shaped ==
    \A c \in Writer : plan[c] # << >> =>
        \/ Len(plan[c]) = 1 /\ ~ Head(plan[c]).soft
        \/ /\ Len(plan[c]) = 2 /\ ~ plan[c][2].soft
           /\ \/ /\ Head(plan[c]).kind = "archive" /\ plan[c][2].v # Head(plan[c]).v
                 /\ ver[plan[c][2].v].st = "ACTIVE" /\ plan[c][2].v \in Ver
              \/ Head(plan[c]).kind = "set" /\ ~ Head(plan[c]).soft

LastInv == TypeInv /\ Shaped

\* Only a write changes the status of what is there, and a set keeps it.
LEMMA SetKeeps ==
  ASSUME TypeInv, NEW c \in Writer, Write(c), Head(plan[c]).kind = "set"
  PROVE  \A v \in Ver : ver'[v].st = ver[v].st
<1> DEFINE op == Head(plan[c])
<1>1. op \in Op /\ ver' = [ver EXCEPT ![op.v] = Updated(op, read[c])]
  BY WriteType DEF Write
<1>2. op.v \in Ver /\ ver \in [Ver -> Row]
  BY <1>1 DEF Op, TypeInv, TypeOK
<1>3. Updated(op, read[c]).st = ver[op.v].st
  BY <1>2 DEF Updated, Row
<1> QED
  BY <1>1, <1>2, <1>3

LEMMA WriteElsewhere ==
  ASSUME TypeInv, NEW c \in Writer, Write(c), NEW v \in Ver, v # Head(plan[c]).v
  PROVE  ver'[v] = ver[v]
BY DEF Write, TypeInv, TypeOK

LEMMA ShapedBegins ==
  ASSUME Alone, TypeInv, NEW c \in Writer, NEW ops, Begin(c, ops),
         \/ Len(ops) = 1 /\ ~ Head(ops).soft
         \/ /\ Len(ops) = 2 /\ ~ ops[2].soft
            /\ \/ /\ Head(ops).kind = "archive" /\ ops[2].v # Head(ops).v
                  /\ ver[ops[2].v].st = "ACTIVE" /\ ops[2].v \in Ver
               \/ Head(ops).kind = "set" /\ ~ Head(ops).soft
  PROVE  Shaped'
<1>1. plan'[c] = ops /\ UNCHANGED ver
  BY DEF Begin, TypeInv, TypeOK
<1> QED
  BY <1>1 DEF Alone, Shaped

LEMMA ShapedStep == ASSUME Alone PROVE LastInv /\ [Next]_vars => LastInv'
<1> SUFFICES ASSUME LastInv, [Next]_vars PROVE Shaped'
  BY TypeStep DEF LastInv
<1>0. TypeInv /\ TypeOK /\ Shaped
  BY DEF LastInv, TypeInv
<1>a. \A c, d \in Writer : c = d
  BY DEF Alone
\* What is left of a run after its first operation.
<1>b. ASSUME NEW c \in Writer, plan[c] # << >>, plan'[c] = Tail(plan[c]) \/ plan'[c] = << >>
      PROVE  Shaped'
  <2>1. plan[c] \in Seq(Op)
    BY <1>0 DEF TypeOK
  <2>2. CASE plan'[c] # << >>
    <3>1. plan'[c] = Tail(plan[c])
      BY <1>b, <2>2
    <3>2. Len(plan[c]) = 2 /\ ~ plan[c][2].soft
      <4>1. Len(plan[c]) # 1
        <5> SUFFICES ASSUME Len(plan[c]) = 1 PROVE FALSE
          OBVIOUS
        <5>1. PICK s \in Seq(Op) : s = plan[c]
          BY <2>1
        <5>2. Len(s) = 1
          BY <5>1
        <5>3. Tail(s) = << >>
          <6>1. Tail(s) \in Seq(Op) /\ Len(Tail(s)) = 0
            BY <5>2
          <6> QED
            BY <6>1, EmptySeq
        <5> QED
          BY <2>2, <3>1, <5>1, <5>3
      <4> QED
        BY <1>0, <1>b, <4>1 DEF Shaped
    <3>3. Len(plan'[c]) = 1 /\ Head(plan'[c]) = plan[c][2]
      BY <2>1, <3>1, <3>2
    <3> QED
      BY <1>a, <3>2, <3>3 DEF Shaped
  <2>3. CASE plan'[c] = << >>
    BY <1>a, <2>3 DEF Shaped
  <2> QED
    BY <2>2, <2>3
<1>1. ASSUME NEW c \in Writer, NEW v \in Ver, Create(c, v) PROVE Shaped'
  BY <1>1, <1>a DEF Create, Shaped
<1>2. ASSUME NEW c \in Writer, NEW v \in Ver, NEW b \in Ver, Confirm(c, v, b) PROVE Shaped'
  <2> DEFINE first == Retire(b)
             second == Operation("set", v, Whole)
             ops == (IF b = v THEN << >> ELSE <<first>>) \o <<second>>
  <2>1. ver[v].st = "ACTIVE" /\ Begin(c, ops)
    BY <1>2 DEF Confirm, Replace
  <2>2. second.soft = FALSE /\ second.v = v
    BY DEF Operation
  <2>3. first.kind = "archive" /\ first.v = b
    BY DEF Operation, Retire
  <2> HIDE DEF first, second
  <2>4. CASE b = v
    <3>1. Len(ops) = 1 /\ Head(ops) = second
      BY <2>4
    <3> HIDE DEF ops
    <3> QED
      BY <1>0, <2>1, <2>2, <3>1, ShapedBegins
  <2>5. CASE b # v
    <3>1. Len(ops) = 2 /\ Head(ops) = first /\ ops[2] = second
      BY <2>5
    <3> HIDE DEF ops
    <3> QED
      BY <1>0, <2>1, <2>2, <2>3, <2>5, <3>1, ShapedBegins
  <2> QED
    BY <2>4, <2>5
<1>3. ASSUME NEW c \in Writer, NEW v \in Ver, NEW b \in Ver, NEW w \in Weights, Gray(c, v, b, w)
      PROVE  Shaped'
  <2> DEFINE first == Operation("set", b, Whole - w)
             second == Operation("promote", v, w)
             ops == (IF b = v THEN << >> ELSE <<first>>) \o <<second>>
  <2>1. Begin(c, ops)
    BY <1>3 DEF Gray
  <2>2. second.soft = FALSE /\ first.kind = "set" /\ first.soft = FALSE
    BY DEF Operation
  <2> HIDE DEF first, second
  <2>3. CASE b = v
    <3>1. Len(ops) = 1 /\ Head(ops) = second
      BY <2>3
    <3> HIDE DEF ops
    <3> QED
      BY <1>0, <2>1, <2>2, <3>1, ShapedBegins
  <2>4. CASE b # v
    <3>1. Len(ops) = 2 /\ Head(ops) = first /\ ops[2] = second
      BY <2>4
    <3> HIDE DEF ops
    <3> QED
      BY <1>0, <2>1, <2>2, <3>1, ShapedBegins
  <2> QED
    BY <2>3, <2>4
<1>4. ASSUME NEW c \in Writer, Command(c) PROVE Shaped'
  <2>1. PICK k \in Kind, v \in Ver, w \in Weights : Begin(c, <<Operation(k, v, w)>>)
    BY <1>4 DEF Command
  <2> DEFINE op == Operation(k, v, w)
  <2>2. op.soft = FALSE
    BY DEF Operation
  <2> HIDE DEF op
  <2>3. Len(<<op>>) = 1 /\ Head(<<op>>) = op
    OBVIOUS
  <2>4. Begin(c, <<op>>)
    BY <2>1 DEF op
  <2> QED
    BY <1>0, <2>2, <2>3, <2>4, ShapedBegins
<1>5. ASSUME NEW c \in Writer, plan[c] # << >>, Fail(c) PROVE Shaped'
  BY <1>0, <1>b, <1>5 DEF Fail, TypeOK
<1>6. ASSUME NEW c \in Writer, UNCHANGED <<ver, plan>> PROVE Shaped'
  BY <1>0, <1>6 DEF Shaped
<1>7. ASSUME NEW c \in Writer, ReadRow(c) PROVE Shaped'
  BY <1>5, <1>6, <1>7 DEF ReadRow
<1>8. ASSUME NEW c \in Writer, ReadActives(c) PROVE Shaped'
  BY <1>0, <1>5, <1>6, <1>8 DEF ReadActives, TypeInv, Checked
<1>9. ASSUME NEW c \in Writer, Write(c) PROVE Shaped'
  BY <1>0, <1>b, <1>9 DEF Write, TypeInv, TypeOK, Checked
<1>10. ASSUME NEW c \in Writer, Kill(c) PROVE Shaped'
  BY <1>0, <1>b, <1>10 DEF Kill, TypeOK
<1>11. CASE UNCHANGED vars
  BY <1>0, <1>11 DEF vars, Shaped
<1> QED
  BY <1>1, <1>2, <1>3, <1>4, <1>7, <1>8, <1>9, <1>10, <1>11 DEF Next

\* No run of autopromote takes down the last ACTIVE version, killed or not: it was
\* ACTIVE when the run began, and the run archives another.
THEOREM LastStays == ASSUME Alone PROVE Spec => LastActiveStays
<1>1. LastInv /\ [Next]_vars =>
        [\A c \in Writer : plan[c] # << >> /\ (Head(plan[c]).soft \/ Len(plan[c]) > 1)
            => (Actives # {} => Actives' # {})]_vars
  <2> SUFFICES ASSUME LastInv, Next, NEW c \in Writer, plan[c] # << >>,
                      Head(plan[c]).soft \/ Len(plan[c]) > 1, Actives # {}
               PROVE  Actives' # {}
    OBVIOUS
  <2>0. TypeInv /\ TypeOK /\ Shaped
    BY DEF LastInv, TypeInv
  <2>1. CASE \A v \in Ver : ver[v].st = "ACTIVE" => ver'[v].st = "ACTIVE"
    BY <2>1 DEF Actives
  <2>2. ASSUME NEW d \in Writer, NEW v \in Ver, Create(d, v) PROVE Actives' # {}
    BY <2>2 DEF Create, Alone
  <2>3. ASSUME NEW d \in Writer, Write(d) PROVE Actives' # {}
    <3>1. d = c
      BY DEF Alone
    <3>2. CASE Head(plan[c]).kind = "set"
      BY <2>0, <2>1, <2>3, <3>1, <3>2, SetKeeps
    <3>3. CASE Head(plan[c]).kind # "set"
      <4>1. /\ plan[c][2].v # Head(plan[c]).v /\ ver[plan[c][2].v].st = "ACTIVE"
            /\ plan[c][2].v \in Ver
        BY <2>0, <3>3 DEF Shaped
      <4>2. ver'[plan[c][2].v] = ver[plan[c][2].v]
        BY <2>0, <2>3, <3>1, <4>1, WriteElsewhere
      <4> QED
        BY <4>1, <4>2 DEF Actives
    <3> QED
      BY <3>2, <3>3
  <2>4. CASE UNCHANGED ver
    BY <2>1, <2>4
  <2> QED
    BY <2>2, <2>3, <2>4 DEF Next, Confirm, Gray, Replace, Command, Begin, ReadRow, ReadActives,
       Fail, Kill
<1>2. Init => LastInv
  BY TypeInit DEF Init, LastInv, Shaped
<1>3. LastInv /\ [Next]_vars => LastInv'
  BY ShapedStep
<1> QED
  BY <1>1, <1>2, <1>3, PTL DEF Spec, LastActiveStays
=============================================================================
