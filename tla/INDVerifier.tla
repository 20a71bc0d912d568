----------------------------- MODULE INDVerifier -----------------------------
(***************************************************************************)
(* The IND verifier (src/src/core/algorithms/ind/ind_verifier/             *)
(* ind_verifier.{h,cpp}): a hash join of the LHS projection of the first   *)
(* input table against the RHS projection of the last one.                 *)
(*                                                                         *)
(* Rows are already projected: a row of a table is the record of its       *)
(* projection on ind.lhs and on ind.rhs, each one value of Vals (the       *)
(* projection itself, DatasetStreamProjection, is not in the repository).  *)
(* The two inputs are two table objects, or one object given twice; each   *)
(* object has one stream position, shared by every reader of it.  The      *)
(* verifier may be executed again: Algorithm::Execute calls ResetState     *)
(* and then VerifyIND.                                                     *)
(***************************************************************************)
EXTENDS Integers, FiniteSets, Sequences, SequencesExt, Functions

CONSTANTS
    Vals,     \* the projected tuples, as model values or integers
    MaxRows,  \* longest input table
    MaxRuns   \* executions of the same verifier object

ASSUME MaxRows \in Nat /\ MaxRuns \in Nat \ {0}

\* A row of a table, projected on ind.lhs and on ind.rhs.
Row == [lhs : Vals, rhs : Vals]
Table == UNION {[1 .. n -> Row] : n \in 0 .. MaxRows}

\* input_tables_.front() is object 1; back() is object 2, or object 1 again
\* when the same table was given twice.
Obj == {1, 2}

VARIABLES
    tables,        \* the rows of each table object
    same,          \* input_tables_.front() == input_tables_.back()
    spos,          \* spos[o]: the next row the stream of object o yields
    rhsRows,       \* rhs_rows
    lhsRows,       \* lhs_rows
    rowToId,       \* lhs_violating_row_to_id_map
    cmap,          \* lhs_id_to_cluster_map
    nextId,        \* next_value_id
    curRow,        \* current_row_id
    violatingRows, \* violating_rows_
    clusters,      \* clusters_
    error,         \* error_ as <<numerator, denominator>>
    runs,          \* executions started
    first,         \* history: the outputs of the first execution
    pc

vars == <<tables, same, spos, rhsRows, lhsRows, rowToId, cmap, nextId, curRow,
          violatingRows, clusters, error, runs, first, pc>>

LhsObj == 1
RhsObj == IF same THEN 1 ELSE 2

\* The row the stream of object o yields next, projected by field f.
NextOf(o, f) == tables[o][spos[o]][f]
Exhausted(o) == spos[o] > Len(tables[o])

\* INDVerifier::Holds: error_ == 0.0, false for the NaN of 0 / 0.
Holds == error[2] # 0 /\ error[1] = 0

\* What the getters return after an execution.
Outputs == [clusters |-> clusters, error |-> error, rows |-> violatingRows]

-----------------------------------------------------------------------------
(* VerifyIND                                                               *)

\* Collect the RHS projections into rhs_rows.
ReadRhs ==
    /\ pc = "rhs"
    /\ ~Exhausted(RhsObj)
    /\ rhsRows' = rhsRows \cup {NextOf(RhsObj, "rhs")}
    /\ spos' = [spos EXCEPT ![RhsObj] = @ + 1]
    /\ UNCHANGED <<tables, same, lhsRows, rowToId, cmap, nextId, curRow,
                   violatingRows, clusters, error, runs, first, pc>>

\* Mutant: no reset of a table read twice.
StartLhsNoReset ==
    /\ pc = "rhs"
    /\ Exhausted(RhsObj)
    /\ pc' = "lhs"
    /\ UNCHANGED <<tables, same, spos, rhsRows, lhsRows, rowToId, cmap, nextId,
                   curRow, violatingRows, clusters, error, runs, first>>

\* The RHS stream is drained; reset the table if the LHS reads it too.
StartLhs ==
    /\ pc = "rhs"
    /\ Exhausted(RhsObj)
    /\ spos' = IF same THEN [spos EXCEPT ![LhsObj] = 1] ELSE spos
    /\ pc' = "lhs"
    /\ UNCHANGED <<tables, same, rhsRows, lhsRows, rowToId, cmap, nextId, curRow,
                   violatingRows, clusters, error, runs, first>>

\* Mutant: the `continue` taken before the row is counted.
LhsRowInRhsNoCount ==
    /\ pc = "lhs"
    /\ ~Exhausted(LhsObj)
    /\ NextOf(LhsObj, "lhs") \in rhsRows
    /\ lhsRows' = lhsRows \cup {NextOf(LhsObj, "lhs")}
    /\ spos' = [spos EXCEPT ![LhsObj] = @ + 1]
    /\ UNCHANGED <<tables, same, rhsRows, rowToId, cmap, nextId, curRow,
                   violatingRows, clusters, error, runs, first, pc>>

\* An LHS row whose projection is in rhs_rows: count it and go on.
LhsRowInRhs ==
    /\ pc = "lhs"
    /\ ~Exhausted(LhsObj)
    /\ NextOf(LhsObj, "lhs") \in rhsRows
    /\ lhsRows' = lhsRows \cup {NextOf(LhsObj, "lhs")}
    /\ spos' = [spos EXCEPT ![LhsObj] = @ + 1]
    /\ curRow' = curRow + 1
    /\ UNCHANGED <<tables, same, rhsRows, rowToId, cmap, nextId, violatingRows,
                   clusters, error, runs, first, pc>>

\* Mutant: a fresh cluster id for every violating row (the `inserted`
\* test dropped).
LhsRowViolatesAlwaysNew ==
    /\ pc = "lhs"
    /\ ~Exhausted(LhsObj)
    /\ LET row == NextOf(LhsObj, "lhs")
       IN  /\ row \notin rhsRows
           /\ lhsRows' = lhsRows \cup {row}
           /\ rowToId' = IF row \in DOMAIN rowToId THEN rowToId
                         ELSE rowToId @@ (row :> nextId)
           /\ nextId' = nextId + 1
           /\ cmap' = LET id == rowToId'[row]
                      IN  IF id \in DOMAIN cmap
                          THEN [cmap EXCEPT ![id] = Append(@, curRow)]
                          ELSE cmap @@ (id :> <<curRow>>)
    /\ spos' = [spos EXCEPT ![LhsObj] = @ + 1]
    /\ violatingRows' = violatingRows + 1
    /\ curRow' = curRow + 1
    /\ UNCHANGED <<tables, same, rhsRows, clusters, error, runs, first, pc>>

\* An LHS row missing from rhs_rows: try_emplace its cluster id (a new one
\* the first time the projection is seen), append the row to that cluster.
LhsRowViolates ==
    /\ pc = "lhs"
    /\ ~Exhausted(LhsObj)
    /\ LET row == NextOf(LhsObj, "lhs")
           inserted == row \notin DOMAIN rowToId
       IN  /\ row \notin rhsRows
           /\ lhsRows' = lhsRows \cup {row}
           /\ rowToId' = IF inserted THEN rowToId @@ (row :> nextId) ELSE rowToId
           /\ nextId' = IF inserted THEN nextId + 1 ELSE nextId
           /\ cmap' = LET id == rowToId'[row]
                      IN  IF id \in DOMAIN cmap
                          THEN [cmap EXCEPT ![id] = Append(@, curRow)]
                          ELSE cmap @@ (id :> <<curRow>>)
    /\ spos' = [spos EXCEPT ![LhsObj] = @ + 1]
    /\ violatingRows' = violatingRows + 1
    /\ curRow' = curRow + 1
    /\ UNCHANGED <<tables, same, rhsRows, clusters, error, runs, first, pc>>

\* The LHS stream is drained: move the clusters out in the unordered_map's
\* iteration order (any order) and compute the error.
Finish ==
    /\ pc = "lhs"
    /\ Exhausted(LhsObj)
    /\ \E order \in Bijection(1 .. Cardinality(DOMAIN cmap), DOMAIN cmap) :
          clusters' = clusters \o [i \in DOMAIN order |-> cmap[order[i]]]
    /\ error' = <<nextId, Cardinality(lhsRows)>>
    /\ pc' = "done"
    /\ UNCHANGED <<tables, same, spos, rhsRows, lhsRows, rowToId, cmap, nextId,
                   curRow, violatingRows, runs>>
    /\ first' = IF runs = 1 THEN Outputs' ELSE first

\* Mutant: ResetState leaving violating_rows_ as it was.
ExecuteAgainKeepCount ==
    /\ pc = "done"
    /\ runs < MaxRuns
    /\ spos' = [o \in Obj |-> 1]
    /\ clusters' = <<>>
    /\ error' = <<0, 1>>
    /\ rhsRows' = {} /\ lhsRows' = {}
    /\ rowToId' = <<>> /\ cmap' = <<>>
    /\ nextId' = 0 /\ curRow' = 0
    /\ runs' = runs + 1
    /\ pc' = "rhs"
    /\ UNCHANGED <<tables, same, violatingRows, first>>

\* Execute again: ResetState (reset every table, clear clusters_, zero the
\* counters and error_), then VerifyIND starts with empty locals.
ExecuteAgain ==
    /\ pc = "done"
    /\ runs < MaxRuns
    /\ spos' = [o \in Obj |-> 1]
    /\ clusters' = <<>>
    /\ error' = <<0, 1>>
    /\ violatingRows' = 0
    /\ rhsRows' = {} /\ lhsRows' = {}
    /\ rowToId' = <<>> /\ cmap' = <<>>
    /\ nextId' = 0 /\ curRow' = 0
    /\ runs' = runs + 1
    /\ pc' = "rhs"
    /\ UNCHANGED <<tables, same, first>>

\* A fresh verifier over any tables of at most MaxRows rows.
Init ==
    /\ tables \in [Obj -> Table]
    /\ same \in BOOLEAN
    /\ spos = [o \in Obj |-> 1]
    /\ rhsRows = {} /\ lhsRows = {}
    /\ rowToId = <<>> /\ cmap = <<>>
    /\ nextId = 0 /\ curRow = 0
    /\ violatingRows = 0
    /\ clusters = <<>>
    /\ error = <<0, 1>>
    /\ runs = 1
    /\ first = Outputs
    /\ pc = "rhs"

Next ==
    \/ ReadRhs \/ StartLhs \/ LhsRowInRhs \/ LhsRowViolates \/ Finish
    \/ ExecuteAgain

Spec == Init /\ [][Next]_vars /\ WF_vars(Next)

-----------------------------------------------------------------------------
(* Properties                                                              *)

\* The reference: the LHS column as read, and the RHS values.
LhsSeq == [i \in DOMAIN tables[LhsObj] |-> tables[LhsObj][i].lhs]
LhsVals == Range(LhsSeq)
RhsVals == {tables[RhsObj][i].rhs : i \in DOMAIN tables[RhsObj]}
Violating == LhsVals \ RhsVals
\* The 0-based numbers of the LHS rows projecting to v, ascending.
RowsOf(v) == SelectSeq([i \in 1 .. Len(LhsSeq) |-> i - 1], LAMBDA i : LhsSeq[i + 1] = v)

TypeOK ==
    /\ tables \in [Obj -> Table] /\ same \in BOOLEAN
    /\ spos \in [Obj -> 1 .. (MaxRows + 1)]
    /\ rhsRows \subseteq Vals /\ lhsRows \subseteq Vals
    /\ rowToId \in [DOMAIN rowToId -> 0 .. (nextId - 1)]
    /\ DOMAIN cmap = 0 .. (nextId - 1)
    /\ \A id \in DOMAIN cmap : cmap[id] \in Seq(0 .. (MaxRows - 1))
    /\ curRow \in 0 .. MaxRows /\ violatingRows \in 0 .. MaxRows
    /\ clusters \in Seq(Seq(0 .. (MaxRows - 1)))
    /\ runs \in 1 .. MaxRuns
    /\ pc \in {"rhs", "lhs", "done"}

\* For a non-empty LHS, VerifyIND's error is the share of distinct LHS
\* tuples missing from the RHS, and Holds() is true exactly when the LHS is
\* included in the RHS, whether the inputs are two tables or one read twice.
VerifierCorrect ==
    pc = "done" /\ LhsVals # {} =>
        /\ error = <<Cardinality(Violating), Cardinality(LhsVals)>>
        /\ Holds <=> LhsVals \subseteq RhsVals

\* The clusters are exactly the violating tuples' row sets, one cluster per
\* tuple with its rows in ascending order, and violating_rows_ is the sum
\* of their sizes (spec 8.8 and the end-to-end scenario).
ClustersDecompose ==
    pc = "done" =>
        /\ Len(clusters) = Cardinality(Violating)
        /\ Range(clusters) = {RowsOf(v) : v \in Violating}
        /\ violatingRows = FoldSeq(LAMBDA c, acc : Len(c) + acc, 0, clusters)

\* Executing the verifier again on the same tables gives the same outputs:
\* ResetState clears everything the previous execution left behind.
RerunStable ==
    pc = "done" /\ runs > 1 =>
        /\ Range(clusters) = Range(first.clusters)
        /\ error = first.error
        /\ violatingRows = first.rows

\* Spec 8.7: the error always lies in [0, 1], and Holds() is error = 0.
ErrorInRange == pc = "done" => error[2] # 0 /\ error[1] <= error[2]

=============================================================================
