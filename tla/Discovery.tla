------------------------------ MODULE Discovery ------------------------------
(***************************************************************************)
(* UIND discovery end to end: Spider::LoadDataInternal builds the column   *)
(* domains with ColumnDomain::CreateFrom (the DomainManager), and          *)
(* ExecuteInternal then runs InitAttributes, ProcessAttributes and         *)
(* RegisterDeps over them (src/src/core/algorithms/ind/spider/spider.cpp). *)
(*                                                                         *)
(* The two components run one after the other, never interleaved: the     *)
(* domain builder's variables are those of DomainManager, the sweep's      *)
(* those of Spider with its pc renamed spc.  Attribute a of the sweep is   *)
(* the (a+1)-th finalized domain; each of its partitions is handed to the  *)
(* iterator as the values its reader yields, from memory or swap file.     *)
(* Execute may then be called again on the loaded domains.                 *)
(***************************************************************************)
EXTENDS Integers, FiniteSets, Sequences

CONSTANTS TableCount, ColCount, Values, MaxRows, MemLimit, BlockCapacity,
          MaxBytesPerChar, ValueCost, WordBits,
          MaxExecs   \* bound on the Execute calls after one LoadData

VARIABLES t, rows, pending, block, blockSize, raw, domains, memUsage,
          processed, count, left, cand, seen, pc
VARIABLES dom, it, pos, refs, deps, pq, ids, todo, result, spc
VARIABLE execs   \* Execute calls so far

dmVars == <<t, rows, pending, block, blockSize, raw, domains, memUsage,
            processed, count, left, cand, seen, pc>>
spVars == <<dom, it, pos, refs, deps, pq, ids, todo, result, spc>>
vars == <<dmVars, spVars, execs>>

DM == INSTANCE DomainManager

\* Spider's AttrCount and MaxParts only bound its own Init, unused here.
SP == INSTANCE Spider WITH AttrCount <- TableCount * ColCount,
                           MaxParts <- MaxRows + 1, pc <- spc

\* The ColumnDomainIterator of each domain opens a reader on every
\* partition; a MemoryBackedReader asserts cur_ != end_, i.e. that its
\* in-memory partition is not empty.
ReadersOpen ==
    \A k \in DOMAIN domains : \A i \in DOMAIN domains[k].parts :
        domains[k].parts[i].swapped \/ domains[k].parts[i].vals # {}

\* Spider::LoadDataInternal has returned (CreateFrom is done): number the
\* domains and construct an Attribute over each (InitAttributes).  When a
\* reader's assert fails the program stops there (in a release build it
\* reads *end()): no step follows, and nothing is claimed of the result.
LoadData ==
    /\ pc = "done"
    /\ spc = "load"
    /\ ReadersOpen
    /\ LET n == Len(domains)
           d == [a \in 0 .. (n - 1) |->
                    [i \in DOMAIN domains[a + 1].parts |->
                        DM!Content(domains[a + 1].parts[i])]]
       IN  /\ dom' = d
           /\ it' = [a \in DOMAIN d |-> SP!MergedStream(d[a])]
           /\ pos' = [a \in DOMAIN d |-> 1]
           /\ refs' = [a \in DOMAIN d |-> DOMAIN d \ {a}]
           /\ deps' = [a \in DOMAIN d |-> DOMAIN d \ {a}]
           /\ pq' = DOMAIN d
    /\ spc' = "pop"
    /\ execs' = 1
    /\ UNCHANGED <<dmVars, ids, todo, result>>

\* Mutant: the new attributes reuse the old iterators, already at the end.
ExecuteAgainKeepIterators ==
    /\ spc = "done" /\ execs < MaxExecs
    /\ refs' = [a \in DOMAIN dom |-> DOMAIN dom \ {a}]
    /\ deps' = [a \in DOMAIN dom |-> DOMAIN dom \ {a}]
    /\ pq' = DOMAIN dom
    /\ result' = {}
    /\ spc' = "pop"
    /\ execs' = execs + 1
    /\ UNCHANGED <<dmVars, dom, it, pos, ids, todo>>

\* Execute on the loaded data again: ResetINDAlgorithmState clears attrs_
\* (and the base class the registered INDs); ExecuteInternal then runs
\* InitAttributes over the same domains_, whose readers are opened anew.
ExecuteAgain ==
    /\ spc = "done" /\ execs < MaxExecs
    /\ pos' = [a \in DOMAIN dom |-> 1]
    /\ refs' = [a \in DOMAIN dom |-> DOMAIN dom \ {a}]
    /\ deps' = [a \in DOMAIN dom |-> DOMAIN dom \ {a}]
    /\ pq' = DOMAIN dom
    /\ result' = {}
    /\ spc' = "pop"
    /\ execs' = execs + 1
    /\ UNCHANGED <<dmVars, dom, it, ids, todo>>

Init ==
    /\ DM!Init
    /\ dom = <<>> /\ it = <<>> /\ pos = <<>> /\ refs = <<>> /\ deps = <<>>
    /\ pq = {} /\ ids = {} /\ todo = {} /\ result = {}
    /\ spc = "load"
    /\ execs = 0

Next ==
    \/ DM!Next /\ UNCHANGED <<spVars, execs>>
    \/ LoadData
    \/ SP!Next /\ UNCHANGED <<dmVars, execs>>
    \/ ExecuteAgain

\* Both phases are the one thread of Spider::Execute.
Spec == Init /\ [][Next]_vars /\ WF_vars(Next)

-----------------------------------------------------------------------------

\* attr_to_cc in RegisterDeps: the (table, column) of attribute a.
Col(a) == <<domains[a + 1].table, domains[a + 1].col>>

\* The UINDs of the input itself: between the columns with a non-empty
\* value, x in y when every non-empty value of x occurs in y.
InputUINDs ==
    LET cols == {x \in DM!Tables \X DM!Cols : seen[x[1]][x[2]] # {}}
    IN  {<<x, y>> \in cols \X cols :
            x # y /\ seen[x[1]][x[2]] \subseteq seen[y[1]][y[2]]}

\* Spec 8.2 and 8.3 from the input rows: once RegisterDeps has run, the
\* (dependent, referenced) column pairs it registered are exactly the UINDs
\* of the input tables, however the domains were split by swapping.
EndToEnd ==
    spc = "done" => {<<Col(p[1]), Col(p[2])>> : p \in result} = InputUINDs

=============================================================================
