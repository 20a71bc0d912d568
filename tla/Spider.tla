------------------------------- MODULE Spider -------------------------------
(***************************************************************************)
(* The Spider sort-merge sweep that mines unary inclusion dependencies     *)
(* (src/src/core/algorithms/ind/spider/spider.cpp, attribute.{h,cpp}).     *)
(*                                                                         *)
(* Every column domain is a list of partitions (sorted sets of values), as *)
(* built by the DomainManager; a ColumnDomainIterator walks the k-way      *)
(* merge of its partitions.  Each Attribute holds its iterator position    *)
(* and the candidate sets refs (attributes it may be included in) and deps *)
(* (attributes that may be included in it).  ProcessAttributes pops from a *)
(* priority queue every attribute whose current value is the smallest one, *)
(* intersects their refs with that group, advances the unfinished ones and *)
(* pushes them back; RegisterDeps then emits (a, r) for every r in refs[a].*)
(*                                                                         *)
(* The sweep is single threaded; the only nondeterminism inside a run is   *)
(* the iteration order of the unordered_set `ids` in which IntersectRefs   *)
(* is called.  The domains are chosen in Init from every list of at most   *)
(* MaxParts non-empty partitions over Values.                              *)
(***************************************************************************)
EXTENDS Integers, FiniteSets, Sequences, SequencesExt

CONSTANTS
    AttrCount,  \* number of column domains produced by the DomainManager
    Values,     \* the cell values, ordered as byte strings are (by <)
    MaxParts    \* most partitions a domain is split into by swapping

ASSUME AttrCount \in Nat \ {0}
ASSUME Values \subseteq Nat /\ Values # {}
ASSUME MaxParts \in Nat \ {0}

\* A partition is a sorted set of non-empty values; Init hands the
\* iterator only non-empty partitions (Discovery hands it what the
\* DomainManager built).
Partition == SUBSET Values \ {{}}
DomainShapes == UNION {[1 .. k -> Partition] : k \in 1 .. MaxParts}

VARIABLES
    dom,    \* dom[a]: the partitions of attribute a's ColumnDomain
    it,     \* it[a]: the values a's ColumnDomainIterator yields, in order
    pos,    \* pos[a]: position of a's ColumnDomainIterator in its stream
    refs,   \* refs[a]: Attribute::refs_
    deps,   \* deps[a]: Attribute::deps_
    pq,     \* the attributes currently in attr_pq
    ids,    \* the group popped in this round (the local `ids`)
    todo,   \* members of ids whose IntersectRefs has not run yet
    result, \* the INDs registered by RegisterDeps, as (dep, ref) pairs
    pc      \* where ProcessAttributes / ExecuteInternal is

vars == <<dom, it, pos, refs, deps, pq, ids, todo, result, pc>>

\* Attribute ids are the dense numbering 0..n-1 of the n domains.
Attr == DOMAIN dom

-----------------------------------------------------------------------------
(* ColumnDomainIterator: the k-way merge of a domain's partition readers.  *)
(* It does not de-duplicate: a value held by two partitions is yielded     *)
(* twice in a row.                                                         *)

\* How many partitions of parts hold v.
Mult(parts, v) == Cardinality({i \in DOMAIN parts : v \in parts[i]})

\* All values in ascending order.
ValueSeq == SetToSortSeq(Values, <)

\* The sequence of values the iterator yields over partitions `parts`.
MergedStream(parts) ==
    FlattenSeq([i \in 1 .. Len(ValueSeq) |->
                    [j \in 1 .. Mult(parts, ValueSeq[i]) |-> ValueSeq[i]]])

\* ColumnDomainIterator::GetValue and ::HasNext (another value follows).
GetValue(a) == it[a][pos[a]]
HasNext(a) == pos[a] < Len(it[a])

\* The logical domain of an attribute: the values of all its partitions.
DomSet(a) == UNION Range(dom[a])

-----------------------------------------------------------------------------
(* Attribute                                                               *)

\* Mutant: HasFinished forgetting the deps_ half of its second disjunct.
HasFinishedRefsOnly(a) == ~HasNext(a) \/ refs[a] = {}

\* Attribute::HasFinished: iterator exhausted, or no candidate left.
HasFinished(a) == ~HasNext(a) \/ (refs[a] = {} /\ deps[a] = {})

\* Mutant: Compare with its value comparison reversed.
PrecedesReversed(a, b) ==
    \/ GetValue(a) > GetValue(b)
    \/ GetValue(a) = GetValue(b) /\ a < b

\* Attribute::Compare(lhs, rhs) < 0: by current value, then by id.
Precedes(a, b) ==
    \/ GetValue(a) < GetValue(b)
    \/ GetValue(a) = GetValue(b) /\ a < b

\* The top of attr_pq, whose comparator is Compare(lhs, rhs) >= 0: the
\* attribute that precedes all others.
Top(S) == CHOOSE a \in S : \A b \in S \ {a} : Precedes(a, b)

\* The Attribute constructor run by InitAttributes for every domain.
InitAttributes ==
    /\ it = [a \in Attr |-> MergedStream(dom[a])]
    /\ pos = [a \in Attr |-> 1]
    /\ refs = [a \in Attr |-> Attr \ {a}]
    /\ deps = [a \in Attr |-> Attr \ {a}]
    /\ pq = Attr

\* Attribute::RemoveDependent(id) on every attribute r in rs.
RemoveDependent(dp, rs, id) == [r \in DOMAIN dp |-> IF r \in rs THEN dp[r] \ {id} ELSE dp[r]]

\* Mutant: IntersectRefs without the RemoveDependent call.
IntersectRefsKeepDeps(i) ==
    /\ pc = "intersect"
    /\ i \in todo
    /\ refs' = [refs EXCEPT ![i] = refs[i] \cap ids]
    /\ todo' = todo \ {i}
    /\ UNCHANGED <<dom, it, pos, deps, pq, ids, result, pc>>

\* Attribute::IntersectRefs(ids, attrs) called on attribute i: drop every
\* ref not in the group, and drop i from the deps of each dropped ref.
IntersectRefs(i) ==
    /\ pc = "intersect"
    /\ i \in todo
    /\ LET dropped == refs[i] \ ids
       IN  /\ refs' = [refs EXCEPT ![i] = refs[i] \cap ids]
           /\ deps' = RemoveDependent(deps, dropped, i)
    /\ todo' = todo \ {i}
    /\ UNCHANGED <<dom, it, pos, pq, ids, result, pc>>

-----------------------------------------------------------------------------
(* Spider::ProcessAttributes, one action per loop of its body.             *)

\* Mutant: a pop loop that stops after the top attribute.
PopGroupTopOnly ==
    /\ pc = "pop"
    /\ pq # {}
    /\ ids' = {Top(pq)}
    /\ todo' = {Top(pq)}
    /\ pq' = pq \ {Top(pq)}
    /\ pc' = "intersect"
    /\ UNCHANGED <<dom, it, pos, refs, deps, result>>

\* Pop the top and every following attribute with the same current value.
PopGroup ==
    /\ pc = "pop"
    /\ pq # {}
    /\ LET v == GetValue(Top(pq))
           group == {a \in pq : GetValue(a) = v}
       IN  /\ ids' = group
           /\ todo' = group
           /\ pq' = pq \ group
    /\ pc' = "intersect"
    /\ UNCHANGED <<dom, it, pos, refs, deps, result>>

\* Mutant: push back every member of the group, finished or not.
AdvanceAll ==
    /\ pc = "intersect"
    /\ todo = {}
    /\ pos' = [a \in Attr |-> IF a \in ids THEN pos[a] + 1 ELSE pos[a]]
    /\ pq' = pq \cup ids
    /\ ids' = {}
    /\ pc' = "pop"
    /\ UNCHANGED <<dom, it, refs, deps, todo, result>>

\* Mutant: push back the unfinished members without MoveToNext.
AdvanceNoMove ==
    /\ pc = "intersect"
    /\ todo = {}
    /\ pq' = pq \cup {a \in ids : ~HasFinished(a)}
    /\ ids' = {}
    /\ pc' = "pop"
    /\ UNCHANGED <<dom, it, pos, refs, deps, todo, result>>

\* After every IntersectRefs: advance each unfinished member and push it.
Advance ==
    /\ pc = "intersect"
    /\ todo = {}
    /\ LET moving == {a \in ids : ~HasFinished(a)}
       IN  /\ pos' = [a \in Attr |-> IF a \in moving THEN pos[a] + 1 ELSE pos[a]]
           /\ pq' = pq \cup moving
    /\ ids' = {}
    /\ pc' = "pop"
    /\ UNCHANGED <<dom, it, refs, deps, todo, result>>

\* Mutant: RegisterDeps reading GetDepIds where it means GetRefIds.
RegisterDepsFromDeps ==
    /\ pc = "pop"
    /\ pq = {}
    /\ result' = {<<d, r>> \in Attr \X Attr : r \in deps[d]}
    /\ pc' = "done"
    /\ UNCHANGED <<dom, it, pos, refs, deps, pq, ids, todo>>

\* Spider::RegisterDeps, once the queue is empty.
RegisterDeps ==
    /\ pc = "pop"
    /\ pq = {}
    /\ result' = {<<d, r>> \in Attr \X Attr : r \in refs[d]}
    /\ pc' = "done"
    /\ UNCHANGED <<dom, it, pos, refs, deps, pq, ids, todo>>

Init ==
    /\ dom \in [0 .. (AttrCount - 1) -> DomainShapes]
    /\ InitAttributes
    /\ ids = {}
    /\ todo = {}
    /\ result = {}
    /\ pc = "pop"

Next ==
    \/ PopGroup
    \/ \E i \in Attr : IntersectRefs(i)
    \/ Advance
    \/ RegisterDeps

\* The sweep is a single-threaded loop: it keeps taking steps until it ends.
Spec == Init /\ [][Next]_vars /\ WF_vars(Next)

-----------------------------------------------------------------------------
(* Properties                                                              *)

\* The valid UINDs of the input: a in r whenever every value of a is in r.
TrueRefs(a) == {r \in Attr \ {a} : DomSet(a) \subseteq DomSet(r)}
UINDs == {<<d, r>> \in Attr \X Attr : r \in TrueRefs(d)}

TypeOK ==
    /\ dom \in [0 .. (AttrCount - 1) -> DomainShapes]
    /\ it \in [Attr -> Seq(Values)]
    /\ pos \in [Attr -> Nat \ {0}]
    /\ \A a \in Attr : pos[a] <= Len(it[a])
    /\ refs \in [Attr -> SUBSET Attr]
    /\ deps \in [Attr -> SUBSET Attr]
    /\ pq \subseteq Attr /\ ids \subseteq Attr /\ todo \subseteq ids
    /\ result \subseteq Attr \X Attr
    /\ pc \in {"pop", "intersect", "done"}

\* Mutual back-reference: r is a candidate ref of a exactly when a is a
\* candidate dep of r, in every state of the sweep (IntersectRefs keeps
\* refs_ and the other attribute's deps_ in step).
MutualRefs == \A a, r \in Attr : r \in refs[a] <=> a \in deps[r]

\* The sweep never prunes a valid UIND: every r with domain(a) included in
\* domain(r) stays in refs[a] through every PopGroup/IntersectRefs round.
NoFalsePruning == \A a \in Attr : TrueRefs(a) \subseteq refs[a]

\* What RegisterDeps emits is exactly the set of valid non-reflexive UINDs
\* (spec soundness and completeness).
ResultIsUINDs == pc = "done" => result = UINDs

\* The sweep ends: ProcessAttributes empties its queue and RegisterDeps runs.
Terminates == <>(pc = "done")

=============================================================================
