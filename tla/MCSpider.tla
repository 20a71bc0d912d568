------------------------------ MODULE MCSpider ------------------------------
(***************************************************************************)
(* Model-checking instance of Spider: four attributes over three values.  *)
(* With MaxParts = 1 every domain is a single partition, the case of an    *)
(* ingest that never had to swap a table's tail partitions; domains split  *)
(* by a tail swap are checked end to end in Discovery.                     *)
(***************************************************************************)
EXTENDS Spider

MCAttrCount == 4
MCValues == 1 .. 3

CONSTANT NoResult

\* The values an attribute's cursor has gone past, with its current value
\* once it has been popped and not pushed back (in ids, or finished).
Consumed(a) ==
    {it[a][j] : j \in 1 .. (pos[a] - 1)}
        \cup (IF a \in pq THEN {} ELSE {GetValue(a)})

\* The value of the last group popped: the largest value consumed, or 0.
Swept == LET c == UNION {Consumed(a) : a \in Attr}
         IN  IF c = {} THEN 0 ELSE CHOOSE v \in c : \A w \in c : w <= v

\* The refinement mapping onto the value sweep: the domains as sets, the
\* sweep position as the last group's value, and as candidates refs, with
\* the pending IntersectRefs of the current group already applied (the
\* abstract sweep prunes at PopGroup); the output once RegisterDeps ran.
Abstract == INSTANCE UINDMining WITH
    Attr <- 0 .. (AttrCount - 1),
    NoValue <- 0,
    domain <- [a \in Attr |-> DomSet(a)],
    upto <- Swept,
    cand <- [a \in Attr |-> IF pc = "intersect" /\ a \in todo
                              THEN refs[a] \cap ids ELSE refs[a]],
    out <- IF pc = "done" THEN result ELSE NoResult

\* Spider implements the ascending value sweep, its liveness included:
\* each group is a new value above every value consumed so far, the group
\* prunes exactly the refs that lack it, no value that still matters is
\* skipped, and RegisterDeps runs only when none is left ahead.
ImplementsUINDMining == Abstract!Spec

=============================================================================
