----------------------------- MODULE UINDMining -----------------------------
(***************************************************************************)
(* What a sort-merge UIND miner promises: it sweeps the values once, in    *)
(* ascending order, and at each value v prunes, for every attribute a that *)
(* holds v, exactly the candidates r that do not hold v.  So after the     *)
(* sweep has reached v, cand[a] is the set of r that hold every value of a *)
(* up to v.  It may skip a value only when no attribute holding it has a   *)
(* candidate left, and it publishes once no such value remains ahead.      *)
(* Spider (through MCSpider) is checked to implement this specification.   *)
(***************************************************************************)
EXTENDS Integers

CONSTANTS
    Attr,      \* the attribute ids
    Values,    \* the cell values, ordered by <
    NoValue,   \* the sweep position before the first value (below Values)
    NoResult   \* out before anything is published

ASSUME NoValue \in Int /\ \A v \in Values : NoValue < v

VARIABLES
    domain,    \* domain[a]: the set of non-empty values of attribute a
    upto,      \* the last value swept, or NoValue
    cand,      \* cand[a]: attributes a may still be included in
    out        \* the published UINDs, or NoResult

avars == <<domain, upto, cand, out>>

\* A value w still matters while some attribute holding it has candidates.
Pending(w) == \E a \in Attr : w \in domain[a] /\ cand[a] # {}

Init ==
    /\ domain \in [Attr -> SUBSET Values \ {{}}]
    /\ upto = NoValue
    /\ cand = [a \in Attr |-> Attr \ {a}]
    /\ out = NoResult

\* Sweep the value v, next after upto among the values that still matter.
Sweep(v) ==
    /\ out = NoResult
    /\ upto < v
    /\ \A w \in Values : upto < w /\ w < v => ~Pending(w)
    /\ upto' = v
    /\ cand' = [a \in Attr |->
                  IF v \in domain[a] THEN {r \in cand[a] : v \in domain[r]}
                                     ELSE cand[a]]
    /\ UNCHANGED <<domain, out>>

\* Publish the candidates once no value ahead of the sweep matters.
Publish ==
    /\ out = NoResult
    /\ \A w \in Values : upto < w => ~Pending(w)
    /\ out' = {<<a, r>> \in Attr \X Attr : r \in cand[a]}
    /\ UNCHANGED <<domain, upto, cand>>

Next == Publish \/ \E v \in Values : Sweep(v)

Spec == Init /\ [][Next]_avars /\ WF_avars(Next)

=============================================================================
