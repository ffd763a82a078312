------------------------------- MODULE Document ------------------------------
(***************************************************************************)
(* The facts document as loadFacts accepts it: internal/facts (facts.go,   *)
(* validate.go).  It may come from another build, or from someone's editor.*)
(*                                                                         *)
(* A kind promises an object; an expression of which only the kind is left *)
(* is the record [k |-> kind].                                             *)
(***************************************************************************)
EXTENDS Integers, Sequences

SchemaVersion == 1

\* Older is readable, newer is not; below 1 it is no facts document.
SupportedSchema(v) == v \in 1 .. SchemaVersion

Without == {"other", "unknown"}
Objects == {"payload", "cmp", "meta", "bitwise", "ct", "lookup", "range", "fib", "immediate",
            "nat", "verdict", "xt"}

Bare(kind)  == [k |-> kind]
IsBare(e)   == DOMAIN e = {"k"}
Missing(e)  == e.k \in Objects /\ IsBare(e)

\* The kind that was added last, and not here.
ValidateBeforeNAT(rule) == \A i \in DOMAIN rule : Missing(rule[i]) => rule[i].k = "nat"

\* A kind this build does not know is not a structural problem.
Validate(rule) == \A i \in DOMAIN rule : ~Missing(rule[i])
=============================================================================
