-------------------------------- MODULE Lists --------------------------------
(***************************************************************************)
(* Sorting and filtering as the Go code does them, by definitions a proof  *)
(* can unfold: SortSeq and SelectSeq are built into the prover, which has  *)
(* no laws for them.                                                       *)
(***************************************************************************)
EXTENDS Integers, SequencesExt

\* The elements of a finite set, each once, in a strict total order of them.
Ascending(S, before(_, _)) ==
    [n \in 1 .. Cardinality(S) |->
        CHOOSE x \in S : Cardinality({y \in S : before(y, x)}) = n - 1]

\* The elements of the list s that are in T, in the order of s.
Sublist(s, T) ==
    LET kept[n \in 0 .. Len(s)] ==
            IF n = 0 THEN <<>>
            ELSE IF s[n] \in T THEN Append(kept[n - 1], s[n]) ELSE kept[n - 1]
    IN  kept[Len(s)]
=============================================================================
