------------------------------ MODULE OrderedNames ------------------------------
(***************************************************************************)
(* Sorting of names, for the leaves of a tree and the keys of an object:   *)
(* all names there can be are given in order once, and a set is sorted by  *)
(* going through them.  Written as a recursive function, and with a set    *)
(* for SelectSeq's test, so that it can be proved about.                   *)
(***************************************************************************)
EXTENDS Integers, Sequences

\* What of S is among the first n names, for every n.
Selections(order, S) ==
    LET selected[n \in 0..Len(order)] ==
            IF n = 0 THEN <<>>
            ELSE IF order[n] \in S THEN Append(selected[n - 1], order[n])
            ELSE selected[n - 1]
    IN  selected

\* Object.keys(...).sort(), of the names in S.
InOrder(order, S) == Selections(order, S)[Len(order)]
=============================================================================
