--------------------------------- MODULE Sums ---------------------------------
(***************************************************************************)
(* Sums over finite sets.  Total(f, S) is SumFunctionOnSet(f, S); it is    *)
(* written as a recursive function so that it can be reasoned about.       *)
(***************************************************************************)
EXTENDS Integers

\* The sum of f[x] over the members x of S.
Total(f, S) ==
    LET total[s \in SUBSET S] ==
          IF s = {} THEN 0
          ELSE LET x == CHOOSE x \in s : TRUE IN f[x] + total[s \ {x}]
    IN  total[S]
=============================================================================
