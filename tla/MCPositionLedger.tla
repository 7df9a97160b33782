--------------------------- MODULE MCPositionLedger ---------------------------
(***************************************************************************)
(* Small instances of PositionLedger for TLC.                              *)
(***************************************************************************)
EXTENDS PositionLedger, TLC

CONSTANTS a1, a2, a3, s1, r1, r2, c1, c2

\* Every agent may hold two units of margin ...
TwoUnits == [a \in Agents |-> 2]

\* ... or every agent but the third, whose capital covers no order.
TwoUnitsOrNone == [a \in Agents |-> IF a = a3 THEN 0 ELSE 2]

\* Cycle slots and row identifiers are interchangeable.
SlotSymmetry == Permutations(Cycles) \cup Permutations(Rows)
=============================================================================
