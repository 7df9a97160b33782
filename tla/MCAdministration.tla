-------------------------- MODULE MCAdministration --------------------------
(***************************************************************************)
(* Small instances of Administration for TLC.                              *)
(***************************************************************************)
EXTENDS Administration, TLC

\* Rows, names and configs are told apart by what refers to them only.
AdminSymmetry ==
    Permutations(Strategies) \cup Permutations(Agents) \cup Permutations(Accounts)
        \cup Permutations(Names) \cup Permutations(Configs)
=============================================================================
