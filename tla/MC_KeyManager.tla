----------------------------- MODULE MC_KeyManager -----------------------------
(***************************************************************************)
(* Small instances of KeyManager for TLC.                                  *)
(***************************************************************************)
EXTENDS KeyManager, TLC

KeySymmetry ==
    Permutations(Calls) \cup Permutations(Institutions) \cup Permutations(PiiFields)
=============================================================================
