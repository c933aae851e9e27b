------------------------------ MODULE MCSession ------------------------------
(* Small instances of Session for TLC. *)
EXTENDS Session, TLC

Symmetry ==
    Permutations(Agents) \cup Permutations(Names) \cup Permutations(Transports) \cup Permutations(Readers)

=============================================================================
