---------------------------- MODULE MCAdmission ----------------------------
(***************************************************************************)
(* Instances of Admission for TLC.  Connections are interchangeable.       *)
(***************************************************************************)
EXTENDS Admission, TLC

ConnSymmetry == Permutations(Conns)
=============================================================================
