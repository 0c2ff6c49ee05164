---------------------------- MODULE MCThemeHost ----------------------------
(***************************************************************************)
(* Small instances of ThemeHost.                                           *)
(***************************************************************************)
EXTENDS ThemeHost, TLC

Symmetry == Permutations(Views)
=============================================================================
