------------------------------ MODULE MCThemes ------------------------------
(***************************************************************************)
(* The bounded instance of Themes, one part at a time.                     *)
(***************************************************************************)
EXTENDS Themes, TLC

\* A part that does not run starts in one of its initial states, whichever.
MCInit ==
  /\ Init
  /\ part = "drawing" \/ auxiliary
  /\ part = "abc" \/ live
  /\ part = "ten" \/ (system = (CHOOSE x \in Ten!Palettes : TRUE) /\ dpi = 96)
  /\ \/ part = "eleven"
     \/ /\ given = CHOOSE x \in [Eleven!Modes -> Eleven!Sources] : TRUE
        /\ mode = "light" /\ monitor = 96

MCSpec == MCInit /\ [][Next]_vars

Symmetry == Permutations(Snapshots) \cup Permutations(Scales)
=============================================================================
