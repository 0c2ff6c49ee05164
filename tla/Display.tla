------------------------------- MODULE Display -------------------------------
(***************************************************************************)
(* What the path from the input engine to the candidate window promises,    *)
(* whatever happens to the connections and to the renderer process: the     *)
(* window shows something the engine published, or nothing, and never goes  *)
(* back to something older than what it showed before.                      *)
(***************************************************************************)
EXTENDS Naturals

VARIABLES
    published, \* sequence number of the latest snapshot, 0 if none
    onScreen,  \* sequence number of what the window shows, 0 if hidden
    newest     \* the greatest number ever shown

vars == <<published, onScreen, newest>>

Init == published = 0 /\ onScreen = 0 /\ newest = 0

Publish ==
    /\ published' = published + 1
    /\ UNCHANGED <<onScreen, newest>>

\* Snapshots may be skipped; one may be shown again.
Show ==
    /\ \E s \in (newest..published) \ {0} : onScreen' = s /\ newest' = s
    /\ UNCHANGED published

Hide ==
    /\ onScreen' = 0
    /\ UNCHANGED <<published, newest>>

Next == Publish \/ Show \/ Hide

Spec == Init /\ [][Next]_vars
=============================================================================
