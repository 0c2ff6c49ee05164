----------------------------- MODULE ThemeEleven -----------------------------
(***************************************************************************)
(* The `eleven` theme: one host window with a XAML island in it, whose     *)
(* tree is rebuilt when the content changes and only moved otherwise       *)
(* (themes/eleven/src/mod.rs, visual.rs, config.rs).                       *)
(*                                                                         *)
(* Three things are kept between two renders so that the second may be     *)
(* cheap: the content the tree is of, the size it measured and the palette *)
(* read from the system.  Each must be given up by every path that makes   *)
(* it untrue.                                                              *)
(***************************************************************************)
EXTENDS Naturals, Sequences

CONSTANTS
    Dpis,           \* the DPIs of the monitors
    MaxContent,     \* bound: contents presented
    MaxFaults,      \* bound: failures of XAML and of the system
    None

\* What is assumed of the constants.
ElevenAssumption == Dpis # {} /\ Dpis \subseteq Nat /\ MaxContent \in Nat /\ MaxFaults \in Nat

Modes == {"light", "dark"}

\* Where a mode's accent colour is to come from; "broken" does not parse.
Sources == {"fixed", "system", "broken"}

VARIABLES
    given,      \* ThemeConfig::accent, by mode
    system,     \* the system's mode
    phase,      \* the theme is not created, alive, or over
    palette,    \* CandidateTheme::palette, or None
    tree,       \* the content and palette of the XAML tree, and whether it is complete
    wired,      \* the contents whose controls still call the theme (revokers)
    last,       \* UiState::last_snapshot: its content, or None
    measured,   \* UiState::measured_size, or None; content 0 is the default size
    dpi,        \* the host window's DPI
    host,       \* what the host's size is for
    child,      \* what the island window's size is for
    astray,     \* history: no pass of the last placing kept the DPI
    shown,      \* whether the host is on the screen
    told,       \* history: the modes whose fallback colour was reported
    faults      \* failures so far

places == <<measured, dpi, host, child, astray>>
vars == <<given, system, phase, palette, tree, wired, last, places, shown, told, faults>>

Palettes == [mode : Modes, accent : {"fixed", "system", "default"}]

Sizes == [id : 0..MaxContent, dpi : Dpis]

NoTree == [id |-> 0, palette |-> None, whole |-> FALSE]

-----------------------------------------------------------------------------
Alive == phase = "alive"

Faulty == faults < MaxFaults /\ faults' = faults + 1

\* Palette::system, with the accent of the configuration, read when none is
\* cached: the system's colours may be unreadable, which is the light palette,
\* and so may its accent, which is reported.
ReadsPalette ==
    IF palette # None THEN UNCHANGED <<palette, told, faults>>
    ELSE \/ /\ palette' = [mode |-> system,
                           accent |-> IF given[system] = "broken" THEN "default" ELSE given[system]]
            /\ UNCHANGED <<told, faults>>
         \/ /\ Faulty
            /\ given[system] = "system"
            /\ palette' = [mode |-> system, accent |-> "default"]
            /\ told' = told \cup {system}
         \/ /\ Faulty
            /\ palette' = [mode |-> "light",
                           accent |-> IF given["light"] = "broken" THEN "default" ELSE given["light"]]
            /\ UNCHANGED told

\* The colours that do not parse, found when the configuration is loaded.
Broken == {m \in Modes : given[m] = "broken"}

\* The theme's window, island and tree: any step may fail, and then the
\* notices of the configuration are returned all the same.
Create ==
    /\ phase = "absent"
    /\ phase' \in {"alive", "over"}
    /\ ReadsPalette
    /\ UNCHANGED <<given, system, tree, wired, last, places, shown>>

\* Factory::create up to the window: the system may be too old.
Load ==
    /\ phase = "unread"
    /\ phase' \in {"absent", "over"}
    /\ told' = Broken
    /\ UNCHANGED <<given, system, palette, tree, wired, last, places, shown, faults>>

-----------------------------------------------------------------------------
(* Placing. *)

\* The DPIs the host goes through: a pass that keeps the DPI is the last, and
\* there are at most three.
From(s) == {Append(s, d) : d \in Dpis}
Keeps(s) == s[Len(s)] = s[Len(s) - 1]
More(S) == {s \in S : Keeps(s)} \cup UNION {From(s) : s \in {s \in S : ~Keeps(s)}}

Walks == More(More(From(<<dpi>>)))

\* The DPI the host ends with and the one the island is sized for.  The size of
\* the last pass is taken again; if no pass kept the DPI, this last move may
\* change it once more, and the host takes the suggested size but the island
\* the computed one.
Placed ==
    UNION {LET n == Len(w)
           IN  IF Keeps(w) THEN {[dpi |-> w[n], child |-> w[n], astray |-> FALSE]}
               ELSE {[dpi |-> d, child |-> w[n], astray |-> TRUE] : d \in Dpis} : w \in Walks}

\* desired_size of a new tree, whose cache is empty: what is measured, or the
\* default where XAML cannot say.
Desired(id) == {id, 0}

Settles(size) ==
    \E p \in Placed :
        /\ dpi' = p.dpi /\ astray' = p.astray
        /\ host' = [id |-> size, dpi |-> p.dpi]
        /\ child' = [id |-> size, dpi |-> p.child]
        /\ measured' = [id |-> size, dpi |-> p.child]

-----------------------------------------------------------------------------
(* ThemeBackend. *)

\* What `hide` leaves.
Hides ==
    /\ last' = None /\ wired' = {} /\ shown' = FALSE
    /\ tree' = NoTree
    /\ measured' = None

\* The content shown: the host moves without being sized, and only a move that
\* changes its DPI measures and sizes it again.
RenderSame ==
    /\ Alive /\ last # None
    /\ \/ /\ measured' = IF measured # None /\ measured.dpi = dpi THEN measured
                         ELSE [id |-> tree.id, dpi |-> dpi]
          /\ UNCHANGED <<dpi, host, child, astray>>
       \/ \E size \in {tree.id, 0} : Settles(size)
    /\ UNCHANGED <<given, system, phase, palette, tree, wired, last, shown, told, faults>>

\* CandidateTheme::render of another content: its tree, with the controls it
\* has, in the colours that are cached.
RenderNew ==
    /\ Alive
    /\ ReadsPalette
    /\ \E id \in (1..MaxContent) \ {last} :
        /\ tree' = [id |-> id, palette |-> palette', whole |-> TRUE]
        /\ wired' \in {{}, {id}}
        /\ last' = id
        /\ \E size \in Desired(id) : Settles(size)
    /\ shown' = TRUE
    /\ UNCHANGED <<given, system, phase>>

\* A control cannot be made: what was built so far is taken away with the
\* window, and the renderer ends.
RenderFails ==
    /\ Alive /\ Faulty
    /\ phase' = "over"
    /\ Hides
    /\ UNCHANGED <<given, system, palette, dpi, host, child, astray, told>>

\* Asked for, or a view that shows nothing.
Hide ==
    /\ Alive
    /\ Hides
    /\ UNCHANGED <<given, system, phase, palette, dpi, host, child, astray, told, faults>>

\* The caches are dropped; what is shown is rebuilt by the next render.
RefreshAppearance ==
    /\ Alive
    /\ palette' = None /\ last' = None
    /\ UNCHANGED <<given, system, phase, tree, wired, places, shown, told, faults>>

-----------------------------------------------------------------------------
(* The system. *)

SystemChanges ==
    /\ phase # "over"
    /\ \E m \in Modes \ {system} : system' = m
    /\ UNCHANGED <<given, phase, palette, tree, wired, last, places, shown, told, faults>>

\* WM_DPICHANGED: the host takes the suggested size, and WM_SIZE gives it to
\* the island.
DpiChanged ==
    /\ Alive
    /\ \E d \in Dpis \ {dpi} :
        /\ dpi' = d
        /\ host' = [host EXCEPT !.dpi = d]
        /\ child' = host'
    /\ astray' = FALSE
    /\ UNCHANGED <<given, system, phase, palette, tree, wired, last, measured, shown, told, faults>>

Init ==
    /\ given \in [Modes -> Sources] /\ system \in Modes
    /\ phase = "unread" /\ palette = None
    /\ tree = NoTree /\ wired = {} /\ last = None /\ measured = None
    /\ dpi \in Dpis /\ host = [id |-> 0, dpi |-> dpi] /\ child = host
    /\ astray = FALSE /\ shown = FALSE /\ told = {} /\ faults = 0

Next ==
    \/ Load \/ Create \/ RenderSame \/ RenderNew \/ RenderFails \/ Hide \/ RefreshAppearance
    \/ SystemChanges \/ DpiChanged

Spec == Init /\ [][Next]_vars

-----------------------------------------------------------------------------
\* The caches, the tree and the windows are what their types say.
TypeOK ==
    /\ given \in [Modes -> Sources] /\ system \in Modes
    /\ phase \in {"unread", "absent", "alive", "over"}
    /\ palette \in Palettes \cup {None}
    /\ tree \in [id : 0..MaxContent, palette : Palettes \cup {None}, whole : BOOLEAN]
    /\ wired \subseteq 1..MaxContent
    /\ last \in 1..MaxContent \cup {None}
    /\ measured \in Sizes \cup {None}
    /\ dpi \in Dpis /\ host \in Sizes /\ child \in Sizes
    /\ astray \in BOOLEAN /\ shown \in BOOLEAN /\ told \subseteq Modes
    /\ faults \in 0..MaxFaults

\* A tree that the next render would only move is complete, of the content it
\* stands for and in the colours now cached; no control of an older tree can
\* still be tapped, and a render that failed leaves nothing on the screen
\* (mod.rs:299, 514).
ReusedTreeIsWhole ==
    /\ last # None => tree = [id |-> last, palette |-> palette, whole |-> TRUE]
    /\ wired \subseteq {tree.id}
    /\ phase = "over" => ~shown

\* The host on the screen has the size of its content, or the default, at the
\* DPI of its monitor, and the island has the host's size, unless four moves in
\* a row changed the DPI (mod.rs:550).
FitsItsContent ==
    shown =>
        /\ host.id \in {tree.id, 0} /\ host.dpi = dpi
        /\ ~astray => child = host

\* A colour that is not the one configured has been reported, whether or not
\* the theme could be created (mod.rs:711).
FallbackIsTold ==
    /\ palette # None /\ palette.accent # given[palette.mode] => palette.mode \in told
    /\ phase # "unread" => Broken \subseteq told

\* The invariant of the theme: a tree that is reused only when whole, windows that
\* fit their content, and fallbacks of the configuration that are reported.
Inv == TypeOK /\ ReusedTreeIsWhole /\ FitsItsContent /\ FallbackIsTold
=============================================================================
