------------------------------- MODULE Themes -------------------------------
(***************************************************************************)
(* What draws the candidates: the host of a WASM theme, its compositor,    *)
(* and the three native themes.  They are alternatives in one process and  *)
(* share no state: a behaviour is one of one part, and the others stay in  *)
(* an initial state of theirs.                                             *)
(***************************************************************************)
EXTENDS Naturals, Sequences, FiniteSets

CONSTANTS
  None,   \* no content, resource, window or message, for all
  Dpis,   \* the DPIs of the monitors, for ten and eleven
  \* ThemeHost
  Snapshots, Blank, MaxSurface, MaxGeneration,
  \* Compositor
  Scales, MaxMade, Quota, MaxLayer, DrawingRetries, DrawingFaults,
  \* ThemeAbc, ThemeTen and ThemeEleven
  AbcContents, AbcFailures, AbcRetries,
  TenContents, TenFailures, TenRetries,
  ElevenContents, ElevenFailures

VARIABLES
  part,   \* which part the behaviour is of
  \* ThemeHost
  host, content, frame, shown, windows, wake, posted, capture, error, press, hit,
  \* Compositor
  auxiliary, made, table, commands, scene, revision, onScreen, dueDrawing, canvas, surface, tree,
  scale, recovery, failed, faults,
  \* ThemeAbc
  live, view, sink, queue, window, held, sent, abcFaults, ended,
  \* ThemeTen
  system, palette, tenContent, gesture, captured, dpi, size, target, tenRecovery, tenShown,
  dirty, pixels, astray, tenSent, tenFaults, tenError,
  \* ThemeEleven
  given, mode, phase, brushes, xaml, wired, lastContent, measured, monitor, outer, child, lost,
  visible, told, elevenFaults

Wasm == INSTANCE ThemeHost WITH Views <- Snapshots, MaxRevision <- MaxGeneration
Drawing == INSTANCE Compositor WITH
  MaxRevision <- MaxLayer, Retries <- DrawingRetries, MaxFaults <- DrawingFaults,
  frame <- commands, visible <- onScreen, dirty <- dueDrawing
Abc == INSTANCE ThemeAbc WITH
  MaxContent <- AbcContents, MaxFaults <- AbcFailures, Retries <- AbcRetries,
  faults <- abcFaults
Ten == INSTANCE ThemeTen WITH
  MaxContent <- TenContents, MaxFaults <- TenFailures, Retries <- TenRetries,
  content <- tenContent, recovery <- tenRecovery, shown <- tenShown, sent <- tenSent,
  faults <- tenFaults, error <- tenError
Eleven == INSTANCE ThemeEleven WITH
  MaxContent <- ElevenContents, MaxFaults <- ElevenFailures, system <- mode,
  palette <- brushes, tree <- xaml, last <- lastContent, dpi <- monitor, host <- outer,
  astray <- lost, shown <- visible, faults <- elevenFaults

\* What is assumed of the constants.
ThemesAssumption ==
  /\ Wasm!ThemeHostAssumption /\ Drawing!CompositorAssumption
  /\ Abc!AbcAssumption /\ Ten!TenAssumption /\ Eleven!ElevenAssumption

ASSUME ConstantsAreRight == ThemesAssumption

wasmVars == <<host, content, frame, shown, windows, wake, posted, capture, error,
              press, hit>>
drawingVars == <<auxiliary, made, table, commands, scene, revision, onScreen, dueDrawing,
                 canvas, surface, tree, scale, recovery, failed, faults>>
abcVars == <<live, view, sink, queue, window, held, sent, abcFaults, ended>>
tenVars == <<system, palette, tenContent, gesture, captured, dpi, size, target, tenRecovery,
             tenShown, dirty, pixels, astray, tenSent, tenFaults, tenError>>
elevenVars == <<given, mode, phase, brushes, xaml, wired, lastContent, measured, monitor,
                outer, child, lost, visible, told, elevenFaults>>
vars == <<part, wasmVars, drawingVars, abcVars, tenVars, elevenVars>>

Init ==
  /\ part \in {"wasm", "drawing", "abc", "ten", "eleven"}
  /\ Wasm!Init /\ Drawing!Init /\ Abc!Init /\ Ten!Init /\ Eleven!Init

Next ==
  \/ /\ part = "wasm" /\ Wasm!Next
     /\ UNCHANGED <<part, drawingVars, abcVars, tenVars, elevenVars>>
  \/ /\ part = "drawing" /\ Drawing!Next
     /\ UNCHANGED <<part, wasmVars, abcVars, tenVars, elevenVars>>
  \/ /\ part = "abc" /\ Abc!Next
     /\ UNCHANGED <<part, wasmVars, drawingVars, tenVars, elevenVars>>
  \/ /\ part = "ten" /\ Ten!Next
     /\ UNCHANGED <<part, wasmVars, drawingVars, abcVars, elevenVars>>
  \/ /\ part = "eleven" /\ Eleven!Next
     /\ UNCHANGED <<part, wasmVars, drawingVars, abcVars, tenVars>>

Spec == Init /\ [][Next]_vars

-----------------------------------------------------------------------------
\* What the windows of a WASM theme show is what the guest last committed, each
\* surface has its window, and a release is told with a region only where its
\* press went down (window.rs, runtime.rs).
HostInv == Wasm!Inv

\* The windows of the theme abc exclude one another, are drawn as they are, keep
\* nothing when hidden and forward one click of one press (abc/src/mod.rs).
AbcInv == Abc!Inv

\* The first frame of a window of abc that comes to the screen is of its new
\* content (abc/src/mod.rs:749).
FirstFrameIsNew == Abc!FirstFrameIsNew

\* What is drawn is there: the quota of resources, the bitmaps and visuals
\* (composition.rs, canvas.rs, resources.rs); the windows of ten and eleven fit their
\* content at the DPI of their monitor and are drawn or reused as what they are now
\* (ten/src/mod.rs, eleven/src/mod.rs).
PicturesInv == Drawing!PicturesAreOwn /\ Ten!Inv /\ Eleven!Inv

\* A window of a WASM theme that is on the screen has drawn what it is to show, is about
\* to, or waits for a lost device; and a wait has the timer that ends it, although
\* callbacks paint, sizes change and windows hide in the meantime (window.rs,
\* graphics_error).
LossIsRepaired == Drawing!WaitIsTimed /\ Drawing!DrawnOrDue
=============================================================================
