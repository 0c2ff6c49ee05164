---------------------------- MODULE ThemesProofs ----------------------------
(***************************************************************************)
(* What the themes never do, for every set of contents, scales and DPIs,   *)
(* and every number of contents, failures, retries and resources.          *)
(*                                                                         *)
(* None of the invariants is inductive by itself.  The host of a WASM      *)
(* theme rests on what is between two messages: every frame was taken, and *)
(* what a surface remembers pressed is the press of the history, on the    *)
(* snapshot that is shown (HostIInv).  The compositor rests on a handle    *)
(* never being given twice, so a bitmap of a handle is of its resource     *)
(* (WorkIs).  Each window of abc rests on what one window is between two   *)
(* turns (WindowIs), ten and eleven on their windows being shown exactly   *)
(* while they have a content, and on where a placing over the monitors     *)
(* ends (IsWalk).                                                          *)
(***************************************************************************)
EXTENDS Themes, SequenceTheorems, FiniteSetTheorems, TLAPS

-----------------------------------------------------------------------------
(* The host of the WASM themes.                                            *)

\* What the host assumes of its sizes.
LEMMA HostConstants == Wasm!ThemeHostAssumption
BY ConstantsAreRight DEF ThemesAssumption

\* The hosts there are; of those that occur the main surface is there.
Hosts == [surf : [Wasm!Ids -> Wasm!Surfaces \cup {None}], next : 1 .. MaxSurface + 1,
          view : Snapshots \cup {None}, revision : 0 .. MaxGeneration]

Sound(h) == h \in Hosts /\ h.surf[Wasm!Primary] # None

\* The bounds are numbers, and the marks are no frames or windows.
LEMMA HostBounds ==
  /\ MaxSurface \in Nat /\ MaxGeneration \in Nat
  /\ None \notin Snapshots /\ Blank \notin Snapshots /\ Blank # None
  /\ None \notin Wasm!Targets /\ None \notin Wasm!Surfaces /\ None \notin Wasm!AuxWindows
  /\ Wasm!Primary \in Wasm!Ids /\ Wasm!Primary \notin Wasm!Auxiliary
  /\ Wasm!Auxiliary \subseteq Wasm!Ids
  /\ None \notin Wasm!Frames /\ Blank \in Wasm!Frames
<1>1. /\ MaxSurface \in Nat /\ MaxGeneration \in Nat
      /\ None \notin Snapshots /\ Blank \notin Snapshots /\ Blank # None
      /\ None \notin Wasm!Targets /\ None \notin Wasm!Surfaces /\ None \notin Wasm!AuxWindows
  BY HostConstants DEF Wasm!ThemeHostAssumption
<1>2. Wasm!Primary \in Wasm!Ids /\ Wasm!Primary \notin Wasm!Auxiliary
      /\ Wasm!Auxiliary \subseteq Wasm!Ids
  BY <1>1 DEF Wasm!Primary, Wasm!Ids, Wasm!Auxiliary
<1>3. None \notin Wasm!Frames /\ Blank \in Wasm!Frames BY <1>1 DEF Wasm!Frames
<1> QED BY <1>1, <1>2, <1>3

\* The fields of the host.
LEMMA HostFields ==
  ASSUME NEW h \in Hosts
  PROVE  /\ h.surf \in [Wasm!Ids -> Wasm!Surfaces \cup {None}] /\ h.next \in 1 .. MaxSurface + 1
         /\ h.view \in Snapshots \cup {None} /\ h.revision \in 0 .. MaxGeneration
         /\ h = [surf |-> h.surf, next |-> h.next, view |-> h.view, revision |-> h.revision]
BY DEF Hosts

\* The host with other surfaces.
LEMMA WithSurfaces ==
  ASSUME NEW h \in Hosts, NEW S \in [Wasm!Ids -> Wasm!Surfaces \cup {None}],
         NEW g, g = [h EXCEPT !.surf = S]
  PROVE  g \in Hosts /\ g.surf = S /\ g.next = h.next /\ g.view = h.view /\ g.revision = h.revision
BY DEF Hosts

\* The fields of a surface.
LEMMA SurfaceFields ==
  ASSUME NEW s \in Wasm!Surfaces
  PROVE  /\ s.presented \in Wasm!Frames /\ s.pending \in Wasm!Frames \cup {None}
         /\ s.visible \in BOOLEAN
         /\ s.touched \in BOOLEAN /\ s.layer \in 0 .. MaxGeneration
         /\ s.pressed \in Wasm!Targets \cup {None}
         /\ s # None
BY HostBounds DEF Wasm!Surfaces

\* The surfaces that are there.
LEMMA LiveFacts ==
  ASSUME NEW h \in Hosts
  PROVE  /\ \A id \in Wasm!Ids : id \in Wasm!Live(h) <=> h.surf[id] # None
         /\ \A id \in Wasm!Live(h) : id \in Wasm!Ids /\ h.surf[id] \in Wasm!Surfaces
BY HostFields DEF Wasm!Live

\* A surface that is made shows nothing.
LEMMA NewSurfaceFacts ==
  ASSUME NEW id
  PROVE  /\ Wasm!NewSurface(id) \in Wasm!Surfaces /\ Wasm!NewSurface(id).pressed = None
         /\ Wasm!NewSurface(id).presented = Blank /\ Wasm!NewSurface(id).pending = None
  BY HostBounds DEF Wasm!NewSurface, Wasm!Surfaces

\* The outputs of the last callback are dropped, and nothing else.
LEMMA FreshFacts ==
  ASSUME NEW h, Sound(h)
  PROVE  /\ Sound(Wasm!Fresh(h)) /\ Wasm!Fresh(h).next = h.next /\ Wasm!Fresh(h).view = h.view
         /\ Wasm!Fresh(h).revision = h.revision /\ Wasm!Live(Wasm!Fresh(h)) = Wasm!Live(h)
         /\ \A id \in Wasm!Live(h) : /\ Wasm!Fresh(h).surf[id].presented = h.surf[id].presented
                                     /\ Wasm!Fresh(h).surf[id].pressed = h.surf[id].pressed
                                     /\ Wasm!Fresh(h).surf[id].pending = None
<1> DEFINE S == [id \in Wasm!Ids |-> IF id \in Wasm!Live(h)
                               THEN [h.surf[id] EXCEPT !.pending = None, !.touched = FALSE]
                               ELSE None]
<1>1. h \in Hosts BY DEF Sound
<1>2. ASSUME NEW id \in Wasm!Live(h)
      PROVE  /\ id \in Wasm!Ids /\ S[id] \in Wasm!Surfaces
             /\ S[id].presented = h.surf[id].presented
             /\ S[id].pressed = h.surf[id].pressed /\ S[id].pending = None
  <2>1. id \in Wasm!Ids /\ h.surf[id] \in Wasm!Surfaces BY <1>1, LiveFacts
  <2>2. S[id] = [h.surf[id] EXCEPT !.pending = None, !.touched = FALSE] BY <2>1
  <2> QED BY <2>1, <2>2 DEF Wasm!Surfaces
<1>3. S \in [Wasm!Ids -> Wasm!Surfaces \cup {None}]
  <2>1. \A id \in Wasm!Ids : S[id] \in Wasm!Surfaces \cup {None} BY <1>2
  <2>2. S = [id \in Wasm!Ids |-> S[id]] OBVIOUS
  <2> HIDE DEF S
  <2> QED BY <2>1, <2>2
<1>4. Wasm!Fresh(h) = [h EXCEPT !.surf = S] BY DEF Wasm!Fresh
<1>5. \A id \in Wasm!Ids : id \notin Wasm!Live(h) => S[id] = None OBVIOUS
<1> HIDE DEF S
<1>6. /\ Wasm!Fresh(h) \in Hosts /\ Wasm!Fresh(h).surf = S /\ Wasm!Fresh(h).next = h.next
      /\ Wasm!Fresh(h).view = h.view /\ Wasm!Fresh(h).revision = h.revision
  BY <1>1, <1>3, <1>4, WithSurfaces
<1>7. Wasm!Live(Wasm!Fresh(h)) = Wasm!Live(h)
  <2>1. \A id \in Wasm!Ids : id \in Wasm!Live(h) <=> S[id] # None BY <1>2, <1>5, SurfaceFields
  <2> QED BY <2>1, <1>6 DEF Wasm!Live
<1>8. Wasm!Fresh(h).surf[Wasm!Primary] # None
  <2>1. Wasm!Primary \in Wasm!Live(h) BY <1>1, HostBounds, LiveFacts DEF Sound
  <2> QED BY <1>2, <1>6, <2>1, SurfaceFields
<1> QED BY <1>2, <1>6, <1>7, <1>8 DEF Sound

\* What the edits of a callback are.
LEMMA EditFacts ==
  ASSUME NEW h, NEW e \in Wasm!Edits(h)
  PROVE  /\ e.kind \in {"nothing", "draw", "layer", "show", "conceal", "open", "close"}
         /\ e.kind = "open" => e.at = {h.next} /\ h.next <= MaxSurface
         /\ e.kind = "close" => Wasm!Primary \notin e.at
         /\ e.kind = "nothing" => e.at = {}
         /\ e.kind # "open" => e.at \subseteq Wasm!Live(h)
<1>1. CASE e = [kind |-> "nothing", at |-> {}] BY <1>1
<1>2. CASE e \in [kind : {"draw"}, at : SUBSET Wasm!Live(h) \ {{}}] BY <1>2
<1>3. CASE e \in [kind : {"layer", "show", "conceal"}, at : {{id} : id \in Wasm!Live(h)}] BY <1>3
<1>4. CASE e \in {[kind |-> "open", at |-> {h.next}] : id \in {i \in {h.next} : i <= MaxSurface}}
  BY <1>4
<1>5. CASE e \in [kind : {"close"}, at : {{id} : id \in Wasm!Live(h) \ {Wasm!Primary}}] BY <1>5
<1> QED BY <1>1, <1>2, <1>3, <1>4, <1>5 DEF Wasm!Edits

\* An edit keeps what is presented, pending and pressed.
LEMMA ChangedFacts ==
  ASSUME NEW s \in Wasm!Surfaces, NEW id, NEW kind \in {"draw", "layer", "show", "conceal"},
         NEW g \in 0 .. MaxGeneration, NEW c, c = Wasm!Changed(s, id, kind, g)
  PROVE  /\ c \in Wasm!Surfaces /\ c.presented = s.presented /\ c.pending = s.pending
         /\ c.pressed = s.pressed
<1>1. \/ c = [s EXCEPT !.touched = TRUE]
      \/ c = [s EXCEPT !.touched = TRUE, !.layer = g]
      \/ c = [s EXCEPT !.touched = TRUE, !.visible = TRUE]
      \/ c = [s EXCEPT !.touched = TRUE, !.visible = FALSE]
  BY DEF Wasm!Changed
<1> QED BY <1>1 DEF Wasm!Surfaces

\* An edit leaves what is presented, pending and pressed on the surfaces that were
\* there, and a surface that is opened has none of it.
LEMMA EditedFacts ==
  ASSUME NEW h, Sound(h), NEW e, e \in Wasm!Edits(h), e.kind = "layer" => h.revision < MaxGeneration
  PROVE  /\ Sound(Wasm!Edited(h, e)) /\ Wasm!Edited(h, e).view = h.view
         /\ \A id \in Wasm!Live(Wasm!Edited(h, e)) :
              Wasm!Edited(h, e).surf[id].pressed # None =>
                 /\ id \in Wasm!Live(h) /\ Wasm!Edited(h, e).surf[id].pressed = h.surf[id].pressed
         /\ Wasm!Edited(h, e).surf[Wasm!Primary].presented = h.surf[Wasm!Primary].presented
         /\ Wasm!Edited(h, e).surf[Wasm!Primary].pending = h.surf[Wasm!Primary].pending
<1> DEFINE S == [id \in Wasm!Ids |-> IF id \in e.at
                               THEN Wasm!Changed(h.surf[id], id, e.kind, Wasm!Generation(h, e))
                               ELSE h.surf[id]]
<1>1. h \in Hosts /\ h.surf[Wasm!Primary] # None /\ Wasm!Primary \in Wasm!Live(h)
  BY HostBounds, LiveFacts DEF Sound
<1>2. Wasm!Generation(h, e) \in 0 .. MaxGeneration
  <2>1. PICK r \in 0 .. MaxGeneration : r = h.revision BY <1>1, HostFields
  <2>2. e.kind = "layer" => r + 1 \in 0 .. MaxGeneration BY <2>1, HostBounds
  <2> QED BY <2>1, <2>2 DEF Wasm!Generation
<1>3. /\ e.kind \in {"nothing", "draw", "layer", "show", "conceal", "open", "close"}
      /\ e.kind = "open" => e.at = {h.next} /\ h.next <= MaxSurface
      /\ e.kind = "close" => Wasm!Primary \notin e.at
      /\ e.kind = "nothing" => e.at = {}
      /\ e.kind # "open" => e.at \subseteq Wasm!Live(h)
  BY EditFacts
<1>4. PICK n \in 1 .. MaxSurface + 1 : n = h.next BY <1>1, HostFields
<1>5. e.kind = "open" => n \in Wasm!Ids /\ n # Wasm!Primary BY <1>3, <1>4,
  HostBounds DEF Wasm!Ids, Wasm!Primary
<1>6. ASSUME NEW id \in Wasm!Ids
      PROVE  /\ S[id] \in Wasm!Surfaces \cup {None}
             /\ (S[id] # None /\ S[id].pressed # None)
                  => id \in Wasm!Live(h) /\ S[id].pressed = h.surf[id].pressed
             /\ id = Wasm!Primary => /\ S[id] # None /\ S[id].presented = h.surf[id].presented
                                     /\ S[id].pending = h.surf[id].pending
  <2>1. CASE id \notin e.at
    <3>1. S[id] = h.surf[id] BY <2>1
    <3> QED BY <1>1, <3>1, HostFields, LiveFacts
  <2>2. CASE id \in e.at
    <3>1. S[id] = Wasm!Changed(h.surf[id], id, e.kind, Wasm!Generation(h, e)) BY <2>2
    <3>2. e.kind \in {"draw", "layer", "show", "conceal", "open", "close"} BY <1>3, <2>2
    <3>3. e.kind # "open" => id \in Wasm!Live(h) /\ h.surf[id] \in Wasm!Surfaces
      BY <1>1, <1>3, <2>2, LiveFacts
    <3>4. id = Wasm!Primary => e.kind \notin {"open", "close"} BY <1>3, <1>4, <1>5, <2>2
    <3> HIDE DEF S
    <3>5. CASE e.kind = "open"
      <4>1. S[id] = Wasm!NewSurface(id) BY <3>1, <3>5 DEF Wasm!Changed
      <4> QED BY <3>4, <3>5, <4>1, NewSurfaceFacts
    <3>6. CASE e.kind = "close"
      <4>1. S[id] = None BY <3>1, <3>6 DEF Wasm!Changed
      <4> QED BY <3>4, <3>6, <4>1
    <3>7. CASE e.kind \notin {"open", "close"}
      <4>1. e.kind \in {"draw", "layer", "show", "conceal"} BY <3>2, <3>7
      <4>2. h.surf[id] \in Wasm!Surfaces /\ id \in Wasm!Live(h) BY <3>3, <3>7
      <4>3. /\ S[id] \in Wasm!Surfaces /\ S[id].presented = h.surf[id].presented
            /\ S[id].pending = h.surf[id].pending /\ S[id].pressed = h.surf[id].pressed
        <5>1. PICK s \in Wasm!Surfaces : s = h.surf[id] BY <4>2
        <5>2. PICK k \in {"draw", "layer", "show", "conceal"} : k = e.kind BY <4>1
        <5>3. PICK g \in 0 .. MaxGeneration : g = Wasm!Generation(h, e) BY <1>2
        <5>4. PICK c : c = S[id] OBVIOUS
        <5>5. c = Wasm!Changed(s, id, k, g) BY <3>1, <5>1, <5>2, <5>3, <5>4
        <5>6. /\ c \in Wasm!Surfaces /\ c.presented = s.presented /\ c.pending = s.pending
              /\ c.pressed = s.pressed
          BY <5>5, ChangedFacts
        <5> QED BY <5>1, <5>4, <5>6
      <4> QED BY <4>2, <4>3, SurfaceFields
    <3> QED BY <3>5, <3>6, <3>7
  <2> QED BY <2>1, <2>2
<1>7. S \in [Wasm!Ids -> Wasm!Surfaces \cup {None}]
  <2>1. S = [id \in Wasm!Ids |-> S[id]] OBVIOUS
  <2> HIDE DEF S
  <2> QED BY <1>6, <2>1
<1>8. PICK m : m = IF e.kind = "open" THEN n + 1 ELSE n OBVIOUS
<1>9. m \in 1 .. MaxSurface + 1 BY <1>3, <1>4, <1>8, HostBounds
<1>10. Wasm!Edited(h, e) = [h EXCEPT !.surf = S, !.revision = Wasm!Generation(h, e), !.next = m]
  BY <1>4, <1>8 DEF Wasm!Edited
<1> HIDE DEF S
<1>11. /\ Wasm!Edited(h, e) \in Hosts /\ Wasm!Edited(h, e).surf = S
       /\ Wasm!Edited(h, e).view = h.view
  BY <1>1, <1>2, <1>7, <1>9, <1>10 DEF Hosts
<1>12. \A id \in Wasm!Live(Wasm!Edited(h, e)) : id \in Wasm!Ids /\ S[id] # None BY <1>11,
  LiveFacts
<1> QED BY <1>6, <1>11, <1>12, HostBounds DEF Sound

\* A Present touches some surface, and the main one's new frame is what is pending.
LEMMA CommittedFacts ==
  ASSUME NEW h, Sound(h), NEW e, h.surf[Wasm!Primary].pending = None
  PROVE  /\ Sound(Wasm!Committed(h, e)) /\ Wasm!Committed(h, e).view = h.view
         /\ Wasm!Live(Wasm!Committed(h, e)) = Wasm!Live(h)
         /\ \A id \in Wasm!Live(h) : Wasm!Committed(h, e).surf[id].pressed = h.surf[id].pressed
         /\ Wasm!PresentationUpdated(Wasm!Committed(h, e))
         /\ LET s == Wasm!Committed(h, e).surf[Wasm!Primary]
            IN  \/ s.pending # None /\ s.presented = s.pending
                \/ s.pending = None /\ s.presented = h.surf[Wasm!Primary].presented
<1> DEFINE S == [id \in Wasm!Ids |-> IF id \in Wasm!Redrawn(h)
                               THEN [h.surf[id] EXCEPT !.touched = TRUE, !.presented = Wasm!Shows(h, e, id),
                                                       !.pending = Wasm!Shows(h, e, id)]
                               ELSE h.surf[id]]
<1>1. h \in Hosts /\ Wasm!Primary \in Wasm!Live(h) BY HostBounds, LiveFacts DEF Sound
<1>2. Wasm!Redrawn(h) \subseteq Wasm!Live(h) /\ Wasm!Redrawn(h) # {} BY <1>1 DEF Wasm!Redrawn,
  Wasm!Touched
<1>3. ASSUME NEW id \in Wasm!Redrawn(h)
      PROVE  /\ id \in Wasm!Ids /\ S[id] \in Wasm!Surfaces /\ S[id].touched = TRUE
             /\ S[id].pending # None
             /\ S[id].presented = S[id].pending /\ S[id].pressed = h.surf[id].pressed
  <2>1. id \in Wasm!Ids /\ h.surf[id] \in Wasm!Surfaces BY <1>1, <1>2, LiveFacts
  <2>2. Wasm!Shows(h, e, id) \in Wasm!Frames
    <3>1. h.view \in Snapshots \cup {None} BY <1>1, HostFields
    <3>2. h.surf[id].presented \in Wasm!Frames BY <2>1, SurfaceFields
    <3> QED BY <3>1, <3>2, HostBounds DEF Wasm!Shows, Wasm!Frames
  <2>3. PICK f \in Wasm!Frames : f = Wasm!Shows(h, e, id) BY <2>2
  <2>4. S[id] = [h.surf[id] EXCEPT !.touched = TRUE, !.presented = f, !.pending = f] BY <2>1,
    <2>3
  <2>5. f # None BY HostBounds
  <2> QED BY <2>1, <2>4, <2>5 DEF Wasm!Surfaces
<1>4. \A id \in Wasm!Ids : id \notin Wasm!Redrawn(h) => S[id] = h.surf[id] OBVIOUS
<1>5. S \in [Wasm!Ids -> Wasm!Surfaces \cup {None}]
  <2>1. \A id \in Wasm!Ids : S[id] \in Wasm!Surfaces \cup {None} BY <1>1, <1>3, <1>4, HostFields
  <2>2. S = [id \in Wasm!Ids |-> S[id]] OBVIOUS
  <2> HIDE DEF S
  <2> QED BY <2>1, <2>2
<1>6. Wasm!Committed(h, e) = [h EXCEPT !.surf = S] BY DEF Wasm!Committed
<1> HIDE DEF S
<1>7. Wasm!Committed(h, e) \in Hosts /\ Wasm!Committed(h, e).surf = S
      /\ Wasm!Committed(h, e).view = h.view
  BY <1>1, <1>5, <1>6, WithSurfaces
<1>8. Wasm!Live(Wasm!Committed(h, e)) = Wasm!Live(h)
  <2>1. \A id \in Wasm!Ids : id \in Wasm!Live(h) <=> S[id] # None
    <3>1. \A id \in Wasm!Redrawn(h) : S[id] # None BY <1>3, SurfaceFields
    <3> QED BY <1>1, <1>2, <1>4, <3>1, LiveFacts
  <2> QED BY <1>7, <2>1 DEF Wasm!Live
<1>9. \A id \in Wasm!Live(h) : S[id].pressed = h.surf[id].pressed BY <1>1, <1>3, <1>4, LiveFacts
<1>10. Wasm!PresentationUpdated(Wasm!Committed(h, e))
  <2>1. PICK id \in Wasm!Redrawn(h) : TRUE BY <1>2
  <2>2. id \in Wasm!Live(Wasm!Committed(h, e)) /\ Wasm!Committed(h, e).surf[id].touched
    BY <1>2, <1>3, <1>7, <1>8, <2>1
  <2> QED BY <2>2 DEF Wasm!PresentationUpdated
<1>11. \/ S[Wasm!Primary].pending # None /\ S[Wasm!Primary].presented = S[Wasm!Primary].pending
       \/ S[Wasm!Primary].pending = None /\ S[Wasm!Primary].presented = h.surf[Wasm!Primary].presented
  BY <1>3, <1>4, HostBounds
<1> QED BY <1>1, <1>7, <1>8, <1>9, <1>10, <1>11, LiveFacts, HostBounds DEF Sound

\* A callback: it is rolled back, or what it drew on the main surface is pending.
LEMMA TransactFacts ==
  ASSUME NEW before, Sound(before), NEW seen, Sound(seen),
         Wasm!Live(seen) = Wasm!Live(before), seen.next = before.next, seen.revision = before.revision,
         \A id \in Wasm!Live(before) : seen.surf[id].pressed = before.surf[id].pressed,
         seen.surf[Wasm!Primary].presented = before.surf[Wasm!Primary].presented,
         before.surf[Wasm!Primary].pending = None,
         NEW script \in Wasm!Scripts(before), NEW t, t = Wasm!Transact(before, seen, script)
  PROVE  /\ Sound(t) /\ t.view = IF script.outcome = "present" THEN seen.view ELSE before.view
         /\ \A id \in Wasm!Live(t) : t.surf[id].pressed # None =>
              id \in Wasm!Live(before) /\ t.surf[id].pressed = before.surf[id].pressed
         /\ \/ /\ t.surf[Wasm!Primary].pending # None
               /\ t.surf[Wasm!Primary].presented = t.surf[Wasm!Primary].pending
            \/ /\ t.surf[Wasm!Primary].pending = None
               /\ t.surf[Wasm!Primary].presented = before.surf[Wasm!Primary].presented
         /\ script.outcome = "present" => Wasm!PresentationUpdated(t)
         /\ script.outcome # "present" => t.surf = before.surf
<1>1. PICK e : e = script.edit OBVIOUS
<1>2. e \in Wasm!Edits(before) /\ (e.kind = "layer" => before.revision < MaxGeneration)
  BY <1>1 DEF Wasm!Scripts
<1>3. PICK f : f = Wasm!Fresh(seen) OBVIOUS
<1>4. /\ Sound(f) /\ f.next = seen.next /\ f.view = seen.view /\ f.revision = seen.revision
      /\ Wasm!Live(f) = Wasm!Live(seen)
      /\ \A id \in Wasm!Live(seen) : /\ f.surf[id].presented = seen.surf[id].presented
                                     /\ f.surf[id].pressed = seen.surf[id].pressed
                                     /\ f.surf[id].pending = None
  BY <1>3, FreshFacts
<1>5. e \in Wasm!Edits(f) /\ (e.kind = "layer" => f.revision < MaxGeneration)
  BY <1>2, <1>4 DEF Wasm!Edits
<1>6. PICK g : g = Wasm!Edited(f, e) OBVIOUS
<1>7. /\ Sound(g) /\ g.view = f.view
      /\ \A id \in Wasm!Live(g) : g.surf[id].pressed # None =>
           id \in Wasm!Live(f) /\ g.surf[id].pressed = f.surf[id].pressed
      /\ g.surf[Wasm!Primary].presented = f.surf[Wasm!Primary].presented
      /\ g.surf[Wasm!Primary].pending = f.surf[Wasm!Primary].pending
  BY <1>4, <1>5, <1>6, EditedFacts
<1>8. Wasm!Primary \in Wasm!Live(seen) BY HostBounds, LiveFacts DEF Sound
<1>9. g.surf[Wasm!Primary].pending = None
      /\ g.surf[Wasm!Primary].presented = before.surf[Wasm!Primary].presented
  BY <1>4, <1>7, <1>8
<1>10. \A id \in Wasm!Live(g) : g.surf[id].pressed # None =>
         id \in Wasm!Live(before) /\ g.surf[id].pressed = before.surf[id].pressed
  BY <1>4, <1>7
<1>11. t = IF script.outcome = "present" THEN Wasm!Committed(g, e) ELSE Wasm!RolledBack(before, g)
  BY <1>1, <1>3, <1>6 DEF Wasm!Transact
<1>12. CASE script.outcome = "present"
  <2>1. t = Wasm!Committed(g, e) BY <1>11, <1>12
  <2>2. /\ Sound(t) /\ t.view = g.view /\ Wasm!Live(t) = Wasm!Live(g)
        /\ \A id \in Wasm!Live(g) : t.surf[id].pressed = g.surf[id].pressed
        /\ Wasm!PresentationUpdated(t)
        /\ \/ /\ t.surf[Wasm!Primary].pending # None
              /\ t.surf[Wasm!Primary].presented = t.surf[Wasm!Primary].pending
           \/ /\ t.surf[Wasm!Primary].pending = None
              /\ t.surf[Wasm!Primary].presented = g.surf[Wasm!Primary].presented
    BY <1>7, <1>9, <2>1, CommittedFacts
  <2> QED BY <1>4, <1>7, <1>9, <1>10, <1>12, <2>2
<1>13. CASE script.outcome # "present"
  <2>1. t = [before EXCEPT !.revision = g.revision] BY <1>11, <1>13 DEF Wasm!RolledBack
  <2>2. before \in Hosts /\ g \in Hosts /\ before.surf[Wasm!Primary] # None BY <1>7 DEF Sound
  <2>3. g.revision \in 0 .. MaxGeneration BY <2>2, HostFields
  <2>4. t \in Hosts /\ t.surf = before.surf /\ t.view = before.view BY <2>1, <2>2,
    <2>3 DEF Hosts
  <2>5. Wasm!Live(t) = Wasm!Live(before) BY <2>4 DEF Wasm!Live
  <2>6. Sound(t) BY <2>2, <2>4 DEF Sound
  <2> QED BY <1>13, <2>4, <2>5, <2>6
<1> QED BY <1>12, <1>13

\* One surface is replaced.
LEMMA GivenFacts ==
  ASSUME NEW h, Sound(h), NEW id \in Wasm!Live(h), NEW s \in Wasm!Surfaces, NEW g, g = Wasm!Given(h,
         id, s)
  PROVE  /\ Sound(g) /\ g.next = h.next /\ g.view = h.view /\ g.revision = h.revision
         /\ Wasm!Live(g) = Wasm!Live(h)
         /\ g.surf[id] = s /\ \A k \in Wasm!Ids \ {id} : g.surf[k] = h.surf[k]
<1>1. h \in Hosts /\ id \in Wasm!Ids BY LiveFacts DEF Sound
<1>2. PICK S : S = [h.surf EXCEPT ![id] = s] OBVIOUS
<1>3. h.surf \in [Wasm!Ids -> Wasm!Surfaces \cup {None}] BY <1>1, HostFields
<1>4. /\ S \in [Wasm!Ids -> Wasm!Surfaces \cup {None}] /\ S[id] = s
      /\ \A k \in Wasm!Ids \ {id} : S[k] = h.surf[k]
  BY <1>1, <1>2, <1>3
<1>5. g = [h EXCEPT !.surf = S] BY <1>2 DEF Wasm!Given
<1>6. /\ g \in Hosts /\ g.surf = S /\ g.next = h.next /\ g.view = h.view
      /\ g.revision = h.revision
  BY <1>1, <1>4, <1>5, WithSurfaces
<1>7. s # None BY SurfaceFields
<1>8. Wasm!Live(g) = Wasm!Live(h)
  <2>1. \A k \in Wasm!Ids : S[k] # None <=> h.surf[k] # None BY <1>1, <1>4, <1>7, LiveFacts
  <2> QED BY <1>6, <2>1 DEF Wasm!Live
<1>9. Wasm!Primary \in Wasm!Live(h) BY <1>1, HostBounds, LiveFacts DEF Sound
<1>10. g.surf[Wasm!Primary] # None BY <1>1, <1>4, <1>6, <1>7, <1>9, LiveFacts
<1> QED BY <1>2, <1>4, <1>6, <1>8, <1>10 DEF Sound

\* A change of every live surface that leaves it a surface.
LEMMA EachFacts ==
  ASSUME NEW h, Sound(h), NEW S, DOMAIN S = Wasm!Ids, S = [id \in DOMAIN S |-> S[id]],
         \A id \in Wasm!Live(h) : S[id] \in Wasm!Surfaces,
         \A id \in Wasm!Ids : id \notin Wasm!Live(h) => S[id] = None,
         NEW g, g = [h EXCEPT !.surf = S]
  PROVE  /\ Sound(g) /\ g.surf = S /\ g.next = h.next /\ g.view = h.view
         /\ g.revision = h.revision /\ Wasm!Live(g) = Wasm!Live(h)
<1>1. h \in Hosts BY DEF Sound
<1>2. S \in [Wasm!Ids -> Wasm!Surfaces \cup {None}] OBVIOUS
<1>3. /\ g \in Hosts /\ g.surf = S /\ g.next = h.next /\ g.view = h.view
      /\ g.revision = h.revision
  BY <1>1, <1>2, WithSurfaces
<1>4. \A id \in Wasm!Ids : id \in Wasm!Live(h) <=> S[id] # None BY SurfaceFields
<1>5. Wasm!Live(g) = Wasm!Live(h) BY <1>3, <1>4 DEF Wasm!Live
<1>6. g.surf[Wasm!Primary] # None BY <1>1, <1>3, <1>4, HostBounds, LiveFacts DEF Sound
<1> QED BY <1>3, <1>5, <1>6 DEF Sound

\* A new snapshot lets the presses go.
LEMMA UnpressedFacts ==
  ASSUME NEW h, Sound(h), NEW g, g = Wasm!Unpressed(h)
  PROVE  /\ Sound(g) /\ g.next = h.next /\ g.view = h.view /\ g.revision = h.revision
         /\ Wasm!Live(g) = Wasm!Live(h)
         /\ \A id \in Wasm!Live(h) : /\ g.surf[id].presented = h.surf[id].presented
                                     /\ g.surf[id].pending = h.surf[id].pending
                                     /\ g.surf[id].touched = h.surf[id].touched
                                     /\ g.surf[id].pressed = None
<1> DEFINE S == [id \in Wasm!Ids |-> IF id \in Wasm!Live(h) THEN [h.surf[id] EXCEPT !.pressed = None] ELSE None]
<1>1. ASSUME NEW id \in Wasm!Live(h)
      PROVE  /\ S[id] \in Wasm!Surfaces /\ S[id].presented = h.surf[id].presented
             /\ S[id].pending = h.surf[id].pending /\ S[id].touched = h.surf[id].touched
             /\ S[id].pressed = None
  <2>1. id \in Wasm!Ids /\ h.surf[id] \in Wasm!Surfaces BY LiveFacts DEF Sound
  <2>2. S[id] = [h.surf[id] EXCEPT !.pressed = None] BY <2>1
  <2> QED BY <2>1, <2>2 DEF Wasm!Surfaces
<1>2. DOMAIN S = Wasm!Ids /\ S = [id \in DOMAIN S |-> S[id]]
      /\ \A id \in Wasm!Ids : id \notin Wasm!Live(h) => S[id] = None
  OBVIOUS
<1>3. g = [h EXCEPT !.surf = S] BY DEF Wasm!Unpressed
<1> HIDE DEF S
<1>4. /\ Sound(g) /\ g.surf = S /\ g.next = h.next /\ g.view = h.view
      /\ g.revision = h.revision /\ Wasm!Live(g) = Wasm!Live(h)
  BY <1>1, <1>2, <1>3, EachFacts
<1> QED BY <1>1, <1>4

\* The frames are taken, once.
LEMMA TakenFacts ==
  ASSUME NEW h, Sound(h), NEW g, g = Wasm!Taken(h)
  PROVE  /\ Sound(g) /\ g.view = h.view /\ Wasm!Live(g) = Wasm!Live(h)
         /\ \A id \in Wasm!Live(h) : /\ g.surf[id].presented = h.surf[id].presented
                                     /\ g.surf[id].pending = None
                                     /\ g.surf[id].visible = h.surf[id].visible
                                     /\ g.surf[id].pressed = h.surf[id].pressed
<1> DEFINE S == [id \in Wasm!Ids |-> IF id \in Wasm!Live(h) THEN [h.surf[id] EXCEPT !.pending = None] ELSE None]
<1>1. ASSUME NEW id \in Wasm!Live(h)
      PROVE  /\ S[id] \in Wasm!Surfaces /\ S[id].presented = h.surf[id].presented
             /\ S[id].pending = None /\ S[id].visible = h.surf[id].visible
             /\ S[id].pressed = h.surf[id].pressed
  <2>1. id \in Wasm!Ids /\ h.surf[id] \in Wasm!Surfaces BY LiveFacts DEF Sound
  <2>2. S[id] = [h.surf[id] EXCEPT !.pending = None] BY <2>1
  <2> QED BY <2>1, <2>2 DEF Wasm!Surfaces
<1>2. DOMAIN S = Wasm!Ids /\ S = [id \in DOMAIN S |-> S[id]]
      /\ \A id \in Wasm!Ids : id \notin Wasm!Live(h) => S[id] = None
  OBVIOUS
<1>3. g = [h EXCEPT !.surf = S] BY DEF Wasm!Taken
<1> HIDE DEF S
<1>4. /\ Sound(g) /\ g.surf = S /\ g.view = h.view /\ Wasm!Live(g) = Wasm!Live(h)
  BY <1>1, <1>2, <1>3, EachFacts
<1> QED BY <1>1, <1>4

\* A hidden theme presents nothing.
LEMMA ClearedFacts ==
  ASSUME NEW h, Sound(h), NEW g, g = Wasm!Cleared(h)
  PROVE  /\ Sound(g) /\ Wasm!Live(g) = Wasm!Live(h) /\ g.surf[Wasm!Primary].presented = Blank
         /\ \A id \in Wasm!Live(h) : g.surf[id].pressed = h.surf[id].pressed
<1> DEFINE S == [id \in Wasm!Ids |->
                  IF id \in Wasm!Live(h)
                  THEN [h.surf[id] EXCEPT !.layer = 0, !.presented = Blank, !.pending = Blank,
                                          !.visible = FALSE]
                  ELSE None]
<1>1. ASSUME NEW id \in Wasm!Live(h)
      PROVE  S[id] \in Wasm!Surfaces /\ S[id].presented = Blank /\ S[id].pressed = h.surf[id].pressed
  <2>1. id \in Wasm!Ids /\ h.surf[id] \in Wasm!Surfaces BY LiveFacts DEF Sound
  <2>2. S[id] = [h.surf[id] EXCEPT !.layer = 0, !.presented = Blank, !.pending = Blank,
                                   !.visible = FALSE]
    BY <2>1
  <2>3. 0 \in 0 .. MaxGeneration BY HostBounds
  <2> QED BY <2>1, <2>2, <2>3, HostBounds DEF Wasm!Surfaces
<1>2. DOMAIN S = Wasm!Ids /\ S = [id \in DOMAIN S |-> S[id]]
      /\ \A id \in Wasm!Ids : id \notin Wasm!Live(h) => S[id] = None
  OBVIOUS
<1>3. g = [h EXCEPT !.view = None, !.surf = S] BY DEF Wasm!Cleared
<1> HIDE DEF S
<1>4. PICK k : k = [h EXCEPT !.surf = S] OBVIOUS
<1>5. Sound(k) /\ k.surf = S /\ Wasm!Live(k) = Wasm!Live(h) BY <1>1, <1>2, <1>4, EachFacts
<1>6. k \in Hosts /\ g = [k EXCEPT !.view = None] BY <1>3, <1>4, <1>5 DEF Sound, Hosts
<1>7. g \in Hosts /\ g.surf = S BY <1>5, <1>6 DEF Hosts
<1>8. Wasm!Live(g) = Wasm!Live(h) BY <1>5, <1>7 DEF Wasm!Live
<1>9. Sound(g) BY <1>5, <1>7 DEF Sound
<1>10. Wasm!Primary \in Wasm!Live(h) BY HostBounds, LiveFacts DEF Sound
<1> QED BY <1>1, <1>7, <1>8, <1>9, <1>10

Clicks == [target : Wasm!Targets, view : Snapshots \cup {None}]

\* The press that a surface remembers is the one of the pointer, on the snapshot
\* that is shown.
Remembers(h, p) ==
  \A id \in Wasm!Auxiliary :
    id \in Wasm!Live(h) /\ h.surf[id].pressed # None
      => p[id] = [target |-> h.surf[id].pressed, view |-> h.view]

\* Nothing is shown or pressed.
Idle(h) == h.surf[Wasm!Primary].presented = Blank /\ \A id \in Wasm!Live(h) : h.surf[id].pressed = None

\* Wasm!TypeOK for a host that is a record of these fields.
HostTypes ==
  /\ host \in Hosts /\ host.surf[Wasm!Primary] # None
  /\ content \in Snapshots \cup {None} /\ frame \in Wasm!Frames
  /\ \A id \in Wasm!Auxiliary : windows[id] # None => windows[id] \in Wasm!AuxWindows
  /\ {shown, wake, posted} \subseteq BOOLEAN
  /\ capture \in Wasm!Auxiliary \cup {None}
  /\ error \in {"none", "failed", "panicked"}

HostIInv ==
  /\ HostTypes /\ Wasm!ClickIsGenuine /\ press \in [Wasm!Auxiliary -> Clicks \cup {None}]
  /\ Wasm!Up => /\ frame = host.surf[Wasm!Primary].presented /\ host.surf[Wasm!Primary].pending = None
                /\ Wasm!AuxiliaryFollows /\ Wasm!WakeIsNeeded /\ Remembers(host, press)
                /\ content = None => Idle(host)

\* The invariant says what ThemeHost.Inv asks.
LEMMA HostImplies == HostIInv => Wasm!Inv
<1> SUFFICES ASSUME HostIInv PROVE Wasm!Inv OBVIOUS
<1>1. Wasm!TypeOK BY DEF HostIInv, HostTypes, Hosts, Wasm!TypeOK
<1> QED BY <1>1 DEF HostIInv, Wasm!Inv, Wasm!Up, Wasm!ShowsCommitted, Wasm!AuxiliaryFollows,
  Wasm!WakeIsNeeded

\* A host that starts has its main surface, which shows nothing.
LEMMA StartFacts ==
  /\ Sound(Wasm!Start) /\ Wasm!Start.surf[Wasm!Primary].presented = Blank
  /\ Wasm!Start.surf[Wasm!Primary].pending = None
  /\ \A id \in Wasm!Auxiliary : Wasm!Start.surf[id] = None
  /\ \A id \in Wasm!Live(Wasm!Start) : Wasm!Start.surf[id].pressed = None
<1> DEFINE S == [id \in Wasm!Ids |-> IF id = Wasm!Primary THEN Wasm!NewSurface(id) ELSE None]
<1>1. S \in [Wasm!Ids -> Wasm!Surfaces \cup {None}] BY NewSurfaceFacts
<1>2. S[Wasm!Primary] = Wasm!NewSurface(Wasm!Primary) /\ \A id \in Wasm!Auxiliary : S[id] = None
  BY HostBounds
<1>3. 1 \in 1 .. MaxSurface + 1 /\ 0 \in 0 .. MaxGeneration BY HostBounds
<1>4. Wasm!Start = [surf |-> S, next |-> 1, view |-> None, revision |-> 0] BY DEF Wasm!Start
<1> HIDE DEF S
<1>5. Wasm!Start \in Hosts /\ Wasm!Start.surf = S BY <1>1, <1>3, <1>4 DEF Hosts
<1>6. Wasm!NewSurface(Wasm!Primary) # None BY NewSurfaceFacts, SurfaceFields
<1>7. ASSUME NEW id \in Wasm!Live(Wasm!Start) PROVE Wasm!Start.surf[id].pressed = None
  <2>1. id \in Wasm!Ids /\ S[id] # None BY <1>5 DEF Wasm!Live
  <2>2. id = Wasm!Primary BY <1>2, <2>1 DEF Wasm!Auxiliary
  <2> QED BY <1>2, <1>5, <2>2, NewSurfaceFacts
<1> QED BY <1>2, <1>5, <1>6, <1>7, NewSurfaceFacts DEF Sound

\* Nor has it windows or presses.
LEMMA NoWindowsFacts ==
  /\ Wasm!NoWindows \in [Wasm!Auxiliary -> Clicks \cup {None}]
  /\ \A id \in Wasm!Auxiliary : Wasm!NoWindows[id] = None
BY DEF Wasm!NoWindows

\* The host starts in the invariant.
LEMMA HostInit == Wasm!Init => HostIInv
<1>1. SUFFICES ASSUME Wasm!Init PROVE HostIInv OBVIOUS
<1>2. /\ host = Wasm!Start /\ content = None /\ frame = Blank /\ shown = FALSE
      /\ windows = Wasm!NoWindows /\ wake = FALSE /\ posted = FALSE /\ capture = None
      /\ error = "none" /\ press = Wasm!NoWindows /\ hit = None
  BY <1>1 DEF Wasm!Init
<1>3. HostTypes BY <1>2, StartFacts, NoWindowsFacts, HostBounds DEF HostTypes, Sound
<1>4. Wasm!ClickIsGenuine /\ Wasm!WakeIsNeeded BY <1>2 DEF Wasm!ClickIsGenuine,
  Wasm!WakeIsNeeded
<1>5. Wasm!AuxiliaryFollows BY <1>2, StartFacts, NoWindowsFacts DEF Wasm!AuxiliaryFollows
<1>6. Idle(host) BY <1>2, StartFacts DEF Idle
<1>7. Remembers(host, press) BY <1>2, <1>6 DEF Idle, Remembers
<1>8. press \in [Wasm!Auxiliary -> Clicks \cup {None}] BY <1>2, NoWindowsFacts
<1> QED BY <1>2, <1>3, <1>4, <1>5, <1>6, <1>7, <1>8, StartFacts DEF HostIInv

\* The parts of the state that do not depend on the host.
LEMMA HostFacts ==
  ASSUME HostIInv, Wasm!Up
  PROVE  /\ Sound(host) /\ content \in Snapshots \cup {None} /\ frame \in Wasm!Frames
         /\ (\A id \in Wasm!Auxiliary : windows[id] # None => windows[id] \in Wasm!AuxWindows)
         /\ shown \in BOOLEAN /\ wake \in BOOLEAN /\ posted \in BOOLEAN
         /\ capture \in Wasm!Auxiliary \cup {None}
         /\ frame = host.surf[Wasm!Primary].presented /\ host.surf[Wasm!Primary].pending = None
         /\ Wasm!AuxiliaryFollows /\ Wasm!WakeIsNeeded /\ Remembers(host, press)
         /\ (content = None => Idle(host)) /\ press \in [Wasm!Auxiliary -> Clicks \cup {None}]
BY DEF HostIInv, HostTypes, Sound

\* A step that shows the host h to the windows.
LEMMA Settling ==
  ASSUME HostIInv, Wasm!Up, NEW h, Sound(h), NEW c \in Snapshots \cup {None}, NEW request,
         NEW cap \in Wasm!Auxiliary \cup {None}, Wasm!Settle(h, c, request, cap),
         \/ /\ h.surf[Wasm!Primary].pending # None
            /\ h.surf[Wasm!Primary].presented = h.surf[Wasm!Primary].pending
         \/ h.surf[Wasm!Primary].pending = None /\ h.surf[Wasm!Primary].presented = frame,
         c = None => Idle(h),
         posted' \in BOOLEAN, press' \in [Wasm!Auxiliary -> Clicks \cup {None}],
         Remembers(h, press'), Wasm!ClickIsGenuine'
  PROVE  HostIInv'
<1>1. PICK g : g = Wasm!Taken(h) OBVIOUS
<1>2. /\ Sound(g) /\ g.view = h.view /\ Wasm!Live(g) = Wasm!Live(h)
      /\ \A id \in Wasm!Live(h) : /\ g.surf[id].presented = h.surf[id].presented
                                  /\ g.surf[id].pending = None
                                  /\ g.surf[id].visible = h.surf[id].visible
                                  /\ g.surf[id].pressed = h.surf[id].pressed
  BY <1>1, TakenFacts
<1>3. PICK aux : aux = Wasm!Synced(h, c) OBVIOUS
<1>4. /\ host' = g /\ content' = c
      /\ frame' = (IF Wasm!Pending(h, Wasm!Primary) # None THEN Wasm!Pending(h, Wasm!Primary) ELSE frame)
      /\ windows' = aux /\ shown' = h.surf[Wasm!Primary].visible
      /\ wake' = (Wasm!Merged(h, c, request) /\ h.surf[Wasm!Primary].visible) /\ error' = "none"
      /\ capture' = IF cap \in Wasm!Auxiliary /\ aux[cap] = None THEN None ELSE cap
  BY <1>1, <1>3 DEF Wasm!Settle
<1>5. h \in Hosts /\ g \in Hosts /\ Wasm!Primary \in Wasm!Live(h) /\ Wasm!Primary \in Wasm!Live(g)
      /\ h.surf[Wasm!Primary] \in Wasm!Surfaces
  BY <1>2, HostBounds, LiveFacts DEF Sound
<1>6. frame' = g.surf[Wasm!Primary].presented /\ frame' \in Wasm!Frames
  <2>1. g.surf[Wasm!Primary].presented = h.surf[Wasm!Primary].presented BY <1>2, <1>5
  <2>2. frame' = h.surf[Wasm!Primary].presented BY <1>4 DEF Wasm!Pending
  <2> QED BY <1>5, <2>1, <2>2, SurfaceFields
<1>7. ASSUME NEW id \in Wasm!Auxiliary
      PROVE  /\ (aux[id] = None) = (g.surf[id] = None)
             /\ aux[id] # None => /\ aux[id] \in Wasm!AuxWindows
                                  /\ aux[id].shown = (c # None /\ g.surf[id].visible)
  <2>1. id \in Wasm!Ids BY HostBounds
  <2>2. CASE id \notin Wasm!Live(h)
    <3>1. aux[id] = None BY <1>3, <2>2 DEF Wasm!Synced
    <3>2. g.surf[id] = None BY <1>2, <1>5, <2>1, <2>2, LiveFacts
    <3> QED BY <3>1, <3>2
  <2>3. CASE id \in Wasm!Live(h)
    <3>1. PICK f : f = IF Wasm!Pending(h, id) # None THEN Wasm!Pending(h, id)
                       ELSE IF windows[id] = None THEN Blank ELSE windows[id].frame
      OBVIOUS
    <3>2. aux[id] = [frame |-> f, shown |-> c # None /\ h.surf[id].visible]
      BY <1>3, <2>3, <3>1 DEF Wasm!Synced
    <3>3. h.surf[id] \in Wasm!Surfaces BY <1>5, <2>3, LiveFacts
    <3>4. f \in Wasm!Frames
      <4>1. Wasm!Pending(h, id) \in Wasm!Frames \cup {None} BY <3>3,
        SurfaceFields DEF Wasm!Pending
      <4>2. windows[id] # None => windows[id].frame \in Wasm!Frames
        BY HostFacts DEF Wasm!AuxWindows
      <4> QED BY <3>1, <4>1, <4>2, HostBounds
    <3>5. (c # None /\ h.surf[id].visible) \in BOOLEAN BY <3>3, SurfaceFields
    <3>6. aux[id] \in Wasm!AuxWindows BY <3>2, <3>4, <3>5 DEF Wasm!AuxWindows
    <3>7. aux[id] # None BY <3>6, HostBounds
    <3>8. g.surf[id] # None BY <1>2, <1>5, <2>1, <2>3, LiveFacts
    <3>9. aux[id].shown = (c # None /\ g.surf[id].visible) BY <1>2, <2>3, <3>2
    <3> QED BY <3>6, <3>7, <3>8, <3>9
  <2> QED BY <2>2, <2>3
<1>8. Wasm!AuxiliaryFollows' BY <1>4, <1>7 DEF Wasm!AuxiliaryFollows, Wasm!Auxiliary, Wasm!Ids
<1>9. wake' \in BOOLEAN /\ (wake' => c # None /\ g.surf[Wasm!Primary].visible)
  BY <1>2, <1>4, <1>5, Zenon DEF Wasm!Merged
<1>10. Wasm!WakeIsNeeded' BY <1>4, <1>9 DEF Wasm!WakeIsNeeded
<1>11. shown' \in BOOLEAN BY <1>4, <1>5, SurfaceFields
<1>12. capture' \in Wasm!Auxiliary \cup {None} BY <1>4
<1>13. HostTypes'
  <2>1. host' \in Hosts /\ host'.surf[Wasm!Primary] # None BY <1>2, <1>4 DEF Sound
  <2>2. \A id \in Wasm!Auxiliary : windows'[id] # None => windows'[id] \in Wasm!AuxWindows
    BY <1>4, <1>7
  <2>3. {shown', wake', posted'} \subseteq BOOLEAN BY <1>9, <1>11
  <2>4. content' \in Snapshots \cup {None} /\ error' \in {"none", "failed", "panicked"} BY <1>4
  <2> QED BY <1>6, <1>12, <2>1, <2>2, <2>3, <2>4
    DEF HostTypes, Hosts, Wasm!Ids, Wasm!Surfaces, Wasm!Frames, Wasm!Targets, Wasm!Primary,
    Wasm!Auxiliary, Wasm!AuxWindows
<1>14. Remembers(g, press') BY <1>2 DEF Remembers
<1>15. c = None => Idle(g) BY <1>2, <1>5 DEF Idle
<1>16. Remembers(host', press') /\ (content' = None => Idle(host')) BY <1>4, <1>14, <1>15
<1>17. Remembers(host, press)' /\ (content' = None => Idle(host)')
  BY <1>16 DEF Remembers, Idle, Wasm!Live, Wasm!Auxiliary, Wasm!Ids, Wasm!Primary
<1>18. g.surf[Wasm!Primary].pending = None BY <1>2, <1>5
<1>20. (press \in [Wasm!Auxiliary -> Clicks \cup {None}])'
  BY DEF Wasm!Auxiliary, Wasm!Ids, Wasm!Primary, Clicks, Wasm!Targets
<1>21. frame' = host'.surf[Wasm!Primary].presented /\ host'.surf[Wasm!Primary].pending = None
  BY <1>4, <1>6, <1>18
<1> QED BY <1>8, <1>10, <1>13, <1>17, <1>20, <1>21 DEF HostIInv, Wasm!Up, Wasm!Primary

\* A theme that failed has nothing left.
LEMMA Failing ==
  ASSUME HostIInv, NEW why \in {"failed", "panicked"}, Wasm!Fail(why), posted' \in BOOLEAN,
         press' \in [Wasm!Auxiliary -> Clicks \cup {None}], Wasm!ClickIsGenuine'
  PROVE  HostIInv'
<1>1. /\ error' = why /\ host' = Wasm!Start /\ content' = None /\ frame' = Blank /\ shown' = FALSE
      /\ windows' = Wasm!NoWindows /\ wake' = FALSE /\ capture' = None
  BY DEF Wasm!Fail
<1>2. HostTypes'
  <2>1. host' \in Hosts /\ host'.surf[Wasm!Primary] # None BY <1>1, StartFacts DEF Sound
  <2>2. \A id \in Wasm!Auxiliary : windows'[id] = None BY <1>1, NoWindowsFacts
  <2>3. frame' \in Wasm!Frames BY <1>1, HostBounds
  <2> QED BY <1>1, <2>1, <2>2, <2>3
    DEF HostTypes, Hosts, Wasm!Ids, Wasm!Surfaces, Wasm!Frames, Wasm!Targets, Wasm!Primary,
    Wasm!Auxiliary, Wasm!AuxWindows
<1>3. ~Wasm!Up' BY <1>1 DEF Wasm!Up
<1>4. (press \in [Wasm!Auxiliary -> Clicks \cup {None}])'
  BY DEF Wasm!Auxiliary, Wasm!Ids, Wasm!Primary, Clicks, Wasm!Targets
<1> QED BY <1>2, <1>3, <1>4 DEF HostIInv

\* A callback of the guest on a host that is on the screen as h0 says.
LEMMA Callback ==
  ASSUME NEW h, Sound(h), h.surf[Wasm!Primary].pending = None, h.surf[Wasm!Primary].presented = frame,
         NEW script \in Wasm!Scripts(h), NEW t, t = Wasm!Transact(h, h, script)
  PROVE  /\ Sound(t) /\ t.view = h.view
         /\ \A id \in Wasm!Live(t) : t.surf[id].pressed # None =>
              id \in Wasm!Live(h) /\ t.surf[id].pressed = h.surf[id].pressed
         /\ \/ /\ t.surf[Wasm!Primary].pending # None
               /\ t.surf[Wasm!Primary].presented = t.surf[Wasm!Primary].pending
            \/ t.surf[Wasm!Primary].pending = None /\ t.surf[Wasm!Primary].presented = frame
BY TransactFacts

\* A callback that keeps the snapshot keeps the presses that are left genuine.
LEMMA RemembersStays ==
  ASSUME NEW h, NEW t, NEW p, Remembers(h, p), t.view = h.view,
         \A id \in Wasm!Live(t) : t.surf[id].pressed # None =>
           id \in Wasm!Live(h) /\ t.surf[id].pressed = h.surf[id].pressed
  PROVE  Remembers(t, p)
BY DEF Remembers

\* What a step that leaves the host and the windows alone keeps.
LEMMA Staying ==
  ASSUME HostIInv, Wasm!Up,
         UNCHANGED <<host, content, frame, shown, windows, capture, error, press>>,
         wake' \in BOOLEAN, wake' => wake, posted' \in BOOLEAN, Wasm!ClickIsGenuine'
  PROVE  HostIInv'
<1>1. HostTypes'
  BY HostFacts DEF HostIInv, HostTypes, Hosts, Wasm!Ids, Wasm!Surfaces, Wasm!Frames,
     Wasm!Targets, Wasm!Primary, Wasm!Auxiliary, Wasm!AuxWindows
<1>2. Wasm!AuxiliaryFollows' BY HostFacts DEF Wasm!AuxiliaryFollows, Wasm!Auxiliary, Wasm!Ids,
  Wasm!Primary
<1>3. Wasm!WakeIsNeeded' BY HostFacts DEF Wasm!WakeIsNeeded, Wasm!Primary
<1>4. Remembers(host, press)' BY HostFacts DEF Remembers, Wasm!Live, Wasm!Auxiliary, Wasm!Ids,
  Wasm!Primary
<1>5. content' = None => Idle(host)' BY HostFacts DEF Idle, Wasm!Live, Wasm!Ids, Wasm!Primary
<1>6. (press \in [Wasm!Auxiliary -> Clicks \cup {None}])'
  BY HostFacts DEF Wasm!Auxiliary, Wasm!Ids, Wasm!Primary, Clicks, Wasm!Targets
<1>7. frame' = host'.surf[Wasm!Primary].presented /\ host'.surf[Wasm!Primary].pending = None
  BY HostFacts
<1> QED BY <1>1, <1>2, <1>3, <1>4, <1>5, <1>6, <1>7 DEF HostIInv, Wasm!Primary

\* A step that tells no release clicks nothing.
LEMMA NoHit == hit' = None => Wasm!ClickIsGenuine'
BY DEF Wasm!ClickIsGenuine

\* The steps that call nobody.
LEMMA WaitingSteps ==
  HostIInv /\ (Wasm!RenderSame \/ Wasm!FrameExpires \/ Wasm!FrameIgnored \/ Wasm!EarlyFrame)
      => HostIInv'
<1> SUFFICES ASSUME HostIInv, Wasm!RenderSame \/ Wasm!FrameExpires \/ Wasm!FrameIgnored \/ Wasm!EarlyFrame
             PROVE  HostIInv'
  OBVIOUS
<1>1. /\ Wasm!Up /\ UNCHANGED <<host, content, frame, shown, windows, capture, error, press>>
      /\ hit' = None /\ posted' \in {posted, TRUE, FALSE}
  BY DEF Wasm!RenderSame, Wasm!FrameExpires, Wasm!FrameIgnored, Wasm!EarlyFrame, Wasm!History
<1>2. wake' = wake \/ (wake /\ wake' = (Wasm!AnyVisible(host) /\ content # None))
  BY DEF Wasm!RenderSame, Wasm!FrameExpires, Wasm!FrameIgnored, Wasm!EarlyFrame
<1>3. wake' \in BOOLEAN /\ (wake' => wake)
  <2>1. wake \in BOOLEAN BY <1>1, HostFacts
  <2>2. CASE wake' = wake BY <2>1, <2>2
  <2>3. CASE wake /\ wake' = (Wasm!AnyVisible(host) /\ content # None)
    <3>1. wake' \in BOOLEAN BY <2>3
    <3>2. wake BY <2>3
    <3> QED BY <3>1, <3>2
  <2> QED BY <1>2, <2>2, <2>3
<1>4. posted' \in BOOLEAN BY <1>1, HostFacts
<1> QED BY <1>1, <1>3, <1>4, NoHit, Staying

\* The guest is called on the host as it is: the appearance, or a wake that is due.
LEMMA Called ==
  ASSUME HostIInv, Wasm!Up, content # None, NEW request,
         NEW script \in Wasm!Scripts(host),
         IF script.outcome = "error" THEN Wasm!Fail("failed")
         ELSE Wasm!Settle(Wasm!Transact(host, host, script), content, request, capture),
         posted' \in BOOLEAN, press' = press, hit' = None
  PROVE  HostIInv'
<1>1. press' \in [Wasm!Auxiliary -> Clicks \cup {None}] BY HostFacts
<1>2. CASE script.outcome = "error" BY <1>1, <1>2, NoHit, Failing
<1>3. CASE script.outcome # "error"
  <2>1. PICK h, t, c, cap : h = host /\ t = Wasm!Transact(h, h, script) /\ c = content /\ cap = capture
    OBVIOUS
  <2>2. Wasm!Settle(t, c, request, cap) BY <1>3, <2>1
  <2>3. Sound(h) /\ h.surf[Wasm!Primary].pending = None /\ h.surf[Wasm!Primary].presented = frame
    BY <2>1, HostFacts
  <2>4. script \in Wasm!Scripts(h) BY <2>1
  <2>5. /\ Sound(t) /\ t.view = h.view
        /\ \A id \in Wasm!Live(t) : t.surf[id].pressed # None =>
             id \in Wasm!Live(h) /\ t.surf[id].pressed = h.surf[id].pressed
        /\ \/ /\ t.surf[Wasm!Primary].pending # None
              /\ t.surf[Wasm!Primary].presented = t.surf[Wasm!Primary].pending
           \/ t.surf[Wasm!Primary].pending = None /\ t.surf[Wasm!Primary].presented = frame
    BY <2>1, <2>3, <2>4, Callback
  <2>6. Remembers(h, press) BY <2>1, HostFacts
  <2>7. Remembers(t, press) BY <2>5, <2>6, RemembersStays
  <2>8. Remembers(t, press') BY <2>7
  <2>9. c # None /\ c \in Snapshots \cup {None} /\ cap \in Wasm!Auxiliary \cup {None} BY <2>1,
    HostFacts
  <2> QED BY <1>1, <2>2, <2>5, <2>8, <2>9, NoHit, Settling
<1> QED BY <1>2, <1>3

\* The guest is told of the appearance.
LEMMA RefreshStep == HostIInv /\ Wasm!RefreshAppearance => HostIInv'
<1> SUFFICES ASSUME HostIInv, Wasm!RefreshAppearance PROVE HostIInv' OBVIOUS
<1>1. Wasm!Up /\ press' = press /\ hit' = None /\ posted' = posted /\ posted' \in BOOLEAN
  BY HostFacts DEF Wasm!RefreshAppearance, Wasm!History
<1>2. CASE content = None
  <2>1. PICK h, c, cap : h = host /\ c = content /\ cap = capture OBVIOUS
  <2>2. Wasm!Settle(h, c, "none", cap) BY <1>2, <2>1 DEF Wasm!RefreshAppearance
  <2>3. /\ Sound(h) /\ h.surf[Wasm!Primary].pending = None
        /\ h.surf[Wasm!Primary].presented = frame
        /\ Idle(h) /\ c \in Snapshots \cup {None} /\ cap \in Wasm!Auxiliary \cup {None}
        /\ Remembers(h, press') /\ press' \in [Wasm!Auxiliary -> Clicks \cup {None}]
    BY <1>1, <1>2, <2>1, HostFacts
  <2> QED BY <1>1, <2>2, <2>3, NoHit, Settling
<1>3. CASE content # None
  <2>1. PICK script \in Wasm!Scripts(host) :
          IF script.outcome = "error" THEN Wasm!Fail("failed")
          ELSE Wasm!Settle(Wasm!Transact(host, host, script), content, script.wake, capture)
    BY <1>3 DEF Wasm!RefreshAppearance
  <2> QED BY <1>1, <1>3, <2>1, Called
<1> QED BY <1>2, <1>3

\* The guest is told of the frame it asked for.
LEMMA TickStep == HostIInv /\ Wasm!TickFrame => HostIInv'
<1> SUFFICES ASSUME HostIInv, Wasm!TickFrame PROVE HostIInv' OBVIOUS
<1>1. Wasm!Up /\ press' = press /\ hit' = None /\ posted' = FALSE BY DEF Wasm!TickFrame,
  Wasm!History
<1>2. CASE content = None \/ ~Wasm!AnyVisible(host)
  <2>1. wake' = FALSE /\ UNCHANGED <<host, content, frame, shown, windows, capture, error>>
    BY <1>2 DEF Wasm!TickFrame
  <2> QED BY <1>1, <2>1, NoHit, Staying
<1>3. CASE ~(content = None \/ ~Wasm!AnyVisible(host))
  <2>1. PICK script \in Wasm!Scripts(host) :
          IF script.outcome = "error" THEN Wasm!Fail("failed")
          ELSE Wasm!Settle(Wasm!Transact(host, host, script), content,
                      IF script.wake = "ask" THEN "ask" ELSE "cancel", capture)
    BY <1>3 DEF Wasm!TickFrame
  <2> QED BY <1>1, <1>3, <2>1, Called
<1> QED BY <1>2, <1>3

\* The guest is told that it is hidden, and nothing of it is left on the screen.
LEMMA HostHideStep == HostIInv /\ Wasm!Hide => HostIInv'
<1> SUFFICES ASSUME HostIInv, Wasm!Hide PROVE HostIInv' OBVIOUS
<1>1. PICK script \in Wasm!Scripts(host) :
        /\ host' = Wasm!Taken(IF content = None THEN host
                         ELSE Wasm!Cleared(Wasm!Transact(Wasm!Unpressed(host), Wasm!Unpressed(host), script)))
        /\ windows' = Wasm!Synced(IF content = None THEN host
                             ELSE Wasm!Cleared(Wasm!Transact(Wasm!Unpressed(host), Wasm!Unpressed(host), script)), None)
  BY DEF Wasm!Hide
<1>2. /\ Wasm!Up /\ content' = None /\ frame' = Blank /\ shown' = FALSE /\ wake' = FALSE
      /\ capture' \in {None, capture} /\ press' = Wasm!NoWindows /\ hit' = None
      /\ UNCHANGED <<posted, error>>
  BY DEF Wasm!Hide
<1>3. PICK h : h = IF content = None THEN host
                   ELSE Wasm!Cleared(Wasm!Transact(Wasm!Unpressed(host), Wasm!Unpressed(host), script))
  OBVIOUS
<1>4. Sound(h) /\ Idle(h)
  <2>1. CASE content = None BY <1>2, <1>3, <2>1, HostFacts
  <2>2. CASE content # None
    <3>1. PICK u : u = Wasm!Unpressed(host) OBVIOUS
    <3>2. PICK t : t = Wasm!Transact(u, u, script) OBVIOUS
    <3>3. PICK b : b = host OBVIOUS
    <3>4. /\ Sound(b) /\ b.surf[Wasm!Primary].pending = None
          /\ b.surf[Wasm!Primary].presented = frame
          /\ Wasm!Primary \in Wasm!Live(b)
      BY <1>2, <3>3, HostFacts, HostBounds, LiveFacts DEF Sound
    <3>5. /\ Sound(u) /\ u.next = b.next /\ u.view = b.view /\ u.revision = b.revision
          /\ Wasm!Live(u) = Wasm!Live(b)
          /\ \A id \in Wasm!Live(b) : /\ u.surf[id].presented = b.surf[id].presented
                                      /\ u.surf[id].pending = b.surf[id].pending
                                      /\ u.surf[id].pressed = None
      BY <3>1, <3>3, <3>4, UnpressedFacts
    <3>6. script \in Wasm!Scripts(u)
      <4>1. Wasm!Scripts(u) = Wasm!Scripts(b) BY <3>5 DEF Wasm!Scripts, Wasm!Edits
      <4> QED BY <3>3, <4>1
    <3>7. /\ Sound(t)
          /\ \A id \in Wasm!Live(t) : t.surf[id].pressed # None =>
               id \in Wasm!Live(u) /\ t.surf[id].pressed = u.surf[id].pressed
      BY <3>2, <3>4, <3>5, <3>6, Callback
    <3>8. \A id \in Wasm!Live(t) : t.surf[id].pressed = None BY <3>5, <3>7
    <3>9. h = Wasm!Cleared(t) BY <1>3, <2>2, <3>1, <3>2
    <3>10. /\ Sound(h) /\ Wasm!Live(h) = Wasm!Live(t) /\ h.surf[Wasm!Primary].presented = Blank
           /\ \A id \in Wasm!Live(t) : h.surf[id].pressed = t.surf[id].pressed
      BY <3>7, <3>9, ClearedFacts
    <3> QED BY <3>8, <3>10 DEF Idle
  <2> QED BY <2>1, <2>2
<1>5. PICK g : g = Wasm!Taken(h) OBVIOUS
<1>6. /\ Sound(g) /\ g.view = h.view /\ Wasm!Live(g) = Wasm!Live(h)
      /\ \A id \in Wasm!Live(h) : /\ g.surf[id].presented = h.surf[id].presented
                                  /\ g.surf[id].pending = None
                                  /\ g.surf[id].pressed = h.surf[id].pressed
  BY <1>4, <1>5, TakenFacts
<1>7. h \in Hosts /\ g \in Hosts /\ Wasm!Primary \in Wasm!Live(h) BY <1>4, <1>6, HostBounds,
  LiveFacts DEF Sound
<1>8. Idle(g) /\ g.surf[Wasm!Primary].pending = None BY <1>4, <1>6, <1>7 DEF Idle
<1>9. PICK aux : aux = Wasm!Synced(h, None) OBVIOUS
<1>10. host' = g /\ windows' = aux BY <1>1, <1>3, <1>5, <1>9
<1>11. ASSUME NEW id \in Wasm!Auxiliary
       PROVE  /\ (aux[id] = None) = (g.surf[id] = None)
              /\ aux[id] # None => aux[id] \in Wasm!AuxWindows /\ aux[id].shown = FALSE
  <2>1. id \in Wasm!Ids BY HostBounds
  <2>2. CASE id \notin Wasm!Live(h)
    <3>1. aux[id] = None BY <1>9, <2>2 DEF Wasm!Synced
    <3>2. g.surf[id] = None BY <1>6, <1>7, <2>1, <2>2, LiveFacts
    <3> QED BY <3>1, <3>2
  <2>3. CASE id \in Wasm!Live(h)
    <3>1. PICK f : f = IF Wasm!Pending(h, id) # None THEN Wasm!Pending(h, id)
                       ELSE IF windows[id] = None THEN Blank ELSE windows[id].frame
      OBVIOUS
    <3>2. aux[id] = [frame |-> f, shown |-> FALSE]
      BY <1>9, <2>3, <3>1 DEF Wasm!Synced
    <3>3. h.surf[id] \in Wasm!Surfaces BY <1>7, <2>3, LiveFacts
    <3>4. f \in Wasm!Frames
      <4>1. Wasm!Pending(h, id) \in Wasm!Frames \cup {None} BY <3>3,
        SurfaceFields DEF Wasm!Pending
      <4>2. windows[id] # None => windows[id].frame \in Wasm!Frames BY <1>2,
        HostFacts DEF Wasm!AuxWindows
      <4> QED BY <3>1, <4>1, <4>2, HostBounds
    <3>5. aux[id] \in Wasm!AuxWindows BY <3>2, <3>4 DEF Wasm!AuxWindows
    <3>6. aux[id] # None BY <3>5, HostBounds
    <3>7. g.surf[id] # None BY <1>6, <1>7, <2>1, <2>3, LiveFacts
    <3>8. aux[id].shown = FALSE BY <3>2
    <3> QED BY <3>5, <3>6, <3>7, <3>8
  <2> QED BY <2>2, <2>3
<1>12. Wasm!AuxiliaryFollows' BY <1>2, <1>10, <1>11 DEF Wasm!AuxiliaryFollows, Wasm!Auxiliary,
  Wasm!Ids
<1>13. Wasm!WakeIsNeeded' BY <1>2 DEF Wasm!WakeIsNeeded
<1>14. HostTypes'
  <2>1. host' \in Hosts /\ host'.surf[Wasm!Primary] # None BY <1>6, <1>10 DEF Sound
  <2>2. \A id \in Wasm!Auxiliary : windows'[id] # None => windows'[id] \in Wasm!AuxWindows
    BY <1>10, <1>11
  <2>3. {shown', wake', posted'} \subseteq BOOLEAN BY <1>2, HostFacts
  <2>4. content' \in Snapshots \cup {None} /\ error' \in {"none", "failed", "panicked"}
        /\ frame' \in Wasm!Frames /\ capture' \in Wasm!Auxiliary \cup {None}
    BY <1>2, HostFacts, HostBounds DEF Wasm!Up
  <2> QED BY <2>1, <2>2, <2>3, <2>4
    DEF HostTypes, Hosts, Wasm!Ids, Wasm!Surfaces, Wasm!Frames, Wasm!Targets, Wasm!Primary,
    Wasm!Auxiliary, Wasm!AuxWindows
<1>15. Remembers(g, press') BY <1>8 DEF Idle, Remembers
<1>16. Remembers(host, press)' /\ Idle(host)'
  BY <1>8, <1>10, <1>15 DEF Remembers, Idle, Wasm!Live, Wasm!Auxiliary, Wasm!Ids, Wasm!Primary
<1>17. (press \in [Wasm!Auxiliary -> Clicks \cup {None}])'
  <2>1. press' \in [Wasm!Auxiliary -> Clicks \cup {None}] BY <1>2, NoWindowsFacts
  <2> QED BY <2>1 DEF Wasm!Auxiliary, Wasm!Ids, Wasm!Primary, Clicks, Wasm!Targets
<1>18. frame' = host'.surf[Wasm!Primary].presented /\ host'.surf[Wasm!Primary].pending = None
  BY <1>2, <1>8, <1>10 DEF Idle
<1> QED BY <1>2, <1>12, <1>13, <1>14, <1>16, <1>17, <1>18, NoHit DEF HostIInv, Wasm!Primary

\* The host after the guest was told of the appearance, with the main frame taken.
LEMMA BetweenFacts ==
  ASSUME HostIInv, Wasm!Up, NEW first \in {None} \cup Wasm!Redraws(host),
         NEW b, b = Wasm!Between(first), NEW f, f = Wasm!FrameBetween(first)
  PROVE  /\ Sound(b) /\ b.surf[Wasm!Primary].pending = None /\ b.surf[Wasm!Primary].presented = f
         /\ ~Wasm!PresentationUpdated(b) => b.surf[Wasm!Primary].presented = frame
<1>1. PICK h : h = host OBVIOUS
<1>2. Sound(h) /\ h.surf[Wasm!Primary].pending = None /\ h.surf[Wasm!Primary].presented = frame
  BY <1>1, HostFacts
<1>3. CASE first = None
  BY <1>1, <1>2, <1>3 DEF Wasm!Between, Wasm!FrameBetween, Wasm!FirstCallback
<1>4. CASE first # None
  <2>1. first \in Wasm!Scripts(h) BY <1>1, <1>4 DEF Wasm!Redraws
  <2>2. PICK t : t = Wasm!Transact(h, h, first) OBVIOUS
  <2>3. /\ Sound(t)
        /\ \/ /\ t.surf[Wasm!Primary].pending # None
              /\ t.surf[Wasm!Primary].presented = t.surf[Wasm!Primary].pending
           \/ t.surf[Wasm!Primary].pending = None /\ t.surf[Wasm!Primary].presented = frame
    BY <1>2, <2>1, <2>2, Callback
  <2>4. /\ first.outcome = "present" => Wasm!PresentationUpdated(t)
        /\ first.outcome # "present" => t.surf = h.surf
    BY <1>2, <2>1, <2>2, TransactFacts
  <2>5. t = Wasm!FirstCallback(first) BY <1>1, <1>4, <2>2 DEF Wasm!FirstCallback
  <2>6. f = IF t.surf[Wasm!Primary].pending # None THEN t.surf[Wasm!Primary].pending ELSE frame
    BY <1>4, <2>5 DEF Wasm!FrameBetween, Wasm!Pending
  <2>7. PICK s : s = [t.surf[Wasm!Primary] EXCEPT !.pending = None] OBVIOUS
  <2>8. b = Wasm!Given(t, Wasm!Primary, s) BY <1>4, <2>5, <2>7 DEF Wasm!Between
  <2>9. Wasm!Primary \in Wasm!Live(t) /\ t.surf[Wasm!Primary] \in Wasm!Surfaces
    BY <2>3, HostBounds, LiveFacts DEF Sound
  <2>10. /\ s \in Wasm!Surfaces /\ s.pending = None
         /\ s.presented = t.surf[Wasm!Primary].presented
         /\ s.touched = t.surf[Wasm!Primary].touched
    BY <2>7, <2>9 DEF Wasm!Surfaces
  <2>11. /\ Sound(b) /\ Wasm!Live(b) = Wasm!Live(t) /\ b.surf[Wasm!Primary] = s
         /\ \A k \in Wasm!Ids \ {Wasm!Primary} : b.surf[k] = t.surf[k]
    BY <2>3, <2>8, <2>9, <2>10, GivenFacts
  <2>12. Wasm!PresentationUpdated(t) => Wasm!PresentationUpdated(b)
    BY <2>3, <2>10, <2>11, LiveFacts DEF Wasm!PresentationUpdated, Sound
  <2>13. ~Wasm!PresentationUpdated(b) => t.surf = h.surf BY <2>4, <2>12
  <2> QED BY <1>2, <2>3, <2>6, <2>10, <2>11, <2>13
<1> QED BY <1>3, <1>4

\* The guest sees the new snapshot.
LEMMA SeeingFacts ==
  ASSUME NEW h, Sound(h), NEW v \in Snapshots, NEW g, g = Wasm!Seeing(h, v)
  PROVE  /\ Sound(g) /\ g.next = h.next /\ g.view = v /\ g.revision = h.revision
         /\ Wasm!Live(g) = Wasm!Live(h)
         /\ \A id \in Wasm!Live(h) : /\ g.surf[id].pressed = h.surf[id].pressed
                                     /\ g.surf[id].presented = h.surf[id].presented
<1>1. PICK m : m = [h EXCEPT !.view = v] OBVIOUS
<1>2. h \in Hosts BY DEF Sound
<1>3. /\ m \in Hosts /\ m.surf = h.surf /\ m.next = h.next /\ m.view = v
      /\ m.revision = h.revision
  BY <1>1, <1>2 DEF Hosts
<1>4. Sound(m) /\ Wasm!Live(m) = Wasm!Live(h) BY <1>3 DEF Sound, Wasm!Live
<1>5. Wasm!Primary \in Wasm!Live(m) /\ h.surf[Wasm!Primary] \in Wasm!Surfaces
  BY <1>2, <1>4, HostBounds, LiveFacts DEF Sound
<1>6. PICK s : s = [h.surf[Wasm!Primary] EXCEPT !.visible = TRUE] OBVIOUS
<1>7. /\ s \in Wasm!Surfaces /\ s.pressed = h.surf[Wasm!Primary].pressed
      /\ s.presented = h.surf[Wasm!Primary].presented
  BY <1>5, <1>6 DEF Wasm!Surfaces
<1>8. g = Wasm!Given(m, Wasm!Primary, s) BY <1>1, <1>3, <1>6 DEF Wasm!Seeing
<1>9. /\ Sound(g) /\ g.next = m.next /\ g.view = m.view /\ g.revision = m.revision
      /\ Wasm!Live(g) = Wasm!Live(m) /\ g.surf[Wasm!Primary] = s
      /\ \A k \in Wasm!Ids \ {Wasm!Primary} : g.surf[k] = m.surf[k]
  BY <1>4, <1>5, <1>7, <1>8, GivenFacts
<1> QED BY <1>2, <1>3, <1>4, <1>7, <1>9, LiveFacts

\* The frame that was taken in between is the window's.
LEMMA HandedFacts ==
  ASSUME NEW h, Sound(h), NEW f \in Wasm!Frames,
         \/ /\ h.surf[Wasm!Primary].pending # None
            /\ h.surf[Wasm!Primary].presented = h.surf[Wasm!Primary].pending
         \/ h.surf[Wasm!Primary].pending = None /\ h.surf[Wasm!Primary].presented = f,
         NEW g, g = Wasm!Handed(h, f)
  PROVE  /\ Sound(g) /\ g.view = h.view /\ Wasm!Live(g) = Wasm!Live(h)
         /\ g.surf[Wasm!Primary].presented = h.surf[Wasm!Primary].presented
         /\ \A id \in Wasm!Live(h) : g.surf[id].pressed = h.surf[id].pressed
         /\ \/ /\ g.surf[Wasm!Primary].pending # None
               /\ g.surf[Wasm!Primary].presented = g.surf[Wasm!Primary].pending
            \/ g.surf[Wasm!Primary].pending = None /\ g.surf[Wasm!Primary].presented = frame
<1>1. Wasm!Primary \in Wasm!Live(h) /\ h.surf[Wasm!Primary] \in Wasm!Surfaces BY HostBounds,
  LiveFacts DEF Sound
<1>2. PICK p : p = IF h.surf[Wasm!Primary].pending = None /\ f # frame THEN f ELSE h.surf[Wasm!Primary].pending
  OBVIOUS
<1>3. PICK s : s = [h.surf[Wasm!Primary] EXCEPT !.pending = p] OBVIOUS
<1>4. p \in Wasm!Frames \cup {None} BY <1>1, <1>2, SurfaceFields
<1>5. /\ s \in Wasm!Surfaces /\ s.pending = p /\ s.presented = h.surf[Wasm!Primary].presented
      /\ s.pressed = h.surf[Wasm!Primary].pressed
  BY <1>1, <1>3, <1>4 DEF Wasm!Surfaces
<1>6. g = Wasm!Given(h, Wasm!Primary, s) BY <1>2, <1>3 DEF Wasm!Handed
<1>7. /\ Sound(g) /\ g.view = h.view /\ Wasm!Live(g) = Wasm!Live(h) /\ g.surf[Wasm!Primary] = s
      /\ \A k \in Wasm!Ids \ {Wasm!Primary} : g.surf[k] = h.surf[k]
  BY <1>1, <1>5, <1>6, GivenFacts
<1>8. \/ s.pending # None /\ s.presented = s.pending
      \/ s.pending = None /\ s.presented = frame
  BY <1>2, <1>5, HostBounds
<1> QED BY <1>5, <1>7, <1>8, LiveFacts DEF Sound

\* A new content, with the two callbacks it makes.
LEMMA RenderStep == ASSUME NEW v \in Snapshots, HostIInv, Wasm!Render(v) PROVE HostIInv'
<1>1. Wasm!Up /\ press' = press /\ hit' = None /\ posted' = posted /\ posted' \in BOOLEAN
      /\ press' \in [Wasm!Auxiliary -> Clicks \cup {None}]
  BY HostFacts DEF Wasm!Render, Wasm!History
<1>2. PICK first \in {None} \cup Wasm!Redraws(host) :
        \E script \in Wasm!Scripts(Wasm!Unpressed(Wasm!Between(first))) :
          LET h == Wasm!Rendered(Wasm!Unpressed(Wasm!Between(first)), script, v)
          IN  IF script.outcome = "error" \/ (first # None /\ first.outcome = "error")
              THEN Wasm!Fail("failed")
              ELSE Wasm!Settle(Wasm!Handed(h, Wasm!FrameBetween(first)),
                          IF Wasm!PresentationUpdated(h) THEN v ELSE content,
                          IF script.wake # "none" \/ first = None THEN script.wake ELSE first.wake,
                          capture)
  BY DEF Wasm!Render
<1>12. PICK script \in Wasm!Scripts(Wasm!Unpressed(Wasm!Between(first))) :
        LET h == Wasm!Rendered(Wasm!Unpressed(Wasm!Between(first)), script, v)
        IN  IF script.outcome = "error" \/ (first # None /\ first.outcome = "error")
            THEN Wasm!Fail("failed")
            ELSE Wasm!Settle(Wasm!Handed(h, Wasm!FrameBetween(first)),
                        IF Wasm!PresentationUpdated(h) THEN v ELSE content,
                        IF script.wake # "none" \/ first = None THEN script.wake ELSE first.wake,
                        capture)
  BY <1>2
<1>3. CASE script.outcome = "error" \/ (first # None /\ first.outcome = "error")
  <2>1. Wasm!Fail("failed") BY <1>12, <1>3
  <2> QED BY <1>1, <2>1, NoHit, Failing
<1>4. CASE ~(script.outcome = "error" \/ (first # None /\ first.outcome = "error"))
  <2>1. PICK b, u, f : b = Wasm!Between(first) /\ u = Wasm!Unpressed(b) /\ f = Wasm!FrameBetween(first)
    OBVIOUS
  <2>2. PICK seen, h : seen = Wasm!Seeing(u, v) /\ h = Wasm!Transact(u, seen, script) OBVIOUS
  <2>3. PICK g, c, cap, request :
          /\ g = Wasm!Handed(h, f) /\ c = (IF Wasm!PresentationUpdated(h) THEN v ELSE content)
          /\ cap = capture
          /\ request = IF script.wake # "none" \/ first = None THEN script.wake ELSE first.wake
    OBVIOUS
  <2>4. Wasm!Settle(g, c, request, cap) BY <1>12, <1>4, <2>1, <2>2, <2>3 DEF Wasm!Rendered
  <2>5. /\ Sound(b) /\ b.surf[Wasm!Primary].pending = None /\ b.surf[Wasm!Primary].presented = f
        /\ ~Wasm!PresentationUpdated(b) => b.surf[Wasm!Primary].presented = frame
    BY <1>1, <2>1, BetweenFacts
  <2>6. Wasm!Primary \in Wasm!Live(b) /\ b.surf[Wasm!Primary] \in Wasm!Surfaces
    BY <2>5, HostBounds, LiveFacts DEF Sound
  <2>7. /\ Sound(u) /\ u.next = b.next /\ u.view = b.view /\ u.revision = b.revision
        /\ Wasm!Live(u) = Wasm!Live(b)
        /\ \A id \in Wasm!Live(b) : /\ u.surf[id].presented = b.surf[id].presented
                                    /\ u.surf[id].pending = b.surf[id].pending
                                    /\ u.surf[id].touched = b.surf[id].touched
                                    /\ u.surf[id].pressed = None
    BY <2>1, <2>5, UnpressedFacts
  <2>8. /\ Sound(seen) /\ seen.next = u.next /\ seen.view = v /\ seen.revision = u.revision
        /\ Wasm!Live(seen) = Wasm!Live(u)
        /\ \A id \in Wasm!Live(u) : /\ seen.surf[id].pressed = u.surf[id].pressed
                                    /\ seen.surf[id].presented = u.surf[id].presented
    BY <2>2, <2>7, SeeingFacts
  <2>9. u.surf[Wasm!Primary].pending = None /\ u.surf[Wasm!Primary].presented = f
        /\ seen.surf[Wasm!Primary].presented = u.surf[Wasm!Primary].presented
    BY <2>5, <2>6, <2>7, <2>8
  <2>10. script \in Wasm!Scripts(u) BY <2>1
  <2>11. /\ Sound(h)
         /\ \A id \in Wasm!Live(h) : h.surf[id].pressed # None =>
              id \in Wasm!Live(u) /\ h.surf[id].pressed = u.surf[id].pressed
         /\ \/ /\ h.surf[Wasm!Primary].pending # None
               /\ h.surf[Wasm!Primary].presented = h.surf[Wasm!Primary].pending
            \/ /\ h.surf[Wasm!Primary].pending = None
               /\ h.surf[Wasm!Primary].presented = u.surf[Wasm!Primary].presented
         /\ script.outcome = "present" => Wasm!PresentationUpdated(h)
         /\ script.outcome # "present" => h.surf = u.surf
    BY <2>2, <2>7, <2>8, <2>9, <2>10, TransactFacts
  <2>12. \A id \in Wasm!Live(h) : h.surf[id].pressed = None BY <2>7, <2>11
  <2>13. f \in Wasm!Frames BY <2>5, <2>6, SurfaceFields
  <2>14. /\ Sound(g) /\ g.view = h.view /\ Wasm!Live(g) = Wasm!Live(h)
         /\ g.surf[Wasm!Primary].presented = h.surf[Wasm!Primary].presented
         /\ \A id \in Wasm!Live(h) : g.surf[id].pressed = h.surf[id].pressed
         /\ \/ /\ g.surf[Wasm!Primary].pending # None
               /\ g.surf[Wasm!Primary].presented = g.surf[Wasm!Primary].pending
            \/ g.surf[Wasm!Primary].pending = None /\ g.surf[Wasm!Primary].presented = frame
    BY <2>3, <2>9, <2>11, <2>13, HandedFacts
  <2>15. \A id \in Wasm!Live(g) : g.surf[id].pressed = None BY <2>12, <2>14
  <2>16. Remembers(g, press') BY <2>15 DEF Remembers
  <2>17. c = None => Idle(g)
    <3>1. SUFFICES ASSUME c = None PROVE g.surf[Wasm!Primary].presented = Blank BY <2>15 DEF Idle
    <3>2. ~Wasm!PresentationUpdated(h) /\ content = None BY <2>3, <3>1, HostBounds
    <3>3. h.surf = u.surf BY <2>11, <3>2
    <3>4. Wasm!Live(h) = Wasm!Live(u) BY <3>3 DEF Wasm!Live
    <3>5. ~Wasm!PresentationUpdated(b) BY <2>7, <3>2, <3>3, <3>4 DEF Wasm!PresentationUpdated
    <3>6. frame = Blank BY <1>1, <3>2, HostFacts DEF Idle
    <3> QED BY <2>5, <2>9, <2>14, <3>3, <3>5, <3>6
  <2>18. c \in Snapshots \cup {None} /\ cap \in Wasm!Auxiliary \cup {None} BY <1>1, <2>3, HostFacts
  <2> QED BY <1>1, <2>4, <2>14, <2>16, <2>17, <2>18, NoHit, Settling
<1> QED BY <1>3, <1>4

\* The guest is told of the pointer over the auxiliary surface id, where p is then
\* pressed; what the surface remembers is what the history says.
LEMMA Delivering ==
  ASSUME HostIInv, Wasm!Up, content # None, NEW id \in Wasm!Auxiliary, windows[id] # None,
         NEW p \in Wasm!Targets \cup {None}, NEW last \in Wasm!Auxiliary \cup {None}, Wasm!Deliver(id,
         p, last),
         posted' \in BOOLEAN, press' \in [Wasm!Auxiliary -> Clicks \cup {None}], Wasm!ClickIsGenuine',
         p # None => press'[id] = [target |-> p, view |-> host.view],
         \A k \in Wasm!Auxiliary \ {id} : press'[k] = press[k]
  PROVE  HostIInv'
<1>1. PICK b, c, cap, was : b = host /\ c = content /\ cap = last /\ was = press OBVIOUS
<1>2. /\ Sound(b) /\ b.surf[Wasm!Primary].pending = None /\ b.surf[Wasm!Primary].presented = frame
      /\ Remembers(b, was) /\ c \in Snapshots \cup {None} /\ c # None
      /\ cap \in Wasm!Auxiliary \cup {None}
  BY <1>1, HostFacts
<1>3. id \in Wasm!Ids /\ id # Wasm!Primary /\ b.surf[id] # None
  BY <1>1, HostFacts, HostBounds DEF Wasm!AuxiliaryFollows, Wasm!Up
<1>4. id \in Wasm!Live(b) /\ b.surf[id] \in Wasm!Surfaces /\ Wasm!Primary \in Wasm!Ids
  BY <1>2, <1>3, HostBounds, LiveFacts DEF Sound
<1>5. PICK s : s = [b.surf[id] EXCEPT !.pressed = p] OBVIOUS
<1>6. s \in Wasm!Surfaces /\ s.pressed = p BY <1>4, <1>5 DEF Wasm!Surfaces
<1>7. PICK h : h = Wasm!Given(b, id, s) OBVIOUS
<1>8. /\ Sound(h) /\ h.view = b.view /\ Wasm!Live(h) = Wasm!Live(b) /\ h.surf[id] = s
      /\ \A k \in Wasm!Ids \ {id} : h.surf[k] = b.surf[k]
  BY <1>2, <1>4, <1>6, <1>7, GivenFacts
<1>9. h.surf[Wasm!Primary].pending = None /\ h.surf[Wasm!Primary].presented = frame
  BY <1>2, <1>3, <1>4, <1>8
<1>10. PICK script \in Wasm!Scripts(h) :
         IF script.outcome = "error" THEN Wasm!Fail("failed")
         ELSE Wasm!Settle(Wasm!Transact(h, h, script), c, script.wake, cap)
  BY <1>1, <1>5, <1>7 DEF Wasm!Deliver
<1>11. CASE script.outcome = "error"
  <2>1. Wasm!Fail("failed") BY <1>10, <1>11
  <2> QED BY <2>1, Failing
<1>12. CASE script.outcome # "error"
  <2>1. PICK t, request : t = Wasm!Transact(h, h, script) /\ request = script.wake OBVIOUS
  <2>2. Wasm!Settle(t, c, request, cap) BY <1>10, <1>12, <2>1
  <2>3. /\ Sound(t) /\ t.view = h.view
        /\ \A k \in Wasm!Live(t) : t.surf[k].pressed # None =>
             k \in Wasm!Live(h) /\ t.surf[k].pressed = h.surf[k].pressed
        /\ \/ /\ t.surf[Wasm!Primary].pending # None
              /\ t.surf[Wasm!Primary].presented = t.surf[Wasm!Primary].pending
           \/ t.surf[Wasm!Primary].pending = None /\ t.surf[Wasm!Primary].presented = frame
    BY <1>8, <1>9, <2>1, Callback
  <2>4. PICK q : q = press' OBVIOUS
  <2>5. Remembers(h, q)
    <3>1. SUFFICES ASSUME NEW k \in Wasm!Auxiliary, k \in Wasm!Live(h), h.surf[k].pressed # None
                   PROVE  q[k] = [target |-> h.surf[k].pressed, view |-> h.view]
      BY DEF Remembers
    <3>2. CASE k = id BY <1>1, <1>6, <1>8, <2>4, <3>1, <3>2
    <3>3. CASE k # id
      <4>1. k \in Wasm!Ids /\ h.surf[k] = b.surf[k] /\ k \in Wasm!Live(b) BY <1>8, <3>1, <3>3,
        HostBounds
      <4>2. was[k] = [target |-> b.surf[k].pressed, view |-> b.view]
        BY <1>2, <3>1, <4>1 DEF Remembers
      <4>3. q[k] = was[k] BY <1>1, <2>4, <3>3
      <4> QED BY <1>8, <4>1, <4>2, <4>3
    <3> QED BY <3>2, <3>3
  <2>6. Remembers(t, q) BY <2>3, <2>5, RemembersStays
  <2>7. Remembers(t, press') BY <2>4, <2>6
  <2> QED BY <1>2, <2>2, <2>3, <2>7, Settling
<1> QED BY <1>11, <1>12

\* What is under the pointer is a target that is something.
LEMMA HitsFacts ==
  ASSUME HostIInv, Wasm!Up, NEW id \in Wasm!Auxiliary, windows[id] # None
  PROVE  /\ host.surf[id] \in Wasm!Surfaces /\ id \in Wasm!Live(host)
         /\ Wasm!Hits(id) \subseteq Wasm!Targets
         /\ None \notin Wasm!Hits(id) \cup {Wasm!Nothing}
<1>1. PICK b : b = host OBVIOUS
<1>2. b \in Hosts /\ id \in Wasm!Ids /\ b.surf[id] # None
  BY <1>1, HostFacts, HostBounds DEF Wasm!AuxiliaryFollows, Wasm!Up, Sound
<1>3. id \in Wasm!Live(b) /\ b.surf[id] \in Wasm!Surfaces BY <1>2, LiveFacts
<1>4. b.surf[id].layer \in 0 .. MaxGeneration BY <1>3, SurfaceFields
<1>5. 0 \in 0 .. MaxGeneration BY HostBounds
<1>6. Wasm!Hits(id) \subseteq Wasm!Targets BY <1>1, <1>4, <1>5 DEF Wasm!Hits, Wasm!Targets
<1>7. Wasm!Nothing \in Wasm!Targets BY <1>5 DEF Wasm!Nothing, Wasm!Targets
<1> QED BY <1>1, <1>3, <1>6, <1>7, HostBounds

\* A press as the history keeps it.
LEMMA ClickFacts ==
  ASSUME HostIInv, Wasm!Up, NEW under \in Wasm!Targets
  PROVE  Wasm!Click(under) \in Clicks /\ Wasm!Click(under) = [target |-> under, view |-> host.view]
<1>1. PICK b : b = host OBVIOUS
<1>2. b.view \in Snapshots \cup {None} BY <1>1, HostFacts, HostFields DEF Sound
<1> QED BY <1>1, <1>2 DEF Wasm!Click, Clicks

\* The pointer over the main window.
LEMMA PrimaryStep == HostIInv /\ Wasm!PointerOnPrimary => HostIInv'
<1> SUFFICES ASSUME HostIInv, Wasm!PointerOnPrimary PROVE HostIInv' OBVIOUS
<1>1. Wasm!Up /\ Wasm!Fail("panicked") /\ press' = press /\ hit' = None /\ posted' = posted
  BY DEF Wasm!PointerOnPrimary, Wasm!History
<1>2. posted' \in BOOLEAN /\ press' \in [Wasm!Auxiliary -> Clicks \cup {None}] BY <1>1,
  HostFacts
<1> QED BY <1>1, <1>2, NoHit, Failing

\* A press is remembered by its surface and the history alike.
LEMMA DownStep == ASSUME NEW id \in Wasm!Auxiliary, HostIInv, Wasm!PointerDown(id) PROVE HostIInv'
<1>1. Wasm!Up /\ windows[id] # None /\ content # None /\ hit' = None /\ posted' = posted
  BY DEF Wasm!PointerDown, Wasm!Reached
<1>2. PICK under \in Wasm!Hits(id) : press' = [press EXCEPT ![id] = Wasm!Click(under)]
      /\ Wasm!Deliver(id, under, id)
  BY DEF Wasm!PointerDown
<1>3. under \in Wasm!Targets BY <1>1, HitsFacts
<1>4. Wasm!Click(under) \in Clicks /\ Wasm!Click(under) = [target |-> under, view |-> host.view]
  BY <1>1, <1>3, ClickFacts
<1>5. press \in [Wasm!Auxiliary -> Clicks \cup {None}] /\ posted' \in BOOLEAN BY <1>1, HostFacts
<1>6. PICK click \in Clicks : click = Wasm!Click(under) BY <1>4
<1>7. press' \in [Wasm!Auxiliary -> Clicks \cup {None}] /\ press'[id] = click
      /\ \A k \in Wasm!Auxiliary \ {id} : press'[k] = press[k]
  BY <1>2, <1>5, <1>6
<1>8. press'[id] = [target |-> under, view |-> host.view] BY <1>4, <1>6, <1>7
<1> QED BY <1>1, <1>2, <1>3, <1>5, <1>7, <1>8, NoHit, Delivering

\* A movement presses nothing.
LEMMA MoveStep == ASSUME NEW id \in Wasm!Auxiliary, HostIInv, Wasm!PointerMove(id) PROVE HostIInv'
<1>1. /\ Wasm!Up /\ windows[id] # None /\ content # None /\ hit' = None /\ press' = press
      /\ posted' = posted /\ Wasm!Deliver(id, host.surf[id].pressed, capture)
  BY DEF Wasm!PointerMove, Wasm!Reached, Wasm!History
<1>2. PICK p \in Wasm!Targets \cup {None} : p = host.surf[id].pressed
  BY <1>1, HitsFacts, SurfaceFields
<1>3. /\ press' \in [Wasm!Auxiliary -> Clicks \cup {None}] /\ posted' \in BOOLEAN
      /\ capture \in Wasm!Auxiliary \cup {None} /\ Remembers(host, press)
  BY <1>1, HostFacts
<1>4. p # None => press'[id] = [target |-> p, view |-> host.view]
  BY <1>1, <1>2, <1>3, HitsFacts DEF Remembers
<1>5. \A k \in Wasm!Auxiliary \ {id} : press'[k] = press[k] BY <1>1
<1>6. Wasm!Deliver(id, p, capture) BY <1>1, <1>2
<1> QED BY <1>1, <1>3, <1>4, <1>5, <1>6, NoHit, Delivering

\* The press is let go.
LEMMA EndsStep == ASSUME NEW id \in Wasm!Auxiliary, HostIInv, Wasm!PointerEnds(id) PROVE HostIInv'
<1>1. /\ Wasm!Up /\ windows[id] # None /\ content # None /\ hit' = None
      /\ press' = [press EXCEPT ![id] = None]
      /\ posted' = posted /\ Wasm!Deliver(id, None, None)
  BY DEF Wasm!PointerEnds, Wasm!Reached
<1>2. press \in [Wasm!Auxiliary -> Clicks \cup {None}] /\ posted' \in BOOLEAN BY <1>1, HostFacts
<1>3. press' \in [Wasm!Auxiliary -> Clicks \cup {None}]
      /\ \A k \in Wasm!Auxiliary \ {id} : press'[k] = press[k]
  BY <1>1, <1>2
<1> QED BY <1>1, <1>2, <1>3, NoHit, Delivering

\* A release is told with its region only on the target that its surface remembers.
LEMMA UpStep == ASSUME NEW id \in Wasm!Auxiliary, HostIInv, Wasm!PointerUp(id) PROVE HostIInv'
<1>1. /\ Wasm!Up /\ windows[id] # None /\ content # None
      /\ press' = [press EXCEPT ![id] = None] /\ posted' = posted
      /\ IF capture = id THEN Wasm!Fail("panicked") ELSE Wasm!Deliver(id, None, capture)
  BY DEF Wasm!PointerUp, Wasm!Reached
<1>2. PICK under \in Wasm!Hits(id) \cup {Wasm!Nothing} :
        hit' = IF Wasm!Released(id, under) = Wasm!Nothing THEN None
               ELSE [press |-> press[id], click |-> Wasm!Click(under)]
  BY DEF Wasm!PointerUp
<1>3. /\ press \in [Wasm!Auxiliary -> Clicks \cup {None}] /\ posted' \in BOOLEAN
      /\ capture \in Wasm!Auxiliary \cup {None} /\ Remembers(host, press)
  BY <1>1, HostFacts
<1>4. press' \in [Wasm!Auxiliary -> Clicks \cup {None}]
      /\ \A k \in Wasm!Auxiliary \ {id} : press'[k] = press[k]
  BY <1>1, <1>3
<1>5. Wasm!ClickIsGenuine'
  <2>1. CASE Wasm!Released(id, under) = Wasm!Nothing
    <3>1. hit' = None BY <1>2, <2>1
    <3> QED BY <3>1, NoHit
  <2>2. CASE Wasm!Released(id, under) # Wasm!Nothing
    <3>1. host.surf[id].pressed = under BY <2>2 DEF Wasm!Released
    <3>2. under # None /\ id \in Wasm!Live(host) BY <1>1, HitsFacts
    <3>3. press[id] = [target |-> under, view |-> host.view] BY <1>3, <3>1, <3>2 DEF Remembers
    <3>4. press[id] = Wasm!Click(under) BY <3>3 DEF Wasm!Click
    <3>5. hit' = [press |-> press[id], click |-> press[id]] BY <1>2, <2>2, <3>4
    <3>6. hit'.press = hit'.click BY <3>5
    <3> QED BY <3>6 DEF Wasm!ClickIsGenuine
  <2> QED BY <2>1, <2>2
<1>6. CASE capture = id
  <2>1. Wasm!Fail("panicked") BY <1>1, <1>6
  <2> QED BY <1>3, <1>4, <1>5, <2>1, Failing
<1>7. CASE capture # id
  <2>1. Wasm!Deliver(id, None, capture) BY <1>1, <1>7
  <2> QED BY <1>1, <1>3, <1>4, <1>5, <2>1, Delivering
<1> QED BY <1>6, <1>7

\* Every step of the host keeps the invariant.
LEMMA HostStep == HostIInv /\ [Wasm!Next]_Wasm!vars => HostIInv'
<1> SUFFICES ASSUME HostIInv, [Wasm!Next]_Wasm!vars PROVE HostIInv' OBVIOUS
<1>1. CASE UNCHANGED Wasm!vars
  <2>1. UNCHANGED <<host, content, frame, shown, windows, wake, posted, capture, error, press, hit>>
    BY <1>1 DEF Wasm!vars
  <2>2. Wasm!ClickIsGenuine' BY <2>1 DEF HostIInv, Wasm!ClickIsGenuine
  <2>3. CASE Wasm!Up
    <3>1. wake' \in BOOLEAN /\ (wake' => wake) /\ posted' \in BOOLEAN BY <2>1, <2>3, HostFacts
    <3> QED BY <2>1, <2>2, <2>3, <3>1, Staying
  <2>4. CASE ~Wasm!Up
    <3>1. ~Wasm!Up' BY <2>1, <2>4 DEF Wasm!Up
    <3>2. HostTypes'
      BY <2>1 DEF HostIInv, HostTypes, Hosts, Wasm!Ids, Wasm!Surfaces, Wasm!Frames,
         Wasm!Targets, Wasm!Primary, Wasm!Auxiliary, Wasm!AuxWindows
    <3>3. (press \in [Wasm!Auxiliary -> Clicks \cup {None}])'
      BY <2>1 DEF HostIInv, Wasm!Auxiliary, Wasm!Ids, Wasm!Primary, Clicks, Wasm!Targets
    <3> QED BY <2>2, <3>1, <3>2, <3>3 DEF HostIInv
  <2> QED BY <2>3, <2>4
<1>2. CASE Wasm!RenderSame \/ Wasm!FrameExpires \/ Wasm!FrameIgnored \/ Wasm!EarlyFrame
  BY <1>2, WaitingSteps
<1>3. CASE Wasm!Hide BY <1>3, HostHideStep
<1>4. CASE Wasm!RefreshAppearance BY <1>4, RefreshStep
<1>5. CASE \E v \in Snapshots : Wasm!Render(v) BY <1>5, RenderStep
<1>6. CASE Wasm!TickFrame BY <1>6, TickStep
<1>7. CASE Wasm!PointerOnPrimary BY <1>7, PrimaryStep
<1>8. ASSUME NEW id \in Wasm!Auxiliary,
             Wasm!PointerDown(id) \/ Wasm!PointerUp(id) \/ Wasm!PointerMove(id) \/ Wasm!PointerEnds(id)
      PROVE  HostIInv'
  BY <1>8, DownStep, UpStep, MoveStep, EndsStep
<1> QED BY <1>1, <1>2, <1>3, <1>4, <1>5, <1>6, <1>7, <1>8 DEF Wasm!Next

-----------------------------------------------------------------------------
(* The compositor of the WASM themes.                                      *)

\* What the compositor assumes of its sizes.
LEMMA DrawConstants == Drawing!CompositorAssumption
BY ConstantsAreRight DEF ThemesAssumption

\* A frame names its resource, because a handle is never given twice.
FrameTypes == [handle : Drawing!Handles \cup {None}, resource : Drawing!Resources \cup {None}]
NamesOwn(f) == f \in FrameTypes /\ f.resource = f.handle

CanvasTypes == [presenter : BOOLEAN, scale : Scales, last : FrameTypes \cup {None},
                panel : Scales \cup {None}, bitmaps : [Drawing!Handles -> Drawing!Resources \cup {None}]]
SurfaceTypes == [frame : Drawing!Resources \cup {None}, scale : Scales \cup {None}]
TreeTypes == [generation : 0 .. MaxLayer, visual : 0 .. MaxLayer]
RecoveryTypes == [failures : 0 .. DrawingRetries, waiting : BOOLEAN, retry : BOOLEAN, posted : BOOLEAN]
WorkTypes == [canvas : CanvasTypes, surface : SurfaceTypes, tree : TreeTypes,
              recovery : RecoveryTypes, failed : BOOLEAN, faults : 0 .. DrawingFaults]

\* The wait has its timer.
Timed(r, f) == r.waiting => r.retry \/ f

\* Bitmaps are those of their handles, and what is on the surface is the frame on record.
PictureIs(c, s) ==
  /\ c.last # None => NamesOwn(c.last)
  /\ \A h \in Drawing!Handles : c.bitmaps[h] \in {None, h}
  /\ c.last # None /\ s # Drawing!NewSurface => s.frame = c.last.resource

\* The work in hand: its picture is right, the visual is its layer's own, and a wait is
\* timed.
WorkIs(n) ==
  /\ n \in WorkTypes
  /\ PictureIs(n.canvas, n.surface)
  /\ n.tree.visual = n.tree.generation
  /\ Timed(n.recovery, n.failed)

\* From n to m, on the way to a frame f at a scale: no frame but those that are held is
\* kept, and no scale but those two.
Leads(n, m, f, at) ==
  /\ WorkIs(m)
  /\ m.canvas.last \in {None, n.canvas.last, f}
  /\ m.canvas.scale \in {n.canvas.scale, at}

DrawIInv ==
  /\ Drawing!TypeOK /\ Drawing!QuotaHolds /\ Drawing!DrawnOrDue
  /\ \A h \in Drawing!Handles : table[h] \in {None, h}
  /\ NamesOwn(commands) /\ WorkIs(Drawing!Now) /\ canvas.scale = scale

\* The work in hand is what the variables hold.
LEMMA NowFacts ==
  /\ Drawing!Now.canvas = canvas /\ Drawing!Now.surface = surface /\ Drawing!Now.tree = tree
  /\ Drawing!Now.recovery = recovery /\ Drawing!Now.failed = failed /\ Drawing!Now.faults = faults
BY DEF Drawing!Now

\* The invariant says what is asked of the drawing.
LEMMA DrawImplies ==
  DrawIInv => Drawing!PicturesAreOwn /\ Drawing!WaitIsTimed /\ Drawing!DrawnOrDue
<1> SUFFICES ASSUME DrawIInv
             PROVE Drawing!PicturesAreOwn /\ Drawing!WaitIsTimed /\ Drawing!DrawnOrDue
  OBVIOUS
<1>1. PictureIs(canvas, surface) /\ tree.visual = tree.generation /\ Timed(recovery, failed)
  BY NowFacts DEF DrawIInv, WorkIs
<1> QED BY <1>1 DEF DrawIInv, PictureIs, Timed, Drawing!PicturesAreOwn,
  Drawing!DrawsItsResource, Drawing!VisualIsItsOwn, Drawing!WaitIsTimed

\* The bounds are numbers, and the marks are not resources.
LEMMA DrawSizes ==
  /\ None \notin Scales /\ None \notin Drawing!Handles /\ MaxMade \in Nat /\ Quota \in Nat
  /\ MaxLayer \in Nat /\ DrawingRetries \in Nat /\ DrawingFaults \in Nat
BY DrawConstants DEF Drawing!CompositorAssumption, Drawing!Handles

\* The library's Cardinality, as the instance of Compositor sees it.
LEMMA DrawingCardinality == \A S : Drawing!Cardinality(S) = Cardinality(S)
<1>1. ASSUME NEW S PROVE Drawing!IsFiniteSet(S) = IsFiniteSet(S)
  BY DEF Drawing!IsFiniteSet, IsFiniteSet
<1>2. ASSUME NEW S PROVE Drawing!Cardinality(S) = Cardinality(S)
  BY <1>1 DEF Drawing!Cardinality, Cardinality
<1> QED BY <1>2

\* The types of the work in hand.
LEMMA WorkFacts ==
  ASSUME NEW n, WorkIs(n)
  PROVE  /\ n.canvas \in CanvasTypes /\ n.tree \in TreeTypes /\ n.surface \in SurfaceTypes
         /\ n.recovery \in RecoveryTypes /\ n.failed \in BOOLEAN /\ n.faults \in 0 .. DrawingFaults
         /\ n.canvas.bitmaps \in [Drawing!Handles -> Drawing!Resources \cup {None}]
         /\ n.canvas.last \in FrameTypes \cup {None} /\ n.canvas.scale \in Scales
         /\ PictureIs(n.canvas, n.surface) /\ n.tree.visual = n.tree.generation
         /\ Timed(n.recovery, n.failed)
BY DEF WorkIs, WorkTypes, CanvasTypes

\* The work in hand with another canvas, surface and tree.
With(n, c, s, t) == [canvas |-> c, surface |-> s, tree |-> t,
                     recovery |-> n.recovery, failed |-> n.failed, faults |-> n.faults]

LEMMA WorkIsRecord ==
  ASSUME NEW n, WorkIs(n)
  PROVE  n = With(n, n.canvas, n.surface, n.tree)
BY DEF WorkIs, WorkTypes, With

LEMMA WithParts ==
  ASSUME NEW n, NEW c, NEW s, NEW t
  PROVE  /\ With(n, c, s, t).canvas = c /\ With(n, c, s, t).surface = s /\ With(n, c, s, t).tree = t
         /\ With(n, c, s, t).recovery = n.recovery /\ With(n, c, s, t).failed = n.failed
         /\ With(n, c, s, t).faults = n.faults
BY DEF With

LEMMA WithSurface ==
  ASSUME NEW n, NEW c, NEW s, NEW t, NEW x
  PROVE  [With(n, c, s, t) EXCEPT !.surface = x] = With(n, c, x, t)
<1>1. PICK m : m = With(n, c, s, t) OBVIOUS
<1>2. m = [canvas |-> m.canvas, surface |-> m.surface, tree |-> m.tree,
           recovery |-> m.recovery, failed |-> m.failed, faults |-> m.faults]
  BY <1>1 DEF With
<1>3. [m EXCEPT !.surface = x] = [canvas |-> m.canvas, surface |-> x, tree |-> m.tree,
           recovery |-> m.recovery, failed |-> m.failed, faults |-> m.faults]
  BY <1>2
<1> QED BY <1>1, <1>3, WithParts DEF With

LEMMA WithTree ==
  ASSUME NEW n, NEW c, NEW s, NEW t, NEW x
  PROVE  [With(n, c, s, t) EXCEPT !.tree = x] = With(n, c, s, x)
<1>1. PICK m : m = With(n, c, s, t) OBVIOUS
<1>2. m = [canvas |-> m.canvas, surface |-> m.surface, tree |-> m.tree,
           recovery |-> m.recovery, failed |-> m.failed, faults |-> m.faults]
  BY <1>1 DEF With
<1>3. [m EXCEPT !.tree = x] = [canvas |-> m.canvas, surface |-> m.surface, tree |-> x,
           recovery |-> m.recovery, failed |-> m.failed, faults |-> m.faults]
  BY <1>2
<1> QED BY <1>1, <1>3, WithParts DEF With

\* The updates of the compositor, as such work.
LEMMA OtherCanvas ==
  ASSUME NEW n, WorkIs(n), NEW c
  PROVE  [n EXCEPT !.canvas = c] = With(n, c, n.surface, n.tree)
<1>1. n = [canvas |-> n.canvas, surface |-> n.surface, tree |-> n.tree,
           recovery |-> n.recovery, failed |-> n.failed, faults |-> n.faults]
  BY WorkIsRecord DEF With
<1> QED BY <1>1 DEF With

LEMMA OtherTree ==
  ASSUME NEW n, WorkIs(n), NEW t
  PROVE  [n EXCEPT !.tree = t] = With(n, n.canvas, n.surface, t)
<1>1. n = [canvas |-> n.canvas, surface |-> n.surface, tree |-> n.tree,
           recovery |-> n.recovery, failed |-> n.failed, faults |-> n.faults]
  BY WorkIsRecord DEF With
<1> QED BY <1>1 DEF With

LEMMA OtherSurface ==
  ASSUME NEW n, WorkIs(n), NEW c, NEW s
  PROVE  [n EXCEPT !.canvas = c, !.surface = s] = With(n, c, s, n.tree)
<1>1. PICK m : m = [n EXCEPT !.canvas = c] OBVIOUS
<1>2. m = With(n, c, n.surface, n.tree) BY <1>1, OtherCanvas
<1>3. [With(n, c, n.surface, n.tree) EXCEPT !.surface = s] = With(n, c, s, n.tree) BY WithSurface
<1>4. [n EXCEPT !.canvas = c, !.surface = s] = [m EXCEPT !.surface = s] BY <1>1
<1> QED BY <1>2, <1>3, <1>4

LEMMA NothingDrawn ==
  ASSUME NEW n, WorkIs(n), NEW c
  PROVE  Drawing!Emptied(n, c) = With(n, c, Drawing!NewSurface, Drawing!Bare)
<1>1. PICK s, t : s = Drawing!NewSurface /\ t = Drawing!Bare OBVIOUS
<1>2. PICK m : m = [n EXCEPT !.canvas = c, !.surface = s] OBVIOUS
<1>3. m = With(n, c, s, n.tree) BY <1>2, OtherSurface
<1>4. [With(n, c, s, n.tree) EXCEPT !.tree = t] = With(n, c, s, t) BY WithTree
<1>5. [n EXCEPT !.canvas = c, !.surface = s, !.tree = t] = [m EXCEPT !.tree = t] BY <1>2
<1>6. Drawing!Emptied(n, c) = [n EXCEPT !.canvas = c, !.surface = s, !.tree = t]
  BY <1>1 DEF Drawing!Emptied
<1> QED BY <1>1, <1>3, <1>4, <1>5, <1>6

\* Work with another canvas, surface and tree is sound when they are.
LEMMA Redrawn ==
  ASSUME NEW n, WorkIs(n), NEW c \in CanvasTypes, NEW s \in SurfaceTypes, NEW t \in TreeTypes,
         PictureIs(c, s), t.visual = t.generation
  PROVE  WorkIs(With(n, c, s, t))
<1>1. With(n, c, s, t) \in WorkTypes BY WorkFacts DEF WorkTypes, With
<1> QED BY <1>1, WithParts, WorkFacts DEF WorkIs

\* Nothing is drawn on a surface that is new, or by a canvas that is.
LEMMA NewParts ==
  /\ Drawing!NewSurface \in SurfaceTypes
  /\ Drawing!Bare \in TreeTypes /\ Drawing!Bare.visual = Drawing!Bare.generation
BY DrawSizes DEF Drawing!NewSurface, Drawing!Bare, SurfaceTypes, TreeTypes

LEMMA GoneCanvas ==
  ASSUME NEW at \in Scales
  PROVE  /\ Drawing!NoCanvas(at) \in CanvasTypes /\ Drawing!NoCanvas(at).last = None
         /\ Drawing!NoCanvas(at).scale = at
         /\ \A s : PictureIs(Drawing!NoCanvas(at), s)
BY DEF Drawing!NoCanvas, CanvasTypes, PictureIs

LEMMA NewCanvas ==
  ASSUME NEW at \in Scales, NEW b \in BOOLEAN
  PROVE  LET c == [Drawing!NoCanvas(at) EXCEPT !.presenter = b]
         IN  c \in CanvasTypes /\ c.last = None /\ c.scale = at /\ \A s : PictureIs(c, s)
<1> DEFINE c == [Drawing!NoCanvas(at) EXCEPT !.presenter = b]
<1>1. c \in CanvasTypes /\ c.last = None /\ c.scale = at /\ c.bitmaps = Drawing!NoCanvas(at).bitmaps
  BY DEF Drawing!NoCanvas, CanvasTypes
<1>2. \A h \in Drawing!Handles : Drawing!NoCanvas(at).bitmaps[h] \in {None, h}
  BY DEF Drawing!NoCanvas
<1> HIDE DEF c
<1> QED BY <1>1, <1>2 DEF PictureIs, c

\* A picture whose frame is kept or forgotten stays right.
LEMMA StillPicture ==
  ASSUME NEW n, WorkIs(n), NEW c, NEW s,
         s = n.surface \/ s = Drawing!NewSurface,
         c.last = n.canvas.last \/ c.last = None, c.bitmaps = n.canvas.bitmaps
  PROVE  PictureIs(c, s) /\ s \in SurfaceTypes
BY WorkFacts, NewParts DEF PictureIs

\* Making the target keeps the work sound.
LEMMA TargetedLeads ==
  ASSUME NEW n, WorkIs(n), NEW f, NEW at \in Scales
  PROVE  Leads(n, Drawing!Targeted(n, at), f, at)
<1>1. CASE n.canvas.presenter
  <2>1. PICK c : c = [n.canvas EXCEPT !.scale = at] OBVIOUS
  <2>2. Drawing!Targeted(n, at) = [n EXCEPT !.canvas = [n.canvas EXCEPT !.scale = at]]
    BY <1>1 DEF Drawing!Targeted
  <2>3. Drawing!Targeted(n, at) = With(n, c, n.surface, n.tree) BY <2>1, <2>2, OtherCanvas
  <2>4. c \in CanvasTypes /\ c.last = n.canvas.last /\ c.bitmaps = n.canvas.bitmaps /\ c.scale = at
    BY <2>1, WorkFacts DEF CanvasTypes
  <2>5. PictureIs(c, n.surface) BY <2>4, StillPicture
  <2>6. WorkIs(With(n, c, n.surface, n.tree)) BY <2>4, <2>5, WorkFacts, Redrawn
  <2> QED BY <2>3, <2>4, <2>6, WithParts DEF Leads
<1>2. CASE ~n.canvas.presenter
  <2>1. PICK c : c = [Drawing!NoCanvas(at) EXCEPT !.presenter = TRUE] OBVIOUS
  <2>5. Drawing!Targeted(n, at) = With(n, c, Drawing!NewSurface, Drawing!Bare)
    BY <1>2, <2>1, NothingDrawn DEF Drawing!Targeted
  <2>3. c \in CanvasTypes /\ c.last = None /\ c.scale = at /\ PictureIs(c, Drawing!NewSurface)
    BY <2>1, NewCanvas
  <2>4. WorkIs(With(n, c, Drawing!NewSurface, Drawing!Bare)) BY <2>3, NewParts, Redrawn
  <2> QED BY <2>3, <2>4, <2>5, WithParts DEF Leads
<1> QED BY <1>1, <1>2

\* Fitting the panel keeps the work sound.
LEMMA PanelledLeads ==
  ASSUME NEW n, WorkIs(n), NEW f, NEW at \in Scales
  PROVE  Leads(n, Drawing!Panelled(n, at), f, at)
<1>1. PICK l : l = IF n.canvas.scale # at THEN None ELSE n.canvas.last OBVIOUS
<1>2. PICK s : s = IF n.canvas.panel # at THEN Drawing!NewSurface ELSE n.surface OBVIOUS
<1>3. PICK c : c = [n.canvas EXCEPT !.last = l, !.panel = at] OBVIOUS
<1>4. c \in CanvasTypes /\ c.last = l /\ c.bitmaps = n.canvas.bitmaps /\ c.scale = n.canvas.scale
  BY <1>1, <1>3, WorkFacts DEF CanvasTypes
<1>5. Drawing!Panelled(n, at) = With(n, c, s, n.tree)
  <2>1. PICK b : b = [n.canvas EXCEPT !.last = l] OBVIOUS
  <2>2. [n EXCEPT !.canvas.last = l] = With(n, b, n.surface, n.tree) BY <2>1, OtherCanvas
  <2>3. Drawing!Panelled(n, at) = Drawing!Sized(With(n, b, n.surface, n.tree), at)
    BY <1>1, <2>2 DEF Drawing!Panelled
  <2>4. b.panel = n.canvas.panel /\ [b EXCEPT !.panel = at] = c
    BY <1>3, <2>1, WorkFacts DEF CanvasTypes
  <2>5. Drawing!Sized(With(n, b, n.surface, n.tree), at)
          = With(n, [b EXCEPT !.panel = at], IF b.panel # at THEN Drawing!NewSurface ELSE n.surface, n.tree)
    <3>1. PICK w : w = With(n, b, n.surface, n.tree) OBVIOUS
    <3>2. WorkIs(w)
      <4>1. b \in CanvasTypes /\ b.last = l /\ b.bitmaps = n.canvas.bitmaps
        BY <1>1, <2>1, WorkFacts DEF CanvasTypes
      <4>2. PictureIs(b, n.surface) BY <1>1, <4>1, StillPicture
      <4> QED BY <3>1, <4>1, <4>2, WorkFacts, Redrawn
    <3>3. w.canvas = b /\ w.surface = n.surface /\ w.tree = n.tree BY <3>1, WithParts
    <3>4. PICK e : e = [b EXCEPT !.panel = at] OBVIOUS
    <3>5. PICK x : x = IF b.panel # at THEN Drawing!NewSurface ELSE n.surface OBVIOUS
    <3>6. Drawing!Sized(w, at) = [w EXCEPT !.canvas = e, !.surface = x]
      BY <3>3, <3>4, <3>5 DEF Drawing!Sized
    <3>7. [w EXCEPT !.canvas = e, !.surface = x] = With(w, e, x, w.tree) BY <3>2, OtherSurface
    <3>8. With(w, e, x, w.tree) = With(n, e, x, n.tree) BY <3>1, WithParts DEF With
    <3> QED BY <3>1, <3>4, <3>5, <3>6, <3>7, <3>8
  <2> QED BY <1>2, <2>3, <2>4, <2>5
<1>6. PictureIs(c, s) /\ s \in SurfaceTypes BY <1>1, <1>2, <1>4, StillPicture
<1>7. WorkIs(With(n, c, s, n.tree)) BY <1>4, <1>6, WorkFacts, Redrawn
<1> QED BY <1>1, <1>4, <1>5, <1>7, WithParts DEF Leads

\* A change of the scale keeps the work sound, and forgets a frame of another scale.
LEMMA ResizedLeads ==
  ASSUME NEW n, WorkIs(n), NEW to \in Scales, NEW m, m = Drawing!Resized(n, to)
  PROVE  /\ WorkIs(m) /\ m.canvas.scale = to /\ m.canvas.last \in {None, n.canvas.last}
         /\ n.canvas.scale = to => m.canvas.last = n.canvas.last
         /\ m.tree = n.tree /\ m.recovery = n.recovery /\ m.failed = n.failed /\ m.faults = n.faults
<1>1. PICK l : l = IF n.canvas.scale # to THEN None ELSE n.canvas.last OBVIOUS
<1>2. PICK c : c = [n.canvas EXCEPT !.last = l, !.scale = to] OBVIOUS
<1>3. m = [n EXCEPT !.canvas.last = l, !.canvas.scale = to] BY <1>1 DEF Drawing!Resized
<1>4. m = With(n, c, n.surface, n.tree)
  <2>1. [n EXCEPT !.canvas.last = l, !.canvas.scale = to] = [n EXCEPT !.canvas = c]
    BY <1>2, WorkFacts DEF CanvasTypes, WorkIs, WorkTypes
  <2> QED BY <1>3, <2>1, OtherCanvas
<1>5. c \in CanvasTypes /\ c.last = l /\ c.bitmaps = n.canvas.bitmaps /\ c.scale = to
  BY <1>1, <1>2, WorkFacts DEF CanvasTypes
<1>6. PictureIs(c, n.surface) BY <1>1, <1>5, StillPicture
<1>7. WorkIs(With(n, c, n.surface, n.tree)) BY <1>5, <1>6, WorkFacts, Redrawn
<1> QED BY <1>1, <1>4, <1>5, <1>7, WithParts

\* Leading on.
LEMMA LeadsOn ==
  ASSUME NEW n, NEW m, NEW k, NEW f, NEW at, Leads(n, m, f, at), Leads(m, k, f, at)
  PROVE  Leads(n, k, f, at)
BY DEF Leads

\* The bitmaps a frame is drawn with are those of their handles, its own among them.
LEMMA BitmapFacts ==
  ASSUME NEW c \in CanvasTypes, \A h \in Drawing!Handles : c.bitmaps[h] \in {None, h},
         NEW f, NamesOwn(f), NEW b, b = Drawing!Bitmaps(c, f)
  PROVE  /\ b \in [Drawing!Handles -> Drawing!Resources \cup {None}]
         /\ \A h \in Drawing!Handles : b[h] \in {None, h}
         /\ f.handle # None => b[f.handle] = f.resource
<1>1. PICK kept : kept = [h \in Drawing!Handles |->
        IF c.bitmaps[h] \in Drawing!Holding(f, c.last) THEN c.bitmaps[h] ELSE None]
  OBVIOUS
<1>2. c.bitmaps \in [Drawing!Handles -> Drawing!Resources \cup {None}] BY DEF CanvasTypes
<1>3. /\ kept \in [Drawing!Handles -> Drawing!Resources \cup {None}]
      /\ \A h \in Drawing!Handles : kept[h] \in {None, h}
  BY <1>1, <1>2
<1>4. b = IF f.handle = None \/ kept[f.handle] # None THEN kept
          ELSE [kept EXCEPT ![f.handle] = f.resource]
  BY <1>1 DEF Drawing!Bitmaps
<1>5. f.handle \in Drawing!Handles \cup {None} /\ f.resource \in Drawing!Resources \cup {None}
      /\ f.resource = f.handle
  BY DEF NamesOwn, FrameTypes
<1>6. CASE f.handle = None BY <1>3, <1>4, <1>6
<1>7. CASE f.handle # None /\ kept[f.handle] # None BY <1>3, <1>4, <1>5, <1>7
<1>8. CASE f.handle # None /\ kept[f.handle] = None BY <1>3, <1>4, <1>5, <1>8
<1> QED BY <1>6, <1>7, <1>8

\* A replay keeps the work sound, and puts the frame on record.
LEMMA ReplayedLeads ==
  ASSUME NEW n, WorkIs(n), NEW f, NamesOwn(f), NEW at \in Scales,
         NEW m, m = Drawing!Replayed(n, f, at)
  PROVE  Leads(n, m, f, at) /\ m.canvas.last = f
<1>1. CASE n.canvas.last = f
  <2>1. m = n BY <1>1 DEF Drawing!Replayed
  <2> QED BY <1>1, <2>1 DEF Leads
<1>2. CASE n.canvas.last # f
  <2>1. PICK b : b = Drawing!Bitmaps(n.canvas, f) OBVIOUS
  <2>2. /\ b \in [Drawing!Handles -> Drawing!Resources \cup {None}]
        /\ \A h \in Drawing!Handles : b[h] \in {None, h}
        /\ f.handle # None => b[f.handle] = f.resource
    <3>1. n.canvas \in CanvasTypes /\ \A h \in Drawing!Handles : n.canvas.bitmaps[h] \in {None, h}
      BY WorkFacts DEF PictureIs
    <3> QED BY <2>1, <3>1, BitmapFacts
  <2>3. PICK s : s = [frame |-> IF f.handle = None THEN None ELSE b[f.handle], scale |-> at] OBVIOUS
  <2>4. PICK c : c = [n.canvas EXCEPT !.last = f, !.bitmaps = b] OBVIOUS
  <2>5. m = With(n, c, s, n.tree)
    <3>1. m = [n EXCEPT !.canvas.last = f, !.canvas.bitmaps = b, !.surface = s]
      BY <1>2, <2>1, <2>3 DEF Drawing!Replayed
    <3>2. PICK w : w = [n EXCEPT !.canvas.last = f, !.canvas.bitmaps = b] OBVIOUS
    <3>3. w = [n EXCEPT !.canvas = c]
      BY <2>4, <3>2, WorkFacts DEF CanvasTypes, WorkIs, WorkTypes
    <3>4. w = With(n, c, n.surface, n.tree) BY <3>3, OtherCanvas
    <3>5. m = [w EXCEPT !.surface = s] BY <3>1, <3>2
    <3>6. [With(n, c, n.surface, n.tree) EXCEPT !.surface = s] = With(n, c, s, n.tree) BY WithSurface
    <3> QED BY <3>4, <3>5, <3>6
  <2>6. f \in FrameTypes /\ f.resource = f.handle /\ f.handle \in Drawing!Handles \cup {None}
    BY DEF NamesOwn, FrameTypes
  <2>7. c \in CanvasTypes /\ c.last = f /\ c.bitmaps = b /\ c.scale = n.canvas.scale
    BY <2>2, <2>4, <2>6, WorkFacts DEF CanvasTypes
  <2>8. s.frame = f.resource /\ s \in SurfaceTypes
    <3>1. CASE f.handle = None BY <2>3, <2>6, <3>1 DEF SurfaceTypes
    <3>2. CASE f.handle # None BY <2>2, <2>3, <2>6, <3>2 DEF SurfaceTypes, FrameTypes
    <3> QED BY <3>1, <3>2
  <2>9. PictureIs(c, s) BY <2>2, <2>7, <2>8 DEF PictureIs
  <2>10. WorkIs(With(n, c, s, n.tree)) BY <2>7, <2>8, <2>9, WorkFacts, Redrawn
  <2> QED BY <2>5, <2>7, <2>10, WithParts DEF Leads
<1> QED BY <1>1, <1>2

\* Setting the layer keeps the work sound, and shows its generation.
LEMMA LayeredLeads ==
  ASSUME NEW n, WorkIs(n), NEW l \in 0 .. MaxLayer, NEW f, NEW at,
         NEW m, m = Drawing!Layered(n, l)
  PROVE  Leads(n, m, f, at) /\ m.canvas = n.canvas /\ m.tree.generation = l
<1>1. PICK t : t = IF l = 0 THEN Drawing!Bare ELSE IF n.tree.generation = l THEN n.tree
                   ELSE [generation |-> l, visual |-> l]
  OBVIOUS
<1>2. m = With(n, n.canvas, n.surface, t)
  <2>1. m = [n EXCEPT !.tree = t] BY <1>1 DEF Drawing!Layered
  <2> QED BY <2>1, OtherTree
<1>3. t \in TreeTypes /\ t.visual = t.generation /\ t.generation = l
  <2>1. CASE l = 0 BY <1>1, <2>1, NewParts DEF Drawing!Bare
  <2>2. CASE l # 0 /\ n.tree.generation = l BY <1>1, <2>2, WorkFacts
  <2>3. CASE l # 0 /\ n.tree.generation # l BY <1>1, <2>3 DEF TreeTypes
  <2> QED BY <2>1, <2>2, <2>3
<1>4. WorkIs(With(n, n.canvas, n.surface, t)) BY <1>3, WorkFacts, Redrawn
<1> QED BY <1>2, <1>3, <1>4, WithParts DEF Leads

\* A painting keeps the work sound, and leaves the frame and the layer drawn.
LEMMA PaintedLeads ==
  ASSUME NEW n, WorkIs(n), NEW f, NamesOwn(f), NEW l \in 0 .. MaxLayer, NEW at \in Scales,
         NEW m, m = Drawing!Painted(n, f, l, at)
  PROVE  Leads(n, m, f, at) /\ m.canvas.last = f /\ m.tree.generation = l
<1>1. PICK a : a = Drawing!Targeted(n, at) OBVIOUS
<1>2. PICK b : b = Drawing!Panelled(a, at) OBVIOUS
<1>3. PICK c : c = Drawing!Replayed(b, f, at) OBVIOUS
<1>4. m = Drawing!Layered(c, l) BY <1>1, <1>2, <1>3 DEF Drawing!Painted
<1>5. Leads(n, a, f, at) BY <1>1, TargetedLeads
<1>6. Leads(a, b, f, at)
  <2>1. WorkIs(a) BY <1>5 DEF Leads
  <2> QED BY <1>2, <2>1, PanelledLeads
<1>7. Leads(b, c, f, at) /\ c.canvas.last = f
  <2>1. WorkIs(b) BY <1>6 DEF Leads
  <2> QED BY <1>3, <2>1, ReplayedLeads
<1>8. Leads(c, m, f, at) /\ m.canvas = c.canvas /\ m.tree.generation = l
  <2>1. WorkIs(c) BY <1>7 DEF Leads
  <2> QED BY <1>4, <2>1, LayeredLeads
<1>9. Leads(n, m, f, at) BY <1>5, <1>6, <1>7, <1>8, LeadsOn
<1> QED BY <1>7, <1>8, <1>9

\* Work that ended otherwise is sound when its wait is timed.
LEMMA Ended ==
  ASSUME NEW n, WorkIs(n), NEW r \in RecoveryTypes, NEW e \in BOOLEAN, NEW k \in 0 .. DrawingFaults,
         Timed(r, e),
         NEW m, m = [canvas |-> n.canvas, surface |-> n.surface, tree |-> n.tree,
                     recovery |-> r, failed |-> e, faults |-> k]
  PROVE  WorkIs(m)
<1>1. m \in WorkTypes BY WorkFacts DEF WorkTypes
<1> QED BY <1>1, WorkFacts DEF WorkIs

LEMMA SucceededKeeps ==
  ASSUME NEW n, WorkIs(n), NEW m, m = Drawing!Succeeded(n)
  PROVE  WorkIs(m) /\ m.canvas = n.canvas /\ m.tree = n.tree
<1>1. PICK r : r = [n.recovery EXCEPT !.failures = 0, !.waiting = FALSE] OBVIOUS
<1>2. r \in RecoveryTypes /\ ~r.waiting
  <2>1. n.recovery \in RecoveryTypes /\ 0 \in 0 .. DrawingRetries BY WorkFacts, DrawSizes
  <2> QED BY <1>1, <2>1 DEF RecoveryTypes
<1>3. m = [canvas |-> n.canvas, surface |-> n.surface, tree |-> n.tree,
           recovery |-> r, failed |-> n.failed, faults |-> n.faults]
  <2>1. m = [n EXCEPT !.recovery = r]
    BY <1>1, WorkFacts DEF Drawing!Succeeded, RecoveryTypes, WorkIs, WorkTypes
  <2>2. n = [canvas |-> n.canvas, surface |-> n.surface, tree |-> n.tree,
             recovery |-> n.recovery, failed |-> n.failed, faults |-> n.faults]
    BY WorkIsRecord DEF With
  <2> QED BY <2>1, <2>2
<1>4. Timed(r, n.failed) BY <1>2 DEF Timed
<1> QED BY <1>2, <1>3, <1>4, WorkFacts, Ended

LEMMA FailsKeeps ==
  ASSUME NEW n, WorkIs(n), NEW m \in Drawing!Fails(n)
  PROVE  WorkIs(m) /\ m.canvas = n.canvas /\ m.failed
<1>1. n.faults < DrawingFaults /\ m = [n EXCEPT !.failed = TRUE, !.faults = n.faults + 1]
  BY DEF Drawing!Fails
<1>2. m = [canvas |-> n.canvas, surface |-> n.surface, tree |-> n.tree,
           recovery |-> n.recovery, failed |-> TRUE, faults |-> n.faults + 1]
  <2>1. n = [canvas |-> n.canvas, surface |-> n.surface, tree |-> n.tree,
             recovery |-> n.recovery, failed |-> n.failed, faults |-> n.faults]
    BY WorkIsRecord DEF With
  <2>2. PICK e, k : e = TRUE /\ k = n.faults + 1 OBVIOUS
  <2>3. PICK w : w = [n EXCEPT !.failed = e] OBVIOUS
  <2>4. w = [canvas |-> n.canvas, surface |-> n.surface, tree |-> n.tree,
             recovery |-> n.recovery, failed |-> e, faults |-> n.faults]
    BY <2>1, <2>3
  <2>5. m = [w EXCEPT !.faults = k] BY <1>1, <2>2, <2>3
  <2>6. [w EXCEPT !.faults = k] = [canvas |-> n.canvas, surface |-> n.surface, tree |-> n.tree,
             recovery |-> n.recovery, failed |-> e, faults |-> k]
    BY <2>4
  <2> QED BY <2>2, <2>5, <2>6
<1>3. n.faults + 1 \in 0 .. DrawingFaults
  <2>1. n.faults \in 0 .. DrawingFaults BY WorkFacts
  <2> QED BY <1>1, <2>1, DrawSizes
<1>4. Timed(n.recovery, TRUE) BY DEF Timed
<1> QED BY <1>2, <1>3, <1>4, WorkFacts, Ended

\* A failure of the graphics leaves nothing drawn, and a wait or an error.
LEMMA GraphicsErrorLeads ==
  ASSUME NEW n, WorkIs(n), NEW m \in Drawing!GraphicsError(n)
  PROVE  /\ WorkIs(m) /\ m.canvas.last = None /\ m.canvas.scale = n.canvas.scale
         /\ m.failed \/ m.recovery.waiting
<1>1. PICK at : at = n.canvas.scale OBVIOUS
<1>2. PICK g : g = With(n, Drawing!NoCanvas(at), Drawing!NewSurface, Drawing!Bare) OBVIOUS
<1>3. at \in Scales BY <1>1, WorkFacts
<1>4. WorkIs(g) BY <1>2, <1>3, GoneCanvas, NewParts, Redrawn
<1>5. g.canvas.last = None /\ g.canvas.scale = n.canvas.scale
  BY <1>1, <1>2, <1>3, WithParts, GoneCanvas
<1>6. g = Drawing!Emptied(n, Drawing!NoCanvas(n.canvas.scale)) BY <1>1, <1>2, NothingDrawn
<1>7. \/ m \in Drawing!Fails(g)
      \/ /\ n.faults < DrawingFaults /\ n.recovery.failures < DrawingRetries
         /\ m = [g EXCEPT !.recovery = Drawing!Waiting(g.recovery), !.faults = g.faults + 1]
  BY <1>6 DEF Drawing!GraphicsError
<1>8. CASE m \in Drawing!Fails(g) BY <1>4, <1>5, <1>8, FailsKeeps
<1>9. CASE /\ n.faults < DrawingFaults /\ n.recovery.failures < DrawingRetries
           /\ m = [g EXCEPT !.recovery = Drawing!Waiting(g.recovery), !.faults = g.faults + 1]
  <2>1. PICK r, k : r = Drawing!Waiting(g.recovery) /\ k = g.faults + 1 OBVIOUS
  <2>2. g.recovery = n.recovery /\ g.faults = n.faults BY <1>2, WithParts
  <2>3. k \in 0 .. DrawingFaults
    <3>1. n.faults \in 0 .. DrawingFaults BY WorkFacts
    <3> QED BY <1>9, <2>1, <2>2, <3>1, DrawSizes
  <2>4. r \in RecoveryTypes /\ r.waiting /\ r.retry
    <3>1. n.recovery \in RecoveryTypes /\ n.recovery.failures \in 0 .. DrawingRetries
      BY WorkFacts DEF RecoveryTypes
    <3>2. n.recovery.failures + 1 \in 0 .. DrawingRetries BY <1>9, <3>1, DrawSizes
    <3>3. r = [n.recovery EXCEPT !.failures = n.recovery.failures + 1, !.waiting = TRUE, !.retry = TRUE]
      BY <2>1, <2>2 DEF Drawing!Waiting
    <3> QED BY <3>1, <3>2, <3>3 DEF RecoveryTypes
  <2>5. m = [canvas |-> g.canvas, surface |-> g.surface, tree |-> g.tree,
             recovery |-> r, failed |-> g.failed, faults |-> k]
    <3>1. g = [canvas |-> g.canvas, surface |-> g.surface, tree |-> g.tree,
               recovery |-> g.recovery, failed |-> g.failed, faults |-> g.faults]
      BY <1>4, WorkIsRecord DEF With
    <3>2. PICK w : w = [g EXCEPT !.recovery = r] OBVIOUS
    <3>3. w = [canvas |-> g.canvas, surface |-> g.surface, tree |-> g.tree,
               recovery |-> r, failed |-> g.failed, faults |-> g.faults]
      BY <3>1, <3>2
    <3>4. m = [w EXCEPT !.faults = k] BY <1>9, <2>1, <3>2
    <3> QED BY <3>3, <3>4
  <2>6. Timed(r, g.failed) BY <2>4 DEF Timed
  <2>7. WorkIs(m) BY <1>4, <2>3, <2>4, <2>5, <2>6, WorkFacts, Ended
  <2> QED BY <1>5, <2>4, <2>5, <2>7
<1> QED BY <1>7, <1>8, <1>9

\* A painting that may fail leads to the frame and the layer, to a wait or to an error.
LEMMA PaintingLeads ==
  ASSUME NEW n, WorkIs(n), NEW f, NamesOwn(f), NEW l \in 0 .. MaxLayer, NEW at \in Scales,
         NEW m \in Drawing!Painting(n, f, l, at)
  PROVE  /\ Leads(n, m, f, at)
         /\ m.failed \/ m.recovery.waiting \/ (m.canvas.last = f /\ m.tree.generation = l)
<1>1. CASE m = Drawing!Succeeded(Drawing!Painted(n, f, l, at))
  <2>1. PICK p : p = Drawing!Painted(n, f, l, at) OBVIOUS
  <2>2. Leads(n, p, f, at) /\ p.canvas.last = f /\ p.tree.generation = l BY <2>1, PaintedLeads
  <2>3. WorkIs(m) /\ m.canvas = p.canvas /\ m.tree = p.tree
    <3>1. WorkIs(p) BY <2>2 DEF Leads
    <3> QED BY <1>1, <2>1, <3>1, SucceededKeeps
  <2> QED BY <2>2, <2>3 DEF Leads
<1>2. CASE m \in Drawing!GraphicsError(n) BY <1>2, GraphicsErrorLeads DEF Leads
<1> QED BY <1>1, <1>2 DEF Drawing!Painting

\* Clearing the layers leads to work without them, or fails.
LEMMA ClearingLeads ==
  ASSUME NEW n, WorkIs(n), NEW f, NEW at, NEW m \in Drawing!Clearing(n)
  PROVE  Leads(n, m, f, at)
<1>1. CASE m = [n EXCEPT !.tree = Drawing!Bare]
  <2>1. PICK t : t = Drawing!Bare OBVIOUS
  <2>2. m = With(n, n.canvas, n.surface, t) BY <1>1, <2>1, OtherTree
  <2>3. WorkIs(With(n, n.canvas, n.surface, t)) BY <2>1, NewParts, WorkFacts, Redrawn
  <2> QED BY <2>2, <2>3, WithParts DEF Leads
<1>2. CASE m \in Drawing!GraphicsError(n) BY <1>2, GraphicsErrorLeads DEF Leads
<1>3. CASE m \in Drawing!Fails(n) BY <1>3, FailsKeeps DEF Leads
<1> QED BY <1>1, <1>2, <1>3 DEF Drawing!Clearing

\* A new size leads to the scale, and to what was drawn, a wait or an error.
LEMMA ResizingLeads ==
  ASSUME NEW n, WorkIs(n), NEW to \in Scales, NEW m \in Drawing!Resizing(n, to)
  PROVE  /\ WorkIs(m) /\ m.canvas.scale = to /\ m.canvas.last \in {None, n.canvas.last}
         /\ \/ m.failed \/ m.recovery.waiting
            \/ /\ n.canvas.scale = to => m.canvas.last = n.canvas.last
               /\ m.tree = n.tree /\ m.recovery = n.recovery /\ m.failed = n.failed
<1>1. PICK r : r = Drawing!Resized(n, to) OBVIOUS
<1>2. /\ WorkIs(r) /\ r.canvas.scale = to /\ r.canvas.last \in {None, n.canvas.last}
      /\ n.canvas.scale = to => r.canvas.last = n.canvas.last
      /\ r.tree = n.tree /\ r.recovery = n.recovery /\ r.failed = n.failed
  BY <1>1, ResizedLeads
<1>3. m = r \/ m \in Drawing!GraphicsError(r) BY <1>1 DEF Drawing!Resizing
<1>4. CASE m = r BY <1>2, <1>4
<1>5. CASE m \in Drawing!GraphicsError(r) BY <1>2, <1>5, GraphicsErrorLeads
<1> QED BY <1>3, <1>4, <1>5

\* Bringing the window up to a Present leads to its frame.
LEMMA SyncingLeads ==
  ASSUME NEW n, WorkIs(n), NEW f, NamesOwn(f), NEW l \in 0 .. MaxLayer, NEW v \in BOOLEAN,
         NEW at \in Scales, NEW m \in Drawing!Syncing(n, f, l, v, at)
  PROVE  Leads(n, m, f, at)
<1>1. CASE m \in Drawing!Clearing(n) BY <1>1, ClearingLeads
<1>2. CASE m \in Drawing!Painting(n, f, l, at) BY <1>2, PaintingLeads
<1>3. CASE m = n BY <1>3 DEF Leads
<1> QED BY <1>1, <1>2, <1>3 DEF Drawing!Syncing

\* The work that is put in place is the work in hand of the next state.
LEMMA PutIsNow ==
  ASSUME NEW n, WorkIs(n), Drawing!Put(n)
  PROVE  /\ WorkIs(Drawing!Now)' /\ canvas' = n.canvas /\ tree' = n.tree
         /\ recovery' = n.recovery /\ failed' = n.failed
<1>1. Drawing!Now' = n BY WorkIsRecord DEF Drawing!Put, Drawing!Now, With
<1>2. canvas' = n.canvas /\ tree' = n.tree /\ recovery' = n.recovery /\ failed' = n.failed
  BY DEF Drawing!Put
<1>3. WorkIs(Drawing!Now)' <=> WorkIs(Drawing!Now')
  BY DEF WorkIs, WorkTypes, CanvasTypes, SurfaceTypes, TreeTypes, RecoveryTypes, PictureIs, Timed,
     NamesOwn, FrameTypes, Drawing!NewSurface, Drawing!Handles, Drawing!Resources
<1> QED BY <1>1, <1>2, <1>3

\* What the invariant says, part by part.
LEMMA DrawFacts ==
  ASSUME DrawIInv
  PROVE  /\ WorkIs(Drawing!Now) /\ NamesOwn(commands) /\ canvas.scale = scale
         /\ \A h \in Drawing!Handles : table[h] \in {None, h}
         /\ Drawing!TypeOK /\ Drawing!QuotaHolds /\ Drawing!DrawnOrDue
BY DEF DrawIInv

\* The types, part by part.
LEMMA TypesNow ==
  ASSUME DrawIInv
  PROVE  /\ auxiliary \in BOOLEAN /\ onScreen \in BOOLEAN /\ dueDrawing \in BOOLEAN
         /\ table \in [Drawing!Handles -> Drawing!Resources \cup {None}] /\ made \in 0 .. MaxMade
         /\ scene \in 0 .. MaxLayer /\ revision \in 0 .. MaxLayer /\ scale \in Scales
BY DEF DrawIInv, Drawing!TypeOK

\* The resources that are alive are finitely many.
LEMMA AliveWithin ==
  ASSUME DrawIInv
  PROVE  Drawing!Alive \subseteq Drawing!Handles /\ IsFiniteSet(Drawing!Alive)
<1>1. \A h \in Drawing!Handles : table[h] \in {None, h} BY DrawFacts
<1>2. commands.resource \in Drawing!Handles \cup {None}
  BY DrawFacts DEF NamesOwn, FrameTypes
<1>3. canvas.last # None => canvas.last.resource \in Drawing!Handles \cup {None}
  BY DrawFacts, WorkFacts, NowFacts DEF PictureIs, NamesOwn, FrameTypes
<1>4. Drawing!Alive \subseteq Drawing!Handles
  BY <1>1, <1>2, <1>3 DEF Drawing!Alive, Drawing!Holding
<1>5. IsFiniteSet(Drawing!Handles) BY DrawSizes, FS_Interval DEF Drawing!Handles
<1> QED BY <1>4, <1>5, FS_Subset

\* What the next state holds.
LEMMA AliveNext ==
  Drawing!Alive' = ({table'[h] : h \in Drawing!Handles} \cup {commands'.resource}
                     \cup (IF canvas'.last = None THEN {} ELSE {canvas'.last.resource})) \ {None}
BY DEF Drawing!Alive, Drawing!Holding, Drawing!Handles

\* Nothing comes to life that was not alive.
LEMMA AliveShrinks ==
  ASSUME DrawIInv, \A h \in Drawing!Handles : table'[h] \in {None, table[h]},
         commands'.resource \in {None, commands.resource} \cup {table[h] : h \in Drawing!Handles},
         canvas'.last \in {None, canvas.last, commands'}
  PROVE  Drawing!QuotaHolds'
<1>1. Drawing!Alive' \subseteq Drawing!Alive
  <2>1. {table'[h] : h \in Drawing!Handles} \ {None} \subseteq Drawing!Alive
    BY DEF Drawing!Alive, Drawing!Holding
  <2>2. {commands'.resource} \ {None} \subseteq Drawing!Alive
    BY DEF Drawing!Alive, Drawing!Holding
  <2>3. (IF canvas'.last = None THEN {} ELSE {canvas'.last.resource}) \ {None} \subseteq Drawing!Alive
    BY <2>2 DEF Drawing!Alive, Drawing!Holding
  <2> QED BY <2>1, <2>2, <2>3, AliveNext
<1>2. Cardinality(Drawing!Alive') <= Cardinality(Drawing!Alive) /\ IsFiniteSet(Drawing!Alive')
  BY <1>1, AliveWithin, FS_Subset
<1>3. Cardinality(Drawing!Alive) \in Nat /\ Cardinality(Drawing!Alive') \in Nat
  BY <1>2, AliveWithin, FS_CardinalityType
<1>4. Cardinality(Drawing!Alive) <= Quota
  BY DrawFacts, DrawingCardinality DEF Drawing!QuotaHolds
<1>5. Cardinality(Drawing!Alive') <= Quota
  <2> PICK a \in Nat, b \in Nat : a = Cardinality(Drawing!Alive) /\ b = Cardinality(Drawing!Alive')
    BY <1>3
  <2> QED BY <1>2, <1>4, DrawSizes
<1> QED BY <1>5, DrawingCardinality DEF Drawing!QuotaHolds

\* A step that leaves the work alone keeps it sound.
LEMMA Unpainted ==
  ASSUME DrawIInv, UNCHANGED Drawing!workVars
  PROVE  WorkIs(Drawing!Now)'
<1>1. Drawing!Put(Drawing!Now) BY NowFacts DEF Drawing!Put, Drawing!workVars
<1> QED BY <1>1, DrawFacts, PutIsNow

\* The types of a state whose parts are right.
LEMMA TypesFrom ==
  ASSUME WorkIs(Drawing!Now)', NamesOwn(commands)',
         auxiliary' \in BOOLEAN, onScreen' \in BOOLEAN, dueDrawing' \in BOOLEAN,
         table' \in [Drawing!Handles -> Drawing!Resources \cup {None}], made' \in 0 .. MaxMade,
         scene' \in 0 .. MaxLayer, revision' \in 0 .. MaxLayer, scale' \in Scales
  PROVE  Drawing!TypeOK'
<1>1. commands' \in [handle : Drawing!Handles \cup {None}, resource : Drawing!Resources \cup {None}]
  BY DEF NamesOwn, FrameTypes, Drawing!Handles, Drawing!Resources
<1>2. /\ tree' \in [generation : 0 .. MaxLayer, visual : 0 .. MaxLayer]
      /\ failed' \in BOOLEAN /\ faults' \in 0 .. DrawingFaults
      /\ recovery' \in [failures : 0 .. DrawingRetries, waiting : BOOLEAN, retry : BOOLEAN,
                        posted : BOOLEAN]
  BY DEF WorkIs, WorkTypes, TreeTypes, RecoveryTypes, Drawing!Now
<1> QED BY <1>1, <1>2 DEF Drawing!TypeOK, Drawing!Handles, Drawing!Resources

\* A resource is made only under the quota (resources.rs).
LEMMA MakeStep == DrawIInv /\ Drawing!Make => DrawIInv'
<1> SUFFICES ASSUME DrawIInv, Drawing!Make PROVE DrawIInv' OBVIOUS
<1>1. /\ made < MaxMade /\ Drawing!Capacity /\ made' = made + 1
      /\ table' = [table EXCEPT ![made + 1] = made + 1]
      /\ UNCHANGED <<auxiliary, commands, scene, revision, onScreen, dueDrawing, scale>>
      /\ UNCHANGED Drawing!workVars
  BY DEF Drawing!Make, Drawing!NextHandle
<1>2. UNCHANGED <<canvas, surface, tree, recovery, failed>> BY <1>1 DEF Drawing!workVars
<1>3. made \in Nat /\ made' \in 0 .. MaxMade /\ made + 1 \in Drawing!Handles
  BY <1>1, TypesNow, DrawSizes DEF Drawing!Handles
<1>4. table' \in [Drawing!Handles -> Drawing!Resources \cup {None}]
      /\ \A h \in Drawing!Handles : table'[h] \in {None, h}
  BY <1>1, <1>3, TypesNow, DrawFacts DEF Drawing!Handles, Drawing!Resources
<1>5. WorkIs(Drawing!Now)' BY <1>1, Unpainted
<1>6. NamesOwn(commands)'
  BY <1>1, DrawFacts DEF NamesOwn, FrameTypes, Drawing!Handles, Drawing!Resources
<1>7. Drawing!TypeOK' BY <1>1, <1>3, <1>4, <1>5, <1>6, TypesFrom, TypesNow
<1>8. Drawing!DrawnOrDue' BY <1>1, <1>2, DrawFacts DEF Drawing!DrawnOrDue
<1>9. Drawing!QuotaHolds'
  <2> PICK m : m = made + 1 OBVIOUS
  <2>1. Drawing!Alive' \subseteq Drawing!Alive \cup {m}
    <3>1. \A h \in Drawing!Handles : table'[h] \in {table[h], m} BY <1>1, TypesNow
    <3>2. {table'[h] : h \in Drawing!Handles} \subseteq {table[h] : h \in Drawing!Handles} \cup {m}
      BY <3>1
    <3> QED BY <1>1, <1>2, <3>2, AliveNext DEF Drawing!Alive, Drawing!Holding
  <2>2. /\ IsFiniteSet(Drawing!Alive \cup {m}) /\ Cardinality(Drawing!Alive) \in Nat
        /\ Cardinality(Drawing!Alive \cup {m}) <= Cardinality(Drawing!Alive) + 1
    <3>1. IsFiniteSet(Drawing!Alive) BY AliveWithin
    <3>2. IsFiniteSet(Drawing!Alive \cup {m})
          /\ Cardinality(Drawing!Alive \cup {m}) = IF m \in Drawing!Alive THEN Cardinality(Drawing!Alive)
                                                   ELSE Cardinality(Drawing!Alive) + 1
      BY <3>1, FS_AddElement
    <3>3. Cardinality(Drawing!Alive) \in Nat BY <3>1, FS_CardinalityType
    <3> QED BY <3>2, <3>3
  <2>3. Cardinality(Drawing!Alive') <= Cardinality(Drawing!Alive \cup {m})
        /\ IsFiniteSet(Drawing!Alive')
    BY <2>1, <2>2, FS_Subset
  <2>4. Cardinality(Drawing!Alive') \in Nat /\ Cardinality(Drawing!Alive \cup {m}) \in Nat
    BY <2>2, <2>3, FS_CardinalityType
  <2>5. Cardinality(Drawing!Alive) < Quota BY <1>1, DrawingCardinality DEF Drawing!Capacity
  <2>6. Cardinality(Drawing!Alive') <= Quota
    <3> PICK a \in Nat, b \in Nat, c \in Nat :
          a = Cardinality(Drawing!Alive) /\ b = Cardinality(Drawing!Alive')
            /\ c = Cardinality(Drawing!Alive \cup {m})
      BY <2>2, <2>4
    <3> QED BY <2>2, <2>3, <2>5, DrawSizes
  <2> QED BY <2>6, DrawingCardinality DEF Drawing!QuotaHolds
<1>10. canvas'.scale = scale' BY <1>1, <1>2, DrawFacts
<1> QED BY <1>4, <1>5, <1>6, <1>7, <1>8, <1>9, <1>10 DEF DrawIInv, Drawing!Handles

\* A step that makes nothing keeps the invariant when its fields are right.
LEMMA NothingMade ==
  ASSUME DrawIInv, UNCHANGED <<auxiliary, made>>,
         table' \in [Drawing!Handles -> Drawing!Resources \cup {None}],
         \A h \in Drawing!Handles : table'[h] \in {None, table[h]},
         NamesOwn(commands)',
         commands'.resource \in {None, commands.resource} \cup {table[h] : h \in Drawing!Handles},
         WorkIs(Drawing!Now)', canvas'.last \in {None, canvas.last, commands'},
         scene' \in 0 .. MaxLayer, revision' \in 0 .. MaxLayer, scale' \in Scales,
         onScreen' \in BOOLEAN, dueDrawing' \in BOOLEAN,
         canvas'.scale = scale', Drawing!DrawnOrDue'
  PROVE  DrawIInv'
<1>1. made' \in 0 .. MaxMade /\ auxiliary' \in BOOLEAN BY TypesNow
<1>2. Drawing!TypeOK' BY <1>1, TypesFrom
<1>3. Drawing!QuotaHolds' BY AliveShrinks
<1>4. \A h \in Drawing!Handles : table'[h] \in {None, h} BY DrawFacts
<1> QED BY <1>2, <1>3, <1>4 DEF DrawIInv, Drawing!Handles

\* The frame at hand keeps naming its own resource, and the table keeps what is in it.
LEMMA SameFrame ==
  ASSUME DrawIInv, UNCHANGED commands
  PROVE  NamesOwn(commands)'
    /\ commands'.resource \in {None, commands.resource} \cup {table[h] : h \in Drawing!Handles}
BY DrawFacts DEF NamesOwn, FrameTypes, Drawing!Handles, Drawing!Resources

LEMMA SameTable ==
  ASSUME DrawIInv, UNCHANGED table
  PROVE  /\ table' \in [Drawing!Handles -> Drawing!Resources \cup {None}]
         /\ \A h \in Drawing!Handles : table'[h] \in {None, table[h]}
BY TypesNow

\* A step of the work alone: what the window is to show stays what it was.
LEMMA WorkStep ==
  ASSUME DrawIInv, UNCHANGED <<auxiliary, Drawing!guestVars>>,
         WorkIs(Drawing!Now)', canvas'.last \in {None, canvas.last, commands},
         scale' \in Scales, canvas'.scale = scale', dueDrawing' \in BOOLEAN, Drawing!DrawnOrDue'
  PROVE  DrawIInv'
<1>1. UNCHANGED <<auxiliary, made, table, commands, scene, revision, onScreen>>
  BY DEF Drawing!guestVars
<1>2. scene' \in 0 .. MaxLayer /\ revision' \in 0 .. MaxLayer /\ onScreen' \in BOOLEAN
  BY <1>1, TypesNow
<1>3. canvas'.last \in {None, canvas.last, commands'} BY <1>1
<1> QED BY <1>1, <1>2, <1>3, SameFrame, SameTable, NothingMade

\* A resource is given back.
LEMMA ReleaseStep == ASSUME NEW h \in Drawing!Handles, DrawIInv, Drawing!Release(h) PROVE DrawIInv'
<1>1. /\ table' = [table EXCEPT ![h] = None] /\ UNCHANGED Drawing!workVars
      /\ UNCHANGED <<auxiliary, made, commands, scene, revision, onScreen, dueDrawing, scale>>
  BY DEF Drawing!Release
<1>2. UNCHANGED <<canvas, surface, tree, recovery, failed>> BY <1>1 DEF Drawing!workVars
<1>3. table' \in [Drawing!Handles -> Drawing!Resources \cup {None}]
      /\ \A k \in Drawing!Handles : table'[k] \in {None, table[k]}
  BY <1>1, TypesNow
<1>4. Drawing!DrawnOrDue' BY <1>1, <1>2, DrawFacts DEF Drawing!DrawnOrDue
<1>5. WorkIs(Drawing!Now)' /\ canvas'.scale = scale' /\ canvas'.last \in {None, canvas.last, commands'}
  BY <1>1, <1>2, DrawFacts, Unpainted
<1> QED BY <1>1, <1>3, <1>4, <1>5, SameFrame, TypesNow, NothingMade

\* A generation is spent on a callback that is rolled back.
LEMMA RollBackStep == DrawIInv /\ Drawing!RollBack => DrawIInv'
<1> SUFFICES ASSUME DrawIInv, Drawing!RollBack PROVE DrawIInv' OBVIOUS
<1>1. /\ revision < MaxLayer /\ revision' = revision + 1 /\ UNCHANGED Drawing!workVars
      /\ UNCHANGED <<auxiliary, made, table, commands, scene, onScreen, dueDrawing, scale>>
  BY DEF Drawing!RollBack
<1>2. UNCHANGED <<canvas, surface, tree, recovery, failed>> BY <1>1 DEF Drawing!workVars
<1>3. revision' \in 0 .. MaxLayer BY <1>1, TypesNow, DrawSizes
<1>4. Drawing!DrawnOrDue' BY <1>1, <1>2, DrawFacts DEF Drawing!DrawnOrDue
<1>5. WorkIs(Drawing!Now)' /\ canvas'.scale = scale' /\ canvas'.last \in {None, canvas.last, commands'}
  BY <1>1, <1>2, DrawFacts, Unpainted
<1> QED BY <1>1, <1>3, <1>4, <1>5, SameFrame, SameTable, TypesNow, NothingMade

\* A Present hands over a frame of the table, or the one it had, and a layer within its
\* generations.
LEMMA PresentsFacts ==
  ASSUME DrawIInv, NEW f \in Drawing!Frames, NEW l \in Drawing!Layers, NEW v \in BOOLEAN
  PROVE  /\ NamesOwn(f) /\ l \in 0 .. MaxLayer
         /\ f.resource \in {None, commands.resource} \cup {table[h] : h \in Drawing!Handles}
         /\ Drawing!Presents(f, l, v) =>
              /\ UNCHANGED <<auxiliary, made, table>>
              /\ commands' = f /\ NamesOwn(commands)'
              /\ scene' \in 0 .. MaxLayer /\ revision' \in 0 .. MaxLayer
              /\ onScreen' = v /\ dueDrawing' = v /\ Drawing!DrawnOrDue'
<1>1. NamesOwn(f) /\ f.resource \in {None, commands.resource} \cup {table[h] : h \in Drawing!Handles}
  <2>1. CASE f = Drawing!NoFrame BY <2>1 DEF Drawing!NoFrame, NamesOwn, FrameTypes
  <2>2. CASE f = commands BY <2>2, DrawFacts
  <2>3. CASE \E h \in Drawing!Handles : table[h] # None /\ f = [handle |-> h, resource |-> table[h]]
    <3>1. PICK h \in Drawing!Handles : table[h] # None /\ f = [handle |-> h, resource |-> table[h]]
      BY <2>3
    <3>2. table[h] = h BY <3>1, DrawFacts
    <3> QED BY <3>1, <3>2 DEF NamesOwn, FrameTypes, Drawing!Handles, Drawing!Resources
  <2> QED BY <2>1, <2>2, <2>3 DEF Drawing!Frames
<1>2. l \in 0 .. MaxLayer /\ revision \in 0 .. MaxLayer
  BY TypesNow, DrawSizes DEF Drawing!Layers
<1>3. Drawing!Presents(f, l, v) =>
        /\ UNCHANGED <<auxiliary, made, table>> /\ commands' = f /\ scene' = l
        /\ onScreen' = v /\ dueDrawing' = v /\ revision' \in {l, revision}
  BY DEF Drawing!Presents
<1>4. commands' = f => NamesOwn(commands)'
  BY <1>1 DEF NamesOwn, FrameTypes, Drawing!Handles, Drawing!Resources
<1>5. onScreen' = v /\ dueDrawing' = v => Drawing!DrawnOrDue' BY DEF Drawing!DrawnOrDue
<1> QED BY <1>1, <1>2, <1>3, <1>4, <1>5

\* A callback presents (apply_side_effects, sync_auxiliary, sync_visibility).
LEMMA CommitStep ==
  ASSUME NEW f \in Drawing!Frames, NEW l \in Drawing!Layers, NEW v \in BOOLEAN,
         DrawIInv, Drawing!Commit(f, l, v)
  PROVE  DrawIInv'
<1>1. Drawing!Presents(f, l, v) /\ UNCHANGED scale BY DEF Drawing!Commit
<1>2. PICK n \in Drawing!Syncing(Drawing!Now, f, l, v, scale) : Drawing!Put(n) BY DEF Drawing!Commit
<1>3. Leads(Drawing!Now, n, f, scale)
  BY <1>2, DrawFacts, TypesNow, PresentsFacts, SyncingLeads
<1>4. /\ WorkIs(Drawing!Now)' /\ canvas'.last \in {None, canvas.last, f}
      /\ canvas'.scale = scale'
  <2>1. WorkIs(n) /\ n.canvas.last \in {None, canvas.last, f} /\ n.canvas.scale \in {canvas.scale, scale}
    BY <1>3, NowFacts DEF Leads
  <2> QED BY <1>1, <1>2, <2>1, DrawFacts, PutIsNow
<1> QED BY <1>1, <1>4, PresentsFacts, SameTable, TypesNow, NothingMade

\* The main window is hidden.
LEMMA DrawHideStep == DrawIInv /\ Drawing!Hide => DrawIInv'
<1> SUFFICES ASSUME DrawIInv, Drawing!Hide PROVE DrawIInv' OBVIOUS
<1>1. /\ commands' = Drawing!NoFrame /\ scene' = 0 /\ onScreen' = FALSE /\ dueDrawing' = FALSE
      /\ UNCHANGED <<auxiliary, made, table, revision, scale>>
  BY DEF Drawing!Hide
<1>2. PICK n \in Drawing!Clearing(Drawing!Now) :
        Drawing!Put([n EXCEPT !.recovery.waiting = FALSE, !.recovery.retry = FALSE])
  BY DEF Drawing!Hide
<1>3. WorkIs(n) /\ n.canvas.last \in {None, canvas.last} /\ n.canvas.scale = canvas.scale
  <2>1. Leads(Drawing!Now, n, None, scale) BY <1>2, DrawFacts, ClearingLeads
  <2> QED BY <2>1, DrawFacts, NowFacts DEF Leads
<1>4. PICK m : m = [n EXCEPT !.recovery.waiting = FALSE, !.recovery.retry = FALSE] OBVIOUS
<1>5. WorkIs(m) /\ m.canvas = n.canvas
  <2>1. PICK r : r = [n.recovery EXCEPT !.waiting = FALSE, !.retry = FALSE] OBVIOUS
  <2>2. r \in RecoveryTypes /\ ~r.waiting BY <1>3, <2>1, WorkFacts DEF RecoveryTypes
  <2>3. m = [n EXCEPT !.recovery = r]
    BY <1>3, <1>4, <2>1, WorkFacts DEF RecoveryTypes, WorkIs, WorkTypes
  <2>4. n = [canvas |-> n.canvas, surface |-> n.surface, tree |-> n.tree,
             recovery |-> n.recovery, failed |-> n.failed, faults |-> n.faults]
    BY <1>3, WorkIsRecord DEF With
  <2>5. m = [canvas |-> n.canvas, surface |-> n.surface, tree |-> n.tree,
             recovery |-> r, failed |-> n.failed, faults |-> n.faults]
    BY <2>3, <2>4
  <2>6. Timed(r, n.failed) BY <2>2 DEF Timed
  <2> QED BY <1>3, <2>2, <2>5, <2>6, WorkFacts, Ended
<1>6. /\ WorkIs(Drawing!Now)' /\ canvas'.last \in {None, canvas.last, commands'}
      /\ canvas'.scale = scale'
  BY <1>1, <1>2, <1>3, <1>4, <1>5, DrawFacts, PutIsNow
<1>7. NamesOwn(commands)' /\ commands'.resource = None /\ scene' \in 0 .. MaxLayer
  BY <1>1, DrawSizes DEF Drawing!NoFrame, NamesOwn, FrameTypes
<1>8. Drawing!DrawnOrDue' BY <1>1 DEF Drawing!DrawnOrDue
<1>9. revision' \in 0 .. MaxLayer /\ scale' \in Scales BY <1>1, TypesNow
<1> QED BY <1>1, <1>6, <1>7, <1>8, <1>9, SameTable, NothingMade

\* WM_PAINT draws, fails, loses the device or is put off.
LEMMA PaintStep == DrawIInv /\ Drawing!Paint => DrawIInv'
<1> SUFFICES ASSUME DrawIInv, Drawing!Paint PROVE DrawIInv' OBVIOUS
<1>1. /\ dueDrawing' = FALSE /\ UNCHANGED <<auxiliary, Drawing!guestVars, scale>>
      /\ \/ recovery.waiting /\ UNCHANGED Drawing!workVars
         \/ \E n \in Drawing!Painting(Drawing!Now, commands, scene, scale) : Drawing!Put(n)
  BY DEF Drawing!Paint
<1>2. UNCHANGED <<commands, scene>> BY <1>1 DEF Drawing!guestVars
<1>3. scale' \in Scales /\ dueDrawing' \in BOOLEAN BY <1>1, TypesNow
<1>4. CASE recovery.waiting /\ UNCHANGED Drawing!workVars
  <2>1. UNCHANGED <<canvas, recovery>> BY <1>4 DEF Drawing!workVars
  <2>2. Drawing!DrawnOrDue' BY <1>4, <2>1 DEF Drawing!DrawnOrDue
  <2>3. WorkIs(Drawing!Now)' BY <1>4, Unpainted
  <2> QED BY <1>1, <1>3, <2>1, <2>2, <2>3, DrawFacts, WorkStep
<1>5. CASE \E n \in Drawing!Painting(Drawing!Now, commands, scene, scale) : Drawing!Put(n)
  <2>1. PICK n \in Drawing!Painting(Drawing!Now, commands, scene, scale) : Drawing!Put(n) BY <1>5
  <2>2. /\ Leads(Drawing!Now, n, commands, scale)
        /\ n.failed \/ n.recovery.waiting \/ (n.canvas.last = commands /\ n.tree.generation = scene)
    BY <2>1, DrawFacts, TypesNow, PaintingLeads
  <2>3. WorkIs(n) /\ n.canvas.last \in {None, canvas.last, commands} /\ n.canvas.scale = scale
    BY <2>2, DrawFacts, NowFacts DEF Leads
  <2>4. /\ WorkIs(Drawing!Now)' /\ canvas' = n.canvas /\ tree' = n.tree
        /\ recovery' = n.recovery /\ failed' = n.failed
    BY <2>1, <2>3, PutIsNow
  <2>5. Drawing!DrawnOrDue' BY <1>2, <2>2, <2>4 DEF Drawing!DrawnOrDue
  <2> QED BY <1>1, <1>3, <2>3, <2>4, <2>5, WorkStep
<1> QED BY <1>1, <1>4, <1>5

\* The recovery alone changes.
LEMMA OtherRecovery ==
  ASSUME DrawIInv, NEW r, r \in RecoveryTypes, Timed(r, failed), recovery' = r,
         UNCHANGED <<canvas, surface, tree, failed, faults>>
  PROVE  WorkIs(Drawing!Now)'
<1>1. PICK n : n = [canvas |-> canvas, surface |-> surface, tree |-> tree,
                    recovery |-> r, failed |-> failed, faults |-> faults]
  OBVIOUS
<1>2. WorkIs(n)
  <2>1. failed \in BOOLEAN /\ faults \in 0 .. DrawingFaults BY DrawFacts, NowFacts, WorkFacts
  <2> QED BY <1>1, <2>1, DrawFacts, NowFacts, Ended
<1>3. Drawing!Put(n) BY <1>1 DEF Drawing!Put
<1> QED BY <1>2, <1>3, PutIsNow

\* RETRY_TIMER expires, or its message is dropped.
LEMMA DrawExpireStep == DrawIInv /\ (Drawing!Expire \/ Drawing!RetryIgnored) => DrawIInv'
<1> SUFFICES ASSUME DrawIInv, Drawing!Expire \/ Drawing!RetryIgnored PROVE DrawIInv' OBVIOUS
<1>1. PICK b \in BOOLEAN :
        /\ recovery' = [recovery EXCEPT !.posted = b]
        /\ UNCHANGED <<auxiliary, Drawing!guestVars, dueDrawing, canvas, surface, tree, failed,
                       faults, scale>>
  BY DEF Drawing!Expire, Drawing!RetryIgnored
<1>2. UNCHANGED <<commands, scene, onScreen>> BY <1>1 DEF Drawing!guestVars
<1>3. recovery \in RecoveryTypes /\ Timed(recovery, failed) BY DrawFacts, NowFacts, WorkFacts
<1>4. PICK r : r = [recovery EXCEPT !.posted = b] OBVIOUS
<1>5. r \in RecoveryTypes /\ r.waiting = recovery.waiting /\ r.retry = recovery.retry
  BY <1>3, <1>4 DEF RecoveryTypes
<1>6. Timed(r, failed) BY <1>3, <1>5 DEF Timed
<1>7. WorkIs(Drawing!Now)' BY <1>1, <1>4, <1>5, <1>6, OtherRecovery
<1>8. Drawing!DrawnOrDue' BY <1>1, <1>2, <1>4, <1>5, DrawFacts DEF Drawing!DrawnOrDue
<1> QED BY <1>1, <1>7, <1>8, DrawFacts, TypesNow, WorkStep

\* WM_TIMER of RETRY_TIMER.
LEMMA DrawRetryStep == DrawIInv /\ Drawing!Retry => DrawIInv'
<1> SUFFICES ASSUME DrawIInv, Drawing!Retry PROVE DrawIInv' OBVIOUS
<1>1. /\ recovery' = [recovery EXCEPT !.waiting = FALSE, !.retry = FALSE, !.posted = FALSE]
      /\ dueDrawing' = onScreen
      /\ UNCHANGED <<auxiliary, Drawing!guestVars, canvas, surface, tree, failed, faults, scale>>
  BY DEF Drawing!Retry
<1>2. UNCHANGED onScreen BY <1>1 DEF Drawing!guestVars
<1>3. recovery \in RecoveryTypes BY DrawFacts, NowFacts, WorkFacts
<1>4. PICK r : r = [recovery EXCEPT !.waiting = FALSE, !.retry = FALSE, !.posted = FALSE] OBVIOUS
<1>5. r \in RecoveryTypes /\ ~r.waiting BY <1>3, <1>4 DEF RecoveryTypes
<1>6. Timed(r, failed) BY <1>5 DEF Timed
<1>7. WorkIs(Drawing!Now)' BY <1>1, <1>4, <1>5, <1>6, OtherRecovery
<1>8. Drawing!DrawnOrDue' BY <1>1, <1>2 DEF Drawing!DrawnOrDue
<1> QED BY <1>1, <1>7, <1>8, DrawFacts, TypesNow, WorkStep

\* WM_SIZE.
LEMMA DrawResizeStep == DrawIInv /\ Drawing!Resize => DrawIInv'
<1> SUFFICES ASSUME DrawIInv, Drawing!Resize PROVE DrawIInv' OBVIOUS
<1>1. UNCHANGED <<auxiliary, Drawing!guestVars, dueDrawing, scale>> BY DEF Drawing!Resize
<1>2. PICK n \in Drawing!Resizing(Drawing!Now, scale) : Drawing!Put(n) BY DEF Drawing!Resize
<1>3. /\ WorkIs(n) /\ n.canvas.scale = scale /\ n.canvas.last \in {None, canvas.last}
      /\ \/ n.failed \/ n.recovery.waiting
         \/ /\ n.canvas.last = canvas.last /\ n.tree = tree
            /\ n.recovery = recovery /\ n.failed = failed
  BY <1>2, DrawFacts, NowFacts, TypesNow, ResizingLeads
<1>4. /\ WorkIs(Drawing!Now)' /\ canvas' = n.canvas /\ tree' = n.tree
      /\ recovery' = n.recovery /\ failed' = n.failed
  BY <1>2, <1>3, PutIsNow
<1>5. UNCHANGED <<commands, scene, onScreen>> BY <1>1 DEF Drawing!guestVars
<1>6. Drawing!DrawnOrDue' BY <1>1, <1>3, <1>4, <1>5, DrawFacts DEF Drawing!DrawnOrDue
<1> QED BY <1>1, <1>3, <1>4, <1>6, TypesNow, WorkStep

\* The window comes to a monitor of another scale.
LEMMA DrawScaleStep == ASSUME NEW to \in Scales, DrawIInv, Drawing!ScaleChanges(to) PROVE DrawIInv'
<1>1. scale' = to /\ dueDrawing' = onScreen /\ UNCHANGED <<auxiliary, Drawing!guestVars>>
  BY DEF Drawing!ScaleChanges
<1>2. PICK n \in Drawing!Resizing(Drawing!Now, to) : Drawing!Put(n) BY DEF Drawing!ScaleChanges
<1>3. WorkIs(n) /\ n.canvas.scale = to /\ n.canvas.last \in {None, canvas.last}
  BY <1>2, DrawFacts, NowFacts, ResizingLeads
<1>4. WorkIs(Drawing!Now)' /\ canvas' = n.canvas BY <1>2, <1>3, PutIsNow
<1>5. UNCHANGED onScreen BY <1>1 DEF Drawing!guestVars
<1>6. Drawing!DrawnOrDue' BY <1>1, <1>5 DEF Drawing!DrawnOrDue
<1> QED BY <1>1, <1>3, <1>4, <1>6, TypesNow, WorkStep

\* An auxiliary window that holds the mouse comes to a monitor of another scale.
LEMMA DrawHeldStep ==
  ASSUME NEW f \in Drawing!Frames, NEW l \in Drawing!Layers, NEW v \in BOOLEAN, NEW to \in Scales,
         DrawIInv, Drawing!ScaleChangesHeld(to, f, l, v)
  PROVE  DrawIInv'
<1>1. Drawing!Presents(f, l, v) /\ scale' = to BY DEF Drawing!ScaleChangesHeld
<1>2. PICK n \in Drawing!Syncing(Drawing!Now, f, l, v, to) :
        \E m \in Drawing!Resizing(n, to) : Drawing!Put(m)
  BY DEF Drawing!ScaleChangesHeld
<1>3. PICK m \in Drawing!Resizing(n, to) : Drawing!Put(m) BY <1>2
<1>4. WorkIs(n) /\ n.canvas.last \in {None, canvas.last, f}
  <2>1. Leads(Drawing!Now, n, f, to) BY <1>2, DrawFacts, PresentsFacts, SyncingLeads
  <2> QED BY <2>1, NowFacts DEF Leads
<1>5. WorkIs(m) /\ m.canvas.scale = to /\ m.canvas.last \in {None, n.canvas.last}
  BY <1>3, <1>4, ResizingLeads
<1>6. WorkIs(Drawing!Now)' /\ canvas' = m.canvas BY <1>3, <1>5, PutIsNow
<1>7. canvas'.last \in {None, canvas.last, f} /\ canvas'.scale = scale'
  BY <1>1, <1>4, <1>5, <1>6
<1> QED BY <1>1, <1>6, <1>7, PresentsFacts, SameTable, TypesNow, NothingMade

\* Every step of the compositor keeps the invariant.
LEMMA DrawStep == DrawIInv /\ [Drawing!Next]_Drawing!vars => DrawIInv'
<1> SUFFICES ASSUME DrawIInv, [Drawing!Next]_Drawing!vars PROVE DrawIInv' OBVIOUS
<1>1. CASE Drawing!Next
  <2>1. CASE \E f \in Drawing!Frames, l \in Drawing!Layers, v \in BOOLEAN :
               \/ Drawing!Commit(f, l, v)
               \/ \E to \in Scales : Drawing!ScaleChangesHeld(to, f, l, v)
    BY <2>1, CommitStep, DrawHeldStep
  <2> QED BY <1>1, <2>1, MakeStep, RollBackStep, DrawHideStep, PaintStep, DrawExpireStep, DrawRetryStep,
             DrawResizeStep, ReleaseStep, DrawScaleStep
          DEF Drawing!Next
<1>2. CASE UNCHANGED Drawing!vars
  <2>1. /\ UNCHANGED <<auxiliary, Drawing!guestVars, dueDrawing, scale>> /\ UNCHANGED Drawing!workVars
    BY <1>2 DEF Drawing!vars
  <2>2. UNCHANGED <<commands, scene, onScreen, canvas, tree, recovery, failed>>
    BY <2>1 DEF Drawing!guestVars, Drawing!workVars
  <2>3. Drawing!DrawnOrDue' BY <2>1, <2>2, DrawFacts DEF Drawing!DrawnOrDue
  <2>4. WorkIs(Drawing!Now)' BY <2>1, Unpainted
  <2> QED BY <2>1, <2>2, <2>3, <2>4, DrawFacts, TypesNow, WorkStep
<1> QED BY <1>1, <1>2

\* The window starts with a target, and nothing drawn.
LEMMA DrawInit == Drawing!Init => DrawIInv
<1> SUFFICES ASSUME Drawing!Init PROVE DrawIInv OBVIOUS
<1>1. /\ auxiliary \in BOOLEAN /\ made = 0 /\ table = [h \in Drawing!Handles |-> None]
      /\ commands = Drawing!NoFrame /\ scene = 0 /\ revision = 0 /\ ~onScreen /\ onScreen \in BOOLEAN
      /\ dueDrawing \in BOOLEAN /\ scale \in Scales
      /\ canvas = [Drawing!NoCanvas(scale) EXCEPT !.presenter = TRUE]
      /\ surface = Drawing!NewSurface /\ tree = Drawing!Bare
      /\ recovery = [failures |-> 0, waiting |-> FALSE, retry |-> FALSE, posted |-> FALSE]
      /\ failed = FALSE /\ faults = 0
  BY DEF Drawing!Init
<1>2. NamesOwn(commands) /\ commands.resource = None
  BY <1>1 DEF Drawing!NoFrame, NamesOwn, FrameTypes
<1>3. canvas \in CanvasTypes /\ canvas.last = None /\ canvas.scale = scale /\ PictureIs(canvas, surface)
  BY <1>1, NewCanvas
<1>4. recovery \in RecoveryTypes /\ ~recovery.waiting /\ faults \in 0 .. DrawingFaults
  BY <1>1, DrawSizes DEF RecoveryTypes
<1>5. WorkIs(Drawing!Now)
  <2>1. Drawing!Now \in WorkTypes
    BY <1>1, <1>3, <1>4, NewParts DEF WorkTypes, Drawing!Now
  <2> QED BY <1>1, <1>3, <1>4, <2>1, NewParts, NowFacts DEF WorkIs, Timed
<1>6. table \in [Drawing!Handles -> Drawing!Resources \cup {None}]
      /\ \A h \in Drawing!Handles : table[h] = None
  BY <1>1
<1>7. Drawing!TypeOK
  <2>1. commands \in [handle : Drawing!Handles \cup {None}, resource : Drawing!Resources \cup {None}]
    BY <1>2 DEF NamesOwn, FrameTypes
  <2>2. tree \in [generation : 0 .. MaxLayer, visual : 0 .. MaxLayer]
    BY <1>1, NewParts DEF TreeTypes
  <2>3. made \in 0 .. MaxMade /\ scene \in 0 .. MaxLayer /\ revision \in 0 .. MaxLayer
    BY <1>1, DrawSizes
  <2> QED BY <1>1, <1>4, <1>6, <2>1, <2>2, <2>3 DEF Drawing!TypeOK, RecoveryTypes
<1>8. Drawing!QuotaHolds
  <2>1. Drawing!Alive = {} BY <1>2, <1>3, <1>6 DEF Drawing!Alive, Drawing!Holding
  <2>2. Cardinality(Drawing!Alive) = 0 BY <2>1, FS_EmptySet
  <2> QED BY <2>2, DrawSizes, DrawingCardinality DEF Drawing!QuotaHolds
<1>9. Drawing!DrawnOrDue BY <1>1 DEF Drawing!DrawnOrDue
<1> QED BY <1>2, <1>3, <1>5, <1>6, <1>7, <1>8, <1>9 DEF DrawIInv

-----------------------------------------------------------------------------
(* The theme abc.                                                          *)

\* What abc assumes of its sizes.
LEMMA AbcConstants == Abc!AbcAssumption
BY ConstantsAreRight DEF ThemesAssumption

\* A window between two turns: it is on the screen exactly while it has a content,
\* what was drawn is what it shows unless a drawing is due, and its press is the one
\* on record.
WindowIs(r, w, p) ==
  /\ w \in Abc!Windows
  /\ w.shown <=> w.content # None
  /\ ~w.shown => w.pressed = None /\ ~w.captured
  /\ w.waiting => w.timed
  /\ w.shown /\ ~w.dirty /\ ~w.waiting => w.pixels = [id |-> w.content.id, pressed |-> w.pressed]
  /\ w.pressed # None => r = "candidates" /\ p = [id |-> w.content.id, hit |-> w.pressed]

AbcIInv ==
  /\ Abc!TypeOK /\ Abc!OnePresentation /\ Abc!ClickIsOnePress
  /\ \A r \in Abc!Roles : WindowIs(r, window[r], held)

\* The invariant says what ThemeAbc.Inv asks.
LEMMA AbcImplies == AbcIInv => Abc!Inv
BY DEF AbcIInv, Abc!Inv, Abc!PixelsAreCurrent, Abc!HiddenIsEmpty, WindowIs

\* A hidden window keeps nothing (WindowState::hide).
LEMMA HiddenFacts ==
  ASSUME NEW w \in Abc!Windows, NEW r, NEW p
  PROVE  WindowIs(r, Abc!Hidden(w), p) /\ ~Abc!Hidden(w).shown /\ Abc!Hidden(w).pressed = None
BY DEF Abc!Windows, Abc!Hidden, Abc!Cancelled, WindowIs

\* The theme starts hidden and drawn.
LEMMA AbcInit == Abc!Init => AbcIInv
<1>1. SUFFICES ASSUME Abc!Init PROVE AbcIInv OBVIOUS
<1> USE AbcConstants DEF Abc!AbcAssumption
<1>2. Abc!Fresh \in Abc!Windows BY DEF Abc!Fresh, Abc!Windows
<1>3. \A r \in Abc!Roles : WindowIs(r, window[r], held)
  BY <1>1, <1>2 DEF Abc!Init, Abc!Fresh, WindowIs
<1>4. Abc!TypeOK
  <2>1. view \in Abc!Views BY <1>1 DEF Abc!Init, Abc!Views, Abc!Shapes, Abc!Offers
  <2>2. window \in [Abc!Roles -> Abc!Windows] BY <1>1, <1>2 DEF Abc!Init
  <2>3. sent \in [click : Abc!Clicks, press : Abc!Presses] \cup {None} BY <1>1 DEF Abc!Init
  <2>4. held \in Abc!Presses \cup {None} BY <1>1 DEF Abc!Init
  <2>5. sink \in 0..AbcContents \cup {None} /\ queue = <<>> BY <1>1 DEF Abc!Init
  <2>6. abcFaults \in 0..AbcFailures BY <1>1 DEF Abc!Init
  <2>7. live \in BOOLEAN /\ ended \in BOOLEAN BY <1>1 DEF Abc!Init
  <2> QED BY <2>1, <2>2, <2>3, <2>4, <2>5, <2>6, <2>7 DEF Abc!TypeOK
<1>5. Abc!OnePresentation BY <1>1 DEF Abc!Init, Abc!OnePresentation, Abc!Fresh, Abc!Roles
<1>6. Abc!ClickIsOnePress BY <1>1 DEF Abc!Init, Abc!ClickIsOnePress
<1> QED BY <1>3, <1>4, <1>5, <1>6 DEF AbcIInv

\* A drawing leaves the window drawn as it is, or waiting, or broken for good.
LEMMA DrawingFacts ==
  ASSUME NEW w \in Abc!Windows, NEW d \in Abc!Drawings(w)
  PROVE  /\ d.w \in Abc!Windows /\ d.faults \in Nat
         /\ d.w.content = w.content /\ d.w.pressed = w.pressed /\ d.w.captured = w.captured
         /\ d.w.shown = w.shown /\ d.w.dirty = w.dirty
         /\ \/ d.w.error
            \/ d.w.waiting /\ d.w.timed
            \/ ~d.w.waiting /\ d.w.pixels = [id |-> IF w.content = None THEN 0 ELSE w.content.id,
                                             pressed |-> w.pressed]
<1> USE AbcConstants DEF Abc!AbcAssumption
<1>1. CASE d = [w |-> Abc!Drawn(w), faults |-> 0]
  <2>1. w.content # None => w.content.id \in 0..AbcContents BY DEF Abc!Windows, Abc!Views
  <2>2. [id |-> IF w.content = None THEN 0 ELSE w.content.id, pressed |-> w.pressed]
          \in [id : 0..AbcContents, pressed : Abc!Hits \cup {None}]
    BY <2>1 DEF Abc!Windows
  <2>3. PICK e : e = [id |-> IF w.content = None THEN 0 ELSE w.content.id, pressed |-> w.pressed]
    OBVIOUS
  <2>4. Abc!Drawn(w) = [w EXCEPT !.target = TRUE, !.failures = 0, !.waiting = FALSE, !.pixels = e]
    BY <2>3, Zenon DEF Abc!Drawn
  <2>5. e \in [id : 0..AbcContents, pressed : Abc!Hits \cup {None}] BY <2>2, <2>3
  <2>6. d.w = Abc!Drawn(w) /\ d.faults = 0 BY <1>1
  <2>7. 0 \in 0..AbcRetries OBVIOUS
  <2>8. d.w = [w EXCEPT !.target = TRUE, !.failures = 0, !.waiting = FALSE, !.pixels = e]
    BY <2>4, <2>6
  <2>9. d.w \in Abc!Windows BY <2>5, <2>7, <2>8 DEF Abc!Windows
  <2>10. d.w.pixels = e /\ ~d.w.waiting BY <2>8 DEF Abc!Windows
  <2>11. /\ d.w.content = w.content /\ d.w.pressed = w.pressed /\ d.w.captured = w.captured
         /\ d.w.shown = w.shown /\ d.w.dirty = w.dirty
    BY <2>8 DEF Abc!Windows
  <2> QED BY <2>3, <2>6, <2>9, <2>10, <2>11
<1>2. ASSUME NEW cause \in {"lost", "other"}, d = [w |-> Abc!Broken(w, cause), faults |-> 1]
      PROVE  /\ d.w \in Abc!Windows /\ d.faults \in Nat
             /\ d.w.content = w.content /\ d.w.pressed = w.pressed /\ d.w.captured = w.captured
             /\ d.w.shown = w.shown /\ d.w.dirty = w.dirty
             /\ d.w.error \/ (d.w.waiting /\ d.w.timed)
  <2>1. CASE cause # "lost" \/ w.failures = AbcRetries BY <1>2, <2>1 DEF Abc!Broken, Abc!Windows
  <2>2. CASE ~(cause # "lost" \/ w.failures = AbcRetries)
    <3>1. w.failures + 1 \in 0..AbcRetries BY <2>2 DEF Abc!Windows
    <3> QED BY <1>2, <2>2, <3>1 DEF Abc!Broken, Abc!Windows
  <2> QED BY <2>1, <2>2
<1> QED BY <1>1, <1>2 DEF Abc!Drawings

\* Taking another content, giving up a press, and being exposed, one by one.
LEMMA FilledFacts ==
  ASSUME NEW w \in Abc!Windows, NEW v \in Abc!Views
  PROVE  /\ Abc!Filled(w, v) \in Abc!Windows /\ Abc!Filled(w, v).content = v
         /\ Abc!Filled(w, v).pressed = w.pressed /\ Abc!Filled(w, v).captured = w.captured
         /\ Abc!Filled(w, v).shown = w.shown /\ Abc!Filled(w, v).dirty = w.dirty
         /\ Abc!Filled(w, v).waiting = w.waiting /\ Abc!Filled(w, v).timed = w.timed
         /\ Abc!Filled(w, v).pixels = w.pixels
BY DEF Abc!Windows, Abc!Filled

\* A cancelled press is gone, and nothing else.
LEMMA CancelledFacts ==
  ASSUME NEW w \in Abc!Windows
  PROVE  /\ Abc!Cancelled(w) \in Abc!Windows /\ Abc!Cancelled(w).content = w.content
         /\ Abc!Cancelled(w).pressed = None /\ ~Abc!Cancelled(w).captured
         /\ Abc!Cancelled(w).shown = w.shown /\ Abc!Cancelled(w).dirty = w.dirty
         /\ Abc!Cancelled(w).waiting = w.waiting /\ Abc!Cancelled(w).timed = w.timed
         /\ Abc!Cancelled(w).error = w.error
BY DEF Abc!Windows, Abc!Cancelled

\* A window that comes to the screen is due for a drawing.
LEMMA ExposedFacts ==
  ASSUME NEW w \in Abc!Windows
  PROVE  /\ Abc!Exposed(w) \in Abc!Windows /\ Abc!Exposed(w).content = w.content
         /\ Abc!Exposed(w).pressed = w.pressed /\ Abc!Exposed(w).captured = w.captured
         /\ Abc!Exposed(w).shown /\ Abc!Exposed(w).dirty
         /\ Abc!Exposed(w).waiting = w.waiting /\ Abc!Exposed(w).timed = w.timed
         /\ Abc!Exposed(w).pixels = w.pixels /\ Abc!Exposed(w).error = w.error
BY DEF Abc!Windows, Abc!Exposed

\* What a render that succeeds leaves of a window, and what it shows of it first.
Rendered(r, w, s, p) ==
  /\ s.w \in Abc!Windows /\ s.ok \in BOOLEAN /\ s.faults \in Nat
  /\ s.ok => WindowIs(r, s.w, p)
  /\ s.ok /\ ~w.shown /\ s.w.shown => s.w.waiting \/ s.w.pixels.id = s.w.content.id

\* What became of a window says whether it went well.
LEMMA OutcomeFacts ==
  ASSUME NEW r, NEW p, NEW w, NEW x \in Abc!Windows, NEW n \in Nat, ~x.error => WindowIs(r, x, p),
         ~x.error /\ ~w.shown /\ x.shown => x.waiting \/ x.pixels.id = x.content.id
  PROVE  Rendered(r, w, Abc!Outcome(x, n), p) /\ Rendered(r, w, Abc!Unplaced(x), p)
<1>1. Abc!Outcome(x, n).w = x /\ Abc!Outcome(x, n).ok = ~x.error /\ Abc!Outcome(x, n).faults = n
  BY DEF Abc!Outcome
<1>2. x.error \in BOOLEAN BY DEF Abc!Windows
<1>3. Rendered(r, w, Abc!Outcome(x, n), p) BY <1>1, <1>2 DEF Rendered
<1>4. Rendered(r, w, Abc!Unplaced(x), p) BY DEF Rendered, Abc!Unplaced
<1> QED BY <1>3, <1>4

\* A window that is moved with its content keeps its drawing.
LEMMA MovedFacts ==
  ASSUME NEW r, NEW p, NEW w, WindowIs(r, w, p), NEW v \in Abc!Views, Abc!Moved(r, w, v)
  PROVE  WindowIs(r, Abc!Filled(w, v), p)
<1>1. w \in Abc!Windows /\ v # None /\ w.content # None /\ w.content.id = v.id
  BY AbcConstants DEF Abc!AbcAssumption, WindowIs, Abc!Moved
<1> QED BY <1>1, FilledFacts DEF WindowIs

\* However a render ends, the window is hidden, moved, drawn or waiting.
LEMMA RenderFacts ==
  ASSUME NEW r, NEW p, NEW w, WindowIs(r, w, p), NEW v \in Abc!Views, NEW s \in Abc!Renders(r, w, v)
  PROVE  Rendered(r, w, s, p)
<1>1. w \in Abc!Windows /\ v # None BY AbcConstants DEF Abc!AbcAssumption, WindowIs
<1> DEFINE f == Abc!Filled(Abc!Cancelled(w), v)
<1>2. Abc!Cancelled(w) \in Abc!Windows BY <1>1, CancelledFacts
<1>3. /\ f \in Abc!Windows /\ f.content = v /\ f.pressed = None /\ ~f.captured
      /\ f.shown = w.shown /\ f.waiting = w.waiting /\ f.timed = w.timed
  BY <1>1, <1>2, CancelledFacts, FilledFacts
<1>4. CASE Abc!Moved(r, w, v)
  <2>1. s = Abc!Outcome(Abc!Filled(w, v), 0) \/ s = Abc!Unplaced(Abc!Filled(w, v)) BY <1>4
    DEF Abc!Renders
  <2>2. WindowIs(r, Abc!Filled(w, v), p) BY <1>4, MovedFacts
  <2>3. Abc!Filled(w, v) \in Abc!Windows /\ Abc!Filled(w, v).shown = w.shown BY <1>1,
    FilledFacts
  <2>4. ~(~w.shown /\ Abc!Filled(w, v).shown) BY <2>3
  <2> QED BY <2>1, <2>2, <2>3, <2>4, OutcomeFacts
<1>5. CASE ~Abc!Moved(r, w, v) /\ w.error
  <2>1. s = Abc!Outcome(Abc!Cancelled(w), 0) BY <1>5 DEF Abc!Renders
  <2>2. Abc!Cancelled(w).error BY <1>1, <1>5, CancelledFacts
  <2>3. 0 \in Nat OBVIOUS
  <2>4. Rendered(r, w, Abc!Outcome(Abc!Cancelled(w), 0), p) BY <1>2, <2>2, <2>3, OutcomeFacts
  <2> QED BY <2>1, <2>4
<1>6. CASE ~Abc!Moved(r, w, v) /\ ~w.error /\ ~Abc!VisibleIn(r, v)
  <2>1. s = Abc!Outcome(Abc!Hidden(w), 0) BY <1>6 DEF Abc!Renders
  <2>2. WindowIs(r, Abc!Hidden(w), p) /\ ~Abc!Hidden(w).shown BY <1>1, HiddenFacts
  <2>3. Abc!Hidden(w) \in Abc!Windows BY <2>2 DEF WindowIs
  <2> QED BY <2>1, <2>2, <2>3, OutcomeFacts
<1>7. CASE ~Abc!Moved(r, w, v) /\ ~w.error /\ Abc!VisibleIn(r, v)
  <2>1. \/ s = Abc!Unplaced(f)
        \/ w.content = None /\ \E d \in Abc!Drawings(f) : s = Abc!Outcome(Abc!Exposed(d.w), d.faults)
        \/ w.content # None /\ s = Abc!Outcome(Abc!Exposed(f), 0)
    BY <1>7 DEF Abc!Renders
  <2>2. CASE s = Abc!Unplaced(f) BY <1>3, <2>2 DEF Rendered, Abc!Unplaced
  <2>3. ASSUME NEW d \in Abc!Drawings(f), s = Abc!Outcome(Abc!Exposed(d.w), d.faults)
        PROVE  Rendered(r, w, s, p)
    <3> DEFINE e == Abc!Exposed(d.w)
    <3>1. /\ d.w \in Abc!Windows /\ d.faults \in Nat
          /\ d.w.content = v /\ d.w.pressed = None
          /\ \/ d.w.error
             \/ d.w.waiting /\ d.w.timed
             \/ ~d.w.waiting /\ d.w.pixels = [id |-> v.id, pressed |-> None]
      BY <1>1, <1>3, DrawingFacts
    <3>2. /\ e \in Abc!Windows /\ e.content = v /\ e.pressed = None
          /\ e.shown /\ e.dirty /\ e.waiting = d.w.waiting /\ e.timed = d.w.timed
          /\ e.pixels = d.w.pixels /\ e.error = d.w.error
      BY <3>1, ExposedFacts
    <3> HIDE DEF e
    <3>3. ~e.error => WindowIs(r, e, p) BY <1>1, <3>1, <3>2 DEF WindowIs
    <3>4. ~e.error => e.waiting \/ e.pixels.id = e.content.id
      <4>1. [id |-> v.id, pressed |-> None].id = v.id OBVIOUS
      <4> QED BY <3>1, <3>2, <4>1, Zenon
    <3>5. Rendered(r, w, Abc!Outcome(e, d.faults), p) BY <3>1, <3>2, <3>3, <3>4, OutcomeFacts
    <3> QED BY <2>3, <3>5 DEF e
  <2>4. CASE w.content # None /\ s = Abc!Outcome(Abc!Exposed(f), 0)
    <3> DEFINE e == Abc!Exposed(f)
    <3>1. w.shown /\ (w.waiting => w.timed) BY <2>4 DEF WindowIs
    <3>2. /\ e \in Abc!Windows /\ e.content = v /\ e.pressed = None
          /\ e.shown /\ e.dirty /\ e.waiting = f.waiting /\ e.timed = f.timed
      BY <1>3, ExposedFacts
    <3> HIDE DEF f, e
    <3>3. WindowIs(r, e, p) BY <1>1, <1>3, <3>1, <3>2 DEF WindowIs
    <3>4. Rendered(r, w, Abc!Outcome(e, 0), p) BY <3>1, <3>2, <3>3, OutcomeFacts
    <3> QED BY <2>4, <3>4 DEF e, f
  <2> QED BY <2>1, <2>2, <2>3, <2>4
<1> QED BY <1>4, <1>5, <1>6, <1>7

\* All windows between two turns.
WindowsAre(ws, p) == ws \in [Abc!Roles -> Abc!Windows] /\ \A r \in Abc!Roles : WindowIs(r, ws[r], p)

\* The three windows after some turns of a presentation.
OutcomeIs(o, p) ==
  /\ o.ws \in [Abc!Roles -> Abc!Windows] /\ o.ok \in BOOLEAN /\ o.faults \in Nat
  /\ o.ok => WindowsAre(o.ws, p)

\* A window comes to the screen with its new content.
ComesWhole(w, x) == ~w.shown /\ x.shown => x.waiting \/ x.pixels.id = x.content.id

\* Hiding all of them leaves none on the screen.
LEMMA AllHiddenFacts ==
  ASSUME NEW p, NEW ws \in [Abc!Roles -> Abc!Windows]
  PROVE  /\ WindowsAre(Abc!AllHidden(ws), p)
         /\ \A r \in Abc!Roles : ~Abc!AllHidden(ws)[r].shown /\ Abc!AllHidden(ws)[r].pressed = None
<1>1. \A r \in Abc!Roles : Abc!AllHidden(ws)[r] = Abc!Hidden(ws[r]) BY DEF Abc!AllHidden
<1>2. \A r \in Abc!Roles : ws[r] \in Abc!Windows OBVIOUS
<1>3. \A r \in Abc!Roles : /\ WindowIs(r, Abc!AllHidden(ws)[r], p) /\ ~Abc!AllHidden(ws)[r].shown
                           /\ Abc!AllHidden(ws)[r].pressed = None
  BY <1>1, <1>2, HiddenFacts
<1>4. Abc!AllHidden(ws) \in [Abc!Roles -> Abc!Windows] BY <1>3 DEF Abc!AllHidden, WindowIs
<1> QED BY <1>3, <1>4 DEF WindowsAre

\* Those that give way are hidden before another is shown.
LEMMA BegunFacts ==
  ASSUME NEW p, NEW ws, WindowsAre(ws, p), NEW v
  PROVE  /\ WindowsAre(Abc!Begun(ws, v), p)
         /\ \A r \in Abc!Roles : Abc!Begun(ws, v)[r].shown => r \notin Abc!GivesWay(v) /\ ws[r].shown
<1>1. \A r \in Abc!Roles : /\ WindowIs(r, Abc!Begun(ws, v)[r], p)
                           /\ Abc!Begun(ws, v)[r].shown => r \notin Abc!GivesWay(v) /\ ws[r].shown
  <2>1. SUFFICES ASSUME NEW r \in Abc!Roles
                 PROVE  /\ WindowIs(r, Abc!Begun(ws, v)[r], p)
                        /\ Abc!Begun(ws, v)[r].shown => r \notin Abc!GivesWay(v) /\ ws[r].shown
    OBVIOUS
  <2>2. WindowIs(r, ws[r], p) /\ ws[r] \in Abc!Windows BY DEF WindowsAre
  <2>3. CASE r \in Abc!GivesWay(v)
    <3>1. Abc!Begun(ws, v)[r] = Abc!Hidden(ws[r]) BY <2>3 DEF Abc!Begun
    <3> QED BY <2>2, <3>1, HiddenFacts
  <2>4. CASE r \notin Abc!GivesWay(v)
    <3>1. Abc!Begun(ws, v)[r] = ws[r] BY <2>4 DEF Abc!Begun
    <3> QED BY <2>2, <2>4, <3>1
  <2> QED BY <2>3, <2>4
<1>2. Abc!Begun(ws, v) \in [Abc!Roles -> Abc!Windows] BY <1>1 DEF Abc!Begun, WindowIs
<1> QED BY <1>1, <1>2 DEF WindowsAre

\* The turn of one window changes that window.
LEMMA TurnFacts ==
  ASSUME NEW p, NEW o, OutcomeIs(o, p), NEW role \in Abc!Roles, NEW v \in Abc!Views,
         NEW t \in Abc!Turns(o, role, v)
  PROVE  /\ OutcomeIs(t, p) /\ (t.ok => o.ok)
         /\ \A r \in Abc!Roles \ {role} : t.ws[r] = o.ws[r]
         /\ t.ok => ComesWhole(o.ws[role], t.ws[role])
<1>1. CASE ~o.ok BY <1>1 DEF Abc!Turns
<1>2. CASE o.ok
  <2>1. PICK s \in Abc!Renders(role, o.ws[role], v) :
          t = [ws |-> [o.ws EXCEPT ![role] = s.w], ok |-> s.ok, faults |-> o.faults + s.faults]
    BY <1>2 DEF Abc!Turns
  <2>2. WindowsAre(o.ws, p) /\ WindowIs(role, o.ws[role], p) BY <1>2 DEF OutcomeIs, WindowsAre
  <2>3. Rendered(role, o.ws[role], s, p) BY <2>2, RenderFacts
  <2>4. s.w \in Abc!Windows /\ s.ok \in BOOLEAN /\ s.faults \in Nat BY <2>3 DEF Rendered
  <2>5. o.ws \in [Abc!Roles -> Abc!Windows] /\ o.faults \in Nat BY DEF OutcomeIs
  <2>6. t.ws = [o.ws EXCEPT ![role] = s.w] /\ t.ok = s.ok /\ t.faults = o.faults + s.faults
    BY <2>1
  <2>7. t.ws \in [Abc!Roles -> Abc!Windows] /\ t.ok \in BOOLEAN /\ t.faults \in Nat
    BY <2>4, <2>5, <2>6
  <2>8. t.ws[role] = s.w /\ \A r \in Abc!Roles \ {role} : t.ws[r] = o.ws[r] BY <2>5, <2>6
  <2>9. t.ok => WindowsAre(t.ws, p) BY <2>2, <2>3, <2>6, <2>7, <2>8 DEF WindowsAre, Rendered
  <2>10. t.ok => ComesWhole(o.ws[role], t.ws[role]) BY <2>3, <2>6, <2>8 DEF Rendered, ComesWhole
  <2> QED BY <1>2, <2>7, <2>8, <2>9, <2>10 DEF OutcomeIs
<1> QED BY <1>1, <1>2

\* One presentation at a time.
OneOf(ws) == ws["indicator"].shown => ~ws["input"].shown /\ ~ws["candidates"].shown

\* After the three turns one presentation is on the screen.
LEMMA PresentedFacts ==
  ASSUME NEW p, NEW ws, WindowsAre(ws, p), NEW v \in Abc!Views, NEW o \in Abc!Presented(ws, v)
  PROVE  /\ WindowsAre(o.ws, p) /\ OneOf(o.ws) /\ o.ok \in BOOLEAN /\ o.faults \in Nat
         /\ \A r \in Abc!Roles : ComesWhole(ws[r], o.ws[r])
<1> DEFINE start == [ws |-> Abc!Begun(ws, v), ok |-> TRUE, faults |-> 0]
           Good(t) == /\ OutcomeIs(t, p)
                      /\ t.ok => OneOf(t.ws) /\ \A r \in Abc!Roles : ComesWhole(ws[r], t.ws[r])
<1>1. WindowsAre(Abc!Begun(ws, v), p)
  /\ \A r \in Abc!Roles : Abc!Begun(ws, v)[r].shown => r \notin Abc!GivesWay(v) /\ ws[r].shown
  BY BegunFacts
<1>2. OutcomeIs(start, p) /\ start.ws = Abc!Begun(ws, v) BY <1>1 DEF OutcomeIs, WindowsAre
<1> HIDE DEF start
<1>3. ASSUME v.shape = "indicator", NEW t \in Abc!Turns(start, "indicator", v) PROVE Good(t)
  <2>1. /\ OutcomeIs(t, p) /\ \A r \in Abc!Roles \ {"indicator"} : t.ws[r] = Abc!Begun(ws, v)[r]
        /\ t.ok => ComesWhole(Abc!Begun(ws, v)["indicator"], t.ws["indicator"])
    BY <1>2, TurnFacts DEF Abc!Roles
  <2>2. Abc!GivesWay(v) = {"input", "candidates"} BY <1>3 DEF Abc!GivesWay
  <2>3. ~t.ws["input"].shown /\ ~t.ws["candidates"].shown BY <1>1, <2>1, <2>2 DEF Abc!Roles
  <2>4. t.ok => \A r \in Abc!Roles : ComesWhole(ws[r], t.ws[r])
    BY <1>1, <2>1, <2>3 DEF Abc!Roles, ComesWhole
  <2> QED BY <2>1, <2>3, <2>4 DEF OneOf
<1>4. ASSUME v.shape # "indicator", NEW u \in Abc!Turns(start, "candidates", v),
             NEW t \in Abc!Turns(u, "input", v)
      PROVE  Good(t)
  <2>1. /\ OutcomeIs(u, p) /\ \A r \in Abc!Roles \ {"candidates"} : u.ws[r] = Abc!Begun(ws, v)[r]
        /\ u.ok => ComesWhole(Abc!Begun(ws, v)["candidates"], u.ws["candidates"])
    BY <1>2, TurnFacts DEF Abc!Roles
  <2>2. /\ OutcomeIs(t, p) /\ (t.ok => u.ok) /\ \A r \in Abc!Roles \ {"input"} : t.ws[r] = u.ws[r]
        /\ t.ok => ComesWhole(u.ws["input"], t.ws["input"])
    BY <2>1, TurnFacts DEF Abc!Roles
  <2>3. Abc!GivesWay(v) = {"indicator"} BY <1>4 DEF Abc!GivesWay
  <2>4. t.ws["indicator"] = Abc!Begun(ws, v)["indicator"] /\ u.ws["input"] = Abc!Begun(ws, v)["input"]
        /\ t.ws["candidates"] = u.ws["candidates"]
    BY <2>1, <2>2 DEF Abc!Roles
  <2>5. ~t.ws["indicator"].shown BY <1>1, <2>3, <2>4 DEF Abc!Roles
  <2>6. t.ok => \A r \in Abc!Roles : ComesWhole(ws[r], t.ws[r])
    BY <1>1, <2>1, <2>2, <2>4, <2>5 DEF Abc!Roles, ComesWhole
  <2> QED BY <2>2, <2>5, <2>6 DEF OneOf
<1>5. PICK t : Good(t) /\ o = IF t.ok THEN t ELSE [t EXCEPT !.ws = Abc!AllHidden(t.ws)]
  <2> HIDE DEF Good
  <2>1. PICK t \in IF v.shape = "indicator" THEN Abc!Turns(start, "indicator", v)
                   ELSE UNION {Abc!Turns(u, "input", v) : u \in Abc!Turns(start, "candidates", v)} :
          o = IF t.ok THEN t ELSE [t EXCEPT !.ws = Abc!AllHidden(t.ws)]
    BY DEF Abc!Presented, start
  <2>2. CASE v.shape = "indicator" BY <1>3, <2>1, <2>2
  <2>3. CASE v.shape # "indicator"
    <3>1. PICK u \in Abc!Turns(start, "candidates", v) : t \in Abc!Turns(u, "input", v)
      BY <2>1, <2>3
    <3> QED BY <1>4, <2>1, <2>3, <3>1
  <2> QED BY <2>2, <2>3
<1>6. CASE t.ok BY <1>5, <1>6 DEF OutcomeIs
<1>7. CASE ~t.ok
  <2>1. o = [t EXCEPT !.ws = Abc!AllHidden(t.ws)] BY <1>5, <1>7
  <2>2. WindowsAre(Abc!AllHidden(t.ws), p) /\ \A r \in Abc!Roles : ~Abc!AllHidden(t.ws)[r].shown
    BY <1>5, AllHiddenFacts DEF OutcomeIs
  <2> QED BY <1>5, <2>1, <2>2 DEF OneOf, ComesWhole, Abc!Roles, OutcomeIs
<1> QED BY <1>6, <1>7

\* Clicks that wait are of the press on record, and there is one at most.
ClicksAre(clicks) ==
  /\ clicks \in Seq(Abc!Clicks) /\ Len(clicks) <= 1
  /\ Len(clicks) = 1 =>
       /\ held \in Abc!Presses
       /\ clicks[1].id = held.id /\ clicks[1].action = Abc!Invoked(held.hit)

\* However a handler ends, the windows are well or all hidden.
LEMMA AbcSettlesFacts ==
  ASSUME AbcIInv, NEW ws \in [Abc!Roles -> Abc!Windows], NEW clicks, ClicksAre(clicks), NEW current,
         NEW pressing \in Abc!Presses \cup {None}, NEW failing \in BOOLEAN,
         Abc!Settles(ws, clicks, current, pressing, failing),
         ~failing /\ (\A r \in Abc!Roles : ~ws[r].error) => WindowsAre(ws, pressing) /\ OneOf(ws),
         \A r \in Abc!Roles : ComesWhole(window[r], ws[r]),
         live' \in BOOLEAN, view' \in Abc!Views, sink' \in 0..AbcContents \cup {None},
         abcFaults' \in 0..AbcFailures
  PROVE  AbcIInv' /\ \A r \in Abc!Roles : ComesWhole(window[r], window'[r])
<1> DEFINE unwell == failing \/ \E r \in Abc!Roles : ws[r].error
           genuine == {i \in DOMAIN clicks : clicks[i].id = current}
           newest == CHOOSE i \in genuine : \A j \in genuine : j <= i
<1>1. /\ window' = (IF unwell THEN Abc!AllHidden(ws) ELSE ws) /\ ended' = unwell /\ queue' = <<>>
      /\ held' = IF \E r \in Abc!Roles : ws[r].pressed # None THEN pressing ELSE None
      /\ sent' = IF unwell \/ genuine = {} THEN None
                 ELSE [click |-> clicks[newest], press |-> held]
  BY DEF Abc!Settles
<1>2. ended' \in BOOLEAN BY <1>1
<1>3. held' \in Abc!Presses \cup {None} BY <1>1
<1>4. WindowsAre(window', held') /\ OneOf(window')
  <2>1. CASE unwell
    <3>1. window' = Abc!AllHidden(ws) BY <1>1, <2>1
    <3>2. WindowsAre(Abc!AllHidden(ws), held') /\ \A r \in Abc!Roles : ~Abc!AllHidden(ws)[r].shown
      BY AllHiddenFacts
    <3> QED BY <3>1, <3>2 DEF OneOf, Abc!Roles
  <2>2. CASE ~unwell
    <3>1. window' = ws /\ WindowsAre(ws, pressing) /\ OneOf(ws) BY <1>1, <2>2
    <3>2. \A r \in Abc!Roles : WindowIs(r, ws[r], held')
      <4>1. SUFFICES ASSUME NEW r \in Abc!Roles PROVE WindowIs(r, ws[r], held') OBVIOUS
      <4>2. WindowIs(r, ws[r], pressing) BY <3>1 DEF WindowsAre
      <4>3. ws[r].pressed # None => held' = pressing BY <1>1
      <4> QED BY <4>2, <4>3 DEF WindowIs
    <3> QED BY <3>1, <3>2 DEF WindowsAre
  <2> QED BY <2>1, <2>2
<1>5. /\ sent' \in [click : Abc!Clicks, press : Abc!Presses] \cup {None}
      /\ sent' # None => /\ sent'.click.id = sent'.press.id
                        /\ sent'.click.action = Abc!Invoked(sent'.press.hit)
  <2>1. CASE unwell \/ genuine = {} BY <1>1, <2>1
  <2>2. CASE ~(unwell \/ genuine = {})
    <3>0. clicks \in Seq(Abc!Clicks) /\ Len(clicks) \in Nat /\ Len(clicks) <= 1 BY DEF ClicksAre
    <3>1. genuine = {1} /\ Len(clicks) = 1
      <4>1. PICK i : i \in genuine BY <2>2
      <4>2. genuine \subseteq 1..Len(clicks) BY <3>0
      <4> HIDE DEF genuine
      <4>3. i \in 1..Len(clicks) BY <4>1, <4>2
      <4>4. PICK n \in Nat : n = Len(clicks) BY <3>0
      <4>5. n = 1 /\ i = 1 BY <3>0, <4>3, <4>4
      <4>6. 1..1 = {1} OBVIOUS
      <4> QED BY <4>1, <4>2, <4>4, <4>5, <4>6
    <3>2. newest = 1 BY <3>1
    <3> HIDE DEF newest
    <3>3. clicks[1] \in Abc!Clicks
      <4>1. 1 \in 1..Len(clicks) BY <3>1
      <4> QED BY <3>0, <4>1, ElementOfSeq
    <3>4. sent' = [click |-> clicks[1], press |-> held] BY <1>1, <2>2, <3>2
    <3> QED BY <3>1, <3>3, <3>4 DEF ClicksAre
  <2> QED BY <2>1, <2>2
<1>6. \A r \in Abc!Roles : ComesWhole(window[r], window'[r])
  <2>1. CASE unwell
    <3>1. window' = Abc!AllHidden(ws) /\ \A r \in Abc!Roles : ~Abc!AllHidden(ws)[r].shown
      BY <1>1, <2>1, AllHiddenFacts
    <3> QED BY <3>1 DEF ComesWhole
  <2>2. CASE ~unwell BY <1>1, <2>2
  <2> QED BY <2>1, <2>2
<1>7. Abc!TypeOK' BY <1>1, <1>2, <1>3, <1>4, <1>5 DEF Abc!TypeOK, WindowsAre
<1> QED BY <1>4, <1>5, <1>6, <1>7 DEF AbcIInv, WindowsAre, OneOf, Abc!OnePresentation,
  Abc!ClickIsOnePress

\* The parts of the invariant.
LEMMA InvFacts ==
  ASSUME AbcIInv
  PROVE  /\ WindowsAre(window, held) /\ OneOf(window) /\ queue = <<>>
         /\ held \in Abc!Presses \cup {None} /\ view \in Abc!Views /\ abcFaults \in 0..AbcFailures
         /\ sink \in 0..AbcContents \cup {None} /\ live \in BOOLEAN
BY DEF AbcIInv, Abc!TypeOK, WindowsAre, OneOf, Abc!OnePresentation

\* No clicks.
LEMMA NoClicks == ClicksAre(<<>>)
BY DEF ClicksAre

\* A window is due for a drawing only when it is on the screen.
LEMMA InvalidFacts ==
  ASSUME NEW w \in Abc!Windows
  PROVE  /\ Abc!Invalid(w) \in Abc!Windows /\ Abc!Invalid(w).content = w.content
         /\ Abc!Invalid(w).pressed = w.pressed /\ Abc!Invalid(w).captured = w.captured
         /\ Abc!Invalid(w).shown = w.shown /\ Abc!Invalid(w).dirty = w.shown
         /\ Abc!Invalid(w).waiting = w.waiting /\ Abc!Invalid(w).timed = w.timed
BY DEF Abc!Windows, Abc!Invalid

\* A message changes one window, and does not bring it to the screen.
LEMMA OneWindow ==
  ASSUME AbcIInv, NEW role \in Abc!Roles, NEW x \in Abc!Windows,
         NEW pressing \in Abc!Presses \cup {None},
         x.shown => window[role].shown, ~x.error => WindowIs(role, x, pressing),
         role = "candidates" \/ pressing = held,
         NEW clicks, ClicksAre(clicks),
         Abc!Settles([window EXCEPT ![role] = x], clicks, sink, pressing, FALSE),
         UNCHANGED <<live, view, sink>>, abcFaults' \in 0..AbcFailures
  PROVE  AbcIInv' /\ \A r \in Abc!Roles : ComesWhole(window[r], window'[r])
<1> DEFINE ws == [window EXCEPT ![role] = x]
<1>1. WindowsAre(window, held) /\ OneOf(window) BY InvFacts
<1>2. window \in [Abc!Roles -> Abc!Windows] BY <1>1 DEF WindowsAre
<1>3. ws \in [Abc!Roles -> Abc!Windows] /\ ws[role] = x
      /\ \A r \in Abc!Roles \ {role} : ws[r] = window[r]
  BY <1>2
<1> HIDE DEF ws
<1>4. \A r \in Abc!Roles : ComesWhole(window[r], ws[r]) BY <1>3 DEF ComesWhole
<1>5. OneOf(ws) BY <1>1, <1>3 DEF OneOf, Abc!Roles
<1>6. ~x.error => WindowsAre(ws, pressing)
  <2>1. SUFFICES ASSUME ~x.error, NEW r \in Abc!Roles PROVE WindowIs(r, ws[r], pressing)
    BY <1>3 DEF WindowsAre
  <2>2. CASE r = role BY <1>3, <2>1, <2>2
  <2>3. CASE r # role
    <3>1. WindowIs(r, window[r], held) /\ ws[r] = window[r] BY <1>1, <1>3, <2>3 DEF WindowsAre
    <3>2. r = "candidates" => pressing = held BY <2>3
    <3> QED BY <3>1, <3>2 DEF WindowIs
  <2> QED BY <2>2, <2>3
<1>7. (\A r \in Abc!Roles : ~ws[r].error) => WindowsAre(ws, pressing) /\ OneOf(ws) BY <1>3,
  <1>5, <1>6
<1>8. live' \in BOOLEAN /\ view' \in Abc!Views /\ sink' \in 0..AbcContents \cup {None} BY InvFacts
<1>9. Abc!Settles(ws, clicks, sink, pressing, FALSE) BY DEF ws
<1> QED BY <1>3, <1>4, <1>7, <1>8, <1>9, AbcSettlesFacts

\* A view is given to the windows.
LEMMA GivesFacts ==
  ASSUME AbcIInv, NEW ws, WindowsAre(ws, held), NEW v \in Abc!Views, Abc!Gives(ws, v), live' = live,
         \A r \in Abc!Roles : ws[r].shown => window[r].shown
  PROVE  AbcIInv' /\ \A r \in Abc!Roles : ComesWhole(window[r], window'[r])
<1>1. PICK o \in Abc!Presented(ws, v) :
        /\ abcFaults + o.faults <= AbcFailures /\ abcFaults' = abcFaults + o.faults
        /\ sink' = v.id /\ view' = v
        /\ Abc!Settles(o.ws, queue, v.id, held, ~o.ok)
  BY DEF Abc!Gives
<1>2. /\ WindowsAre(o.ws, held) /\ OneOf(o.ws) /\ o.ok \in BOOLEAN /\ o.faults \in Nat
      /\ \A r \in Abc!Roles : ComesWhole(ws[r], o.ws[r])
  BY PresentedFacts
<1>3. \A r \in Abc!Roles : ComesWhole(window[r], o.ws[r]) BY <1>2 DEF ComesWhole
<1>4. live' \in BOOLEAN /\ view' \in Abc!Views /\ sink' \in 0..AbcContents \cup {None}
  BY <1>1, InvFacts DEF Abc!Views
<1>5. abcFaults' \in 0..AbcFailures
  BY <1>1, <1>2, InvFacts, AbcConstants DEF Abc!AbcAssumption
<1>6. ClicksAre(queue) /\ held \in Abc!Presses \cup {None} BY InvFacts, NoClicks
<1>7. o.ws \in [Abc!Roles -> Abc!Windows] /\ (~o.ok) \in BOOLEAN BY <1>2 DEF WindowsAre
<1> QED BY <1>1, <1>2, <1>3, <1>4, <1>5, <1>6, <1>7, AbcSettlesFacts

\* Everything is hidden.
LEMMA WithdrawsFacts ==
  ASSUME AbcIInv, Abc!Withdraws, view' \in Abc!Views, UNCHANGED <<live, abcFaults>>
  PROVE  AbcIInv' /\ \A r \in Abc!Roles : ComesWhole(window[r], window'[r])
<1>1. sink' = None /\ Abc!Settles(Abc!AllHidden(window), <<>>, None, held, FALSE) BY
  DEF Abc!Withdraws
<1>2. window \in [Abc!Roles -> Abc!Windows] BY InvFacts DEF WindowsAre
<1>3. WindowsAre(Abc!AllHidden(window), held) /\ \A r \in Abc!Roles : ~Abc!AllHidden(window)[r].shown
  BY <1>2, AllHiddenFacts
<1>4. OneOf(Abc!AllHidden(window))
      /\ \A r \in Abc!Roles : ComesWhole(window[r], Abc!AllHidden(window)[r])
  BY <1>3 DEF OneOf, ComesWhole, Abc!Roles
<1>5. live' \in BOOLEAN /\ abcFaults' \in 0..AbcFailures /\ held \in Abc!Presses \cup {None}
  BY InvFacts
<1>6. Abc!AllHidden(window) \in [Abc!Roles -> Abc!Windows] BY <1>3 DEF WindowsAre
<1> QED BY <1>1, <1>3, <1>4, <1>5, <1>6, NoClicks, AbcSettlesFacts

Kept == AbcIInv' /\ \A r \in Abc!Roles : ComesWhole(window[r], window'[r])

\* A snapshot of the renderer.
LEMMA ApplyKeeps == AbcIInv /\ Abc!Apply => Kept
<1>1. SUFFICES ASSUME AbcIInv, Abc!Apply PROVE Kept OBVIOUS
<1>2. PICK shape \in Abc!Shapes, enabled \in Abc!Offers, other \in BOOLEAN :
        LET v == [id |-> view.id + 1, shape |-> shape, enabled |-> enabled]
        IN  IF shape = "nothing"
            THEN Abc!Withdraws /\ view' = v /\ UNCHANGED abcFaults
            ELSE Abc!Gives(IF other THEN Abc!AllHidden(window) ELSE window, v)
  BY <1>1 DEF Abc!Apply
<1>3. PICK v : v = [id |-> view.id + 1, shape |-> shape, enabled |-> enabled] OBVIOUS
<1>4. view \in Abc!Views /\ view.id < AbcContents /\ live' = live BY <1>1,
  InvFacts DEF Abc!Apply
<1>5. view.id + 1 \in 0..AbcContents BY <1>4, AbcConstants DEF Abc!Views, Abc!AbcAssumption
<1>6. v \in Abc!Views BY <1>3, <1>5 DEF Abc!Views
<1>7. CASE shape = "nothing"
  <2>1. Abc!Withdraws /\ view' = v /\ UNCHANGED abcFaults BY <1>2, <1>3, <1>7
  <2> QED BY <1>1, <1>4, <1>6, <2>1, WithdrawsFacts DEF Kept
<1>8. CASE shape # "nothing"
  <2> DEFINE ws == IF other THEN Abc!AllHidden(window) ELSE window
  <2>1. Abc!Gives(ws, v) BY <1>2, <1>3, <1>8
  <2>2. WindowsAre(window, held) /\ window \in [Abc!Roles -> Abc!Windows]
    BY <1>1, InvFacts DEF WindowsAre
  <2>3. WindowsAre(ws, held) /\ \A r \in Abc!Roles : ws[r].shown => window[r].shown
    BY <2>2, AllHiddenFacts
  <2> HIDE DEF ws
  <2> QED BY <1>1, <1>4, <1>6, <2>1, <2>3, GivesFacts DEF Kept
<1> QED BY <1>7, <1>8

\* A caret that moved.
LEMMA FollowKeeps == AbcIInv /\ Abc!Follow => Kept
BY InvFacts, GivesFacts DEF Abc!Follow, Kept

\* The renderer is gone.
LEMMA DisconnectKeeps == AbcIInv /\ Abc!Disconnect => Kept
<1>1. SUFFICES ASSUME AbcIInv, Abc!Disconnect PROVE Kept OBVIOUS
<1>2. view' \in Abc!Views
  <2>1. view \in Abc!Views /\ view' = [view EXCEPT !.shape = "nothing"]
    BY <1>1, InvFacts DEF Abc!Disconnect
  <2> QED BY <2>1 DEF Abc!Views, Abc!Shapes
<1> QED BY <1>1, <1>2, WithdrawsFacts DEF Abc!Disconnect, Kept

\* The time of an indicator is over.
LEMMA ExpireKeeps == AbcIInv /\ Abc!Expire => Kept
<1>1. SUFFICES ASSUME AbcIInv, Abc!Expire PROVE Kept OBVIOUS
<1>2. PICK v : v = [view EXCEPT !.id = @ + 1, !.shape = "nothing"] OBVIOUS
<1>3. view \in Abc!Views /\ view.id < AbcContents BY <1>1, InvFacts DEF Abc!Expire
<1>4. view.id + 1 \in 0..AbcContents BY <1>3, AbcConstants DEF Abc!Views, Abc!AbcAssumption
<1>5. v \in Abc!Views BY <1>2, <1>3, <1>4 DEF Abc!Views, Abc!Shapes
<1>6. Abc!Gives(window, v) /\ live' = live BY <1>1, <1>2 DEF Abc!Expire
<1> QED BY <1>1, <1>5, <1>6, InvFacts, GivesFacts DEF Kept

\* The appearance changed.
LEMMA RefreshKeeps == AbcIInv /\ Abc!Refresh => Kept
<1>1. SUFFICES ASSUME AbcIInv, Abc!Refresh PROVE Kept OBVIOUS
<1> DEFINE ws == [r \in Abc!Roles |-> Abc!Invalid(window[r])]
<1>2. WindowsAre(window, held) /\ OneOf(window) BY <1>1, InvFacts
<1>3. \A r \in Abc!Roles : /\ ws[r] \in Abc!Windows /\ WindowIs(r, ws[r], held)
                           /\ ws[r].shown = window[r].shown
  <2>1. SUFFICES ASSUME NEW r \in Abc!Roles
                 PROVE  /\ ws[r] \in Abc!Windows /\ WindowIs(r, ws[r], held)
                        /\ ws[r].shown = window[r].shown
    OBVIOUS
  <2>2. WindowIs(r, window[r], held) /\ window[r] \in Abc!Windows BY <1>2 DEF WindowsAre
  <2>3. ws[r] = Abc!Invalid(window[r]) OBVIOUS
  <2> HIDE DEF ws
  <2> QED BY <2>2, <2>3, InvalidFacts DEF WindowIs
<1>4. WindowsAre(ws, held) BY <1>3 DEF WindowsAre
<1>5. OneOf(ws) /\ \A r \in Abc!Roles : ComesWhole(window[r], ws[r])
  BY <1>2, <1>3 DEF OneOf, ComesWhole, Abc!Roles
<1>6. \/ view.shape # "nothing" /\ Abc!Gives(ws, view)
      \/ Abc!Settles(ws, queue, sink, held, FALSE) /\ UNCHANGED <<view, sink, abcFaults>>
  BY <1>1 DEF Abc!Refresh
<1>7. live' = live BY <1>1 DEF Abc!Refresh
<1> HIDE DEF ws
<1>8. CASE Abc!Gives(ws, view) BY <1>1, <1>3, <1>4, <1>7, <1>8, InvFacts, GivesFacts DEF Kept
<1>9. CASE Abc!Settles(ws, queue, sink, held, FALSE) /\ UNCHANGED <<view, sink, abcFaults>>
  <2>1. /\ live' \in BOOLEAN /\ view' \in Abc!Views /\ sink' \in 0..AbcContents \cup {None}
        /\ abcFaults' \in 0..AbcFailures /\ held \in Abc!Presses \cup {None} /\ ClicksAre(queue)
    BY <1>1, <1>7, <1>9, InvFacts, NoClicks
  <2>2. ws \in [Abc!Roles -> Abc!Windows] BY <1>4 DEF WindowsAre
  <2> QED BY <1>1, <1>4, <1>5, <1>9, <2>1, <2>2, AbcSettlesFacts DEF Kept
<1> QED BY <1>6, <1>8, <1>9

\* The window a message is for, before it.
LEMMA RoleFacts ==
  ASSUME AbcIInv, NEW role \in Abc!Roles
  PROVE  WindowIs(role, window[role], held) /\ window[role] \in Abc!Windows
BY InvFacts DEF WindowsAre

\* A press is remembered with what is shown.
LEMMA PressKeeps ==
  ASSUME AbcIInv, NEW role \in Abc!Roles, NEW cell \in Abc!Cells(role) \cup {None}, Abc!Press(role,
         cell)
  PROVE  Kept
<1> DEFINE w == window[role]
           taken == w.content # None /\ cell # None /\ Abc!Enabled(w.content, cell)
           y == [w EXCEPT !.pressed = IF taken THEN cell ELSE None, !.captured = @ \/ taken]
           pressing == IF taken THEN [id |-> w.content.id, hit |-> cell] ELSE held
<1>1. /\ w.shown /\ UNCHANGED <<live, view, sink, abcFaults>>
      /\ Abc!Settles([window EXCEPT ![role] = Abc!Invalid(y)], queue, sink, pressing, FALSE)
  BY DEF Abc!Press
<1>2. WindowIs(role, w, held) /\ w \in Abc!Windows /\ w.captured \in BOOLEAN
  BY RoleFacts DEF Abc!Windows
<1>3. taken \in BOOLEAN BY DEF Abc!Enabled
<1>4. taken => role = "candidates" /\ cell \in Abc!Hits BY DEF Abc!Cells
<1>5. y \in Abc!Windows /\ y.content = w.content /\ y.shown = w.shown /\ y.waiting = w.waiting
      /\ y.timed = w.timed /\ y.pressed = IF taken THEN cell ELSE None
  <2>1. PICK q : q = IF taken THEN cell ELSE None OBVIOUS
  <2>2. PICK c \in BOOLEAN : c = (w.captured \/ taken) BY <1>2, <1>3
  <2>3. y = [w EXCEPT !.pressed = q, !.captured = c] BY <2>1, <2>2
  <2>4. q \in Abc!Hits \cup {None} BY <1>4, <2>1
  <2> HIDE DEF y
  <2> QED BY <1>2, <2>1, <2>3, <2>4 DEF Abc!Windows
<1>6. taken => w.content.id \in 0..AbcContents BY <1>2 DEF Abc!Windows, Abc!Views
<1>7. pressing \in Abc!Presses \cup {None} BY <1>4, <1>6, InvFacts DEF Abc!Presses
<1>8. taken => pressing = [id |-> w.content.id, hit |-> cell] OBVIOUS
<1>9. ~taken => pressing = held OBVIOUS
<1> HIDE DEF y, pressing, taken
<1>10. WindowIs(role, Abc!Invalid(y), pressing) /\ Abc!Invalid(y) \in Abc!Windows
       /\ Abc!Invalid(y).shown = w.shown
  BY <1>1, <1>2, <1>4, <1>5, <1>8, InvalidFacts DEF WindowIs
<1>11. abcFaults' \in 0..AbcFailures /\ ClicksAre(queue) BY <1>1, InvFacts, NoClicks
<1>12. role = "candidates" \/ pressing = held BY <1>4, <1>9
<1> QED BY <1>1, <1>7, <1>10, <1>11, <1>12, OneWindow DEF Kept

\* A message that leaves its window as x, and clicks of the press on record.
LEMMA LeavesFacts ==
  ASSUME AbcIInv, NEW role \in Abc!Roles, NEW x \in Abc!Windows, NEW clicks, ClicksAre(clicks),
         Abc!Leaves(role, x, clicks), x.shown => window[role].shown,
         ~x.error => WindowIs(role, x, held),
         UNCHANGED <<live, view, sink>>, abcFaults' \in 0..AbcFailures
  PROVE  Kept
<1>1. queue \o clicks = clicks
  <2>1. queue = <<>> /\ clicks \in Seq(Abc!Clicks) BY InvFacts DEF ClicksAre
  <2> QED BY <2>1
<1> QED BY <1>1, InvFacts, OneWindow DEF Abc!Leaves, Kept

\* A movement off the pressed control lets it go.
LEMMA MotionKeeps ==
  ASSUME AbcIInv, NEW role \in Abc!Roles, NEW cell \in Abc!Cells(role) \cup {None}, Abc!Motion(role,
         cell)
  PROVE  Kept
<1> DEFINE w == window[role]
           y == [w EXCEPT !.pressed = IF @ = cell THEN @ ELSE None]
<1>1. w.shown /\ UNCHANGED <<live, view, sink, abcFaults>> /\ Abc!Leaves(role, Abc!Invalid(y), <<>>)
  BY DEF Abc!Motion
<1>2. WindowIs(role, w, held) /\ w \in Abc!Windows BY RoleFacts
<1>3. /\ y \in Abc!Windows /\ y.content = w.content /\ y.shown = w.shown /\ y.waiting = w.waiting
      /\ y.timed = w.timed /\ (y.pressed = w.pressed \/ y.pressed = None)
  <2>1. PICK q : q = IF w.pressed = cell THEN w.pressed ELSE None OBVIOUS
  <2>2. y = [w EXCEPT !.pressed = q] BY <2>1
  <2>3. q \in Abc!Hits \cup {None} BY <1>2, <2>1 DEF Abc!Windows
  <2> HIDE DEF y
  <2> QED BY <1>2, <2>1, <2>2, <2>3 DEF Abc!Windows
<1> HIDE DEF y
<1>4. WindowIs(role, Abc!Invalid(y), held) /\ Abc!Invalid(y) \in Abc!Windows
      /\ Abc!Invalid(y).shown = w.shown
  BY <1>1, <1>2, <1>3, InvalidFacts DEF WindowIs
<1> QED BY <1>1, <1>4, InvFacts, NoClicks, LeavesFacts

\* A window that gives its press up and is drawn again.
LEMMA CalmFacts ==
  ASSUME AbcIInv, NEW role \in Abc!Roles
  PROVE  LET x == Abc!Invalid(Abc!Cancelled(window[role]))
         IN  /\ x \in Abc!Windows /\ WindowIs(role, x, held) /\ x.shown = window[role].shown
             /\ x.content = window[role].content /\ x.pressed = None /\ ~x.captured
             /\ x.dirty = x.shown /\ x.waiting = window[role].waiting
             /\ x.timed = window[role].timed
<1>1. WindowIs(role, window[role], held) /\ window[role] \in Abc!Windows BY RoleFacts
<1>2. Abc!Cancelled(window[role]) \in Abc!Windows BY <1>1, CancelledFacts
<1> QED BY <1>1, <1>2, CancelledFacts, InvalidFacts DEF WindowIs

\* A release clicks only what was pressed.
LEMMA ReleaseKeeps ==
  ASSUME AbcIInv, NEW role \in Abc!Roles, NEW cell \in Abc!Cells(role) \cup {None}, Abc!Release(role,
         cell)
  PROVE  Kept
<1> DEFINE w == window[role]
           x == Abc!Invalid(Abc!Cancelled(w))
           clicks == Abc!Released(w, cell)
<1>1. UNCHANGED <<live, view, sink, abcFaults>> /\ Abc!Leaves(role, x, clicks) BY
  DEF Abc!Release
<1>2. x \in Abc!Windows /\ WindowIs(role, x, held) /\ x.shown = w.shown BY CalmFacts
<1>3. ClicksAre(clicks)
  <2>1. CASE clicks = <<>> BY <2>1, NoClicks
  <2>2. CASE clicks # <<>>
    <3>1. /\ w.content # None /\ w.pressed # None /\ cell = w.pressed
          /\ clicks = <<[id |-> w.content.id, action |-> Abc!Invoked(cell)]>>
      BY <2>2 DEF Abc!Released
    <3>2. WindowIs(role, w, held) /\ w \in Abc!Windows BY RoleFacts
    <3>3. held = [id |-> w.content.id, hit |-> cell] BY <3>1, <3>2 DEF WindowIs
    <3>4. w.content.id \in 0..AbcContents /\ cell \in Abc!Hits BY <3>1, <3>2 DEF Abc!Windows,
      Abc!Views
    <3>5. held \in Abc!Presses BY <3>3, <3>4 DEF Abc!Presses
    <3>6. PICK c : c = [id |-> w.content.id, action |-> Abc!Invoked(cell)] OBVIOUS
    <3>7. c \in Abc!Clicks BY <3>4, <3>6 DEF Abc!Clicks, Abc!Invoked
    <3>8. clicks = <<c>> BY <3>1, <3>6
    <3>9. c.id = held.id /\ c.action = Abc!Invoked(held.hit) BY <3>3, <3>6
    <3> HIDE DEF clicks
    <3> QED BY <3>5, <3>7, <3>8, <3>9 DEF ClicksAre
  <2> QED BY <2>1, <2>2
<1> QED BY <1>1, <1>2, <1>3, InvFacts, LeavesFacts

\* The capture is lost.
LEMMA CancelKeeps == ASSUME AbcIInv, NEW role \in Abc!Roles, Abc!Cancel(role) PROVE Kept
BY CalmFacts, InvFacts, NoClicks, LeavesFacts DEF Abc!Cancel

\* A window draws what it shows.
LEMMA PaintKeeps == ASSUME AbcIInv, NEW role \in Abc!Roles, Abc!Paint(role) PROVE Kept
<1> DEFINE w == window[role]
           clean == [w EXCEPT !.dirty = FALSE]
<1>1. /\ w.dirty /\ UNCHANGED <<live, view, sink>>
      /\ \/ clean.waiting /\ Abc!Leaves(role, clean, <<>>) /\ UNCHANGED abcFaults
         \/ \E d \in Abc!Drawings(clean) :
              /\ abcFaults + d.faults <= AbcFailures /\ abcFaults' = abcFaults + d.faults
              /\ Abc!Leaves(role, d.w, <<>>)
  BY DEF Abc!Paint
<1>2. WindowIs(role, w, held) /\ w \in Abc!Windows BY RoleFacts
<1>3. /\ clean \in Abc!Windows /\ clean.content = w.content /\ clean.pressed = w.pressed
      /\ clean.captured = w.captured /\ clean.shown = w.shown /\ ~clean.dirty
      /\ clean.waiting = w.waiting /\ clean.timed = w.timed
  BY <1>2 DEF Abc!Windows
<1> HIDE DEF clean
<1>4. CASE clean.waiting /\ Abc!Leaves(role, clean, <<>>) /\ UNCHANGED abcFaults
  <2>1. WindowIs(role, clean, held) BY <1>2, <1>3, <1>4 DEF WindowIs
  <2> QED BY <1>1, <1>3, <1>4, <2>1, InvFacts, NoClicks, LeavesFacts
<1>5. ASSUME NEW d \in Abc!Drawings(clean), abcFaults + d.faults <= AbcFailures,
             abcFaults' = abcFaults + d.faults, Abc!Leaves(role, d.w, <<>>)
      PROVE  Kept
  <2>1. /\ d.w \in Abc!Windows /\ d.faults \in Nat
        /\ d.w.content = w.content /\ d.w.pressed = w.pressed /\ d.w.captured = w.captured
        /\ d.w.shown = w.shown
        /\ \/ d.w.error
           \/ d.w.waiting /\ d.w.timed
           \/ ~d.w.waiting /\ d.w.pixels = [id |-> IF w.content = None THEN 0 ELSE w.content.id,
                                             pressed |-> w.pressed]
    BY <1>3, DrawingFacts
  <2>2. ~d.w.error => WindowIs(role, d.w, held) BY <1>2, <2>1 DEF WindowIs
  <2>3. abcFaults' \in 0..AbcFailures BY <1>5, <2>1, InvFacts,
    AbcConstants DEF Abc!AbcAssumption
  <2> QED BY <1>1, <1>5, <2>1, <2>2, <2>3, NoClicks, LeavesFacts
<1> QED BY <1>1, <1>4, <1>5

\* A window comes to a monitor of another DPI.
LEMMA RescaleKeeps == ASSUME AbcIInv, NEW role \in Abc!Roles, Abc!Rescale(role) PROVE Kept
<1> DEFINE calm == Abc!Invalid(Abc!Cancelled(window[role]))
<1>1. /\ UNCHANGED <<live, view, sink>>
      /\ \E d \in {[w |-> calm, faults |-> 0], [w |-> [calm EXCEPT !.error = TRUE], faults |-> 1]}
                 \cup (IF calm.target THEN {[w |-> Abc!Broken(calm, "lost"), faults |-> 1]} ELSE {}) :
            /\ abcFaults + d.faults <= AbcFailures /\ abcFaults' = abcFaults + d.faults
            /\ Abc!Leaves(role, d.w, <<>>)
  BY DEF Abc!Rescale
<1>2. /\ calm \in Abc!Windows /\ WindowIs(role, calm, held) /\ calm.shown = window[role].shown
      /\ calm.dirty = calm.shown /\ calm.pressed = None /\ ~calm.captured
  BY CalmFacts
<1> HIDE DEF calm
<1>3. \E x : \E n \in {0, 1} :
        /\ abcFaults + n <= AbcFailures /\ abcFaults' = abcFaults + n
        /\ Abc!Leaves(role, x, <<>>)
        /\ x = calm \/ x = [calm EXCEPT !.error = TRUE] \/ x = Abc!Broken(calm, "lost")
  <2>1. PICK d \in {[w |-> calm, faults |-> 0], [w |-> [calm EXCEPT !.error = TRUE], faults |-> 1]}
                  \cup (IF calm.target THEN {[w |-> Abc!Broken(calm, "lost"), faults |-> 1]} ELSE {}) :
          /\ abcFaults + d.faults <= AbcFailures /\ abcFaults' = abcFaults + d.faults
          /\ Abc!Leaves(role, d.w, <<>>)
    BY <1>1
  <2>2. PICK e : e = [calm EXCEPT !.error = TRUE] OBVIOUS
  <2>3. \/ d = [w |-> calm, faults |-> 0] \/ d = [w |-> e, faults |-> 1]
        \/ d = [w |-> Abc!Broken(calm, "lost"), faults |-> 1]
    BY <2>1, <2>2, Zenon
  <2>4. d.faults \in {0, 1} /\ (d.w = calm \/ d.w = e \/ d.w = Abc!Broken(calm, "lost")) BY <2>3
  <2> WITNESS d.w
  <2> WITNESS d.faults \in {0, 1}
  <2> QED BY <2>1, <2>2, <2>4
<1>4. PICK x : \E n \in {0, 1} :
        /\ abcFaults + n <= AbcFailures /\ abcFaults' = abcFaults + n
        /\ Abc!Leaves(role, x, <<>>)
        /\ x = calm \/ x = [calm EXCEPT !.error = TRUE] \/ x = Abc!Broken(calm, "lost")
  BY <1>3
<1>5. abcFaults' \in 0..AbcFailures BY <1>4, InvFacts, AbcConstants DEF Abc!AbcAssumption
<1>6. /\ x \in Abc!Windows /\ x.shown = calm.shown /\ x.content = calm.content
      /\ x.pressed = calm.pressed /\ x.captured = calm.captured /\ x.dirty = calm.dirty
      /\ x.error \/ (x.waiting => x.timed)
  <2>1. CASE x = calm BY <1>2, <2>1 DEF WindowIs
  <2>2. CASE x = [calm EXCEPT !.error = TRUE] BY <1>2, <2>2 DEF Abc!Windows
  <2>3. CASE x = Abc!Broken(calm, "lost")
    <3>1. CASE calm.failures = AbcRetries BY <1>2, <2>3, <3>1 DEF Abc!Windows, Abc!Broken
    <3>2. CASE calm.failures # AbcRetries
      <4>1. calm.failures + 1 \in 0..AbcRetries BY <1>2, <3>2, AbcConstants DEF Abc!Windows,
        Abc!AbcAssumption
      <4>2. x = [calm EXCEPT !.target = FALSE, !.failures = @ + 1, !.waiting = TRUE, !.timed = TRUE]
        BY <2>3, <3>2 DEF Abc!Broken
      <4>3. PICK n : n = calm.failures + 1 OBVIOUS
      <4>4. x = [calm EXCEPT !.target = FALSE, !.failures = n, !.waiting = TRUE, !.timed = TRUE]
        BY <4>2, <4>3
      <4>5. n \in 0..AbcRetries BY <4>1, <4>3
      <4>6. x \in Abc!Windows BY <1>2, <4>4, <4>5 DEF Abc!Windows
      <4> QED BY <1>2, <4>4, <4>6 DEF Abc!Windows
    <3> QED BY <3>1, <3>2
  <2> QED BY <1>4, <2>1, <2>2, <2>3
<1>7. ~x.error => WindowIs(role, x, held) BY <1>2, <1>6 DEF WindowIs
<1> QED BY <1>1, <1>2, <1>4, <1>5, <1>6, <1>7, NoClicks, LeavesFacts

\* The timer of a lost device.
LEMMA RetryKeeps == ASSUME AbcIInv, NEW role \in Abc!Roles, Abc!Retry(role) PROVE Kept
<1> DEFINE w == window[role]
           y == [w EXCEPT !.timed = FALSE, !.waiting = FALSE]
<1>1. UNCHANGED <<live, view, sink, abcFaults>> /\ Abc!Leaves(role, Abc!Invalid(y), <<>>)
  BY DEF Abc!Retry
<1>2. WindowIs(role, w, held) /\ w \in Abc!Windows BY RoleFacts
<1>3. /\ y \in Abc!Windows /\ y.content = w.content /\ y.shown = w.shown /\ ~y.waiting
      /\ y.pressed = w.pressed /\ y.captured = w.captured
  BY <1>2 DEF Abc!Windows
<1> HIDE DEF y
<1>4. WindowIs(role, Abc!Invalid(y), held) /\ Abc!Invalid(y) \in Abc!Windows
      /\ Abc!Invalid(y).shown = w.shown
  BY <1>2, <1>3, InvalidFacts DEF WindowIs
<1> QED BY <1>1, <1>4, InvFacts, NoClicks, LeavesFacts

\* Every step of abc keeps the invariant, and shows no window with an old frame.
LEMMA AbcStep == AbcIInv /\ Abc!Next => Kept
BY ApplyKeeps, FollowKeeps, DisconnectKeeps, ExpireKeeps, RefreshKeeps, PressKeeps, MotionKeeps,
   ReleaseKeeps, CancelKeeps, PaintKeeps, RescaleKeeps, RetryKeeps DEF Abc!Next

\* A step elsewhere keeps it.
LEMMA AbcStutter == AbcIInv /\ UNCHANGED Abc!vars => AbcIInv'
BY DEF AbcIInv, Abc!vars, Abc!TypeOK, Abc!OnePresentation, Abc!ClickIsOnePress, WindowIs

\* Every step keeps the invariant of abc, and what comes to the screen is new.
LEMMA AbcKeeps ==
  AbcIInv /\ [Abc!Next]_Abc!vars =>
    /\ AbcIInv'
    /\ [\A r \in Abc!Roles : ~window[r].shown /\ window'[r].shown =>
          window'[r].waiting \/ window'[r].pixels.id = window'[r].content.id]_Abc!vars
<1>1. AbcIInv /\ [Abc!Next]_Abc!vars => AbcIInv' BY AbcStep, AbcStutter DEF Kept
<1>2. AbcIInv /\ [Abc!Next]_Abc!vars =>
        [\A r \in Abc!Roles : ~window[r].shown /\ window'[r].shown =>
            window'[r].waiting \/ window'[r].pixels.id = window'[r].content.id]_Abc!vars
  BY AbcStep DEF Kept, ComesWhole
<1> QED BY <1>1, <1>2

-----------------------------------------------------------------------------
(* The theme ten.                                                          *)

\* What ten assumes of its sizes.
LEMMA TenConstants == Ten!TenAssumption
BY ConstantsAreRight DEF ThemesAssumption

TenIInv == Ten!Inv /\ (tenShown <=> tenContent # None)

\* The bounds are numbers, and the mark is no content.
LEMMA TenSizes ==
  /\ TenContents \in Nat /\ TenFailures \in Nat /\ TenRetries \in Nat
  /\ None \notin Ten!Hits /\ None \notin Ten!Contents /\ None \notin Ten!Sizes
BY TenConstants DEF Ten!TenAssumption

\* A walk of the window has two DPIs at least, all of them of monitors.
TenIsWalk(w) == w \in Seq(Dpis) /\ Len(w) \in Nat /\ Len(w) >= 2

\* A placing that goes on is one of more monitors.
LEMMA TenMoreWalks ==
  ASSUME NEW S, \A w \in S : TenIsWalk(w)
  PROVE  \A w \in Ten!More(S) : TenIsWalk(w)
<1>1. ASSUME NEW w, TenIsWalk(w), NEW v \in Ten!From(w) PROVE TenIsWalk(v)
  <2>1. PICK d \in Dpis : v = Append(w, d) BY <1>1 DEF Ten!From
  <2>2. w \in Seq(Dpis) BY <1>1 DEF TenIsWalk
  <2>3. v \in Seq(Dpis) /\ Len(v) = Len(w) + 1 BY <2>1, <2>2
  <2> QED BY <1>1, <2>3 DEF TenIsWalk
<1> QED BY <1>1 DEF Ten!More

\* However long a placing takes, it ends at a DPI of some monitor.
LEMMA TenWalkFacts ==
  ASSUME dpi \in Dpis
  PROVE  \A w \in Ten!Walks : w[Len(w)] \in Dpis /\ w[Len(w) - 1] \in Dpis
<1>1. ASSUME NEW w \in Ten!From(<<dpi>>) PROVE TenIsWalk(w)
  <2>1. PICK d \in Dpis : w = Append(<<dpi>>, d) BY DEF Ten!From
  <2>2. <<dpi>> \in Seq(Dpis) /\ Len(<<dpi>>) = 1 OBVIOUS
  <2>3. w \in Seq(Dpis) /\ Len(w) = 2 BY <2>1, <2>2
  <2> QED BY <2>3 DEF TenIsWalk
<1>2. \A w \in Ten!Walks : TenIsWalk(w)
  <2>1. \A w \in Ten!More(Ten!From(<<dpi>>)) : TenIsWalk(w) BY <1>1, TenMoreWalks
  <2> QED BY <2>1, TenMoreWalks DEF Ten!Walks
<1>3. ASSUME NEW w, TenIsWalk(w) PROVE w[Len(w)] \in Dpis /\ w[Len(w) - 1] \in Dpis
  BY <1>3 DEF TenIsWalk
<1> QED BY <1>2, <1>3

\* Where a window that shows c is placed.
LEMMA TenPlacedFacts ==
  ASSUME dpi \in Dpis, NEW c, c.id \in 0 .. TenContents, NEW p \in Ten!Placed(c)
  PROVE  /\ p.dpi \in Dpis /\ p.size \in Ten!Sizes /\ p.target \in Ten!Sizes \cup {None}
         /\ p.astray \in BOOLEAN
         /\ ~p.astray => /\ p.size = [id |-> c.id, dpi |-> p.dpi]
                         /\ p.target # None => p.target = p.size
<1>1. PICK w \in Ten!Walks :
        p = [size |-> [id |-> c.id, dpi |-> w[Len(w) - 1]], dpi |-> w[Len(w)], astray |-> ~Ten!Keeps(w),
             target |-> IF target = None THEN None ELSE [id |-> c.id, dpi |-> w[Len(w)]]]
  BY DEF Ten!Placed
<1>2. PICK a \in Dpis, b \in Dpis : a = w[Len(w)] /\ b = w[Len(w) - 1] BY TenWalkFacts
<1>3. Ten!Keeps(w) <=> a = b BY <1>2 DEF Ten!Keeps
<1>4. /\ p.size = [id |-> c.id, dpi |-> b] /\ p.dpi = a /\ p.astray = ~Ten!Keeps(w)
      /\ p.target = IF target = None THEN None ELSE [id |-> c.id, dpi |-> a]
  BY <1>1, <1>2
<1>5. Ten!Keeps(w) \in BOOLEAN BY DEF Ten!Keeps
<1>6. [id |-> c.id, dpi |-> a] \in Ten!Sizes /\ [id |-> c.id, dpi |-> b] \in Ten!Sizes BY
  DEF Ten!Sizes
<1>7. ~p.astray => a = b BY <1>3, <1>4, <1>5
<1> QED BY <1>4, <1>5, <1>6, <1>7

\* The theme starts hidden.
LEMMA TenInit == Ten!Init => TenIInv
<1>1. SUFFICES ASSUME Ten!Init PROVE TenIInv OBVIOUS
<1>2. size \in Ten!Sizes /\ target \in Ten!Sizes BY <1>1, TenSizes DEF Ten!Init, Ten!Sizes
<1>3. /\ system \in Ten!Palettes /\ palette \in Ten!Palettes /\ tenContent = None /\ ~tenShown
      /\ ~captured
      /\ ~dirty /\ dpi \in Dpis /\ astray \in BOOLEAN /\ tenError \in BOOLEAN /\ tenSent = None
      /\ captured \in BOOLEAN /\ tenShown \in BOOLEAN /\ dirty \in BOOLEAN
  BY <1>1 DEF Ten!Init
<1>4. gesture \in [pressed : Ten!Hits \cup {None}, hovered : Ten!Hits \cup {None}]
  BY <1>1 DEF Ten!Init, Ten!NoGesture
<1>5. tenRecovery \in [failures : 0..TenRetries, waiting : BOOLEAN, timed : BOOLEAN]
      /\ tenFaults \in 0..TenFailures
  BY <1>1, TenSizes DEF Ten!Init, Ten!Calm
<1>6. pixels \in [id : 0..TenContents, hovered : Ten!Hits \cup {None}, palette : Ten!Palettes]
  BY <1>1, <1>3, TenSizes DEF Ten!Init
<1>7. Ten!TypeOK BY <1>2, <1>3, <1>4, <1>5, <1>6 DEF Ten!TypeOK
<1> QED BY <1>3, <1>7 DEF TenIInv, Ten!Inv, Ten!FitsItsMonitor, Ten!DrawnAsItIs

\* The groups of TypeOK, one for each kind of thing that a handler leaves alone.
TenColours == system \in Ten!Palettes /\ palette \in Ten!Palettes
Input == gesture \in [pressed : Ten!Hits \cup {None}, hovered : Ten!Hits \cup {None}]
  /\ captured \in BOOLEAN
Surface == dpi \in Dpis /\ size \in Ten!Sizes /\ target \in Ten!Sizes \cup {None} /\ astray \in BOOLEAN
Picture ==
  /\ tenRecovery \in [failures : 0..TenRetries, waiting : BOOLEAN, timed : BOOLEAN]
  /\ pixels \in [id : 0..TenContents, hovered : Ten!Hits \cup {None}, palette : Ten!Palettes]
  /\ tenError \in BOOLEAN /\ tenFaults \in 0..TenFailures
Screen == tenContent \in Ten!Contents \cup {None} /\ tenShown \in BOOLEAN /\ dirty \in BOOLEAN
Message == tenSent = None \/ tenSent \in [id : 1..TenContents, hit : Ten!Hits]

\* The types, group by group.
LEMMA TenGroups ==
  Ten!TypeOK <=> TenColours /\ Input /\ Surface /\ Picture /\ Screen /\ Message
BY DEF Ten!TypeOK, TenColours, Input, Surface, Picture, Screen, Message

\* The same of the next state.
LEMMA TenGroupsNext ==
  TenColours' /\ Input' /\ Surface' /\ Picture' /\ Screen' /\ Message' => Ten!TypeOK'
BY DEF Ten!TypeOK, TenColours, Input, Surface, Picture, Screen, Message, Ten!Contents,
   Ten!Sizes, Ten!Palettes, Ten!Hits

\* A group is kept when its variables are.
LEMMA TenGroupsStay ==
  /\ TenColours /\ UNCHANGED <<system, palette>> => TenColours'
  /\ Input /\ UNCHANGED <<gesture, captured>> => Input'
  /\ Surface /\ UNCHANGED Ten!surface => Surface'
  /\ Picture /\ UNCHANGED <<tenRecovery, pixels, tenFaults, tenError>> => Picture'
  /\ Screen /\ UNCHANGED <<tenContent, tenShown, dirty>> => Screen'
  /\ Message /\ UNCHANGED tenSent => Message'
BY DEF TenColours, Input, Surface, Ten!surface, Picture, Screen, Message, Ten!Contents,
   Ten!Sizes, Ten!Palettes, Ten!Hits

\* A step that tells nothing keeps the message's type.
LEMMA QuietMessage == Ten!Quiet => Message'
BY DEF Ten!Quiet, Message

\* A gesture that ends leaves nothing pressed.
LEMMA ReleasedInput ==
  gesture' = Ten!NoGesture /\ captured' = FALSE => Input'
<1>1. Ten!NoGesture \in [pressed : Ten!Hits \cup {None}, hovered : Ten!Hits \cup {None}] BY
  DEF Ten!NoGesture
<1> QED BY <1>1 DEF Input, Ten!Hits

\* A drawing that fails leaves the theme failed or waiting.
LEMMA Unwell ==
  ASSUME Picture, NEW cause, Ten!Breaks(cause), Ten!Faulty, UNCHANGED pixels
  PROVE  Picture' /\ (tenError' \/ tenRecovery'.waiting) /\ target' = None /\ (tenError => tenError')
<1>1. PICK f \in 0 .. TenFailures : f = tenFaults BY DEF Picture
<1>2. tenFaults' \in 0 .. TenFailures BY <1>1, TenSizes DEF Ten!Faulty
<1>3. target' = None BY DEF Ten!Breaks
<1>4. CASE cause = "lost" /\ tenRecovery.failures < TenRetries
  <2>1. PICK k \in 0 .. TenRetries : k = tenRecovery.failures BY DEF Picture
  <2>2. k + 1 \in 0 .. TenRetries BY <1>4, <2>1, TenSizes
  <2>3. tenRecovery' = [failures |-> k + 1, waiting |-> TRUE, timed |-> TRUE] /\ tenError' = tenError
    BY <1>4, <2>1 DEF Ten!Breaks
  <2>4. tenRecovery' \in [failures : 0..TenRetries, waiting : BOOLEAN, timed : BOOLEAN]
        /\ tenRecovery'.waiting
    BY <2>2, <2>3
  <2> QED BY <1>2, <1>3, <2>3, <2>4 DEF Picture
<1>5. CASE ~(cause = "lost" /\ tenRecovery.failures < TenRetries)
  BY <1>2, <1>3, <1>5 DEF Ten!Breaks, Ten!Fails, Picture
<1> QED BY <1>4, <1>5

\* What a painting leaves: the picture of what it is given, or a device that is lost.
LEMMA PaintsFacts ==
  ASSUME Picture, NEW c, c = None \/ c.id \in 0 .. TenContents,
         NEW g, g.hovered \in Ten!Hits \cup {None}, palette' \in Ten!Palettes,
         NEW at, at.size \in Ten!Sizes, at.target \in Ten!Sizes \cup {None}, Ten!Paints(c, g, at)
  PROVE  /\ Picture' /\ target' \in Ten!Sizes \cup {None}
         /\ target' \in {None, at.size, at.target}
         /\ \/ tenError' \/ tenRecovery'.waiting
            \/ pixels' = [id |-> IF c = None THEN 0 ELSE c.id, hovered |-> g.hovered,
                          palette |-> palette']
<1>1. CASE /\ pixels' = [id |-> IF c = None THEN 0 ELSE c.id, hovered |-> g.hovered,
                         palette |-> palette']
           /\ target' = IF at.target = None THEN at.size ELSE at.target
           /\ tenRecovery' = [tenRecovery EXCEPT !.failures = 0, !.waiting = FALSE]
           /\ UNCHANGED <<tenFaults, tenError>>
  <2>1. (IF c = None THEN 0 ELSE c.id) \in 0 .. TenContents BY TenSizes
  <2>2. pixels' \in [id : 0..TenContents, hovered : Ten!Hits \cup {None}, palette : Ten!Palettes]
    BY <1>1, <2>1
  <2>3. tenRecovery' \in [failures : 0..TenRetries, waiting : BOOLEAN, timed : BOOLEAN]
    <3>1. 0 \in 0 .. TenRetries BY TenSizes
    <3> QED BY <1>1, <3>1 DEF Picture
  <2>4. tenError' \in BOOLEAN /\ tenFaults' \in 0 .. TenFailures BY <1>1 DEF Picture
  <2>5. Picture' BY <2>2, <2>3, <2>4 DEF Picture, Ten!Palettes, Ten!Hits
  <2> QED BY <1>1, <2>5
<1>2. CASE \E cause \in {"lost", "other"} : Ten!Faulty /\ Ten!Breaks(cause) /\ UNCHANGED pixels
  BY <1>2, Unwell
<1> QED BY <1>1, <1>2 DEF Ten!Paints

\* The parts of the invariant.
LEMMA TenFacts ==
  ASSUME TenIInv
  PROVE  /\ TenColours /\ Input /\ Surface /\ Picture /\ Screen /\ Message
         /\ Ten!FitsItsMonitor /\ Ten!DrawnAsItIs /\ (tenShown <=> tenContent # None)
BY TenGroups DEF TenIInv, Ten!Inv

\* A step that leaves the surface and the content alone keeps what fits.
LEMMA FitsStays ==
  ASSUME TenIInv, UNCHANGED <<Ten!surface, tenContent, tenShown>>, tenError => tenError'
  PROVE  Ten!FitsItsMonitor'
BY TenFacts DEF Ten!FitsItsMonitor, Ten!surface

\* The same content at another place.
LEMMA RenderMovedStep == TenIInv /\ Ten!RenderMoved => TenIInv'
<1> SUFFICES ASSUME TenIInv, Ten!RenderMoved PROVE TenIInv' OBVIOUS
<1>1. PICK p \in Ten!Placed(tenContent) :
        /\ Ten!Settled(p) /\ target' = p.target
        /\ IF p.dpi # dpi
           THEN gesture' = Ten!NoGesture /\ captured' = FALSE /\ dirty' = tenShown
           ELSE UNCHANGED <<gesture, captured, dirty>>
  BY DEF Ten!RenderMoved
<1>2. ~tenError /\ tenContent # None /\ Ten!Quiet
      /\ UNCHANGED <<system, palette, tenContent, tenRecovery, tenShown, pixels, tenFaults, tenError>>
  BY DEF Ten!RenderMoved
<1>3. tenContent \in Ten!Contents /\ tenShown /\ tenContent.id \in 0 .. TenContents
  BY <1>2, TenFacts, TenSizes DEF Screen, Ten!Contents
<1>4. dpi \in Dpis BY TenFacts DEF Surface
<1>5. /\ dpi' = p.dpi /\ size' = p.size /\ target' = p.target /\ astray' = p.astray
      /\ p.dpi \in Dpis /\ p.size \in Ten!Sizes /\ p.target \in Ten!Sizes \cup {None}
      /\ p.astray \in BOOLEAN
      /\ ~p.astray => /\ p.size = [id |-> tenContent.id, dpi |-> p.dpi]
                      /\ p.target # None => p.target = p.size
  BY <1>1, <1>3, <1>4, TenPlacedFacts DEF Ten!Settled
<1>6. Surface' BY <1>5 DEF Surface, Ten!Sizes
<1>7. Input' BY <1>1, TenFacts, TenGroupsStay, ReleasedInput
<1>8. Screen' BY <1>1, <1>2, TenFacts DEF Screen, Ten!Contents
<1>9. Ten!FitsItsMonitor' BY <1>2, <1>5 DEF Ten!FitsItsMonitor
<1>10. Ten!DrawnAsItIs'
  <2>1. CASE p.dpi # dpi BY <1>1, <1>2, <1>3, <2>1 DEF Ten!DrawnAsItIs
  <2>2. CASE p.dpi = dpi BY <1>1, <1>2, <2>2, TenFacts DEF Ten!DrawnAsItIs
  <2> QED BY <2>1, <2>2
<1>11. TenColours' /\ Picture' BY <1>2, TenFacts, TenGroupsStay
<1>12. Ten!TypeOK' BY <1>2, <1>6, <1>7, <1>8, <1>11, TenGroupsNext, QuietMessage
<1> QED BY <1>2, <1>3, <1>9, <1>10, <1>12 DEF TenIInv, Ten!Inv

\* A new content is placed and sized at the DPI it ends at.
LEMMA TenRenderNewStep == TenIInv /\ Ten!RenderNew => TenIInv'
<1> SUFFICES ASSUME TenIInv, Ten!RenderNew PROVE TenIInv' OBVIOUS
<1>1. PICK k : k = IF tenContent = None THEN pixels.id ELSE tenContent.id OBVIOUS
<1>2. PICK shape \in {"strip", "square"}, enabled \in SUBSET {"item", "next"} :
        tenContent' = [id |-> k + 1, shape |-> shape, enabled |-> enabled]
  BY <1>1 DEF Ten!RenderNew
<1>3. PICK p \in Ten!Placed(tenContent') :
        /\ Ten!Settled(p) /\ UNCHANGED <<system, palette>>
        /\ IF tenContent = None
           THEN Ten!Paints(tenContent', Ten!NoGesture, p)
           ELSE target' = p.target /\ UNCHANGED <<tenRecovery, pixels, tenFaults, tenError>>
  BY DEF Ten!RenderNew
<1>4. /\ ~tenError /\ k < TenContents /\ gesture' = Ten!NoGesture /\ captured' = FALSE
      /\ tenShown' = TRUE /\ dirty' = TRUE /\ Ten!Quiet
  BY <1>1 DEF Ten!RenderNew
<1>5. tenContent' \in Ten!Contents /\ tenContent'.id \in 0 .. TenContents /\ tenContent' # None
  <2>1. k \in 0 .. TenContents
    <3>1. CASE tenContent = None BY <1>1, <3>1, TenFacts DEF Picture
    <3>2. CASE tenContent # None
      <4>1. tenContent \in Ten!Contents BY <3>2, TenFacts DEF Screen
      <4>2. tenContent.id \in 1 .. TenContents BY <4>1 DEF Ten!Contents
      <4> QED BY <1>1, <3>2, <4>2, TenSizes
    <3> QED BY <3>1, <3>2
  <2>2. k + 1 \in 1 .. TenContents /\ k + 1 \in 0 .. TenContents BY <1>4, <2>1, TenSizes
  <2>3. enabled \in SUBSET Ten!Hits BY DEF Ten!Hits
  <2>4. tenContent' \in Ten!Contents BY <1>2, <2>2, <2>3 DEF Ten!Contents
  <2> QED BY <1>2, <2>2, <2>4, TenSizes
<1>6. dpi \in Dpis BY TenFacts DEF Surface
<1>7. /\ dpi' = p.dpi /\ size' = p.size /\ astray' = p.astray
      /\ p.dpi \in Dpis /\ p.size \in Ten!Sizes /\ p.target \in Ten!Sizes \cup {None}
      /\ p.astray \in BOOLEAN
      /\ ~p.astray => /\ p.size = [id |-> tenContent'.id, dpi |-> p.dpi]
                      /\ p.target # None => p.target = p.size
  <2> PICK c : c = tenContent' OBVIOUS
  <2>1. c.id \in 0 .. TenContents /\ p \in Ten!Placed(c) BY <1>5
  <2> QED BY <1>3, <1>6, <2>1, TenPlacedFacts DEF Ten!Settled
<1>8. Picture' /\ target' \in {None, p.size, p.target}
  <2>1. CASE tenContent = None
    <3>1. Ten!Paints(tenContent', Ten!NoGesture, p) BY <1>3, <2>1
    <3>2. palette' \in Ten!Palettes BY <1>3, TenFacts DEF TenColours
    <3>3. Ten!NoGesture.hovered \in Ten!Hits \cup {None} BY DEF Ten!NoGesture
    <3> PICK c : c = tenContent' OBVIOUS
    <3>4. c.id \in 0 .. TenContents /\ Ten!Paints(c, Ten!NoGesture, p) BY <1>5, <3>1
    <3> QED BY <1>7, <3>2, <3>3, <3>4, TenFacts, PaintsFacts
  <2>2. CASE tenContent # None BY <1>3, <2>2, TenFacts, TenGroupsStay
  <2> QED BY <2>1, <2>2
<1>9. Surface' BY <1>7, <1>8 DEF Surface, Ten!Sizes
<1>10. TenColours' BY <1>3, TenFacts, TenGroupsStay
<1>11. Screen' BY <1>4, <1>5 DEF Screen, Ten!Contents, Ten!Hits
<1>12. Ten!FitsItsMonitor' BY <1>7, <1>8 DEF Ten!FitsItsMonitor
<1>13. Ten!DrawnAsItIs' BY <1>4 DEF Ten!DrawnAsItIs
<1>14. Ten!TypeOK' BY <1>4, <1>8, <1>9, <1>10, <1>11, TenGroupsNext, QuietMessage, ReleasedInput
<1> QED BY <1>4, <1>5, <1>12, <1>13, <1>14 DEF TenIInv, Ten!Inv

\* A content that cannot be shown.
LEMMA RenderFailsStep == TenIInv /\ Ten!RenderFails => TenIInv'
<1> SUFFICES ASSUME TenIInv, Ten!RenderFails PROVE TenIInv' OBVIOUS
<1>1. /\ Ten!Faulty /\ tenError' = TRUE /\ gesture' = Ten!NoGesture /\ captured' = FALSE
      /\ Ten!Quiet
      /\ UNCHANGED <<system, palette, tenContent, Ten!surface, tenRecovery, tenShown, dirty, pixels>>
  BY DEF Ten!RenderFails, Ten!Fails
<1>2. Picture'
  <2>1. PICK f \in 0 .. TenFailures : f = tenFaults BY TenFacts DEF Picture
  <2>2. tenFaults' \in 0 .. TenFailures BY <1>1, <2>1, TenSizes DEF Ten!Faulty
  <2> QED BY <1>1, <2>2, TenFacts DEF Picture, Ten!Palettes, Ten!Hits
<1>3. Ten!TypeOK' BY <1>1, <1>2, TenGroupsNext, TenFacts, TenGroupsStay, QuietMessage,
  ReleasedInput
<1> QED BY <1>1, <1>3, TenFacts DEF TenIInv, Ten!Inv, Ten!FitsItsMonitor, Ten!DrawnAsItIs

\* What is hidden keeps nothing.
LEMMA TenHideStep == TenIInv /\ Ten!Hide => TenIInv'
<1> SUFFICES ASSUME TenIInv, Ten!Hide PROVE TenIInv' OBVIOUS
<1>1. /\ gesture' = Ten!NoGesture /\ captured' = FALSE
      /\ tenContent' = None /\ tenShown' = FALSE /\ dirty' = FALSE
      /\ tenRecovery' = [tenRecovery EXCEPT !.waiting = FALSE, !.timed = FALSE] /\ Ten!Quiet
      /\ UNCHANGED <<system, palette, Ten!surface, pixels, tenFaults, tenError>>
  BY DEF Ten!Hide
<1>2. Picture' BY <1>1, TenFacts DEF Picture, Ten!Palettes, Ten!Hits
<1>3. Screen' BY <1>1 DEF Screen
<1>4. Ten!TypeOK' BY <1>1, <1>2, <1>3, TenGroupsNext, TenFacts, TenGroupsStay, QuietMessage,
  ReleasedInput
<1> QED BY <1>1, <1>4 DEF TenIInv, Ten!Inv, Ten!FitsItsMonitor, Ten!DrawnAsItIs

\* New colours are drawn later.
LEMMA ColourStep == TenIInv /\ (Ten!RefreshAppearance \/ Ten!SystemChanges) => TenIInv'
<1> SUFFICES ASSUME TenIInv, Ten!RefreshAppearance \/ Ten!SystemChanges PROVE TenIInv' OBVIOUS
<1>1. /\ Ten!Quiet /\ palette' \in {palette, system} /\ system' \in {system} \cup Ten!Palettes
      /\ (dirty' = tenShown \/ (dirty' = dirty /\ palette' = palette))
      /\ UNCHANGED <<tenContent, gesture, captured, Ten!surface, tenRecovery, tenShown, pixels,
                     tenFaults, tenError>>
  BY DEF Ten!RefreshAppearance, Ten!SystemChanges
<1>2. TenColours' BY <1>1, TenFacts DEF TenColours, Ten!Palettes
<1>3. Screen' BY <1>1, TenFacts DEF Screen, Ten!Contents, Ten!Hits
<1>4. Ten!TypeOK' BY <1>1, <1>2, <1>3, TenGroupsNext, TenFacts, TenGroupsStay, QuietMessage
<1>5. Ten!FitsItsMonitor' BY <1>1, FitsStays
<1>6. Ten!DrawnAsItIs'
  <2>1. CASE dirty' = tenShown BY <1>1, <2>1 DEF Ten!DrawnAsItIs
  <2>2. CASE dirty' = dirty /\ palette' = palette BY <1>1, <2>2, TenFacts DEF Ten!DrawnAsItIs
  <2> QED BY <1>1, <2>1, <2>2
<1> QED BY <1>1, <1>4, <1>5, <1>6, TenFacts DEF TenIInv, Ten!Inv

\* The window draws what it shows.
LEMMA TenPaintStep == TenIInv /\ Ten!Paint => TenIInv'
<1> SUFFICES ASSUME TenIInv, Ten!Paint PROVE TenIInv' OBVIOUS
<1>1. /\ ~tenError /\ dirty' = FALSE /\ palette' = palette /\ Ten!Quiet
      /\ UNCHANGED <<system, tenContent, gesture, captured, size, dpi, astray, tenShown>>
  BY DEF Ten!Paint
<1>2. Screen' BY <1>1, TenFacts DEF Screen, Ten!Contents, Ten!Hits
<1>3. CASE tenRecovery.waiting
  <2>1. UNCHANGED <<target, tenRecovery, pixels, tenFaults, tenError>> BY <1>3 DEF Ten!Paint
  <2>2. Surface' BY <1>1, <2>1, TenFacts, TenGroupsStay DEF Ten!surface
  <2>3. Ten!TypeOK' BY <1>1, <1>2, <2>1, <2>2, TenGroupsNext, TenFacts, TenGroupsStay,
    QuietMessage
  <2>4. Ten!FitsItsMonitor' BY <1>1, <2>1, FitsStays DEF Ten!surface
  <2>5. Ten!DrawnAsItIs' BY <1>3, <2>1 DEF Ten!DrawnAsItIs
  <2> QED BY <1>1, <2>3, <2>4, <2>5, TenFacts DEF TenIInv, Ten!Inv
<1>4. CASE ~tenRecovery.waiting
  <2>1. PICK at : at = [size |-> size, target |-> target] OBVIOUS
  <2>2. at.size = size /\ at.target = target BY <2>1
  <2>3. Ten!Paints(tenContent, gesture, at) BY <1>4, <2>1 DEF Ten!Paint
  <2>4. tenContent = None \/ tenContent.id \in 0 .. TenContents
    BY TenFacts, TenSizes DEF Screen, Ten!Contents
  <2>5. gesture.hovered \in Ten!Hits \cup {None} /\ palette' \in Ten!Palettes
    BY <1>1, TenFacts DEF Input, TenColours
  <2>6. size \in Ten!Sizes /\ target \in Ten!Sizes \cup {None} BY TenFacts DEF Surface
  <2>7. /\ Picture' /\ target' \in Ten!Sizes \cup {None} /\ target' \in {None, size, target}
        /\ \/ tenError' \/ tenRecovery'.waiting
           \/ pixels' = [id |-> IF tenContent = None THEN 0 ELSE tenContent.id,
                         hovered |-> gesture.hovered, palette |-> palette']
    <3> PICK c, g : c = tenContent /\ g = gesture OBVIOUS
    <3>1. Ten!Paints(c, g, at) BY <2>3
    <3>2. (c = None \/ c.id \in 0 .. TenContents) /\ g.hovered \in Ten!Hits \cup {None}
      BY <2>4, <2>5
    <3>3. Picture BY TenFacts
    <3> QED BY <2>2, <2>5, <2>6, <3>1, <3>2, <3>3, PaintsFacts
  <2>8. Surface' BY <1>1, <2>7, TenFacts DEF Surface, Ten!Sizes
  <2>9. Ten!TypeOK' BY <1>1, <1>2, <2>7, <2>8, TenGroupsNext, TenFacts, TenGroupsStay,
    QuietMessage
  <2>10. Ten!FitsItsMonitor' BY <1>1, <2>7, TenFacts DEF Ten!FitsItsMonitor
  <2>11. Ten!DrawnAsItIs' BY <1>1, <2>7, TenFacts DEF Ten!DrawnAsItIs
  <2> QED BY <1>1, <2>9, <2>10, <2>11, TenFacts DEF TenIInv, Ten!Inv
<1> QED BY <1>3, <1>4

\* The window comes to a monitor of another DPI.
LEMMA TenDpiStep == TenIInv /\ Ten!DpiChanged => TenIInv'
<1> SUFFICES ASSUME TenIInv, Ten!DpiChanged PROVE TenIInv' OBVIOUS
<1>1. /\ ~tenError /\ gesture' = Ten!NoGesture /\ captured' = FALSE /\ dirty' = tenShown
      /\ Ten!Quiet
      /\ UNCHANGED <<system, palette, tenContent, tenRecovery, tenShown, pixels, tenFaults, tenError>>
  BY DEF Ten!DpiChanged
<1>2. PICK d \in Dpis :
        IF tenContent = None
        THEN /\ dpi' = d /\ target' = (IF target = None THEN None ELSE [target EXCEPT !.dpi = d])
             /\ UNCHANGED <<size, astray>>
        ELSE \E p \in Ten!Placed(tenContent) : p.dpi = d /\ Ten!Settled(p) /\ target' = p.target
  BY DEF Ten!DpiChanged
<1>3. Surface' /\ Ten!FitsItsMonitor'
  <2>1. CASE tenContent = None
    <3>1. target' \in Ten!Sizes \cup {None}
      <4>1. target \in Ten!Sizes \cup {None} BY TenFacts DEF Surface
      <4> QED BY <1>2, <2>1, <4>1 DEF Ten!Sizes
    <3>2. Surface' BY <1>2, <2>1, <3>1, TenFacts DEF Surface, Ten!Sizes
    <3>3. ~tenShown' BY <1>1, <2>1, TenFacts
    <3> QED BY <3>2, <3>3 DEF Ten!FitsItsMonitor
  <2>2. CASE tenContent # None
    <3>1. PICK p \in Ten!Placed(tenContent) : p.dpi = d /\ Ten!Settled(p) /\ target' = p.target
      BY <1>2, <2>2
    <3>2. tenContent.id \in 0 .. TenContents BY <2>2, TenFacts, TenSizes DEF Screen,
      Ten!Contents
    <3>3. dpi \in Dpis BY TenFacts DEF Surface
    <3>4. /\ dpi' = p.dpi /\ size' = p.size /\ target' = p.target /\ astray' = p.astray
          /\ p.dpi \in Dpis /\ p.size \in Ten!Sizes /\ p.target \in Ten!Sizes \cup {None}
          /\ p.astray \in BOOLEAN
          /\ ~p.astray => /\ p.size = [id |-> tenContent.id, dpi |-> p.dpi]
                          /\ p.target # None => p.target = p.size
      BY <3>1, <3>2, <3>3, TenPlacedFacts DEF Ten!Settled
    <3>5. Surface' BY <3>4 DEF Surface, Ten!Sizes
    <3>6. Ten!FitsItsMonitor' BY <1>1, <3>4 DEF Ten!FitsItsMonitor
    <3> QED BY <3>5, <3>6
  <2> QED BY <2>1, <2>2
<1>4. Screen' BY <1>1, TenFacts DEF Screen, Ten!Contents, Ten!Hits
<1>5. Ten!TypeOK' BY <1>1, <1>3, <1>4, TenGroupsNext, TenFacts, TenGroupsStay, QuietMessage,
  ReleasedInput
<1>6. Ten!DrawnAsItIs' BY <1>1 DEF Ten!DrawnAsItIs
<1> QED BY <1>1, <1>3, <1>5, <1>6, TenFacts DEF TenIInv, Ten!Inv

\* A target that cannot be resized.
LEMMA ResizeFailsStep == TenIInv /\ Ten!ResizeFails => TenIInv'
<1> SUFFICES ASSUME TenIInv, Ten!ResizeFails PROVE TenIInv' OBVIOUS
<1>1. /\ ~tenError /\ Ten!Faulty /\ Ten!Quiet
      /\ UNCHANGED <<system, palette, tenContent, gesture, captured, size, dpi, astray, tenShown,
                     dirty, pixels>>
  BY DEF Ten!ResizeFails
<1>2. PICK cause \in {"lost", "other"} : Ten!Breaks(cause) BY DEF Ten!ResizeFails
<1>3. Picture' /\ (tenError' \/ tenRecovery'.waiting) /\ target' = None
  BY <1>1, <1>2, TenFacts, Unwell
<1>4. Surface' BY <1>1, <1>3, TenFacts DEF Surface, Ten!Sizes
<1>5. Ten!TypeOK' BY <1>1, <1>3, <1>4, TenGroupsNext, TenFacts, TenGroupsStay, QuietMessage
<1>6. Ten!FitsItsMonitor' BY <1>1, <1>3, TenFacts DEF Ten!FitsItsMonitor
<1>7. Ten!DrawnAsItIs' BY <1>3 DEF Ten!DrawnAsItIs
<1> QED BY <1>1, <1>5, <1>6, <1>7, TenFacts DEF TenIInv, Ten!Inv

\* The timer of a lost device.
LEMMA RetryTimerStep == TenIInv /\ Ten!RetryTimer => TenIInv'
<1> SUFFICES ASSUME TenIInv, Ten!RetryTimer PROVE TenIInv' OBVIOUS
<1>1. /\ tenRecovery' = [tenRecovery EXCEPT !.waiting = FALSE, !.timed = FALSE]
      /\ dirty' = tenShown /\ Ten!Quiet
      /\ UNCHANGED <<system, palette, tenContent, gesture, captured, Ten!surface, tenShown, pixels,
                     tenFaults, tenError>>
  BY DEF Ten!RetryTimer
<1>2. Picture' BY <1>1, TenFacts DEF Picture, Ten!Palettes, Ten!Hits
<1>3. Screen' BY <1>1, TenFacts DEF Screen, Ten!Contents, Ten!Hits
<1>4. Ten!TypeOK' BY <1>1, <1>2, <1>3, TenGroupsNext, TenFacts, TenGroupsStay, QuietMessage
<1>5. Ten!FitsItsMonitor' BY <1>1, FitsStays
<1>6. Ten!DrawnAsItIs' BY <1>1 DEF Ten!DrawnAsItIs
<1> QED BY <1>1, <1>4, <1>5, <1>6, TenFacts DEF TenIInv, Ten!Inv

\* The pointer.
LEMMA MouseStep ==
  ASSUME NEW cell \in Ten!Cells \cup {None},
         TenIInv, Ten!ButtonDown(cell) \/ Ten!ButtonUp(cell) \/ Ten!MouseMove(cell) \/ Ten!MouseLost
  PROVE  TenIInv'
<1>1. UNCHANGED <<system, palette, tenContent, Ten!surface, tenRecovery, tenShown, pixels, tenFaults,
                  tenError>>
  BY DEF Ten!ButtonDown, Ten!ButtonUp, Ten!MouseMove, Ten!MouseLost
<1>2. cell \in Ten!Hits \cup {None} BY DEF Ten!Cells
<1>3. gesture \in [pressed : Ten!Hits \cup {None}, hovered : Ten!Hits \cup {None}]
      /\ captured \in BOOLEAN
  BY TenFacts DEF Input
<1>4. Input' /\ dirty' \in BOOLEAN
      /\ (dirty' = TRUE \/ dirty' = tenShown \/ (dirty' = dirty /\ gesture'.hovered = gesture.hovered))
  <2>1. CASE Ten!ButtonDown(cell)
    <3>1. PICK q \in Ten!Hits \cup {None} : gesture' = [gesture EXCEPT !.pressed = q]
      BY <1>2, <2>1 DEF Ten!ButtonDown
    <3>2. dirty' = dirty /\ captured' \in BOOLEAN
      BY <1>3, <2>1 DEF Ten!ButtonDown, Ten!Pressed
    <3> QED BY <1>3, <3>1, <3>2, TenFacts DEF Input, Screen, Ten!Hits
  <2>2. CASE Ten!ButtonUp(cell) BY <2>2, ReleasedInput DEF Ten!ButtonUp
  <2>3. CASE Ten!MouseMove(cell)
    <3>1. PICK q \in Ten!Hits \cup {None} : gesture' = [pressed |-> q, hovered |-> cell]
      BY <1>2, <2>3 DEF Ten!MouseMove
    <3>2. dirty' = TRUE /\ captured' = captured BY <2>3 DEF Ten!MouseMove
    <3> QED BY <1>2, <1>3, <3>1, <3>2 DEF Input, Ten!Hits
  <2>4. CASE Ten!MouseLost BY <2>4, ReleasedInput, TenFacts DEF Ten!MouseLost, Screen
  <2> QED BY <2>1, <2>2, <2>3, <2>4
<1>5. Message'
  <2>1. CASE Ten!ButtonUp(cell)
    <3>1. tenShown /\ tenSent' = IF gesture.pressed # None /\ cell = gesture.pressed /\ Ten!Enabled(tenContent, cell)
                                 THEN [id |-> tenContent.id, hit |-> cell] ELSE None
      BY <2>1 DEF Ten!ButtonUp
    <3>2. tenContent \in Ten!Contents BY <3>1, TenFacts DEF Screen
    <3>3. tenContent.id \in 1 .. TenContents BY <3>2 DEF Ten!Contents
    <3> QED BY <1>2, <3>1, <3>3 DEF Message
  <2>2. CASE ~Ten!ButtonUp(cell) BY <2>2, QuietMessage DEF Ten!ButtonDown, Ten!MouseMove,
    Ten!MouseLost
  <2> QED BY <2>1, <2>2
<1>6. Screen' BY <1>1, <1>4, TenFacts DEF Screen, Ten!Contents, Ten!Hits
<1>7. Ten!TypeOK' BY <1>1, <1>4, <1>5, <1>6, TenGroupsNext, TenFacts, TenGroupsStay
<1>8. Ten!FitsItsMonitor' BY <1>1, FitsStays
<1>9. Ten!DrawnAsItIs'
  <2>1. CASE dirty' = TRUE \/ dirty' = tenShown BY <1>1, <2>1 DEF Ten!DrawnAsItIs
  <2>2. CASE dirty' = dirty /\ gesture'.hovered = gesture.hovered
    BY <1>1, <2>2, TenFacts DEF Ten!DrawnAsItIs
  <2> QED BY <1>4, <2>1, <2>2
<1> QED BY <1>1, <1>7, <1>8, <1>9, TenFacts DEF TenIInv, Ten!Inv

\* Every step of ten keeps the invariant.
LEMMA TenStep == TenIInv /\ [Ten!Next]_Ten!vars => TenIInv'
<1> SUFFICES ASSUME TenIInv, [Ten!Next]_Ten!vars PROVE TenIInv' OBVIOUS
<1>1. CASE Ten!MouseLost
  <2>1. None \in Ten!Cells \cup {None} OBVIOUS
  <2> QED BY <1>1, <2>1, MouseStep
<1>2. CASE Ten!Next /\ ~Ten!MouseLost
  BY <1>2, RenderMovedStep, TenRenderNewStep, RenderFailsStep, TenHideStep, ColourStep,
     TenPaintStep,
     TenDpiStep, ResizeFailsStep, RetryTimerStep, MouseStep
  DEF Ten!Next
<1>3. CASE UNCHANGED Ten!vars
  <2>1. UNCHANGED <<system, palette, tenContent, gesture, captured, Ten!surface, tenRecovery,
                    tenShown, dirty,
                    pixels, tenSent, tenFaults, tenError>>
    BY <1>3 DEF Ten!vars
  <2>2. Ten!TypeOK' BY <2>1, TenGroupsNext, TenFacts, TenGroupsStay
  <2>3. Ten!FitsItsMonitor' BY <2>1, FitsStays
  <2>4. Ten!DrawnAsItIs' BY <2>1, TenFacts DEF Ten!DrawnAsItIs
  <2> QED BY <2>1, <2>2, <2>3, <2>4, TenFacts DEF TenIInv, Ten!Inv
<1> QED BY <1>1, <1>2, <1>3

-----------------------------------------------------------------------------
(* The theme eleven.                                                       *)

\* What eleven assumes of its sizes.
LEMMA ElevenConstants == Eleven!ElevenAssumption
BY ConstantsAreRight DEF ThemesAssumption

\* Before the theme is created nothing is shown, and before its configuration is
\* read no colour is kept.
ElevenIInv ==
  /\ Eleven!Inv
  /\ phase \in {"unread", "absent"} => lastContent = None /\ ~visible
  /\ phase = "unread" => brushes = None

\* The bounds are numbers.
LEMMA Bounds == ElevenContents \in Nat /\ ElevenFailures \in Nat
BY ElevenConstants DEF Eleven!ElevenAssumption

ElevenIsWalk(w) == w \in Seq(Dpis) /\ Len(w) \in Nat /\ Len(w) >= 2

\* A placing that goes on is one of more monitors.
LEMMA ElevenMoreWalks ==
  ASSUME NEW S, \A w \in S : ElevenIsWalk(w)
  PROVE  \A w \in Eleven!More(S) : ElevenIsWalk(w)
<1>1. ASSUME NEW w, ElevenIsWalk(w), NEW v \in Eleven!From(w) PROVE ElevenIsWalk(v)
  <2>1. PICK d \in Dpis : v = Append(w, d) BY <1>1 DEF Eleven!From
  <2>2. w \in Seq(Dpis) BY <1>1 DEF ElevenIsWalk
  <2>3. v \in Seq(Dpis) /\ Len(v) = Len(w) + 1 BY <2>1, <2>2
  <2> QED BY <1>1, <2>3 DEF ElevenIsWalk
<1> QED BY <1>1 DEF Eleven!More

\* However long a placing takes, it ends at a DPI of some monitor.
LEMMA ElevenWalkFacts ==
  ASSUME monitor \in Dpis
  PROVE  \A w \in Eleven!Walks : w[Len(w)] \in Dpis /\ w[Len(w) - 1] \in Dpis
<1>1. ASSUME NEW w \in Eleven!From(<<monitor>>) PROVE ElevenIsWalk(w)
  <2>1. PICK d \in Dpis : w = Append(<<monitor>>, d) BY DEF Eleven!From
  <2>2. <<monitor>> \in Seq(Dpis) /\ Len(<<monitor>>) = 1 OBVIOUS
  <2>3. w \in Seq(Dpis) /\ Len(w) = 2 BY <2>1, <2>2
  <2> QED BY <2>3 DEF ElevenIsWalk
<1>2. \A w \in Eleven!Walks : ElevenIsWalk(w)
  <2>1. \A w \in Eleven!More(Eleven!From(<<monitor>>)) : ElevenIsWalk(w) BY <1>1,
    ElevenMoreWalks
  <2> QED BY <2>1, ElevenMoreWalks DEF Eleven!Walks
<1>3. ASSUME NEW w, ElevenIsWalk(w) PROVE w[Len(w)] \in Dpis /\ w[Len(w) - 1] \in Dpis
  BY <1>3 DEF ElevenIsWalk
<1> QED BY <1>2, <1>3

\* The host ends where the island is sized for, unless no pass kept the DPI.
LEMMA ElevenPlacedFacts ==
  ASSUME monitor \in Dpis, NEW p \in Eleven!Placed
  PROVE  p.dpi \in Dpis /\ p.child \in Dpis /\ p.astray \in BOOLEAN /\ (~p.astray => p.child = p.dpi)
<1>1. PICK w \in Eleven!Walks :
        p \in IF Eleven!Keeps(w)
              THEN {[dpi |-> w[Len(w)], child |-> w[Len(w)], astray |-> FALSE]}
              ELSE {[dpi |-> d, child |-> w[Len(w)], astray |-> TRUE] : d \in Dpis}
  BY DEF Eleven!Placed
<1>2. PICK a \in Dpis : a = w[Len(w)] BY ElevenWalkFacts
<1>3. CASE Eleven!Keeps(w)
  <2>1. p = [dpi |-> a, child |-> a, astray |-> FALSE] BY <1>1, <1>2, <1>3
  <2> QED BY <2>1
<1>4. CASE ~Eleven!Keeps(w)
  <2>1. PICK d \in Dpis : p = [dpi |-> d, child |-> a, astray |-> TRUE] BY <1>1, <1>2, <1>4
  <2> QED BY <2>1
<1> QED BY <1>3, <1>4

\* The groups of TypeOK, and of the rest, one for each kind of thing.
ElevenColours ==
  /\ given \in [Eleven!Modes -> Eleven!Sources] /\ mode \in Eleven!Modes
  /\ brushes \in Eleven!Palettes \cup {None} /\ told \subseteq Eleven!Modes
Places ==
  /\ measured \in Eleven!Sizes \cup {None} /\ monitor \in Dpis /\ outer \in Eleven!Sizes
  /\ child \in Eleven!Sizes
  /\ lost \in BOOLEAN
Tree ==
  /\ xaml \in [id : 0..ElevenContents, palette : Eleven!Palettes \cup {None}, whole : BOOLEAN]
  /\ wired \subseteq 1..ElevenContents /\ lastContent \in 1..ElevenContents \cup {None}
Life ==
  /\ phase \in {"unread", "absent", "alive", "over"} /\ visible \in BOOLEAN
  /\ elevenFaults \in 0..ElevenFailures

\* The types, group by group.
LEMMA ElevenGroups == Eleven!TypeOK <=> ElevenColours /\ Places /\ Tree /\ Life
BY DEF Eleven!TypeOK, ElevenColours, Places, Tree, Life

\* The same of the next state.
LEMMA ElevenGroupsNext == ElevenColours' /\ Places' /\ Tree' /\ Life' => Eleven!TypeOK'
BY DEF Eleven!TypeOK, ElevenColours, Places, Tree, Life, Eleven!Modes, Eleven!Sources,
   Eleven!Palettes, Eleven!Sizes

\* A group is kept when its variables are.
LEMMA ElevenGroupsStay ==
  /\ ElevenColours /\ UNCHANGED <<given, mode, brushes, told>> => ElevenColours'
  /\ Places /\ UNCHANGED Eleven!places => Places'
  /\ Tree /\ UNCHANGED <<xaml, wired, lastContent>> => Tree'
  /\ Life /\ UNCHANGED <<phase, visible, elevenFaults>> => Life'
BY DEF ElevenColours, Places, Eleven!places, Tree, Life, Eleven!Modes, Eleven!Sources,
   Eleven!Palettes, Eleven!Sizes

\* The parts of the invariant.
LEMMA ElevenFacts ==
  ASSUME ElevenIInv
  PROVE  /\ ElevenColours /\ Places /\ Tree /\ Life
         /\ Eleven!ReusedTreeIsWhole /\ Eleven!FitsItsContent /\ Eleven!FallbackIsTold
         /\ (phase \in {"unread", "absent"} => lastContent = None /\ ~visible)
         /\ (phase = "unread" => brushes = None)
BY ElevenGroups DEF ElevenIInv, Eleven!Inv

\* Nothing is read at the start.
LEMMA ElevenInit == Eleven!Init => ElevenIInv
<1>1. SUFFICES ASSUME Eleven!Init PROVE ElevenIInv OBVIOUS
<1>2. ElevenColours BY <1>1 DEF Eleven!Init, ElevenColours
<1>3. Places
  <2>1. outer \in Eleven!Sizes BY <1>1, Bounds DEF Eleven!Init, Eleven!Sizes
  <2> QED BY <1>1, <2>1 DEF Eleven!Init, Places
<1>4. Tree BY <1>1, Bounds DEF Eleven!Init, Tree, Eleven!NoTree
<1>5. Life
  <2>1. elevenFaults \in 0 .. ElevenFailures BY <1>1, Bounds DEF Eleven!Init
  <2>2. phase = "unread" /\ visible = FALSE BY <1>1 DEF Eleven!Init
  <2> QED BY <2>1, <2>2 DEF Life
<1>6. Eleven!TypeOK BY <1>2, <1>3, <1>4, <1>5, ElevenGroups
<1>7. Eleven!ReusedTreeIsWhole /\ Eleven!FitsItsContent /\ Eleven!FallbackIsTold
  BY <1>1 DEF Eleven!Init, Eleven!ReusedTreeIsWhole, Eleven!FitsItsContent,
     Eleven!FallbackIsTold
<1>8. phase = "unread" /\ brushes = None /\ lastContent = None /\ ~visible BY <1>1 DEF Eleven!Init
<1> QED BY <1>6, <1>7, <1>8 DEF ElevenIInv, Eleven!Inv

\* The failures stay under their bound.
LEMMA FaultyFacts ==
  ASSUME Life, Eleven!Faulty \/ UNCHANGED elevenFaults
  PROVE  elevenFaults' \in 0 .. ElevenFailures
<1>1. PICK f \in 0 .. ElevenFailures : f = elevenFaults BY DEF Life
<1> QED BY <1>1, Bounds DEF Eleven!Faulty

\* The palette that a creation or a render reads is of the colours configured, or
\* its fallback is told.
LEMMA PaletteFacts ==
  ASSUME ElevenColours, Life, Eleven!FallbackIsTold, phase # "unread", UNCHANGED <<given, mode>>,
         phase' # "unread", Eleven!ReadsPalette
  PROVE  ElevenColours' /\ Eleven!FallbackIsTold' /\ elevenFaults' \in 0 .. ElevenFailures
         /\ (brushes # None => brushes' = brushes)
<1>1. given \in [Eleven!Modes -> Eleven!Sources] /\ mode \in Eleven!Modes
      /\ "light" \in Eleven!Modes /\ told \subseteq Eleven!Modes
  BY DEF ElevenColours, Eleven!Modes
<1>2. Eleven!Broken \subseteq told BY DEF Eleven!FallbackIsTold
<1>3. \A m \in Eleven!Modes : given[m] = "broken" => m \in told BY <1>2 DEF Eleven!Broken
<1>4. \A m \in Eleven!Modes : given[m] \in {"fixed", "system", "broken"} BY <1>1
  DEF Eleven!Sources
<1>5. Eleven!Broken' = Eleven!Broken BY DEF Eleven!Broken, Eleven!Modes
<1>6. CASE brushes # None
  <2>1. UNCHANGED <<brushes, told, elevenFaults>> BY <1>6 DEF Eleven!ReadsPalette
  <2> QED BY <1>5, <1>6, <2>1, FaultyFacts DEF ElevenColours, Eleven!FallbackIsTold,
    Eleven!Modes, Eleven!Sources, Eleven!Palettes
<1>7. CASE brushes = None
  <2>1. PICK m \in Eleven!Modes, a \in {"fixed", "system", "default"} :
          /\ brushes' = [mode |-> m, accent |-> a]
          /\ told \subseteq told' /\ told' \subseteq Eleven!Modes /\ (Eleven!Faulty \/ UNCHANGED elevenFaults)
          /\ a # given[m] => m \in told'
    <3>1. CASE /\ brushes' = [mode |-> mode,
                              accent |-> IF given[mode] = "broken" THEN "default" ELSE given[mode]]
               /\ UNCHANGED <<told, elevenFaults>>
      BY <1>1, <1>3, <1>4, <3>1
    <3>2. CASE /\ Eleven!Faulty /\ given[mode] = "system"
               /\ brushes' = [mode |-> mode, accent |-> "default"]
               /\ told' = told \cup {mode}
      BY <1>1, <3>2
    <3>3. CASE /\ Eleven!Faulty
               /\ brushes' = [mode |-> "light",
                              accent |-> IF given["light"] = "broken" THEN "default" ELSE given["light"]]
               /\ UNCHANGED told
      BY <1>1, <1>3, <1>4, <3>3
    <3> QED BY <1>7, <3>1, <3>2, <3>3 DEF Eleven!ReadsPalette
  <2>2. brushes' \in Eleven!Palettes BY <2>1 DEF Eleven!Palettes
  <2>3. brushes'.mode = m /\ brushes'.accent = a BY <2>1
  <2>4. Eleven!FallbackIsTold' BY <1>2, <1>5, <2>1, <2>3 DEF Eleven!FallbackIsTold
  <2> QED BY <1>1, <1>7, <2>1, <2>2, <2>4, FaultyFacts DEF ElevenColours, Eleven!Modes,
    Eleven!Sources, Eleven!Palettes
<1> QED BY <1>6, <1>7

\* The windows after a placing.
LEMMA ElevenSettlesFacts ==
  ASSUME Places, NEW extent \in 0 .. ElevenContents, Eleven!Settles(extent)
  PROVE  Places' /\ outer'.id = extent /\ outer'.dpi = monitor' /\ (~lost' => child' = outer')
<1>1. PICK p \in Eleven!Placed :
        /\ monitor' = p.dpi /\ lost' = p.astray
        /\ outer' = [id |-> extent, dpi |-> p.dpi]
        /\ child' = [id |-> extent, dpi |-> p.child]
        /\ measured' = [id |-> extent, dpi |-> p.child]
  BY DEF Eleven!Settles
<1>2. p.dpi \in Dpis /\ p.child \in Dpis /\ p.astray \in BOOLEAN /\ (~p.astray => p.child = p.dpi)
  BY ElevenPlacedFacts DEF Places
<1>3. outer' \in Eleven!Sizes /\ child' \in Eleven!Sizes /\ measured' \in Eleven!Sizes BY <1>1,
  <1>2 DEF Eleven!Sizes
<1>4. Places' BY <1>1, <1>2, <1>3 DEF Places, Eleven!Sizes
<1> QED BY <1>1, <1>2, <1>4

\* What is hidden has no tree.
LEMMA HidesFacts ==
  ASSUME Places, Eleven!Hides, UNCHANGED <<monitor, outer, child, lost>>
  PROVE  Places' /\ Tree' /\ Eleven!FitsItsContent'
         /\ lastContent' = None /\ visible' = FALSE /\ wired' = {}
<1>1. /\ lastContent' = None /\ wired' = {} /\ visible' = FALSE /\ xaml' = Eleven!NoTree
      /\ measured' = None
  BY DEF Eleven!Hides
<1>2. Tree' BY <1>1, Bounds DEF Tree, Eleven!NoTree
<1>3. Places' BY <1>1 DEF Places, Eleven!Sizes
<1> QED BY <1>1, <1>2, <1>3 DEF Eleven!FitsItsContent

\* A fallback that was told stays told.
LEMMA FallbackStays ==
  ASSUME Eleven!FallbackIsTold, UNCHANGED <<given, told>>, brushes' \in {brushes, None},
         phase' # "unread" => phase # "unread"
  PROVE  Eleven!FallbackIsTold'
BY DEF Eleven!FallbackIsTold, Eleven!Broken, Eleven!Modes

\* The configuration is read.
LEMMA LoadStep == ElevenIInv /\ Eleven!Load => ElevenIInv'
<1> SUFFICES ASSUME ElevenIInv, Eleven!Load PROVE ElevenIInv' OBVIOUS
<1>1. /\ phase = "unread" /\ phase' \in {"absent", "over"} /\ told' = Eleven!Broken
      /\ UNCHANGED <<given, mode, brushes, xaml, wired, lastContent, Eleven!places, visible,
                     elevenFaults>>
  BY DEF Eleven!Load
<1>2. brushes = None /\ lastContent = None /\ ~visible BY <1>1, ElevenFacts
<1>3. ElevenColours' BY <1>1, ElevenFacts DEF ElevenColours, Eleven!Broken, Eleven!Modes,
  Eleven!Sources, Eleven!Palettes
<1>4. Life' BY <1>1, ElevenFacts DEF Life
<1>5. Eleven!TypeOK' BY <1>1, <1>3, <1>4, ElevenGroupsNext, ElevenGroupsStay, ElevenFacts
<1>6. Eleven!FallbackIsTold' BY <1>1, <1>2 DEF Eleven!FallbackIsTold, Eleven!Broken,
  Eleven!Modes
<1>7. Eleven!ReusedTreeIsWhole' BY <1>1, <1>2, ElevenFacts DEF Eleven!ReusedTreeIsWhole
<1>8. Eleven!FitsItsContent' BY <1>1, <1>2 DEF Eleven!FitsItsContent
<1> QED BY <1>1, <1>2, <1>5, <1>6, <1>7, <1>8 DEF ElevenIInv, Eleven!Inv

\* The window is made.
LEMMA CreateStep == ElevenIInv /\ Eleven!Create => ElevenIInv'
<1> SUFFICES ASSUME ElevenIInv, Eleven!Create PROVE ElevenIInv' OBVIOUS
<1>1. /\ phase = "absent" /\ phase' \in {"alive", "over"} /\ Eleven!ReadsPalette
      /\ UNCHANGED <<given, mode, xaml, wired, lastContent, Eleven!places, visible>>
  BY DEF Eleven!Create
<1>2. lastContent = None /\ ~visible BY <1>1, ElevenFacts
<1>3. ElevenColours' /\ Eleven!FallbackIsTold' /\ elevenFaults' \in 0 .. ElevenFailures
  BY <1>1, ElevenFacts, PaletteFacts
<1>4. Life' BY <1>1, <1>3, ElevenFacts DEF Life
<1>5. Eleven!TypeOK' BY <1>1, <1>3, <1>4, ElevenGroupsNext, ElevenGroupsStay, ElevenFacts
<1>6. Eleven!ReusedTreeIsWhole' BY <1>1, <1>2, ElevenFacts DEF Eleven!ReusedTreeIsWhole
<1>7. Eleven!FitsItsContent' BY <1>1, <1>2 DEF Eleven!FitsItsContent
<1> QED BY <1>1, <1>2, <1>3, <1>5, <1>6, <1>7 DEF ElevenIInv, Eleven!Inv

\* The same content is placed again, or its tree used again.
LEMMA RenderSameStep == ElevenIInv /\ Eleven!RenderSame => ElevenIInv'
<1> SUFFICES ASSUME ElevenIInv, Eleven!RenderSame PROVE ElevenIInv' OBVIOUS
<1>1. /\ phase = "alive"
      /\ UNCHANGED <<given, mode, phase, brushes, xaml, wired, lastContent, visible, told,
                     elevenFaults>>
  BY DEF Eleven!RenderSame, Eleven!Alive
<1>2. xaml.id \in 0 .. ElevenContents /\ 0 \in 0 .. ElevenContents BY ElevenFacts,
  Bounds DEF Tree
<1>3. Places' /\ Eleven!FitsItsContent'
  <2>1. CASE /\ measured' = IF measured # None /\ measured.dpi = monitor THEN measured
                            ELSE [id |-> xaml.id, dpi |-> monitor]
             /\ UNCHANGED <<monitor, outer, child, lost>>
    <3>1. [id |-> xaml.id, dpi |-> monitor] \in Eleven!Sizes BY <1>2, ElevenFacts DEF Places,
      Eleven!Sizes
    <3>2. measured' \in Eleven!Sizes \cup {None} BY <2>1, <3>1, ElevenFacts DEF Places
    <3> QED BY <1>1, <2>1, <3>2, ElevenFacts DEF Places, Eleven!Sizes, Eleven!FitsItsContent
  <2>2. CASE \E extent \in {xaml.id, 0} : Eleven!Settles(extent)
    <3>1. PICK extent \in {xaml.id, 0} : Eleven!Settles(extent) BY <2>2
    <3> QED BY <1>1, <1>2, <3>1, ElevenFacts, ElevenSettlesFacts DEF Eleven!FitsItsContent
  <2> QED BY <2>1, <2>2 DEF Eleven!RenderSame
<1>4. Eleven!TypeOK' BY <1>1, <1>3, ElevenGroupsNext, ElevenGroupsStay, ElevenFacts
<1>5. Eleven!FallbackIsTold' BY <1>1, ElevenFacts, FallbackStays
<1>6. Eleven!ReusedTreeIsWhole' BY <1>1, ElevenFacts DEF Eleven!ReusedTreeIsWhole
<1> QED BY <1>1, <1>3, <1>4, <1>5, <1>6 DEF ElevenIInv, Eleven!Inv

\* A new content has a tree of its own, measured where it ends.
LEMMA ElevenRenderNewStep == ElevenIInv /\ Eleven!RenderNew => ElevenIInv'
<1> SUFFICES ASSUME ElevenIInv, Eleven!RenderNew PROVE ElevenIInv' OBVIOUS
<1>1. /\ phase = "alive" /\ Eleven!ReadsPalette /\ visible' = TRUE
      /\ UNCHANGED <<given, mode, phase>>
  BY DEF Eleven!RenderNew, Eleven!Alive
<1>2. PICK id \in 1 .. ElevenContents :
        /\ xaml' = [id |-> id, palette |-> brushes', whole |-> TRUE]
        /\ wired' \in {{}, {id}} /\ lastContent' = id
        /\ \E extent \in Eleven!Desired(id) : Eleven!Settles(extent)
  BY DEF Eleven!RenderNew
<1>3. PICK extent \in {id, 0} : Eleven!Settles(extent) BY <1>2 DEF Eleven!Desired
<1>4. extent \in 0 .. ElevenContents /\ id \in 0 .. ElevenContents BY Bounds
<1>5. Places' /\ outer'.id = extent /\ outer'.dpi = monitor' /\ (~lost' => child' = outer')
  BY <1>3, <1>4, ElevenFacts, ElevenSettlesFacts
<1>6. ElevenColours' /\ Eleven!FallbackIsTold' /\ elevenFaults' \in 0 .. ElevenFailures
  BY <1>1, ElevenFacts, PaletteFacts
<1>7. Life' BY <1>1, <1>6 DEF Life
<1>8. Tree'
  <2>1. brushes' \in Eleven!Palettes \cup {None} BY <1>6 DEF ElevenColours
  <2> QED BY <1>2, <1>4, <2>1 DEF Tree, Eleven!Palettes, Eleven!Modes
<1>9. Eleven!TypeOK' BY <1>5, <1>6, <1>7, <1>8, ElevenGroupsNext
<1>10. xaml'.id = id BY <1>2
<1>11. Eleven!ReusedTreeIsWhole' BY <1>1, <1>2, <1>10 DEF Eleven!ReusedTreeIsWhole
<1>12. Eleven!FitsItsContent' BY <1>3, <1>5, <1>10 DEF Eleven!FitsItsContent
<1> QED BY <1>1, <1>6, <1>9, <1>11, <1>12 DEF ElevenIInv, Eleven!Inv

\* The theme is hidden, or a render fails.
LEMMA HidesStep == ElevenIInv /\ (Eleven!RenderFails \/ Eleven!Hide) => ElevenIInv'
<1> SUFFICES ASSUME ElevenIInv, Eleven!RenderFails \/ Eleven!Hide PROVE ElevenIInv' OBVIOUS
<1>1. /\ phase = "alive" /\ phase' \in {"alive", "over"} /\ Eleven!Hides
      /\ (Eleven!Faulty \/ UNCHANGED elevenFaults)
      /\ UNCHANGED <<given, mode, brushes, monitor, outer, child, lost, told>>
  BY DEF Eleven!RenderFails, Eleven!Hide, Eleven!Alive
<1>2. Places' /\ Tree' /\ Eleven!FitsItsContent' /\ lastContent' = None /\ visible' = FALSE
      /\ wired' = {}
  BY <1>1, ElevenFacts, HidesFacts
<1>3. Life' BY <1>1, <1>2, ElevenFacts, FaultyFacts DEF Life
<1>4. Eleven!TypeOK' BY <1>1, <1>2, <1>3, ElevenGroupsNext, ElevenGroupsStay, ElevenFacts
<1>5. Eleven!FallbackIsTold' BY <1>1, ElevenFacts, FallbackStays
<1>6. Eleven!ReusedTreeIsWhole' BY <1>2 DEF Eleven!ReusedTreeIsWhole
<1> QED BY <1>1, <1>2, <1>4, <1>5, <1>6 DEF ElevenIInv, Eleven!Inv

\* The colours change.
LEMMA AppearanceStep == ElevenIInv /\ (Eleven!RefreshAppearance \/ Eleven!SystemChanges) => ElevenIInv'
<1> SUFFICES ASSUME ElevenIInv, Eleven!RefreshAppearance \/ Eleven!SystemChanges
             PROVE  ElevenIInv' OBVIOUS
<1>1. /\ UNCHANGED <<given, phase, xaml, wired, Eleven!places, visible, told, elevenFaults>>
      /\ mode' \in Eleven!Modes \cup {mode}
      /\ \/ brushes' = None /\ lastContent' = None
         \/ UNCHANGED <<brushes, lastContent>>
  BY DEF Eleven!RefreshAppearance, Eleven!SystemChanges
<1>2. ElevenColours' BY <1>1, ElevenFacts DEF ElevenColours, Eleven!Modes, Eleven!Sources,
  Eleven!Palettes
<1>3. Tree' BY <1>1, ElevenFacts DEF Tree, Eleven!Palettes, Eleven!Modes
<1>4. Eleven!TypeOK' BY <1>1, <1>2, <1>3, ElevenGroupsNext, ElevenGroupsStay, ElevenFacts
<1>5. Eleven!FallbackIsTold' BY <1>1, ElevenFacts, FallbackStays
<1>6. Eleven!ReusedTreeIsWhole' BY <1>1, ElevenFacts DEF Eleven!ReusedTreeIsWhole
<1>7. Eleven!FitsItsContent' BY <1>1, ElevenFacts DEF Eleven!FitsItsContent, Eleven!places
<1>8. /\ (phase' \in {"unread", "absent"} => lastContent' = None /\ ~visible')
      /\ (phase' = "unread" => brushes' = None)
  BY <1>1, ElevenFacts
<1> QED BY <1>4, <1>5, <1>6, <1>7, <1>8 DEF ElevenIInv, Eleven!Inv

\* The window comes to a monitor of another DPI.
LEMMA DpiStep == ElevenIInv /\ Eleven!DpiChanged => ElevenIInv'
<1> SUFFICES ASSUME ElevenIInv, Eleven!DpiChanged PROVE ElevenIInv' OBVIOUS
<1>1. PICK d \in Dpis : monitor' = d /\ outer' = [outer EXCEPT !.dpi = d] /\ child' = outer'
  BY DEF Eleven!DpiChanged
<1>2. /\ lost' = FALSE
      /\ UNCHANGED <<given, mode, phase, brushes, xaml, wired, lastContent, measured, visible, told,
                     elevenFaults>>
  BY DEF Eleven!DpiChanged
<1>3. outer' \in Eleven!Sizes /\ outer'.dpi = d /\ outer'.id = outer.id
  <2>1. outer \in Eleven!Sizes BY ElevenFacts DEF Places
  <2> QED BY <1>1, <2>1 DEF Eleven!Sizes
<1>4. Places' BY <1>1, <1>2, <1>3, ElevenFacts DEF Places, Eleven!Sizes
<1>5. Eleven!TypeOK' BY <1>2, <1>4, ElevenGroupsNext, ElevenGroupsStay, ElevenFacts
<1>6. Eleven!FallbackIsTold' BY <1>2, ElevenFacts, FallbackStays
<1>7. Eleven!ReusedTreeIsWhole' BY <1>2, ElevenFacts DEF Eleven!ReusedTreeIsWhole
<1>8. Eleven!FitsItsContent' BY <1>1, <1>2, <1>3, ElevenFacts DEF Eleven!FitsItsContent
<1>9. /\ (phase' \in {"unread", "absent"} => lastContent' = None /\ ~visible')
      /\ (phase' = "unread" => brushes' = None)
  BY <1>2, ElevenFacts
<1> QED BY <1>5, <1>6, <1>7, <1>8, <1>9 DEF ElevenIInv, Eleven!Inv

\* Every step of eleven keeps the invariant.
LEMMA ElevenStep == ElevenIInv /\ [Eleven!Next]_Eleven!vars => ElevenIInv'
<1> SUFFICES ASSUME ElevenIInv, [Eleven!Next]_Eleven!vars PROVE ElevenIInv' OBVIOUS
<1>1. CASE Eleven!Next
  BY <1>1, LoadStep, CreateStep, RenderSameStep, ElevenRenderNewStep, HidesStep,
     AppearanceStep, DpiStep
  DEF Eleven!Next
<1>2. CASE UNCHANGED Eleven!vars
  <2>1. UNCHANGED <<given, mode, phase, brushes, xaml, wired, lastContent, Eleven!places, visible,
                    told, elevenFaults>>
    BY <1>2 DEF Eleven!vars
  <2>2. Eleven!TypeOK' BY <2>1, ElevenGroupsNext, ElevenGroupsStay, ElevenFacts
  <2>3. Eleven!FallbackIsTold' BY <2>1, ElevenFacts, FallbackStays
  <2>4. Eleven!ReusedTreeIsWhole' BY <2>1, ElevenFacts DEF Eleven!ReusedTreeIsWhole
  <2>5. Eleven!FitsItsContent' BY <2>1, ElevenFacts DEF Eleven!FitsItsContent, Eleven!places
  <2>6. /\ (phase' \in {"unread", "absent"} => lastContent' = None /\ ~visible')
        /\ (phase' = "unread" => brushes' = None)
    BY <2>1, ElevenFacts
  <2> QED BY <2>2, <2>3, <2>4, <2>5, <2>6 DEF ElevenIInv, Eleven!Inv
<1> QED BY <1>1, <1>2

-----------------------------------------------------------------------------
(* All of them.                                                            *)

ThemesStrengthened == HostIInv /\ DrawIInv /\ AbcIInv /\ TenIInv /\ ElevenIInv

\* Every part starts in its invariant.
LEMMA ThemesStart == Init => ThemesStrengthened
BY HostInit, DrawInit, AbcInit, TenInit, ElevenInit DEF Init, ThemesStrengthened

\* A step is one of one part, and leaves the others alone.
LEMMA OneSteps ==
  [Next]_vars =>
    /\ [Wasm!Next]_Wasm!vars /\ [Drawing!Next]_Drawing!vars /\ [Abc!Next]_Abc!vars
    /\ [Ten!Next]_Ten!vars /\ [Eleven!Next]_Eleven!vars
<1>1. UNCHANGED wasmVars => UNCHANGED Wasm!vars BY DEF wasmVars, Wasm!vars
<1>2. UNCHANGED drawingVars => UNCHANGED Drawing!vars
  BY DEF drawingVars, Drawing!vars, Drawing!guestVars, Drawing!workVars
<1>3. UNCHANGED abcVars => UNCHANGED Abc!vars BY DEF abcVars, Abc!vars
<1>4. UNCHANGED tenVars => UNCHANGED Ten!vars BY DEF tenVars, Ten!vars, Ten!surface
<1>5. UNCHANGED elevenVars => UNCHANGED Eleven!vars BY DEF elevenVars, Eleven!vars,
  Eleven!places
<1>6. UNCHANGED vars =>
        UNCHANGED <<wasmVars, drawingVars, abcVars, tenVars, elevenVars>>
  BY DEF vars
<1>7. Next =>
        /\ Wasm!Next \/ UNCHANGED wasmVars
        /\ Drawing!Next \/ UNCHANGED drawingVars
        /\ Abc!Next \/ UNCHANGED abcVars
        /\ Ten!Next \/ UNCHANGED tenVars
        /\ Eleven!Next \/ UNCHANGED elevenVars
  BY DEF Next
<1>8. UNCHANGED <<wasmVars, drawingVars, abcVars, tenVars, elevenVars>> =>
        /\ UNCHANGED wasmVars /\ UNCHANGED drawingVars /\ UNCHANGED abcVars
        /\ UNCHANGED tenVars /\ UNCHANGED elevenVars
  OBVIOUS
<1> QED BY <1>1, <1>2, <1>3, <1>4, <1>5, <1>6, <1>7, <1>8, Zenon

\* So every invariant is kept.
LEMMA ThemesStep == ThemesStrengthened /\ [Next]_vars => ThemesStrengthened'
BY OneSteps, HostStep, DrawStep, AbcKeeps, TenStep, ElevenStep DEF ThemesStrengthened

\* In every behaviour all of them hold.
LEMMA ThemesStrong == Spec => []ThemesStrengthened
BY ThemesStart, ThemesStep, PTL DEF Spec

\* Whatever a guest draws, keeps back, fails or closes, and however messages and
\* pointers come between its callbacks: the main window replays what was last
\* committed, each surface has its window, a wake is kept only for what is shown, and
\* a release tells a region only where its press went down, on the same generation and
\* snapshot (window.rs, runtime.rs).
THEOREM HostInvariant == Spec => []HostInv
<1>1. ThemesStrengthened => HostInv BY HostImplies DEF ThemesStrengthened, HostInv
<1> QED BY ThemesStrong, <1>1, PTL

\* After any turns, presses, failures and changes of the DPI one presentation of abc is
\* on the screen, drawn as it is or due for a drawing, a hidden window keeps nothing,
\* and a click that is forwarded is of one press on one content (abc/src/mod.rs).
THEOREM AbcInvariant == Spec => []AbcInv
<1>1. ThemesStrengthened => AbcInv BY AbcImplies DEF ThemesStrengthened, AbcInv
<1> QED BY ThemesStrong, <1>1, PTL

\* No window of abc comes to the screen with the frame of an earlier content, unless it
\* waits for its device (abc/src/mod.rs:749).
THEOREM FirstFramesStayNew == Spec => FirstFrameIsNew
<1>1. ThemesStrengthened /\ [Next]_vars
        => [\A r \in Abc!Roles : ~window[r].shown /\ window'[r].shown =>
              window'[r].waiting \/ window'[r].pixels.id = window'[r].content.id]_Abc!vars
  BY OneSteps, AbcKeeps DEF ThemesStrengthened
<1> QED BY ThemesStrong, <1>1, PTL DEF Spec, FirstFrameIsNew, Abc!FirstFrameIsNew

\* With any quota, scales, number of layers and failures, the compositor draws within its
\* quota, and every frame with the bitmaps and visuals that are its own; with any DPIs and
\* placings the windows of ten and eleven fit their content at the DPI of their monitor,
\* and are drawn or reused as what they are now (composition.rs, canvas.rs, resources.rs,
\* ten/src/mod.rs, eleven/src/mod.rs).
THEOREM PicturesInvariant == Spec => []PicturesInv
<1>1. DrawIInv => Drawing!PicturesAreOwn BY DrawImplies
<1>2. TenIInv => Ten!Inv BY DEF TenIInv
<1>3. ElevenIInv => Eleven!Inv BY DEF ElevenIInv
<1>4. ThemesStrengthened => PicturesInv BY <1>1, <1>2, <1>3 DEF ThemesStrengthened, PicturesInv
<1> QED BY ThemesStrong, <1>4, PTL

\* However often the device is lost, in a painting, a sizing or a clearing, and whatever
\* the guest presents or hides while a window waits: a window on the screen has drawn what
\* it is to show, has a WM_PAINT coming or waits, and a wait has its timer (window.rs,
\* graphics_error).
THEOREM LossesAreRepaired == Spec => []LossIsRepaired
<1>1. DrawIInv => Drawing!WaitIsTimed /\ Drawing!DrawnOrDue BY DrawImplies
<1>2. ThemesStrengthened => LossIsRepaired BY <1>1 DEF ThemesStrengthened, LossIsRepaired
<1> QED BY ThemesStrong, <1>2, PTL
=============================================================================
