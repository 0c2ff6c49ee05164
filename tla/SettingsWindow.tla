--------------------------- MODULE SettingsWindow ---------------------------
(***************************************************************************)
(* The settings window (settings/src/main.rs): a draft of the user's file, *)
(* edited through three editors that write the same document (the form's   *)
(* fields, the list of WebAssembly modules and the list of applications),  *)
(* and saved to a file other programs may write too.                       *)
(*                                                                         *)
(* The document is cut down to what the editors share: the theme's field,  *)
(* one module "m" with its file and one field of its configuration, and    *)
(* one application.  The callbacks run on one thread, so an edit is one    *)
(* action; a save takes several, because the file and the preference of    *)
(* the updater belong to other programs as well.                           *)
(***************************************************************************)
EXTENDS Naturals

CONSTANTS
  None,         \* a key without a value
  Absent, Broken,   \* a file that is not there; one that does not parse
  MaxEdits,     \* bound: edits in a behaviour
  MaxForeign    \* bound: writes of other programs

VARIABLES
  file,         \* weasel.custom.json: a patch, Absent or Broken
  preference,   \* WinSparkle's automatic checks
  at,           \* where the UI thread is: not running, idle, or in a save
  asked,        \* that save: does it apply, and what had changed
  patch, original,          \* Document.patch and .original
  field,        \* per form field: overridden, and its text
  moduleText,   \* the file of the module, as its editor shows it
  changed, invalid, moduleErrors,   \* State's sets of the same names
  autoSaved, autoPending,           \* State.auto_update_saved, _pending
  dirty, blocked,                   \* the window's dirty and invalid
  edits, foreign,
  \* History: what the file got since the last request to restart, and whether
  \* another program wrote the file after the comparison of this save.
  unapplied, overtaken

document == <<patch, original>>
editors == <<field, moduleText, changed, invalid, moduleErrors>>
update == <<autoSaved, autoPending>>
window == <<dirty, blocked>>
history == <<unapplied, overtaken>>
vars == <<file, preference, at, asked, document, editors, update, window, edits, foreign, history>>

Fields == {"theme", "config"}
Owner == [theme |-> "wasm", config |-> "module"]   \* State.owners
Texts == [theme |-> {"m", "n"}, config |-> {"good", "odd", "bad"}]
\* "bad" is no JSON; "odd" is, and breaks the schema; a module's file may be "bad" too.
Parses(f, text) == f = "config" => text # "bad"
Inherited == [theme |-> "n", config |-> "default"]

Patches == [theme : {None, "m", "n"}, entry : BOOLEAN, config : {None, "good", "odd"},
            file : {None, "path"}, app : {None, "entry", "on"}]

\* None is no value of a field, and a file that is not there no patch.
WindowAssumption ==
  /\ MaxEdits \in Nat /\ MaxForeign \in Nat
  /\ None \notin {"m", "n", "good", "odd"} /\ Absent \notin Patches

NoPatch == [theme |-> None, entry |-> FALSE, config |-> None, file |-> None, app |-> None]
PatchOf(content) == IF content = Absent THEN NoPatch ELSE content

\* What other programs leave in the file.
ForeignContents == {Absent, Broken, [NoPatch EXCEPT !.theme = "m"],
                    [NoPatch EXCEPT !.entry = TRUE, !.config = "odd"]}

-----------------------------------------------------------------------------
Theme == IF patch.theme = None THEN Inherited.theme ELSE patch.theme
\* The base has no module: one exists while the patch has its object.
ModuleExists == patch.entry
Visible(f) == f = "config" => Theme = "m"
\* form::fields of a document.
FieldOf(f, doc) ==
  [over |-> doc[f] # None, text |-> IF doc[f] = None THEN Inherited[f] ELSE doc[f]]
ModuleTextOf(doc) == IF doc.file = None THEN "" ELSE doc.file
\* form::assign: a value creates the objects above it, no value leaves them.
Assigned(key, value) ==
  [patch EXCEPT ![key] = value, !.entry = @ \/ (key \in {"config", "file"} /\ value # None)]

\* Metadata::validate over the effective values of a section.
Valid(section) == section = "module" => patch.config # "odd"
Idle == at = "idle"
Edited == Idle /\ edits < MaxEdits /\ edits' = edits + 1
Blocks == blocked' = (invalid' # {} \/ moduleErrors' # {})
Elsewhere == UNCHANGED <<file, preference, at, asked, original, update, foreign, history>>

(***************************************************************************)
(* Loading: on a thread of its own, and then on_loaded.                    *)
(***************************************************************************)
Load ==
  /\ at = "off" /\ file # Broken
  /\ at' = "idle"
  /\ patch' = PatchOf(file) /\ original' = file
  /\ field' = [f \in Fields |-> FieldOf(f, patch')]
  /\ moduleText' = ModuleTextOf(patch')
  /\ changed' = {} /\ invalid' = {} /\ moduleErrors' = {}
  /\ autoSaved' \in {preference, None}   \* None: the library could not be loaded
  /\ autoPending' = (autoSaved' = TRUE)
  /\ dirty' = FALSE /\ blocked' = FALSE
  /\ UNCHANGED <<file, preference, asked, edits, foreign, history>>

Close == Idle /\ at' = "off"
         /\ UNCHANGED <<file, preference, asked, document, editors, update, window, edits,
                        foreign, history>>

(***************************************************************************)
(* The form's fields (on_changed, with Field::value and form::assign).     *)
(***************************************************************************)
\* A value that does not parse stays in its row and keeps the window from saving.
Edit(f, text) ==
  /\ Edited /\ Visible(f)
  /\ field' = [field EXCEPT ![f] = [over |-> TRUE, text |-> text]]
  /\ changed' = changed \cup {Owner[f]}
  /\ dirty' = TRUE
  /\ IF Parses(f, text)
       THEN /\ patch' = Assigned(f, text) /\ invalid' = invalid \ {f}
            /\ moduleText' = ModuleTextOf(patch')   \* wasm_modules::show
       ELSE invalid' = invalid \cup {f} /\ UNCHANGED <<patch, moduleText>>
  /\ UNCHANGED moduleErrors /\ Blocks
  /\ Elsewhere

Reset(f) ==
  /\ Edited /\ Visible(f) /\ field[f].over
  /\ patch' = Assigned(f, None)
  /\ field' = [field EXCEPT ![f] = [over |-> FALSE, text |-> Inherited[f]]]
  /\ changed' = changed \cup {Owner[f]} /\ invalid' = invalid \ {f}
  /\ moduleText' = ModuleTextOf(patch')
  /\ dirty' = TRUE
  /\ UNCHANGED moduleErrors /\ Blocks
  /\ Elsewhere

(***************************************************************************)
(* The modules' editor (on_module_action with wasm_modules::action).       *)
(***************************************************************************)
\* What every action that succeeds does.
ModuleDone(doc) ==
  /\ patch' = doc
  /\ changed' = changed \cup {"general"} /\ dirty' = TRUE
  /\ moduleText' = ModuleTextOf(doc)
  /\ Elsewhere

AddModule ==
  /\ Edited /\ ~ModuleExists
  /\ ModuleDone([patch EXCEPT !.entry = TRUE])
  /\ UNCHANGED <<field, invalid, moduleErrors>>
  /\ Blocks

\* The whole object goes; the rows of its configuration go back to what they inherit.
RemoveModule ==
  /\ Edited /\ ModuleExists
  /\ ModuleDone([patch EXCEPT !.entry = FALSE, !.config = None, !.file = None])
  /\ moduleErrors' = {}
  /\ field' = [field EXCEPT !["config"] = FieldOf("config", patch')]
  /\ invalid' = invalid \ {"config"}
  /\ Blocks

\* The theme's row in the form shows the module that was chosen in the list.
SelectModule ==
  /\ Edited /\ ModuleExists /\ Theme # "m"
  /\ ModuleDone(Assigned("theme", "m"))
  /\ field' = [field EXCEPT !["theme"] = [over |-> TRUE, text |-> "m"]]
  /\ UNCHANGED <<invalid, moduleErrors>>
  /\ Blocks

SetFile ==
  /\ Edited /\ ModuleExists
  /\ ModuleDone(Assigned("file", "path"))
  /\ moduleErrors' = {}
  /\ UNCHANGED <<field, invalid>>
  /\ Blocks

ResetFile ==
  /\ Edited /\ patch.file # None
  /\ ModuleDone(Assigned("file", None))
  /\ moduleErrors' = {}
  /\ UNCHANGED <<field, invalid>>
  /\ Blocks

\* A refused path stays in the editor, which writes its own row.
SetFileRefused ==
  /\ Edited /\ ModuleExists
  /\ moduleErrors' = {"file"} /\ blocked' = TRUE
  /\ moduleText' = "bad"
  /\ UNCHANGED <<patch, field, changed, invalid, dirty>>
  /\ Elsewhere

(***************************************************************************)
(* The applications' editor (app_options, finish_app_edit).                *)
(***************************************************************************)
AppEdited(value) ==
  /\ Edited
  /\ patch' = [patch EXCEPT !.app = value]
  /\ changed' = changed \cup {"general"} /\ dirty' = TRUE
  /\ UNCHANGED <<field, moduleText, invalid, moduleErrors, blocked>>
  /\ Elsewhere

AddApp == patch.app = None /\ AppEdited("entry")
SetApp == patch.app # None /\ \E value \in {"entry", "on"} : AppEdited(value)
RemoveApp == patch.app # None /\ AppEdited(None)

\* on_update_changed: going back to the saved preference is no change.
ToggleUpdate ==
  /\ Edited /\ autoSaved # None
  /\ autoPending' = ~autoPending
  /\ dirty' = (changed # {} \/ autoPending' # autoSaved)
  /\ UNCHANGED <<file, preference, at, asked, document, editors, autoSaved, blocked, foreign,
                 history>>

(***************************************************************************)
(* Saving (on_save, Document::save, updater::write).                       *)
(***************************************************************************)
UpdateChanged == autoSaved # None /\ autoSaved # autoPending

\* The sections that changed are validated, and the new file is written beside the old.
Save(apply) ==
  /\ Idle /\ ~blocked /\ (apply \/ dirty)
  /\ \A section \in changed : Valid(section)
  /\ asked' = [apply |-> apply, config |-> changed # {}, update |-> UpdateChanged]
  /\ at' = IF changed # {} THEN "compare" ELSE IF UpdateChanged THEN "update" ELSE "finish"
  /\ overtaken' = FALSE
  /\ UNCHANGED <<file, preference, document, editors, update, window, edits, foreign, unapplied>>

\* Mutant: the new file replaces the old without a look at it.
CompareNothing ==
  /\ at = "compare"
  /\ at' = "persist"
  /\ UNCHANGED <<file, preference, asked, document, editors, update, window, edits, foreign,
                 history>>

\* The file must still hold what was read.  The new one may also not be written.
Compare ==
  /\ at = "compare"
  /\ at' \in IF file = original THEN {"persist", "idle"} ELSE {"idle"}
  /\ UNCHANGED <<file, preference, asked, document, editors, update, window, edits, foreign,
                 history>>

AfterConfig == IF asked.update THEN "update" ELSE "finish"
Persist ==
  /\ at = "persist"
  /\ file' = patch /\ original' = patch
  /\ changed' = {}
  /\ at' = AfterConfig
  /\ unapplied' = TRUE
  /\ UNCHANGED <<preference, asked, patch, field, moduleText, invalid, moduleErrors, update,
                 window, edits, foreign, overtaken>>

PersistFails ==
  /\ at = "persist" /\ at' = "idle"
  /\ UNCHANGED <<file, preference, asked, document, editors, update, window, edits, foreign,
                 history>>

WriteUpdate ==
  /\ at = "update" /\ at' = "finish"
  /\ preference' = autoPending /\ autoSaved' = autoPending
  /\ UNCHANGED <<file, asked, document, editors, autoPending, window, edits, foreign, history>>

WriteUpdateFails ==
  /\ at = "update" /\ at' = "idle"
  /\ dirty' = TRUE
  /\ UNCHANGED <<file, preference, asked, document, editors, update, blocked, edits, foreign,
                 history>>

\* broker::request_restart posts a command, if the broker's window is there.
Requests == asked.apply /\ (asked.config \/ ~asked.update)
Finish ==
  /\ at = "finish" /\ at' = "idle"
  /\ dirty' = FALSE
  /\ unapplied' = (unapplied /\ ~Requests)
  /\ UNCHANGED <<file, preference, asked, document, editors, update, blocked, edits, foreign,
                 overtaken>>

(***************************************************************************)
(* Other programs: editors of the file, a second settings window, the      *)
(* updater's own dialog.                                                   *)
(***************************************************************************)
ForeignWrite(content) ==
  /\ foreign < MaxForeign /\ foreign' = foreign + 1
  /\ file' = content /\ file # content
  /\ overtaken' = (overtaken \/ at = "persist")
  /\ UNCHANGED <<preference, at, asked, document, editors, update, window, edits, unapplied>>

-----------------------------------------------------------------------------
Init ==
  /\ file = Absent /\ preference \in BOOLEAN
  /\ at = "off" /\ asked = [apply |-> FALSE, config |-> FALSE, update |-> FALSE]
  /\ patch = NoPatch /\ original = Absent
  /\ field = [f \in Fields |-> FieldOf(f, NoPatch)] /\ moduleText = ""
  /\ changed = {} /\ invalid = {} /\ moduleErrors = {}
  /\ autoSaved = None /\ autoPending = FALSE
  /\ dirty = FALSE /\ blocked = FALSE
  /\ edits = 0 /\ foreign = 0
  /\ unapplied = FALSE /\ overtaken = FALSE

Form == \E f \in Fields : Reset(f) \/ \E text \in Texts[f] : Edit(f, text)
Modules == AddModule \/ RemoveModule \/ SelectModule \/ SetFile \/ ResetFile \/ SetFileRefused
Apps == AddApp \/ SetApp \/ RemoveApp
Saving == \/ \E apply \in BOOLEAN : Save(apply)
          \/ Compare \/ Persist \/ PersistFails \/ WriteUpdate \/ WriteUpdateFails \/ Finish
Next ==
  \/ Load \/ Close
  \/ Form \/ Modules \/ Apps \/ ToggleUpdate
  \/ Saving
  \/ \E content \in ForeignContents : ForeignWrite(content)

Spec == Init /\ [][Next]_vars

-----------------------------------------------------------------------------
TypeOK ==
  /\ file \in Patches \cup {Absent, Broken} /\ original \in Patches \cup {Absent}
  /\ patch \in Patches
  /\ at \in {"off", "idle", "compare", "persist", "update", "finish"}
  /\ autoSaved \in BOOLEAN \cup {None}
  /\ {preference, autoPending, dirty, blocked, unapplied, overtaken} \subseteq BOOLEAN
  /\ changed \subseteq {"general", "wasm", "module"} /\ invalid \subseteq Fields
  /\ moduleErrors \subseteq {"file"}

\* A row of the form shows what the draft holds, whichever editor wrote it, unless
\* it holds what cannot be parsed (on_changed and on_module_action keep them equal).
RowsTellDraft ==
  at # "off" => /\ \A f \in Fields \ invalid : field[f] = FieldOf(f, patch)
                /\ moduleErrors = {} => moduleText = ModuleTextOf(patch)

\* A window that is not dirty has nothing to save: its draft is what it last read
\* or wrote, also after a save one of whose two parts failed.
CleanIsSaved ==
  Idle /\ ~dirty => patch = PatchOf(original) /\ ~UpdateChanged

\* The save buttons are barred exactly while an edit is invalid.
BarredForReason == at # "off" => (blocked <=> invalid # {} \/ moduleErrors # {})

\* A value in the draft that breaks its schema was read from the file, or is of a
\* section that counts as changed, which the next save validates.
OddIsOld == patch.config = "odd" /\ "module" \notin changed => PatchOf(original).config = "odd"

Inv == TypeOK /\ RowsTellDraft /\ CleanIsSaved /\ BarredForReason /\ OddIsOld

\* A save replaces only what the window has read or written itself, unless another
\* program wrote between the comparison and the replacement (Document::save).
ForeignSurvives == [][Persist => file = original \/ overtaken]_vars

\* A value that breaks its schema is written only if it was read, although a save
\* validates the changed sections alone (on_save).
OddIsNotWritten == [][Persist /\ patch.config = "odd" => PatchOf(original).config = "odd"]_vars

\* After a save that applies, nothing that was saved waits for a restart, unless that
\* save had only the updater's preference to write (on_save).
ApplyAsks == [][Finish /\ asked.apply /\ (asked.update => asked.config) => ~unapplied']_vars
=============================================================================
