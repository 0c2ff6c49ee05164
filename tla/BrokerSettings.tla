--------------------------- MODULE BrokerSettings ---------------------------
(***************************************************************************)
(* The two sides of the settings: the broker's service, which reads and    *)
(* publishes the files, and the window, which writes one of them.  They    *)
(* are two programs that share no state but that file; each has a foreign  *)
(* writer in its own module for the other.                                 *)
(***************************************************************************)
EXTENDS Naturals, Sequences

CONSTANTS
  \* SettingsService
  Clients, ClientLimit, MaxRequests, MaxWrites, MaxRestarts,
  \* SettingsWindow
  None, Absent, MaxEdits, MaxForeign,
  Broken   \* a file that does not parse, for both

VARIABLES
  \* SettingsService
  disk, published, shown, service, halt, client, permits, waiters, job, restart, renderer,
  requests, writes, restarts, toasts, resets,
  \* SettingsWindow
  file, preference, at, asked, patch, original, field, moduleText, changed, invalid,
  moduleErrors, autoSaved, autoPending, dirty, blocked, edits, foreign, unapplied, overtaken

Service == INSTANCE SettingsService
Window == INSTANCE SettingsWindow

\* What is assumed of the constants.
SettingsAssumption == Service!ServiceAssumption /\ Window!WindowAssumption

ASSUME SettingsConstants == SettingsAssumption

serviceVars == <<disk, published, shown, service, halt, client, permits, waiters, job, restart,
                 renderer, requests, writes, restarts, toasts, resets>>
windowVars == <<file, preference, at, asked, patch, original, field, moduleText, changed,
                invalid, moduleErrors, autoSaved, autoPending, dirty, blocked, edits, foreign,
                unapplied, overtaken>>

SettingsInit == Service!Init /\ Window!Init

SettingsNext ==
  \/ Service!Next /\ UNCHANGED windowVars
  \/ Window!Next /\ UNCHANGED serviceVars

SettingsSpec == SettingsInit /\ [][SettingsNext]_<<serviceVars, windowVars>>

-----------------------------------------------------------------------------
\* One operation of the service is on the disk and one notification is shown in a
\* life of the flag, whoever times out; a renderer starts with what is published
\* (SettingsService.Inv).  The rows of the settings window show its draft, and a
\* window that is not dirty has nothing unsaved (SettingsWindow.Inv).
SettingsInv == Service!Inv /\ Window!Inv

\* A save replaces no foreign write it could see, writes nothing invalid that it did
\* not read, and one that applies leaves nothing saved that waits for a restart
\* (Document::save, on_save).
SavesAreHonest == Window!ForeignSurvives /\ Window!OddIsNotWritten /\ Window!ApplyAsks
=============================================================================
