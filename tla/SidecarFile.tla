------------------------------ MODULE SidecarFile ------------------------------
(***************************************************************************)
(* A document kept in a JSON file beside a temporary file and a backup     *)
(* (read_document, restore_backup and write_atomically, of which           *)
(* execution_binding_core.rs and turn_execution_summary_core.rs have the   *)
(* same copy).  A command holds the lock of its store from the read to the *)
(* end of the write.  Any call of the file system may fail, and the        *)
(* process may end between any two; a rename that was made stays made.     *)
(* One process uses the file.                                              *)
(***************************************************************************)
CONSTANTS Documents,
          Blank,    \* Document::default()
          Torn,     \* a file created and not written to its end
          None      \* no such file

ASSUME DocumentsAssumption == /\ Blank \in Documents /\ Torn \notin Documents
                              /\ None \notin Documents /\ Torn # None

VARIABLES
  path, temp, backup,  \* the three files
  at,                  \* where the command under way is in write_atomically
  doc,                 \* the document it writes
  seen, answer         \* what the last command read, and how it ended

files    == <<path, temp, backup>>
fileVars == <<files, at, doc, seen, answer>>

Steps == {"idle", "create", "fill", "look", "clear", "move", "place", "undo", "tidy"}

FileTypeOK ==
  /\ {path, backup} \subseteq Documents \cup {None}
  /\ temp \in Documents \cup {None, Torn}
  /\ at \in Steps /\ doc \in Documents /\ seen \in Documents
  /\ answer \in {"none", "ok", "error"}

FileInit ==
  /\ path = None /\ temp = None /\ backup = None
  /\ at = "idle" /\ doc = Blank /\ seen = Blank /\ answer = "none"

-----------------------------------------------------------------------------
(* Reading. *)

Lost == path = None /\ backup # None

\* What read_document makes of the files.
Document == IF path # None THEN path ELSE IF backup # None THEN backup ELSE Blank

Restored ==
  /\ path' = IF Lost THEN backup ELSE path
  /\ backup' = IF Lost THEN None ELSE backup
  /\ UNCHANGED temp

Opens == at = "idle" /\ Restored /\ seen' = Document

\* The command has nothing to write.
Answers == Opens /\ answer' = "ok" /\ UNCHANGED <<at, doc>>

\* It goes on to write a document.
Writes(new) == Opens /\ doc' = new /\ at' = "create" /\ UNCHANGED answer

\* The backup cannot be put back, or the file cannot be read.
OpenFails ==
  /\ at = "idle" /\ answer' = "error" /\ UNCHANGED <<at, doc, seen>>
  /\ Restored \/ UNCHANGED files

-----------------------------------------------------------------------------
(* Writing: write_atomically. *)

Goes(step) == at' = step /\ UNCHANGED <<doc, seen, answer>>
Ends(how)  == at' = "idle" /\ answer' = how /\ UNCHANGED <<doc, seen>>

Create == at = "create" /\ temp' = Torn /\ Goes("fill") /\ UNCHANGED <<path, backup>>
Fill   == at = "fill" /\ temp' = doc /\ Goes("look") /\ UNCHANGED <<path, backup>>
Look   == at = "look" /\ Goes(IF path # None THEN "clear" ELSE "place") /\ UNCHANGED files
Clear  == at = "clear" /\ backup' = None /\ Goes("move") /\ UNCHANGED <<path, temp>>
\* mutant: the old file is removed and not kept as a backup
MoveAway == at = "move" /\ path' = None /\ Goes("place") /\ UNCHANGED <<temp, backup>>

Move   == at = "move" /\ backup' = path /\ path' = None /\ Goes("place") /\ UNCHANGED temp
Place  == at = "place" /\ path' = temp /\ temp' = None /\ Goes("tidy") /\ UNCHANGED backup

\* A call before the last rename fails: nothing is put back.
GivesUp == at \in {"create", "fill", "clear", "move"} /\ Ends("error") /\ UNCHANGED files

\* The last rename fails: the temporary file goes, the backup comes back; either
\* may fail in its turn.
PlaceFails == at = "place" /\ Goes("undo") /\ UNCHANGED files

Undo ==
  /\ at = "undo" /\ Ends("error") /\ temp' \in {temp, None}
  /\ \/ UNCHANGED <<path, backup>>
     \/ Lost /\ path' = backup /\ backup' = None

\* A backup that cannot be removed stays.
Tidy == at = "tidy" /\ Ends("ok") /\ backup' \in {backup, None} /\ UNCHANGED <<path, temp>>

Crash == Ends("none") /\ UNCHANGED files

Writing ==
  \/ Create \/ Fill \/ Look \/ Clear \/ Move \/ Place
  \/ GivesUp \/ PlaceFails \/ Undo \/ Tidy

FileNext == Answers \/ (\E new \in Documents : Writes(new)) \/ OpenFails \/ Writing \/ Crash

FileSpec == FileInit /\ [][FileNext]_fileVars

-----------------------------------------------------------------------------
stageOf == IF at = "idle" THEN "idle" ELSE IF at = "tidy" THEN "taken" ELSE "asked"

Promised == INSTANCE AtomicFile WITH content <- Document, stage <- stageOf, target <- doc

\* The three files stand for one document that is replaced as a whole or not at
\* all and is told so truly, whatever calls fail and wherever the process ends.
FileIsAtomic == Promised!Spec
=============================================================================
