----------------------------- MODULE LibraryFiles -----------------------------
(***************************************************************************)
(* What the requests of a user do to the files of one book: it is exported *)
(* to a place of the user's, as it is or converted, and moved to the trash *)
(* and from there to the Recycle Bin (CLibraryExportFacade,                *)
(* CLibraryTrashFacade, CManagedTrashService).  The host serves one        *)
(* request at a time, but the import the book came from may still be       *)
(* rolled back by its own thread, any file operation may fail, and the     *)
(* host may be killed between any two of them.                             *)
(***************************************************************************)
EXTENDS ManagedFileEncoding, FiniteSets

CONSTANT StoredFiles     \* what may be stored for the book: [encoding, stream]

Parts == {"book", "cover"}

VARIABLES
    stored,          \* the managed file of the book
    row,             \* the book is in the catalog
    place,           \* where the book and its cover are
    step,            \* how far the host is with the current request
    found, staged,   \* the parts resolved; stagedEntries
    result,          \* the last answer to the user
    rollback,        \* the rollback of the book's import
    dest,            \* what the user's chosen file holds
    backups, temp,   \* what lies beside it under the names of the export
    existed,         \* destinationExists
    chosen           \* what it held before the first export

catalogState == <<stored, row, place>>
exportState  == <<dest, backups, temp, existed, chosen>>
trashState   == <<found, staged>>
vars == <<catalogState, exportState, trashState, step, result, rollback>>

Places == {"objects", "trash", "bin", "gone"}
NoFile == "none"

Init ==
    /\ stored \in StoredFiles
    /\ row = TRUE /\ place \in [Parts -> {"objects", "gone"}] /\ place["book"] = "objects"
    /\ step = "idle" /\ found = {} /\ staged = <<>> /\ result = [kind |-> "none"]
    /\ rollback \in {"none", "due"}
    /\ chosen \in {NoFile, "old"} /\ dest = chosen
    /\ backups = {} /\ temp = NoFile /\ existed = FALSE

Answer(r) == step' = "idle" /\ result' = r

-----------------------------------------------------------------------------
(* MoveBookToTrash.                                                        *)

TrashBook ==
    /\ step = "idle"
    /\ IF row THEN step' = "resolve" /\ UNCHANGED result ELSE Answer([kind |-> "notFound"])
    /\ found' = {} /\ staged' = <<>>
    /\ UNCHANGED <<catalogState, exportState, rollback>>

\* ResolveManagedSourcePathIfPresent: a part that is not there is left out.
Resolve ==
    /\ step = "resolve"
    /\ found' = {p \in Parts : place[p] = "objects"}
    /\ step' = "stage"
    /\ UNCHANGED <<catalogState, exportState, staged, result, rollback>>

NextPart ==
    IF "book" \in found /\ ~Contains(staged, "book") THEN "book"
    ELSE IF "cover" \in found /\ ~Contains(staged, "cover") THEN "cover" ELSE "none"

\* MoveToTrash, to a name that is still free; it fails for a part that has gone
\* meanwhile as for one that is open elsewhere.
Stage ==
    /\ step = "stage" /\ NextPart # "none"
    /\ \/ /\ place[NextPart] = "objects"
          /\ place' = [place EXCEPT ![NextPart] = "trash"]
          /\ staged' = Append(staged, NextPart)
          /\ UNCHANGED step
       \/ step' = "restore" /\ UNCHANGED <<place, staged>>
    /\ UNCHANGED <<stored, row, exportState, found, result, rollback>>

\* Mutant: what cannot be removed from the catalog goes on to the Recycle Bin.
AlwaysRecycle == "recycle"

AfterFailedRemove == "restore"

\* Remove, which does not miss a row that somebody else has removed.
RemoveRow ==
    /\ step = "stage" /\ NextPart = "none"
    /\ \/ row' = FALSE /\ step' = "recycle"
       \/ step' = AfterFailedRemove /\ UNCHANGED row
    /\ UNCHANGED <<stored, place, exportState, found, staged, result, rollback>>

\* RestoreStagedPathsOrThrow: the last one first, and no further after a failure.
Restore ==
    /\ step = "restore"
    /\ IF staged = <<>>
       THEN Answer([kind |-> "failed"]) /\ UNCHANGED <<place, staged>>
       ELSE \/ /\ place' = [place EXCEPT ![Last(staged)] = "objects"]
               /\ staged' = Front(staged)
               /\ UNCHANGED <<step, result>>
            \/ Answer([kind |-> "stranded"]) /\ UNCHANGED <<place, staged>>
    /\ UNCHANGED <<stored, row, exportState, found, rollback>>

\* Mutant: only parts that were missing at the beginning are reported.
MissingFromStart(after) == found # Parts

\* hasOrphanedFiles; every cover counts as one the row knows of.
Orphaned(after) ==
    found # Parts \/ \E n \in DOMAIN staged : after[staged[n]] # "trash"

\* MoveToRecycleBin takes all staged files, or some of them and reports an error.
Recycle ==
    /\ step = "recycle"
    /\ IF staged = <<>>
       THEN UNCHANGED place /\ Answer([kind |-> "managedTrash", orphans |-> TRUE])
       ELSE \E taken \in SUBSET ToSet(staged), failed \in BOOLEAN :
               /\ failed \/ taken = ToSet(staged)
               /\ place' = [p \in Parts |-> IF p \in taken THEN "bin" ELSE place[p]]
               /\ Answer(IF failed
                         THEN [kind |-> "managedTrash", orphans |-> Orphaned(place')]
                         ELSE [kind |-> "recycleBin", orphans |-> found # Parts])
    /\ UNCHANGED <<stored, row, exportState, found, staged, rollback>>

-----------------------------------------------------------------------------
(* ExportBook.                                                             *)

\* The checks of ExportBook, ResolveManagedSourcePath among them.
BeginExport ==
    /\ step = "idle"
    /\ IF ~row THEN Answer([kind |-> "notFound"])
       ELSE IF place["book"] # "objects" THEN Answer([kind |-> "failed"])
       ELSE step' \in {"decode", "decodeToConvert"} /\ UNCHANGED result
    /\ UNCHANGED <<catalogState, exportState, trashState, rollback>>

\* DecodeFileToPath: to a sibling of the destination, or to the workspace of the
\* converter; nothing is left of it when it fails.
Decode ==
    /\ step \in {"decode", "decodeToConvert"}
    /\ IF place["book"] = "objects" /\ Decoded(stored).ok
       THEN \/ step' = (IF step = "decode" THEN "prepared" ELSE "convert")
               /\ temp' = (IF step = "decode" THEN "book" ELSE NoFile)
               /\ UNCHANGED result
            \/ Answer([kind |-> "failed"]) /\ UNCHANGED temp
       ELSE /\ Answer([kind |-> IF place["book"] = "objects" THEN "undecodable" ELSE "failed"])
            /\ UNCHANGED temp
    /\ UNCHANGED <<catalogState, trashState, dest, backups, existed, chosen, rollback>>

\* The converter works in the directory of the destination: it delivers the book,
\* or a file somebody else has put there in the meantime (ResolveSingleProducedFile).
Convert ==
    /\ step = "convert"
    /\ \/ temp' \in {"book", "stranger"} /\ step' = "prepared" /\ UNCHANGED result
       \/ Answer([kind |-> "failed"]) /\ UNCHANGED temp
    /\ UNCHANGED <<catalogState, trashState, dest, backups, existed, chosen, rollback>>

\* Mutant: what is in the way is removed.
BackupOmitted == backups

Backup == backups \union {dest}

\* ReplaceDestinationWithPreparedFile: the file in the way is renamed, ...
SetAside ==
    /\ step = "prepared"
    /\ existed' = (dest # NoFile)
    /\ IF dest = NoFile
       THEN step' = "place" /\ UNCHANGED <<dest, backups, temp, result>>
       ELSE \/ backups' = Backup /\ dest' = NoFile /\ step' = "place" /\ UNCHANGED <<temp, result>>
            \/ Answer([kind |-> "failed"]) /\ temp' = NoFile /\ UNCHANGED <<dest, backups>>
    /\ UNCHANGED <<catalogState, trashState, chosen, rollback>>

\* ... the prepared one gets its name, or else the old one gets it back, ...
Place ==
    /\ step = "place"
    /\ \/ dest' = temp /\ temp' = NoFile /\ step' = "tidy" /\ UNCHANGED <<backups, result>>
       \/ /\ temp' = NoFile /\ Answer([kind |-> "failed"])
          /\ \/ existed /\ \E b \in backups : dest' = b /\ backups' = backups \ {b}
             \/ UNCHANGED <<dest, backups>>
    /\ UNCHANGED <<catalogState, trashState, existed, chosen, rollback>>

\* ... and the old one goes, if it can be removed.
Tidy ==
    /\ step = "tidy"
    /\ backups' \in {backups, IF existed THEN {} ELSE backups}
    /\ Answer([kind |-> "exported"])
    /\ UNCHANGED <<catalogState, trashState, dest, temp, existed, chosen, rollback>>

-----------------------------------------------------------------------------
(* The rollback of the import, and the end of the host.                    *)

Request == UNCHANGED <<exportState, trashState, step, result>>

\* CollectBookPaths finds the row, or nothing to do; RemoveBatch deletes it.
RollbackRow ==
    /\ rollback = "due"
    /\ \/ row' = FALSE /\ rollback' = "files"
       \/ rollback' = "none" /\ UNCHANGED row
    /\ UNCHANGED <<stored, place>> /\ Request

\* CleanupManagedPathNoThrow, for the cover and for the book.
RollbackFiles(p) ==
    /\ rollback = (IF p = "cover" THEN "files" ELSE "bookFile")
    /\ rollback' = IF p = "cover" THEN "bookFile" ELSE "none"
    /\ \/ place[p] = "objects" /\ place' = [place EXCEPT ![p] = "gone"]
       \/ UNCHANGED place
    /\ UNCHANGED <<stored, row>> /\ Request

Kill ==
    /\ step # "idle" \/ rollback # "none"
    /\ step' = "idle" /\ rollback' = "none"
    /\ result' = [kind |-> "none"]
    /\ UNCHANGED <<catalogState, exportState, trashState>>

Next ==
    \/ TrashBook \/ Resolve \/ Stage \/ RemoveRow \/ Restore \/ Recycle
    \/ BeginExport \/ Decode \/ Convert \/ SetAside \/ Place \/ Tidy
    \/ RollbackRow \/ Kill \/ \E p \in Parts : RollbackFiles(p)

Spec == Init /\ [][Next]_vars

-----------------------------------------------------------------------------
(* Properties.                                                             *)

\* While a book is in the catalog its file is in the library or in the library's
\* trash, whatever failed and wherever the host was killed.
BookNeverLost == row => place["book"] \in {"objects", "trash"}

\* What the user is told of a book moved to the trash is true of every one of its
\* files, also of those the Recycle Bin took before it failed.
TrashIsTold ==
    LET told(where) == \A p \in Parts : place[p] = where
    IN  /\ result = [kind |-> "recycleBin", orphans |-> FALSE] => told("bin")
        /\ result = [kind |-> "managedTrash", orphans |-> FALSE] => told("trash")

\* At every moment of an export, and after a kill at any moment, the file the user
\* chose to overwrite is there as it was, or a whole file has replaced it (not
\* always the book's, see Convert).
ChosenFileKept ==
    chosen = "old" =>
        {"old", "book", "stranger"} \intersect ({dest} \union backups) # {}

\* A book that was stored compressed "round-trips": it can be read back.
StoredBookDecodes == result.kind # "undecodable"
=============================================================================
