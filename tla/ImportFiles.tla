-------------------------------- MODULE ImportFiles --------------------------------
(***************************************************************************)
(* The encrypted file of a bill's import and its row in import_files: the  *)
(* import writes the file first and the row later, the user and the        *)
(* retention timer remove the file first and mark the row later, and the   *)
(* process may end between any two of these steps.  What the import does   *)
(* with the bill is AuditSession's.                                        *)
(***************************************************************************)
EXTENDS FiniteSets

CONSTANTS
    File,      \* ids of files, new for each import
    Purger,    \* purges that may run at the same time, of the timer and the user
    None

VARIABLES
    stored,    \* the files under their final name
    leftover,  \* the temporary files
    row,       \* import_files.status, or None
    due,       \* rows whose retention date has come
    import,    \* what the import of each file does next
    purge,     \* what each purge has listed and the file it is at
    orphaned   \* history: files whose import ended before the row, with the process or
               \* with an error whose cleaning up failed too

vars == <<stored, leftover, row, due, import, purge, orphaned>>

Idle == [todo |-> {}, at |-> None]

Init ==
    /\ stored = {} /\ leftover = {} /\ due = {} /\ orphaned = {}
    /\ row = [f \in File |-> None]
    /\ import = [f \in File |-> "new"]
    /\ purge = [p \in Purger |-> Idle]

Goto(f, step) == import' = [import EXCEPT ![f] = step]

\* storeEncryptedImport: the temporary file, then its rename.
WriteTemporary(f) ==
    /\ import[f] = "new"
    /\ leftover' = leftover \cup {f}
    /\ Goto(f, "rename")
    /\ UNCHANGED <<stored, row, due, purge, orphaned>>

Rename(f) ==
    /\ import[f] = "rename"
    /\ leftover' = leftover \ {f}
    /\ stored' = stored \cup {f}
    /\ Goto(f, "persist")
    /\ UNCHANGED <<row, due, purge, orphaned>>

\* An error is answered by removing what was written, which may fail as well: then it
\* stays, and nothing removes it later.
Orphan(f, removes) == orphaned' = IF removes THEN orphaned ELSE orphaned \cup {f}

RenameFails(f, removes) ==
    /\ import[f] = "rename"
    /\ leftover' = IF removes THEN leftover \ {f} ELSE leftover
    /\ Orphan(f, removes)
    /\ Goto(f, "over")
    /\ UNCHANGED <<stored, row, due, purge>>

\* createAuditImport and createGroupedAuditImport insert the row with the statement.
Persist(f) ==
    /\ import[f] = "persist"
    /\ row' = [row EXCEPT ![f] = "parsed"]
    /\ Goto(f, "match")
    /\ UNCHANGED <<stored, leftover, due, purge, orphaned>>

\* The transaction failed: the file goes.  Mutant: it stays.
KeptOnError(f) == stored

AfterError(f) == stored \ {f}

PersistFails(f, removes) ==
    /\ import[f] = "persist"
    /\ stored' = IF removes THEN AfterError(f) ELSE stored
    /\ Orphan(f, removes)
    /\ Goto(f, "over")
    /\ UNCHANGED <<leftover, row, due, purge>>

\* runMatching and saveAuditResults, or markAuditImportFailed, which writes the row
\* whatever its status is by then.
Match(f, fails) ==
    /\ import[f] = "match"
    /\ row' = IF fails THEN [row EXCEPT ![f] = "failed"] ELSE row
    /\ Goto(f, "over")
    /\ UNCHANGED <<stored, leftover, due, purge, orphaned>>

FallsDue(f) ==
    /\ row[f] # None
    /\ due' = due \cup {f}
    /\ UNCHANGED <<stored, leftover, row, import, purge, orphaned>>

\* purgeExpiredImports lists what is due and not purged, once ...
Expired == {f \in due : row[f] \in {"parsed", "failed"}}

StartTimer(p) ==
    /\ purge[p] = Idle
    /\ Expired # {}
    /\ purge' = [purge EXCEPT ![p] = [todo |-> Expired, at |-> None]]
    /\ UNCHANGED <<stored, leftover, row, due, import, orphaned>>

\* ... and POST /files/:id/purge takes one file, due or not, purged or not.
StartByUser(p, f) ==
    /\ purge[p] = Idle
    /\ row[f] # None
    /\ purge' = [purge EXCEPT ![p] = [todo |-> {f}, at |-> None]]
    /\ UNCHANGED <<stored, leftover, row, due, import, orphaned>>

\* Mutant: removing is left for the next time.
RemovedLater(f) == stored

Removed(f) == stored \ {f}

RemoveFile(p, f) ==
    /\ f \in purge[p].todo
    /\ purge[p].at = None
    /\ stored' = Removed(f)
    /\ purge' = [purge EXCEPT ![p] = [todo |-> @.todo \ {f}, at |-> f]]
    /\ UNCHANGED <<leftover, row, due, import, orphaned>>

MarkPurged(p) ==
    /\ purge[p].at # None
    /\ row' = [row EXCEPT ![purge[p].at] = "purged"]
    /\ purge' = [purge EXCEPT ![p].at = None]
    /\ UNCHANGED <<stored, leftover, due, import, orphaned>>

\* An error of the disk or the database ends the whole purge, with what was listed
\* after the file; the next one lists it again.
PurgeFails(p) ==
    /\ purge[p] # Idle
    /\ purge' = [purge EXCEPT ![p] = Idle]
    /\ UNCHANGED <<stored, leftover, row, due, import, orphaned>>

\* The process ends, with every import and purge that is under way.
UnderWay == {f \in File : import[f] \in {"rename", "persist", "match"}}

Crash ==
    /\ UnderWay # {} \/ \E p \in Purger : purge[p] # Idle
    /\ import' = [f \in File |-> IF f \in UnderWay THEN "over" ELSE import[f]]
    /\ purge' = [p \in Purger |-> Idle]
    /\ orphaned' = orphaned \cup {f \in UnderWay : import[f] # "match"}
    /\ UNCHANGED <<stored, leftover, row, due>>

Next ==
    \/ \E f \in File :
        \/ WriteTemporary(f) \/ Rename(f) \/ Persist(f) \/ FallsDue(f)
        \/ \E removes \in BOOLEAN : RenameFails(f, removes) \/ PersistFails(f, removes)
        \/ \E fails \in BOOLEAN : Match(f, fails)
    \/ \E p \in Purger :
        \/ StartTimer(p) \/ MarkPurged(p) \/ PurgeFails(p)
        \/ \E f \in File : StartByUser(p, f) \/ RemoveFile(p, f)
    \/ Crash

Spec == Init /\ [][Next]_vars

-------------------------------------------------------------------------------
(* Properties                                                              *)

\* A file has a row only once it was stored, a purge is at what has a row, and only
\* what has a row falls due.
TypeOK ==
    /\ stored \cup leftover \cup due \cup orphaned \subseteq File
    /\ row \in [File -> {"parsed", "failed", "purged", None}]
    /\ import \in [File -> {"new", "rename", "persist", "match", "over"}]
    /\ purge \in [Purger -> [todo : SUBSET File, at : File \cup {None}]]
    /\ \A f \in File : row[f] # None => import[f] \in {"match", "over"} /\ f \notin leftover
    /\ \A p \in Purger : \A f \in (purge[p].todo \cup {purge[p].at}) \ {None} : row[f] # None
    /\ \A f \in due : row[f] # None

\* A file that is on the disk is one that retention will find: it has a row that is
\* not marked as purged, or its import is under way - however imports, purges and
\* ends of the process interleave.  The exception is the file of an import that ended
\* before its row without removing it, which stays for ever: RetentionFindsAll is this
\* without the exception.
EveryFileIsAccounted ==
    \A f \in stored \cup leftover :
        row[f] \in {"parsed", "failed"} \/ f \in UnderWay \/ f \in orphaned

\* What SECURITY.md says of the original files, without an exception: they are kept for
\* 90 days, then purged - so that a file on the disk whose import is over has a row that
\* retention will find.
RetentionFindsAll ==
    \A f \in stored \cup leftover : row[f] \in {"parsed", "failed"} \/ f \in UnderWay

=============================================================================
