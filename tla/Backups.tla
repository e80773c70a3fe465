------------------------------ MODULE Backups ------------------------------
(***************************************************************************)
(* Backups of one server: BackupManager and BackupService of               *)
(* backend/internal/services and their handlers.                           *)
(*                                                                         *)
(* A backup is a script and then a row, in the handler: the script runs to *)
(* its end whatever happens to the request, the INSERT is made in the      *)
(* request's context and its error is dropped.  File names carry the time  *)
(* in seconds, so that two backups of one second share a file, and their   *)
(* scripts may be at it side by side.                                      *)
(***************************************************************************)
EXTENDS Background

CONSTANTS
  Paths,        \* file names
  FullPaths     \* those of them that are BackupFull's

VARIABLES
  files,        \* on the server, per path: "none", "whole" or "broken"
  row,          \* backups, per call: "none", "pending", "failed", "completed"
  path,         \* per call: the file it is about
  database,     \* what the database holds: "live", or the file it was restored from
  removed,      \* history: files removed by the panel
  shared        \* history: files two scripts were at the same time

backupVars == <<files, row, path, database, removed, shared>>
vars == <<op, pc, clash, crashed, troubles, lost, files, row, path, database, removed, shared>>

Ops    == {"create", "backup", "restore", "deleteRow", "deleteFile"}
Labels == {"script", "write", "completed", "failed", "load", "rm"}

Init ==
  /\ CallsInit
  /\ files = [p \in Paths |-> "none"]
  /\ row = [c \in Calls |-> "none"]
  /\ path \in [Calls -> Paths]
  /\ database = "live"
  /\ removed = {} /\ shared = {}

(* POST /backups: a row that nothing takes up, and an error for the client,*)
(* since the NULLs in it cannot be read back.                              *)
Create(c) ==
  /\ Begin(c, "create", "done")
  /\ row' = [row EXCEPT ![c] = "pending"]
  /\ UNCHANGED <<files, path, database, removed, shared>>

(***************************************************************************)
(* BackupDatabase, BackupSite and BackupFull                               *)
(***************************************************************************)
Backup(c) ==
  /\ Begin(c, "backup", "script")
  /\ UNCHANGED backupVars

Write(p, content) == files' = [files EXCEPT ![p] = content]

(* A script that is on its way and writes p.                               *)
Writes(c, p) == pc[c] = "write" /\ path[c] = p

(* What has been written again is no longer removed.                       *)
StillRemoved == {p \in removed : files'[p] = "none"}

(* Mutant of Script: the error of RunScript is not looked at.              *)
ScriptUnchecked(c) ==
  /\ \/ Go(c, "script", "write") /\ Write(path[c], "broken")
     \/ GoFailed(c, "script", "completed") /\ UNCHANGED files
  /\ removed' = StillRemoved
  /\ UNCHANGED <<row, path, database, shared>>

(* No server: no row.  No connection: a row.  A script begins with an empty*)
(* file, but for BackupFull, which fills a directory first.                *)
Script(c) ==
  /\ \/ /\ Go(c, "script", "write")
        /\ IF path[c] \in FullPaths THEN UNCHANGED files ELSE Write(path[c], "broken")
        /\ shared' = IF \E d \in Calls : Writes(d, path[c]) THEN shared \cup {path[c]} ELSE shared
     \/ /\ GoFailed(c, "script", "done") \/ GoFailed(c, "script", "failed")
        /\ UNCHANGED <<files, shared>>
  /\ removed' = StillRemoved
  /\ UNCHANGED <<row, path, database>>

(* It ends with an ls of the file, which fails if the panel has removed the*)
(* file under it; BackupFull makes the file at its end, of whatever is in  *)
(* the directory, and removes that.  Two scripts write into each other's   *)
(* file, or remove each other's directory, and both succeed.  What fails on*)
(* the left of a pipe into gzip, or is followed by || true, goes unnoticed *)
(* as well.                                                                *)
Finish(c) ==
  /\ \/ /\ files[path[c]] # "none" \/ path[c] \in FullPaths
        /\ \/ Go(c, "write", "completed") /\ Write(path[c], "whole")
           \/ Go(c, "write", "completed") /\ path[c] \in shared /\ Write(path[c], "broken")
           \/ GoFailed(c, "write", "completed") /\ Write(path[c], "broken")
     \/ /\ files[path[c]] = "none" /\ path[c] \notin FullPaths
        /\ Go(c, "write", "failed") /\ UNCHANGED files
     \/ /\ GoFailed(c, "write", "failed")
        /\ Write(path[c], "broken") \/ UNCHANGED files
  /\ removed' = StillRemoved
  /\ UNCHANGED <<row, path, database, shared>>

(* The INSERT fails if the client has gone meanwhile.                      *)
Record(c) ==
  /\ \E outcome \in {"completed", "failed"} :
       \/ Go(c, outcome, "done") /\ row' = [row EXCEPT ![c] = outcome]
       \/ GoFailed(c, outcome, "done") /\ UNCHANGED row
  /\ UNCHANGED <<files, path, database, removed, shared>>

(***************************************************************************)
(* Restoring and deleting                                                  *)
(***************************************************************************)
(* RestoreDatabase and RestoreSite, from any path, with any row or none.   *)
Restore(c) ==
  /\ Begin(c, "restore", "load")
  /\ UNCHANGED backupVars

Load(c) ==
  /\ \/ /\ files[path[c]] # "none"
        /\ Go(c, "load", "done")
        /\ database' = files[path[c]]
     \/ files[path[c]] = "none" /\ Go(c, "load", "done") /\ UNCHANGED database
     \/ GoFailed(c, "load", "done") /\ database' \in {database, "broken"}
  /\ UNCHANGED <<files, row, path, removed, shared>>

(* The row goes, the file stays.                                           *)
DeleteRow(c, r) ==
  /\ row[r] # "none"
  /\ Begin(c, "deleteRow", "done")
  /\ row' = [row EXCEPT ![r] = "none"]
  /\ UNCHANGED <<files, path, database, removed, shared>>

(* DeleteBackupFile: the file goes, the row stays.                         *)
DeleteFile(c) ==
  /\ Begin(c, "deleteFile", "rm")
  /\ UNCHANGED backupVars

Remove(c) ==
  /\ \/ /\ Go(c, "rm", "done")
        /\ Write(path[c], "none")
        /\ removed' = removed \cup {path[c]}
     \/ GoFailed(c, "rm", "done") /\ UNCHANGED <<files, removed>>
  /\ UNCHANGED <<row, path, database, shared>>

Start(c) ==
  \/ Create(c) \/ Backup(c) \/ Restore(c) \/ DeleteFile(c)
  \/ \E r \in Calls : DeleteRow(c, r)

Step(c) == Script(c) \/ Finish(c) \/ Record(c) \/ Load(c) \/ Remove(c)

Crash == CrashCalls /\ UNCHANGED backupVars

Next == (\E c \in Calls : Start(c) \/ Step(c)) \/ Crash

Spec == Init /\ [][Next]_vars

BackupsTypeOK ==
  /\ CallsTypeOK(Ops, Labels)
  /\ files \in [Paths -> {"none", "whole", "broken"}]
  /\ row \in [Calls -> {"none", "pending", "failed", "completed"}]
  /\ path \in [Calls -> Paths]
  /\ database \in {"live", "whole", "broken"}
  /\ removed \subseteq Paths /\ shared \subseteq Paths

(* A backup that is listed as completed has its file, unless the panel     *)
(* removed that file afterwards; and while every script has done all of its*)
(* work, the file is whole, also when a later backup of the same second    *)
(* wrote it again.  Two scripts that were at it at the same time may have  *)
(* left it broken, with every call reporting success (shared).             *)
CompletedHasFile ==
  \A c \in Calls : row[c] = "completed" /\ path[c] \notin removed =>
    /\ files[path[c]] # "none"
    /\ troubles = 0 /\ path[c] \notin shared /\ (\A d \in Calls : ~ Writes(d, path[c])) =>
         files[path[c]] = "whole"
=============================================================================
