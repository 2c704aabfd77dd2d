---------------------------- MODULE FileExports ----------------------------
(***************************************************************************)
(* The tasks of the plugin that write files below the workspace folder or  *)
(* run a preflight: document.exportPreview, saveCopy, export, preflight.   *)
(*                                                                         *)
(* A task is suspended at every await: while the folders of its path are   *)
(* looked up, its file is created, InDesign exports, the file is read.     *)
(* Between these steps people save files, change export settings and       *)
(* withdraw the workspace.  The queue of the plugin runs one task at a     *)
(* time.                                                                   *)
(***************************************************************************)
EXTENDS Integers, FiniteSets

CONSTANTS
  Paths,        \* Output paths, all in one folder below the workspace.
  Settings,     \* Export preferences that a task touches.
  MaxAttempts,  \* Tries to make a preview small enough (6 in the code).
  MaxRevision   \* Bound on the revision of the document.

ASSUME ExportAssumption ==
  /\ Paths # {}
  /\ MaxAttempts \in Nat \ {0}
  /\ MaxRevision \in Nat \ {0}
  /\ IsFiniteSet(Settings)

VARIABLES
  authorized, \* Whether the plugin has a workspace folder.
  folder,     \* The folder of the output paths.
  files,      \* What is at each path.
  settings,   \* Export preferences of the application.
  disturbed,  \* History: settings that a task could not keep.
  process,    \* The preflight process.
  revision,   \* Revision of the document.
  task        \* The task that runs.

hostVars == <<folder, files, settings, disturbed, process>>
exportVars == <<authorized, hostVars, revision, task>>

-----------------------------------------------------------------------------
(* Types.                                                                  *)

\* A setting has the value that a person chose last, one that a person chose
\* earlier, or the one of an export.
Values == {"chosen", "former", "export"}

\* A file is a person's, empty as createFile leaves it, broken by a failed
\* export, or holds the document at a revision.
Plain(kind) == [kind |-> kind, at |-> 0]
Exported(r) == [kind |-> "exported", at |-> r]
Contents == {Plain(k) : k \in {"absent", "folder", "theirs", "empty", "broken"}}
              \cup {Exported(r) : r \in 1..MaxRevision}

\* Previews; exports to PDF, PNG and JPEG, which set preferences; saved
\* copies and IDML, which do not.
Formats == {"preview", "guarded", "plain", "preflight"}

\* What a task was asked for.
Jobs == [format : Formats, path : Paths, overwrite : BOOLEAN, expected : 1..MaxRevision]

Stages == {"idle", "folder", "makeFolder", "entry", "create", "write", "read", "size",
           "adding", "checking", "removing", "done"}

\* unready stands for the errors that a caller may retry: there is no workspace
\* folder, or the document or page that was named is not there.
Results == {"none", "ok", "stale", "refused", "unready", "exists", "failed"}

\* The snapshot of the preference guard that a task holds, if any.
Unguarded == [held |-> FALSE, values |-> [k \in Settings |-> "chosen"]]
Guards == [held : BOOLEAN, values : [Settings -> Values]]
Tasks == [job : Jobs, stage : Stages, guard : Guards, native : BOOLEAN,
          attempt : 1..MaxAttempts, result : Results]

IsTask(t) == t \in Tasks

ExportTypeOK ==
  /\ authorized \in BOOLEAN
  /\ folder \in {"absent", "folder", "file"}
  /\ files \in [Paths -> Contents]
  /\ settings \in [Settings -> Values]
  /\ disturbed \subseteq Settings
  /\ process \in {"none", "running", "left"}
  /\ revision \in 1..MaxRevision
  /\ IsTask(task)

Fresh(job) ==
  [job |-> job, stage |-> "idle", guard |-> Unguarded, native |-> FALSE,
   attempt |-> 1, result |-> "none"]

NoJob == [format |-> "preflight", path |-> CHOOSE p \in Paths : TRUE, overwrite |-> FALSE, expected |-> 1]
Idle == Fresh(NoJob)

ExportInit ==
  /\ authorized = FALSE
  /\ folder \in {"absent", "folder", "file"}
  /\ files \in [Paths -> {Plain("absent"), Plain("theirs"), Plain("folder")}]
  /\ folder # "folder" => files = [p \in Paths |-> Plain("absent")]
  /\ settings = [k \in Settings |-> "chosen"]
  /\ disturbed = {}
  /\ process = "none"
  /\ revision = 1
  /\ task = Idle

-----------------------------------------------------------------------------
(* Beginning and ending a task.                                            *)

Ends(result) == task' = [task EXCEPT !.stage = "done", !.result = result, !.guard = Unguarded]
GoesOn(stage) == task' = [task EXCEPT !.stage = stage]

\* Mutant: the revision that the caller names is not compared.
AnyRevision(expected) == TRUE

AtRevision(expected) == expected = revision

\* A preview takes the snapshot of its preferences before its file is looked
\* up, the exports when the file is there.
GuardBefore(format) ==
  IF format = "preview" THEN [held |-> TRUE, values |-> settings] ELSE Unguarded

\* Everything up to the first await: the revision, the pages, the preset, the
\* preferences, the preflight profile.
BeginTask(job) ==
  /\ task.stage = "idle"
  /\ LET Refused(result) == task' = [Fresh(job) EXCEPT !.stage = "done", !.result = result]
     IN \/ Refused("refused") \/ Refused("unready")
        \/ /\ job.format = "preflight"
           /\ task' = [Fresh(job) EXCEPT !.stage = "adding"]
        \/ /\ job.format # "preflight"
           /\ ~AtRevision(job.expected)
           /\ Refused("stale")
        \/ /\ job.format # "preflight"
           /\ AtRevision(job.expected)
           /\ ~authorized
           /\ Refused("unready")
        \/ /\ job.format # "preflight"
           /\ AtRevision(job.expected)
           /\ authorized
           /\ task' = [Fresh(job) EXCEPT !.stage = "folder", !.guard = GuardBefore(job.format)]
  /\ UNCHANGED <<authorized, hostVars, revision>>

\* Restoring goes on after a setting that fails; such a setting keeps its value.
Restored(failing) ==
  [k \in Settings |-> IF k \in failing THEN settings[k] ELSE task.guard.values[k]]

\* A task whose export succeeded goes on to read the size of its file.
Leaves(end) ==
  task' = [task EXCEPT !.guard = Unguarded,
                       !.stage = IF end = "ok" THEN "size" ELSE "done",
                       !.result = IF end = "ok" THEN "none" ELSE end]

\* Mutant: preferences are restored after a success only.
RestoresOnSuccess(result) ==
  /\ settings' = IF task.guard.held /\ result = "ok" THEN task.guard.values ELSE settings
  /\ UNCHANGED disturbed
  /\ Leaves(result)

\* The finally block: an error of the restoration replaces that of the export.
Restores(result) ==
  \E failing \in IF task.guard.held THEN SUBSET Settings ELSE {{}} :
    /\ settings' = IF task.guard.held THEN Restored(failing) ELSE settings
    /\ disturbed' = disturbed \cup failing
    /\ Leaves(IF failing = {} THEN result ELSE "failed")

-----------------------------------------------------------------------------
(* The output file.                                                        *)

\* A lookup that fails for any reason counts as a folder that does not exist.
FolderFound ==
  /\ task.stage = "folder"
  /\ \/ folder = "folder" /\ GoesOn("entry")
     \/ folder = "file" /\ Ends("refused")
     \/ GoesOn("makeFolder")
  /\ UNCHANGED <<authorized, hostVars, revision>>

\* The folder may have come into being since the lookup.
FolderMade ==
  /\ task.stage = "makeFolder"
  /\ \/ /\ folder = "absent"
        /\ folder' = "folder"
        /\ GoesOn("entry")
     \/ /\ Ends("failed")
        /\ UNCHANGED folder
  /\ UNCHANGED <<authorized, files, settings, disturbed, process, revision>>

\* A lookup that fails for any reason counts as a file that does not exist, so
\* the task may go on whatever is there.
EntryFound ==
  /\ task.stage = "entry"
  /\ LET kind == files[task.job.path].kind
     IN \/ GoesOn("create")
        \/ kind = "folder" /\ Ends("refused")
        \/ kind \notin {"absent", "folder"} /\ ~task.job.overwrite /\ Ends("exists")
  /\ UNCHANGED <<authorized, hostVars, revision>>

\* Mutant: what was not there at the lookup is taken not to be there.
Replaces(kind) == kind # "folder"

\* What createFile does to what is there.
Creates(kind) == kind = "absent" \/ (kind # "folder" /\ task.job.overwrite)

\* Once the file is there the task goes on without a break: the guard takes
\* its snapshot, the preferences are set, and the export is called.
FileCreated ==
  /\ task.stage = "create"
  /\ Creates(files[task.job.path].kind)
  /\ files' = [files EXCEPT ![task.job.path] = Plain("empty")]
  /\ \/ /\ task.job.format = "plain"
        /\ GoesOn("write")
        /\ UNCHANGED settings
     \/ /\ task.job.format # "plain"
        /\ settings' = [k \in Settings |-> "export"]
        /\ task' = [task EXCEPT !.stage = "write",
                                !.guard = IF task.guard.held THEN task.guard
                                          ELSE [held |-> TRUE, values |-> settings]]
  /\ UNCHANGED <<authorized, folder, disturbed, process, revision>>

\* The snapshot fails, or one of the preferences cannot be set: all that the
\* snapshot holds are restored before any other step.
SettingFails ==
  /\ task.stage = "create"
  /\ task.job.format # "plain"
  /\ Creates(files[task.job.path].kind)
  /\ files' = [files EXCEPT ![task.job.path] = Plain("empty")]
  /\ \E set \in SUBSET Settings, failing \in SUBSET Settings :
       /\ settings' = [k \in Settings |->
                         IF k \in failing THEN IF k \in set THEN "export" ELSE settings[k]
                         ELSE IF task.guard.held THEN task.guard.values[k] ELSE settings[k]]
       /\ disturbed' = disturbed \cup failing
  /\ Ends("failed")
  /\ UNCHANGED <<authorized, folder, process, revision>>

\* Without overwrite every failure of createFile is reported as FILE_EXISTS.
CreateFails ==
  /\ task.stage = "create"
  /\ Ends(IF task.job.overwrite THEN "failed" ELSE "exists")
  /\ UNCHANGED <<authorized, hostVars, revision>>

Writes(content) == files' = [files EXCEPT ![task.job.path] = content]

\* The host may also report a success and leave the file as it is.
WriteSucceeds ==
  /\ task.stage = "write"
  /\ Writes(Exported(revision)) \/ UNCHANGED files
  /\ \/ /\ task.job.format = "preview"
        /\ GoesOn("read")
        /\ UNCHANGED <<settings, disturbed>>
     \/ /\ task.job.format # "preview"
        /\ Restores("ok")
  /\ UNCHANGED <<authorized, folder, process, revision>>

WriteFails ==
  /\ task.stage = "write"
  /\ UNCHANGED files \/ Writes(Plain("broken"))
  /\ Restores("failed")
  /\ UNCHANGED <<authorized, folder, process, revision>>

\* The host does not take a file entry: the same call with its native path.
EntryRejected ==
  /\ task.stage = "write"
  /\ ~task.native
  /\ task' = [task EXCEPT !.native = TRUE]
  /\ UNCHANGED <<authorized, hostVars, revision>>

\* Mutant: one attempt too many.
AttemptsOnceMore(attempt) == attempt <= MaxAttempts

AttemptsLeft(attempt) == attempt < MaxAttempts

\* A preview is read back; when it is too large it is exported again, smaller.
PreviewFits ==
  /\ task.stage = "read"
  /\ Restores("ok")
  /\ UNCHANGED <<authorized, folder, files, process, revision>>

PreviewTooLarge ==
  /\ task.stage = "read"
  /\ \/ /\ AttemptsLeft(task.attempt)
        /\ task' = [task EXCEPT !.stage = "write", !.attempt = @ + 1, !.native = FALSE]
        /\ UNCHANGED <<settings, disturbed>>
     \/ /\ ~AttemptsLeft(task.attempt)
        /\ Restores("failed")
  /\ UNCHANGED <<authorized, folder, files, process, revision>>

PreviewUnreadable ==
  /\ task.stage = "read"
  /\ Restores("failed")
  /\ UNCHANGED <<authorized, folder, files, process, revision>>

\* Mutant: a file is taken for the export of the document, empty or not.
AnyFile(content) == TRUE

NonEmpty(content) == content.kind # "empty"

SizeRead ==
  /\ task.stage = "size"
  /\ \/ NonEmpty(files[task.job.path]) /\ Ends("ok")
     \/ Ends("failed")
  /\ UNCHANGED <<authorized, hostVars, revision>>

-----------------------------------------------------------------------------
(* Preflight.                                                              *)

\* A process that cannot be removed is refused after it has been added.
ProcessAdded ==
  /\ task.stage = "adding"
  /\ \/ process' = "running" /\ GoesOn("checking")
     \/ process' = "left" /\ Ends("refused")
     \/ process' = process /\ Ends("failed")
  /\ UNCHANGED <<authorized, folder, files, settings, disturbed, revision>>

\* The process is removed whether its results could be read or not.
ProcessEnds ==
  /\ task.stage = "checking"
  /\ \E result \in {"ok", "failed"} :
       task' = [task EXCEPT !.stage = "removing", !.result = result]
  /\ UNCHANGED <<authorized, hostVars, revision>>

ProcessRemoved ==
  /\ task.stage = "removing"
  /\ \/ process' = "none" /\ GoesOn("done")
     \/ process' = "left" /\ Ends("failed")
  /\ UNCHANGED <<authorized, folder, files, settings, disturbed, revision>>

-----------------------------------------------------------------------------
(* People.                                                                 *)

\* A person saves a file where there is none, or makes the folder.
PersonSaves ==
  /\ \/ /\ folder = "absent"
        /\ folder' \in {"folder", "file"}
        /\ UNCHANGED files
     \/ /\ folder = "folder"
        /\ \E p \in Paths :
             /\ files[p].kind = "absent"
             /\ files' = [files EXCEPT ![p] = Plain("theirs")]
        /\ UNCHANGED folder
  /\ UNCHANGED <<authorized, settings, disturbed, process, revision, task>>

\* What a person sets after the snapshot of a guard is lost when it restores.
PersonSets ==
  /\ \E k \in Settings :
       /\ settings[k] # "chosen" \/ task.guard.held
       /\ settings' = [settings EXCEPT ![k] = "chosen"]
       /\ IF task.guard.held
          THEN /\ task' = [task EXCEPT !.guard.values[k] = "former"]
               /\ disturbed' = disturbed \cup {k}
          ELSE /\ UNCHANGED task
               /\ disturbed' = disturbed \ {k}
  /\ UNCHANGED <<authorized, folder, files, process, revision>>

\* A person selects a workspace folder or clears the authorization.  A task
\* that has the folder goes on with it.
PersonAuthorizes ==
  /\ authorized' = ~authorized
  /\ UNCHANGED <<hostVars, revision, task>>

\* A reload forgets the task, and with it the guard.
ReloadPanel ==
  /\ authorized' = FALSE
  /\ process' = IF process = "running" THEN "left" ELSE process
  /\ disturbed' = disturbed \cup {k \in Settings : settings[k] = "export"}
  /\ task' = Idle
  /\ UNCHANGED <<folder, files, settings, revision>>

TaskStep ==
  \/ FolderFound \/ FolderMade \/ EntryFound
  \/ FileCreated \/ SettingFails \/ CreateFails
  \/ WriteSucceeds \/ WriteFails \/ EntryRejected
  \/ PreviewFits \/ PreviewTooLarge \/ PreviewUnreadable \/ SizeRead
  \/ ProcessAdded \/ ProcessEnds \/ ProcessRemoved

PersonStep == PersonSaves \/ PersonSets \/ PersonAuthorizes

TaskForgotten ==
  /\ task.stage = "done"
  /\ task' = Idle
  /\ UNCHANGED <<authorized, hostVars, revision>>

ExportNext ==
  \/ \E job \in Jobs : BeginTask(job)
  \/ TaskStep \/ TaskForgotten
  \/ PersonStep \/ ReloadPanel

ExportSpec == ExportInit /\ [][ExportNext]_exportVars

-----------------------------------------------------------------------------
(* Properties.                                                             *)

\* The host is as people left it: while no task runs, every export setting
\* has the value that a person has chosen last, and no preflight process is
\* running.  Left out are settings that the host refused to restore, that a
\* person changed under the guard of a task, or that a reload caught half way.
HostLeftAsFound ==
  task.stage \in {"idle", "done", "size"} =>
    /\ process # "running"
    /\ \A k \in Settings \ disturbed : settings[k] = "chosen"

\* Nothing that lies in the workspace is replaced by a task that has no
\* permission to overwrite, unless the task itself has created it.
FilesKept ==
  [][\A p \in Paths :
       files[p].kind # "absent" /\ files'[p] # files[p] =>
         /\ task.job.path = p
         /\ task.job.overwrite \/ task.stage = "write"]_files

=============================================================================
