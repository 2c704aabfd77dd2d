------------------------- MODULE FileExports_proofs -------------------------
(***************************************************************************)
(* Proofs about FileExports, for every set of paths and preferences and    *)
(* every order of steps of a task, of people and of reloads.               *)
(*                                                                         *)
(* HostInv is inductive.  While no guard is at work every preference that  *)
(* nobody disturbed has the value that a person has chosen, and the        *)
(* snapshot of a guard at work has that value, so that whatever way a task *)
(* takes out of its export gives it back.                                  *)
(***************************************************************************)
EXTENDS FileExports, TLAPS

-----------------------------------------------------------------------------
(* Types.                                                                  *)

LEMMA OneIsRevision == 1 \in 1..MaxRevision /\ 1 \in 1..MaxAttempts
  BY ExportAssumption DEF ExportAssumption

LEMMA NoJobType == NoJob \in Jobs
<1>1. (CHOOSE p \in Paths : TRUE) \in Paths
  BY ExportAssumption DEF ExportAssumption
<1> QED
  BY <1>1, OneIsRevision DEF NoJob, Jobs, Formats

LEMMA UnguardedType == Unguarded \in Guards
  BY DEF Unguarded, Guards, Values

LEMMA FreshType ==
  ASSUME NEW job \in Jobs
  PROVE  /\ Fresh(job) \in Tasks
         /\ Fresh(job).guard = Unguarded /\ Fresh(job).stage = "idle"
  BY OneIsRevision, UnguardedType DEF Fresh, Tasks, Stages, Results

LEMMA IdleType ==
  Idle \in Tasks /\ Idle.guard = Unguarded /\ Idle.stage = "idle"
  BY NoJobType, FreshType DEF Idle

LEMMA ExportInitType == ExportInit => ExportTypeOK
<1> SUFFICES ASSUME ExportInit
             PROVE  ExportTypeOK
  OBVIOUS
<1>1. files \in [Paths -> Contents]
  BY DEF ExportInit, Contents
<1>2. settings \in [Settings -> Values]
  BY DEF ExportInit, Values
<1> QED
  BY <1>1, <1>2, IdleType, OneIsRevision DEF ExportInit, ExportTypeOK, IsTask

\* What a task may become.
LEMMA TaskTypes ==
  ASSUME IsTask(task), NEW stage \in Stages, NEW result \in Results
  PROVE  /\ [task EXCEPT !.stage = stage] \in Tasks
         /\ [task EXCEPT !.stage = stage, !.result = result] \in Tasks
         /\ [task EXCEPT !.guard = Unguarded, !.stage = stage, !.result = result] \in Tasks
         /\ [task EXCEPT !.stage = stage, !.result = result, !.guard = Unguarded] \in Tasks
  BY UnguardedType DEF IsTask, Tasks

LEMMA BeginType ==
  ASSUME ExportTypeOK, NEW job \in Jobs, BeginTask(job)
  PROVE  ExportTypeOK'
<1>1. Fresh(job) \in Tasks
  BY FreshType
<1>2. ASSUME NEW result \in Results
      PROVE  [Fresh(job) EXCEPT !.stage = "done", !.result = result] \in Tasks
  BY <1>1, <1>2 DEF Tasks, Stages
<1>3. GuardBefore(job.format) \in Guards
  BY UnguardedType DEF GuardBefore, Guards, ExportTypeOK
<1>4. /\ [Fresh(job) EXCEPT !.stage = "folder", !.guard = GuardBefore(job.format)] \in Tasks
      /\ [Fresh(job) EXCEPT !.stage = "adding"] \in Tasks
  BY <1>1, <1>3 DEF Tasks, Stages
<1>5. task' \in Tasks
  BY <1>2, <1>4 DEF BeginTask, Results
<1> QED
  BY <1>5 DEF BeginTask, ExportTypeOK, IsTask, hostVars

\* The finally block keeps the types, and ends the guard.
LEMMA RestoresFacts ==
  ASSUME ExportTypeOK, NEW result \in Results, Restores(result)
  PROVE  /\ settings' \in [Settings -> Values]
         /\ disturbed' \subseteq Settings
         /\ IsTask(task')
         /\ task'.guard = Unguarded
         /\ task'.stage \in {"size", "done"}
         /\ task'.job = task.job
<1>1. PICK failing \in IF task.guard.held THEN SUBSET Settings ELSE {{}} :
        /\ settings' = IF task.guard.held THEN Restored(failing) ELSE settings
        /\ disturbed' = disturbed \cup failing
        /\ Leaves(IF failing = {} THEN result ELSE "failed")
  BY DEF Restores
<1>2. settings' \in [Settings -> Values]
  <2>1. task.guard.values \in [Settings -> Values]
    BY DEF ExportTypeOK, IsTask, Tasks, Guards
  <2>2. Restored(failing) \in [Settings -> Values]
    BY <2>1 DEF Restored, ExportTypeOK
  <2> QED
    BY <1>1, <2>2 DEF ExportTypeOK
<1>3. PICK stage \in {"size", "done"}, r \in Results :
        task' = [task EXCEPT !.guard = Unguarded, !.stage = stage, !.result = r]
  BY <1>1 DEF Leaves, Results
<1>4. stage \in Stages
  BY DEF Stages
<1>5. task \in Tasks
  BY DEF ExportTypeOK, IsTask
<1>6. /\ task'.guard = Unguarded
      /\ task'.stage \in {"size", "done"}
      /\ task'.job = task.job
  BY <1>3, <1>5 DEF Tasks
<1> QED
  BY <1>1, <1>2, <1>3, <1>4, <1>6, TaskTypes DEF ExportTypeOK, IsTask

LEMMA TaskStepType ==
  ASSUME ExportTypeOK, TaskStep
  PROVE  ExportTypeOK'
<1> USE DEF ExportTypeOK, hostVars
<1>t. task \in Tasks
  BY DEF IsTask
<1>a. ASSUME NEW stage \in Stages
      PROVE  [task EXCEPT !.stage = stage] \in Tasks
  BY <1>t DEF Tasks
<1>b. ASSUME NEW stage \in Stages, NEW result \in Results
      PROVE  /\ [task EXCEPT !.stage = stage, !.result = result] \in Tasks
             /\ [task EXCEPT !.stage = stage, !.result = result, !.guard = Unguarded] \in Tasks
  BY <1>t, UnguardedType DEF Tasks
<1>0. /\ task \in Tasks
      /\ \A stage \in Stages : [task EXCEPT !.stage = stage] \in Tasks
      /\ \A stage \in Stages, result \in Results :
           /\ [task EXCEPT !.stage = stage, !.result = result] \in Tasks
           /\ [task EXCEPT !.stage = stage, !.result = result, !.guard = Unguarded] \in Tasks
  BY <1>t, <1>a, <1>b, Zenon
<1>1. task.job.path \in Paths
  BY <1>t DEF Tasks, Jobs
<1>2. /\ \A kind \in {"absent", "folder", "theirs", "empty", "broken"} : Plain(kind) \in Contents
      /\ Exported(revision) \in Contents
  BY DEF Contents
<1>3. CASE FolderFound
  BY <1>0, <1>3 DEF FolderFound, GoesOn, Ends, IsTask, Stages, Results
<1>4. CASE FolderMade
  BY <1>0, <1>4 DEF FolderMade, GoesOn, Ends, IsTask, Stages, Results
<1>5. CASE EntryFound
  BY <1>0, <1>5 DEF EntryFound, GoesOn, Ends, IsTask, Stages, Results
<1>6. CASE FileCreated
  <2>1. files' \in [Paths -> Contents]
    BY <1>1, <1>2, <1>6 DEF FileCreated
  <2>2. CASE task.job.format = "plain"
    BY <1>0, <1>6, <2>1, <2>2 DEF FileCreated, GoesOn, IsTask, Stages
  <2>3. CASE task.job.format # "plain"
    <3>1. settings' \in [Settings -> Values]
      BY <1>6, <2>3 DEF FileCreated, Values
    <3>2. task' \in Tasks
      <4>1. (IF task.guard.held THEN task.guard
             ELSE [held |-> TRUE, values |-> settings]) \in Guards
        BY <1>t DEF Tasks, Guards
      <4> QED
        BY <1>t, <1>6, <2>3, <4>1 DEF FileCreated, Tasks, Stages
    <3> QED
      BY <1>6, <2>1, <3>1, <3>2 DEF FileCreated, IsTask
  <2> QED
    BY <2>2, <2>3
<1>7. CASE SettingFails
  <2>1. files' \in [Paths -> Contents]
    BY <1>1, <1>2, <1>7 DEF SettingFails
  <2>2. settings' \in [Settings -> Values] /\ disturbed' \subseteq Settings
    <3>1. task.guard.values \in [Settings -> Values]
      BY <1>t DEF Tasks, Guards
    <3> QED
      BY <1>7, <3>1 DEF SettingFails, Values
  <2> QED
    BY <1>0, <1>7, <2>1, <2>2 DEF SettingFails, Ends, IsTask, Stages, Results
<1>8. CASE CreateFails
  BY <1>0, <1>8 DEF CreateFails, Ends, IsTask, Stages, Results
<1>9. CASE WriteSucceeds
  <2>1. files' \in [Paths -> Contents]
    BY <1>1, <1>2, <1>9 DEF WriteSucceeds, Writes
  <2>2. CASE task.job.format = "preview"
    BY <1>0, <1>9, <2>1, <2>2 DEF WriteSucceeds, GoesOn, IsTask, Stages
  <2>3. CASE task.job.format # "preview"
    BY <1>9, <2>1, <2>3, RestoresFacts DEF WriteSucceeds, Results
  <2> QED
    BY <2>2, <2>3
<1>10. CASE WriteFails
  <2>1. files' \in [Paths -> Contents]
    BY <1>1, <1>2, <1>10 DEF WriteFails, Writes
  <2> QED
    BY <1>10, <2>1, RestoresFacts DEF WriteFails, Results
<1>11. CASE EntryRejected
  <2>1. task' \in Tasks
    BY <1>t, <1>11 DEF EntryRejected, Tasks
  <2> QED
    BY <1>11, <2>1 DEF EntryRejected, IsTask
<1>12. CASE PreviewFits
  BY <1>12, RestoresFacts DEF PreviewFits, Results
<1>13. CASE PreviewTooLarge
  <2>1. CASE AttemptsLeft(task.attempt)
    <3>1. task.attempt + 1 \in 1..MaxAttempts
      BY <1>t, <2>1, ExportAssumption DEF AttemptsLeft, Tasks, ExportAssumption
    <3>2. /\ task' = [task EXCEPT !.stage = "write", !.attempt = @ + 1, !.native = FALSE]
          /\ UNCHANGED <<settings, disturbed>>
      BY <1>13, <2>1 DEF PreviewTooLarge
    <3>3. task' \in Tasks
      BY <1>t, <3>1, <3>2 DEF Tasks, Stages
    <3> QED
      BY <1>13, <3>2, <3>3 DEF PreviewTooLarge, IsTask
  <2>2. CASE ~AttemptsLeft(task.attempt)
    BY <1>13, <2>2, RestoresFacts DEF PreviewTooLarge, Results
  <2> QED
    BY <2>1, <2>2
<1>14. CASE PreviewUnreadable
  BY <1>14, RestoresFacts DEF PreviewUnreadable, Results
<1>15. CASE SizeRead
  BY <1>0, <1>15 DEF SizeRead, Ends, IsTask, Stages, Results
<1>16. CASE ProcessAdded
  BY <1>0, <1>16 DEF ProcessAdded, GoesOn, Ends, IsTask, Stages, Results
<1>17. CASE ProcessEnds
  BY <1>0, <1>17 DEF ProcessEnds, IsTask, Stages, Results
<1>18. CASE ProcessRemoved
  BY <1>0, <1>18 DEF ProcessRemoved, GoesOn, Ends, IsTask, Stages, Results
<1> QED
  BY <1>3, <1>4, <1>5, <1>6, <1>7, <1>8, <1>9, <1>10, <1>11, <1>12, <1>13, <1>14,
     <1>15, <1>16, <1>17, <1>18 DEF TaskStep

LEMMA PersonStepType ==
  ASSUME ExportTypeOK, PersonStep
  PROVE  ExportTypeOK'
<1> USE DEF ExportTypeOK, hostVars
<1>1. CASE PersonSaves
  BY <1>1 DEF PersonSaves, Contents
<1>2. CASE PersonSets
  <2>1. PICK k \in Settings :
          /\ settings' = [settings EXCEPT ![k] = "chosen"]
          /\ IF task.guard.held
             THEN /\ task' = [task EXCEPT !.guard.values[k] = "former"]
                  /\ disturbed' = disturbed \cup {k}
             ELSE /\ UNCHANGED task
                  /\ disturbed' = disturbed \ {k}
    BY <1>2 DEF PersonSets
  <2>2. settings' \in [Settings -> Values] /\ disturbed' \subseteq Settings
    BY <2>1 DEF Values
  <2>3. task' \in Tasks
    <3>1. task \in Tasks /\ task.guard \in Guards /\ task.guard.values \in [Settings -> Values]
      BY DEF IsTask, Tasks, Guards
    <3>2. [task.guard.values EXCEPT ![k] = "former"] \in [Settings -> Values]
      BY <3>1 DEF Values
    <3>3. [task.guard EXCEPT !.values[k] = "former"] \in Guards
      BY <3>1, <3>2 DEF Guards
    <3> QED
      BY <2>1, <3>1, <3>3 DEF Tasks
  <2> QED
    BY <1>2, <2>2, <2>3 DEF PersonSets, IsTask
<1>3. CASE PersonAuthorizes
  BY <1>3 DEF PersonAuthorizes
<1> QED
  BY <1>1, <1>2, <1>3 DEF PersonStep

LEMMA ReloadType ==
  ASSUME ExportTypeOK, ReloadPanel
  PROVE  ExportTypeOK'
  BY IdleType DEF ExportTypeOK, ReloadPanel, IsTask

LEMMA ForgottenType ==
  ASSUME ExportTypeOK, TaskForgotten
  PROVE  ExportTypeOK'
  BY IdleType DEF ExportTypeOK, TaskForgotten, IsTask, hostVars

\* The types are kept, for every number of paths and preferences.
THEOREM ExportTypes == ExportSpec => []ExportTypeOK
<1>1. ASSUME ExportTypeOK, [ExportNext]_exportVars
      PROVE  ExportTypeOK'
  <2>1. CASE UNCHANGED exportVars
    BY <1>1, <2>1 DEF exportVars, hostVars, ExportTypeOK, IsTask
  <2> QED
    BY <1>1, <2>1, BeginType, TaskStepType, PersonStepType, ReloadType, ForgottenType
       DEF ExportNext
<1> QED
  BY <1>1, ExportInitType, PTL DEF ExportSpec

-----------------------------------------------------------------------------
(* The host is left as it was found.                                       *)

AtWork(t) == t.guard.held /\ t.stage \in {"write", "read"}

SettingsKept ==
  \A k \in Settings \ disturbed :
    /\ settings[k] # "former"
    /\ task.guard.held => task.guard.values[k] = "chosen"
    /\ ~AtWork(task) => settings[k] = "chosen"

ProcessOwned == process = "running" => task.stage \in {"checking", "removing"}

HostInv == ExportTypeOK /\ SettingsKept /\ ProcessOwned

\* Whatever ends an export, the finally block gives the preferences back.
LEMMA RestoresKeeps ==
  ASSUME HostInv, NEW result \in Results, Restores(result)
  PROVE  SettingsKept'
<1>1. PICK failing \in IF task.guard.held THEN SUBSET Settings ELSE {{}} :
        /\ settings' = IF task.guard.held THEN Restored(failing) ELSE settings
        /\ disturbed' = disturbed \cup failing
  BY DEF Restores
<1>2. task'.guard = Unguarded
  BY RestoresFacts DEF HostInv
<1>3. ASSUME NEW k \in Settings, k \notin disturbed'
      PROVE  settings'[k] = "chosen"
  <2>1. k \notin disturbed /\ k \notin failing
    BY <1>1, <1>3
  <2>2. CASE task.guard.held
    BY <1>1, <2>1, <2>2 DEF Restored, HostInv, SettingsKept
  <2>3. CASE ~task.guard.held
    BY <1>1, <2>1, <2>3 DEF HostInv, SettingsKept, AtWork
  <2> QED
    BY <2>2, <2>3
<1> QED
  BY <1>2, <1>3 DEF SettingsKept, Unguarded

\* Steps that leave the preferences alone, and begin or end no work on them.
LEMMA KeptIfUntouched ==
  ASSUME HostInv, UNCHANGED <<settings, disturbed>>,
         \/ task'.guard = Unguarded /\ ~AtWork(task)
         \/ task'.guard = task.guard /\ (AtWork(task) => task'.stage \in {"write", "read"})
  PROVE  SettingsKept'
<1>1. CASE task'.guard = Unguarded /\ ~AtWork(task)
  BY <1>1 DEF HostInv, SettingsKept, Unguarded
<1>2. CASE task'.guard = task.guard /\ (AtWork(task) => task'.stage \in {"write", "read"})
  <2>1. AtWork(task) => AtWork(task')
    BY <1>2 DEF AtWork
  <2> QED
    BY <1>2, <2>1 DEF HostInv, SettingsKept
<1> QED
  BY <1>1, <1>2

LEMMA HostInit == ExportInit => HostInv
<1> SUFFICES ASSUME ExportInit
             PROVE  HostInv
  OBVIOUS
<1>1. ExportTypeOK
  BY ExportInitType
<1>2. SettingsKept
  BY IdleType DEF ExportInit, SettingsKept, Unguarded
<1>3. ProcessOwned
  BY DEF ExportInit, ProcessOwned
<1> QED
  BY <1>1, <1>2, <1>3 DEF HostInv

LEMMA HostBegin ==
  ASSUME HostInv, NEW job \in Jobs, BeginTask(job)
  PROVE  HostInv'
<1>1. task.stage = "idle" /\ UNCHANGED <<settings, disturbed, process>>
  BY DEF BeginTask, hostVars
<1>2. ~AtWork(task) /\ process # "running"
  BY <1>1 DEF AtWork, HostInv, ProcessOwned
<1>3. /\ task'.guard \in {Unguarded, GuardBefore(job.format)}
      /\ task'.stage \in {"done", "adding", "folder"}
  <2>1. Fresh(job) \in Tasks /\ Fresh(job).guard = Unguarded
    BY FreshType
  <2> QED
    BY <2>1 DEF BeginTask, Tasks
<1>4. ASSUME NEW k \in Settings \ disturbed'
      PROVE  /\ settings'[k] = "chosen"
             /\ task'.guard.held => task'.guard.values[k] = "chosen"
  BY <1>1, <1>2, <1>3, <1>4 DEF HostInv, SettingsKept, Unguarded, GuardBefore
<1>5. SettingsKept'
  BY <1>4 DEF SettingsKept
<1>6. ProcessOwned'
  BY <1>1, <1>2 DEF ProcessOwned
<1> QED
  BY <1>5, <1>6, BeginType DEF HostInv

LEMMA HostTaskStep ==
  ASSUME HostInv, TaskStep
  PROVE  HostInv'
<1> USE DEF hostVars
<1>0. task \in Tasks /\ settings \in [Settings -> Values] /\ disturbed \subseteq Settings
  BY DEF HostInv, ExportTypeOK, IsTask
<1>2. /\ ~AtWork(task) => task.stage \notin {"write", "read"} \/ ~task.guard.held
      /\ task.stage \notin {"write", "read"} => ~AtWork(task)
  BY DEF AtWork
<1>3. CASE FolderFound \/ EntryFound \/ CreateFails \/ SizeRead
  <2>1. /\ UNCHANGED <<settings, disturbed, process>>
        /\ ~AtWork(task) /\ process # "running"
        /\ task'.guard \in {Unguarded, task.guard}
    BY <1>0, <1>2, <1>3 DEF FolderFound, EntryFound, CreateFails, SizeRead, GoesOn, Ends, Tasks,
                          HostInv, ProcessOwned
  <2>2. SettingsKept'
    BY <2>1, KeptIfUntouched
  <2> QED
    BY <2>1, <2>2, TaskStepType DEF HostInv, ProcessOwned
<1>4. CASE FolderMade
  <2>1. /\ UNCHANGED <<settings, disturbed, process>>
        /\ ~AtWork(task) /\ process # "running"
        /\ task'.guard \in {Unguarded, task.guard}
    BY <1>0, <1>2, <1>4 DEF FolderMade, GoesOn, Ends, Tasks, HostInv, ProcessOwned
  <2>2. SettingsKept'
    BY <2>1, KeptIfUntouched
  <2> QED
    BY <2>1, <2>2, TaskStepType DEF HostInv, ProcessOwned
<1>5. CASE FileCreated
  <2>1. /\ UNCHANGED <<disturbed, process>>
        /\ ~AtWork(task) /\ process # "running"
    BY <1>2, <1>5 DEF FileCreated, HostInv, ProcessOwned
  <2>2. CASE task.job.format = "plain"
    <3>1. UNCHANGED settings /\ task'.guard = task.guard
      BY <1>0, <1>5, <2>2 DEF FileCreated, GoesOn, Tasks
    <3>2. SettingsKept'
      BY <2>1, <3>1, KeptIfUntouched
    <3> QED
      BY <2>1, <3>2, TaskStepType DEF HostInv, ProcessOwned
  <2>3. CASE task.job.format # "plain"
    <3>1. /\ settings' = [k \in Settings |-> "export"]
          /\ task' = [task EXCEPT !.stage = "write",
                                  !.guard = IF task.guard.held THEN task.guard
                                            ELSE [held |-> TRUE, values |-> settings]]
      BY <1>5, <2>3 DEF FileCreated
    <3>2. /\ task'.guard = IF task.guard.held THEN task.guard
                           ELSE [held |-> TRUE, values |-> settings]
          /\ task'.stage = "write"
      BY <1>0, <3>1 DEF Tasks
    <3>3. AtWork(task')
      BY <3>2 DEF AtWork
    <3>4. ASSUME NEW k \in Settings, k \notin disturbed
          PROVE  settings'[k] # "former" /\ task'.guard.values[k] = "chosen"
      BY <2>1, <3>1, <3>2, <3>4 DEF HostInv, SettingsKept
    <3>5. SettingsKept'
      BY <2>1, <3>3, <3>4 DEF SettingsKept
    <3> QED
      BY <2>1, <3>5, TaskStepType DEF HostInv, ProcessOwned
  <2> QED
    BY <2>2, <2>3
<1>6. CASE SettingFails
  <2>1. /\ UNCHANGED process
        /\ ~AtWork(task) /\ process # "running"
        /\ task'.guard = Unguarded
    BY <1>0, <1>2, <1>6 DEF Tasks, SettingFails, Ends, HostInv, ProcessOwned
  <2>2. PICK set \in SUBSET Settings, failing \in SUBSET Settings :
          /\ settings' = [k \in Settings |->
                            IF k \in failing THEN IF k \in set THEN "export" ELSE settings[k]
                            ELSE IF task.guard.held THEN task.guard.values[k] ELSE settings[k]]
          /\ disturbed' = disturbed \cup failing
    BY <1>6 DEF SettingFails
  <2>3. ASSUME NEW k \in Settings, k \notin disturbed'
        PROVE  settings'[k] = "chosen"
    BY <2>1, <2>2, <2>3 DEF HostInv, SettingsKept
  <2>4. SettingsKept'
    BY <2>1, <2>3 DEF SettingsKept, Unguarded
  <2> QED
    BY <2>1, <2>4, TaskStepType DEF HostInv, ProcessOwned
<1>7. CASE WriteSucceeds \/ WriteFails
  <2>1. UNCHANGED process /\ process # "running"
    BY <1>7 DEF WriteSucceeds, WriteFails, HostInv, ProcessOwned
  <2>2. CASE WriteSucceeds /\ task.job.format = "preview"
    <3>1. UNCHANGED <<settings, disturbed>> /\ task'.guard = task.guard /\ task'.stage = "read"
      BY <1>0, <2>2 DEF WriteSucceeds, GoesOn, Tasks
    <3> QED
      BY <2>1, <3>1, KeptIfUntouched, TaskStepType DEF HostInv, ProcessOwned
  <2>3. CASE \E result \in Results : Restores(result)
    BY <2>1, <2>3, RestoresKeeps, TaskStepType DEF HostInv, ProcessOwned
  <2> QED
    BY <1>7, <2>2, <2>3 DEF WriteSucceeds, WriteFails, Results
<1>8. CASE EntryRejected
  <2>1. /\ UNCHANGED <<settings, disturbed, process>>
        /\ task'.guard = task.guard /\ task'.stage = "write" /\ process # "running"
    BY <1>0, <1>8 DEF EntryRejected, Tasks, HostInv, ProcessOwned
  <2> QED
    BY <2>1, KeptIfUntouched, TaskStepType DEF HostInv, ProcessOwned
<1>9. CASE PreviewFits \/ PreviewTooLarge \/ PreviewUnreadable
  <2>1. UNCHANGED process /\ process # "running"
    BY <1>9 DEF PreviewFits, PreviewTooLarge, PreviewUnreadable, HostInv, ProcessOwned
  <2>2. CASE PreviewTooLarge /\ AttemptsLeft(task.attempt)
    <3>1. UNCHANGED <<settings, disturbed>> /\ task'.guard = task.guard /\ task'.stage = "write"
      BY <1>0, <2>2 DEF PreviewTooLarge, Tasks
    <3> QED
      BY <2>1, <3>1, KeptIfUntouched, TaskStepType DEF HostInv, ProcessOwned
  <2>3. CASE \E result \in Results : Restores(result)
    BY <2>1, <2>3, RestoresKeeps, TaskStepType DEF HostInv, ProcessOwned
  <2> QED
    BY <1>9, <2>2, <2>3 DEF PreviewFits, PreviewTooLarge, PreviewUnreadable, Results
<1>10. CASE ProcessAdded \/ ProcessEnds \/ ProcessRemoved
  <2>1. /\ UNCHANGED <<settings, disturbed>> /\ ~AtWork(task)
        /\ task'.guard \in {Unguarded, task.guard}
    BY <1>0, <1>2, <1>10 DEF ProcessAdded, ProcessEnds, ProcessRemoved, GoesOn, Ends, Tasks
  <2>2. process' = "running" => task'.stage \in {"checking", "removing"}
    BY <1>0, <1>10 DEF ProcessAdded, ProcessEnds, ProcessRemoved, GoesOn, Ends, Tasks,
                           HostInv, ProcessOwned
  <2> QED
    BY <2>1, <2>2, KeptIfUntouched, TaskStepType DEF HostInv, ProcessOwned
<1> QED
  BY <1>3, <1>4, <1>5, <1>6, <1>7, <1>8, <1>9, <1>10 DEF TaskStep

LEMMA HostPersonStep ==
  ASSUME HostInv, PersonStep
  PROVE  HostInv'
<1> USE DEF hostVars
<1>1. CASE PersonSaves \/ PersonAuthorizes
  <2>1. UNCHANGED <<settings, disturbed, process, task>>
    BY <1>1 DEF PersonSaves, PersonAuthorizes
  <2> QED
    BY <2>1, PersonStepType DEF HostInv, SettingsKept, ProcessOwned
<1>2. CASE PersonSets
  <2>1. PICK k \in Settings :
          /\ settings' = [settings EXCEPT ![k] = "chosen"]
          /\ IF task.guard.held
             THEN /\ task' = [task EXCEPT !.guard.values[k] = "former"]
                  /\ disturbed' = disturbed \cup {k}
             ELSE /\ UNCHANGED task
                  /\ disturbed' = disturbed \ {k}
    BY <1>2 DEF PersonSets
  <2>2. /\ settings \in [Settings -> Values]
        /\ task \in Tasks /\ task.guard \in Guards /\ task.guard.values \in [Settings -> Values]
    BY DEF HostInv, ExportTypeOK, IsTask, Tasks, Guards
  <2>3. CASE task.guard.held
    <3>1. /\ task'.stage = task.stage /\ task'.guard.held
          /\ task'.guard.values = [task.guard.values EXCEPT ![k] = "former"]
      BY <2>1, <2>2, <2>3 DEF Tasks, Guards
    <3>2. AtWork(task') = AtWork(task)
      BY <2>3, <3>1 DEF AtWork
    <3>3. SettingsKept'
      BY <2>1, <2>2, <2>3, <3>1, <3>2 DEF SettingsKept, HostInv
    <3> QED
      BY <1>2, <3>1, <3>3, PersonStepType DEF PersonSets, HostInv, ProcessOwned
  <2>4. CASE ~task.guard.held
    <3>1. SettingsKept'
      BY <2>1, <2>2, <2>4 DEF SettingsKept, HostInv, AtWork
    <3> QED
      BY <1>2, <2>1, <2>4, <3>1, PersonStepType DEF PersonSets, HostInv, ProcessOwned
  <2> QED
    BY <2>3, <2>4
<1> QED
  BY <1>1, <1>2 DEF PersonStep

LEMMA HostReload ==
  ASSUME HostInv, ReloadPanel
  PROVE  HostInv'
<1>1. ASSUME NEW k \in Settings, k \notin disturbed'
      PROVE  settings'[k] = "chosen"
  BY <1>1 DEF HostInv, ExportTypeOK, Values, SettingsKept, ReloadPanel
<1>2. SettingsKept' /\ ProcessOwned'
  BY <1>1, IdleType DEF SettingsKept, ProcessOwned, Unguarded, ReloadPanel
<1> QED
  BY <1>2, ReloadType DEF HostInv

LEMMA HostForgotten ==
  ASSUME HostInv, TaskForgotten
  PROVE  HostInv'
<1>1. UNCHANGED <<settings, disturbed, process>> /\ ~AtWork(task) /\ task'.guard = Unguarded
  BY IdleType DEF TaskForgotten, hostVars, AtWork
<1>2. process # "running"
  BY DEF TaskForgotten, HostInv, ProcessOwned
<1> QED
  BY <1>1, <1>2, KeptIfUntouched, ForgottenType DEF HostInv, ProcessOwned

LEMMA HostInvariant == ExportSpec => []HostInv
<1>1. ASSUME HostInv, [ExportNext]_exportVars
      PROVE  HostInv'
  <2>1. CASE UNCHANGED exportVars
    BY <1>1, <2>1 DEF exportVars, hostVars, HostInv, ExportTypeOK, IsTask, SettingsKept,
                     ProcessOwned
  <2> QED
    BY <1>1, <2>1, HostBegin, HostTaskStep, HostPersonStep, HostReload, HostForgotten
       DEF ExportNext
<1> QED
  BY <1>1, HostInit, PTL DEF ExportSpec

\* While no export is at work the preferences that nobody disturbed are as
\* people have chosen them, and no preflight process runs: whichever way a
\* task ended, and whatever people did meanwhile.
THEOREM HostIsLeftAsFound == ExportSpec => []HostLeftAsFound
<1>1. HostInv => HostLeftAsFound
  BY DEF HostInv, SettingsKept, ProcessOwned, AtWork, HostLeftAsFound
<1> QED
  BY <1>1, HostInvariant, PTL

-----------------------------------------------------------------------------
(* Files.                                                                  *)

\* No task replaces what lies in the workspace without the permission to
\* overwrite, unless it has created it itself.
THEOREM FilesAreKept == ExportSpec => FilesKept
<1>1. ASSUME ExportTypeOK, [ExportNext]_exportVars,
             NEW p \in Paths, files[p].kind # "absent", files'[p] # files[p]
      PROVE  task.job.path = p /\ (task.job.overwrite \/ task.stage = "write")
  <2>1. files' # files
    BY <1>1
  <2>2. files \in [Paths -> Contents]
    BY <1>1 DEF ExportTypeOK
  <2>3. FileCreated \/ SettingFails \/ WriteSucceeds \/ WriteFails \/ PersonSaves
    BY <1>1, <2>1 DEF ExportNext, exportVars, hostVars, BeginTask, TaskForgotten, ReloadPanel,
         TaskStep, FolderFound, FolderMade, EntryFound, CreateFails, EntryRejected, PreviewFits,
         PreviewTooLarge, PreviewUnreadable, SizeRead, ProcessAdded, ProcessEnds,
         ProcessRemoved, PersonStep, PersonSets, PersonAuthorizes
  <2>4. CASE FileCreated \/ SettingFails
    BY <1>1, <2>2, <2>4 DEF FileCreated, SettingFails, Creates
  <2>5. CASE WriteSucceeds \/ WriteFails
    BY <1>1, <2>2, <2>5 DEF WriteSucceeds, WriteFails, Writes
  <2>6. CASE PersonSaves
    BY <1>1, <2>2, <2>6 DEF PersonSaves
  <2> QED
    BY <2>3, <2>4, <2>5, <2>6
<1>2. ExportTypeOK /\ [ExportNext]_exportVars
        => [\A p \in Paths :
              files[p].kind # "absent" /\ files'[p] # files[p] =>
                /\ task.job.path = p
                /\ task.job.overwrite \/ task.stage = "write"]_files
  BY <1>1
<1> QED
  BY <1>2, ExportTypes, PTL DEF ExportSpec, FilesKept

=============================================================================
