------------------------------- MODULE AiTasks -------------------------------
(***************************************************************************)
(* libs/ai: the detection tasks.  Every enabled task has a worker with its *)
(* own backend and a one-thread executor whose only job, CaptureLoop(),    *)
(* grabs frames, runs the backend and injects the alarm input built from   *)
(* the last results of all workers.  The application starts the AI before  *)
(* it serves HTTP and stops it after, and the configuration store applies  *)
(* one configuration at a time: one control thread runs Start(),           *)
(* ApplyConfig() and Stop().                                               *)
(***************************************************************************)
EXTENDS Integers, Sequences, FiniteSets

CONSTANTS AiTaskNames,   \* AiTask, in the order of the configuration
          AiConfigs,     \* configurations: [on, tasks: task |-> 0 (disabled) or a variant]
          MaxAiWorkers   \* bound: AiTaskWorker objects made for one task

TaskSet == {AiTaskNames[i] : i \in 1 .. Len(AiTaskNames)}

ASSUME AiAssumption ==
    /\ MaxAiWorkers \in Nat \ {0}
    /\ \A c \in AiConfigs : c.on \in BOOLEAN /\ c.tasks \in [TaskSet -> Nat]

VARIABLES
    aiStarted,   \* started
    aiConfig,    \* config
    aiTable,     \* task_workers: task |-> the number of its worker
    aiWorker,    \* <<task, number>> |-> AiTaskWorker
    aiImages,    \* the executor of AiAlertImages exists
    aiAlarm,     \* the last input IAlarm was given
    aiCtl        \* the control thread: [pc, op, stop, start, input]

aiVars == <<aiStarted, aiConfig, aiTable, aiWorker, aiImages, aiAlarm, aiCtl>>

AiWorkers == TaskSet \X (1 .. MaxAiWorkers)
OffConfig == [on |-> FALSE, tasks |-> [t \in TaskSet |-> 0]]

(* A worker; pc and input belong to the CaptureLoop() on its executor, and   *)
(* pc is "none" while it has no executor.                                    *)
NewWorker(v) == [config |-> v, running |-> FALSE, backend |-> FALSE, active |-> FALSE, pc |-> "none", input |-> FALSE]
CtlIdle == [pc |-> "idle", op |-> "none", stop |-> {}, start |-> {}, input |-> FALSE]

AiInit ==
    /\ aiStarted = FALSE /\ aiConfig = OffConfig
    /\ aiTable = [t \in TaskSet |-> 1] /\ aiWorker = [w \in AiWorkers |-> NewWorker(0)]
    /\ aiImages = FALSE /\ aiAlarm = FALSE /\ aiCtl = CtlIdle

InTable == {<<t, aiTable[t]>> : t \in TaskSet}

(* The first worker of a list: lists are in the order of the configuration.  *)
First(w, list) ==
    w \in list /\ \E i \in 1 .. Len(AiTaskNames) :
                     /\ AiTaskNames[i] = w[1]
                     /\ \A j \in 1 .. i - 1 : \A v \in list : v[1] # AiTaskNames[j]

(* AiTaskWorkers::Rebuild() for some tasks: the next number, a new worker.   *)
RenewTable(gone) == [t \in TaskSet |-> IF t \in gone THEN aiTable[t] + 1 ELSE aiTable[t]]
Rebuilt(c, gone) == [w \in {<<t, aiTable[t] + 1>> : t \in gone} |-> NewWorker(c.tasks[w[1]])]

-----------------------------------------------------------------------------
(* Start(): Prepare() loads the stored configuration, all workers are new.   *)
(* The application starts the service once (media_subsystem.cpp:97), and so  *)
(* never calls Start() of a started one, whose Prepare() would rebuild the   *)
(* table before Start() looks at started.                                    *)
AiStart(c) ==
    /\ aiCtl = CtlIdle /\ ~aiStarted
    /\ \A t \in TaskSet : aiTable[t] < MaxAiWorkers
    /\ aiStarted' = TRUE /\ aiConfig' = c
    /\ aiTable' = RenewTable(TaskSet)
    /\ LET new == Rebuilt(c, TaskSet)
       IN  aiWorker' = [w \in AiWorkers |-> IF w \in DOMAIN new THEN new[w] ELSE aiWorker[w]]
    /\ aiCtl' = [CtlIdle EXCEPT !.pc = "start", !.op = "start"]
    /\ UNCHANGED <<aiImages, aiAlarm>>

(* StopWorker(): the executor and the backend move to the list of stopped tasks. *)
StopWorker(w) == [aiWorker[w] EXCEPT !.running = FALSE]
ToStop(ids) == {w \in ids : aiWorker[w].pc # "none" \/ aiWorker[w].backend}

(* AiTaskWorkers::ApplyConfigDiff(): a task whose configuration is the same keeps *)
(* its worker; with AI off every worker is replaced.                              *)
Replaced(c) == {t \in TaskSet : ~c.on \/ aiWorker[<<t, aiTable[t]>>].config # c.tasks[t]}

ApplyAiConfig(c) ==
    /\ aiCtl = CtlIdle
    /\ LET gone == Replaced(c)
           old == {<<t, aiTable[t]>> : t \in gone}
           new == Rebuilt(c, gone)
       IN /\ \A t \in gone : aiTable[t] < MaxAiWorkers
          /\ aiTable' = RenewTable(gone)
          /\ aiWorker' = [w \in AiWorkers |-> IF w \in DOMAIN new THEN new[w]
                                              ELSE IF w \in old THEN StopWorker(w) ELSE aiWorker[w]]
          /\ aiImages' = (aiImages /\ c.on /\ ToStop(old) = {})
          /\ aiCtl' = [CtlIdle EXCEPT !.pc = "stop", !.op = "apply", !.stop = ToStop(old)]
    /\ aiConfig' = c
    /\ UNCHANGED <<aiStarted, aiAlarm>>

AiStop ==
    /\ aiCtl = CtlIdle
    /\ aiStarted' = FALSE
    /\ aiWorker' = [w \in AiWorkers |-> IF w \in InTable THEN StopWorker(w) ELSE aiWorker[w]]
    /\ aiCtl' = [CtlIdle EXCEPT !.pc = "stop", !.op = "stop", !.stop = ToStop(InTable)]
    /\ UNCHANGED <<aiConfig, aiTable, aiImages, aiAlarm>>

(* StopStoppedAiTask(): join the executor's thread, then stop the backend. *)
StopTaskBackendFirst(w) ==
    /\ aiCtl.pc = "stop" /\ First(w, aiCtl.stop)
    /\ IF aiWorker[w].backend
       THEN aiWorker' = [aiWorker EXCEPT ![w].backend = FALSE] /\ UNCHANGED aiCtl
       ELSE /\ aiWorker[w].pc = "ended" /\ aiWorker' = [aiWorker EXCEPT ![w].pc = "none"]
            /\ aiCtl' = [aiCtl EXCEPT !.stop = @ \ {w}]
    /\ UNCHANGED <<aiStarted, aiConfig, aiTable, aiImages, aiAlarm>>

StopTask(w) ==
    /\ aiCtl.pc = "stop" /\ First(w, aiCtl.stop)
    /\ aiWorker[w].pc = "ended"
    /\ aiWorker' = [aiWorker EXCEPT ![w].pc = "none", ![w].backend = FALSE]
    /\ aiCtl' = [aiCtl EXCEPT !.stop = @ \ {w}]
    /\ UNCHANGED <<aiStarted, aiConfig, aiTable, aiImages, aiAlarm>>

(* All are stopped: Stop() stops the images and clears the alarm input,       *)
(* ApplyConfig() goes on when the service is started.                         *)
StoppedAll ==
    /\ aiCtl.pc = "stop" /\ aiCtl.stop = {}
    /\ IF aiCtl.op = "stop" THEN aiImages' = FALSE /\ aiAlarm' = FALSE ELSE UNCHANGED <<aiImages, aiAlarm>>
    /\ aiCtl' = IF aiCtl.op = "apply" /\ aiStarted THEN [aiCtl EXCEPT !.pc = "start"] ELSE CtlIdle
    /\ UNCHANGED <<aiStarted, aiConfig, aiTable, aiWorker>>

AfterStart == IF aiCtl.op = "apply" THEN [aiCtl EXCEPT !.pc = "publish", !.start = {}] ELSE CtlIdle

(* EnabledToStart(): the workers that do not run yet. *)
EnabledToStart == {w \in InTable : aiWorker[w].config # 0 /\ ~aiWorker[w].running}

(* StartConfiguredTaskWorkers(); ready: the device is started and the images'  *)
(* executor could be started.                                                  *)
StartConfigured(ready) ==
    /\ aiCtl.pc = "start"
    /\ IF aiStarted /\ aiConfig.on /\ ready
       THEN aiImages' = TRUE /\ aiCtl' = [aiCtl EXCEPT !.pc = "prepare", !.start = EnabledToStart]
       ELSE aiCtl' = AfterStart /\ UNCHANGED aiImages
    /\ UNCHANGED <<aiStarted, aiConfig, aiTable, aiWorker, aiAlarm>>

(* AiTaskStartup::Prepare() without the mutex, CommitAiTaskStartup() with it.  *)
StartTask(w, works) ==
    /\ aiCtl.pc = "prepare" /\ First(w, aiCtl.start)
    /\ aiWorker' = IF works /\ aiStarted /\ aiConfig.on /\ w \in InTable
                   THEN [aiWorker EXCEPT ![w].running = TRUE, ![w].backend = TRUE, ![w].pc = "loop"]
                   ELSE [aiWorker EXCEPT ![w].running = FALSE]
    /\ aiCtl' = [aiCtl EXCEPT !.start = @ \ {w}]
    /\ UNCHANGED <<aiStarted, aiConfig, aiTable, aiImages, aiAlarm>>

StartedAll ==
    /\ aiCtl.pc = "prepare" /\ aiCtl.start = {}
    /\ aiCtl' = AfterStart
    /\ UNCHANGED <<aiStarted, aiConfig, aiTable, aiWorker, aiImages, aiAlarm>>

(* AiTaskWorkers::BuildAlarmInput() *)
AlarmInput == \E w \in InTable : aiWorker[w].active

(* ApplyConfig(): PublishAlarmInputForTask(), and ClearAlarmInput() with AI off. *)
ApplyRead ==
    /\ aiCtl.pc = "publish"
    /\ aiCtl' = [aiCtl EXCEPT !.pc = "inject", !.input = AlarmInput]
    /\ UNCHANGED <<aiStarted, aiConfig, aiTable, aiWorker, aiImages, aiAlarm>>

ApplyInject ==
    /\ aiCtl.pc = "inject"
    /\ aiAlarm' = (aiCtl.input /\ aiConfig.on) /\ aiCtl' = CtlIdle
    /\ UNCHANGED <<aiStarted, aiConfig, aiTable, aiWorker, aiImages>>

-----------------------------------------------------------------------------
(* CaptureLoop() of worker w. *)
CanTaskRun(w) == aiStarted /\ aiConfig.on /\ aiWorker[w].running /\ aiWorker[w].config # 0

Goes(w, pc) == aiWorker' = [aiWorker EXCEPT ![w].pc = pc]
aiRest == <<aiStarted, aiConfig, aiTable, aiImages, aiCtl>>

LoopTurn(w) ==
    /\ aiWorker[w].pc = "loop"
    /\ Goes(w, IF CanTaskRun(w) THEN "frame" ELSE "ended")
    /\ UNCHANGED <<aiRest, aiAlarm>>

(* The device is stopped or restarting: another turn after a pause. *)
DeviceAway(w) ==
    /\ aiWorker[w].pc = "frame"
    /\ Goes(w, "loop")
    /\ UNCHANGED <<aiRest, aiAlarm>>

(* The frame is grabbed without the mutex.  A failed capture clears the result. *)
CaptureFailed(w) ==
    /\ aiWorker[w].pc = "frame"
    /\ aiWorker' = [aiWorker EXCEPT ![w].active = FALSE, ![w].pc = "report"]
    /\ UNCHANGED <<aiRest, aiAlarm>>

Captured(w) ==
    /\ aiWorker[w].pc = "frame"
    /\ Goes(w, IF CanTaskRun(w) /\ aiWorker[w].backend THEN "infer" ELSE "loop")
    /\ UNCHANGED <<aiRest, aiAlarm>>

(* The backend has run: its result counts if the task still may run. *)
Inferred(w, found) ==
    /\ aiWorker[w].pc = "infer"
    /\ aiWorker' = IF CanTaskRun(w) THEN [aiWorker EXCEPT ![w].active = found, ![w].pc = "report"]
                                    ELSE [aiWorker EXCEPT ![w].pc = "loop"]
    /\ UNCHANGED <<aiRest, aiAlarm>>

(* PublishAlarmInputForTask(): read under the mutex, injected after it. *)
ReportRead(w) ==
    /\ aiWorker[w].pc = "report"
    /\ aiWorker' = [aiWorker EXCEPT ![w].pc = "inject", ![w].input = AlarmInput]
    /\ UNCHANGED <<aiRest, aiAlarm>>

ReportInject(w) ==
    /\ aiWorker[w].pc = "inject"
    /\ aiAlarm' = aiWorker[w].input
    /\ aiWorker' = [aiWorker EXCEPT ![w].pc = "loop", ![w].input = FALSE]
    /\ UNCHANGED aiRest

AiNext ==
    \/ \E c \in AiConfigs : AiStart(c) \/ ApplyAiConfig(c)
    \/ AiStop \/ StoppedAll \/ StartedAll \/ ApplyRead \/ ApplyInject
    \/ \E b \in BOOLEAN : StartConfigured(b)
    \/ \E w \in AiWorkers :
         \/ StopTask(w) \/ LoopTurn(w) \/ DeviceAway(w) \/ CaptureFailed(w) \/ Captured(w)
         \/ ReportRead(w) \/ ReportInject(w)
         \/ \E b \in BOOLEAN : StartTask(w, b) \/ Inferred(w, b)

AiSpec == AiInit /\ [][AiNext]_aiVars

-----------------------------------------------------------------------------
(* Types of the state. *)
AiTypeOK ==
    /\ InTable \subseteq AiWorkers /\ DOMAIN aiWorker = AiWorkers
    /\ aiCtl.pc \in {"idle", "stop", "start", "prepare", "publish", "inject"}
    /\ aiCtl.stop \subseteq AiWorkers /\ aiCtl.start \subseteq AiWorkers
    /\ \A w \in AiWorkers : aiWorker[w].pc \in {"none", "loop", "frame", "infer", "report", "inject", "ended"}

(* A backend is never stopped under a running inference. *)
BackendOutlivesRun == \A w \in AiWorkers : aiWorker[w].pc = "infer" => aiWorker[w].backend

(* When no call is under way every thread and backend belongs to a worker of   *)
(* the table that runs with its task's current configuration: a configuration  *)
(* applied during an inference leaves no thread with the old one behind.       *)
NoOrphanTask ==
    aiCtl = CtlIdle =>
        \A w \in AiWorkers :
            aiWorker[w].pc # "none" \/ aiWorker[w].backend =>
                /\ w \in InTable /\ aiWorker[w].running
                /\ aiWorker[w].config = aiConfig.tasks[w[1]] /\ aiWorker[w].config # 0

(* Once AI is stopped or switched off, no thread or backend is left and the   *)
(* alarm input is inactive, whatever an inference in flight still reported.   *)
OffIsQuiet ==
    (aiCtl = CtlIdle /\ (~aiStarted \/ ~aiConfig.on)) =>
        ~aiAlarm /\ ~aiImages /\ \A w \in AiWorkers : aiWorker[w].pc = "none" /\ ~aiWorker[w].backend

(* Only a task that is allowed to run reports a detection.                    *)
OnlyRunningTasksReport ==
    [][\A w \in AiWorkers : aiWorker'[w].active /\ ~aiWorker[w].active => CanTaskRun(w)]_aiVars

\* Tasks through reconfiguration and stop: no backend is unloaded under a running
\* inference, no task is left behind, and switched off means silent, whatever the
\* worker threads were doing.
AiTasksOwned ==
    /\ [](AiTypeOK /\ BackendOutlivesRun /\ NoOrphanTask /\ OffIsQuiet)
    /\ OnlyRunningTasksReport
=============================================================================
