------------------------------ MODULE ChildRuns ------------------------------
(***************************************************************************)
(* The runs a task submits: a child is linked to the attempt whose command *)
(* submitted it, is stopped when that attempt ends without succeeding, and *)
(* while the command waits for it the attempt lends its slot out.          *)
(*                                                                         *)
(* A run here is one task, so an attempt is a run and a number; RunPipeline*)
(* has the rest of the pipeline.  A submission checks its parent and       *)
(* inserts in separate statements, and settling an attempt is a list of    *)
(* its children, a stop for each, and the status, in that order.           *)
(***************************************************************************)
EXTENDS Naturals, FiniteSets, FlowliteStatus

CONSTANTS
  MaxRuns,             \* bound: job_run ids
  Roots,               \* the runs no task submitted, there from the start
  MaxAttempts,         \* bound: attempts of a task run
  MaxRunningAttempts,  \* [orchestrator] max_running_attempts
  BootTimeKnown,       \* whether recovery may kill the commands it finds
  Configs              \* the instances to check: task_run.max_retries by run, the runs
                       \* whose task may time out, and as bounds the stops by users
                       \* and the faults, which are crashes and cascades that fail

JobRuns  == 1..MaxRuns
Attempts == JobRuns \X (1..MaxAttempts)

ASSUME ChildRunsAssumption ==
  /\ MaxRuns \in Nat /\ Roots \subseteq JobRuns
  /\ MaxAttempts \in Nat \ {0} /\ MaxRunningAttempts \in Nat \ {0}
  /\ BootTimeKnown \in BOOLEAN
  /\ Configs \subseteq [maxRetries : [JobRuns -> 0..(MaxAttempts - 1)], slow : SUBSET JobRuns,
                      stops : Nat, faults : Nat]

VARIABLES
  config,      \* the instance checked
  jobRun,      \* job_run.status
  parent,      \* job_run.parent_task_run_attempt_id, NoAttempt for none
  attempt,     \* task_run_attempt.status
  begun,       \* attempts with started_at set
  waiting,     \* attempts with waiting_since set
  stopRow,     \* runs with a job_run_stop row
  launching,   \* the attempt spawned and not yet recorded as Running
  held,        \* attempts whose process TaskRunAttemptChildren holds
  settling,    \* the attempt being settled: its status, and the children to stop
  process,     \* the command: none, running, zero, nonzero or killed
  submitting,  \* attempts with a submission past its check and not yet inserted
  waitsFor,    \* the run a command waits for, 0 for none
  recovering,  \* whether the server is still recovering
  stops,       \* stops by users so far
  faults,      \* faults so far
  cascaded,    \* history: runs stopped because their attempt ended
  escaped,     \* history: children their attempt's end did not reach
  lent         \* history: attempts that have waited

runs     == <<jobRun, parent, stopRow>>
attempts == <<attempt, begun>>
memory   == <<launching, held, settling>>
commands == <<process, submitting, waitsFor>>
bounds   == <<config, stops, faults>>
history  == <<cascaded, escaped, lent>>
vars == <<runs, attempts, waiting, memory, commands, recovering, bounds, history>>

NoAttempt  == <<0, 0>>
NoSettling == [attempt |-> NoAttempt, status |-> "None", children |-> {}]

TypeOK ==
  /\ jobRun \in [JobRuns -> JobRunStatus \cup {"None"}]
  /\ parent \in [JobRuns -> Attempts \cup {NoAttempt}]
  /\ attempt \in [Attempts -> AttemptStatus \cup {"None"}]
  /\ begun \subseteq Attempts /\ waiting \subseteq Attempts
  /\ stopRow \subseteq JobRuns
  /\ launching \subseteq Attempts /\ held \subseteq Attempts
  /\ settling \in [attempt : Attempts \cup {NoAttempt},
                   status : {"None", "Failed", "Aborted", "TimedOut", "Invalid"},
                   children : SUBSET JobRuns]
  /\ process \in [Attempts -> {"none", "running", "zero", "nonzero", "killed"}]
  /\ submitting \subseteq Attempts
  /\ waitsFor \in [Attempts -> {0} \cup JobRuns]
  /\ recovering \in BOOLEAN
  /\ config \in Configs
  /\ stops \in 0..config.stops /\ faults \in 0..config.faults
  /\ cascaded \subseteq JobRuns /\ escaped \subseteq JobRuns /\ lent \subseteq Attempts

Init ==
  /\ jobRun = [r \in JobRuns |-> IF r \in Roots THEN "Scheduled" ELSE "None"]
  /\ parent = [r \in JobRuns |-> NoAttempt]
  /\ attempt = [a \in Attempts |-> "None"]
  /\ begun = {} /\ waiting = {} /\ stopRow = {}
  /\ launching = {} /\ held = {} /\ settling = NoSettling
  /\ process = [a \in Attempts |-> "none"]
  /\ submitting = {} /\ waitsFor = [a \in Attempts |-> 0]
  /\ recovering = FALSE /\ config \in Configs /\ stops = 0 /\ faults = 0
  /\ cascaded = {} /\ escaped = {} /\ lent = {}

Ended(a)     == attempt[a] \in FinishedAttempt
EndedBadly(a) == Ended(a) /\ attempt[a] # "Succeeded"
Finished(r)  == jobRun[r] \in FinishedJobRun
IsLast(a)    == /\ attempt[a] # "None"
                /\ \A b \in Attempts : b[1] = a[1] /\ b[2] > a[2] => attempt[b] = "None"

-----------------------------------------------------------------------------
(* The rest of the pipeline, one task to a run.                            *)

pipeline == <<parent, stopRow, begun, waiting, memory, commands, recovering, bounds, history>>

\* A run whose time has come is started, with its first attempt queued.
StartRun(r) ==
  /\ ~recovering
  /\ jobRun[r] = "Scheduled" /\ r \notin stopRow
  /\ jobRun' = [jobRun EXCEPT ![r] = "Running"]
  /\ attempt' = [attempt EXCEPT ![<<r, 1>>] = "Queued"]
  /\ UNCHANGED pipeline

SkipRun(r) ==
  /\ ~recovering
  /\ jobRun[r] = "Scheduled" /\ r \in stopRow
  /\ jobRun' = [jobRun EXCEPT ![r] = "Skipped"]
  /\ UNCHANGED <<attempt, pipeline>>

\* A failed attempt is retried while retries are left.
HasRetriesLeft(a) == attempt[a] = "Failed" /\ a[2] <= config.maxRetries[a[1]]

Retry(a) ==
  /\ ~recovering
  /\ jobRun[a[1]] = "Running" /\ IsLast(a) /\ HasRetriesLeft(a)
  /\ attempt' = [attempt EXCEPT ![<<a[1], a[2] + 1>>] = "Queued"]
  /\ UNCHANGED <<jobRun, pipeline>>

SettleRun(a) ==
  /\ ~recovering
  /\ jobRun[a[1]] = "Running" /\ IsLast(a) /\ Ended(a) /\ ~HasRetriesLeft(a)
  /\ jobRun' = [jobRun EXCEPT ![a[1]] = JobRunVerdict({TaskRunVerdict(attempt[a])})]
  /\ UNCHANGED <<attempt, pipeline>>

-----------------------------------------------------------------------------
(* TaskRunAttemptDispatcher.                                               *)

\* Mutation: an attempt asleep in a wait holds its slot.
CountAllRunning == Cardinality({a \in Attempts : attempt[a] = "Running"})

\* Mutation: an attempt whose process this server does not hold is not counted.
CountHeld == Cardinality({a \in held : attempt[a] = "Running" /\ a \notin waiting})

\* count_running_attempts: an attempt that waits for a run holds no slot.
CountRunningAttempts ==
  Cardinality({a \in Attempts : attempt[a] = "Running" /\ a \notin waiting})

DispatcherIdle == ~recovering /\ launching = {}

\* The spawn, its started_at written first.
BeginSpawn(a) ==
  /\ DispatcherIdle
  /\ attempt[a] = "Queued" /\ a \notin begun /\ a[1] \notin stopRow
  /\ CountRunningAttempts < MaxRunningAttempts
  /\ begun' = begun \cup {a}
  /\ launching' = {a}
  /\ process' = [process EXCEPT ![a] = "running"]
  /\ UNCHANGED <<runs, attempt, waiting, held, settling, submitting, waitsFor, recovering,
                 bounds, history>>

RecordRunning(a) ==
  /\ a \in launching
  /\ launching' = {}
  /\ held' = held \cup {a}
  /\ attempt' = [attempt EXCEPT ![a] = "Running"]
  /\ UNCHANGED <<runs, begun, waiting, settling, commands, recovering, bounds, history>>

Children(a) == {c \in JobRuns : parent[c] = a}

\* set_to_invalid_already_spawned: a crash came before the Running write.  The
\* runs its command may have submitted are left alone.
SetToInvalidAlreadySpawned(a) ==
  /\ DispatcherIdle
  /\ attempt[a] = "Queued" /\ a \in begun
  /\ attempt' = [attempt EXCEPT ![a] = "Invalid"]
  /\ escaped' = escaped \cup Children(a)
  /\ UNCHANGED <<runs, begun, waiting, memory, commands, recovering, bounds, cascaded, lent>>

SkipAttempt(a) ==
  /\ DispatcherIdle
  /\ attempt[a] = "Queued" /\ a \notin begun /\ a[1] \in stopRow
  /\ attempt' = [attempt EXCEPT ![a] = "Skipped"]
  /\ UNCHANGED <<runs, begun, waiting, memory, commands, recovering, bounds, history>>

-----------------------------------------------------------------------------
(* TaskRunAttemptMonitor, and recovery, which settles the same way.        *)

\* Mutation: the runs its children submitted as well, handed off or not.
UnfinishedFamily(a) ==
  {c \in JobRuns : ~Finished(c) /\ \/ parent[c] = a
                                   \/ parent[c] # NoAttempt /\ parent[parent[c][1]] = a}

\* Mutation: a child that has not started yet is left out.
RunningChildren(a) == {c \in Children(a) : jobRun[c] = "Running"}

\* stop_child_job_runs, the list: the attempt's own unfinished children.
UnfinishedChildren(a) == {c \in Children(a) : ~Finished(c)}

\* Mutation: an exit status of 0 goes through the cascade like the others.
AnyEnding(a) ==
  IF a \in held /\ process[a] = "zero" THEN {"Succeeded"}
  ELSE IF a \in held /\ process[a] = "nonzero" THEN {"Failed"} ELSE {}

\* The status the monitor decides for an attempt it holds the process of, or for
\* one it does not.  A real outcome outranks a timeout, and that a stop.
BadEnding(a) ==
  CASE a \notin held -> {"Invalid"}
    [] process[a] = "nonzero" -> {"Failed"}
    [] process[a] = "running" ->
         {s \in {"TimedOut", "Aborted"} : IF s = "Aborted" THEN a[1] \in stopRow ELSE a[1] \in config.slow}
    [] OTHER -> {}

Idle == ~recovering /\ settling = NoSettling

Succeed(a) ==
  /\ Idle /\ attempt[a] = "Running" /\ a \in held /\ process[a] = "zero"
  /\ held' = held \ {a}
  /\ attempt' = [attempt EXCEPT ![a] = "Succeeded"]
  /\ UNCHANGED <<runs, begun, waiting, launching, settling, commands, recovering, bounds, history>>

\* A command that is killed goes with whatever it left behind in its process group.
Kill(a) ==
  /\ process' = [process EXCEPT ![a] = IF @ = "running" THEN "killed" ELSE @]
  /\ submitting' = IF process[a] = "running" THEN submitting \ {a} ELSE submitting
  /\ waitsFor' = [waitsFor EXCEPT ![a] = IF process[a] = "running" THEN 0 ELSE @]

BeginSettling(a, status) ==
  settling' = [attempt |-> a, status |-> status, children |-> UnfinishedChildren(a)]

\* The decision, the kill it takes, and the list of the children.
BeginBadEnding(a) ==
  /\ Idle /\ attempt[a] = "Running"
  /\ \E status \in BadEnding(a) : BeginSettling(a, status)
  /\ held' = held \ {a}
  /\ IF a \in held THEN Kill(a) ELSE UNCHANGED commands
  /\ UNCHANGED <<runs, attempts, waiting, launching, recovering, bounds, history>>

\* recovery.rs, one row: the kill where the boot time allows it, and the list.
Recover(a) ==
  /\ recovering /\ settling = NoSettling /\ attempt[a] = "Running"
  /\ BeginSettling(a, "Invalid")
  /\ IF BootTimeKnown THEN Kill(a) ELSE UNCHANGED commands
  /\ UNCHANGED <<runs, attempts, waiting, launching, held, recovering, bounds, history>>

\* stop_child_job_runs, one child of the list: a stop row unless there is one.
StopChild(c) ==
  /\ c \in settling.children
  /\ settling' = [settling EXCEPT !.children = @ \ {c}]
  /\ stopRow' = stopRow \cup {c}
  /\ cascaded' = IF c \in stopRow THEN cascaded ELSE cascaded \cup {c}
  /\ UNCHANGED <<jobRun, parent, attempts, waiting, launching, held, commands, recovering,
                 bounds, escaped, lent>>

\* Mutation: the status is written while children are still to be stopped.
FinishAttemptFirst ==
  /\ settling # NoSettling /\ settling.status # attempt[settling.attempt]
  /\ attempt' = [attempt EXCEPT ![settling.attempt] = settling.status]
  /\ settling' = IF settling.children = {} THEN NoSettling ELSE settling
  /\ UNCHANGED <<runs, begun, waiting, launching, held, commands, recovering, bounds, history>>

\* finish_task_run_attempt writes the status, once the children have been stopped.
FinishAttempt ==
  /\ settling # NoSettling /\ settling.children = {}
  /\ attempt' = [attempt EXCEPT ![settling.attempt] = settling.status]
  /\ settling' = NoSettling
  /\ UNCHANGED <<runs, begun, waiting, launching, held, commands, recovering, bounds, history>>

FinishRecovery ==
  /\ recovering /\ \A a \in Attempts : attempt[a] # "Running"
  /\ recovering' = FALSE
  /\ UNCHANGED <<runs, attempts, waiting, memory, commands, bounds, history>>

-----------------------------------------------------------------------------
(* The commands, and the flowlite processes they run.                      *)

\* A command exits by itself when no wait of its own holds it; what it left
\* running in the background does not end with it.
ExitCommand(a) ==
  /\ process[a] = "running" /\ waitsFor[a] = 0
  /\ \E code \in {"zero", "nonzero"} : process' = [process EXCEPT ![a] = code]
  /\ UNCHANGED <<runs, attempts, waiting, memory, submitting, waitsFor, recovering, bounds,
                 history>>

\* resolve_parent_task_run_attempt refuses an attempt that has ended without
\* succeeding, and one whose run is being stopped.
MaySubmit(a) == ~EndedBadly(a) /\ a[1] \notin stopRow

\* submit_job or rerun_job from inside a task, the check.
CheckParent(a) ==
  /\ process[a] \in {"running", "zero", "nonzero"} /\ a \notin submitting
  /\ \E c \in JobRuns : jobRun[c] = "None"
  /\ MaySubmit(a)
  /\ submitting' = submitting \cup {a}
  /\ UNCHANGED <<runs, attempts, waiting, memory, process, waitsFor, recovering, bounds, history>>

\* Whether the list of the attempt's children has been read.
ListRead(a) == settling.attempt = a \/ EndedBadly(a)

\* The insert, by a command that may go on to wait for the run.
InsertChild(a) ==
  /\ a \in submitting
  /\ submitting' = submitting \ {a}
  /\ \E c \in JobRuns :
       /\ jobRun[c] = "None" /\ \A d \in JobRuns : jobRun[d] = "None" => c <= d
       /\ jobRun' = [jobRun EXCEPT ![c] = "Scheduled"]
       /\ parent' = [parent EXCEPT ![c] = a]
       /\ escaped' = IF ListRead(a) THEN escaped \cup {c} ELSE escaped
       /\ \E target \in {0} \cup (IF process[a] = "running" THEN {c} ELSE {}) :
            waitsFor' = [waitsFor EXCEPT ![a] = IF @ = 0 THEN target ELSE @]
  /\ UNCHANGED <<stopRow, attempts, waiting, memory, process, recovering, bounds, cascaded, lent>>

\* set_waiting_since writes a Running attempt only.
SetWaiting(a, mark) ==
  waiting' = IF attempt[a] # "Running" THEN waiting
             ELSE IF mark THEN waiting \cup {a} ELSE waiting \ {a}

\* poll_until_settled, a pass that finds the run unfinished.
StampWait(a) ==
  /\ waitsFor[a] # 0 /\ ~Finished(waitsFor[a])
  /\ SetWaiting(a, TRUE)
  /\ lent' = IF attempt[a] = "Running" THEN lent \cup {a} ELSE lent
  /\ UNCHANGED <<runs, attempts, memory, commands, recovering, bounds, cascaded, escaped>>

\* wait_as_attempt returns, the run settled or the bound elapsed: unasked, the
\* attempt has its slot back.
EndWait(a) ==
  /\ waitsFor[a] # 0 /\ Finished(waitsFor[a])
  /\ SetWaiting(a, FALSE)
  /\ waitsFor' = [waitsFor EXCEPT ![a] = 0]
  /\ UNCHANGED <<runs, attempts, memory, process, submitting, recovering, bounds, history>>

\* A wait that is cancelled leaves its mark behind.
CancelWait(a) ==
  /\ waitsFor[a] # 0
  /\ waitsFor' = [waitsFor EXCEPT ![a] = 0]
  /\ UNCHANGED <<runs, attempts, waiting, memory, process, submitting, recovering, bounds, history>>

-----------------------------------------------------------------------------
(* Users and faults.                                                       *)

StopJobRun(r) ==
  /\ stops < config.stops /\ stops' = stops + 1
  /\ jobRun[r] \in UnfinishedJobRun /\ r \notin stopRow
  /\ stopRow' = stopRow \cup {r}
  /\ UNCHANGED <<jobRun, parent, attempts, waiting, memory, commands, recovering, config, faults, history>>

Fault == faults < config.faults /\ faults' = faults + 1

\* The server dies and comes back; the commands run on.
Crash ==
  /\ Fault
  /\ launching' = {} /\ held' = {} /\ settling' = NoSettling
  /\ recovering' = TRUE
  /\ UNCHANGED <<runs, attempts, waiting, commands, config, stops, history>>

\* A statement of the cascade fails: the row stays Running, its process let go.
\* During recovery the error ends the server.
CascadeFails ==
  /\ Fault
  /\ settling # NoSettling
  /\ settling' = NoSettling
  /\ UNCHANGED <<runs, attempts, waiting, launching, held, commands, recovering, config, stops, history>>

-----------------------------------------------------------------------------
RunStep(r) == StartRun(r) \/ SkipRun(r)
AttemptStep(a) ==
  Retry(a) \/ SettleRun(a) \/ BeginSpawn(a) \/ RecordRunning(a)
    \/ SetToInvalidAlreadySpawned(a) \/ SkipAttempt(a)
    \/ Succeed(a) \/ BeginBadEnding(a) \/ Recover(a)
SettlingStep == FinishAttempt \/ FinishRecovery \/ \E c \in JobRuns : StopChild(c)
WaitStep(a) == (StampWait(a) /\ a \notin waiting) \/ EndWait(a)
CommandStep(a) ==
  ExitCommand(a) \/ CheckParent(a) \/ InsertChild(a) \/ WaitStep(a) \/ CancelWait(a)

Next == \/ SettlingStep \/ Crash \/ CascadeFails
        \/ \E r \in JobRuns : RunStep(r) \/ StopJobRun(r)
        \/ \E a \in Attempts : AttemptStep(a) \/ CommandStep(a)

Spec == Init /\ [][Next]_vars

\* The server's services keep running and a wait keeps polling; a command that is
\* not waiting may run for ever.
Fairness ==
  /\ WF_vars(SettlingStep)
  /\ \A r \in JobRuns : WF_vars(RunStep(r))
  /\ \A a \in Attempts : WF_vars(AttemptStep(a)) /\ WF_vars(WaitStep(a))

FairSpec == Spec /\ Fairness

-----------------------------------------------------------------------------
(* Safety.                                                                 *)

\* When an attempt has ended without succeeding, the runs it submitted are over or
\* have a stop row, but for those its cascade did not reach; and a child handed off
\* by one that succeeded is stopped by nobody but a user, whatever becomes of the
\* runs above it: finish_task_run_attempt, recover and stop_child_job_runs, across
\* a cascade that fails and a crash in the middle of it.
ChildrenShareItsFate ==
  /\ \A c \in JobRuns \ escaped :
       parent[c] # NoAttempt /\ EndedBadly(parent[c]) /\ ~Finished(c) => c \in stopRow
  /\ \A c \in cascaded : attempt[parent[c]] # "Succeeded"

\* The cap is exceeded by attempts that came back from a wait and by nothing else:
\* those that never waited fit under it.  count_running_attempts.
OnlyWaitersExceedTheCap ==
  Cardinality({a \in Attempts : attempt[a] = "Running" /\ a \notin lent}) <= MaxRunningAttempts

-----------------------------------------------------------------------------
(* Liveness.                                                               *)

\* The children of an attempt that ended badly wind down, even if no command ever
\* exits by itself.
FamiliesWindDown ==
  []<>(\A c \in JobRuns \ escaped :
         parent[c] # NoAttempt /\ EndedBadly(parent[c]) => Finished(c))

\* A wait ends if commands do, with one slot for all of them: the slot an attempt
\* lends out is the one its child needs.  wait_for_job_run.
WaitsEnd ==
  (\A a \in Attempts : WF_vars(ExitCommand(a))) => []<>(\A a \in Attempts : waitsFor[a] = 0)

=============================================================================
