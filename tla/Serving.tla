------------------------------- MODULE Serving -------------------------------
(***************************************************************************)
(* What `flowlite serve` is around its services: the lock and the state     *)
(* file of a data directory, the pollers that drive the services, the       *)
(* signals that wake them, and the shutdown that ends them before it ends   *)
(* the commands.  What a pass does to the rows is the other modules'; here  *)
(* it publishes, and takes one command out of the children and back.        *)
(***************************************************************************)
EXTENDS Naturals

CONSTANTS
  Servers,      \* processes that run `flowlite serve` on the directory, once each
  Probes,       \* processes that ask for the directory's status
  Pollers,      \* the services' pollers
  Stoppable,    \* those of the orchestrator, given stop_when
  Unsignalled,  \* those whose wake-up is not registered with Signals
  Early,        \* those started before the recovery
  Dispatcher, Monitor,  \* of the attempts: the pollers that have commands in hand
  MaxErrors     \* selects that fail

ASSUME ServingAssumption ==
  /\ {Dispatcher, Monitor} \subseteq Stoppable
  /\ Stoppable \subseteq Pollers \ Unsignalled
  /\ Early \subseteq Pollers \ Stoppable
  /\ MaxErrors \in Nat

None == "None"
ASSUME ProcessAssumption == Servers \cap Probes = {} /\ None \notin Servers \cup Probes
Signalled == Pollers \ Unsignalled

VARIABLES
  lock,       \* the process that holds the flock on serve.lock
  lockFile,   \* serve.lock exists
  stateFile,  \* the server serve.json describes
  phase,      \* how far each server has come
  loop,       \* where each poller's loop is; fresh: its interval's first tick is due
  permit,     \* the permit a poller's Notify stores
  news,       \* a poller was woken and has neither selected nor stopped since
  stopping,   \* the flag the orchestrator's pollers share
  command,    \* a task's command: none, in the map, in a pass's hand, orphaned
  errors      \* failed selects so far

files == <<lock, lockFile, stateFile>>
loops == <<loop, permit, news>>
vars == <<files, phase, loops, stopping, command, errors>>

AllOf(S, x) == [y \in S |-> x]

Init ==
  /\ lock = None /\ lockFile = FALSE /\ stateFile = None
  /\ phase = AllOf(Servers, "new")
  /\ loop = AllOf(Pollers, "absent")
  /\ permit = AllOf(Pollers, FALSE) /\ news = AllOf(Pollers, FALSE)
  /\ stopping = FALSE
  /\ command = "none"
  /\ errors = 0

-----------------------------------------------------------------------------
(* The lock and the state file.                                            *)

\* Mutation: serve.json is removed before the lock is asked for.
TakeLockAfterCleaning(s) ==
  /\ phase[s] = "new"
  /\ lockFile' = TRUE /\ stateFile' = None
  /\ lock' = IF lock = None THEN s ELSE lock
  /\ phase' = [phase EXCEPT ![s] = IF lock = None THEN "locked" ELSE "refused"]
  /\ UNCHANGED <<loops, stopping, command, errors>>

\* acquire: serve.lock is created if absent, and locked unless somebody has it: a
\* server, or a status call that is about to give it back.
TakeLock(s) ==
  /\ phase[s] = "new"
  /\ lockFile' = TRUE
  /\ lock' = IF lock = None THEN s ELSE lock
  /\ phase' = [phase EXCEPT ![s] = IF lock = None THEN "locked" ELSE "refused"]
  /\ UNCHANGED <<stateFile, loops, stopping, command, errors>>

\* The rest of acquire: whatever serve.json says, it is not of this server.
RemoveState(s) ==
  /\ phase[s] = "locked"
  /\ phase' = [phase EXCEPT ![s] = "recovering"]
  /\ stateFile' = None
  /\ UNCHANGED <<lock, lockFile, loops, stopping, command, errors>>

\* The listener is bound and every poller started: write_state renames serve.json
\* into place.
WriteState(s) ==
  /\ phase[s] = "starting" /\ \A p \in Pollers : loop[p] # "absent"
  /\ phase' = [phase EXCEPT ![s] = "up"]
  /\ stateFile' = s
  /\ UNCHANGED <<lock, lockFile, loops, stopping, command, errors>>

\* status, which opens serve.lock and never creates it: a lock that can be taken is
\* given back, and until then keeps a server out.
ProbeLock(q) ==
  /\ lockFile /\ lock = None
  /\ lock' = q
  /\ UNCHANGED <<lockFile, stateFile, phase, loops, stopping, command, errors>>

GiveLockBack(q) ==
  /\ lock = q
  /\ lock' = None
  /\ UNCHANGED <<lockFile, stateFile, phase, loops, stopping, command, errors>>

\* What status says: Down, Starting, or Up of the server serve.json describes.
Status ==
  IF ~lockFile \/ lock = None THEN "Down"
  ELSE IF stateFile = None THEN "Starting"
  ELSE stateFile

-----------------------------------------------------------------------------
(* Start and end of a server.                                              *)

\* recover, after the scheduler's poller has started; then Orchestrator::start
\* registers its wake-ups, all before it spawns a poller.
Recover(s) ==
  /\ phase[s] = "recovering" /\ \A p \in Early : loop[p] # "absent"
  /\ phase' = [phase EXCEPT ![s] = "starting"]
  /\ command' = IF command = "orphan" THEN "none" ELSE command
  /\ UNCHANGED <<files, loops, stopping, errors>>

\* Poller::start: a new interval, whose first tick is due at once.
StartPoller(s, p) ==
  /\ loop[p] = "absent"
  /\ \/ phase[s] = "starting"
     \/ phase[s] = "recovering" /\ p \in Early
  /\ loop' = [loop EXCEPT ![p] = "fresh"]
  /\ UNCHANGED <<files, phase, permit, news, stopping, command, errors>>

\* The server's process ends: the descriptor closes, the files stay.
End(s) ==
  /\ phase' = [phase EXCEPT ![s] = "gone"]
  /\ lock' = None
  /\ loop' = AllOf(Pollers, "absent")
  /\ permit' = AllOf(Pollers, FALSE) /\ news' = AllOf(Pollers, FALSE)
  /\ stopping' = FALSE
  /\ command' = IF command \in {"map", "hand"} THEN "orphan" ELSE command
  /\ UNCHANGED <<lockFile, stateFile, errors>>

\* Killed, or an error that `run` returns: a bind that fails, say.
Die(s) == phase[s] \notin {"new", "refused", "gone"} /\ End(s)

\* axum has drained: Orchestrator::shutdown sets the flag, and then wakes everyone.
AskToStop(s) ==
  /\ phase[s] = "up"
  /\ phase' = [phase EXCEPT ![s] = "stopping"]
  /\ stopping' = TRUE
  /\ UNCHANGED <<files, loops, command, errors>>

Waiting(p) == loop[p] \in {"fresh", "waiting"}

\* Mutation: notify_waiters, which stores no permit for a poller that is busy.
WakeWaiting ==
  /\ permit' = [p \in Pollers |-> permit[p] \/ (p \in Signalled /\ Waiting(p))]
  /\ news' = [p \in Pollers |-> news[p] \/ p \in Signalled]
\* publish: notify_one stores a permit when nobody is waiting.
WakeAll ==
  /\ permit' = [p \in Pollers |-> permit[p] \/ p \in Signalled]
  /\ news' = [p \in Pollers |-> news[p] \/ p \in Signalled]

WakeToStop(s) ==
  /\ phase[s] = "stopping"
  /\ phase' = [phase EXCEPT ![s] = "awaiting"]
  /\ WakeAll
  /\ UNCHANGED <<files, loop, stopping, command, errors>>

\* Mutation: the shutdown awaits one of the pollers.
OnePollerHasStopped == \E p \in Stoppable : loop[p] = "stopped"
PollersHaveStopped == \A p \in Stoppable : loop[p] = "stopped"

\* terminate_all kills what is in the map, once every poller has been awaited.
TerminateAll(s) ==
  /\ phase[s] = "awaiting" /\ PollersHaveStopped
  /\ phase' = [phase EXCEPT ![s] = "terminated"]
  /\ command' = IF command = "map" THEN "none" ELSE command
  /\ UNCHANGED <<files, loops, stopping, errors>>

Exit(s) == phase[s] = "terminated" /\ End(s)

-----------------------------------------------------------------------------
(* The pollers' loop.                                                      *)

world == <<files, phase, stopping>>
IsStopping(p) == stopping /\ p \in Stoppable

\* The timer's arm of the select leaves a permit where it is, and the signal's a
\* first tick that is due, which the model may then never take.
WakeByTimer(p) ==
  /\ Waiting(p)
  /\ loop' = [loop EXCEPT ![p] = "awake"]
  /\ UNCHANGED <<world, permit, news, command, errors>>

WakeBySignal(p) ==
  /\ Waiting(p) /\ permit[p]
  /\ loop' = [loop EXCEPT ![p] = "awake"]
  /\ permit' = [permit EXCEPT ![p] = FALSE]
  /\ UNCHANGED <<world, news, command, errors>>

\* is_stopping ends the loop; else the service selects and the pass begins.
Look(p) ==
  /\ loop[p] = "awake"
  /\ loop' = [loop EXCEPT ![p] = IF IsStopping(p) THEN "stopped" ELSE "passing"]
  /\ news' = [news EXCEPT ![p] = FALSE]
  /\ UNCHANGED <<world, permit, command, errors>>

\* The error ends `run`; `start` begins it anew after the back-off.
SelectFails(p) ==
  /\ loop[p] = "awake" /\ ~IsStopping(p) /\ errors < MaxErrors
  /\ errors' = errors + 1
  /\ loop' = [loop EXCEPT ![p] = "sleeping"]
  /\ UNCHANGED <<world, permit, news, command>>

EndBackoff(p) ==
  /\ loop[p] = "sleeping"
  /\ loop' = [loop EXCEPT ![p] = "fresh"]
  /\ UNCHANGED <<world, permit, news, command, errors>>

\* A pass has written a row's status, or a page of the dashboard has.
Publish ==
  /\ \/ \E p \in Pollers : loop[p] \in {"passing", "holding"}
     \/ \E s \in Servers : phase[s] = "up"
  /\ WakeAll
  /\ UNCHANGED <<world, loop, command, errors>>

EndPass(p) ==
  /\ loop[p] = "passing"
  /\ loop' = [loop EXCEPT ![p] = "waiting"]
  /\ UNCHANGED <<world, permit, news, command, errors>>

-----------------------------------------------------------------------------
(* The command in the hands of the two passes that touch it, the last of   *)
(* their rows.                                                             *)

\* The dispatcher spawns a command, the monitor takes it out of the map.
TakeInHand(p) ==
  /\ loop[p] = "passing"
  /\ \/ p = Dispatcher /\ command = "none"
     \/ p = Monitor /\ command = "map"
  /\ command' = "hand"
  /\ loop' = [loop EXCEPT ![p] = "holding"]
  /\ UNCHANGED <<world, permit, news, errors>>

\* It goes into the map, or the monitor finds that it has exited.
LetGo(p) ==
  /\ loop[p] = "holding"
  /\ \/ command' = "map"
     \/ p = Monitor /\ command' = "none"
  /\ loop' = [loop EXCEPT ![p] = "waiting"]
  /\ UNCHANGED <<world, permit, news, errors>>

-----------------------------------------------------------------------------
ServerStep(s) ==
  \/ TakeLock(s) \/ RemoveState(s) \/ Recover(s) \/ WriteState(s)
  \/ \E p \in Pollers : StartPoller(s, p)
  \/ WakeToStop(s) \/ TerminateAll(s) \/ Exit(s)

\* One poller's loop, as its own task; the timer's later ticks are not part of it.
LoopStep(p) ==
  \/ loop[p] = "fresh" /\ WakeByTimer(p)
  \/ WakeBySignal(p) \/ Look(p) \/ EndBackoff(p)
  \/ EndPass(p) \/ LetGo(p)

Next ==
  \/ \E s \in Servers : ServerStep(s) \/ AskToStop(s) \/ Die(s)
  \/ \E q \in Probes : ProbeLock(q) \/ GiveLockBack(q)
  \/ \E p \in Pollers : LoopStep(p) \/ WakeByTimer(p) \/ SelectFails(p) \/ TakeInHand(p)
  \/ Publish

\* The runtime runs every task that can run.  Of the timer only its first tick is
\* assumed, so that what the wake-ups promise does not rest on it.
Fairness ==
  /\ \A s \in Servers : WF_vars(ServerStep(s))
  /\ \A p \in Pollers : WF_vars(LoopStep(p))

Spec == Init /\ [][Next]_vars /\ Fairness

-----------------------------------------------------------------------------
(* What serving promises.                                                  *)

\* While a server is up, status names that server: the lock and the file agree,
\* whatever other servers try to start and whoever asks.
ServedIsReportedUp == \A s \in Servers : phase[s] = "up" => lock = s /\ Status = s

\* An ordered shutdown leaves no command behind: no pass has one in its hand when
\* terminate_all looks in the map.
ShutdownLeavesNoCommand ==
  \A s \in Servers : phase[s] = "terminated" => command \notin {"map", "hand"}

\* Whoever is woken looks, or stops if it was woken to stop, without the timer's
\* help: a wake-up that arrives during a pass, a failed select or the back-off is
\* not lost.
SignalsAreHeeded == \A p \in Pollers : news[p] ~> ~news[p]

=============================================================================
