---------------------------- MODULE ServingProofs ----------------------------
(***************************************************************************)
(* What the lock, the state file and the order of a shutdown come to, for  *)
(* any number of servers, of status calls and of pollers.                  *)
(***************************************************************************)
EXTENDS Serving, TLAPS

\* The phases of a server between acquire and its end.
Phases == {"locked", "recovering", "starting", "up", "stopping", "awaiting", "terminated"}
Serves(s) == phase[s] \in Phases

Types ==
  /\ phase \in [Servers -> Phases \cup {"new", "refused", "gone"}]
  /\ loop \in [Pollers -> {"absent", "fresh", "waiting", "awake", "passing", "holding",
                           "sleeping", "stopped"}]

\* Whoever serves holds the lock, and serve.json is of the server that is up.
LockInv ==
  /\ \A s \in Servers : Serves(s) => lock = s /\ lockFile
  /\ \A s \in Servers : phase[s] = "up" => stateFile = s

\* A command in hand is in the hands of one of the two passes that take one, and
\* after terminate_all there is no such pass and nothing in the map.
HandInv ==
  /\ \A p \in Pollers : loop[p] = "holding" => p \in {Dispatcher, Monitor}
  /\ command = "hand" => \E p \in {Dispatcher, Monitor} : loop[p] = "holding"
  /\ \A s \in Servers : phase[s] = "terminated" =>
       PollersHaveStopped /\ command \notin {"map", "hand"}

ServingInv == Types /\ LockInv /\ HandInv

-----------------------------------------------------------------------------
LEMMA InitServing == Init => ServingInv
<1> SUFFICES ASSUME Init PROVE ServingInv
  OBVIOUS
<1>1. /\ \A s \in Servers : phase[s] = "new"
      /\ \A p \in Pollers : loop[p] = "absent"
      /\ Types
  BY DEF Init, AllOf, Types
<1>2. LockInv
  BY <1>1 DEF LockInv, Serves, Phases
<1>3. HandInv
  BY <1>1 DEF HandInv, Init
<1> QED
  BY <1>1, <1>2, <1>3 DEF ServingInv

\* One process holds the lock, so one server serves.
LEMMA OneServes ==
  ASSUME LockInv, NEW s \in Servers, NEW t \in Servers, Serves(s), Serves(t)
  PROVE  s = t
BY DEF LockInv

-----------------------------------------------------------------------------
(* The types.                                                              *)
LEMMA TypesStep == Types /\ [Next]_vars => Types'
<1> SUFFICES ASSUME Types, [Next]_vars PROVE Types'
  OBVIOUS
<1> USE DEF Types
<1>1. ASSUME NEW s \in Servers, ServerStep(s) \/ AskToStop(s) \/ Die(s) PROVE Types'
  <2> USE DEF Phases
  <2>1. CASE TakeLock(s) \/ RemoveState(s) \/ WriteState(s) \/ Recover(s)
    BY <2>1 DEF TakeLock, RemoveState, WriteState, Recover, loops
  <2>2. CASE WakeToStop(s) \/ TerminateAll(s) \/ AskToStop(s)
    BY <2>2 DEF WakeToStop, TerminateAll, AskToStop, loops
  <2>3. CASE Exit(s) \/ Die(s)
    BY <2>3 DEF Exit, Die, End, AllOf
  <2>4. ASSUME NEW p \in Pollers, StartPoller(s, p) PROVE Types'
    BY <2>4 DEF StartPoller
  <2> QED
    BY <1>1, <2>1, <2>2, <2>3, <2>4 DEF ServerStep
<1>2. ASSUME NEW q \in Probes, ProbeLock(q) \/ GiveLockBack(q) PROVE Types'
  BY <1>2 DEF ProbeLock, GiveLockBack, loops
<1>3. ASSUME NEW p \in Pollers,
             LoopStep(p) \/ WakeByTimer(p) \/ SelectFails(p) \/ TakeInHand(p)
      PROVE  Types'
  <2>1. CASE WakeByTimer(p) \/ WakeBySignal(p) \/ EndBackoff(p) \/ EndPass(p)
    BY <2>1 DEF WakeByTimer, WakeBySignal, EndBackoff, EndPass, world
  <2>2. CASE Look(p) \/ SelectFails(p) \/ TakeInHand(p) \/ LetGo(p)
    BY <2>2 DEF Look, SelectFails, TakeInHand, LetGo, world
  <2> QED
    BY <1>3, <2>1, <2>2 DEF LoopStep
<1>4. CASE Publish
  BY <1>4 DEF Publish, world
<1>5. CASE UNCHANGED vars
  BY <1>5 DEF vars, loops
<1> QED
  BY <1>1, <1>2, <1>3, <1>4, <1>5 DEF Next

-----------------------------------------------------------------------------
(* The lock.                                                               *)
LEMMA LockStep == Types /\ LockInv /\ [Next]_vars => LockInv'
<1> SUFFICES ASSUME Types, LockInv, [Next]_vars PROVE LockInv'
  OBVIOUS
<1> USE DEF LockInv, Serves, Phases
<1>1. ASSUME NEW s \in Servers, ServerStep(s) \/ AskToStop(s) \/ Die(s) PROVE LockInv'
  <2>1. CASE TakeLock(s)
    BY <2>1, ProcessAssumption DEF TakeLock, Types
  <2>2. CASE RemoveState(s)
    BY <2>2, OneServes DEF RemoveState, Types
  <2>3. CASE WriteState(s)
    BY <2>3, OneServes DEF WriteState, Types
  <2>4. CASE Exit(s) \/ Die(s)
    BY <2>4, OneServes DEF Exit, Die, End, Types
  <2>5. CASE Recover(s) \/ WakeToStop(s) \/ TerminateAll(s) \/ AskToStop(s)
    BY <2>5 DEF Recover, WakeToStop, TerminateAll, AskToStop, files, Types
  <2>6. ASSUME NEW p \in Pollers, StartPoller(s, p) PROVE LockInv'
    BY <2>6 DEF StartPoller, files
  <2> QED
    BY <1>1, <2>1, <2>2, <2>3, <2>4, <2>5, <2>6 DEF ServerStep
<1>2. ASSUME NEW q \in Probes, ProbeLock(q) \/ GiveLockBack(q) PROVE LockInv'
  BY <1>2, ProcessAssumption DEF ProbeLock, GiveLockBack
<1>3. CASE UNCHANGED <<files, phase>>
  BY <1>3 DEF files
<1>4. ASSUME NEW p \in Pollers,
             LoopStep(p) \/ WakeByTimer(p) \/ SelectFails(p) \/ TakeInHand(p)
      PROVE  UNCHANGED <<files, phase>>
  BY <1>4 DEF LoopStep, WakeByTimer, WakeBySignal, Look, EndBackoff, EndPass, LetGo,
     SelectFails, TakeInHand, world
<1>5. Publish \/ UNCHANGED vars => UNCHANGED <<files, phase>>
  BY DEF Publish, world, vars
<1> QED
  BY <1>1, <1>2, <1>3, <1>4, <1>5 DEF Next

-----------------------------------------------------------------------------
(* The command.                                                            *)
LEMMA HandStep == ServingInv /\ [Next]_vars => HandInv'
<1> SUFFICES ASSUME ServingInv, [Next]_vars PROVE HandInv'
  OBVIOUS
<1> USE ServingAssumption DEF ServingInv, Types, HandInv, PollersHaveStopped
<1>1. ASSUME NEW s \in Servers, ServerStep(s) \/ AskToStop(s) \/ Die(s) PROVE HandInv'
  <2>1. CASE TakeLock(s) \/ RemoveState(s) \/ WriteState(s) \/ AskToStop(s) \/ WakeToStop(s)
    BY <2>1 DEF TakeLock, RemoveState, WriteState, AskToStop, WakeToStop, loops
  <2>2. CASE Recover(s)
    BY <2>2 DEF Recover, loops
  <2>3. ASSUME NEW p \in Pollers, StartPoller(s, p) PROVE HandInv'
    BY <2>3 DEF StartPoller
  <2>4. CASE TerminateAll(s)
    BY <2>4 DEF TerminateAll, loops
  <2>5. CASE Exit(s) \/ Die(s)
    <3>1. Serves(s) /\ End(s)
      BY <2>5 DEF Exit, Die, Serves, Phases, Types
    <3>2. \A t \in Servers : phase'[t] # "terminated"
      BY <3>1, OneServes DEF End, Serves, Phases
    <3> QED
      BY <3>1, <3>2 DEF End, AllOf
  <2> QED
    BY <1>1, <2>1, <2>2, <2>3, <2>4, <2>5 DEF ServerStep
<1>2. ASSUME NEW p \in Pollers,
             LoopStep(p) \/ WakeByTimer(p) \/ SelectFails(p) \/ TakeInHand(p)
      PROVE  HandInv'
  <2>1. CASE WakeByTimer(p) \/ WakeBySignal(p) \/ Look(p) \/ EndBackoff(p) \/ EndPass(p)
               \/ SelectFails(p)
    BY <2>1 DEF WakeByTimer, WakeBySignal, Look, EndBackoff, EndPass, SelectFails, Waiting, world
  <2>2. CASE TakeInHand(p)
    BY <2>2 DEF TakeInHand, world
  <2>3. CASE LetGo(p)
    BY <2>3 DEF LetGo, world
  <2> QED
    BY <1>2, <2>1, <2>2, <2>3 DEF LoopStep
<1>3. CASE UNCHANGED <<phase, loop, command>>
  BY <1>3
<1>4. ASSUME NEW q \in Probes, ProbeLock(q) \/ GiveLockBack(q)
      PROVE  UNCHANGED <<phase, loop, command>>
  BY <1>4 DEF ProbeLock, GiveLockBack, loops
<1>5. Publish \/ UNCHANGED vars => UNCHANGED <<phase, loop, command>>
  BY DEF Publish, world, vars, loops
<1> QED
  BY <1>1, <1>2, <1>3, <1>4, <1>5 DEF Next

LEMMA ServingInvariant == Spec => []ServingInv
<1>1. ServingInv /\ [Next]_vars => ServingInv'
  BY TypesStep, LockStep, HandStep DEF ServingInv
<1> QED
  BY <1>1, InitServing, PTL DEF Spec

-----------------------------------------------------------------------------
\* While a server is up, flowlite status names it and no other: ServeLock, status.
THEOREM UpIsReported == Spec => []ServedIsReportedUp
<1>1. ServingInv => ServedIsReportedUp
  BY ProcessAssumption DEF ServingInv, LockInv, Serves, Phases, ServedIsReportedUp, Status
<1> QED
  BY <1>1, ServingInvariant, PTL

\* An ordered shutdown leaves no command in the map or in the hands of a pass:
\* Orchestrator::shutdown.
THEOREM ShutdownIsClean == Spec => []ShutdownLeavesNoCommand
<1>1. ServingInv => ShutdownLeavesNoCommand
  BY DEF ServingInv, HandInv, ShutdownLeavesNoCommand
<1> QED
  BY <1>1, ServingInvariant, PTL

=============================================================================
