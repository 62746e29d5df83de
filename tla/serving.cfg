SPECIFICATION Spec
CONSTANTS
  Servers = {s1, s2}
  Probes = {q1}
  Pollers = {dispatcher, monitor, scheduler}
  Stoppable = {dispatcher, monitor}
  Unsignalled = {scheduler}
  Early = {scheduler}
  Dispatcher = dispatcher
  Monitor = monitor
  MaxErrors = 1
INVARIANTS
  ServedIsReportedUp
  ShutdownLeavesNoCommand
PROPERTIES SignalsAreHeeded
CHECK_DEADLOCK FALSE
