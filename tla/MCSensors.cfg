\* A driver with an initial state and one without; nine events of room are more
\* than two reports of each can fill.
CONSTANTS
  NumDrivers = 2
  WithInitial = {1}
  EntriesPer = 2
  RingSize = 4
  Room = 9
  MaxReports = 2
  MaxCalls = 3
  MaxFaults = 1
SPECIFICATION Spec
INVARIANT NothingLeftAsleep
PROPERTY ReportReachesService
\* The service may stop calling enable, and the kernel may stop reporting.
CHECK_DEADLOCK FALSE
