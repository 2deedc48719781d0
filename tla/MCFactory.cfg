\* The store: two clients and three writes in flight, so that a write can overtake
\* two others, one of them its own client's; four stamps leave room for abort
\* against advance.
\* The step machine: two iterations after the first and the default of three
\* revisions, so that every limit is reached from both sides.
\* Discovery: two windows, one of which scans while the other follows, and one
\* pipeline with two steps, so that it is promoted, dropped and found again.
CONSTANTS
  Client = {c1, c2}
  Clock <- MCClock
  MaxInFlight = 3
  MaxStamp = 4
  MaxIterations = 2
  MaxRevisions = 3
  Proc = {p1, p2}
  Job = {j1}
  Base = 1
  MaxIdle = 3
  LeaseTime = 1
  Steps = 2
  MaxFaults = 2
SPECIFICATION Spec
INVARIANTS
  LandsIffCurrent StampsAreVersions
  StepsTypeOK CompletedIsVerified VerifyOnlyAccepted
  PollTypeOK PromptDiscovery
PROPERTIES
  NoLostUpdate KeepsPromise
  PositionsNeverRepeat Terminates
  AnnouncedEnds
\* A pipeline that has ended stays so.
CHECK_DEADLOCK FALSE
