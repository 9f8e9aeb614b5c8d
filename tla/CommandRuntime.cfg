SPECIFICATION FairSpec
CONSTANTS
  Runs = {r1}
  Specs = {s1, s2}
  Leases = {l1}
  Jobs = {j1, j2}
  Keys = {k1, k2}
  None = None
INVARIANTS
  TypeOK
  JobEffectAgree
  OneJobPerApproval
  ReadyOwnsJobs
  KillableWhileRunning
PROPERTIES
  JobSettles
  FirstTerminalWins
  StartupEndsRuns
  ImplementsJournal
