CONSTANTS
  Jobs <- MCJobs2
  Units = {u1, u2}
  u1 = u1
  u2 = u2
  m1 = m1
  Models = {m1}
  Agents = {a1, a2}
  Refs = {r1}
  Submissions <- MCSubmitBoth
  MaxAttempts = 2
  NULL = NULL
SPECIFICATION Spec
CONSTRAINT RetriedOrRaced
SYMMETRY AgentSymmetry
INVARIANTS
  DoneJobOwnsNoLiveUnit
PROPERTY ImplementsOutcomes
CHECK_DEADLOCK FALSE
