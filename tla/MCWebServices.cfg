SPECIFICATION MCSpec
CONSTANTS
  None = None
  Files = {f1, f2}
  Jobs = {j1, j2}
  Upload = Upload
  MaxEvents = 1
  Threads = {t1, t2}
  Kids = {x}
  MaxRequests = 2
  MaxMishaps = 1
  Workers = {w1, w2}
  Limit = 2
  Window = 2
  MaxTime = 7
  Jumps <- MCJumps
  MaxJumps = 1
SYMMETRY Symmetry
INVARIANTS TargetsWhole WindowHolds
PROPERTIES CompletedIsThere OldOrNew NothingIsLost AnswersAreTrue WaitIsEnough
CHECK_DEADLOCK FALSE
