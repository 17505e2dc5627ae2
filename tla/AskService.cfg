CONSTANTS
  r1 = r1
  r2 = r2
  p1 = p1
  t1 = t1
  t2 = t2
  Replicas = {r1, r2}
  Requests = {q1, q2}
  Probes = {p1}
  At <- Threads_at
  Traces = {t1, t2}
  NoTrace = NoTrace
  Nodes = 2
  MaxTraces = 1
  MaxThreads = 2
  NoThread = NoThread
  MaxDbErrors = 1
SPECIFICATION Spec
SYMMETRY Symmetry
INVARIANTS AuditedOnce NoRowLost ReadyMeansTable NoSpanLeak ReadsOwnTrace
