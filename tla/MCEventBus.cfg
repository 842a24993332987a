\* Two sweeps, of which one may overrun its lease, and a request's pumpIds, over two
\* events for one consumer, the second of them poison, and one fault anywhere.
CONSTANTS
  e1 = e1
  e2 = e2
  audit = audit
  ads = ads
  gone = gone
  s1 = s1
  s2 = s2
  q1 = q1
  a1 = a1
  i1 = i1
  None = None
  Events = {e1, e2}
  Consumers = {audit}
  Bound = {audit}
  Subscriptions <- MCSubscriptions
  Leftover <- MCLeftover
  Poison <- MCPoison
  Sweeps = {s1, s2}
  Requests = {q1}
  Admins = {}
  Isolates = {s1, s2, q1}
  IsolateOf <- OwnIsolate
  SelectLimit = 2
  BatchSize = 1
  MaxCalls = 2
  MaxAttempts = 2
  MaxFaults = 1
  AdminKinds = {"redeliver"}
  MaxAdmin = 0
  MaxOverruns = 1
SPECIFICATION Spec
SYMMETRY Symmetry
INVARIANTS TypeOK AckedIsProcessed OneLease NothingLost
PROPERTY CallsInLease
CHECK_DEADLOCK FALSE
