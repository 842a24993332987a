\* A replay of an event that was never delivered.
CONSTANTS
  e1 = e1
  e2 = e2
  audit = audit
  ads = ads
  gone = gone
  s1 = s1
  s2 = s2
  q1 = q1
  a1 = a1
  i1 = i1
  None = None
  Events = {e1}
  Consumers = {audit, ads}
  Bound = {audit, ads}
  Subscriptions <- MCSubscriptions
  Leftover <- MCLeftover
  Poison <- MCPoison
  Sweeps = {s1}
  Requests = {}
  Admins = {a1}
  Isolates = {s1, a1}
  IsolateOf <- OwnIsolate
  SelectLimit = 1
  BatchSize = 2
  MaxCalls = 2
  MaxAttempts = 2
  MaxFaults = 0
  AdminKinds = {"replay"}
  MaxAdmin = 1
  MaxOverruns = 0
SPECIFICATION Spec
INVARIANT NothingLost
CHECK_DEADLOCK FALSE
