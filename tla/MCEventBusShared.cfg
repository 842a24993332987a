\* Two sweeps that the runtime places in one isolate, so that they share the bus object
\* and its lease, one of them overrun; no fault.
CONSTANTS
  e1 = e1
  e2 = e2
  audit = audit
  ads = ads
  gone = gone
  s1 = s1
  s2 = s2
  q1 = q1
  a1 = a1
  i1 = i1
  None = None
  Events = {e1, e2}
  Consumers = {audit}
  Bound = {audit}
  Subscriptions <- MCSubscriptions
  Leftover <- MCLeftover
  Poison <- MCPoison
  Sweeps = {s1, s2}
  Requests = {}
  Admins = {}
  Isolates = {i1}
  IsolateOf <- SharedIsolate
  SelectLimit = 2
  BatchSize = 1
  MaxCalls = 2
  MaxAttempts = 2
  MaxFaults = 0
  AdminKinds = {"redeliver"}
  MaxAdmin = 0
  MaxOverruns = 1
SPECIFICATION Spec
PROPERTY NeverPastLease
CHECK_DEADLOCK FALSE
