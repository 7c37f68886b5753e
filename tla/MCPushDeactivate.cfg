\* Resume after the owner's deactivation.
SPECIFICATION PushSpec
CONSTANTS
  Sources = {render}
  DeliveryIds = {d1}
  DedupeWindow = 9
  Requests = {r1}
  Channels = {w1, w2}
  Skew = 0
  Retention <- MCRetention
  ManualAges = {}
  MaxTime = 1
  Subs = {s1}
  Admins = {a1}
  Kinds = {"resume", "deactivate"}
  Since = {0}
  MaxSecrets = 1
  MaxOps = 3
  MaxFailures = 0
  None = None
SYMMETRY Symmetry
INVARIANT ActiveHasWorker
