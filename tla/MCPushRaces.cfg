\* Two administrators at once, deactivation, and pruning with sequence reuse.
SPECIFICATION PushSpec
CONSTANTS
  Sources = {render}
  DeliveryIds = {d1}
  DedupeWindow = 0
  Requests = {r1}
  Channels = {w1, w2}
  Skew = 0
  Retention <- MCRetention
  ManualAges = {1}
  MaxTime = 2
  Subs = {s1}
  Admins = {a1, a2}
  Kinds = {"pause", "resume", "deactivate"}
  Since = {0}
  MaxSecrets = 1
  MaxOps = 3
  MaxFailures = 0
  None = None
SYMMETRY Symmetry
INVARIANTS CursorCoversHandled NoMissedWakeup
PROPERTY PushImplementsFeed
