\* Catch-up under fairness.
SPECIFICATION FairPushSpec
CONSTANTS
  Sources = {render}
  DeliveryIds = {d1, d2}
  DedupeWindow = 9
  Requests = {r1}
  Channels = {w1, w2}
  Skew = 0
  Retention <- MCRetention
  ManualAges = {}
  MaxTime = 1
  Subs = {s1}
  Admins = {a1}
  Kinds = {"pause", "resume", "rotate", "restart"}
  Since = {0}
  MaxSecrets = 2
  MaxOps = 3
  MaxFailures = 0
  None = None
PROPERTY CatchesUp
