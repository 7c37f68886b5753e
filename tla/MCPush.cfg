\* One administrator at a time, every operation but deactivation.
SPECIFICATION PushSpec
CONSTANTS
  Sources = {render}
  DeliveryIds = {d1, d2}
  DedupeWindow = 9
  Requests = {r1}
  Channels = {w1, w2}
  Skew = 0
  Retention <- MCRetention
  ManualAges = {}
  MaxTime = 1
  Subs = {s1}
  Admins = {a1}
  Kinds = {"pause", "resume", "rotate", "delete", "restart"}
  Since = {0}
  MaxSecrets = 2
  MaxOps = 4
  MaxFailures = 1
  None = None
SYMMETRY Symmetry
INVARIANTS  CursorCoversHandled  ActiveHasWorker QuietWhilePaused
  Forgotten SecretMatchesHash NoMissedWakeup
PROPERTY HandledInOrder
