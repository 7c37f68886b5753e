\* The newest row is pruned and its sequence handed out again.
SPECIFICATION Spec
CONSTANTS
  Sources = {render}
  DeliveryIds = {d1, d2}
  DedupeWindow = 1
  Requests = {r1, r2}
  Channels = {c1}
  Skew = 0
  RetentionOfEach = 1
  Retention <- MCRetention
  ManualAges = {2}
  MaxTime = 4
SYMMETRY Symmetry
INVARIANT Gapless
