\* One forwarder, two of its connections at a time, two faults of any kind.
SPECIFICATION ForwardSpec
CONSTANTS
  Sources = {render}
  DeliveryIds = {d1}
  DedupeWindow = 0
  Requests = {r1}
  Channels = {c1, c2}
  Skew = 0
  Retention <- MCRetention
  ManualAges = {}
  MaxTime = 2
  Clients = {k1}
  BatchLimit = 2
  MaxFaults = 2
  SourceOf <- MCSourceOf
  Oversized = {}
  None = None
SYMMETRY Symmetry
INVARIANTS  FileCoversHandled SelectMissesNothing
PROPERTIES ForwardedInOrder ForwardImplementsFeed
