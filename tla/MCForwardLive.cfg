\* Catch-up and release under fairness, two faults of any kind.
SPECIFICATION FairForwardSpec
CONSTANTS
  Sources = {render}
  DeliveryIds = {d1}
  DedupeWindow = 0
  Requests = {r1}
  Channels = {c1}
  Skew = 0
  Retention <- MCRetention
  ManualAges = {}
  MaxTime = 2
  Clients = {k1}
  BatchLimit = 1
  MaxFaults = 2
  SourceOf <- MCSourceOf
  Oversized = {}
  None = None
PROPERTIES GoneIsReleased ForwardCatchesUp
