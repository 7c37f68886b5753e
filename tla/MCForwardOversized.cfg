\* An event the relay accepts and the forwarder's line buffer cannot hold.
SPECIFICATION FairForwardSpec
CONSTANTS
  Sources = {render}
  DeliveryIds = {d1}
  DedupeWindow = 0
  Requests = {r1}
  Channels = {c1}
  Skew = 0
  Retention <- MCRetention
  ManualAges = {}
  MaxTime = 1
  Clients = {k1}
  BatchLimit = 1
  MaxFaults = 0
  SourceOf <- MCSourceOf
  Oversized = {d1}
  None = None
PROPERTY ForwardCatchesUp
