\* The invite commands of hooksctl, with every token there is.
SPECIFICATION EnrolmentSpec
CONSTANTS
  None = None
  a1 = a1  a2 = a2  u1 = u1  u2 = u2
  s1 = s1  s2 = s2  s3 = s3
  k1 = k1  k2 = k2  k3 = k3
  p1 = p1  p2 = p2
  t1 = t1  t2 = t2
  Users = {a1, a2, u1, u2}
  Sessions = {s1, s2, s3}
  Tokens = {k1, k2, k3}
  Subs = {p1, p2}
  Callers = {c1, c2}
  Codes = {i1, i2}
  Pairings = {d1, d2}
  Terminals = {t1, t2}
  Addresses = {x1}
  InitialUsers <- MCUsers
  InitialSessions <- MCSessions
  InitialTokens <- MCTokens
  InitialSubs <- MCSubs
  InitialProfile <- MCProfile
  Limits <- MCLimits
  Scopes = {"admin", "render"}
  SessionTTL = 4
  SlideAfter = 2
  TouchAfter = 2
  IdleLimit = 3
  InviteTTL = 1
  PairingTTL = 1
  PairingKeep = 1
  Scenarios <- InviteScenario
  MaxPassword = 3
  MaxInstant = 10
SYMMETRY Symmetry
INVARIANT InviteCommandsAuthorised
