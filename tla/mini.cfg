SPECIFICATION MCSpec
CONSTANTS
  Mini = {m1, m2}
  FullNode = n
  Signed = TRUE
  kRouteTtl = 2
  kRouteMaxAge = 3
  MaxEvents = 1
  NoRoute = NoRoute
  Relay = {m1, m2}
  kSendRetries = 1
  MaxFlaps = 2
  NoReq = NoReq
  Delivery = {del}
  Session = {s1, s2}
  kCosignMinBytes = 2
  kCosignMemory = 1
  MaxFrames = 4
  Nothing = Nothing
INVARIANT
  WitnessHonest
PROPERTIES
  VanishedRouteFades
  LiveRouteListed
  CallSettles
