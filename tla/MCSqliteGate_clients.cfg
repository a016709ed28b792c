SPECIFICATION Spec
CONSTANTS
  Threads = {w1, w2}
  IPs = {ip1, ip2}
  Ports = {p1, p2}
  AllowedTimeout = 1
  ChallengeTimeout = 1
  CachedTimeout = 0
  CachedClear = 1
  SeqLimit = 2
  Rand = {r1}
  MayFail = {"cleanup_allowed"}
  MayCrash = FALSE
  MaxTime = 1
  NoId = NoId
  NoPort = NoPort
  NoRequest = NoRequest
SYMMETRY Symmetry
INVARIANTS
  OwnPort
PROPERTY
  GateSpec
CONSTRAINTS OnePosts NoNewIdsLater
