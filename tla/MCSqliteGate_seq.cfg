SPECIFICATION FairSpec
CONSTANTS
  Threads = {w1, w2}
  IPs = {ip1}
  Ports = {p1}
  AllowedTimeout = 1
  ChallengeTimeout = 1
  CachedTimeout = 1
  CachedClear = 2
  SeqLimit = 4
  Rand = {r1}
  MayFail = {}
  MayCrash = FALSE
  MaxTime = 0
  NoId = NoId
  NoPort = NoPort
  NoRequest = NoRequest
PROPERTY
  NumbersKeepComing
