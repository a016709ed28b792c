SPECIFICATION Spec
CONSTANTS
  Threads = {w1, w2}
  IPs = {ip1}
  Ports = {p1}
  AllowedTimeout = 0
  ChallengeTimeout = 1
  CachedTimeout = 1
  CachedClear = 1
  SeqLimit = 2
  Rand = {r1}
  MayFail = {"is_allowed", "cleanup_ids", "insert_id", "seq_read", "seq_write", "exists", "cleanup_challenges", "read_port", "delete_id", "insert_challenge", "read_challenge", "delete_challenge", "insert_allowed"}
  MayCrash = TRUE
  MaxTime = 2
  NoId = NoId
  NoPort = NoPort
  NoRequest = NoRequest
SYMMETRY Symmetry
INVARIANTS
  TypeOK
  GrantSurvives
PROPERTY
  GateSpec
