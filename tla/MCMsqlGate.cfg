SPECIFICATION Spec
CONSTANTS
  Threads = {w1, w2}
  IPs = {ip1}
  Ports = {p1}
  AllowedTimeout = 1
  ChallengeTimeout = 1
  CachedTimeout = 0
  SeqLimit = 4
  Rand = {r1}
  MayFail = {"delete_chal"}
  MayBreak = {w1}
  MaxTime = 2
  MaxRows = 2
  NoId = NoId
  NoPort = NoPort
  NoRequest = NoRequest
INVARIANTS
  TypeOK
  HolderRuns
  NumbersAreUnique
  AnswerInTime
PROPERTIES
  RedeemOnce
  GateSpec
CONSTRAINT FewAtOnce
