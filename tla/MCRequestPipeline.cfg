\* Two requests of any kind with the optional controls off, authentication on
\* and both on; three that compete for two limiter slots; one with any header.
SPECIFICATION Spec
CONSTANTS
  r1 = r1
  r2 = r2
  r3 = r3
  s1 = s1
  p1 = p1
  p2 = p2
  k1 = k1
  t1 = t1
  t2 = t2
  NoID = NoID
  Requests = {r1, r2, r3}
  Subjects = {s1}
  Peers = {p1, p2}
  RawKeys = {k1}
  Texts = {t1, t2}
  Burst = 1
  MaxClients = 2
  MaxBearerTokenBytes = 3
  Secrets <- MCSecrets
  Traffic <- MCTraffic
  Configs <- MCConfigs
SYMMETRY Symmetry
INVARIANTS TypeOK AccountedOnce AnsweredOwnItem CreatedOnce RefusedWithoutEffect FaultNotBlamedOnClient LimitedByOwnUse AuthenticatedByBearer
