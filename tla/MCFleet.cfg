SPECIFICATION FairSpec
CONSTANTS
  r1 = r1
  r2 = r2
  p1 = p1
  p2 = p2
  t1 = t1
  Replicas = {r1, r2}
  NoReplica = NoReplica
  NoPolicy = NoPolicy
  Policies = {p1, p2}
  Secrets = {t1}
  SecretRef <- OneRef
  Keys <- TwoKeys
  Flags <- OnAndOff
  LeaseDuration = 3
  RenewDeadline = 2
  MaxAttempts = 3
  MaxCrashes = 1
INVARIANTS
  TypeOK
  OneActive
  
PROPERTIES
  NewestValueKept
  SomeoneActs
CHECK_DEADLOCK FALSE
