SPECIFICATION FairSpec
CONSTANTS
  Mac = Mac
  Linux = Linux
  k1 = k1
  k2 = k2
  v1 = v1
  v2 = v2
  Secrets = {k1, k2}
  Versions = {v1, v2}
INVARIANTS
  ProofComesFirst
  ServedPeersAgree
  DeadlinesAreLifted
  GoodPairConnects
PROPERTY
  AttemptEnds
