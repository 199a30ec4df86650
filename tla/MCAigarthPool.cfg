SPECIFICATION Spec
CONSTANTS
  s1 = s1  s2 = s2  s3 = s3
  None = None
  Users = {u1}
  Anns = {a1}
  Identities = {s1, s2, s3}
  Wallets = {s3}
  Amounts = {1300, 3900}
  Shares <- MCShares
  Deployments <- MCDeployments
  Changes <- MCChanges
  EpochsPerYear = 2
  MaxStakePerTx = 3900
  MaxStakePerUserPerEpoch = 5200
  MaxPositionsPerUser = 2
  MaxSigners = 2
  PendingOpTtlEpochs = 0
  MaxEpoch = 1
  MaxStakes = 2
INVARIANTS TypeOK ThresholdReachable SignerCap TotalsAgree EpochCap ValueKept
PROPERTIES QuorumActs FullTerm
