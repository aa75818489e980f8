SPECIFICATION Spec
CONSTANTS
  Null = Null
  Wallets = {w1, w2}
  Cases = {"lower"}
  LastDay = 3
  BonusDays = 2
  MaxReferrerBonus = 3
  ActivationThreshold = 20
  SeasonWrites = {}
  MaxReferrals = 1
  Failing = {o1}
  Requests = {r1}
  RefOps = {o1}
  StakeYields = {10}
  DevReward = 0
SYMMETRY Symmetry
INVARIANTS AllCredited BonusBacked EarnedShardsBacked ActivationEarned
