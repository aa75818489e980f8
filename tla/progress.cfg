SPECIFICATION FairSpec
CONSTANTS
  Null = Null
  Wallets = {w1, w2}
  Cases = {"lower"}
  LastDay = 1
  BonusDays = 0
  MaxReferrerBonus = 100
  ActivationThreshold = 25
  SeasonWrites = {"active", "completed"}
  MaxReferrals = 1
  Failing = {}
  Requests = {r1}
  RefOps = {o1}
  StakeYields = {25}
  DevReward = 0
PROPERTIES EveryExecutionEnds RecordedIsCredited SeasonFrozen
