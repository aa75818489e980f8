SPECIFICATION Spec
CONSTANTS
  Null = Null
  Wallets = {w1}
  Cases = {"lower", "mixed"}
  LastDay = 1
  BonusDays = 1
  MaxReferrerBonus = 5
  ActivationThreshold = 25
  SeasonWrites = {}
  MaxReferrals = 1
  Failing = {}
  Requests = {r1}
  RefOps = {}
  StakeYields = {25}
  DevReward = 0
INVARIANT WalletCreditedOnce
