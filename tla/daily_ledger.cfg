SPECIFICATION Spec
CONSTANTS
  Null = Null
  Wallets = {w1}
  Cases = {"lower", "mixed"}
  LastDay = 2
  BonusDays = 1
  MaxReferrerBonus = 100
  ActivationThreshold = 25
  SeasonWrites = {"completed"}
  MaxReferrals = 1
  Failing = {r1, r2}
  Requests = {r1, r2}
  RefOps = {}
  StakeYields = {25}
  DevReward = 25
SYMMETRY Symmetry
INVARIANTS CreditedOnce BalanceBacked
