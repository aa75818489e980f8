SPECIFICATION Spec
CONSTANTS
  Null = Null
  o1 = o1  o2 = o2  o3 = o3
  Chains = {base}
  LastTime = 2
  MaxSeasons = 2
  Ops = {o1, o2, o3}
  Failing = {o2, o3}
  Casts <- MCCasts
SYMMETRY Symmetry
INVARIANTS EndAfterStart StartedIfNotUpcoming CompletedHasEnd
PROPERTIES StatusFollowsAlone BatchCatchesUp
