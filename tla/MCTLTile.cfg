SPECIFICATION Spec
CONSTANTS
  t = t
  u = u
  v = v
  w = w
  m1 = m1
  m2 = m2
  s1 = s1
  s2 = s2
  p1 = p1
  p2 = p2
  g1 = g1
  r = r
  None = None
  RelSrc = r
  Beats = 2
  Sinks <- Two_Sinks
  BSrcs <- Two_BSrcs
  GSrcs <- One_GSrc
  MSHRs <- Two_MSHRs
  Blocks <- The_Blocks
  Uncached <- The_Device
  Tohosts <- The_Tohost
  Images <- The_Image
  Programs <- The_Programs
  MaxVer <- The_Stores
SYMMETRY Ids
INVARIANTS
  OwnersKnown
  DataFresh
  ProbeSources
  GrantSinks
  BurstsCounted
