SPECIFICATION FairHostSpec
CONSTANTS
  t = t
  d = d
  u = u
  m1 = m1
  s1 = s1
  s2 = s2
  p1 = p1
  r = r
  None = None
  Blocks <- HCBlocks
  Beats = 1
  Sinks <- HCSinks
  BSrcs <- HCBSrcs
  RelSrc = r
  GSrcs <- HCNone
  MSHRs <- HCMSHRs
  Uncached <- HCNone
  Tohosts <- HCTohosts
  Images <- HCImages
  Programs <- HCPrograms
  MaxVer <- HCVer
INVARIANTS
  
  InterfaceKept
PROPERTIES
  TohostSeen
  TestsDrain
