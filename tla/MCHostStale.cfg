SPECIFICATION HostSpec
CONSTANTS
  t = t
  d = d
  u = u
  m1 = m1
  s1 = s1
  s2 = s2
  p1 = p1
  r = r
  None = None
  Blocks <- HCTwoBlocks
  Beats = 1
  Sinks <- HCOneSink
  BSrcs <- HCBSrcs
  RelSrc = r
  GSrcs <- HCNone
  MSHRs <- HCMSHRs
  Uncached <- HCNone
  Tohosts <- HCTwoBlocks
  Images <- HCTwoImages
  Programs <- HCTwoPrograms
  MaxVer <- HCTwoVer
INVARIANT ProbedBlockKnown
