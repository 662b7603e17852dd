SPECIFICATION FairSpec
CONSTANTS
  p1 = p1
  p2 = p2
  p3 = p3
  p4 = p4
  i1 = i1
  i2 = i2
  i3 = i3
  Nothing = Nothing
  Pages <- MCPages
  Items = {i1, i2, i3}
  Sites <- MCSites
  MaxItems = 2
  MaxRetries = 2
  Spacing = {2, 3}
  BackoffBase = 1
  BackoffCap = 2
INVARIANT CrawlTypeOK GivenInOrder
PROPERTY  RunsOut CrawlEnds
