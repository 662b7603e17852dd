SPECIFICATION Spec
CONSTANTS
  Opps = {o1, o2, o3}
  Crawls = {c1, c2}
  Sources = {s1, s2, s3}
  Issuer <- MCIssuer
  Refs = {r1, r2, r3}
  Comparable <- MCComparable
  Exts = {x1}
  Titles = {t1, t2}
  Dates = {d1}
  Urls = {u1}
  None = None
  Similar <- MCSimilar
  Near <- MCNear
  Published <- MCPublished
  MaxVersion = 4
  r1 = r1
  r2 = r2
  r3 = r3
  x1 = x1
  t1 = t1
  t2 = t2
  d1 = d1
  u1 = u1
  s1 = s1
  s2 = s2
  s3 = s3
  m1 = m1
  m2 = m2
SYMMETRY MCSymmetry
INVARIANT IngestionTypeOK HistoryAgrees Recognised
PROPERTY NeverForgets 
