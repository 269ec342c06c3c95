CONSTANTS
  Files = {f1, f2}
  Contents = {c1, c2}
  Blocked = {}
  Calling = {}
  Defining = {}
  Absent = Absent
  NoFile = NoFile
  Unverified = Unverified
  Checkouts <- OneContent
  Baselines <- Legacy
  Asked = {f1, f2}
  c1 = c1
  c2 = c2
  MaxVersions = 3
  MaxBuilds = 3
  MaxEdits = 1

SPECIFICATION Spec

PROPERTIES
  CoveredMeansCurrent
