CONSTANTS
  Files = {f1, f2}
  Contents = {c1, c2}
  Blocked = {}
  Calling = {c1}
  Defining = {c2}
  Absent = Absent
  NoFile = NoFile
  Unverified = Unverified
  Checkouts <- OneContent
  Baselines <- Legacy
  Asked = {}
  c1 = c1
  c2 = c2
  MaxVersions = 3
  MaxBuilds = 3
  MaxEdits = 1

SPECIFICATION Spec

PROPERTIES
  PublishedGraphIsFixed
