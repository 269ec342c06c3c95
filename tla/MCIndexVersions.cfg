CONSTANTS
  Files = {f1, secret}
  Contents = {c1, c2}
  Blocked = {secret}
  Calling = {}
  Defining = {}
  Absent = Absent
  NoFile = NoFile
  Unverified = Unverified
  Checkouts <- OneContent
  Baselines <- Legacy
  Asked = {f1}
  c1 = c1
  c2 = c2
  MaxVersions = 3
  MaxBuilds = 3
  MaxEdits = 1

SPECIFICATION Spec

INVARIANTS
  IndexTypeOK
  BuildsAreWhole
  AnswersSurviveOneSwap
PROPERTIES
  FullIngestPublishesTheTree
  RefinesBuilds
