SPECIFICATION Spec
CONSTANTS
  yaml = yaml
  yaml2 = yaml2
  json = json
  nameless = nameless
  foreign = foreign
  broken = broken
  Flow = {yaml, yaml2, json, nameless, foreign, broken}
  NoFlow = NoFlow
  InBody = {json}
  Anonymous = {nameless}
  Rejected = {broken}
  Unknown = {foreign}
  Torn = Torn
  describe = describe
  Describe = {describe}
  MaxReadable = 2
  MaxPublish = 2
  MaxBoot = 1
SYMMETRY FlowSymmetry
INVARIANTS
  TypeOK
  NoApplyIsLost
  AckedIsDurable
  SynchronizedIsTrue
  DescribeIsKept
