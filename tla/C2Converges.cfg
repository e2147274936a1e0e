SPECIFICATION FairSpec
CONSTANTS
  yaml = yaml
  yaml2 = yaml2
  json = json
  nameless = nameless
  foreign = foreign
  broken = broken
  Flow = {yaml, yaml2}
  NoFlow = NoFlow
  InBody = {}
  Anonymous = {}
  Rejected = {}
  Unknown = {}
  Torn = Torn
  describe = describe
  Describe = {}
  MaxReadable = 1
  MaxPublish = 2
  MaxBoot = 1
PROPERTIES
  Converges
