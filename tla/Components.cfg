SPECIFICATION Spec
CONSTANTS
  ClipSlices = 2
  MaxClip = 3
  FrameInterval = 2
  MaxFrames = 2
  RingSize = 3
  DrainPerTick = 2
  MaxGestures = 6
  InboxSize = 2
  MaxPosts = 4
  SeqValues = 4
  MaxSessions = 3
  MaxAttempts = 2
  MaxEvents = 2
  MaxAttributes = 2
  InlineBytes = 1
  HeaderBytes = 3
  AttributeBytes = 4
  Names = {"", "source", "key", "more"}
  Values = {"", "x", "long"}
  TooLong = "long"
  Slots <- SomeSlots
  MaxNodes = 2
  MaxConns = 2
  MaxProps = 1
  Documents <- SomeDocuments
  Urls <- SomeUrls
  Built <- BuiltUrls
  UrlBytes = 80
INVARIANTS
  TypeOK
  PublishedIsWhole
  CameraIsLeftUsable
  InboxOutlivesHandler
  ConnectedHasClient
  ConnectedIsTrue
  ReadsBackWhole
  CutFlowIsPart
  WholeFlowIsRead
  FirstUuidIsFound
PROPERTIES
  RingIsQueue
  PostsAreTaken
  LinkComesBack
