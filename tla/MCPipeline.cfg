SPECIFICATION Spec
CONSTANTS
  Strings = Strings
  Echo = Echo
  Chat = Chat
  Usurper = Usurper
  LastHandler = LastHandler
  Handlers = {Strings, Echo, Chat, Usurper}
  Name <- MCName
  Sig <- MCSig
  Reserved = "ReservedRettyPipelineHandlerName"
  Transport = "bytes"
  Events = {"close"}
  MaxWrites = 2
  None = None
INVARIANTS
  Aligned
  ForwardLinks
  NoInternalPanic
  FinalizedOrder
  TypedPipelineRuns
  WriteOrder
PROPERTIES
  NoneMeansDrained
  RemoveExact
CHECK_DEADLOCK FALSE
