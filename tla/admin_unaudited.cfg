SPECIFICATION PipelineSpec
CONSTANTS
  Served <- Broadcast
  Nobody = Nobody
  MaxLosses = 0
CHECK_DEADLOCK FALSE
PROPERTIES
  AdminWritesAudited
