SPECIFICATION Spec
CONSTANTS
  Call <- Drags
  Key = {"s"}
  ChunkMs = 2
  None = None
INVARIANTS DropsAtTarget
