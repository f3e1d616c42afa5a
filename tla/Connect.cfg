CONSTANTS
  Waiters = {w1, w2}
  Props <- AllProps
  PipeCapacity = 3
  Says = {"DUMP_BEGIN", "DUMP_ONGOING", "DUMP_COMPLETE", "AGDSP", "Other"}
  MaxAlives = 3
SPECIFICATION ConSpec
INVARIANTS ConTypeOK BlockResetsJustified NvitemdOnlyWhileAlive
