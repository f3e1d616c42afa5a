SPECIFICATION FairSpec
CONSTANTS
  Handlers = {h1}
  Budget <- Storm
INVARIANTS TypeOK EpComesBack FilesAreOurs
PROPERTY RebootLoads
CHECK_DEADLOCK FALSE
