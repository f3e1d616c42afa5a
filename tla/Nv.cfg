SPECIFICATION Spec
CONSTANTS
  MaxVersion = 3
  Budget <- MostFaults
INVARIANTS TypeOK NvNotLost ReadFindsSaved
PROPERTY DeliversSaved
