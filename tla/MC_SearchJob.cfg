SPECIFICATION FairSpec
CONSTANTS
  MaxThreads = 2
  Requests <- MCRequests
  Batch = 2
  MaxSims = 2
INVARIANTS
    WithinBudget
    DoneMeansQuiet
    NothingOutlivesTheJob
PROPERTIES
    SearchEndsByItself
