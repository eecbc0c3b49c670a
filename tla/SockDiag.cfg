SPECIFICATION FairSpec
CONSTANTS
  Owners = {1, 2}
  NoOwner = NoOwner
  UidSets <- Scopes
  Flows = {"tcp", "bound", "free"}
  SourceOf <- Table
  Row <- Shown
  Ends <- Wire
  Wildcards = {"any:53", "any:0"}
  Infra = {}
  MaxOpens = 2
INVARIANTS TypeOK NothingUnrelated SampledIsKept ReportMatchesPcap
PROPERTY StopEnds
CHECK_DEADLOCK FALSE
