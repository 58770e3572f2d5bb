SPECIFICATION PipelineSpec
CONSTANT MaxApplications = 6
INVARIANTS
  GroupsPartitionTheApplications
  FlowIsConserved
  RibbonsFitTheirNodes
  LinksLeadToWhatTheyCount
