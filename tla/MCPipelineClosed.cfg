SPECIFICATION PipelineSpec
CONSTANT MaxApplications = 2
INVARIANT ClosedLinkListsTheClosed
