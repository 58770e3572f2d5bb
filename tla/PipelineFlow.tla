----------------------------- MODULE PipelineFlow -----------------------------
(***************************************************************************)
(* How the figures of PipelineFigures move: the applications of the store, *)
(* counted by status (internal/server/server.go), which are created under  *)
(* any status and moved between two.  The program never deletes one.       *)
(***************************************************************************)
EXTENDS PipelineFigures

CONSTANT MaxApplications  \* bound on the number of applications

ASSUME MaxApplicationsAssumption == MaxApplications \in Nat

VARIABLE statusCounts

PipelineInit == statusCounts = [s \in Status |-> 0]

CreateUnder(s) ==
  /\ Total(statusCounts) < MaxApplications
  /\ statusCounts' = [statusCounts EXCEPT ![s] = @ + 1]

MoveBetween(s, t) ==
  /\ statusCounts[s] > 0
  /\ s # t
  /\ statusCounts' = [statusCounts EXCEPT ![s] = @ - 1, ![t] = @ + 1]

PipelineNext == \/ \E s \in Status : CreateUnder(s)
                \/ \E s, t \in Status : MoveBetween(s, t)

PipelineSpec == PipelineInit /\ [][PipelineNext]_statusCounts

-------------------------------------------------------------------------------
(* Properties: what PipelineFigures says of any distribution, of those reached. *)

\* The active, accepted and closed applications are all of them, both pages group them
\* alike, and the percentages add up to 100 but for the rounding (GroupsPartition).
GroupsPartitionTheApplications == GroupsPartition(statusCounts)

\* The graph carries every application, and every closed one on to an outcome
\* (FlowConserved).
FlowIsConserved == FlowConserved(statusCounts)

\* No ribbon is wider than the node it enters, nor those that leave a node together
\* wider than it (RibbonsFit).
RibbonsFitTheirNodes == RibbonsFit(statusCounts)

\* The page behind a link lists what the figure beside it counts, for the groups with
\* one status and for the outcomes of the closed ones (LinksLead).
LinksLeadToWhatTheyCount == LinksLead(statusCounts)

\* "Closed: `declined`, `rejected`, `withdrawn`, `archived`" and "The aggregate
\* closed node links to `?status=closed`" (docs/PIPELINE_FLOW_PLAN.md): that
\* page should list what the node counts.
ClosedLinkListsTheClosed ==
  Listed(statusCounts, "closed") = GroupCount(statusCounts, "closed")
===============================================================================
