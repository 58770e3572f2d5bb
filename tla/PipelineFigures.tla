---------------------------- MODULE PipelineFigures ----------------------------
(***************************************************************************)
(* The pipeline figures of the dashboard and of the applications page:     *)
(* internal/server/server.go.  Every figure is recomputed on each request  *)
(* from the statuses of the stored applications, by several functions that *)
(* each sort the statuses into buckets in their own way: a switch          *)
(* (isActiveStatus), two tables of groups, two tables of drawing positions *)
(* and the filter behind every link.                                       *)
(*                                                                         *)
(* Only how many applications have each status matters, so every figure is *)
(* an operator on that count.                                              *)
(***************************************************************************)
EXTENDS Naturals

Status == {"prospect", "applied", "interviewing", "offer", "accepted",
           "declined", "rejected", "withdrawn", "archived"}

\* The statuses and the groups are fixed, so a sum over them is written out.
SumOverStatuses(n(_)) ==
  n("prospect") + n("applied") + n("interviewing") + n("offer") + n("accepted")
    + n("declined") + n("rejected") + n("withdrawn") + n("archived")

SumOverGroups(n(_)) ==
  n("prospect") + n("applied") + n("interviewing") + n("offer") + n("accepted") + n("closed")

Total(counts) == SumOverStatuses(LAMBDA s : counts[s])

CountOf(counts, statuses) == SumOverStatuses(LAMBDA s : IF s \in statuses THEN counts[s] ELSE 0)

-------------------------------------------------------------------------------
(* Buckets. *)

IsActiveStatus_Archived(s) == s \notin {"accepted", "declined", "rejected", "withdrawn"}

isActiveStatus(s) ==
  s \notin {"accepted", "declined", "rejected", "withdrawn", "archived"}

ActiveApplications(counts) == CountOf(counts, {s \in Status : isActiveStatus(s)})

\* dashboardPipelinePulseGroupDefinitions: the groups of the dashboard.
Group == [prospect     |-> {"prospect"},
          applied      |-> {"applied"},
          interviewing |-> {"interviewing"},
          offer        |-> {"offer"},
          accepted     |-> {"accepted"},
          closed       |-> {"declined", "rejected", "withdrawn", "archived"}]

GroupCount(counts, g) == CountOf(counts, Group[g])

\* applicationsFlowStageDefinitions: the stages of the applications page, listed
\* a second time.
Stage == [prospect     |-> {"prospect"},
          applied      |-> {"applied"},
          interviewing |-> {"interviewing"},
          offer        |-> {"offer"},
          accepted     |-> {"accepted"},
          closed       |-> {"declined", "rejected", "withdrawn", "archived"}]

StageCount(counts, g) == CountOf(counts, Stage[g])

\* What the page behind a link with ?status=filter lists.
FilterApplications_HidesClosed(filter) ==
  CASE filter \in Status -> {s \in {filter} : isActiveStatus(s)}
    [] filter = "closed" -> {s \in Status : ~isActiveStatus(s)}
    [] OTHER -> Status

filterApplications(filter) ==
  CASE filter \in Status -> {filter}
    [] filter = "closed" -> {s \in Status : ~isActiveStatus(s)}
    [] OTHER -> Status

Listed(counts, filter) == CountOf(counts, filterApplications(filter))

-------------------------------------------------------------------------------
(* Shares, and the graph. *)

percentageShare(count, total) ==
  IF total = 0 \/ count = 0 THEN 0 ELSE (count * 100 + total \div 2) \div total

AtMost(bound, n) == IF n > bound THEN bound ELSE n

RootHeight(total) == IF total = 0 THEN 180 ELSE 288

NodeHeight(count, total) ==
  IF total = 0 \/ count = 0 THEN 22 ELSE AtMost(190, 34 + (count * 150) \div total)

OutcomeHeight_NoBase(count, total) ==
  IF total = 0 \/ count = 0 THEN 18 ELSE AtMost(120, (count * 90) \div total)

OutcomeHeight(count, total) ==
  IF total = 0 \/ count = 0 THEN 18 ELSE AtMost(120, 24 + (count * 90) \div total)

LinkWidth(count, total) ==
  IF total = 0 \/ count = 0 THEN 0 ELSE AtMost(72, 8 + (count * 64) \div total)

\* The keys the drawing has a position for: a stage or an outcome without one
\* is skipped, with its ribbon.
stagePositions == {"prospect", "applied", "interviewing", "offer", "accepted", "closed"}

OutcomePositions_Three == {"declined", "rejected", "withdrawn"}

outcomePositions == {"declined", "rejected", "withdrawn", "archived"}

\* Ribbons of the graph, by the node they enter: from the root to the stages, and
\* from "closed" to the outcomes.
applicationsSankeyFor(counts) ==
  LET total == Total(counts)
      Ribbon(n, height) == [count |-> n, width |-> LinkWidth(n, total), height |-> height]
  IN  [tracked |->
         [g \in {h \in DOMAIN Stage \cap stagePositions : StageCount(counts, h) > 0} |->
            Ribbon(StageCount(counts, g), NodeHeight(StageCount(counts, g), total))],
       closed |->
         [s \in {o \in Stage["closed"] \cap outcomePositions : counts[o] > 0} |->
            Ribbon(counts[s], OutcomeHeight(counts[s], total))]]

\* What a ribbon carries and how wide it is, where there is one.
Carried(ribbons, key) == IF key \in DOMAIN ribbons THEN ribbons[key].count ELSE 0
Width(ribbons, key) == IF key \in DOMAIN ribbons THEN ribbons[key].width ELSE 0

-------------------------------------------------------------------------------
(* What the figures owe each other, whatever is counted. *)

\* The switch behind "Active applications" and the table of groups agree:
\* the active, accepted and closed applications are all the applications, and
\* the groups that are neither accepted nor closed hold exactly the active ones.
\* The two pages, which each have a table of their own, show the same figures
\* (isActiveStatus, dashboardPipelinePulseGroupDefinitions,
\* applicationsFlowStageDefinitions).  The percentages beside the six groups add up to
\* 100, give or take the half point by which each may be rounded (percentageShare).
GroupsPartition(counts) ==
  /\ ActiveApplications(counts) + GroupCount(counts, "accepted") + GroupCount(counts, "closed")
       = Total(counts)
  /\ SumOverGroups(LAMBDA g : IF g \in {"accepted", "closed"} THEN 0 ELSE GroupCount(counts, g))
       = ActiveApplications(counts)
  /\ \A g \in DOMAIN Group : StageCount(counts, g) = GroupCount(counts, g)
  /\ Total(counts) > 0 =>
       SumOverGroups(LAMBDA g : percentageShare(GroupCount(counts, g), Total(counts)))
         \in 97..103

\* What flows into the graph flows out of it: the ribbons that leave the root
\* carry every application, those that leave "closed" every closed one, though
\* a stage or an outcome with no drawing position is skipped without a word
\* (applicationsSankeyFor).
FlowConserved(counts) ==
  LET graph == applicationsSankeyFor(counts) IN
  /\ SumOverGroups(LAMBDA g : Carried(graph.tracked, g)) = Total(counts)
  /\ SumOverStatuses(LAMBDA s : Carried(graph.closed, s)) = GroupCount(counts, "closed")

\* The ribbons fit their nodes: none is wider than the node it enters, and those
\* that leave a node are together no wider than it, however the integer
\* divisions round (applicationsSankeyNodeHeight, OutcomeHeight, LinkWidth).
RibbonsFit(counts) ==
  LET graph == applicationsSankeyFor(counts) IN
  /\ \A g \in DOMAIN graph.tracked : graph.tracked[g].width <= graph.tracked[g].height
  /\ \A s \in DOMAIN graph.closed : graph.closed[s].width <= graph.closed[s].height
  /\ SumOverGroups(LAMBDA g : Width(graph.tracked, g)) <= RootHeight(Total(counts))
  /\ SumOverStatuses(LAMBDA s : Width(graph.closed, s))
       <= NodeHeight(StageCount(counts, "closed"), Total(counts))

\* The link of a group with one status leads to a page that lists as many as the
\* group counts, and the link on an outcome's ribbon to one that lists as many as the
\* ribbon carries (filterApplications against dashboardPipelinePulseGroupDefinitions
\* and applicationsSankeyFor).  Of the closed group's own link this says nothing: see
\* ClosedLinkListsTheClosed of PipelineFlow.
LinksLead(counts) ==
  /\ \A g \in DOMAIN Group \ {"closed"} : Listed(counts, g) = GroupCount(counts, g)
  /\ \A s \in Stage["closed"] :
       Listed(counts, s) = Carried(applicationsSankeyFor(counts).closed, s)
===============================================================================
