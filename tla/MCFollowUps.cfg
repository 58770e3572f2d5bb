SPECIFICATION Spec
CONSTANTS
  a1 = a1
  a2 = a2
  a3 = a3
  Application = {a1, a2, a3}
  Company <- Companies
  Role <- Roles
  Statuses <- StatusesTried
  Priorities <- PrioritiesTried
  ListLimit = 2
  Dates = {1, 2}
  NoDate = NoDate
  BadDate = BadDate
  Invalid = Invalid
  Refused = Refused
  Absent = Absent
  DayLength = 2
  LocalOffset = 1
  StaleActiveDays = 1
  FirstTick = 2
  LastTick = 5
INVARIANTS
  AcceptedFormsAreStored
  UntouchedFormKeepsRow
  DueFollowUpsAreListed
  ListOrdersAreSound
  PagesAgreeOnUrgency
  LabelsFollowTheCalendar
PROPERTY
  UrgencyOnlyGrows
