\* Three pipelines, two requests.  Both come to an end, hence no deadlock
\* check.
CONSTANTS
  Pipelines = {first, second, third}
  Requests = {r1, r2}
  Properties = {"country", "isp", "areas"}
  CloudLists <- SomeLists
  NoPipeline = NoPipeline
  NoList = NoList

SPECIFICATION Spec

INVARIANTS
  TypeOK
  IncompleteListWasReported
  AnswersAreWhole

PROPERTIES
  ListIsStillWhileRead

CHECK_DEADLOCK FALSE
