SPECIFICATION Spec
CONSTANTS
  Requests = {r1, r2}
  Users <- MCUsers
  Names <- MCNames
  Actions <- MCActions
  Roles <- MCRoles
  RolesOf <- MCRolesOf
  Resolutions = {"documents"}
  Default = "default"
  Initial <- MCInitial
  Workflow <- MCWorkflow
  None = None
  MaxSecond = 1
  MaxCrashes = 1
SYMMETRY Symmetry
INVARIANTS OnWorkflow OpenMeansNext HistoryLegal AnswerIsTrue
PROPERTIES ReopenOvertaken
CHECK_DEADLOCK FALSE
