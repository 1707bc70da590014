CONSTANTS
  Tasks = {t1, t2}
  TurnStates = {s1, s2, s3}
  UserItems = {i1}
  TriggerMail = {m1}
  QuietMail = {}
  Notes = {i1}
  GoalPrompt = GoalPrompt
  GoalsEnabled = FALSE
  Ops = {"Approval", "Review", "Defer"}
  Loop = Loop
  Reviewer = Reviewer
  Client = Client
  NoTurn = NoTurn
  NoTask = NoTask
SPECIFICATION FairSpec
INVARIANT IndInv
INVARIANT NoDuplicateDelivery
INVARIANT ApprovalReachable
PROPERTY TriggerMailDelivered
PROPERTY AbortCompletes
CHECK_DEADLOCK FALSE
