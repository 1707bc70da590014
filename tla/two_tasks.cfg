CONSTANTS
  Tasks = {t1, t2, t3}
  TurnStates = {s1, s2, s3, s4}
  UserItems = {u1, u2}
  TriggerMail = {m1}
  QuietMail = {}
  Notes = {}
  GoalPrompt = GoalPrompt
  GoalsEnabled = FALSE
  Ops = {}
  Loop = Loop
  Reviewer = Reviewer
  Client = Client
  NoTurn = NoTurn
  NoTask = NoTask
SPECIFICATION Spec
INVARIANT AtMostOneTask
CHECK_DEADLOCK FALSE
