CONSTANTS
  Tasks = {t1, t2}
  TurnStates = {s1, s2}
  UserItems = {}
  TriggerMail = {}
  QuietMail = {}
  Notes = {}
  GoalPrompt = GoalPrompt
  GoalsEnabled = TRUE
  Ops = {"Approval", "Compact", "Interrupt", "Shutdown"}
  Loop = Loop
  Reviewer = Reviewer
  Client = Client
  NoTurn = NoTurn
  NoTask = NoTask
SPECIFICATION Spec
INVARIANT IndInv
INVARIANT NoSilentEnd
INVARIANT AbortedIsFinal
PROPERTY HandOff
CHECK_DEADLOCK FALSE
