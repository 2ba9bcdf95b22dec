SPECIFICATION FairPageSpec
CONSTANTS
  Keys = {1, 2}
  MaxQuestions = 3
  PrepAttempts = 2
  Loads = {1, 2}
  Starts <- Everywhere
CHECK_DEADLOCK FALSE
INVARIANTS QuestionBudget
 
