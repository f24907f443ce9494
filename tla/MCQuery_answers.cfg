\* query() and history() over the layers, budgets and stores of McSetups.
SPECIFICATION Spec
CONSTANTS
  Keys = {k1, k2}
  States = {"a", "b"}
  Initial = "a"
  Tick = 1000
  None = None
  Unset = Unset
  Setups <- McSetups
INVARIANTS
  CommitsAreKept
  CompleteAnswersMissNothing
  AnswersWereTrue
  HistorySeesRefusals
  HistoryIsHonest
SYMMETRY Symmetry
