CONSTANTS
  Story = {s1, s2}
  Search = {q1, q2}
  MaxRetries = 1
  Budget <- MCBudget
  RetryAfter = {0, 400}
  None = None
SPECIFICATION Spec
INVARIANTS TypeOK IndexCoversTexts HolderIsCurrent NoteTellsAll RetriesInTurn
PROPERTIES SearchAnswers WaitsAreLearned
SYMMETRY Sym
CHECK_DEADLOCK FALSE
