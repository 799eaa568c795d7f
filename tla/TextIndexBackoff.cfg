CONSTANTS
  Story = {s1, s2}
  Search = {q1}
  MaxRetries = 1
  Budget <- MCBursts
  RetryAfter = {0, 400}
  None = None
SPECIFICATION Spec
INVARIANT LearnedFloor
CHECK_DEADLOCK FALSE
