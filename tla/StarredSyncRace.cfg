CONSTANTS
  Story = {s1}
  Tag = {t1}
  NoCopy = NoCopy
  None = None
  Setting <- MCFull
  MaxChanges = 3
  MaxFaults = 0
SPECIFICATION Spec
INVARIANT JustFetchedIsCurrent
