CONSTANTS
  Story = {s1, s2}
  Tag = {t1}
  NoCopy = NoCopy
  None = None
  Setting <- MCFull
  MaxChanges = 2
  MaxFaults = 1
SPECIFICATION Spec
PROPERTY FullResyncResumes
