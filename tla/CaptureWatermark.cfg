CONSTANTS
  s1 = s1
  s2 = s2
  f1 = f1
  f2 = f2
  None = None
  Story = {s1, s2}
  Format = {f1, f2}
  Date <- MCDate
  Linkless = {}
  Bad <- MCBad
  FetchFormats = {f1, f2}
  ManualFormats = {f2}
  MaxNow = 1
  MaxFaults = 0
SPECIFICATION Spec
PROPERTY WatermarkSetOnce
