SPECIFICATION Spec
CONSTANTS
  A = A
  B = B
  b = b
  X = X
  s1 = s1
  s2 = s2
  home = home
  work = work
  other = other
  r1 = r1
  r2 = r2
  d1 = d1
  d2 = d2
  None = None
  Story = {s1, s2}
  Feed = {f}
  Folder = {d1, d2}
  Account <- MCAccount
  Place = {home, work}
  Request = {r1, r2}
  Malformed = {X}
  Tag = {A, B, b, X}
  SameName <- MCSameName
  AppTags <- MCAppTags
  Name <- MCName
  AppPaths <- MCAppPaths
  Op <- MCOp
  FeedOf <- MCFeedOf
  StoryTags <- MCStoryTags
  Age <- MCAge
  Undated = 99999
  External = External
  EmptyTag = X
  Container <- MCContainer
  Filter <- MCFilter
  MaxChanges = 2
  MaxFaults = 1
CONSTRAINT Related
INVARIANTS TypeOK CacheFollowsAccount CountsAreListings
PROPERTIES TagsLostOnlyOnRequest AnswerIsTrue NoSilentMerge ListingsFollowAccount
