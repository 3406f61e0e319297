\* A one-off, a routine made meanwhile, and a delete of the project.
CONSTANTS
  r1 = r1
  r2 = r2
  s1 = s1
  s2 = s2
  s3 = s3
  Routines = {r1, r2}
  Slugs = {s1, s2}
  FirstSlug <- Made
  FirstAt <- At
  Clean = {r1}
  Later = {r2}
  Deleters = {d1}
  MaxTime = 2
  MaxChanges = 2
  MaxStops = 1
SPECIFICATION FairSpec
INVARIANTS RowsTellTrue
PROPERTIES MomentRunsOnce NewMomentStands FolderSparesRuns MomentsCome
CHECK_DEADLOCK FALSE
