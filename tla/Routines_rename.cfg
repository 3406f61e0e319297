\* A routine renamed while its project is being deleted.
CONSTANTS
  r1 = r1
  r2 = r2
  s1 = s1
  s2 = s2
  s3 = s3
  Routines = {r1, r2}
  Slugs = {s1, s2, s3}
  FirstSlug <- Made
  FirstAt <- At
  Clean = {r1}
  Later = {r2}
  Deleters = {d1}
  MaxTime = 2
  MaxChanges = 2
  MaxStops = 1
SPECIFICATION Spec
PROPERTIES HeldRunsNothing
CHECK_DEADLOCK FALSE
