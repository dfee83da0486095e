SPECIFICATION Spec
CONSTANTS
  a1 = a1
  b = b
  a2 = a2
  hidden = hidden
  note = note
  old = old
  phone = phone
  File = {a1, b, a2}
  Root = "/"
  Folder <- MCFolder
  Subfolders <- MCSubfolders
  Listing <- MCListing
  FirstCard <- MCFirstCard
  Name <- MCName
  TakenAt <- MCTakenAt
  Foreign <- MCForeign
  OfMake <- MCOfMake
  Seniority <- MCSeniority
  Drifts <- MCDrifts
  FirstLibrary <- MCFirstLibrary
  Round = 7
  TakenAtWindow = 3
  BackfillSlop = 1
  PageSize = 2
  MaxConsecutiveFailures = 2
INVARIANTS
  TypeOK
  CleanSessionLeavesNothing
  KnownIsItself
  SnapshotIsComplete
PROPERTY NothingDownloadedTwice
