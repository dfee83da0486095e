SPECIFICATION Spec
CONSTANTS
  j1 = j1
  r1 = r1
  j2 = j2
  r2 = r2
  m = m
  jx = jx
  rx = rx
  mx = mx
  Job = {j1, r1, j2, r2}
  Basename = {"X", "M"}
  Asset = {jx, rx, mx}
  NoAsset = NoAsset
  Barrier = Barrier
  Base <- MCBase
  Kind <- MCKind
  Sha <- MCSha
  ChannelCapacity = 1
  UploadMaxAttempts = 1
  StackEnabled = TRUE
  CardRepeats = FALSE
INVARIANTS
  NothingPendingWhenAnswered
  TableHoldsHalfPairs
  StacksPairNamesakes
  OneTaskPerJpeg
  StackedOnce
  EveryPairHandedOnce
  IdsAreStored
