\* One image that can be uploaded and removed, one on a read-only partition.
CONSTANTS
  Images = {i1, i2}
  Adopted = {i2}
  Iso = {}
  Foreign = Foreign
  NoImage = NoImage
  NoVd = NoVd
  NoSet = NoSet
  MaxExt = 1
SPECIFICATION FairSpec
INVARIANTS
  IncompleteIsMarked
  OnlineIsReadable
PROPERTIES
  ImplementsDrive
  BusyIsReleased
  CatchesUp
