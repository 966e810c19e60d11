\* One image; the gadget function may be unlinked and linked again.
CONSTANTS
  Images = {i1}
  Adopted = {i1}
  Iso = {}
  Foreign = Foreign
  NoImage = NoImage
  NoVd = NoVd
  NoSet = NoSet
  MaxExt = 2
  NoState = NoState
SPECIFICATION PollSpec
INVARIANT
  PollerSurvives
