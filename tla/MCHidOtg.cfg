\* One slot, so that a second key finds none; two keys and a modifier; two mice.
CONSTANTS
  Keyboard = keyboard
  mouse = mouse
  alt = alt
  Modes <- MCModes
  FirstMode = "usb"
  Mouse <- MCMouse
  Keys = {k1, k2, shift}
  Mods = {shift}
  Buttons = {b}
  Slots = 1
  WriteRetries = 1
  MaxCalls = 2
  MaxChanges = 1
CHECK_DEADLOCK FALSE
SPECIFICATION FairSpec
INVARIANTS
  HostFollows
PROPERTIES
  Settles
