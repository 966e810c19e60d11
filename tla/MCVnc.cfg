\* Two sizes, so that pictures change theirs; two frames fit in the queue; inputs
\* enough for a key, a tap and the end of the key.  One tap begins a shortcut.
CONSTANTS
  Sizes = {s1, s2}
  FirstSize = s1
  NoFrame = NoFrame
  QueueLimit = 1
  Codes = {"Shift_L", "Level3", "A", "bar"}
  Symmap <- MCSymmap
  ModOf <- MCModOf
  Keys = {"1", "alt"}
  Alt = "alt"
  Shift = "shift"
  Digits = {"1"}
  Actions = {}
  Buttons = {"left"}
  Trigger = 1
  NoKey = NoKey
  Abilities <- MCAbilities
  Units = {1, 3}
  Budgets <- MCBudgets
CHECK_DEADLOCK FALSE
SPECIFICATION FairSpec
INVARIANTS
  Showable
  NoStuckKeys
PROPERTIES
  Served
