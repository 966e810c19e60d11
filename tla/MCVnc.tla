-------------------------------- MODULE MCVnc --------------------------------
(* A letter that is one key, with Shift, and a bar that is two keys; a client *)
(* that watches, and one that types.                                         *)
EXTENDS Vnc, TLC

MCModOf == [shift |-> "shift", Shift_L |-> "shift", Level3 |-> "altgr"]

MCSymmap ==
  [Shift_L |-> ({} :> "shift"), Level3 |-> ({} :> "altgr"), A |-> ({"shift"} :> "a"),
   bar |-> ({"shift"} :> "backslash" @@ {"altgr"} :> "less")]

MCAbilities == {[h264 |-> TRUE, resize |-> TRUE], [h264 |-> FALSE, resize |-> FALSE]}

Watching == [clients |-> 2, settings |-> 2, inputs |-> 0, watches |-> TRUE]
Typing == [clients |-> 1, settings |-> 1, inputs |-> 4, watches |-> FALSE]

MCBudgets == {Watching, Typing}

=============================================================================
