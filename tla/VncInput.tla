------------------------------- MODULE VncInput -------------------------------
(***************************************************************************)
(* Keys and buttons of a client of kvmd-vnc on their way to KVMD: the      *)
(* choice of a key for a code (kvmd/apps/vnc/rfb), the shortcuts that      *)
(* begin with taps of Alt (kvmd/keyboard/magic.py) and the websocket,      *)
(* without which events are lost.  Moves and the wheel are left out, and   *)
(* so is which port a shortcut chooses.                                    *)
(***************************************************************************)
EXTENDS Integers, Sequences

CONSTANTS
  Codes,    \* X11 codes
  Symmap,   \* for each code, its key for some sets of modifiers
  ModOf,    \* the modifier of those codes and keys that are one
  Keys,     \* a client with extended events tells of
  Alt,      \* __MAGIC_KEY
  Shift,    \* EvdevModifiers.SHIFT_LEFT
  Digits,   \* keys of ports
  Actions,  \* the other keys of shortcuts
  Buttons,
  Trigger,  \* __MAGIC_TRIGGER, two taps
  NoKey

ASSUME TriggerAssumption == Trigger \in Nat \ {0}

\* Codes are numbers, keys and buttons have names of their own.
ASSUME NamesAssumption ==
  /\ Codes \cap (Keys \cup Buttons) = {} /\ Keys \cap Buttons = {}
  /\ NoKey \notin Keys \cup Buttons \cup {Shift} /\ Shift \notin Buttons
  /\ \A c \in Codes : \A ms \in DOMAIN Symmap[c] : Symmap[c][ms] \notin Buttons

VARIABLES
  mods,     \* __mods
  buttons,  \* __mouse_buttons
  magic,    \* the taps of a shortcut and the number of its digits
  units,    \* __info_switch_units
  down,     \* what the client holds down
  ws,       \* __kvmd_ws, the websocket, is open
  held      \* what KVMD has been told is down

inputVars == <<mods, buttons, magic, units, down, ws, held>>

NoMagic == [taps |-> 0, digits |-> 0]

\* Without a websocket there is nobody to tell.
Tell(s, key, state) ==
  IF ~ws THEN s ELSE IF state THEN s \cup {key} ELSE s \ {key}

-----------------------------------------------------------------------------
(* handle_key() on the state of the shortcut and what is held *)

IsShortcut(m, key) == m.taps >= Trigger /\ key \in Actions \cup Digits

\* __on_magic_switch_port() waits for a second digit when there are many units.
Complete(m, key) == key \in Actions \/ units <= 2 \/ m.digits > 0

\* A shortcut takes the end of a key for its beginning.
Handle_Both(s, key, state) ==
  LET proxy == [s EXCEPT !.held = Tell(@, key, state)]
  IN  IF key = Alt
        THEN IF state \/ s.magic.taps = Trigger THEN proxy ELSE [proxy EXCEPT !.magic.taps = @ + 1]
      ELSE IF ~IsShortcut(s.magic, key) THEN [proxy EXCEPT !.magic = NoMagic]
      ELSE [s EXCEPT !.magic = IF Complete(@, key) THEN NoMagic ELSE [@ EXCEPT !.digits = 1]]

\* The end of the key of a shortcut is told of, its beginning is not.
Handle(s, key, state) ==
  LET proxy == [s EXCEPT !.held = Tell(@, key, state)]
  IN  IF key = Alt
        THEN IF state \/ s.magic.taps = Trigger THEN proxy ELSE [proxy EXCEPT !.magic.taps = @ + 1]
      ELSE IF ~state THEN proxy
      ELSE IF ~IsShortcut(s.magic, key) THEN [proxy EXCEPT !.magic = NoMagic]
      ELSE [s EXCEPT !.magic = IF Complete(@, key) THEN NoMagic ELSE [@ EXCEPT !.digits = 1]]

\* A shortcut expires two seconds after its last key.
Now == [magic : {magic, NoMagic}, held : {held}]

-----------------------------------------------------------------------------
(* Keys and buttons *)

Switched(ms, key, state) ==
  IF key \notin DOMAIN ModOf THEN ms
  ELSE IF state THEN ms \cup {ModOf[key]} ELSE ms \ {ModOf[key]}

Variant(code, ms) == IF ms \in DOMAIN Symmap[code] THEN Symmap[code][ms] ELSE NoKey

\* The key of the modifiers or of none.
Direct(code, ms) ==
  IF Variant(code, ms) # NoKey /\ code \notin DOMAIN ModOf THEN Variant(code, ms)
  ELSE Variant(code, {})

\* A key with Shift for a client that does not tell of Shift.
NeedsShift(code, ms) ==
  /\ code \notin DOMAIN ModOf
  /\ Direct(code, ms) = NoKey /\ ms = {} /\ {"shift"} \in DOMAIN Symmap[code]

KeyOf(code, ms) == IF NeedsShift(code, ms) THEN Symmap[code][{"shift"}] ELSE Direct(code, ms)

Becomes(s) == magic' = s.magic /\ held' = s.held

Holds(what, state) == down' = IF state THEN down \cup {what} ELSE down \ {what}

\* __handle_key_event()
KeyEvent(code, state) ==
  /\ state \/ code \in down
  /\ Holds(code, state)
  /\ mods' = Switched(mods, code, state)
  /\ LET key == KeyOf(code, mods')
     IN  \E s \in Now :
           IF key = NoKey THEN Becomes([s EXCEPT !.magic = magic])
           ELSE IF NeedsShift(code, mods')
             THEN Becomes(Handle(Handle(Handle(s, Shift, TRUE), key, state), Shift, FALSE))
           ELSE Becomes(Handle(s, key, state))
  /\ UNCHANGED <<buttons, units, ws>>

\* __handle_qemu_event()
QemuEvent(key, state) ==
  /\ state \/ key \in down
  /\ Holds(key, state)
  /\ mods' = Switched(mods, key, state)
  /\ \E s \in Now : Becomes(Handle(s, key, state))
  /\ UNCHANGED <<buttons, units, ws>>

\* __handle_pointer_event(), which remembers what it has told or tried to.
PointerEvent(button, state) ==
  /\ Holds(button, state)
  /\ buttons' = IF state THEN buttons \cup {button} ELSE buttons \ {button}
  /\ held' = IF (button \in buttons) # state THEN Tell(held, button, state) ELSE held
  /\ UNCHANGED <<mods, magic, units, ws>>

\* __process_ws_event()
SwitchEvent(n) ==
  /\ ws /\ units' = n /\ units # n
  /\ UNCHANGED <<mods, buttons, magic, down, ws, held>>

-----------------------------------------------------------------------------

InputInit ==
  /\ mods = {} /\ buttons = {} /\ magic = NoMagic /\ units = 0
  /\ down = {} /\ ws = FALSE /\ held = {}

\* KVMD still has the old websocket and what came by it.
NextInput ==
  /\ mods' = {} /\ buttons' = {} /\ magic' = NoMagic /\ units' = 0
  /\ down' = {} /\ ws' = FALSE
  /\ UNCHANGED held

Modifiers == {ModOf[c] : c \in DOMAIN ModOf}

\* A code that is the same key whatever the modifiers.
Fixed(code) == \A m1, m2 \in SUBSET Modifiers : KeyOf(code, m1) = KeyOf(code, m2)

\* Keys that may stay down because their code is another key, or none, when it is
\* let go under other modifiers.
Ambiguous ==
  {KeyOf(c, m) : c \in {c \in Codes : ~Fixed(c)}, m \in SUBSET Modifiers}

\* The keys that are down because of what the client holds.
Meant == UNION {IF x \in Codes THEN {KeyOf(x, {})} ELSE {x} : x \in down}

=============================================================================
