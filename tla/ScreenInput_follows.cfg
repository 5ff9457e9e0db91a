CONSTANTS
  shift = shift
  Modifiers <- Toolbar
  DoubleTap = 1
  TapMax = 2
  LongPress = 3
  MaxWire = 2
  MaxFaults = 1
SPECIFICATION Spec
INVARIANT ButtonFollows
INVARIANT NoScrollWhileHeld
INVARIANT KeysAsShown
