SPECIFICATION Spec
CONSTANTS
  led = led
  key = key
  ir = ir
  Clients = {led, key, ir}
  Isr = {ir}
  Stale = {key}
  None = None
  N = 4
  MaxStarts = 1
INVARIANTS
  TypeOK
  TimerKept
  SlotFound
PROPERTIES
  NoFireAfterStop
  SlotReclaimed
VIEW MCView
