SPECIFICATION Spec
CONSTANTS
  c1 = c1
  c2 = c2
  c3 = c3
  Calls <- MCCalls
  MaxProcs = 3
  MaxRestarts = 2
  MaxEvents = 4
PROPERTY RecycledForItsOwn
