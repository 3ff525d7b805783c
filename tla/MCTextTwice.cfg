\* Nothing fails and the setting stays; four chunks, of which two fit the buffer.
SPECIFICATION TextSpec
CONSTANTS
  MaxBuffered = 2
  MaxSaid = 4
  MaxFailedWrites = 0
  MaxSwitches = 0
INVARIANTS
  NothingIsSaidTwice
CHECK_DEADLOCK FALSE
