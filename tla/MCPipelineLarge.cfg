SPECIFICATION Spec
CONSTANTS
  Sticks = {"small", "large"}
  Large = {"large"}
  Ports = {"disk2"}
  Media <- MCMedia
  MaxReplugs = 2
INVARIANT
  LargeDisksRefused
