SPECIFICATION Spec
CONSTANTS
  Wrap = 16
  expectDownResponseTimeout = 3
  MaxUptime = 20
INVARIANT
  TimeoutIsSilence
