\* 12 ticks of a clock that wraps at 16, with a timeout of 3: the last tick
\* before limit + timeout leaves the counter's range is included.
SPECIFICATION Spec
CONSTANTS
  Wrap = 16
  expectDownResponseTimeout = 3
  MaxUptime = 12
INVARIANTS
  TimeoutIsSilence
