\* The windows and sleeps of the program, in ticks of 250 ms.
CONSTANTS
  Node = {n1, n2}
  RETRY_NUM = 5
  TIMEOUT_PERIODS = 8
  TIMESEND_PING = 2
  Punctual = {n1}
  RoundTrip = 1
  MaxPongs = 4
SPECIFICATION Spec
INVARIANTS
  PunctualNeverSuspected
