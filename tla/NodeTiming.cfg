\* One punctual client and two that are not; two pongs queued and the answer.
CONSTANTS
  Node = {n1, n2, n3}
  RETRY_NUM = 1
  TIMEOUT_PERIODS = 3
  TIMESEND_PING = 1
  Punctual = {n1}
  RoundTrip = 1
  MaxPongs = 2
SPECIFICATION Spec
INVARIANTS
  TypeOK
  DeliveryBounded
PROPERTIES
  PunctualLostOnlyToBacklog
