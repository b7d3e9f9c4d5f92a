SPECIFICATION Spec
CONSTANTS
  b1 = b1
  b2 = b2
  k1 = k1
  k2 = k2
  k3 = k3
  Threads = {b1, b2}
  Keys = {k1, k2, k3}
  PollerOf <- Owners
  Window = 1
  Cap = 2
  First = b1
  NoFile = NoFile
  Setups <- KillingOnly
CHECK_DEADLOCK FALSE
INVARIANTS AnythingElseCancels
