\* More addresses than the table has room for, and a member among them, two requests at once.
CONSTANTS
  near = near
  nearby = nearby
  far = far
  here = here
  there = there
  Addresses = {near, nearby, far}
  Members = {laptop}
  Networks = {here, there}
  NetworkOf <- Map
  Everybody = everybody
  max = 2
  window = 2
  Coarsen = TRUE
  Forgives = TRUE
  MAX_ADDRESSES = 1
  MAX_NETWORKS = 1
  SWEEP_EVERY = 3
  SWEEP_WHEN_FULL = 1
  Workers = {w1, w2}
  MaxNow = 3
SPECIFICATION Spec
SYMMETRY Alike
INVARIANTS TableBounded TriesHeld
PROPERTIES RefusedForItsOwn
