\* A connection among others of its own and another address.
CONSTANTS
  Addresses = {here, there}
  Home = here
  max = 4
  per_address = 3
  header_timeout = 3
  FIRST_BYTES = 2
  PING_TIMEOUT = 1
  H2_STREAMS = 2
  AT_ONCE <- OneEach
SPECIFICATION AnswersFair
INVARIANTS GateExact PlacesExact
PROPERTIES NeverCutShort IdleEnds
