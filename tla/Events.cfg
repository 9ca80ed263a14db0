\* One device with its sign-ins and its streams, pushes to hear of, and a command that revokes it.
CONSTANTS
  phone = phone
  Devices = {phone}
  Founders <- Alone
  Nobody = nobody
  Workers = {w1, w2}
  Passwords = {"old"}
  Kinds = {"challenge", "events"}
  Disturbances = {"tokens", "challenges", "restart"}
  TOKENS_PER_DEVICE = 2
  CHALLENGES_PER_DEVICE = 1
  ENROLMENT_ATTEMPTS = 2
  MaxTokens = 2
  MaxChallenges = 1
  MaxEnrolments = 0
  MaxUnsettled = 0
  MAX_STREAMS_PER_DEVICE = 2
  CHANNEL = 1
  OUTBOX = 1
  MaxPushes = 2
SPECIFICATION EventsFair
INVARIANTS StreamsCounted NobodyIsCutOff NewsOnItsWay
PROPERTIES RevokedIsOut
