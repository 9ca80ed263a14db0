\* Devices sign in, invite, join and revoke each other, with crashes and failures between statements.
CONSTANTS
  laptop = laptop
  phone = phone
  tablet = tablet
  Devices = {laptop, phone, tablet}
  Founders <- Alone
  Nobody = nobody
  Workers = {w1, w2}
  Passwords = {"old", "new"}
  Kinds = {"challenge", "invite", "enrol", "revoke", "change"}
  Disturbances = {"enrolments", "tokens", "challenges", "restart"}
  TOKENS_PER_DEVICE = 1
  CHALLENGES_PER_DEVICE = 1
  ENROLMENT_ATTEMPTS = 2
  MaxTokens = 3
  MaxChallenges = 1
  MaxEnrolments = 1
  MaxUnsettled = 1
SPECIFICATION Spec
SYMMETRY Interchangeable
INVARIANTS TablesAgree OneSignatureOneSession AccountReachable OneTokenOneDevice GuessesBounded
