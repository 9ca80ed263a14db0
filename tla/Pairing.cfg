\* Sessions opened, used, closed and lost; two devices that want to be side b.
CONSTANTS
  Devices = {laptop}
  Joiners = {phone, tablet}
  Nobody = nobody
  Accounts = {home}
  AccountOf <- Together
  OPEN_PER_ACCOUNT = 1
  OPEN_AT_MOST = 2
  MAX_MESSAGES = 2
  Disturbances = {"loss", "expiry", "close", "revoke"}
  MaxOpened = 2
SPECIFICATION Spec
SYMMETRY Alike
INVARIANTS OnlyTheirSide InOrderOnce NoLostWakeup SessionsCapped
PROPERTIES NotLockedOut
