\* The server and one command at a time, two keys, two invites, two accounts.
CONSTANTS
  Server = server
  Operators = {operator}
  Commands = {"invite", "fingerprint", "new-key"}
  Configurations <- Small
  MaxKeys = 2
  MaxInvites = 2
  MaxAccounts = 2
SPECIFICATION Spec
INVARIANTS PinsHold OneKey InvitesAccountFor WayIn
PROPERTIES AccountsCapped
