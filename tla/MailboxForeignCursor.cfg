\* As MailboxTombstones, with a device that arrives with a cursor from another server.
CONSTANTS
  Ids = {host}
  Manifests = {}
  Devices = {laptop, phone}
  Founders = {laptop}
  ReadsManifests = {laptop}
  Writers = {laptop, phone}
  Nobody = nobody
  Sizes = {1}
  Lengths = {1}
  Limits = {1}
  MAX_BATCH = 1
  MAX_BATCH_BYTES = 2
  MAX_BLOB_BYTES = 2
  Quotas <- AmpleQuotas
  Elsewhere = {0}
  ForeignCursors = {7}
  AnswersLost = {"pushed"}
  Disturbances = {"season"}
  MaxSeq = 3
SPECIFICATION Spec
PROPERTIES ForgottenOnlyOnceRead
