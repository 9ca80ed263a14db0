\* As MailboxTombstones, with a network that may lose the answer to a pull.
CONSTANTS
  Ids = {host}
  Manifests = {}
  Devices = {laptop, phone}
  Founders = {laptop, phone}
  ReadsManifests = {laptop}
  Writers = {laptop}
  Nobody = nobody
  Sizes = {1}
  Lengths = {1}
  Limits = {1}
  MAX_BATCH = 1
  MAX_BATCH_BYTES = 2
  MAX_BLOB_BYTES = 2
  Quotas <- AmpleQuotas
  Elsewhere = {0}
  ForeignCursors = {}
  AnswersLost = {"pulled"}
  Disturbances = {"season"}
  MaxSeq = 3
SPECIFICATION Spec
INVARIANTS NoGhosts
