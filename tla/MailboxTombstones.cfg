\* One record, two devices: created, edited, deleted, purged, written again.
CONSTANTS
  Ids = {host}
  Manifests = {}
  Devices = {laptop, phone}
  Founders = {laptop}
  ReadsManifests = {laptop}
  Writers = {laptop, phone}
  Nobody = nobody
  Sizes = {1}
  Lengths = {1}
  Limits = {1}
  MAX_BATCH = 1
  MAX_BATCH_BYTES = 2
  MAX_BLOB_BYTES = 2
  Quotas <- AmpleQuotas
  Elsewhere = {0}
  ForeignCursors = {}
  AnswersLost = {"pushed"}
  Disturbances = {"season", "restart", "revoke"}
  MaxSeq = 3
SPECIFICATION Spec
INVARIANTS NoGhosts
PROPERTIES ForgottenOnlyOnceRead NoLostUpdate
