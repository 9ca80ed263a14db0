\* One device against a quota, with blobs and batches on both sides of every limit.
CONSTANTS
  Ids = {host, manifest}
  Manifests = {manifest}
  Devices = {laptop}
  Founders = {laptop}
  ReadsManifests = {laptop}
  Writers = {laptop}
  Nobody = nobody
  Sizes = {1, 2, 3}
  Lengths = {1, 2}
  Limits = {1}
  MAX_BATCH = 2
  MAX_BATCH_BYTES = 3
  MAX_BLOB_BYTES = 2
  Quotas <- TightQuotas
  Elsewhere = {0, 1, 2}
  ForeignCursors = {}
  AnswersLost = {"pushed"}
  Disturbances = {"season", "restart", "revoke"}
  MaxSeq = 2
SPECIFICATION Spec
INVARIANTS CountsExact
PROPERTIES QuotaHeld KeepsRecordStore
