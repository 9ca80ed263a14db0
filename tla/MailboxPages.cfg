\* A writer and a reader, a record and a manifest, pages cut by number and by size.
CONSTANTS
  Ids = {host, manifest}
  Manifests = {manifest}
  Devices = {laptop, phone}
  Founders = {laptop, phone}
  ReadsManifests = {laptop}
  Writers = {laptop}
  Nobody = nobody
  Sizes = {1, 2}
  Lengths = {1}
  Limits = {0, 3}
  MAX_BATCH = 2
  MAX_BATCH_BYTES = 3
  MAX_BLOB_BYTES = 2
  Quotas <- AmpleQuotas
  Elsewhere = {0}
  ForeignCursors = {}
  AnswersLost = {"pushed"}
  Disturbances = {"restart"}
  MaxSeq = 2
SPECIFICATION FairSpec
INVARIANTS NothingSkipped
PROPERTIES HasMoreIsHonest EverythingIsRead
