SPECIFICATION FineSpec
CONSTANTS
  Provider = "XERO"
  Decrypts = FALSE
  Retries = 1
  Requests = {r1}
  Batch = 1
  MaxDocs = 1
PROPERTY SyncedIsPosted
CHECK_DEADLOCK FALSE
