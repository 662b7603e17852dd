SPECIFICATION FairDocuments
CONSTANTS
  Docs <- MCDocs
  Batches = {b1, b2}
  Contents = {1, 2}
  File <- MCFiles
  Hint <- MCHints
  Serves <- MCServes
  Takes <- MCTakes
  FetchErrors = {"transient"}
  JobTimeout = 2
  BatchLimit = 2
  Backends = {"local", "s3"}
  OcrEnabled = FALSE
  OcrAvailable = FALSE
  MaxFaults = 1
  None = None
INVARIANT DocumentsTypeOK RecordsAgree DownloadedIsStored LocalWritesEnd
PROPERTY SettledStays 
CHECK_DEADLOCK FALSE
