SPECIFICATION Spec
CONSTANTS
  MaxInt = 15
  MaxUInt = 31
  MaxInt64 = 511
  MaxUInt64 = 1023
  StackLimit = 3
  MaxIdLen = 8
  Read <- parseFromStream
  Write <- toStyledString
  UploadId <- U
  FileBytes <- Bytes
  SyncRequests <- SomeSyncs
  UploadRequests <- SomeUploads
  ClientRequests <- OfClient
  TornTasks <- Torn
  NoFile = NoFile
  Malformed = Malformed
  Idle = Idle
INVARIANTS TypeOK ReadsBack SameMeaning EndsInFile BytesKept ClientServed
PROPERTIES MalformedKept
