SPECIFICATION FairSpec
CONSTANTS
  MaxConns = 2
  MaxMsgs = 3
  MAX_LENGTH = 3
  HEAD_ID_LEN = 1
  HEAD_DATA_LEN = 2
  MAX_SENDQUE = 1
  ID_TEST_MSG_REQ = 1
  ID_UPLOAD_FILE_REQ = 3
  ID_SYNC_FILE_REQ = 5
  Bodies <- SmallBodies
INVARIANTS TypeOK RequestsInOrder AnswersInOrder
PROPERTIES Answered
CHECK_DEADLOCK FALSE
