SPECIFICATION Spec
CONSTANTS
  w1 = w1  w2 = w2  u1 = u1  a = a  b = b
  Workers = {w1, w2}
  NoWorker = NoWorker
  Uploads = {u1}
  Names = {a, b}
  Size <- SizeThree
  Chunk = 2
  MaxOffset = 3
  Faults = {"mkdir", "open", "read", "stat", "append", "rename", "metaTear", "crash"}
  MaxFaults = 2
SYMMETRY Symmetric
INVARIANTS TypeOK PartIsPrefix FinalIsWhole AckBacked OneOwner CompletedIsPublished
PROPERTIES TaskSpec ConflictExplained
