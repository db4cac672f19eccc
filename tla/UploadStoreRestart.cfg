SPECIFICATION Spec
CONSTANTS
  w1 = w1  w2 = w2  u1 = u1  a = a  b = b
  Workers = {w1}
  NoWorker = NoWorker
  Uploads = {u1}
  Names = {a}
  Size <- SizeThree
  Chunk = 2
  MaxOffset = 3
  Faults = {"crash"}
  MaxFaults = 1
PROPERTIES ConflictIsReal
