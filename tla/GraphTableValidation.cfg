CONSTANTS
  Inputs = {in1, in2}
  MetaAddresses = {m1, m2, m3}
  Extents = {1, 2}
  MaxEntries = 2
  MaxObjects = 3
SPECIFICATION TableSpec
INVARIANT WrongReplaysAreDiscarded
