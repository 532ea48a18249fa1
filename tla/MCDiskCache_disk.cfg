SPECIFICATION Spec
CONSTANTS
  HashNumbers = {k1, k2, k3}
  Entries = {e1, e2}
  BucketIndexes <- OneBucket
  GetBucketIndex <- AllInOne
  kRecordsPerBucket = 2
  kBitMapBytes = 1
  Ranks = {1, 2}
  DataSizes = {2}
  MetaSizes = {3}
  Targets = {5}
  Clients <- OneClientPerKey
SYMMETRY Alike
INVARIANT TypeOK StorageIsRight RecordsAreRight CleanIsComplete
PROPERTY ClosesComplete
VIEW WhatMatters
