\* Two documents of no or three pages, in chunks of one, two chunks in flight, and a
\* cap that changes between one slot and two.
SPECIFICATION FairSpec
CONSTANTS
  Jobs = {d1, d2}
  PageCounts = {0, 3}
  Requested = 2
  Caps = {1, 2}
  SerialBelow = 2
  ChunkLimit = 1
  ChunksPerWorker = 1
  FileWorkers = 1
  Editions = {enterprise, finance}
  TimeoutIsBuiltin = TRUE
INVARIANTS SlotsConserved SlotCanCome PagesInOrder DeliveredIsWhole
PROPERTY ParseEnds
