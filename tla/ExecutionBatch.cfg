\* Three documents, two of them parsed at a time.
SPECIFICATION FairSpec
CONSTANTS
  Files = {d1, d2, d3}
  FileWorkers = 2
  Full = 2
INVARIANTS NoLostUpdate FinalManifestStays ListedAreStored
PROPERTIES ImplementsTaskReport TaskEnds
