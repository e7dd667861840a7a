\* One document, which shares the task's directory.
SPECIFICATION Spec
CONSTANTS
  Files = {d1}
  FileWorkers = 1
  Full = 2
INVARIANT FullWhenNotRunning
