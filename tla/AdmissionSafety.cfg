\* Two slots, two places in the queue, five callers: the queue overflows, two
\* slots are handed over in either order, and callers race timer and cancel.
SPECIFICATION Spec
CONSTANTS
  Requests = {r1, r2, r3, r4, r5}
  MaxActive = 2
  MaxQueued = 2
SYMMETRY Symmetry
INVARIANTS FifoOrder AdmissionInv
PROPERTIES NoGrantWhileClosing ImplementsSlotService
