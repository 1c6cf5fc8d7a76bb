SPECIFICATION Spec
CONSTANTS
  Size = 4
  Bytes = {b1, b2}
  Zero = Zero
INVARIANTS
  TypeOK
  PopHasByte
PROPERTIES
  FifoSpec
  PoppedSlotStable
