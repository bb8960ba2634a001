\* Two rows in chunks of one.
SPECIFICATION Spec
CONSTANTS
  Batch = 1
  MaxRows = 2
INVARIANT
  AllRowsWritten
