SPECIFICATION Spec
CONSTANTS
  SockCap = 1
  Budget = 1
  Uses <- ReadAndWrite
INVARIANTS ReaderServed NoSpin NoSilentTruncation OutputServed
PROPERTIES CloseCompletes
\* A released connection does nothing more.
CHECK_DEADLOCK FALSE
