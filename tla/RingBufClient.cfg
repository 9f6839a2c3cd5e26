\* The ring of three items of test/test_ring_buf.c, with three item values.
CONSTANTS
  NumItemMax = 3
  Item = {z, a, b}
  Zero = z
SPECIFICATION Spec
INVARIANTS
  TypeOK
  IndexesAgree
PROPERTY ImplementsFifo
