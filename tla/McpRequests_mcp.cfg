CONSTANTS
  r1 = r1 r2 = r2 r3 = r3
  Request = {r1, r2, r3}
SPECIFICATION Spec
SYMMETRY RequestSymmetry
INVARIANTS PublishedPreviewIsCurrent ActiveRequestIsServed CancelledRequestChangedNothing StagedBatchStaysCurrent ConsumedPreviewsStayConsumed
CHECK_DEADLOCK FALSE
