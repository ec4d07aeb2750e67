\* One window is enough: setting a window again is a change of window.
SPECIFICATION FairSpec
CONSTANTS
  Windows = {w1}
  NULL = NULL
INVARIANT SnapshotAlone
PROPERTIES CallsReturn PreviewStarts
\* The service may stop calling, after release it must, and release may hang.
CHECK_DEADLOCK FALSE
