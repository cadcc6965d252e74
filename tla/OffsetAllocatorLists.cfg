CONSTANTS
  Size = 10
  MaxAllocs = 7
  NUM_TOP_BINS = 2
  RequestSizes = {2}
SPECIFICATION Spec
VIEW View
INVARIANT ReportFullExact
