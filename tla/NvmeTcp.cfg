SPECIFICATION TcpSpec
CONSTANTS
  MaxConn = 2
  TcpCid = {1, 2}
  TotalLpns = 2
  Starts = {0}
  Data = {d1}
  Zero = Zero
  MaxPages = 2
  Lengths = {2, 3}
  Counts = {1}
  Sizes = {2}
  MaxH2C = 1
  MaxInline = 2
  SmallHost = TRUE
  Ops = {"READ", "WRITE", "TRIM", "WRITE_ZEROES", "OTHER"}
INVARIANT ReadsComplete
PROPERTY WritesFaithful
PROPERTY AnsweredExactlyOnce
