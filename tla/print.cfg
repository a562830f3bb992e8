CONSTANTS
  Tickets = {1, 2}
  grill = grill
  bar = bar
  front = front
  Printers <- MCPrinters
  Tcp <- MCTcp
  PrinterOf <- MCPrinterOf
  FallbackOf <- MCFallbackOf
  Kds = {1}
  Concurrency = 2
  MaxClaims = 2
  MaxRetries = 1
  MaxFaults = 1
SPECIFICATION FairSpec
CHECK_DEADLOCK FALSE
INVARIANTS TypeOK NoUnreviewedCopy AcceptedIsSubmitted SerialLanes
PROPERTIES JobsEnd
