SPECIFICATION Spec
CONSTANTS
  Order = 31607
  Bits = 6
  Requests <- MCRequests
  Accepts <- MCAccepts
  LivesOn <- MCLivesOn
  Htlcs <- MCHtlcs
  MaxHtlcs = 0
  MaxRotations = 0
  RevokesFirst = {FALSE}
INVARIANT SecondPointIsProvided
CHECK_DEADLOCK FALSE
