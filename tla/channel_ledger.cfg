SPECIFICATION Spec
CONSTANTS
  Order = 31607
  Bits = 6
  Requests <- MCRequests
  Accepts <- MCAccepts
  LivesOn <- MCLivesOn
  Htlcs <- MCHtlcs
  MaxHtlcs = 2
  MaxRotations = 12
  RevokesFirst = {TRUE, FALSE}
INVARIANTS
  MirroredCommitments
  FirstCommitmentsPay
  OutputsAreClaimable
  HeldSigIsValid
  RevokedIsPunishable
CHECK_DEADLOCK FALSE
