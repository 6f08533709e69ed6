SPECIFICATION FairSpec
CONSTANTS
  NoToken = NoToken
  NoFingerprint = NoFingerprint
  NoClaim = NoClaim
  Leads = {l1}
  Claimants = {w1, w2}
  Fingerprints = {f1, f2, f3}
  Stamps <- MCStamps
  MaxGen = 3
INVARIANTS
  TypeOK
  NewestTouchWins
  TieIsUncertain
  CurrentFenceIsFresh
PROPERTIES
  FinishedStaysFinished
  ClaimsEnd
