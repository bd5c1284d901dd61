\* Two uploads after one another, one IAP command failing.
SPECIFICATION FlashSpec
CONSTANTS
  IAPBUFLEN = 2
  SectorEnd <- MCSectorEnd
  Areas <- MCAreas
  MaxUploads = 2
  MaxBytes = 11
  MaxFaults = 1
CHECK_DEADLOCK FALSE
INVARIANT Stored
PROPERTY OthersKept
