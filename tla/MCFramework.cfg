SPECIFICATION Spec
CONSTANTS
  WaveFiles <- MCWaveFiles
  MAX_NUM_WAVEID = 3
  FOPEN_MAX = 3
  UlongRange = 64
  ReadSizes = {1, 3, 63}
  Offsets = {0, 1, 3, 4}
  MaxRefused = 3
INVARIANTS
  TypeOK
  HandlesBalanced
  OwnersKeepTheirFiles
  ReadsStayInData
  SlotsAccountedFor
