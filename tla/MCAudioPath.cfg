\* Transfers of three frames, JACK periods of two that become one to three.
CONSTANTS
  Transfer = 3
  BufSize = 2
  Ring = 6
  MaxRead = 2
  Resampled = {1, 3}
SPECIFICATION FairSpec
INVARIANTS
  TypeOK
  NoFormerAudio
  FormerAudioBounded
  LatencyRange
PROPERTIES
  AudioReachesDevice
  AudioReachesHost
