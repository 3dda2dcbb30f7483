SPECIFICATION Spec
CONSTANTS
  Modes = {"phantom"}
  OfferPairs <- MCPairs
  HeaderBytes = 1
  MaxEnvelope = 20
  MaxPadding = 4
  ReplayReach = 2
  MaxSequence = 3
  base_tiers <- MCTiers
  JitterBound <- MCJitter
  MaxCoverFrame = 10
  Offers <- MCOffers
  Transcript = "session"
  Overhead = 1
  Payloads = {2, 4}
  CarrierLimits = {5, 7}
  CipherReach = 2
  MaxCovers = 2
  Profiles <- MCProfiles
  MaxTime = 2
  StreamLimit = 7
  PhantomCipherReach = 3
  PrefixBytes = 2
  BodyBytes <- MCBodies
  MaxInvalid = 2
  MaxDatagrams = 3
  Header = 1
  Prefix = 1
  Mtus = {6, 9}
  MessageSizes = {1, 3}
  MaxMessages = 3
  MaxWait = 2
  SizeClasses = {5, 8}
  Thresholds <- MCThresholds
  BurstGap = 1
  BurstLength = 3
  Dwell = 2
  QueueLimit = 2
  WorkloadSizes = {1, 12}
  DensityPercent = 60
  SustainedSize = 2
  SustainedGap = 2
  HistoryCapacity = 4
  Confirmations = 2
  Slots = 2
  Budget = 2
  Delays = {0, 3}
  MaxMessagesSent = 4
  MaxCalls = 3
  MaxObservations = 5
  EndOfTime = 4
  QUIC_HANDSHAKE_ATTEMPTS = 2
  MAX_QUIC_INVALID_DATAGRAMS = 2
INVARIANT StreamIsReliable
CHECK_DEADLOCK FALSE
