\* Two endpoints without end: payload, junk, pongs, silence and closes.
SPECIFICATION FairSpec
CONSTANTS
  URLs = 2
  IdleTimeout = 3
  PongWait = 5
  PingInterval = 2
  MaxConns = 1
INVARIANTS IdleIsReported OnlyQuietStreamsExpire
PROPERTIES QuietStreamsEnd EveryEndpointTried
