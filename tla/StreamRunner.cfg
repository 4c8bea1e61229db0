SPECIFICATION FairSpec
CONSTANTS
  BeatEvery = 2
  RenewEvery = 2
  Burst = 2
  MaxDeaths = 1
INVARIANTS
  TypeOK
  OneConnection
PROPERTIES
  MarketMovesWithConnection
  StreamsAgain
  FollowsClosing
  KeepsBeating
