SPECIFICATION FairSpec
CONSTANTS
  Robots = {r1}
  NoRobot = NoRobot
  MaxConns = 2
  MaxUplink = 1
  MaxDispatches = 2
  Messages <- Names
  Body <- Bodies
  MaxFrameLen = 2
INVARIANTS
  TypeOK
  EntryIsServed
  InOrderAndOnce
PROPERTIES
  ConnectionEnds
  NothingLost
  ChannelDrains
CHECK_DEADLOCK FALSE
