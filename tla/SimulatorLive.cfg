SPECIFICATION FairSpec
CONSTANTS
  NUM_PORTS = 2
  NoFrame = NoFrame
  Malformed = Malformed
  Forwardings <- NoneOrAll
  Page = {p1, p2}
  STEPS = 2
  MaxClicks = 1
  MaxScripts = 1
  MaxStops = 1
PROPERTIES SupersededStops FramesArrive EveryWaitEnds
CHECK_DEADLOCK FALSE
