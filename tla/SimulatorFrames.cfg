SPECIFICATION Spec
CONSTANTS
  NUM_PORTS = 2
  NoFrame = NoFrame
  Malformed = Malformed
  Forwardings <- SomePorts
  Page = {p1, p2}
  STEPS = 2
  MaxClicks = 2
  MaxScripts = 1
  MaxStops = 0
SYMMETRY Pages
INVARIANTS WireIsFifo DeliveryIsFifo OneFramePerStep RecvBacklog OnePageTicks
CHECK_DEADLOCK FALSE
