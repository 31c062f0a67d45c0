SPECIFICATION FairSpec
CONSTANTS
  Deliveries = {d1, d2}
  NoDelivery = NoDelivery
  GiveUp = 3
  CheckLimit = 5
  MaxFaults = 2
INVARIANTS
  SuccessWasReceived
  LineIsOpen
PROPERTIES
  EveryDeliveryEnds
