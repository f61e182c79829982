CONSTANTS
  batch_size = 3
  Room = 3
  Size <- MCSize
  MaxPassiveFills = 2
  digest_interval = 2
  DigestDepth = 1
  RingCapacity = 2
  MaxOwned = 1
  FillBuffer = 1
  PassiveBuffer = 1
  max_order_quantity = 2
  max_notional = 6
  collar_bps = 5000
  max_open_orders = 2
  max_position = 2
  Symbols = {1}
  ReferencePrice = 2
  OrdersPerPass = 2
  QuantityRange = 4
  Setups <- MCSetups
SPECIFICATION Spec
INVARIANTS PositionWithinLimit RestingIsRemembered CleanMeansAgreed
PROPERTIES EveryOrderIsAnswered
