CONSTANTS
  batch_size = 3
  Room = 3
  Size <- MCSize
  FragmentRoom = 1
  MaxPassiveFills = 2
  digest_interval = 2
  DigestDepth = 1
  ReferencePrice = 2
  target_depth = 2
  price_spread_ticks = 1
  Reach = {1}
  Setups <- MCSetups
SPECIFICATION Spec
INVARIANTS CheckpointsAgree RebuildsExactly LossIsPredicted LiveIsGeneratorsOwn
PROPERTIES OnlyAmendCrosses
