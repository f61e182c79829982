CONSTANTS
  Ids <- MCIds
  Price <- MCPrice
  Quantity <- MCQuantity
  Confs <- MCConfs
  MinLevels = 2
  MinOrders = 2
SPECIFICATION Spec
INVARIANTS InvariantsHold BooksAgree RefusesOnlyWhatCannotFit
