SPECIFICATION InventorySpec
CONSTANTS
  Capacity <- MCCapacity
  MaxStack <- MCMaxStack
  Weapons = {"gun"}
  Charged = {"kit"}
  HistoryLimit = 2
  MaxItems = 9
  MaxProps = 8
  MaxRequests = 3
  Magazine <- MCMagazine
  StockContents <- MCStock
  WorldContents <- MCWorld
  PageSize = 1
  BatchSize = 2
  MaxWire = 1
  Scenarios <- MCScenarios
INVARIANTS
  Conservation
  AnswersAgree
  MirrorAgrees
PROPERTIES
  RoundsKept
CHECK_DEADLOCK FALSE
