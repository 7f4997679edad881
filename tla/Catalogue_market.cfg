SPECIFICATION CatalogueSpec
CONSTANTS
  Recipes = {q1}
  LabMethods <- MCLabMethods
  EnabledLabs = {"milling"}
  CsvFiles <- MCCsvFiles
  CsvVersions = {"v1", "v2"}
  RowsIn <- MCRowsIn
  Deployments = {{"market", "classes"}}
  MaxUploads = 1
  MaxCrashes = 1
  MaxFailures = 1
  Items = {"gold", "leaf", "pigment"}
  Gold = "gold"
  WowTokens = {}
  Reagents <- MCReagents
  Derivatives <- MCDerivatives
  VendorPriced = {"leaf"}
  OnAcquire = {"leaf"}
  Listings <- MCListings
  FirstItems <- MCFirstItems
  NULL = NULL
  Goods = {"herb", "ink", "card"}
  Offers <- MCOffers
  PrimaryRecipes <- MCPrimaryRecipes
  VendorPrice <- MCVendorPrice
  Runs = {x1, x2}
  MaxChanges = 1
  MaxLosses = 0
  PriceSamples <- MCSamples
  NiceSteps <- MCNiceSteps
  LogBinRatio = 50
  Blocks = 20
INVARIANT EveryMarketItemIsMarked
CHECK_DEADLOCK FALSE
