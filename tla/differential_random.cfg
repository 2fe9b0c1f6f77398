\* As differential, with random primary keys: one case the PR does not change.
SPECIFICATION FairSpec
CONSTANTS
  Product = Product
  Order = Order
  Line = Line
  stock = stock
  reference = reference
  saved = saved
  order = order
  product = product
  NoTable = NoTable
  NoField = NoField
  Gone = Gone
  Tables <- MCTables
  Fields <- MCFields
  FieldsOf <- MCFieldsOf
  Volatile <- MCVolatile
  Target <- MCTarget
  Texts = {"", "one", "two", "line"}
  Blank = ""
  Errors = {"ImportError", "AttributeError", "IntegrityError"}
  MissingErrors = {"ImportError"}
  NoError = "none"
  MaxNew = 2
  MaxKnown = 2
  Worlds <- MCWorlds
  Database <- MCDatabase
  Supplies <- MCSupplies
  Scenarios <- MCScenarios
  Predictions <- MCPredictions
  MaxMoves = 2
INVARIANTS
  SameBehaviourIsNotConfirmed
CHECK_DEADLOCK FALSE
