\* A scenario of two statements, two commits on other connections.
SPECIFICATION Spec
CONSTANTS
  Tables <- MCTables
  LargeTables = {"log"}
  Keys = {1, 2}
  Values = {"one", "two"}
  NoRow = "none"
  Unwritten = "unwritten"
  NoSnapshot = NoSnapshot
  NoStatement = NoStatement
  Databases <- MCDatabases
  ScriptChecks <- MCScriptChecks
  MaxStatements = 2
  MaxCommits = 2
INVARIANTS
  TypeOK
  ChangesAreTheScenarios
  LeftoversPrecedeSnapshot
CHECK_DEADLOCK FALSE
