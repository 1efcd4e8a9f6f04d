SPECIFICATION Spec
CONSTANTS
  Addons = {"a", "b"}
  Types <- MCTypes
  Schemas <- MCSchemas
  NoDef = NoDef
INVARIANTS TypeOK ServedIsAccounted DisabledIsGone RouteMeansConnected ConnectedIsServed
PROPERTIES FailedConnectPreserves
