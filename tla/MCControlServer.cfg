SPECIFICATION ControlSpec
CONSTANTS
  Descriptors <- ThreeDescriptors
  Ports <- AnyPort
  MaxConnections = 2
  MaxCommands = 1
  MaxStarts = 1
  MaxFiles = 1
CHECK_DEADLOCK FALSE
INVARIANTS OwnConnection NothingLeft
PROPERTY CallsReturn
