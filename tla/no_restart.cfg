SPECIFICATION DSpec
CONSTANTS
  Port = {p1}
  NoPort = NoPort
  Job = {j1}
PROPERTY RestartsOnFailure
