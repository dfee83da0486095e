SPECIFICATION Spec
CONSTANTS
  Port = {p1, p2}
  NoPort = NoPort
INVARIANT EverySessionAnnounced
