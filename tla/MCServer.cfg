SPECIFICATION MCSpec
CONSTANTS
  Context = {c1, c2}
  Client = {k1, k2, k3}
PROPERTIES
  QueuedGetSessions
