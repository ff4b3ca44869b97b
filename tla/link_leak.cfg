SPECIFICATION Spec
CONSTANTS
  coord = coord
  flow = flow
  poll = poll
  user = user
  setup = setup
  None = None
  Clients = {coord, flow}
  Persistent = {coord}
  HoldForever = {}
  Tasks = {poll, user, setup}
  ClientOf <- Owners
  MaxAttempts = 2
  LateConnects = {coord}
  MaxLinks = 3
  MaxCalls = 3
INVARIANT LinkIsOwned
