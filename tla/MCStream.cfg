SPECIFICATION StreamSpec
CONSTANTS
  c1 = c1
  i1 = i1
  i2 = i2
  l1 = l1
  l2 = l2
  l3 = l3
  l4 = l4
  m = m
  t = t
  j0 = j0
  j1 = j1
  j2 = j2
  r1 = r1
  r2 = r2
  s1 = s1
  s2 = s2
  kTopic = kTopic
  kMember = kMember
  NoKey = NoKey
  None = None
  Keys = {kTopic, kMember}
  MemberKeys = {kMember}
  Rooms = {r1, r2}
  Stripes = {s1, s2}
  KeyOf <- RowOf
  StripeOf <- OwnStripe
  Ingests = {i1, i2}
  Locals = {l1, l2, l3, l4}
  Clients = {c1}
  Events = {j0, j1, j2, m, t}
  EventOf <- Deliveries
  RoomOf <- TwoRooms
  Faults = {"commit"}
  MaxOrderings = 3
  MaxSurfaces = 1
  MaxRestarts = 1
INVARIANT StreamIsSound
PROPERTIES StreamMovesOn DeliveredInOrder
CHECK_DEADLOCK FALSE
