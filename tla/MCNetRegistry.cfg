CONSTANTS
  front = front
  back = back
  c1 = c1
  c2 = c2
  p1 = p1
  eth0 = eth0
  eth1 = eth1
  Networks = {front, back}
  Containers = {c1, c2}
  Pids = {p1}
  IPs = {1, 2, 3}
  Loopback = Loopback
  AnyIp = AnyIp
  Ports = {http}
  IfNames = {eth0, eth1}
  Definitions <- MCDefinitions
  SubnetOfName <- MCSubnetOfName
  SubnetOfIp <- MCSubnetOfIp
  Requests <- TwoNetworkRequests
  NoNet = NoNet
  Free = Free
  NoPid = NoPid
  NoReg = NoReg
  Shared = Shared
SPECIFICATION Spec
SYMMETRY Symmetry
INVARIANTS
  TypeOK
  AddressHeldOnce
  RouteReachesHolder
PROPERTIES
  LeaseKeepsAddresses
  FreshNetworkIsEmpty
CHECK_DEADLOCK FALSE
