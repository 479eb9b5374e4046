CONSTANTS
  podnet = podnet
  c1 = c1
  c2 = c2
  t1 = t1
  t2 = t2
  t3 = t3
  eth0 = eth0
  h1 = h1
  h2 = h2
  http = http
  Networks = {podnet}
  Loopback = Loopback
  AnyIp = AnyIp
  Ports = {http}
  IfNames = {eth0}
  Definitions <- MCDefinitions
  SubnetOfName <- MCSubnetOfName
  SubnetOfIp <- MCSubnetOfIp
  Requests <- MCRequests
  NoNet = NoNet
  Free = Free
  NoPid = NoPid
  NoReg = NoReg
  Shared = Shared
  NoMapping = NoMapping
  Hosts = {h1}
  PodInterface = eth0
  PodNetwork = podnet
  MaxBinds = 1
  Containers = {c1,c2}
  Pids = {t1,t2,t3}
  PodOf <- ThreeTracers
  PodRules <- SameHostPort
  CliRules = {}
  MayKill = FALSE
  IPs = {1, 2, 3}
  CliNetworks = {}
SPECIFICATION ServiceSpec
INVARIANTS
  ServiceTypeOK
  PortsOfLivePids
  NothingLeft
CHECK_DEADLOCK FALSE
