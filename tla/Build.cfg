SPECIFICATION FairSpec
CONSTANTS
  nodeA = nodeA  nodeB = nodeB  podA = podA  podB = podB
  svcWeb = svcWeb  svcApi = svcApi  svcInt = svcInt  subnetA = subnetA  subnetB = subnetB
  zoneA = zoneA  zoneB = zoneB  hostH = hostH  charA = charA  charB = charB
  None = None
  Node = {nodeA, nodeB}
  Labelled = {nodeA}
  Pod = {podA, podB}
  HostOf <- TheHosts
  Service = {svcWeb, svcApi, svcInt}
  TypeOf <- TheTypes
  PortsOf <- ThePorts
  PodPort <- ThePodPorts
  Subnet = {subnetA, subnetB}
  ZoneOf <- TheZones
  SubnetOf <- TheSubnets
  DefaultSubnet = subnetA
  Native = TRUE
  Character = {charA, charB}
  Host = {hostH}
  HostLen <- TheLengths
  Objects <- TheObjects
  Clusters <- TheClusters
  PinSubnet = subnetB
  NamedSubnets = {None, subnetB}
  MaxEdits = 1
  MaxFaults = 1
INVARIANTS PolicyOnBooks
PROPERTIES Admitted Routed Quiet
CHECK_DEADLOCK FALSE
