SPECIFICATION Spec
CONSTANTS
  Channels <- MCChannels
  Others <- MCOthers
  Protocols <- MCProtocols
  Hosts <- MCHosts
  Ports <- MCPorts
  Keys <- MCKeys
  Values <- MCValues
  PortSize = 20
  IntMax = 99
  MaxParams = 3
  MaxRest = 5
INVARIANTS
  Reparsed
