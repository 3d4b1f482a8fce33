CONSTANTS
    Lan <- MCLan
    Far <- MCFar
    Zero = "0"
    MacsOf <- MCMacsOf
    Bcast = "ff"
    NoMac = "-"
    Servers <- MCServers
    Lease <- MCLease
    Other <- MCOther
    Gateway <- MCGateway
    ARP_CACHE = 2
    PingTargets <- MCPingTargets
    Names <- MCNames
SPECIFICATION Spec
INVARIANTS  LeaseFits AnswersARequest
PROPERTY CallEnds
