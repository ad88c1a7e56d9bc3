SPECIFICATION FairSpec
CONSTANTS
    MaxAddrs = 3
    NatTTimeout = 3
    BackoffExp = 1
    MaxAnswers = 2
    Frames <- MCFrames
    Garbage <- MCGarbage
    QueueSize = 2
    MaxFrame = 1
    MaxBlock = 2
    Compress = TRUE
    Blocks <- MCBlocks
    Messages <- MCMessages
    UdpFrames <- MCUdpFrames
    MaxSkipped = 2
    Servers <- MCServers
    GatewayOf <- MCGatewayOf
    DnsOf <- MCDnsOf
    NoAddr = "none"
    MaxRetries = 2
    DhcpTimeout = 1
    ArpPolls = 1
    ArpAttempts = 2
    MaxWire = 2
    MaxStray = 1
INVARIANTS
    DialOwnsItsSocket
    BothFamiliesDialled
    RendezvousSocketOwned
    RendezvousIsOurs
    LeaseIsBound
    GatewayMacIsGateways
PROPERTIES
    RingIsFifo
    
CHECK_DEADLOCK FALSE
