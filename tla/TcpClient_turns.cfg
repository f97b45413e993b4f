SPECIFICATION FairSpec
CONSTANT MaxFd = 2
INVARIANTS TcpTypeOK OneClientInTurn SharedIsClient TcpIsWatched
PROPERTIES BusyEnds OthersKeepTheirSockets
