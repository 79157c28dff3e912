\* All commands and configurations; every task may end by itself.
SPECIFICATION Spec
CONSTANT MaxEnded = 8
INVARIANTS
    JoinsTheNetworkWhole
    CommandsStayOffline
    RemoteKeystoreIsRefusedFirst
PROPERTIES
    ConsensusFailureStopsTheNode
    StartEnds
