SPECIFICATION FairSpec
CONSTANTS
    c1 = c1
    c2 = c2
    Consoles <- TwoConsoles
    NoConsole = NoConsole
    NoPacket = NoPacket
    NoReport = NoReport
    DefaultGains <- ConfigGains
    Packets <- MixedPackets
    MailboxSize = 2
CHECK_DEADLOCK TRUE
INVARIANTS
    UsedGainsMeant
    LinkTypeOK
    UpdateInForce
PROPERTIES
    GainStoreSpec
    DatagramsHandled
    ClientInformed
