SPECIFICATION Spec
CONSTANTS
    c1 = c1
    c2 = c2
    Consoles <- TwoConsoles
    NoConsole = NoConsole
    NoPacket = NoPacket
    NoReport = NoReport
    DefaultGains <- ConfigGains
    Packets <- SpacedPackets
    MailboxSize = 2
CHECK_DEADLOCK TRUE
INVARIANTS
    ConsoleUpdatesApplied
