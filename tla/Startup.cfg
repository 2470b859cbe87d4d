SPECIFICATION StartupSpec
CONSTANTS
    Fds = {f1, f2}
    MaxThreads = 2
    MaxConns = 3
    MaxRegister = 2
    MaxSignals = 2
    MaxFaults = 1
CHECK_DEADLOCK FALSE
INVARIANTS
    QuitHasCause OnlyEarlyClientsSuffer
    TableIsClientsOfPool ReadsItsOwnConnection
PROPERTIES SignalsEnd RegisteredIsServed
