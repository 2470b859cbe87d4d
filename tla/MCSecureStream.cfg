SPECIFICATION SecureSpec
CONSTANTS
    c1 = c1  c2 = c2
    Conns = {c1, c2}
    NumRequests = 3
    End <- MCEnd
    AnsEnd <- MCAnsEnd
    Bad = {3}
    BufSize = 2
    MaxHandshakes = 2
    MaxAsked <- MCMaxAsked
CHECK_DEADLOCK FALSE
INVARIANTS FramingTypeOK AnswersWhole AnswersReadable
PROPERTIES ImplementsSecureChannel EveryRequestHanded
