CONSTANTS
    Link = {l1, l2, l3}
    OpenChannel = {}
    SignedChannel = {mail}
    NoLink = NoLink
SPECIFICATION EchoSpec
INVARIANT ListenersCalledOnce
CHECK_DEADLOCK FALSE
