SPECIFICATION Spec
CONSTANTS
    s1 = s1
    s2 = s2
    c1 = c1
    call = call
    inner = inner
    async = async
    Servers = {s1, s2}
    Clients = {c1}
    Messages = {call, inner, async}
    From <- MCFrom
    To <- MCTo
    Sync = {call, inner}
    Flags = {f1, f2}
    None = None
    Notifiers = {c1}
    Notified = {s1}
    Stoppable = {s2}
    TwoCores = FALSE
INVARIANTS
    OneOwner
    NoLostWakeup
    EventsExact
PROPERTY
    Answered
