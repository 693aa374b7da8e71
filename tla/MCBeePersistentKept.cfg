SPECIFICATION Spec
CONSTANTS
    local = local
    remote = remote
    guest = guest
    admin = admin
    red = red
    blue = blue
    o1 = o1
    o2 = o2
    c1 = c1
    c2 = c2
    c3 = c3
    s1 = s1
    s2 = s2
    s3 = s3
    None = None
    Objects <- MCObjects
    Params <- MCParams
    Settings <- MCOn
    Conns <- MCConns
    Streams <- MCStreams
PROPERTY KeptBetweenSessions
CHECK_DEADLOCK FALSE
