SPECIFICATION Spec

CONSTANTS
    policies_rpc = policies_rpc
    set_rpc = set_rpc
    overruled_rpc = overruled_rpc
    policies = policies
    settings = settings
    c1 = c1
    NoObject = NoObject
    Object = {policies_rpc, set_rpc, overruled_rpc}
    Key = {policies, settings}
    Connection = {c1}
    MaxRequests = 2
    KeyOf <- MCKeyOf
    Inner <- MCInner
    Requests <- MCRequests

INVARIANTS
    TypeOK
    ServesLatest
    CalledAlive
    RepliesInOrder

PROPERTY
    Answered
