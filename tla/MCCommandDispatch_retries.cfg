SPECIFICATION FairSpec
CONSTANTS
    q1 = q1
    q2 = q2
    q3 = q3
    send = send
    stop = stop
    thread = thread
    User <- MCUser
    Key = {thread}
    KeyOf <- MCKeyOf
    Command <- MCCommand
    CommandOf <- MCCommandOf
    NoEntry = NoEntry
    NoUser = NoUser
    MaxFaults = 2
INVARIANTS OneInsidePerKey EntriesCountUsers AppliedAsReceipted PublishedOrCutOff
PROPERTIES KeepsDecisions EveryCallReturns
CHECK_DEADLOCK FALSE
