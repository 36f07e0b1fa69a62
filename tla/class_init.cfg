SPECIFICATION FairSpec
CONSTANTS
    Threads = {th1, th2, th3}
    user = user
    used = used
    Classes = {user, used}
    Needs <- UserNeedsUsed
    NoThread = NoThread
    NoClass = NoClass
INVARIANTS TypeOK OneCctor ReadyOnReturn
PROPERTIES WaitEnds
