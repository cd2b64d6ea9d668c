SPECIFICATION Spec
CONSTANTS
    ka = ka  kb = kb  kc = kc
    x = x  y = y
    a1 = a1  a2 = a2  a3 = a3  a4 = a4  b1 = b1  b2 = b2  c1 = c1
    Commands = {x, y}
    Jobs = {a1, a4, b1}
    CommandOf <- CommandOfJob
    NoCommand = NoCommand
    Keys = {ka, kb}
    NoKey = NoKey
    KeyOf <- KeyOfJob
    QueueTimeout <- Timeout2
    Mortal = {b1}
    Slots = 1
    Batch = 2
    MinRun = 2
    Linger = 1
    AbandonAfter = 1
    DefaultLoad = 1
    MaxExec = 2
    MaxSwap = 1
    WaitCap = 8
INVARIANT WorstCaseWait
PROPERTIES ServedBeforeUnload PumpLeavesNoWorkIdle AbandonedNeverRun
