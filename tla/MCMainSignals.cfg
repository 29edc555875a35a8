SPECIFICATION Spec
CONSTANTS
    t1 = t1
    t2 = t2
    p1 = p1
    Main = Main
    tick = tick
    net = net
    wallet = wallet
    Threads = {t1, t2}
    Adders = {p1}
    Timers = {tick}
    Delta <- MCDelta
    MaxTime = 1
    MaxCallbacks = 2
    Early = {net}
    Late = {wallet}
    HowToStop = {"interrupt", "drain"}
CHECK_DEADLOCK FALSE
INVARIANTS LeftClean SlotsAlive
PROPERTIES ImplementsQueue StopReturns
