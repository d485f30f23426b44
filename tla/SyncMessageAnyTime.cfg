SPECIFICATION Spec
CONSTANTS
    s1 = s1
    s2 = s2
    r1 = r1
    r2 = r2
    Main = Main
    NoReceiver = NoReceiver
    NoMessage = NoMessage
    Senders = {s1, s2}
    Receivers = {r1, r2}
    ReceiverOf <- MCReceiverOf
    Threads = {Main, w1}
    Messages = {m1, m2, m3}
    MaxSends = 2
    DrainBeforeDestroy = FALSE
SYMMETRY MessageSymmetry
INVARIANTS
    TypeOK
    OneOwner
    NoLeak
    ThreadOrder
PROPERTIES
    NoCallAfterUnregister
