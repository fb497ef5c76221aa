CONSTANTS
    p1 = p1
    p2 = p2
    c1 = c1
    c2 = c2
    slow = slow
    Procs <- MCProcs
    Clients <- MCClients
    Loops <- MCLoops
SPECIFICATION Spec
INVARIANT OnlyStaleUnlinked
