SPECIFICATION Spec
CONSTANTS
    o1 = o1
    o2 = o2
    o3 = o3
    Op = {o1, o2, o3}
    ann = ann
    eve = eve
    bob = bob
    Tab = {ann, eve, bob}
    Admin = {ann, eve}
    MaxSecret = 3
    MaxTime = 1
    Ttl = {0}
    Grace = 1
SYMMETRY Symmetry
INVARIANTS ShownKeysWork
CHECK_DEADLOCK FALSE
