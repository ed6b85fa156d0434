SPECIFICATION Spec
CONSTANTS
    Devices = {d1, d2}
    l1 = l1
    l2 = l2
    l3 = l3
    Landscapes = {l1, l2, l3}
    Order <- MCOrder
    Latencies = {0, 1}
    Absent = Absent
    MaxChanges = 2
    MaxFaults = 1
INVARIANTS
    PicksTheNearest
PROPERTIES
    MovesOnlyInARace
    DevicesAgree
