SPECIFICATION Spec
CONSTANTS
    single = single
    group = group
    phone = phone
    gate1 = gate1
    gate2 = gate2
    Invites = {single, group}
    Group = {group}
    Residents = {phone}
    Gates = {gate1, gate2}
    MaxClock = 2
    MaxUntil = 2
    MaxEntries = 2
SYMMETRY Symmetry
INVARIANTS
    SingleEntryOnce
