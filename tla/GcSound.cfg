SPECIFICATION Spec
CONSTANTS
    o1 = o1 o2 = o2 o3 = o3 o4 = o4 o5 = o5 v1 = v1
    NoObject = NoObject
    Objects <- FiveObjects
    Slots = 2
    May <- SharedCycles
    Statics <- OneStatic
    MaxHeld = 2
    Search <- FindCycle
INVARIANTS CountsExact ListLinked SearchRight NoReleasedInUse
PROPERTIES ReachableKept CycleCollected
CHECK_DEADLOCK FALSE
