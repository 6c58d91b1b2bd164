CONSTANTS
    draw = draw
    fetch = fetch
    Func <- MCFunc
    NoFunc = NoFunc
    NAUDIT = 4
    Heights <- MCHeights
SPECIFICATION Spec
INVARIANTS
    RingInv
    EnterFindsAnEvent
PROPERTY
    RecentEvents
