CONSTANTS
    main = main
    globals = globals
    t1 = t1
    weakval = weakval
    weakkey = weakkey
    u1 = u1
    f1 = f1
    v1 = v1
    co = co
    s1 = s1
    Nil = Nil
    StackSize = 2
    Main = main
    Globals = globals
    Object <- MCObject
    Kind <- MCKind
    Mode <- MCMode
    Worlds <- MCWorlds
SPECIFICATION Spec
INVARIANTS NoDangling
PROPERTIES FinalizedOnce FullCollects
CHECK_DEADLOCK FALSE
