CONSTANTS
    main = main
    update = update
    draw = draw
    test_draw = test_draw
    pcall = pcall
    Func <- MCFunc
    Main = main
    Test = {test_draw}
    Builtin = {pcall}
    Unknown = Unknown
    Calls <- MCCalls
    TailCalls <- MCTailCalls
    Body = {draw, Unknown}
    Coroutine = {co}
    MainThread = MainThread
    MaxDepth = 5
SPECIFICATION Spec
INVARIANTS
    DepthIsCallChain
    LevelsFollowCalls
