CONSTANTS
    main = main
    update = update
    draw = draw
    cell = cell
    menu = menu
    state = state
    doc_x = doc_x
    Func <- MCFunc
    Main = main
    Test = {}
    Builtin = {}
    Unknown = Unknown
    Calls <- MCCalls
    TailCalls = {}
    Body = {}
    Coroutine = {}
    MainThread = MainThread
    MaxDepth = 5
    Name <- MCName
    Doc = {doc_x}
    Menu = menu
    Images <- MCImages
    Assigned <- MCAssigned
    MaxHistory = 10
    MaxEdits = 1
    Undo = Undo
    NoName = NoName
SPECIFICATION ViewSpec
INVARIANTS
    HighlightInLevel
    DrawnOnce
PROPERTY
    ArrowsFindHighlight
