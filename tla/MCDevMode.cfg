CONSTANTS
    main = main
    util = util
    doc_main = doc_main
    f1 = f1
    both = both
    bad = bad
    d1 = d1
    blank = blank
    why = why
    alien = alien
    Name <- MCName
    Contents <- MCContents
    Missing = Missing
    Note <- MCNote
    NoNote = NoNote
    Undo = Undo
    MaxHistory = 3
    MaxPos = 1
    Doc <- MCDoc
    DocMain = doc_main
    Typed <- MCTyped
    TypedNotes <- MCTypedNotes
    Blank = blank
    Broken <- MCBroken
    Binds <- MCBinds
    Library = {}
    Builtin = Builtin
    Foreign = alien
    NoName = NoName
    NoState = NoState
SPECIFICATION MCSpec
CONSTRAINT Shared
INVARIANTS
    TextsStayApart
    LeftTextIsSaved
    CursorOnChange
    RunsCurrentText
PROPERTY
    RunPreservesCursor
