CONSTANTS
    main = main
    render = render
    v1 = v1
    v2 = v2
    Name <- MCName
    Contents <- MCContents
    Missing = Missing
    Note <- MCNote
    NoNote = NoNote
    Undo = Undo
    MaxHistory = 5
SPECIFICATION MCSpec
INVARIANTS
    AtMostOneAhead
PROPERTIES
    KeepsVersions
    AppendOnly
SYMMETRY Symmetry
