SPECIFICATION Spec
CONSTANTS
  Char = {"a", " "}
  Space = " "
  TabChar = "tab"
  Identifier = {"a"}
  TabStop = 4
  CommentMark <- MCMark
  Texts <- MCTexts
  Cols = 2
  Height = 2
  MaxRows = 3
  MaxSize = 5
  MaxSearched = 6
  MaxQuery = 1
PROPERTIES KeysEditText KeysMoveCursor SafeOnText HighlightPropagates
