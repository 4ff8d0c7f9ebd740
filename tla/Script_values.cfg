SPECIFICATION ScriptSpec
CONSTANTS
    CompileFileBody <- CompileDef
    ReadVar <- GetVarDef
    WriteVar <- SetVarDef
    DeleteItem <- DelVarDef
    DeleteVars <- DelVarsDef
    DeclareVar <- DeclareDef
    ResizeVars <- ResizeDef
    SameValue <- EqualDef
    PrintValue <- PrintDef
    PrintToBuf <- PrintToBufDef
    KeyBefore <- KeyBeforeDef
    MAX_STACK = 30
    Library <- NoLibrary
    RandomNumbers = {}
    RandomStrings = {}
    Handles = {}
    JsonText <- JsonTextDef
    JsonString <- JsonStringDef
    JsonInteger <- JsonIntegerDef
    MaxNumeral = 10
    Statements <- Moving
    Length = 2
    Programs <- ValuePrograms
INVARIANTS NoFault NoDangling OwnedOnce NothingLeaks
CHECK_DEADLOCK FALSE
