SPECIFICATION ScriptSpec
CONSTANTS
    CompileFileBody <- CompileDef
    ReadVar <- GetVarDef
    WriteVar <- SetVarDef
    DeleteItem <- DelVarDef
    DeleteVars <- DelVarsDef
    DeclareVar <- DeclareDef
    ResizeVars <- ResizeDef
    SameValue <- EqualDef
    PrintValue <- PrintDef
    PrintToBuf <- PrintToBufDef
    KeyBefore <- KeyBeforeDef
    MAX_STACK = 30
    Library <- NoLibrary
    RandomNumbers = {}
    RandomStrings = {}
    Handles = {}
    JsonText <- JsonTextDef
    JsonString <- JsonStringDef
    JsonInteger <- JsonIntegerDef
    MaxNumeral = 10
    Statements <- WithItself
    Length = 1
    Programs <- ValuePrograms
INVARIANT NoFault
CHECK_DEADLOCK FALSE
