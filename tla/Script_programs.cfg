SPECIFICATION ScriptSpec
CONSTANTS
    CompileFileBody <- CompileDef
    ReadVar <- GetVarDef
    WriteVar <- SetVarDef
    DeleteItem <- DelVarDef
    DeleteVars <- DelVarsDef
    DeclareVar <- DeclareDef
    ResizeVars <- ResizeDef
    SameValue <- EqualDef
    PrintValue <- PrintDef
    PrintToBuf <- PrintToBufDef
    KeyBefore <- KeyBeforeDef
    MAX_STACK = 60
    Library <- LibraryDef
    RandomNumbers = {7}
    RandomStrings = {"rs"}
    Handles = {0, 5}
    JsonText <- JsonTextDef
    JsonString <- JsonStringDef
    JsonInteger <- JsonIntegerDef
    MaxNumeral = 200
    Programs <- ProgramsDef
INVARIANTS TypeOK PrintsExpected OperandsAboveLocals ShapeIsKept ItemsFit
PROPERTIES LoopsKeepTheStack ReturnsBehindItsCall Terminates
CHECK_DEADLOCK FALSE
