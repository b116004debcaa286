CONSTANTS
    Page = 6
    Tab = 4
    MaxBlanks = 7
    Window = 2
    Characters <- MCCharacters
    MaxText = 3
    Null = Null
SPECIFICATION Spec
INVARIANTS TypeOK TextKept LongLinesOnlySplit PagesWhole RewriteIsStable
