CONSTANTS
    e1 = e1
    e2 = e2
    e3 = e3
    e4 = e4
    h1 = h1
    h2 = h2
    Paths <- ThePaths
    Hidden <- TheHidden
    ClassOf <- TheClasses
    Objects = {e1, e2, e3, e4}
    Handles = {h1, h2}
    Root = Root
    Null = Null
    Space = 1
    MaxEntries = 2
SPECIFICATION Spec
VIEW View
SYMMETRY Symmetry
INVARIANTS TypeOK OpenFilesListed PointersOwned HiddenOnlyWhileOpen
 
