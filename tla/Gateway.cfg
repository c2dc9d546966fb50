SPECIFICATION Spec
CONSTANTS
    Consoles = {c1}
    Main = Main
    Nodes = {a, b}
    Endpoints = {e}
    Others = {o}
    Old = Old
    New = New
    NoRow = NoRow
    Attaching = {a}
    Window = 2
    MaxEvents = 2
INVARIANTS
    InStep
    OnceEach
    LinksSound
    HasItsNode
    NoneSkipped
CHECK_DEADLOCK FALSE
