CONSTANTS
    t1 = t1
    t2 = t2
    Task <- MCTask
    Parts <- MCParts
    Request = {r1}
    Client = {c1}
    Capacity = 1
    TokenLength = 40
SPECIFICATION Spec
INVARIANTS BooksBalance OneWorker ChangeReachesDashboard
PROPERTY TaskCompletes
