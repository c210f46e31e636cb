SPECIFICATION Spec
CONSTANTS
    Sources = {"s", "t"}
    Computed = {"a", "b", "c"}
    First <- MCFirst
    Left <- MCLeft
    Right <- MCRight
    Faulty = {"a"}
    Observers = {o1, o2}
    Watched = {"s", "a", "c"}
    MaxWrites = 3
    MaxDepth = 1
SYMMETRY Symmetry
INVARIANT ReadsAreFresh
INVARIANT ObserversAreTold
INVARIANT EdgesFollowObservers
CHECK_DEADLOCK FALSE
