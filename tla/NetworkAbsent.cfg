SPECIFICATION Spec
CONSTANTS
    ca = ca  o1 = o1  o2 = o2  p1 = p1
    Node = {ca, o1, o2, p1}
    Role <- Roles
    Machine = {ca, o1, o2, p1}
    Place <- OwnMachine
    Busy <- NoOther
    MayDie = FALSE
    MaxGen = 1
SYMMETRY Symmetry
INVARIANT DropsOnlyTheDead
