SPECIFICATION Spec
CONSTANTS
    Size = 15
    Neighbour <- NextPage
    Vars <- TwoVars
    Vals <- SomeVals
    PathVar <- PathIsA
INVARIANTS
    TypeOK
    ScansStayInside
    NeighbourSpared
PROPERTIES
    EnvironmentSpec
    NoneTight
