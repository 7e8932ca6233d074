SPECIFICATION Spec
CONSTANTS
    Size = 14
    Neighbour <- NextPage
    Vars <- TwoVars
    Vals <- SomeVals
    PathVar <- PathIsA
INVARIANT NeighbourSpared
