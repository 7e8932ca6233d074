SPECIFICATION Spec
CONSTANTS
    MaxHandles = 2
    Devices = {d8, d9}
    Files = {a, b}
    MediaErrors = FALSE
SYMMETRY Symmetry
PROPERTY CopyScratchesPartialOnly
