SPECIFICATION Spec
CONSTANTS
    MaxHandles = 3
    Devices = {d8, d9}
    Files = {a, b}
    MediaErrors = TRUE
SYMMETRY Symmetry
INVARIANTS
    TypeOK
    TablesAgree
    CacheCoherent
    CopyStreamsLive
PROPERTIES
    CopyLeaksNoHandle
    CopyTouchesOnlyDestination
    CallsDrain
    SameDriveSpares
