SPECIFICATION MCSpec
CONSTANTS
    Absent = Absent
    Undef = Undef
    Off = Off
    Menu <- MCMenu
    NativeMenu <- MCNativeMenu
    MaxLayers = 2
    Requires <- MCRequires
    Conflicts <- MCConflicts
    base = base
    user = user
    rival = rival
    Plugin = {base, user, rival}
    Silent = {rival}
    Request = {r1}
    Priority = {0, 1}
    MaxIds = 3
CHECK_DEADLOCK FALSE
INVARIANTS
    LayersDecide
    RegistryAgrees
    WalkIsExact
