\* The root and a sibling while files arrive and a host sends.
CONSTANTS
    root = root
    child = child
    r1 = r1
    a1 = a1
    Names = {root, child}
    Root = root
    Instances = {r1, a1}
    NameOf <- ComponentOf
    MaxSends = 2
SPECIFICATION Spec
INVARIANTS
    MountsPairWithUnmounts
    SettledInstancesAreCurrent
PROPERTIES
    FilesNeverReplaceSends
