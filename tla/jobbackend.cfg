SPECIFICATION Spec
CONSTANTS
    Files = {a, b, c, link, huge}
    Links = {link}
    Huge = {huge}
    MaxFiles = 2
    MaxLog = 2
    Marker = 1
    MaxPods = 2
    MaxFaults = 2
INVARIANTS TypeOK SucceededIsWhole TreeIsBounded ConfirmedIsGone
PROPERTIES FitsRunController
SYMMETRY Symmetry
CHECK_DEADLOCK FALSE
