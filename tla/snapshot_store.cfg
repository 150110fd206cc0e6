\* Two captures of a source of two parts, one restore.
SPECIFICATION Spec
CONSTANTS
    c1 = c1
    c2 = c2
    d1 = d1
    Parts = {1, 2}
    Contents = {0, 1}
    Captures = {c1, c2}
    Places = {d1}
    Missing = Missing
    Altered = Altered
    MaxFaults = 2
SYMMETRY CaptureSymmetry
INVARIANTS WasOneInstant PublishedIsWhole
PROPERTIES PublishedSurvives
CHECK_DEADLOCK FALSE
