\* Two captures, in a store that was there or that the first of them makes.
SPECIFICATION Spec
CONSTANTS
    c1 = c1
    c2 = c2
    d1 = d1
    Parts = {1, 2}
    Contents = {0, 1}
    Captures = {c1, c2}
    Places = {d1}
    Missing = Missing
    Altered = Altered
    MaxFaults = 2
SYMMETRY CaptureSymmetry
PROPERTIES ReturnedSurvives
CHECK_DEADLOCK FALSE
