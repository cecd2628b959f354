SPECIFICATION Spec
CONSTANTS
    Workers = {w1, w2}
    Sizes <- MCGallerySizes
    Last = 1
    MaxRequests = 3
    Nobody = Nobody
PROPERTY ReplacesWhole
CHECK_DEADLOCK FALSE
