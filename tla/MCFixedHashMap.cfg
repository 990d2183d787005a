CONSTANTS
    Keys = {k1, k2, k3, k4}
    MapValues = {v1, v2}
    NoKey = NoKey
    NoValue = NoValue
    Capacity = 3
SPECIFICATION Spec
SYMMETRY Symmetry
INVARIANTS SizeExact
PROPERTIES IsBoundedMap
