\* Two leaves and their parent, blocks with room for two to five items, up to six changes.
SPECIFICATION Spec
CONSTANTS
    va = va
    vb = vb
    b1 = b1
    b2 = b2
    b3 = b3
    Leaves = {b1, b2}
    Parent = b3
    Keys <- SmallKeys
    Values <- SmallValues
    Sizes = {2, 9}
    NoVal = NoVal
    BLOCK_SIZE = 46
    KEY_SIZE_MAX = 2
    VAL_SIZE_MAX = 8
    MIN_USED_PCT = 35
    MaxOps = 6
SYMMETRY Symmetry
INVARIANTS
    Layout
    KeyOrder
    LookupFinds
    Separators
PROPERTIES
    IsItemMap
