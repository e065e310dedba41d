CONSTANTS
    c1 = c1
    c2 = c2
    Configs <- TwoConfigs
    FirstSize <- Small
    UserSizes <- SmallOrLarge
    Requests <- WholeAndPartial
    MaxResizes = 2
    MaxRefused = 1
SPECIFICATION Spec
SYMMETRY Symmetry
INVARIANTS CurrentIsKept NothingLeaked NoResizeLost
