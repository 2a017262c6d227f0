CONSTANTS
    Classes = {1, 2}
    Tables = {1}
    Props = {1, 2, 3}
    ColsOf <- MCColsOf
    InitKind <- MCInitKind
    NRows = 2
    KValues = {0, 1, 2}
    Caps = {0, 1}
    MValues = {0, 4}
    EfValues = {0, 8}
    MetricCodes = {"EUCLIDEAN", "COSINE", "DOT_PRODUCT", "INVALID"}
    Copies = {"capi", "legacy"}
SPECIFICATION Spec
INVARIANT TypeOK
