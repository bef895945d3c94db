SPECIFICATION Spec
CONSTANT MaxBytes <- MCMaxBytes
INVARIANTS TypeOK Disjoint InsideMemory
CHECK_DEADLOCK FALSE
