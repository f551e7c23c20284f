CONSTANT N = 4
SPECIFICATION FairSpec
INVARIANTS TypeOK LineZeroGates
PROPERTIES AllGetThrough
