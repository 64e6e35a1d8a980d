SPECIFICATION Spec
CONSTANTS
    e1 = e1
    e2 = e2
    e3 = e3
    e4 = e4
    b1 = b1
    b2 = b2
    Writers = {e1, e2, e3, e4}
    Blocks = {b1, b2}
    NTables = 3
    Batch <- MCSerialBatch
    Before <- MCSerial
PROPERTIES
    AtomicSpec
CHECK_DEADLOCK FALSE
