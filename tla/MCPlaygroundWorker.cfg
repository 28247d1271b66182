SPECIFICATION WorkerSpec
CONSTANT MaxRequests = 4
CHECK_DEADLOCK FALSE
INVARIANTS WorkerConsistent
