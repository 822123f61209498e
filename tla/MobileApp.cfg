CONSTANTS
    Nals = {101, 65}
    Decoders = {d1, d2}
    Files = {f1, f2}
    None = None
    Managers = {m1, m2, m3}
    MaxRequests = 1
SPECIFICATION Spec
INVARIANTS TypeOK GateSettled StoppedIsQuiet NoFileLeak FdValid
