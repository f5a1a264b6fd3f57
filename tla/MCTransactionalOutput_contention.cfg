SPECIFICATION Spec
CONSTANTS
    o1 = o1
    o2 = o2
    o3 = o3
    p1 = p1
    p2 = p2
    i1 = i1
    d1 = d1
    s1 = s1
    Output = {o1, o2, o3}
    Process = {p1, p2}
    ProcessOf <- ThreeOutputs
    Pid = {i1}
    PidOf <- SharedPid
    Destination = {d1}
    Stdio = Stdio
    DestinationOf <- BackupAndStdout
    Stem = {s1}
    StemOf <- OneStem
    Original = Original
    Missing = Missing
    MaxAttempts = 2
    MaxSequence = 4
    MaxUnits = 1
    MaxPowerLosses = 0
INVARIANTS
    TypeOK
    OwnsTemporary
PROPERTIES
    RemovesOnlyOwn
