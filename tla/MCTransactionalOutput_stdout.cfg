SPECIFICATION FairSpec
CONSTANTS
    o1 = o1
    o2 = o2
    o3 = o3
    p1 = p1
    p2 = p2
    i1 = i1
    d1 = d1
    s1 = s1
    Output = {o1, o2}
    Process = {p1, p2}
    ProcessOf <- TwoRuns
    Pid = {i1}
    PidOf <- SharedPid
    Destination = {d1}
    Stdio = Stdio
    DestinationOf <- StdoutAndFile
    Stem = {s1}
    StemOf <- OneStem
    Original = Original
    Missing = Missing
    MaxAttempts = 2
    MaxSequence = 2
    MaxUnits = 2
    MaxPowerLosses = 1
INVARIANTS
    StdoutOnlyWholeResults
    OkDelivers
PROPERTIES
    Ends
    KeepsPromise
