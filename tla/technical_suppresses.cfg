SPECIFICATION Spec
CONSTANTS
    h1 = h1
    h2 = h2
    h3 = h3
    f1 = f1
    f2 = f2
    Hosts = {h1, h2, h3}
    Labels = {"a", "b"}
    Fingerprints = {f1, f2}
    Groups <- MCGroups
    Operations = {"manual", "approve", "reject", "assign"}
    MaxRejections = 1
    MaxHandlers = 3
INVARIANT TechnicalNeverSuppresses
