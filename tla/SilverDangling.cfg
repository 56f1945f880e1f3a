SPECIFICATION Spec
CONSTANTS
    a = a
    b = b
    r = r
    valid = valid
    defective = defective
    Foreign = Foreign
    Nobody = Nobody
    Publishers <- MCPublishers
    Runs <- MCRuns
    Inputs <- MCInputs
    Defective <- MCDefective
    HourCount = 2
INVARIANT
    VisibleIsComplete
