SPECIFICATION FairViewSpec
CONSTANTS
    i1 = i1
    o1 = o1
    o2 = o2
    Ids = {i1}
    Orgs = {o1, o2}
    OrgOf <- FirstOrg
    Deciders = {d1, d2}
    MaxDecisions = 3
    MaxRestarts = 2
INVARIANTS LocalDecisionReal
PROPERTIES SweepKeepsDecidable NotOrphaned Forgets
