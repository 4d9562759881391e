SPECIFICATION Spec
CONSTANTS
    s1 = s1
    None = None
    Mock = Mock
    Calls = {c1, c2, c3}
    Sigs = {s1}
    SigOf <- OneStep
    Deciders = {d1, d2}
SYMMETRY Symm
INVARIANTS OneLiveRow ReturnsGenuine  DecisionLands OneDecision 
 
