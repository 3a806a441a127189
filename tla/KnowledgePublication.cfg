SPECIFICATION Spec
CONSTANTS
    s1 = s1
    s2 = s2
    o0 = o0
    o1 = o1
    o2 = o2
    a1 = a1
    a2 = a2
    b1 = b1
    c1 = c1
    None = None
    Server = {s1, s2}
    Page = {a1, a2, b1}
    WikiOf <- MCWikiOf
    RevisionOf <- MCRevisionOf
    Version = {1, 2}
    TheoryOf <- MCTheoryOf
    Cited <- MCCited
    Claim = {c1}
    ClaimsOf <- MCClaimsOf
    Initial = {a1}
    Operation = {o0, o1, o2}
    Genesis = o0
    MaxCrashes = 1
SYMMETRY MCSymmetry
INVARIANTS
    ShownIsGoverned
    PagesAreBacked
PROPERTIES
    PagesStay
    ImplementsShownKnowledge
CHECK_DEADLOCK FALSE
