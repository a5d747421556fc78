SPECIFICATION Spec
CONSTANTS
    Users = {u1, u2, u3}
    Orgs = {o1, o2}
    Decks = {d1}
    NoOrg = NoOrg
    DefaultOrg = o1
    Bootstrap = u1
INVARIANTS
    BrowseClauseAgrees
PROPERTIES
    GranteesNeverWiden
CHECK_DEADLOCK FALSE
SYMMETRY Alike
