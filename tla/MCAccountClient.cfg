CONSTANTS
    Supervisors = {s1, s2}
    Applications = {a1}
    None = None
    MaxLogins = 2
    MaxItems = 2
SPECIFICATION FairSpec
INVARIANTS TypeOK RetriedBehindFreshLogin IdentityNotOlder
PROPERTIES AccountOnlyRenewed OperationEnds
