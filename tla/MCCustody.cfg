\* Two terminals and two operators; two identities and two keys; three passwords.
CONSTANTS
    None = None  Unset = Unset
    Terminal = {t1, t2}
    Operator = {o1, o2}
    Validator = {v1, v2}
    Key = {k1, k2}
    Password = {p1, p2, p3}
SPECIFICATION Spec
SYMMETRY Alike
INVARIANTS DirectoryHoldsOneKey RotationNeedsRace ReportedKeyStays ContainerHoldsDepositedKey StoredPasswordOpensDatabase ReportedPasswordIsCurrent NothingIsLeftBehind
CHECK_DEADLOCK FALSE
