SPECIFICATION Spec
CONSTANTS
    c1 = c1  c2 = c2  h1 = h1  h2 = h2  k1 = k1  t1 = t1  t2 = t2  t3 = t3  p1 = p1
    Null = Null
    Call = {c1, c2}
    Challenge = {h1, h2}
    Code = {k1}
    Token = {t1, t2, t3}
    Change = {p1}
    Threshold = 2
    MaxFailed = 5
    MaxChanges = 2
    MaxBegun = 5
    MaxFaults = 1
SYMMETRY Symmetry
CHECK_DEADLOCK FALSE
INVARIANTS TypeOK GuessesBounded SignsInOnce OneTokenPerSignIn PasswordsAgree
