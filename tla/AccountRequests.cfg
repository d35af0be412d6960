SPECIFICATION Spec
CONSTANTS
    l1 = l1
    m1 = m1
    m2 = m2
    s1 = s1
    s2 = s2
    s3 = s3
    n1 = n1
    n2 = n2
    e1 = e1
    NoUser = NoUser
    NoName = NoName
    NoEmail = NoEmail
    NoIntent = NoIntent
    Legacy = {l1}
    Machine = {m1, m2}
    Names = {n1, n2}
    Emails = {e1}
    Sessions = {s1, s2, s3}
    Holder <- MCHolders
    InitialName <- MCInitialName
    MaxVersion = 2
    MaxFailures = 1
    MaxCrashes = 1
INVARIANTS NamesDiffer SessionsSaved NoStaleAuthorization
PROPERTIES Atomic
