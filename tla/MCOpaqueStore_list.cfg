SPECIFICATION Spec
CONSTANTS
    None = None
    a1 = a1  a2 = a2  v1 = v1  v2 = v2  o1 = o1
    k1 = k1  k2 = k2  k3 = k3  e1 = e1  e2 = e2  e3 = e3  x = x  y = y
    Bodies = {x, y}
    Revisions = {e1, e2, e3}
    Objects = {o1}
    Size <- SizeOf
    Accounts = {a1}
    VaultIds = {v1, v2}
    Keys = {k1, k2, k3}
    Requests <- ListRequests
    Times = {0, 1, 2, 3}
    Tokens = {t1, t2}
    PageSizes = {1, 2}
    ReceiptLifetime = 1
    CursorLifetime = 2
    MaxReceiptPrune = 1
    MaxCursorPrune = 1
    MaxVaults = 9
    MaxBytes = 99
    AccountLimit <- NoLimit
INVARIANTS PagesChain ExpiriesAreScheduled
PROPERTY LiveEntriesStay
