SPECIFICATION Spec
CHECK_DEADLOCK FALSE
CONSTANTS
    None = None
    Listing = Listing
    v1 = v1
    Vacancies = {v1}
    Texts = {0, 1}
    Quota = 2
    Soon = 1
    Hour = 1
    Day = 2
    Interval = 1
    MaxTime = 3
    MaxAttempts = 5
    MaxCrashes = 1
INVARIANTS TypeOK QuotaHolds OutcomeBeforeRetry InventoryBeforeRecheck
