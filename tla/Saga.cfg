SPECIFICATION InTimeSpec
CONSTANTS
    Orders = {1, 2}
    Accounts <- TwoAccounts
    Opening <- MoneyForOne
    BuyerOf <- SameBuyer
    AuthorOf <- LastAuthorUnknown
    PriceOf <- Price
    MaxAttempts = 2
    MaxLate = 2
    MaxLostConfirms = 1
CHECK_DEADLOCK FALSE
INVARIANTS TypeOK FailedIsNotCharged PaidEventIsTrue LicenseIsPaidInTime EndIsReportedInTime
PROPERTIES StatusAdvancesInTime SagaEnds
