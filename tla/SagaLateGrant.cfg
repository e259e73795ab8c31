SPECIFICATION InTimeSpec
CONSTANTS
    Orders = {1}
    Accounts <- TwoAccounts
    Opening <- MoneyForOne
    BuyerOf <- SameBuyer
    AuthorOf <- AuthorWithAccount
    PriceOf <- Price
    MaxAttempts = 2
    MaxLate = 1
    MaxLostConfirms = 1
CHECK_DEADLOCK FALSE
INVARIANTS LicenseIsPaid
