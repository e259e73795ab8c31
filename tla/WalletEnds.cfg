SPECIFICATION FairSpec
CONSTANTS
    Calls = {c1, c2, c3}
    NoCall = NoCall
    k1 = k1
    k2 = k2
    Keys = {k1, k2}
    EmptyKey = EmptyKey
    Accounts <- ThreeAccounts
    Currencies = {"RUB", "USD"}
    CurrencyOf <- TwoCurrencies
    Opening <- MoneyOfThree
    Requests <- OneOrder
PROPERTIES EveryCallEnds
CHECK_DEADLOCK FALSE
