SPECIFICATION StorySpec
CONSTANTS
    Calls = {c1, c2, c3, c4}
    NoCall = NoCall
    k1 = k1
    k2 = k2
    Keys = {k1, k2}
    EmptyKey = EmptyKey
    Accounts <- TwoAccounts
    Currencies = {"RUB", "USD"}
    CurrencyOf <- AllRoubles
    Opening <- MoneyOfTwo
    Requests <- EitherStory
SYMMETRY Symmetry
INVARIANTS TypeOK NoOverdraft PaidOnce AnswersStand NoDeadlock OneReservationPerKey RetriesAgree
PROPERTIES OutcomeIsFinal Atomic
CHECK_DEADLOCK FALSE
