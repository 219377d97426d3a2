SPECIFICATION BothSpec
CONSTANTS
    Transactions <- ThreeTransactions
    Searches = {"cafe"}
    Amounts = {0, 10004}
    Unset = Unset
    Blank = Blank
    Junk = Junk
    Garbled = Garbled
    FirstMonth <- Dec
    Months <- TwoMonths
    Characters <- FewCharacters
    Merchants <- SixMerchants
    StoreSuffixes <- ThreeSuffixes
    Rules <- ThreeRules
    Learned = {"Food", "Fuel"}
    MaxLearned = 3
    MaxCompared = 5
    Written = {0, 5, 100, 99999, 100000, 1234567, 99999999, 123456789}
    Null = Null
INVARIANTS
    UrlKeepsFilters
    ChartsAddUp
    NavigationExact
    NamesMatch
    BestMatchWins
    LearningOnlyTeaches
    AmountsRead
PROPERTIES
    OthersSurvive
