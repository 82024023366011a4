SPECIFICATION FairSpec
CONSTANTS
  MaxVersion = 3
  TokenLists <- ShortLists
  Presented <- ShortTokens
  Nil = Nil
INVARIANTS TypeOK HttpsWhenAsked OnlyEntriesPass
PROPERTIES RenewalsAreServed ReloadsKeepServing
