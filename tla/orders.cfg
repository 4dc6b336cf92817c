\* Live and dry-run cycles of three symbols, in whole shares or dollars, with
\* stale market values, a reserve, a cap and a margin debit.
SPECIFICATION Spec
CONSTANTS
  ShareUnits = 2
  SymbolCount = 3
  Positions <- Portfolio
  SafeHavens = {3}
  SmallSafeHaven = 300
  RetainRatio <- Ratios
  BootstrapRatio <- Ratios
  Quotes = {185, 200}
  LiquidCash <- CashOrDebit
  Reserves = {0, 200}
  Caps = {0, 200}
  MinTrade = 100
  LiveModes = {TRUE, FALSE}
  CashOnly = {TRUE, FALSE}
  Notional = {TRUE, FALSE}
INVARIANTS
  OrdersWithinLimits
  BuysCoveredByCash
  BuysAllOrNone
  ResultCoversLiveOrders
PROPERTIES
  UnknownEndsExecution
