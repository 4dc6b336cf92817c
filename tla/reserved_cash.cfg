\* A reserve larger than the liquid cash.
SPECIFICATION Spec
CONSTANTS
  ShareUnits = 2
  SymbolCount = 2
  Positions <- SmallPortfolio
  SafeHavens = {2}
  SmallSafeHaven = 300
  RetainRatio <- Ratios
  BootstrapRatio <- Ratios
  Quotes = {100, 200}
  LiquidCash = {300}
  Reserves = {0, 700}
  Caps = {0, 300}
  MinTrade = 100
  LiveModes = {TRUE, FALSE}
  CashOnly = {TRUE, FALSE}
  Notional = {TRUE, FALSE}
INVARIANTS
  BuysWithinInvestableCash
