\* Two tickers and a wake-up, with Stop and a cancelled context, at noon and
\* at eight in the evening; the active hours are from nine to five.
SPECIFICATION Spec
CONSTANTS
  Tickers = {t1, t2}
  Wakers = {w1}
  Times = {720, 1200}
  NoTick = NoTick
  From = 540
  Until = 1020
INVARIANTS
  TypeOK
  SingleFlight
  FlagHasOwner
  FewFlowsAfterHours
PROPERTIES
  EveryRunReports
  StopEndsTickers
