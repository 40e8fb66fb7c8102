SPECIFICATION WatcherSpec
CONSTANTS
  Names = {shop, link, ust}
  Skipped = {ust}
  Links = {link}
  Main = main
  Timers = {t1}
  MaxChanges = 3
  MaxStops = 1
  MaxOutages = 1
INVARIANT
  QuietMeansServed
PROPERTY
  CaddyCatchesUp
