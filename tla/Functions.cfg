SPECIFICATION FunctionsSpec
CONSTANTS
  MMAP_MAXSIZE = 2
  BLOCK = 2
INVARIANTS
  FindsOccurrences
  ShowsWhatIsAsked
  NumbersLines
  FirstLines
  DateAsCalendar
  LastOptionWins
  OrderSorts
  EveryEntryOnce
