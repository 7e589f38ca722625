SPECIFICATION Spec
CONSTANTS
  Limit <- MCLimit
  Precision <- MCPrecision
  MaxExponent10 <- MCMaxExponent10
  FloatDecimals = 1
  One = 32
  Epsilon = 1
  MicrosPerTick = 2
  FractionDigits = 2
  SecondsPerMinute = 2
  MinutesPerHour = 2
  HoursPerDay = 3
  DaysPerMonth = 2
  MonthsPerYear = 2
  Zones <- MCZones
  LastYear = 2
  MaxYear = 3
  WordSize = 8
  DayBeyond = 5
  DateBeyond <- MCDateBeyond
  Prepared <- MCPrepared
  Offered <- MCOffered
  Structs <- MCStructs
  Variants <- MCVariants
  Members <- MCMembers
INVARIANTS TypeOK ReadsBack TextRebinds NullStaysNull VariantKeepsValue
PROPERTIES SetIsAtomic StructStopsAtFailure
