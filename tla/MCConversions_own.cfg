SPECIFICATION Spec
CONSTANTS
  Limit <- MCLimit
  Precision <- MCPrecision
  MaxExponent10 <- MCMaxExponent10
  FloatDecimals = 2
  One = 4096
  Epsilon = 128
  Scales <- MCScales
  Floats <- MCFloats
  Texts <- MCTexts
  MicrosPerTick = 2
  FractionDigits = 2
  SecondsPerMinute = 2
  MinutesPerHour = 2
  HoursPerDay = 3
  DaysPerMonth = 2
  MonthsPerYear = 2
  Zones <- MCZones
  LastYear = 2
  MaxYear = 3
  WordSize = 8
  DayBeyond <- MCDayBeyond
  DateBeyond <- MCDateBeyond
  Years <- MCYears
  Instants <- MCInstants
  TextTimes <- MCTextTimes
  Arguments <- MCArguments
  MaxArguments = 3
  Replies = 4
INVARIANT OwnErrorsReported
