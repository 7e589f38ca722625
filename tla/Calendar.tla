------------------------------ MODULE Calendar ------------------------------
(***************************************************************************)
(* impl::CalendarConverter: dates, times and timestamps, with and without  *)
(* a time zone, between their C++ values, Firebird's opaque values and     *)
(* text.  An opaque time counts ticks, an opaque date counts days.  A C++  *)
(* time is a signed number of microseconds; a text is the record of the    *)
(* numbers its pattern picks out, or NoMatch.                              *)
(*                                                                         *)
(* The calendar is a parameter: it has the structure of the real one       *)
(* (fields with limits, ticks coarser than microseconds) and not its size. *)
(***************************************************************************)
EXTENDS Powers, Sequences

CONSTANTS
    MicrosPerTick,      \* 100 in the code
    FractionDigits,     \* 4 in the code
    SecondsPerMinute, MinutesPerHour, HoursPerDay,
    DaysPerMonth, MonthsPerYear,
    Zones,              \* [zone name -> offset from UTC in ticks]
    LastYear,           \* 9999: a text has four digits for the year, and the server no later dates
    MaxYear,            \* 32767: a std::chrono::year is within -MaxYear .. MaxYear
    WordSize,           \* 2^32: the year is cast to unsigned
    DayBeyond, DateBeyond   \* what the client library answers outside its calendar: unknown

ASSUME CalendarAssumption ==
    {MicrosPerTick, FractionDigits, SecondsPerMinute, MinutesPerHour,
     HoursPerDay, DaysPerMonth, MonthsPerYear} \subseteq Nat \ {0}

ASSUME YearsAssumption ==
    /\ {LastYear, MaxYear, WordSize} \subseteq Nat \ {0}
    /\ LastYear < MaxYear /\ 2 * MaxYear < WordSize

ASSUME BeyondAssumption == DayBeyond \in Int /\ DateBeyond \in [y : Nat, m : Nat, d : Nat]

Fine(v) == [ok |-> TRUE, value |-> v]
Invalid(e) == [ok |-> FALSE, error |-> e]
NoMatch == [matches |-> FALSE]

TicksPerSecond == PowerOfTen(FractionDigits)
TicksPerMinute == TicksPerSecond * SecondsPerMinute
TicksPerHour == TicksPerMinute * MinutesPerHour
TICKS_PER_DAY == TicksPerHour * HoursPerDay
MicrosPerDay == TICKS_PER_DAY * MicrosPerTick

(* No zone is further than a day from UTC. *)
ASSUME ZonesAssumption == \A z \in DOMAIN Zones : Zones[z] \in -TICKS_PER_DAY .. TICKS_PER_DAY

-----------------------------------------------------------------------------
(* The calendar as std::chrono counts it, before year 0 as well. *)

daysOf(y, m, d) == (y * MonthsPerYear + m - 1) * DaysPerMonth + d - 1
dateOf(n) == [y |-> (n \div DaysPerMonth) \div MonthsPerYear,
              m |-> ((n \div DaysPerMonth) % MonthsPerYear) + 1,
              d |-> (n % DaysPerMonth) + 1]

-----------------------------------------------------------------------------
(* The client library: IUtil's encode and decode functions.  Its calendar  *)
(* has the years a signed word holds, from 0 on.                           *)

encodeTime(h, m, s, fraction) == h * TicksPerHour + m * TicksPerMinute + s * TicksPerSecond + fraction
encodeDate(y, m, d) == IF 2 * y < WordSize THEN daysOf(y, m, d) ELSE DayBeyond
decodeDate(n) == IF n >= 0 THEN dateOf(n) ELSE DateBeyond
knownZone(zone) == zone \in DOMAIN Zones
toUtc(localTicks, zone) == localTicks - Zones[zone]
toLocal(utcTicks, zone) == utcTicks + Zones[zone]

-----------------------------------------------------------------------------
(* Fields. *)

(* Mistaken: the digits written are taken as ticks. *)
FractionUnpadded(digits) ==
    LET number[i \in 0 .. Len(digits)] == IF i = 0 THEN 0 ELSE number[i - 1] * 10 + digits[i]
    IN  number[Len(digits)]

Fraction(digits) ==
    LET number[i \in 0 .. Len(digits)] == IF i = 0 THEN 0 ELSE number[i - 1] * 10 + digits[i]
    IN  number[Len(digits)] * PowerOfTen(FractionDigits - Len(digits))

(* The fields of a time of day, as they are written and as they are read. *)
TimeFields(ticks) ==
    [h |-> ticks \div TicksPerHour,
     m |-> (ticks \div TicksPerMinute) % MinutesPerHour,
     s |-> (ticks \div TicksPerSecond) % SecondsPerMinute,
     fraction |-> [i \in 1 .. FractionDigits |-> (ticks \div PowerOfTen(FractionDigits - i)) % 10]]
ValidTimeFields(t) == t.h < HoursPerDay /\ t.m < MinutesPerHour /\ t.s < SecondsPerMinute
TicksOfFields(t) == encodeTime(t.h, t.m, t.s, Fraction(t.fraction))

(* What a std::chrono::year_month_day may hold, valid or not. *)
Dates == [y : -MaxYear .. MaxYear, m : Nat, d : Nat]

(* A text has no sign before its year. *)
FourDigits(year) == year \in 0 .. LastYear

DateOk(date) == date.m \in 1 .. MonthsPerYear /\ date.d \in 1 .. DaysPerMonth

-----------------------------------------------------------------------------
(* Dates. *)

(* Only year 0 is refused: a negative one is a huge number after the cast. *)
dateToOpaqueDate(date) ==
    LET year == date.y % WordSize
    IN  IF ~DateOk(date) \/ year <= 0 THEN Invalid("invalid_date_val")
        ELSE Fine(encodeDate(year, date.m, date.d))

opaqueDateToDate(n) == Fine(decodeDate(n))

stringToDate(text) ==
    IF ~text.matches THEN Invalid("convert_error")
    ELSE IF ~DateOk(text.date) THEN Invalid("invalid_date_val") ELSE Fine(text.date)

stringToOpaqueDate(text) ==
    LET date == stringToDate(text) IN IF date.ok THEN dateToOpaqueDate(date.value) ELSE date

opaqueDateToString(n) == LET date == decodeDate(n) IN [matches |-> FourDigits(date.y), date |-> date]

-----------------------------------------------------------------------------
(* Times of day. *)

(* The magnitude in whole ticks: the sign and the rest of a tick are lost. *)
timeToOpaqueTime(time) ==
    Fine((IF time < 0 THEN -time ELSE time) \div MicrosPerTick)

opaqueTimeToTime(ticks) == Fine(ticks * MicrosPerTick)

stringToTime(text) ==
    IF ~text.matches THEN Invalid("convert_error")
    ELSE IF ~ValidTimeFields(text.time) THEN Invalid("invalid_time_val")
    ELSE Fine(TicksOfFields(text.time) * MicrosPerTick)

stringToOpaqueTime(text) ==
    LET time == stringToTime(text) IN IF time.ok THEN timeToOpaqueTime(time.value) ELSE time

opaqueTimeToString(ticks) == [matches |-> TRUE, time |-> TimeFields(ticks)]

(* Mistaken: a time within a tick is accepted and cut. *)
timeTzToOpaqueTimeTzCut(timeTz) ==
    IF timeTz.utc < 0 \/ timeTz.utc >= MicrosPerDay THEN Invalid("invalid_time_val")
    ELSE IF ~knownZone(timeTz.zone) THEN Invalid("invalid_zone")
    ELSE Fine([utc |-> timeTz.utc \div MicrosPerTick, zone |-> timeTz.zone])

timeTzToOpaqueTimeTz(timeTz) ==
    IF timeTz.utc < 0 \/ timeTz.utc >= MicrosPerDay \/ timeTz.utc % MicrosPerTick # 0
    THEN Invalid("invalid_time_val")
    ELSE IF ~knownZone(timeTz.zone) THEN Invalid("invalid_zone")
    ELSE Fine([utc |-> timeTz.utc \div MicrosPerTick, zone |-> timeTz.zone])

opaqueTimeTzToTimeTz(opaque) == Fine([utc |-> opaque.utc * MicrosPerTick, zone |-> opaque.zone])

stringToTimeTz(text) ==
    IF ~text.matches THEN Invalid("convert_error")
    ELSE IF ~ValidTimeFields(text.time) THEN Invalid("invalid_time_val")
    ELSE IF ~knownZone(text.zone) THEN Invalid("invalid_zone")
    ELSE opaqueTimeTzToTimeTz([utc |-> toUtc(TicksOfFields(text.time), text.zone) % TICKS_PER_DAY,
                               zone |-> text.zone])

stringToOpaqueTimeTz(text) ==
    LET timeTz == stringToTimeTz(text) IN IF timeTz.ok THEN timeTzToOpaqueTimeTz(timeTz.value) ELSE timeTz

opaqueTimeTzToString(opaque) ==
    [matches |-> TRUE, zone |-> opaque.zone,
     time |-> TimeFields(toLocal(opaque.utc, opaque.zone) % TICKS_PER_DAY)]

-----------------------------------------------------------------------------
(* Timestamps. *)

timestampToOpaqueTimestamp(timestamp) ==
    LET date == dateToOpaqueDate(timestamp.date)
    IN  IF ~DateOk(timestamp.date) THEN Invalid("invalid_timestamp_val")
        ELSE IF ~date.ok THEN date
        ELSE IF timestamp.time < 0 \/ timestamp.time >= MicrosPerDay \/ timestamp.time % MicrosPerTick # 0
             THEN Invalid("invalid_timestamp_val")
        ELSE Fine([date |-> date.value, time |-> timestamp.time \div MicrosPerTick])

opaqueTimestampToTimestamp(opaque) ==
    LET date == decodeDate(opaque.date)
    IN  IF ~DateOk(date) THEN Invalid("invalid_timestamp_val")
        ELSE Fine([date |-> date, time |-> opaque.time * MicrosPerTick])

stringToTimestamp(text) ==
    IF ~text.matches THEN Invalid("convert_error")
    ELSE IF ~DateOk(text.date) \/ ~ValidTimeFields(text.time) THEN Invalid("invalid_timestamp_val")
    ELSE Fine([date |-> text.date, time |-> TicksOfFields(text.time) * MicrosPerTick])

stringToOpaqueTimestamp(text) ==
    LET timestamp == stringToTimestamp(text)
    IN  IF timestamp.ok THEN timestampToOpaqueTimestamp(timestamp.value) ELSE timestamp

opaqueTimestampToString(opaque) ==
    LET date == decodeDate(opaque.date)
    IN  [matches |-> FourDigits(date.y), date |-> date, time |-> TimeFields(opaque.time)]

(* Timestamp::toLocalTime and fromLocalTime, in microseconds and in ticks. *)
toLocalTime(timestamp) == daysOf(timestamp.date.y, timestamp.date.m, timestamp.date.d) * MicrosPerDay + timestamp.time
fromLocalTime(micros) == [date |-> dateOf(micros \div MicrosPerDay), time |-> micros % MicrosPerDay]
splitTicks(ticks) == [date |-> ticks \div TICKS_PER_DAY, time |-> ticks % TICKS_PER_DAY]
joinTicks(opaque) == opaque.date * TICKS_PER_DAY + opaque.time

timestampTzToOpaqueTimestampTz(timestampTz) ==
    LET utc == timestampToOpaqueTimestamp(timestampTz.utc)
    IN  IF ~knownZone(timestampTz.zone) THEN Invalid("invalid_zone")
        ELSE IF ~utc.ok THEN utc
        ELSE Fine([utc |-> utc.value, zone |-> timestampTz.zone])

opaqueTimestampTzToTimestampTz(opaque) ==
    Fine([utc |-> fromLocalTime(joinTicks(opaque.utc) * MicrosPerTick), zone |-> opaque.zone])

stringToTimestampTz(text) ==
    LET ticks == TicksOfFields(text.time)
        local == [date |-> text.date, time |-> ticks * MicrosPerTick]
        encoded == splitTicks(toUtc(encodeDate(text.date.y, text.date.m, text.date.d) * TICKS_PER_DAY + ticks, text.zone))
        utc == opaqueTimestampToTimestamp(encoded)
        offset == toLocalTime(local) - toLocalTime(utc.value)
    IN  IF ~text.matches THEN Invalid("convert_error")
        ELSE IF ~DateOk(text.date) \/ ~ValidTimeFields(text.time) THEN Invalid("invalid_timestamp_val")
        ELSE IF ~knownZone(text.zone) THEN Invalid("invalid_zone")
        ELSE IF ~utc.ok THEN utc
        ELSE IF offset % (TicksPerMinute * MicrosPerTick) # 0 THEN Invalid("invalid_timestamp_val")
        ELSE Fine([utc |-> utc.value, zone |-> text.zone])

stringToOpaqueTimestampTz(text) ==
    LET timestampTz == stringToTimestampTz(text)
    IN  IF timestampTz.ok THEN timestampTzToOpaqueTimestampTz(timestampTz.value) ELSE timestampTz

opaqueTimestampTzToString(opaque) ==
    LET local == splitTicks(toLocal(joinTicks(opaque.utc), opaque.zone))
        date == decodeDate(local.date)
    IN  [matches |-> FourDigits(date.y), zone |-> opaque.zone, date |-> date, time |-> TimeFields(local.time)]

-----------------------------------------------------------------------------
(* What a setter makes of a C++ value, and what the getter reads from that. *)
There(kind, v) ==
    CASE kind = "date" -> dateToOpaqueDate(v)
      [] kind = "time" -> timeToOpaqueTime(v)
      [] kind = "timeTz" -> timeTzToOpaqueTimeTz(v)
      [] kind = "timestamp" -> timestampToOpaqueTimestamp(v)
      [] kind = "timestampTz" -> timestampTzToOpaqueTimestampTz(v)
Back(kind, o) ==
    CASE kind = "date" -> opaqueDateToDate(o)
      [] kind = "time" -> opaqueTimeToTime(o)
      [] kind = "timeTz" -> opaqueTimeTzToTimeTz(o)
      [] kind = "timestamp" -> opaqueTimestampToTimestamp(o)
      [] kind = "timestampTz" -> opaqueTimestampTzToTimestampTz(o)

(* What setString stores of a text, and what getString reads of that. *)
Parsed(kind, s) ==
    CASE kind = "date" -> stringToOpaqueDate(s)
      [] kind = "time" -> stringToOpaqueTime(s)
      [] kind = "timeTz" -> stringToOpaqueTimeTz(s)
      [] kind = "timestamp" -> stringToOpaqueTimestamp(s)
      [] kind = "timestampTz" -> stringToOpaqueTimestampTz(s)
Printed(kind, o) ==
    CASE kind = "date" -> opaqueDateToString(o)
      [] kind = "time" -> opaqueTimeToString(o)
      [] kind = "timeTz" -> opaqueTimeTzToString(o)
      [] kind = "timestamp" -> opaqueTimestampToString(o)
      [] kind = "timestampTz" -> opaqueTimestampTzToString(o)
=============================================================================
