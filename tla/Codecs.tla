------------------------------- MODULE Codecs -------------------------------
(***************************************************************************)
(* The codecs of the three backends: how a Rust value of a column type is  *)
(* bound as the driver's native parameter, what the database then keeps in *)
(* the column, and how the row reader of the backend turns the column back *)
(* into a Rust value.  A row is bound and stored by one statement and read *)
(* back by another; between the two another client may have written it.    *)
(*                                                                         *)
(* Integer widths, the base of PostgreSQL's numeric digits and the range   *)
(* of MySQL's TIMESTAMP are constants, so that their boundaries are within *)
(* reach of TLC.                                                           *)
(***************************************************************************)
EXTENDS Integers, Sequences

CONSTANTS
    Bits,            \* the number of bits modelled for each of the widths 8, 16, 32, 64 and 128
    NumericBase,     \* PostgresNumericInteger::BASE
    TicksPerSecond,  \* how many microseconds the model tells apart in a second
    NanosPerMicro,   \* how many instants of a SystemTime it tells apart in a microsecond
    TimestampLimit,  \* the last second of MySQL's TIMESTAMP
    WrittenRows,     \* the rows the program writes: sequences of [ty, opt, v]
    ForeignRows,     \* the rows other clients write: [dialect, cols], a column [ty, opt, kept]
    Null,            \* Rust's None
    Err              \* an Err of the backend's error type

ASSUME WidthsGrow ==
    /\ \A w \in {8, 16, 32, 64, 128} : Bits[w] \in Nat \ {0}
    /\ \A w \in {8, 16, 32, 64} : Bits[w] < Bits[2 * w]
ASSUME ConstantsAreTyped ==
    /\ NumericBase \in Nat \ {0, 1}
    /\ TicksPerSecond \in Nat \ {0} /\ NanosPerMicro \in Nat \ {0}
    /\ TimestampLimit \in Nat
ASSUME NullAndErrAreNoValues ==
    /\ Null # Err
    /\ {Null, Err} \cap Int = {} /\ {Null, Err} \cap (Int \X Int) = {}

VARIABLES
    cells,   \* the row the program writes: [dialect, cols]
    stored,  \* what the database keeps of it, column by column
    row,     \* what reading it back gives, or Err
    step     \* "idle", "stored" or "read"

codecVars == <<cells, stored, row, step>>

-----------------------------------------------------------------------------
(* Values and their ranges *)

\* Rust's signed integer types and the width of every integer type.
SignedTypes == {"i8", "i16", "i32", "i64", "isize", "i128"}
WidthOf ==
    [i8 |-> 8, i16 |-> 16, i32 |-> 32, i64 |-> 64, isize |-> 64, i128 |-> 128,
     u8 |-> 8, u16 |-> 16, u32 |-> 32, u64 |-> 64, usize |-> 64, u128 |-> 128]
IntTypes == DOMAIN WidthOf

\* numeric_place: one factor at a time.
Power(base, exponent) ==
    LET place[k \in Nat] == IF k = 0 THEN 1 ELSE base * place[k - 1]
    IN  place[exponent]

\* The values of an integer type; try_from of an integer fails outside them.
Values(ty) ==
    LET b == Bits[WidthOf[ty]]
    IN  IF ty \in SignedTypes THEN -Power(2, b - 1) .. Power(2, b - 1) - 1 ELSE 0 .. Power(2, b) - 1

TryFrom(ty, v) == IF v \in Values(ty) THEN v ELSE Err

-----------------------------------------------------------------------------
(* PostgreSQL's numeric *)

Magnitude(v) == IF v < 0 THEN -v ELSE v

\* write_digits: "value" after each round of the loop, each of which writes a digit from the right.
WriteDigits(m) ==
    LET value[k \in Nat] == IF k = 0 THEN m ELSE value[k - 1] \div NumericBase
        rounds == CHOOSE k \in 0 .. m : value[k] = 0 /\ \A j \in 0 .. k - 1 : value[j] # 0
    IN  [i \in 1 .. rounds |-> value[rounds - i] % NumericBase]

\* write_numeric: the weight of the first digit is one less than their number, zero has none.
WriteNumeric(v) ==
    [k      |-> "numeric",
     neg    |-> v < 0,
     weight |-> IF v = 0 THEN 0 ELSE Len(WriteDigits(Magnitude(v))) - 1,
     digits |-> WriteDigits(Magnitude(v))]

\* checked_mul, checked_add: anything beyond u128 is an error.
Checked(m) == IF m \in Values("u128") THEN m ELSE Err

\* from_sql: each digit counts for its place; a fraction or a magnitude beyond u128 is refused.
ReadNumeric(n) ==
    LET place(i) == n.weight - (i - 1)
        sum[i \in 0 .. Len(n.digits)] ==
            IF i = 0 THEN 0
            ELSE IF sum[i - 1] = Err THEN Err
            ELSE IF place(i) < 0 THEN IF n.digits[i] # 0 THEN Err ELSE sum[i - 1]
            ELSE IF Checked(Power(NumericBase, place(i))) = Err THEN Err
            ELSE IF Checked(n.digits[i] * Power(NumericBase, place(i))) = Err THEN Err
            ELSE Checked(sum[i - 1] + n.digits[i] * Power(NumericBase, place(i)))
        m == sum[Len(n.digits)]
    IN  IF n.k = "nan" \/ n.weight < -1 THEN Err
        ELSE IF m = Err THEN Err
        ELSE IF n.neg THEN -m ELSE m

\* External: the server keeps no trailing zero digits.
TrimZeros(n) ==
    LET last == CHOOSE k \in 0 .. Len(n.digits) :
                    /\ k # 0 => n.digits[k] # 0
                    /\ \A i \in k + 1 .. Len(n.digits) : n.digits[i] = 0
    IN  [n EXCEPT !.digits = [i \in 1 .. last |-> n.digits[i]]]

\* The integer a numeric means, by its definition; one with a fraction, and NaN, means none.
NumericValue(n) ==
    LET whole(i) == n.weight - (i - 1) >= 0
        total[i \in 0 .. Len(n.digits)] ==
            IF i = 0 THEN 0
            ELSE total[i - 1]
                 + IF whole(i) THEN n.digits[i] * Power(NumericBase, n.weight - (i - 1)) ELSE 0
    IN  IF n.k = "nan" \/ \E i \in DOMAIN n.digits : ~whole(i) /\ n.digits[i] # 0 THEN Err
        ELSE IF n.neg THEN -total[Len(n.digits)] ELSE total[Len(n.digits)]

-----------------------------------------------------------------------------
(* The calendar of MySQL's SystemTime codec *)

\* Division of the source: towards zero, the divisor being positive.
Quot(a, b) == IF a >= 0 THEN a \div b ELSE -((-a) \div b)

\* days_from_civil
DaysFromCivil(y, m, d) ==
    LET year == IF m <= 2 THEN y - 1 ELSE y
        era  == Quot(IF year >= 0 THEN year ELSE year - 399, 400)
        yoe  == year - era * 400
        mi   == IF m > 2 THEN m - 3 ELSE m + 9
        doy  == (153 * mi + 2) \div 5 + d - 1
    IN  era * 146097 + yoe * 365 + yoe \div 4 - yoe \div 100 + doy - 719468

\* civil_from_days
CivilFromDays(days) ==
    LET z   == days + 719468
        era == Quot(IF z >= 0 THEN z ELSE z - 146096, 146097)
        doe == z - era * 146097
        yoe == (doe - doe \div 1460 + doe \div 36524 - doe \div 146096) \div 365
        doy == doe - (365 * yoe + yoe \div 4 - yoe \div 100)
        mp  == (5 * doy + 2) \div 153
        m   == IF mp < 10 THEN mp + 3 ELSE mp - 9
    IN  <<yoe + era * 400 + (IF m <= 2 THEN 1 ELSE 0), m, doy - (153 * mp + 2) \div 5 + 1>>

\* External: as_micros of a Duration <<seconds, nanoseconds>>; what is below a microsecond is dropped.
AsMicros(duration) == duration[1] * TicksPerSecond + duration[2] \div NanosPerMicro

\* External: the Duration from an instant before the epoch to the epoch.
UntilEpoch(t) ==
    IF t[2] = 0 THEN <<-t[1], 0>> ELSE <<-t[1] - 1, TicksPerSecond * NanosPerMicro - t[2]>>

\* Encode of SystemTime: an instant is <<seconds, nanoseconds>> and is bound in microseconds, counted
\* from the epoch or towards it; then the range check and the civil parts.
EncodeSystemTime(t) ==
    LET ticks   == IF t[1] >= 0 THEN AsMicros(t) ELSE -AsMicros(UntilEpoch(t))
        seconds == ticks \div TicksPerSecond
        day     == CivilFromDays(seconds \div 86400)
        rem     == seconds % 86400
    IN  IF seconds \notin 1 .. TimestampLimit THEN [k |-> "err"]
        ELSE [k |-> "date", day |-> day, hour |-> rem \div 3600,
              minute |-> (rem % 3600) \div 60, second |-> rem % 60, ticks |-> ticks % TicksPerSecond]

\* take_date refuses a civil time whose parts are out of range, as the zero date's are.
TakesDate(p) ==
    /\ p.day[2] \in 1 .. 12 /\ p.day[3] \in 1 .. 31
    /\ p.hour <= 23 /\ p.minute <= 59 /\ p.second <= 59 /\ p.ticks <= TicksPerSecond - 1

\* Decode of SystemTime.
DecodeSystemTime(p) ==
    IF TakesDate(p)
        THEN <<DaysFromCivil(p.day[1], p.day[2], p.day[3]) * 86400
                 + p.hour * 3600 + p.minute * 60 + p.second, p.ticks * NanosPerMicro>>
        ELSE Err

\* The Gregorian calendar by its definition: leap years and the lengths of months.
IsLeap(y) == (y % 4 = 0 /\ y % 100 # 0) \/ y % 400 = 0
MonthLength(y, m) ==
    CASE m = 2 -> IF IsLeap(y) THEN 29 ELSE 28
      [] m \in {4, 6, 9, 11} -> 30
      [] OTHER -> 31
DaysBefore(y, m) ==
    LET years[n \in Nat] == IF n = 0 THEN 0 ELSE years[n - 1] + IF IsLeap(1969 + n) THEN 366 ELSE 365
        months[n \in Nat] == IF n = 0 THEN 0 ELSE months[n - 1] + MonthLength(y, n)
    IN  years[y - 1970] + months[m - 1]

\* External: whether a civil time is one, and the instant it is in a session at '+00:00'.
IsDate(p) == p.day[2] \in 1 .. 12 /\ p.day[3] \in 1 .. MonthLength(p.day[1], p.day[2])
InstantOf(p) ==
    <<(DaysBefore(p.day[1], p.day[2]) + p.day[3] - 1) * 86400
        + p.hour * 3600 + p.minute * 60 + p.second, p.ticks * NanosPerMicro>>

-----------------------------------------------------------------------------
(* Binding: a parameter or column is a record whose k says what it is;     *)
(* "null" is SQL's NULL, "err" that there is none.                         *)

\* The column type write_pg_sql_type gives each Rust type.
PgColumn(ty) ==
    CASE ty \in {"i8", "i16", "u8"} -> "int2"
      [] ty \in {"i32", "u16"} -> "int4"
      [] ty \in {"i64", "isize", "u32", "usize"} -> "int8"
      [] OTHER -> "numeric"

\* impl_postgres_encode, and usize's own.
PgEncode(ty, v) ==
    CASE ty \in {"i8", "i16"} -> [k |-> "int2", v |-> v]
      [] ty \in {"i32", "u8", "u16"} -> [k |-> "int4", v |-> v]
      [] ty \in {"i64", "isize", "u32"} -> [k |-> "int8", v |-> v]
      [] ty = "usize" -> IF v \in Values("i64") THEN [k |-> "int8", v |-> v] ELSE [k |-> "err"]
      [] OTHER -> WriteNumeric(v)

\* impl_encode and impl_encode_wide_integer: beyond i64 the value is refused.
SqliteEncode(ty, v) ==
    IF v \in Values("i64") THEN [k |-> "integer", v |-> v] ELSE [k |-> "err"]

\* impl_mysql_encode; i128 and u128 beyond 64 bits travel as decimal text.
MysqlEncode(ty, v) ==
    CASE ty = "systemtime" -> EncodeSystemTime(v)
      [] ty \in SignedTypes ->
            [k |-> IF ty = "i128" /\ v \notin Values("i64") THEN "bytes" ELSE "int", v |-> v]
      [] OTHER ->
            [k |-> IF ty = "u128" /\ v \notin Values("u64") THEN "bytes" ELSE "uint", v |-> v]

\* Encode of a value or of an Option: None is bound as NULL.
Encode(d, ty, v) ==
    IF v = Null THEN [k |-> "null"]
    ELSE CASE d = "postgres" -> PgEncode(ty, v)
           [] d = "sqlite" -> SqliteEncode(ty, v)
           [] OTHER -> MysqlEncode(ty, v)

\* External: what the column keeps of a bound parameter.  tokio-postgres refuses a parameter whose
\* type is not the column's; MySQL and SQLite columns are taken to be wide enough for their type.
Store(d, ty, p) ==
    IF p.k \in {"null", "err"} THEN p
    ELSE CASE d = "postgres" ->
                IF p.k # PgColumn(ty) THEN [k |-> "err"] ELSE IF p.k = "numeric" THEN TrimZeros(p) ELSE p
           [] d = "mysql" /\ ty = "systemtime" -> IF IsDate(p) THEN p ELSE [k |-> "err"]
           [] OTHER -> [k |-> "integer", v |-> p.v]

-----------------------------------------------------------------------------
(* Reading *)

\* impl_postgres_decode_direct, _from_i64 and _from_numeric; try_get checks the column's type.
PgDecode(ty, s) ==
    CASE ty = "i16" -> IF s.k = "int2" THEN s.v ELSE Err
      [] ty = "i32" -> IF s.k = "int4" THEN s.v ELSE Err
      [] ty = "i64" -> IF s.k = "int8" THEN s.v ELSE Err
      [] ty \in {"i8", "isize", "u8", "u16", "u32", "usize"} ->
            IF s.k = "int8" THEN TryFrom(ty, s.v) ELSE Err
      [] OTHER ->
            IF s.k \notin {"numeric", "nan"} \/ ReadNumeric(s) = Err
                THEN Err ELSE TryFrom(ty, ReadNumeric(s))

\* i64::decode and impl_decode_from_i64 of SQLite.
SqliteDecode(ty, s) == IF s.k = "integer" THEN TryFrom(ty, s.v) ELSE Err

\* impl_mysql_decode_direct, _from_i64 and _from_u64; a timestamp arrives as its civil parts.
MysqlDecode(ty, s) ==
    CASE ty = "systemtime" ->
            IF s.k = "date" THEN DecodeSystemTime(s) ELSE Err
      [] OTHER -> IF s.k = "integer" THEN TryFrom(ty, s.v) ELSE Err

Decode(d, ty, s) ==
    CASE d = "postgres" -> PgDecode(ty, s)
      [] d = "sqlite" -> SqliteDecode(ty, s)
      [] OTHER -> MysqlDecode(ty, s)

\* Variant: the probe of a NULL leaves the reader on the column it probed.
ReadColumnUnmoved(d, c, s, r) ==
    IF s[r.index].k = "null"
        THEN IF c.opt THEN [index |-> r.index, out |-> Append(r.out, Null)]
             ELSE [index |-> r.index + 1, out |-> Append(r.out, Err)]
        ELSE [index |-> r.index + 1, out |-> Append(r.out, Decode(d, c.ty, s[r.index]))]

\* One column of a row reader: an Option peeks for NULL and skips it, everything else decodes there.
ReadColumn(d, c, s, r) ==
    IF s[r.index].k = "null"
        THEN [index |-> r.index + 1, out |-> Append(r.out, IF c.opt THEN Null ELSE Err)]
        ELSE [index |-> r.index + 1, out |-> Append(r.out, Decode(d, c.ty, s[r.index]))]

\* Decode of a row: its columns in the order the projection rendered them, the first error is the row's.
ReadColumns(d, cols, s) ==
    LET failed(r) == r.out # <<>> /\ r.out[Len(r.out)] = Err
        reader[i \in 0 .. Len(cols)] ==
            IF i = 0 THEN [index |-> 1, out |-> <<>>]
            ELSE IF failed(reader[i - 1]) THEN reader[i - 1]
            ELSE ReadColumn(d, cols[i], s, reader[i - 1])
    IN  IF failed(reader[Len(cols)]) THEN Err ELSE reader[Len(cols)].out

-----------------------------------------------------------------------------
(* A row written, stored and read back *)

IsRow(r) == r \in Seq({r[i] : i \in DOMAIN r})

\* The rows the program writes: None is for an Option only, an instant has any part of a second.
Instants == Int \X (0 .. TicksPerSecond * NanosPerMicro - 1)
ASSUME WrittenRowsAreTyped ==
    \A r \in WrittenRows :
        /\ IsRow(r)
        /\ \A i \in DOMAIN r :
            /\ r[i].ty \in IntTypes \cup {"systemtime"} /\ r[i].opt \in BOOLEAN
            /\ IF r[i].v = Null THEN r[i].opt
               ELSE r[i].v \in IF r[i].ty = "systemtime" THEN Instants ELSE Values(r[i].ty)

\* External: what a column that holds a Rust type may hold.  PostgreSQL keeps no leading zero digits
\* either; MySQL's TIMESTAMP is within its range or, outside strict mode, the zero date.
IsNumeric(n) ==
    /\ n.digits \in Seq(0 .. NumericBase - 1) /\ n.weight \in Int
    /\ IF n.digits = <<>> THEN n.weight = 0 ELSE n.digits[1] # 0
IsTimestamp(p) ==
    /\ p.day[1] \in Nat /\ p.day[1] >= 1970 /\ IsDate(p)
    /\ p.hour \in 0 .. 23 /\ p.minute \in 0 .. 59 /\ p.second \in 0 .. 59
    /\ p.ticks \in 0 .. TicksPerSecond - 1
    /\ InstantOf(p)[1] \in 1 .. TimestampLimit
Holds(d, ty, s) ==
    IF s.k = "null" THEN ty \in IntTypes \cup {"systemtime"}
    ELSE IF ty = "systemtime" THEN d = "mysql" /\ s.k = "date" /\ (IsTimestamp(s) \/ s.day = <<0, 0, 0>>)
    ELSE /\ ty \in IntTypes
         /\ CASE d = "postgres" /\ PgColumn(ty) = "numeric" ->
                    s.k = "nan" \/ (s.k = "numeric" /\ IsNumeric(s))
              [] d = "postgres" /\ PgColumn(ty) # "numeric" ->
                    /\ s.k = PgColumn(ty)
                    /\ s.v \in Values([int2 |-> "i16", int4 |-> "i32", int8 |-> "i64"][s.k])
              [] d = "sqlite" -> s.k = "integer" /\ s.v \in Values("i64")
              [] OTHER -> s.k = "integer" /\ s.v \in Int
ASSUME ForeignRowsAreHeld ==
    \A f \in ForeignRows :
        /\ f.dialect \in {"postgres", "mysql", "sqlite"} /\ IsRow(f.cols)
        /\ \A i \in DOMAIN f.cols : f.cols[i].opt \in BOOLEAN /\ Holds(f.dialect, f.cols[i].ty, f.cols[i].kept)

\* What a column's content means to SQL.
Meaning(s) ==
    CASE s.k = "null" -> Null
      [] s.k \in {"numeric", "nan"} -> NumericValue(s)
      [] s.k = "date" -> IF IsDate(s) THEN InstantOf(s) ELSE Err
      [] OTHER -> s.v

CodecInit ==
    /\ cells = [dialect |-> "none", cols |-> <<>>]
    /\ stored = <<>>
    /\ row = <<>>
    /\ step = "idle"

\* The program writes a row with one statement; a parameter that cannot be encoded stops it.
WriteRow ==
    /\ step = "idle"
    /\ \E d \in {"postgres", "mysql", "sqlite"}, r \in WrittenRows :
        LET kept == [i \in DOMAIN r |-> Store(d, r[i].ty, Encode(d, r[i].ty, r[i].v))]
            refused == \E i \in DOMAIN r : kept[i].k = "err"
        IN  /\ d # "mysql" => \A i \in DOMAIN r : r[i].ty # "systemtime"
            /\ cells' = [dialect |-> d, cols |-> r]
            /\ stored' = IF refused THEN <<>> ELSE kept
            /\ row' = IF refused THEN Err ELSE <<>>
            /\ step' = IF refused THEN "read" ELSE "stored"

\* Another client writes the row: SQL computed it, or another program did.
ForeignWrite ==
    /\ step = "idle"
    /\ \E f \in ForeignRows :
        /\ cells' = [dialect |-> f.dialect, cols |-> [i \in DOMAIN f.cols |->
                        [ty |-> f.cols[i].ty, opt |-> f.cols[i].opt, v |-> Meaning(f.cols[i].kept)]]]
        /\ stored' = [i \in DOMAIN f.cols |-> f.cols[i].kept]
        /\ step' = "stored"
    /\ UNCHANGED row

\* The program reads the row.
ReadRow ==
    /\ step = "stored"
    /\ row' = ReadColumns(cells.dialect, cells.cols, stored)
    /\ step' = "read"
    /\ UNCHANGED <<cells, stored>>

CodecNext == WriteRow \/ ForeignWrite \/ ReadRow

CodecSpec == CodecInit /\ [][CodecNext]_codecVars

-----------------------------------------------------------------------------
(* Properties *)

\* What a column type of a backend can carry, given that PostgreSQL binds and reads i8, u8 and u16
\* as different column types, and that usize beyond i64 and SQLite's wide integers have no column.
Carries(d, c) ==
    IF c.v = Null THEN c.opt
    ELSE IF c.v = Err THEN FALSE
    ELSE IF c.ty = "systemtime" THEN c.v[1] \in 1 .. TimestampLimit
    ELSE /\ c.v \in Values(c.ty)
         /\ d = "postgres" => c.ty \notin {"i8", "u8", "u16"} /\ (c.ty = "usize" => c.v \in Values("i64"))
         /\ d = "sqlite" => c.v \in Values("i64")

\* A timestamp resolves microseconds: what a SystemTime has below them is dropped.
AtMicros(t) == <<t[1], (t[2] \div NanosPerMicro) * NanosPerMicro>>
Resolved(c) == IF c.ty = "systemtime" /\ c.v \notin {Null, Err} THEN AtMicros(c.v) ELSE c.v

Meant == [i \in DOMAIN cells.cols |-> Resolved(cells.cols[i])]

\* What is read back is what was written, column for column, whoever wrote it: an instant to its
\* microsecond, the resolution the codecs state, everything else exactly.  Where a value has no
\* representation the row is an error, never another value (Encode, Decode and the row readers).
\* A timestamp's column holds the instant that was bound, to its microsecond.
RowsSurvive ==
    /\ step = "read" =>
          IF \A i \in DOMAIN cells.cols : Carries(cells.dialect, cells.cols[i])
              THEN row = Meant
              ELSE row = Err
    /\ \A i \in DOMAIN stored :
          (cells.cols[i].ty = "systemtime" /\ cells.cols[i].v \notin {Null, Err}) =>
              InstantOf(stored[i]) = AtMicros(cells.cols[i].v)
=============================================================================
