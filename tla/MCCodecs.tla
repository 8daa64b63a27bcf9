------------------------------ MODULE MCCodecs ------------------------------
(* Codecs for TLC: scaled widths, every value of every integer type, boundary instants. *)
EXTENDS Codecs, TLC

ScaledBits == 8 :> 2 @@ 16 :> 3 @@ 32 :> 4 @@ 64 :> 5 @@ 128 :> 6

Cell(ty, opt, v) == [ty |-> ty, opt |-> opt, v |-> v]

\* One integer column with each value it can hold.
IntRows == UNION {{<<Cell(ty, FALSE, v)>> : v \in Values(ty)} : ty \in IntTypes}

\* Rows of two columns, to see where the reader stands after an Option.
PairRows == {<<Cell("i16", TRUE, a), Cell(ty, opt, b)>> :
                a \in {Null, 0, 2}, ty \in {"i32", "i64"}, opt \in BOOLEAN, b \in {1, 3}}
            \cup {<<Cell(ty, TRUE, Null), Cell("u64", TRUE, b)>> : ty \in IntTypes, b \in {Null, 31}}

\* The first and last seconds of days: around the epoch and the limit, leap days, ends of years.
Days == {0, 1, 30, 31, 58, 59, 60, 364, 365, 730, 788, 789, 790, 1095, 1096,
         10956, 10957, 11014, 11015, 11016, 11017, 11322, 11323, 11573}
Nanos == 0 .. TicksPerSecond * NanosPerMicro - 1
Moments == {<<86400 * d + s, n>> : d \in Days, s \in {0, 1, 3599, 43261, 86399}, n \in Nanos}
           \cup {<<s, n>> : s \in {-2, -1, 0, 1, TimestampLimit, TimestampLimit + 1}, n \in Nanos}
TimeRows == {<<Cell("systemtime", FALSE, t)>> : t \in Moments}
            \cup {<<Cell("systemtime", TRUE, Null)>>}

AllRows == IntRows \cup PairRows \cup TimeRows

\* Numerics of other clients: larger than any integer type, with a fraction, or not finite.
Numerics == {[k |-> "numeric", neg |-> n, weight |-> w, digits |-> ds] :
                n \in BOOLEAN, w \in -1 .. 4, ds \in {<<1>>, <<2, 1>>, <<1, 0, 2>>}}
            \cup {[k |-> "nan", neg |-> FALSE, weight |-> 0, digits |-> <<>>]}
Foreign(d, ty, kept) == [dialect |-> d, cols |-> <<[ty |-> ty, opt |-> FALSE, kept |-> kept]>>]
NullColumn == [k |-> "null"]
ZeroDate ==
    [k |-> "date", day |-> <<0, 0, 0>>, hour |-> 0, minute |-> 0, second |-> 0, ticks |-> 0]
ForeignCells ==
    {Foreign("postgres", ty, n) : ty \in {"i128", "u64", "u128"}, n \in Numerics}
    \cup {Foreign("postgres", ty, [k |-> "int8", v |-> v]) :
             ty \in {"i64", "isize", "u32", "usize"}, v \in Values("i64")}
    \cup {Foreign(d, ty, [k |-> "integer", v |-> v]) :
             d \in {"mysql", "sqlite"}, ty \in IntTypes, v \in {-16, -9, -1, 0, 4, 7, 15}}
    \cup {Foreign(d, ty, NullColumn) : d \in {"postgres", "mysql", "sqlite"}, ty \in IntTypes}
    \cup {Foreign("mysql", "systemtime", s) :
             s \in {ZeroDate, [ZeroDate EXCEPT !.day = <<1970, 1, 1>>, !.second = 1],
                    [k |-> "date", day |-> <<2000, 2, 29>>, hour |-> 23, minute |-> 59, second |-> 59, ticks |-> 1]}}
=============================================================================
