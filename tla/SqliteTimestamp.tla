---------------------------- MODULE SqliteTimestamp ----------------------------
(***************************************************************************)
(* Instants as the SQLite adapter stores and compares them: as TEXT.  SQL  *)
(* writes strftime('%Y-%m-%dT%H:%M:%f000Z'), three fractional digits and   *)
(* three zeros; import writes the RFC 3339 form of the Rust value, without *)
(* trailing zeros.  claim compares available_at with its operation time    *)
(* byte by byte.                                                           *)
(*                                                                         *)
(* An instant is a number of milliseconds.  Digits have base Base (ten in  *)
(* the program), and the fixed-width part up to the second is one symbol.  *)
(* A text is a sequence of symbols that are ordered as their bytes are:    *)
(* the point before the digits, the digits before the letter Z.            *)
(***************************************************************************)
EXTENDS Integers, Sequences

CONSTANTS
  Base,          \* number of digits
  Seconds,       \* bound on the clock
  ReleaseDelays  \* release delays, in milliseconds

\* A digit is zero or another one.
ASSUME TimestampAssumption == Base \in Nat /\ Base >= 2 /\ Seconds \in Nat

VARIABLES
  wallClock,     \* the clock
  madeBy,        \* how the row was last made pending, "none" before the first time
  meantAt,       \* history: the instant from which it is meant to be available
  availableText  \* the available_at column

timestampvars == <<wallClock, madeBy, meantAt, availableText>>

Second == Base * Base * Base
Instants == 0..(Seconds * Second - 1)

Point == 0
FractionDigit(d) == d + 1
Zero == FractionDigit(0)
Zulu == Base + 1

\* The second of an instant, and its first three fractional digits.
SecondOf(n) == ((n \div Base) \div Base) \div Base
Fraction(n) ==
  << FractionDigit(((n \div Base) \div Base) % Base),
     FractionDigit((n \div Base) % Base),
     FractionDigit(n % Base) >>

-------------------------------------------------------------------------------
\* Mutation of Strftime: the zeros are missing from a whole second.
StrftimeTrimmed(n) ==
  LET f == Fraction(n)
  IN  IF n % Second = 0 THEN << SecondOf(n), Zulu >>
      ELSE << SecondOf(n), Point, f[1], f[2], f[3], Zero, Zero, Zero, Zulu >>

\* strftime('%Y-%m-%dT%H:%M:%f000Z', ...)
Strftime(n) ==
  LET f == Fraction(n)
  IN  << SecondOf(n), Point, f[1], f[2], f[3], Zero, Zero, Zero, Zulu >>

\* parse_timestamp: a missing digit is zero.
parse_timestamp(x) ==
  LET digit(i) == IF i + 2 < Len(x) THEN x[i + 2] - 1 ELSE 0
  IN  ((x[1] * Base + digit(1)) * Base + digit(2)) * Base + digit(3)

\* format_timestamp: RFC 3339 in UTC, without the trailing zeros of the fraction.
format_timestamp(n) ==
  LET s == SecondOf(n)
      f == Fraction(n)
  IN  CASE f[3] # Zero -> << s, Point, f[1], f[2], f[3], Zulu >>
        [] f[3] = Zero /\ f[2] # Zero -> << s, Point, f[1], f[2], Zulu >>
        [] f[3] = Zero /\ f[2] = Zero /\ f[1] # Zero -> << s, Point, f[1], Zulu >>
        [] f[3] = Zero /\ f[2] = Zero /\ f[1] = Zero -> << s, Zulu >>

\* The operation time of import: SQLite's text, parsed and formatted again.
ImportText(t) == format_timestamp(parse_timestamp(Strftime(t)))

\* x <= y in SQLite's BINARY collation.
TextLeq(x, y) ==
  \/ Len(x) <= Len(y) /\ \A j \in 1..Len(x) : x[j] = y[j]
  \/ \E i \in 1..Len(x) :
       /\ i <= Len(y) /\ x[i] < y[i]
       /\ \A j \in 1..(i - 1) : x[j] = y[j]

\* The candidate predicate of claim on a pending row.
EligibleText(n) == TextLeq(availableText, Strftime(n))

-------------------------------------------------------------------------------
TimestampInit == wallClock = 0 /\ madeBy = "none" /\ meantAt = 0 /\ availableText = Strftime(0)

TimestampTick ==
  /\ wallClock + 1 \in Instants
  /\ wallClock' = wallClock + 1
  /\ UNCHANGED <<madeBy, meantAt, availableText>>

\* The DEFAULT of enqueued_at, copied into available_at.
EnqueueText ==
  /\ madeBy = "none"
  /\ madeBy' = "enqueued" /\ meantAt' = wallClock /\ availableText' = Strftime(wallClock)
  /\ UNCHANGED wallClock

ImportRow ==
  /\ madeBy = "none"
  /\ madeBy' = "imported" /\ meantAt' = wallClock /\ availableText' = ImportText(wallClock)
  /\ UNCHANGED wallClock

\* The row is claimed and released with a delay (or retried after a back-off).
ClaimAndReleaseText ==
  /\ madeBy # "none" /\ EligibleText(wallClock)
  /\ \E delay \in ReleaseDelays :
       /\ meantAt' = wallClock + delay
       /\ meantAt' \in Instants
       /\ availableText' = Strftime(wallClock + delay)
  /\ madeBy' = "released"
  /\ UNCHANGED wallClock

TimestampNext == TimestampTick \/ EnqueueText \/ ImportRow \/ ClaimAndReleaseText

TimestampSpec == TimestampInit /\ [][TimestampNext]_timestampvars

-------------------------------------------------------------------------------
(* Properties.                                                             *)

\* For a row whose availability SQL wrote (enqueue, retry, release), claim's
\* comparison of texts is the comparison of instants, at every operation time.
TextOrderIsTimeOrder ==
  madeBy \in {"enqueued", "released"} =>
    \A n \in Instants : EligibleText(n) <=> meantAt <= n

\* The comparison treats an imported row as one that is available from some
\* instant not before the import and at most a second after it: never early, and
\* once eligible always eligible.  (ImportSkew of Delivery is this second.)
ImportSkewBounded ==
  madeBy = "imported" =>
    \E skew \in 0..Second :
      \A n \in Instants : EligibleText(n) <=> meantAt + skew <= n

\* The stored text reads back as the instant that was meant, whoever wrote it.
ReadsBack == parse_timestamp(availableText) = meantAt

\* SQLite's comparison of timestamp texts is the comparison of instants for every time
\* SQL wrote, every stored text reads back as the instant that was meant, and an
\* imported row is available at most a second after its import.
TimestampsFaithful ==
  /\ TextOrderIsTimeOrder
  /\ ReadsBack
  /\ ImportSkewBounded

\* "treats a `pending` row as eligible when `available_at <= operation_time`": an
\* imported row can be claimed from its import on.
ImportedOnTime ==
  madeBy = "imported" => \A n \in Instants : meantAt <= n => EligibleText(n)
================================================================================
