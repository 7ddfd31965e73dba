----------------------------- MODULE JsonIntegers -----------------------------
(***************************************************************************)
(* The integer codec of _json.py: where Python refuses to convert a number *)
(* of too many digits, the digits are converted group by group.            *)
(*                                                                         *)
(* X_... is X with a plausible bug; only the README's table refers to it.  *)
(***************************************************************************)
EXTENDS Integers, Sequences, SequencesExt

CONSTANTS
    Radix,        \* 10
    Digits,       \* _DIGITS, 500
    StrLimit,     \* sys.get_int_max_str_digits(), at least 640
    MaxInteger    \* bound: the integers the property looks at

ASSUME CodecAssumption ==
    /\ Radix \in Nat \ {0, 1} /\ Digits \in Nat \ {0}
    /\ StrLimit \in Nat /\ Digits <= StrLimit
    /\ MaxInteger \in Nat

VARIABLE integer    \* the integer that is written and read back

AnyInteger == integer \in -MaxInteger..MaxInteger

-----------------------------------------------------------------------------
(* Python's own str and int, on sequences of digits. *)

Str[n \in Nat] == IF n < Radix THEN <<n>> ELSE Append(Str[n \div Radix], n % Radix)

Int_(digits) == FoldLeft(LAMBDA value, d : value * Radix + d, 0, digits)

Text(v) == [negative |-> v < 0, digits |-> Str[IF v < 0 THEN -v ELSE v]]

-----------------------------------------------------------------------------
(* _parse_int. *)

\* digits[0:_DIGITS], digits[_DIGITS:2 * _DIGITS], ...; the last may be shorter.
GroupsOf(digits) ==
    [k \in 1..((Len(digits) + Digits - 1) \div Digits) |->
        SubSeq(digits, (k - 1) * Digits + 1,
               IF k * Digits < Len(digits) THEN k * Digits ELSE Len(digits))]

Joined_Fixed(value, group) == value * Radix^Digits + Int_(group)
Joined(value, group) == value * Radix^Len(group) + Int_(group)

ParseInt(text) ==
    LET value == IF Len(text.digits) <= StrLimit
                 THEN Int_(text.digits)
                 ELSE FoldLeft(Joined, 0, GroupsOf(text.digits))
    IN  IF text.negative THEN -value ELSE value

-----------------------------------------------------------------------------
(* _integer_text. *)

\* The remainders of repeated divmod, the last one first.
Remainders[n \in Nat] ==
    IF n = 0 THEN <<>>
    ELSE Append(Remainders[n \div Radix^Digits], n % Radix^Digits)

Zfill(digits) == [i \in 1..(Digits - Len(digits)) |-> 0] \o digits

IntegerText(v) ==
    LET n == IF v < 0 THEN -v ELSE v
        groups == Remainders[n]
    IN  IF Len(Str[n]) <= StrLimit
        THEN Text(v)
        ELSE [negative |-> v < 0,
              digits |-> FoldLeft(LAMBDA digits, group : digits \o Zfill(Str[group]),
                                  Str[Head(groups)], Tail(groups))]

-----------------------------------------------------------------------------
\* The digits written are those of the integer, without leading zeros, and they
\* are read back as the same integer: middle groups are padded, the first one is
\* not, and the last group read may be short (_parse_int, _integer_text).
IntegersSurvive ==
    IntegerText(integer) = Text(integer) /\ ParseInt(IntegerText(integer)) = integer
=============================================================================
