------------------------------ MODULE SseParser ------------------------------
(***************************************************************************)
(* _sse: server-sent events out of a body that arrives in chunks of any    *)
(* size.  A byte is one of the members of Bytes; "d" stands for the data:  *)
(* that makes a line a data line when it comes first, "b" for a byte of    *)
(* the byte order mark, which is three of them.                            *)
(*                                                                         *)
(* X_... is X with a plausible bug; only the README's table refers to it.  *)
(***************************************************************************)
EXTENDS Integers, Sequences, FiniteSets, SequencesExt

CONSTANTS
    Limit,      \* max_payload_bytes
    MaxBody     \* bound: bytes in a body

ASSUME SseAssumption == Limit \in Nat \ {0, 1} /\ MaxBody \in Nat

Bytes == {"cr", "lf", "d", "b", "x"}
Bom == <<"b", "b", "b">>

VARIABLES
    body,     \* the whole body; the Provider's, never changes
    fed,      \* history: how many bytes of it the parser has been given
    parser    \* the local variables of _sse

vars == <<body, fed, parser>>

Fresh == [prefix |-> <<>>, previousCr |-> FALSE, event |-> <<>>, lineStart |-> 0,
          values |-> <<>>, error |-> "none"]

Init == body \in [1..MaxBody -> Bytes] /\ fed = 0 /\ parser = Fresh

-----------------------------------------------------------------------------
(* One event. *)

\* The lines of a sequence of bytes that ends a line.
Lines(bytes) ==
    LET ends == SetToSortSeq({0} \cup {i \in DOMAIN bytes : bytes[i] = "lf"}, <)
    IN  [k \in 1..(Len(ends) - 1) |-> SubSeq(bytes, ends[k] + 1, ends[k + 1] - 1)]

\* The values of its data lines.
DataOf(bytes) ==
    LET data == SelectSeq(Lines(bytes), LAMBDA line : line # <<>> /\ line[1] = "d")
    IN  [k \in DOMAIN data |-> Tail(data[k])]

\* Within an event the mark is a character like any other, a part of it is none.
Utf8(bytes) ==
    \A line \in ToSet(Lines(bytes)) :
        \E cut \in SUBSET DOMAIN line :
            /\ {i \in DOMAIN line : line[i] = "b"} = UNION {i..(i + 2) : i \in cut}
            /\ \A i, j \in cut : i < j => i + 2 < j

\* An empty line has come.
Dispatch(p) ==
    LET q == [p EXCEPT !.event = <<>>, !.lineStart = 0]
        data == DataOf(p.event)
    IN  CASE ~Utf8(p.event) -> [q EXCEPT !.error = "60007"]
          [] Utf8(p.event) /\ data = <<>> -> q
          [] Utf8(p.event) /\ data # <<>> -> [q EXCEPT !.values = Append(@, data)]

-----------------------------------------------------------------------------
(* The loop over the bytes of a chunk. *)

TooLarge_Late(event) == Len(event) > Limit
TooLarge(event) == Len(event) >= Limit

\* A byte that is not the LF of a CR LF, as it is put into the event.
Put(p, byte) ==
    LET q == [p EXCEPT !.event = Append(@, byte)]
        empty == Len(p.event) = p.lineStart
    IN  CASE TooLarge(p.event) -> [p EXCEPT !.event = <<>>, !.error = "60008"]
          [] ~TooLarge(p.event) /\ byte # "lf" -> q
          [] ~TooLarge(p.event) /\ byte = "lf" /\ ~empty -> [q EXCEPT !.lineStart = Len(q.event)]
          [] ~TooLarge(p.event) /\ byte = "lf" /\ empty -> Dispatch(q)

OneByte(p, byte) ==
    CASE p.error # "none" -> p
      [] p.error = "none" /\ p.previousCr /\ byte = "lf" -> [p EXCEPT !.previousCr = FALSE]
      [] OTHER -> Put([p EXCEPT !.previousCr = byte = "cr"], IF byte = "cr" THEN "lf" ELSE byte)

PrefixRead(p) == Len(p.prefix) = 3

\* The first three bytes are held back until it is known that they are no mark.
Prefixed(p, chunk) ==
    LET needed == IF Len(chunk) < 3 - Len(p.prefix) THEN Len(chunk) ELSE 3 - Len(p.prefix)
        prefix == p.prefix \o SubSeq(chunk, 1, needed)
        rest == SubSeq(chunk, needed + 1, Len(chunk))
    IN  <<[p EXCEPT !.prefix = prefix],
          CASE PrefixRead(p) \/ prefix = Bom -> rest
            [] ~PrefixRead(p) /\ Len(prefix) < 3 -> <<>>
            [] ~PrefixRead(p) /\ Len(prefix) = 3 /\ prefix # Bom -> prefix \o rest>>

\* What read1 is asked for: one byte more than the event may still take.
Allowance(p) == Limit - Len(p.event) + 1

Read ==
    /\ parser.error = "none"
    /\ \E n \in 1..(MaxBody - fed) :
          /\ n <= Allowance(parser)
          /\ LET start == Prefixed(parser, SubSeq(body, fed + 1, fed + n))
             IN  parser' = FoldLeft(OneByte, start[1], start[2])
          /\ fed' = fed + n
    /\ UNCHANGED body

\* The end of the body: the iteration ends with 60007, whatever is left.
Ended == (parser.error # "none" \/ fed = MaxBody) /\ UNCHANGED vars

Next == Read \/ Ended

Spec == Init /\ [][Next]_vars

-----------------------------------------------------------------------------
(* The body read as a whole. *)

\* Without the mark; a CR LF and a CR are one line end.
Normalised(bytes) ==
    LET text == IF Len(bytes) >= 3 /\ SubSeq(bytes, 1, 3) = Bom
                THEN SubSeq(bytes, 4, Len(bytes)) ELSE bytes
        kept == SetToSortSeq({i \in DOMAIN text :
                    ~(text[i] = "lf" /\ i > 1 /\ text[i - 1] = "cr")}, <)
    IN  [k \in DOMAIN kept |-> IF text[kept[k]] = "cr" THEN "lf" ELSE text[kept[k]]]

\* Events end with an empty line.  What follows the last one is unfinished.
Expected(bytes) ==
    LET text == Normalised(bytes)
        ends == SetToSortSeq({0} \cup {i \in DOMAIN text :
                    text[i] = "lf" /\ (i = 1 \/ text[i - 1] = "lf")}, <)
        events == [k \in 1..(Len(ends) - 1) |-> SubSeq(text, ends[k] + 1, ends[k + 1])]
        unfinished == SubSeq(text, Last(ends) + 1, Len(text))
        bad == {k \in DOMAIN events : Len(events[k]) > Limit \/ ~Utf8(events[k])}
        good == IF bad = {} THEN events
                ELSE SubSeq(events, 1, (CHOOSE k \in bad : \A j \in bad : k <= j) - 1)
        first == events[Len(good) + 1]
    IN  [values |-> SelectSeq([k \in DOMAIN good |-> DataOf(good[k])], LAMBDA v : v # <<>>),
         error |-> CASE bad # {} /\ Len(first) > Limit -> "60008"
                     [] bad # {} /\ Len(first) <= Limit -> "60007"
                     [] bad = {} /\ Len(unfinished) > Limit -> "60008"
                     [] OTHER -> "none"]

\* Whatever the chunks, the parser has yielded the events of what it was given,
\* each joined from its data lines, and has found the first event that is too
\* large, with its blank line, as soon as there was one byte too many: a mark, a
\* CR LF and a blank line may be split between two reads (_sse).
EventsMatch ==
    fed >= 3 => [values |-> parser.values, error |-> parser.error] = Expected(SubSeq(body, 1, fed))
=============================================================================
