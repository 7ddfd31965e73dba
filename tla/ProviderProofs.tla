---------------------------- MODULE ProviderProofs ----------------------------
(***************************************************************************)
(* A ProviderCall keeps its promises for any number of addresses, aborting *)
(* threads, chunks and events, and for any budgets.                        *)
(***************************************************************************)
EXTENDS ProviderCall, TLAPS

\* The phases in which the task has installed a socket for good.
Settled == {"connect", "wrap", "handshake", "send", "head", "encoding", "body",
               "events", "yield", "over"}

\* TypeOK in two parts: the Boolean variables, and the others.
Flags == streaming \in BOOLEAN /\ https \in BOOLEAN /\ sse \in BOOLEAN /\ cancelled \in BOOLEAN

Fates == ErrorCodes \cup {"none", "returned", "dropped", "cancelled", "other"}

Types ==
    /\ phase \in Busy \cup Blocking
    /\ io \in {"loop", "check", "take", "blocked"}
    /\ addresses \in 0..MaxAddresses
    /\ own \in Sockets \cup {NoSocket} /\ socket \in Sockets \cup {NoSocket}
    /\ open \subseteq Sockets
    /\ size \in 0..Limit /\ pending \in 0..MaxPending
    /\ buffered \in 0..MaxBuffered
    /\ yielded \in {"none", "headers", "append"} \cup Endings
    /\ fate \in Fates
    /\ aborting \in [Aborters -> {"no", "marked", "closing", "done"}]
    /\ held \in [Aborters -> Sockets \cup {NoSocket}]
    /\ left \in Int /\ paused \in Nat /\ budget \in Nat /\ quiet \in Nat

\* Whoever holds an open socket: the task's own is in _socket or with an abort();
\* one that is being replaced is closed; one that is new is not in _socket yet.
SocketInv ==
    /\ phase \in {"idle", "begin", "resolve"} => open = {} /\ socket = NoSocket
    /\ phase = "address" => socket = NoSocket
    /\ phase = "install" => socket \notin open
    /\ phase \in {"connect", "wrap"} => own # Tls
    /\ phase \in Settled => socket \in {NoSocket, own}
    /\ phase \in Settled \cup {"address"} =>
          (own \in open => socket = own \/ \E a \in Aborters : held[a] = own)

\* An abort() holds a socket only while it closes it; after the first one has
\* taken its socket there is none to take any more.
AbortInv ==
    /\ \A a \in Aborters : aborting[a] # "closing" => held[a] = NoSocket
    /\ \A a \in Aborters : aborting[a] # "no" => cancelled
    /\ \A a \in Aborters : aborting[a] \in {"closing", "done"} => socket = NoSocket

\* All time goes to the Provider or to the consumer, and only what the Provider
\* used is gone; where a failure is raised without a check, there is time left.
TimeInv ==
    /\ left + paused + quiet = budget
    /\ phase \notin {"yield", "done"} => paused = 0
    /\ phase \in {"address", "encoding", "events"} => left > 0
    /\ phase = "body" /\ io = "check" => left > 0
    /\ phase = "yield" => left + paused > 0

\* What has been yielded fits the request and the place in the generator.
YieldInv ==
    /\ sse => streaming
    /\ streaming => yielded # "result"
    /\ ~streaming => yielded \in {"none", "result"}
    /\ phase \in {"idle", "begin", "resolve", "address", "install", "connect", "wrap",
                  "handshake", "send", "head"} => yielded = "none"
    /\ phase \in {"encoding", "body", "events"} =>
          /\ yielded \in {"none", "headers", "append"}
          /\ streaming => yielded # "none"
    /\ phase = "events" => streaming
    /\ phase = "yield" => yielded # "none"
    /\ phase = "over" => yielded \in Endings
    /\ phase = "done" <=> fate # "none"

PInv == Flags /\ Types /\ SocketInv /\ SocketsClosed /\ AbortInv /\ TimeInv /\ YieldInv /\ FirstCause
-----------------------------------------------------------------------------
\* Next without its stuttering.
Step ==
    \/ Start \/ Resolved \/ Connecting \/ Reading \/ IoError \/ Provider
    \/ Resume \/ Drop \/ Tick
    \/ \E a \in Aborters : Abort(a) \/ AbortTake(a) \/ AbortClose(a)

\* The ways in which the generator ends.
EndAny ==
    \/ End("60000") \/ End("60001") \/ End("60002") \/ End("60003") \/ End("60007")
    \/ End("60008") \/ End("cancelled") \/ End("other")

\* What the assumption on the constants says, in the form the provers need.
LEMMA Constants ==
    /\ MaxAddresses \in Nat /\ MaxAddresses > 0
    /\ HeaderBudget \in Nat /\ HeaderBudget > 0
    /\ IdleBudget \in Nat /\ IdleBudget > 0
    /\ MaxLate \in Nat /\ MaxPause \in Nat /\ Limit \in Nat
    /\ MaxPending \in Nat /\ MaxBuffered \in Nat
  BY CallAssumption

\* Ending the generator keeps the types.
LEMMA EndTypes ==
    ASSUME Types, NEW how \in Fates, End(how), UNCHANGED <<request, aborts>>
    PROVE  Types'
  BY DEF Types, Fates, End, Close, reading, aborts, time, Sockets, NoSocket, Tls, Busy

\* Every step keeps the types; a step that may end the generator is split into the
\* ending and the rest.
LEMMA TypeStep == PInv /\ Step => Types'
  <1> SUFFICES ASSUME PInv, Step PROVE Types'
    OBVIOUS
  <1> USE Constants DEF PInv, Types, Fates, Busy, Blocking, ErrorCodes, Endings, Sockets,
        NoSocket, Tls, Local, request, reading, program, sockets, aborts, time
  <1>1. CASE Start
    BY <1>1 DEF Start, Go, Restart
  <1>2. CASE Begin
    BY <1>2 DEF Begin, Checked, End, Close, Go
  <1>3. CASE Resolved
    <2>1. EndAny \/ (phase' = "address" /\ addresses' \in 1..MaxAddresses
                      /\ UNCHANGED <<io, own, reading, fate, sockets, time>>)
      BY <1>3 DEF Resolved, Checked, EndAny
    <2>2. UNCHANGED <<request, aborts>>
      BY <1>3 DEF Resolved
    <2>3. CASE EndAny
      BY <2>2, <2>3, EndTypes DEF EndAny
    <2>4. CASE (phase' = "address" /\ addresses' \in 1..MaxAddresses
                      /\ UNCHANGED <<io, own, reading, fate, sockets, time>>)
      BY <1>3, <2>2, <2>4 DEF Resolved, Checked
    <2>5. QED
      BY <2>1, <2>3, <2>4
  <1>4. CASE Create
    <2>1. EndAny \/ (\E s \in 1..MaxAddresses :
                       /\ phase' = "install" /\ own' = s /\ open' = open \cup {s}
                       /\ addresses' = addresses - 1 /\ addresses > 0
                       /\ UNCHANGED <<io, reading, fate, socket, time>>)
      BY <1>4 DEF Create, MoreAddresses, Checked, EndAny
    <2>2. UNCHANGED <<request, aborts>>
      BY <1>4 DEF Create
    <2>3. CASE EndAny
      BY <2>2, <2>3, EndTypes DEF EndAny
    <2>4. CASE (\E s \in 1..MaxAddresses :
                       /\ phase' = "install" /\ own' = s /\ open' = open \cup {s}
                       /\ addresses' = addresses - 1 /\ addresses > 0
                       /\ UNCHANGED <<io, reading, fate, socket, time>>)
      BY <1>4, <2>2, <2>4 DEF Create, MoreAddresses, Checked
    <2>5. QED
      BY <2>1, <2>3, <2>4
  <1>5. CASE Install
    BY <1>5 DEF Install, Go, Installed
  <1>6. CASE Wrap
    <2>1. EndAny \/ (/\ phase' = "install" /\ own' = Tls /\ open' = (open \ {own}) \cup {Tls}
                 /\ UNCHANGED <<io, addresses, reading, fate, socket, time>>)
      BY <1>6 DEF Wrap, Checked, EndAny
    <2>2. UNCHANGED <<request, aborts>>
      BY <1>6 DEF Wrap
    <2>3. CASE EndAny
      BY <2>2, <2>3, EndTypes DEF EndAny
    <2>4. Tls \in Sockets /\ open \ {own} \subseteq Sockets
      BY DEF Types, Sockets, Tls
    <2>5. CASE (/\ phase' = "install" /\ own' = Tls /\ open' = (open \ {own}) \cup {Tls}
                 /\ UNCHANGED <<io, addresses, reading, fate, socket, time>>)
      BY <2>2, <2>5, <2>4
    <2>6. QED
      BY <2>1, <2>3, <2>5
  <1>7. CASE Loop
    BY <1>7 DEF Loop, Checked, End, Close
  <1>8. CASE Check
    BY <1>8 DEF Check, Checked, End, Close
  <1>9. CASE Take
    BY <1>9 DEF Take, End, Close
  <1>10. CASE IoError
    <2>1. EndAny \/ (/\ phase' = "address" /\ Close
                    /\ UNCHANGED <<io, addresses, own, reading, fate, time>>)
      BY <1>10 DEF IoError, Blocked, Failed, NextAddress, Checked, EndAny
    <2>2. UNCHANGED <<request, aborts>>
      BY <1>10 DEF IoError
    <2>3. CASE EndAny
      BY <2>2, <2>3, EndTypes DEF EndAny
    <2>4. CASE (/\ phase' = "address" /\ Close
                /\ UNCHANGED <<io, addresses, own, reading, fate, time>>)
      BY <2>2, <2>4 DEF Close
    <2>5. QED
      BY <2>1, <2>3, <2>4
  <1>11. CASE IoDone
    BY <1>11 DEF IoDone, Blocked, Checked, End, Close, Go
  <1>12. CASE Head
    <2>1. EndAny \/ (io' = "check" /\ UNCHANGED <<phase, Local, time>>) \/ HeadersRead
      BY <1>12 DEF Head, Checked, EndAny
    <2>2. UNCHANGED <<request, aborts>>
      BY <1>12 DEF Head
    <2>3. CASE EndAny
      BY <2>2, <2>3, EndTypes DEF EndAny
    <2>4. CASE io' = "check" /\ UNCHANGED <<phase, Local, time>>
      BY <2>2, <2>4
    <2>5. CASE HeadersRead
      <3>1. /\ left' = IdleBudget /\ budget' = IdleBudget /\ quiet' = 0 /\ paused' = paused
            /\ buffered' \in 0..MaxBuffered
            /\ phase' \in {"yield", "encoding"} /\ io' = "loop"
            /\ yielded' \in {"headers", yielded}
            /\ UNCHANGED <<addresses, own, size, pending, fate, sockets>>
        BY <2>5 DEF HeadersRead, Restart, YieldEvent, Go
      <3>2. QED
        BY <2>2, <3>1
    <2>6. QED
      BY <2>1, <2>3, <2>4, <2>5
  <1>13. CASE Resume
    <2>1. AfterYield \in Busy /\ Shifted \in Int
      BY <1>13 DEF Resume, YieldInv, AfterYield, Shifted
    <2>2. QED
      BY <1>13, <2>1 DEF Resume, Go
  <1>14. CASE Return
    BY <1>14 DEF Return, End, Close
  <1>15. CASE Drop
    BY <1>15 DEF Drop, End, Close
  <1>16. CASE OpenBody
    BY <1>16 DEF OpenBody, End, Close, Go
  <1>17. CASE BodyBroken
    BY <1>17 DEF BodyBroken, Read, Checked, End, Close
  <1>18. CASE JsonChunk
    <2>1. EndAny \/ (/\ size < Limit /\ Chunk
                      /\ size' = size + 1 /\ Go("body", "loop") /\ Restart(IdleBudget)
                      /\ UNCHANGED <<addresses, own, sse, pending, yielded, fate, sockets>>)
      BY <1>18 DEF JsonChunk, Read, Checked, EndAny
    <2>2. UNCHANGED <<request, aborts>>
      BY <1>18 DEF JsonChunk, Read
    <2>3. CASE EndAny
      BY <2>2, <2>3, EndTypes DEF EndAny
    <2>4. CASE (/\ size < Limit /\ Chunk
                      /\ size' = size + 1 /\ Go("body", "loop") /\ Restart(IdleBudget)
                      /\ UNCHANGED <<addresses, own, sse, pending, yielded, fate, sockets>>)
      BY <1>18, <2>2, <2>4 DEF Go, Restart, Chunk
    <2>5. QED
      BY <2>1, <2>3, <2>4
  <1>19. CASE JsonEnd
    BY <1>19 DEF JsonEnd, Read, YieldEvent, Checked, End, Close, Go
  <1>20. CASE SseChunk
    <2>1. EndAny \/ (/\ Chunk /\ pending' \in 0..MaxPending /\ Go("events", "loop")
                     /\ UNCHANGED <<addresses, own, size, sse, yielded, fate, sockets, time>>)
      BY <1>20 DEF SseChunk, Read, Checked, EndAny
    <2>2. UNCHANGED <<request, aborts>>
      BY <1>20 DEF SseChunk, Read
    <2>3. CASE EndAny
      BY <2>2, <2>3, EndTypes DEF EndAny
    <2>4. CASE (/\ Chunk /\ pending' \in 0..MaxPending /\ Go("events", "loop")
                     /\ UNCHANGED <<addresses, own, size, sse, yielded, fate, sockets, time>>)
      BY <1>20, <2>2, <2>4 DEF Go, Chunk
    <2>5. QED
      BY <2>1, <2>3, <2>4
  <1>21. CASE SseEvent
    <2>1. EndAny \/ (/\ phase' \in {"body", "yield"} /\ io' = "loop"
                     /\ pending' \in 0..MaxPending /\ yielded' \in {"append", "completed", "failed", yielded}
                     /\ left' \in Int /\ paused' = paused /\ budget' \in Nat /\ quiet' \in Nat
                     /\ UNCHANGED <<addresses, own, size, buffered, fate, sockets>>)
      BY <1>21 DEF SseEvent, YieldEvent, Restart, Go, EndAny
    <2>2. UNCHANGED <<request, aborts>>
      BY <1>21 DEF SseEvent
    <2>3. CASE EndAny
      BY <2>2, <2>3, EndTypes DEF EndAny
    <2>4. CASE (/\ phase' \in {"body", "yield"} /\ io' = "loop"
                     /\ pending' \in 0..MaxPending /\ yielded' \in {"append", "completed", "failed", yielded}
                     /\ left' \in Int /\ paused' = paused /\ budget' \in Nat /\ quiet' \in Nat
                     /\ UNCHANGED <<addresses, own, size, buffered, fate, sockets>>)
      BY <1>21, <2>2, <2>4 DEF SseEvent, YieldEvent, Restart, Go
    <2>5. QED
      BY <2>1, <2>3, <2>4
  <1>22. CASE Tick
    BY <1>22 DEF Tick, Blocked
  <1>23. ASSUME NEW a \in Aborters, Abort(a) PROVE Types'
    BY <1>23 DEF Abort
  <1>24. ASSUME NEW a \in Aborters, AbortTake(a) PROVE Types'
    BY <1>24 DEF AbortTake
  <1>25. ASSUME NEW a \in Aborters, AbortClose(a) PROVE Types'
    <2>1. open' \subseteq Sockets /\ UNCHANGED <<request, program, socket, time>>
      BY <1>25 DEF AbortClose
    <2>2. /\ aborting' \in [Aborters -> {"no", "marked", "closing", "done"}]
          /\ held' \in [Aborters -> Sockets \cup {NoSocket}]
      BY <1>25 DEF AbortClose
    <2>3. QED
      BY <2>1, <2>2
  <1>26. QED
    BY <1>1, <1>2, <1>3, <1>4, <1>5, <1>6, <1>7, <1>8, <1>9, <1>10, <1>11, <1>12, <1>13, <1>14,
       <1>15, <1>16, <1>17, <1>18, <1>19, <1>20, <1>21, <1>22, <1>23, <1>24, <1>25
       DEF Step, Connecting, Reading, Provider, Body

\* Every step keeps track of who holds the socket.
LEMMA SocketStep == PInv /\ Step => SocketInv'
  <1> SUFFICES ASSUME PInv, Step PROVE SocketInv'
    OBVIOUS
  <1> USE Constants DEF PInv, Types, Fates, Busy, Blocking, ErrorCodes, Endings, Sockets,
        NoSocket, Tls, Local, request, reading, program, sockets, aborts, time, SocketInv, Settled
  <1>1. CASE Start
    BY <1>1 DEF Start, Go, Restart
  <1>2. CASE Begin
    BY <1>2 DEF Begin, Checked, End, Close, Go
  <1>3. CASE Resolved
    BY <1>3 DEF Resolved, Checked, End, Close
  <1>4. CASE Create
    BY <1>4 DEF Create, MoreAddresses, Checked, End, Close
  <1>5. CASE Install
    BY <1>5 DEF Install, Go, Installed
  <1>6. CASE Wrap
    BY <1>6 DEF Wrap, Checked, End, Close
  <1>7. CASE Loop
    BY <1>7 DEF Loop, Checked, End, Close
  <1>8. CASE Check
    BY <1>8 DEF Check, Checked, End, Close
  <1>9. CASE Take
    BY <1>9 DEF Take, End, Close
  <1>10. CASE IoError
    BY <1>10 DEF IoError, Blocked, Failed, NextAddress, Checked, End, Close
  <1>11. CASE IoDone
    BY <1>11 DEF IoDone, Blocked, Checked, End, Close, Go
  <1>12. CASE Head
    BY <1>12 DEF Head, Blocked, HeadersRead, YieldEvent, Restart, Checked, End, Close, Go
  <1>13. CASE Resume
    <2>1. AfterYield \in {"encoding", "events", "over"}
      BY <1>13 DEF Resume, YieldInv, AfterYield
    <2>2. QED
      BY <1>13, <2>1 DEF Resume, Go
  <1>14. CASE Return
    BY <1>14 DEF Return, End, Close
  <1>15. CASE Drop
    BY <1>15 DEF Drop, End, Close
  <1>16. CASE OpenBody
    BY <1>16 DEF OpenBody, End, Close, Go
  <1>17. CASE BodyBroken
    BY <1>17 DEF BodyBroken, Read, Checked, End, Close
  <1>18. CASE JsonChunk
    BY <1>18 DEF JsonChunk, Read, Chunk, Checked, End, Close, Go, Restart
  <1>19. CASE JsonEnd
    BY <1>19 DEF JsonEnd, Read, YieldEvent, Checked, End, Close, Go
  <1>20. CASE SseChunk
    BY <1>20 DEF SseChunk, Read, Chunk, Checked, End, Close, Go
  <1>21. CASE SseEvent
    BY <1>21 DEF SseEvent, YieldEvent, Restart, End, Close, Go
  <1>22. CASE Tick
    BY <1>22 DEF Tick, Blocked
  <1>23. ASSUME NEW a \in Aborters, Abort(a) PROVE SocketInv'
    BY <1>23 DEF Abort
  <1>24. ASSUME NEW a \in Aborters, AbortTake(a) PROVE SocketInv'
    <2>1. held'[a] = socket /\ \A b \in Aborters : held[b] # NoSocket => held'[b] = held[b]
      BY <1>24 DEF AbortTake, AbortInv
    <2>2. socket' = NoSocket /\ UNCHANGED <<phase, own, open>>
      BY <1>24 DEF AbortTake
    <2>3. own \in open => own # NoSocket
      OBVIOUS
    <2>4. QED
      BY <2>1, <2>2, <2>3
  <1>25. ASSUME NEW a \in Aborters, AbortClose(a) PROVE SocketInv'
    BY <1>25 DEF AbortClose
  <1>26. QED
    BY <1>1, <1>2, <1>3, <1>4, <1>5, <1>6, <1>7, <1>8, <1>9, <1>10, <1>11, <1>12, <1>13, <1>14,
       <1>15, <1>16, <1>17, <1>18, <1>19, <1>20, <1>21, <1>22, <1>23, <1>24, <1>25
       DEF Step, Connecting, Reading, Provider, Body

\* A step between two places of the generator that leaves the sockets as they are.
Stay == UNCHANGED <<own, open, held>> /\ phase # "done" /\ phase' # "done"

\* A step that leaves the sockets alone loses none.
LEMMA StayClosed == PInv /\ Stay => SocketsClosed'
  BY DEF PInv, Stay, SocketsClosed

\* Ending the generator closes the socket that nobody else is about to close.
LEMMA EndClosed ==
    ASSUME PInv, NEW how, End(how), UNCHANGED held, phase \notin {"install", "done"}
    PROVE  SocketsClosed'
  <1>1. open' = open \ {socket}
    BY DEF End, Close
  <1>2. phase \in Settled \cup {"address", "idle", "begin", "resolve"}
    BY DEF PInv, Types, Busy, Blocking, Settled
  <1>3. ASSUME NEW s \in open' PROVE \E a \in Aborters : held[a] = s
    <2>1. CASE s = own
      BY <1>1, <1>2, <1>3, <2>1 DEF PInv, SocketInv, Settled
    <2>2. CASE s # own
      BY <1>1, <1>3, <2>2 DEF PInv, SocketsClosed
    <2>3. QED
      BY <2>1, <2>2
  <1>4. QED
    BY <1>3 DEF SocketsClosed

\* No step loses a socket.
LEMMA ClosedStep == PInv /\ Step => SocketsClosed'
  <1> SUFFICES ASSUME PInv, Step PROVE SocketsClosed'
    OBVIOUS
  <1> USE Constants DEF PInv, Types, Fates, Busy, Blocking, ErrorCodes, Endings, Sockets,
        NoSocket, Tls, Local, request, reading, program, sockets, aborts, time, SocketInv,
        Settled, SocketsClosed, AbortInv
  <1>1. CASE Start
    BY <1>1 DEF Start, Go, Restart
  <1>2. CASE Begin
    <2>1. EndAny \/ Stay
      BY <1>2 DEF Begin, Go, Checked, EndAny, Stay, Go
    <2>2. UNCHANGED held /\ phase \notin {"install", "done"}
      BY <1>2 DEF Begin, Go
    <2>3. CASE EndAny
      BY <2>2, <2>3, EndClosed DEF EndAny
    <2>4. QED
      BY <2>1, <2>3, StayClosed
  <1>3. CASE Resolved
    <2>1. EndAny \/ Stay
      BY <1>3 DEF Resolved, Checked, Checked, EndAny, Stay, Go
    <2>2. UNCHANGED held /\ phase \notin {"install", "done"}
      BY <1>3 DEF Resolved, Checked
    <2>3. CASE EndAny
      BY <2>2, <2>3, EndClosed DEF EndAny
    <2>4. QED
      BY <2>1, <2>3, StayClosed
  <1>4. CASE Create
    <2>1. EndAny \/ Stay \/ (\E s \in Sockets :
                       own' = s /\ open' = open \cup {s} /\ phase' = "install" /\ phase = "address")
      BY <1>4 DEF Create, MoreAddresses, Checked, EndAny, Stay, Go
    <2>2. UNCHANGED held /\ phase \notin {"install", "done"}
      BY <1>4 DEF Create, MoreAddresses
    <2>3. CASE EndAny
      BY <2>2, <2>3, EndClosed DEF EndAny
    <2>4. CASE (\E s \in Sockets :
                       own' = s /\ open' = open \cup {s} /\ phase' = "install" /\ phase = "address")
      <3>1. PICK s \in Sockets : own' = s /\ open' = open \cup {s} /\ phase' = "install"
        BY <2>4
      <3>2. \A t \in open : \E a \in Aborters : held[a] = t
        BY <2>4 DEF SocketInv, SocketsClosed
      <3>3. QED
        BY <2>2, <3>1, <3>2 DEF SocketsClosed
    <2>5. QED
      BY <2>1, <2>3, <2>4, StayClosed
  <1>5. CASE Install
    <2>1. CASE cancelled
      <3>1. open' = open \ {own, socket} /\ UNCHANGED held
        BY <1>5, <2>1 DEF Install
      <3>2. QED
        BY <3>1 DEF SocketsClosed
    <2>2. CASE ~cancelled
      <3>1. Stay
        BY <1>5, <2>2 DEF Install, Go, Stay
      <3>2. QED
        BY <3>1, StayClosed
    <2>3. QED
      BY <2>1, <2>2
  <1>6. CASE Wrap
    <2>1. EndAny \/ Stay \/ (own' = Tls /\ open' = (open \ {own}) \cup {Tls} /\ phase' = "install")
      BY <1>6 DEF Wrap, Go, Checked, EndAny, Stay, Go
    <2>2. UNCHANGED held /\ phase \notin {"install", "done"}
      BY <1>6 DEF Wrap, Go
    <2>3. CASE EndAny
      BY <2>2, <2>3, EndClosed DEF EndAny
    <2>4. CASE (own' = Tls /\ open' = (open \ {own}) \cup {Tls} /\ phase' = "install")
      BY <2>2, <2>4 DEF SocketsClosed
    <2>5. QED
      BY <2>1, <2>3, <2>4, StayClosed
  <1>7. CASE Loop
    <2>1. EndAny \/ Stay
      BY <1>7 DEF Loop, Checked, Checked, EndAny, Stay, Go
    <2>2. UNCHANGED held /\ phase \notin {"install", "done"}
      BY <1>7 DEF Loop, Checked
    <2>3. CASE EndAny
      BY <2>2, <2>3, EndClosed DEF EndAny
    <2>4. QED
      BY <2>1, <2>3, StayClosed
  <1>8. CASE Check
    <2>1. EndAny \/ Stay
      BY <1>8 DEF Check, Blocking, Checked, EndAny, Stay, Go
    <2>2. UNCHANGED held /\ phase \notin {"install", "done"}
      BY <1>8 DEF Check, Blocking
    <2>3. CASE EndAny
      BY <2>2, <2>3, EndClosed DEF EndAny
    <2>4. QED
      BY <2>1, <2>3, StayClosed
  <1>9. CASE Take
    <2>1. End("cancelled") \/ (own' = socket /\ socket # NoSocket /\ UNCHANGED open /\ phase' = phase)
      BY <1>9 DEF Take
    <2>2. UNCHANGED held /\ phase \notin {"install", "done"}
      BY <1>9 DEF Take
    <2>3. CASE End("cancelled")
      BY <2>2, <2>3, EndClosed
    <2>4. CASE own' = socket /\ socket # NoSocket /\ UNCHANGED open /\ phase' = phase
      <3>1. own' = own
        BY <1>9, <2>4 DEF Take, SocketInv, Settled
      <3>2. QED
        BY <2>2, <2>4, <3>1, StayClosed DEF Stay
    <2>5. QED
      BY <2>1, <2>3, <2>4
  <1>10. CASE IoError
    <2>1. EndAny \/ Stay \/ (phase = "connect" /\ NextAddress)
      BY <1>10 DEF IoError, Blocked, Failed, Checked, EndAny, Stay, Go
    <2>2. UNCHANGED held /\ phase \notin {"install", "done"}
      BY <1>10 DEF IoError, Blocked, Failed
    <2>3. CASE EndAny
      BY <2>2, <2>3, EndClosed DEF EndAny
    <2>4. CASE (phase = "connect" /\ NextAddress)
      BY <2>2, <2>4 DEF NextAddress, Close, SocketInv, SocketsClosed, Settled
    <2>5. QED
      BY <2>1, <2>3, <2>4, StayClosed
  <1>11. CASE IoDone
    <2>1. EndAny \/ Stay
      BY <1>11 DEF IoDone, Blocked, Checked, EndAny, Stay, Go
    <2>2. UNCHANGED held /\ phase \notin {"install", "done"}
      BY <1>11 DEF IoDone, Blocked
    <2>3. CASE EndAny
      BY <2>2, <2>3, EndClosed DEF EndAny
    <2>4. QED
      BY <2>1, <2>3, StayClosed
  <1>12. CASE Head
    <2>1. EndAny \/ Stay
      BY <1>12 DEF Head, Blocked, HeadersRead, YieldEvent, Checked, EndAny, Stay, Go
    <2>2. UNCHANGED held /\ phase \notin {"install", "done"}
      BY <1>12 DEF Head, Blocked, HeadersRead, YieldEvent
    <2>3. CASE EndAny
      BY <2>2, <2>3, EndClosed DEF EndAny
    <2>4. QED
      BY <2>1, <2>3, StayClosed
  <1>13. CASE Resume
    <2>1. AfterYield # "done"
      BY <1>13 DEF Resume, YieldInv, AfterYield
    <2>2. Stay
      BY <1>13, <2>1 DEF Resume, Go, Stay
    <2>3. QED
      BY <2>2, StayClosed
  <1>14. CASE Return
    BY <1>14, EndClosed DEF Return
  <1>15. CASE Drop
    BY <1>15, EndClosed DEF Drop
  <1>16. CASE OpenBody
    <2>1. EndAny \/ Stay
      BY <1>16 DEF OpenBody, Go, Checked, EndAny, Stay, Go
    <2>2. UNCHANGED held /\ phase \notin {"install", "done"}
      BY <1>16 DEF OpenBody, Go
    <2>3. CASE EndAny
      BY <2>2, <2>3, EndClosed DEF EndAny
    <2>4. QED
      BY <2>1, <2>3, StayClosed
  <1>17. CASE BodyBroken
    <2>1. EndAny \/ Stay
      BY <1>17 DEF BodyBroken, Read, Checked, EndAny, Stay, Go
    <2>2. UNCHANGED held /\ phase \notin {"install", "done"}
      BY <1>17 DEF BodyBroken, Read
    <2>3. CASE EndAny
      BY <2>2, <2>3, EndClosed DEF EndAny
    <2>4. QED
      BY <2>1, <2>3, StayClosed
  <1>18. CASE JsonChunk
    <2>1. EndAny \/ Stay
      BY <1>18 DEF JsonChunk, Read, Checked, EndAny, Stay, Go
    <2>2. UNCHANGED held /\ phase \notin {"install", "done"}
      BY <1>18 DEF JsonChunk, Read
    <2>3. CASE EndAny
      BY <2>2, <2>3, EndClosed DEF EndAny
    <2>4. QED
      BY <2>1, <2>3, StayClosed
  <1>19. CASE JsonEnd
    <2>1. EndAny \/ Stay
      BY <1>19 DEF JsonEnd, Read, YieldEvent, Checked, EndAny, Stay, Go
    <2>2. UNCHANGED held /\ phase \notin {"install", "done"}
      BY <1>19 DEF JsonEnd, Read, YieldEvent
    <2>3. CASE EndAny
      BY <2>2, <2>3, EndClosed DEF EndAny
    <2>4. QED
      BY <2>1, <2>3, StayClosed
  <1>20. CASE SseChunk
    <2>1. EndAny \/ Stay
      BY <1>20 DEF SseChunk, Read, Checked, EndAny, Stay, Go
    <2>2. UNCHANGED held /\ phase \notin {"install", "done"}
      BY <1>20 DEF SseChunk, Read
    <2>3. CASE EndAny
      BY <2>2, <2>3, EndClosed DEF EndAny
    <2>4. QED
      BY <2>1, <2>3, StayClosed
  <1>21. CASE SseEvent
    <2>1. EndAny \/ Stay
      BY <1>21 DEF SseEvent, YieldEvent, Checked, EndAny, Stay, Go
    <2>2. UNCHANGED held /\ phase \notin {"install", "done"}
      BY <1>21 DEF SseEvent, YieldEvent
    <2>3. CASE EndAny
      BY <2>2, <2>3, EndClosed DEF EndAny
    <2>4. QED
      BY <2>1, <2>3, StayClosed
  <1>22. CASE Tick
    BY <1>22 DEF Tick, Blocked
  <1>23. ASSUME NEW a \in Aborters, Abort(a) PROVE SocketsClosed'
    BY <1>23 DEF Abort
  <1>24. ASSUME NEW a \in Aborters, AbortTake(a) PROVE SocketsClosed'
    BY <1>24 DEF AbortTake
  <1>25. ASSUME NEW a \in Aborters, AbortClose(a) PROVE SocketsClosed'
    BY <1>25 DEF AbortClose
  <1>26. QED
    BY <1>1, <1>2, <1>3, <1>4, <1>5, <1>6, <1>7, <1>8, <1>9, <1>10, <1>11, <1>12, <1>13, <1>14,
       <1>15, <1>16, <1>17, <1>18, <1>19, <1>20, <1>21, <1>22, <1>23, <1>24, <1>25
       DEF Step, Connecting, Reading, Provider, Body

\* Every step keeps what is known of the aborting threads.
LEMMA AbortStep == PInv /\ Step => AbortInv'
  <1> SUFFICES ASSUME PInv, Step PROVE AbortInv'
    OBVIOUS
  <1> USE Constants DEF PInv, Types, Fates, Busy, Blocking, ErrorCodes, Endings, Sockets,
        NoSocket, Tls, Local, request, reading, program, sockets, aborts, time, AbortInv
  <1>1. CASE Start
    BY <1>1 DEF Start, Go, Restart
  <1>2. CASE Begin
    BY <1>2 DEF Begin, Checked, End, Close, Go
  <1>3. CASE Resolved
    BY <1>3 DEF Resolved, Checked, End, Close
  <1>4. CASE Create
    BY <1>4 DEF Create, MoreAddresses, Checked, End, Close
  <1>5. CASE Install
    BY <1>5 DEF Install, Go, Installed
  <1>6. CASE Wrap
    BY <1>6 DEF Wrap, Checked, End, Close
  <1>7. CASE Loop
    BY <1>7 DEF Loop, Checked, End, Close
  <1>8. CASE Check
    BY <1>8 DEF Check, Checked, End, Close
  <1>9. CASE Take
    BY <1>9 DEF Take, End, Close
  <1>10. CASE IoError
    BY <1>10 DEF IoError, Blocked, Failed, NextAddress, Checked, End, Close
  <1>11. CASE IoDone
    BY <1>11 DEF IoDone, Blocked, Checked, End, Close, Go
  <1>12. CASE Head
    BY <1>12 DEF Head, Blocked, HeadersRead, YieldEvent, Restart, Checked, End, Close, Go
  <1>13. CASE Resume
    BY <1>13 DEF Resume, Shifted, AfterYield, Go
  <1>14. CASE Return
    BY <1>14 DEF Return, End, Close
  <1>15. CASE Drop
    BY <1>15 DEF Drop, End, Close
  <1>16. CASE OpenBody
    BY <1>16 DEF OpenBody, End, Close, Go
  <1>17. CASE BodyBroken
    BY <1>17 DEF BodyBroken, Read, Checked, End, Close
  <1>18. CASE JsonChunk
    BY <1>18 DEF JsonChunk, Read, Chunk, Checked, End, Close, Go, Restart
  <1>19. CASE JsonEnd
    BY <1>19 DEF JsonEnd, Read, YieldEvent, Checked, End, Close, Go
  <1>20. CASE SseChunk
    BY <1>20 DEF SseChunk, Read, Chunk, Checked, End, Close, Go
  <1>21. CASE SseEvent
    BY <1>21 DEF SseEvent, YieldEvent, Restart, End, Close, Go
  <1>22. CASE Tick
    BY <1>22 DEF Tick, Blocked
  <1>23. ASSUME NEW a \in Aborters, Abort(a) PROVE AbortInv'
    BY <1>23 DEF Abort
  <1>24. ASSUME NEW a \in Aborters, AbortTake(a) PROVE AbortInv'
    BY <1>24 DEF AbortTake
  <1>25. ASSUME NEW a \in Aborters, AbortClose(a) PROVE AbortInv'
    BY <1>25 DEF AbortClose
  <1>26. QED
    BY <1>1, <1>2, <1>3, <1>4, <1>5, <1>6, <1>7, <1>8, <1>9, <1>10, <1>11, <1>12, <1>13, <1>14,
       <1>15, <1>16, <1>17, <1>18, <1>19, <1>20, <1>21, <1>22, <1>23, <1>24, <1>25
       DEF Step, Connecting, Reading, Provider, Body

\* Every step accounts for the time.
LEMMA TimeStep == PInv /\ Step => TimeInv'
  <1> SUFFICES ASSUME PInv, Step PROVE TimeInv'
    OBVIOUS
  <1> USE Constants DEF PInv, Types, Fates, Busy, Blocking, ErrorCodes, Endings, Sockets,
        NoSocket, Tls, Local, request, reading, program, sockets, aborts, time, TimeInv
  <1>1. CASE Start
    BY <1>1 DEF Start, Go, Restart
  <1>2. CASE Begin
    BY <1>2 DEF Begin, Checked, End, Close, Go
  <1>3. CASE Resolved
    BY <1>3 DEF Resolved, Checked, End, Close
  <1>4. CASE Create
    BY <1>4 DEF Create, MoreAddresses, Checked, End, Close
  <1>5. CASE Install
    BY <1>5 DEF Install, Go, Installed
  <1>6. CASE Wrap
    BY <1>6 DEF Wrap, Checked, End, Close
  <1>7. CASE Loop
    BY <1>7 DEF Loop, Checked, End, Close
  <1>8. CASE Check
    BY <1>8 DEF Check, Checked, End, Close
  <1>9. CASE Take
    BY <1>9 DEF Take, End, Close
  <1>10. CASE IoError
    BY <1>10 DEF IoError, Blocked, Failed, NextAddress, Checked, End, Close
  <1>11. CASE IoDone
    BY <1>11 DEF IoDone, Blocked, Checked, End, Close, Go
  <1>12. CASE Head
    BY <1>12 DEF Head, Blocked, HeadersRead, YieldEvent, Restart, Checked, End, Close, Go
  <1>13. CASE Resume
    BY <1>13 DEF Resume, Shifted, AfterYield, Go
  <1>14. CASE Return
    BY <1>14 DEF Return, End, Close
  <1>15. CASE Drop
    BY <1>15 DEF Drop, End, Close
  <1>16. CASE OpenBody
    BY <1>16 DEF OpenBody, End, Close, Go
  <1>17. CASE BodyBroken
    BY <1>17 DEF BodyBroken, Read, Checked, End, Close
  <1>18. CASE JsonChunk
    BY <1>18 DEF JsonChunk, Read, Chunk, Checked, End, Close, Go, Restart
  <1>19. CASE JsonEnd
    BY <1>19 DEF JsonEnd, Read, YieldEvent, Checked, End, Close, Go
  <1>20. CASE SseChunk
    BY <1>20 DEF SseChunk, Read, Chunk, Checked, End, Close, Go
  <1>21. CASE SseEvent
    BY <1>21 DEF SseEvent, YieldEvent, Restart, End, Close, Go
  <1>22. CASE Tick
    BY <1>22 DEF Tick, Blocked
  <1>23. ASSUME NEW a \in Aborters, Abort(a) PROVE TimeInv'
    BY <1>23 DEF Abort
  <1>24. ASSUME NEW a \in Aborters, AbortTake(a) PROVE TimeInv'
    BY <1>24 DEF AbortTake
  <1>25. ASSUME NEW a \in Aborters, AbortClose(a) PROVE TimeInv'
    BY <1>25 DEF AbortClose
  <1>26. QED
    BY <1>1, <1>2, <1>3, <1>4, <1>5, <1>6, <1>7, <1>8, <1>9, <1>10, <1>11, <1>12, <1>13, <1>14,
       <1>15, <1>16, <1>17, <1>18, <1>19, <1>20, <1>21, <1>22, <1>23, <1>24, <1>25
       DEF Step, Connecting, Reading, Provider, Body

\* Every step keeps what has been yielded and the place in the generator together.
LEMMA YieldStep == PInv /\ Step => YieldInv'
  <1> SUFFICES ASSUME PInv, Step PROVE YieldInv'
    OBVIOUS
  <1> USE Constants DEF PInv, Types, Fates, Busy, Blocking, ErrorCodes, Endings, Sockets,
        NoSocket, Tls, Local, request, reading, program, sockets, aborts, time, YieldInv
  <1>1. CASE Start
    BY <1>1 DEF Start, Go, Restart
  <1>2. CASE Begin
    BY <1>2 DEF Begin, Checked, End, Close, Go
  <1>3. CASE Resolved
    BY <1>3 DEF Resolved, Checked, End, Close
  <1>4. CASE Create
    BY <1>4 DEF Create, MoreAddresses, Checked, End, Close
  <1>5. CASE Install
    BY <1>5 DEF Install, Go, Installed
  <1>6. CASE Wrap
    BY <1>6 DEF Wrap, Checked, End, Close
  <1>7. CASE Loop
    BY <1>7 DEF Loop, Checked, End, Close
  <1>8. CASE Check
    BY <1>8 DEF Check, Checked, End, Close
  <1>9. CASE Take
    BY <1>9 DEF Take, End, Close
  <1>10. CASE IoError
    BY <1>10 DEF IoError, Blocked, Failed, NextAddress, Checked, End, Close
  <1>11. CASE IoDone
    <2>1. EndAny \/ (phase' \in {"wrap", "send", "head"} /\ UNCHANGED <<reading, fate>>)
      BY <1>11 DEF IoDone, Blocked, Checked, Go, EndAny
    <2>2. UNCHANGED request /\ phase \in {"connect", "handshake", "send"}
      BY <1>11 DEF IoDone
    <2>3. CASE EndAny
      BY <2>2, <2>3 DEF EndAny, End
    <2>4. CASE phase' \in {"wrap", "send", "head"} /\ UNCHANGED <<reading, fate>>
      BY <2>2, <2>4
    <2>5. QED
      BY <2>1, <2>3, <2>4
  <1>12. CASE Head
    BY <1>12 DEF Head, Blocked, HeadersRead, YieldEvent, Restart, Checked, End, Close, Go
  <1>13. CASE Resume
    BY <1>13 DEF Resume, Shifted, AfterYield, Go
  <1>14. CASE Return
    BY <1>14 DEF Return, End, Close
  <1>15. CASE Drop
    BY <1>15 DEF Drop, End, Close
  <1>16. CASE OpenBody
    <2>1. sse' => streaming
      <3>1. CASE phase' = "done"
        BY <1>16, <3>1 DEF OpenBody, End, Go
      <3>2. CASE phase' # "done"
        <4>1. sse' \in IF streaming THEN BOOLEAN ELSE {FALSE}
          BY <1>16, <3>2, Zenon DEF OpenBody, End
        <4>2. QED
          BY <4>1, Zenon
      <3>3. QED
        BY <3>1, <3>2
    <2>2. /\ UNCHANGED <<streaming, yielded>>
          /\ \/ phase' = "body" /\ UNCHANGED fate
             \/ phase' = "done" /\ fate' # "none"
      BY <1>16 DEF OpenBody, End, Go
    <2>3. QED
      BY <1>16, <2>1, <2>2 DEF OpenBody
  <1>17. CASE BodyBroken
    BY <1>17 DEF BodyBroken, Read, Checked, End, Close
  <1>18. CASE JsonChunk
    BY <1>18 DEF JsonChunk, Read, Chunk, Checked, End, Close, Go, Restart
  <1>19. CASE JsonEnd
    BY <1>19 DEF JsonEnd, Read, YieldEvent, Checked, End, Close, Go
  <1>20. CASE SseChunk
    BY <1>20 DEF SseChunk, Read, Chunk, Checked, End, Close, Go
  <1>21. CASE SseEvent
    BY <1>21 DEF SseEvent, YieldEvent, Restart, End, Close, Go
  <1>22. CASE Tick
    BY <1>22 DEF Tick, Blocked
  <1>23. ASSUME NEW a \in Aborters, Abort(a) PROVE YieldInv'
    BY <1>23 DEF Abort
  <1>24. ASSUME NEW a \in Aborters, AbortTake(a) PROVE YieldInv'
    BY <1>24 DEF AbortTake
  <1>25. ASSUME NEW a \in Aborters, AbortClose(a) PROVE YieldInv'
    BY <1>25 DEF AbortClose
  <1>26. QED
    BY <1>1, <1>2, <1>3, <1>4, <1>5, <1>6, <1>7, <1>8, <1>9, <1>10, <1>11, <1>12, <1>13, <1>14,
       <1>15, <1>16, <1>17, <1>18, <1>19, <1>20, <1>21, <1>22, <1>23, <1>24, <1>25
       DEF Step, Connecting, Reading, Provider, Body

\* A failure of its own, with time left; anything else; or the end of the budget.
LEMMA EndCause ==
    ASSUME PInv, phase \notin {"yield", "done"}, NEW how, End(how),
           how = "60000" => left <= 0,
           how \in ErrorCodes \ {"60000"} => left > 0
    PROVE  FirstCause'
  BY DEF PInv, Types, TimeInv, End, FirstCause, ErrorCodes, time

\* Before the end there is no cause yet.
LEMMA StayCause == PInv /\ phase # "done" /\ UNCHANGED fate => FirstCause'
  BY DEF PInv, YieldInv, FirstCause, ErrorCodes

\* Every ending names its first cause.
LEMMA CauseStep == PInv /\ Step => FirstCause'
  <1> SUFFICES ASSUME PInv, Step PROVE FirstCause'
    OBVIOUS
  <1> USE Constants DEF PInv, Types, Fates, Busy, Blocking, ErrorCodes, Endings, Sockets,
        NoSocket, Tls, Local, request, reading, program, sockets, aborts, time, TimeInv, YieldInv,
        FirstCause
  <1>1. CASE Start
    BY <1>1 DEF Start, Go, Restart
  <1>2. CASE Begin
    <2>1. \/ left <= 0 /\ End("60000")
          \/ End("cancelled") \/ End("other")
          \/ /\ left > 0
             /\ End("60001") \/ End("60002") \/ End("60003") \/ End("60007") \/ End("60008")
          \/ UNCHANGED fate
      BY <1>2 DEF Begin, Go, Checked
    <2>2. phase \notin {"yield", "done"}
      BY <1>2 DEF Begin, Go
    <2>3. QED
      BY <2>1, <2>2, EndCause, StayCause
  <1>3. CASE Resolved
    <2>1. \/ left <= 0 /\ End("60000")
          \/ End("cancelled") \/ End("other")
          \/ /\ left > 0
             /\ End("60001") \/ End("60002") \/ End("60003") \/ End("60007") \/ End("60008")
          \/ UNCHANGED fate
      BY <1>3 DEF Resolved, TimeInv, Checked
    <2>2. phase \notin {"yield", "done"}
      BY <1>3 DEF Resolved, TimeInv
    <2>3. QED
      BY <2>1, <2>2, EndCause, StayCause
  <1>4. CASE Create
    <2>1. \/ left <= 0 /\ End("60000")
          \/ End("cancelled") \/ End("other")
          \/ /\ left > 0
             /\ End("60001") \/ End("60002") \/ End("60003") \/ End("60007") \/ End("60008")
          \/ UNCHANGED fate
      BY <1>4 DEF Create, TimeInv, Checked
    <2>2. phase \notin {"yield", "done"}
      BY <1>4 DEF Create, TimeInv
    <2>3. QED
      BY <2>1, <2>2, EndCause, StayCause
  <1>5. CASE Install
    BY <1>5 DEF Install, Go, Installed
  <1>6. CASE Wrap
    <2>1. \/ left <= 0 /\ End("60000")
          \/ End("cancelled") \/ End("other")
          \/ /\ left > 0
             /\ End("60001") \/ End("60002") \/ End("60003") \/ End("60007") \/ End("60008")
          \/ UNCHANGED fate
      BY <1>6 DEF Wrap, Go, Checked
    <2>2. phase \notin {"yield", "done"}
      BY <1>6 DEF Wrap, Go
    <2>3. QED
      BY <2>1, <2>2, EndCause, StayCause
  <1>7. CASE Loop
    <2>1. \/ left <= 0 /\ End("60000")
          \/ End("cancelled") \/ End("other")
          \/ /\ left > 0
             /\ End("60001") \/ End("60002") \/ End("60003") \/ End("60007") \/ End("60008")
          \/ UNCHANGED fate
      BY <1>7 DEF Loop, Go, Checked
    <2>2. phase \notin {"yield", "done"}
      BY <1>7 DEF Loop, Go
    <2>3. QED
      BY <2>1, <2>2, EndCause, StayCause
  <1>8. CASE Check
    <2>1. \/ left <= 0 /\ End("60000")
          \/ End("cancelled") \/ End("other")
          \/ /\ left > 0
             /\ End("60001") \/ End("60002") \/ End("60003") \/ End("60007") \/ End("60008")
          \/ UNCHANGED fate
      BY <1>8 DEF Check, Blocking, Checked
    <2>2. phase \notin {"yield", "done"}
      BY <1>8 DEF Check, Blocking
    <2>3. QED
      BY <2>1, <2>2, EndCause, StayCause
  <1>9. CASE Take
    BY <1>9 DEF Take, End, Close
  <1>10. CASE IoError
    <2>1. \/ left <= 0 /\ End("60000")
          \/ End("cancelled") \/ End("other")
          \/ /\ left > 0
             /\ End("60001") \/ End("60002") \/ End("60003") \/ End("60007") \/ End("60008")
          \/ UNCHANGED fate
      BY <1>10 DEF IoError, Blocked, Failed, NextAddress, Checked
    <2>2. phase \notin {"yield", "done"}
      BY <1>10 DEF IoError, Blocked, Failed, NextAddress
    <2>3. QED
      BY <2>1, <2>2, EndCause, StayCause
  <1>11. CASE IoDone
    <2>1. \/ left <= 0 /\ End("60000")
          \/ End("cancelled") \/ End("other")
          \/ /\ left > 0
             /\ End("60001") \/ End("60002") \/ End("60003") \/ End("60007") \/ End("60008")
          \/ UNCHANGED fate
      BY <1>11 DEF IoDone, Blocked, Checked
    <2>2. phase \notin {"yield", "done"}
      BY <1>11 DEF IoDone, Blocked
    <2>3. QED
      BY <2>1, <2>2, EndCause, StayCause
  <1>12. CASE Head
    <2>1. \/ left <= 0 /\ End("60000")
          \/ End("cancelled") \/ End("other")
          \/ /\ left > 0
             /\ End("60001") \/ End("60002") \/ End("60003") \/ End("60007") \/ End("60008")
          \/ UNCHANGED fate
      BY <1>12 DEF Head, Blocked, HeadersRead, YieldEvent, Checked
    <2>2. phase \notin {"yield", "done"}
      BY <1>12 DEF Head, Blocked, HeadersRead, YieldEvent
    <2>3. QED
      BY <2>1, <2>2, EndCause, StayCause
  <1>13. CASE Resume
    BY <1>13 DEF Resume, Shifted, AfterYield, Go
  <1>14. CASE Return
    BY <1>14 DEF Return, End, Close
  <1>15. CASE Drop
    BY <1>15 DEF Drop, End, Close
  <1>16. CASE OpenBody
    <2>1. \/ left <= 0 /\ End("60000")
          \/ End("cancelled") \/ End("other")
          \/ /\ left > 0
             /\ End("60001") \/ End("60002") \/ End("60003") \/ End("60007") \/ End("60008")
          \/ UNCHANGED fate
      BY <1>16 DEF OpenBody, TimeInv, Checked
    <2>2. phase \notin {"yield", "done"}
      BY <1>16 DEF OpenBody, TimeInv
    <2>3. QED
      BY <2>1, <2>2, EndCause, StayCause
  <1>17. CASE BodyBroken
    <2>1. \/ left <= 0 /\ End("60000")
          \/ End("cancelled") \/ End("other")
          \/ /\ left > 0
             /\ End("60001") \/ End("60002") \/ End("60003") \/ End("60007") \/ End("60008")
          \/ UNCHANGED fate
      BY <1>17 DEF BodyBroken, Read, TimeInv, Checked
    <2>2. phase \notin {"yield", "done"}
      BY <1>17 DEF BodyBroken, Read, TimeInv
    <2>3. QED
      BY <2>1, <2>2, EndCause, StayCause
  <1>18. CASE JsonChunk
    <2>1. \/ left <= 0 /\ End("60000")
          \/ End("cancelled") \/ End("other")
          \/ /\ left > 0
             /\ End("60001") \/ End("60002") \/ End("60003") \/ End("60007") \/ End("60008")
          \/ UNCHANGED fate
      BY <1>18 DEF JsonChunk, Read, TimeInv, Checked
    <2>2. phase \notin {"yield", "done"}
      BY <1>18 DEF JsonChunk, Read, TimeInv
    <2>3. QED
      BY <2>1, <2>2, EndCause, StayCause
  <1>19. CASE JsonEnd
    <2>1. \/ left <= 0 /\ End("60000")
          \/ End("cancelled") \/ End("other")
          \/ /\ left > 0
             /\ End("60001") \/ End("60002") \/ End("60003") \/ End("60007") \/ End("60008")
          \/ UNCHANGED fate
      BY <1>19 DEF JsonEnd, Read, YieldEvent, Checked
    <2>2. phase \notin {"yield", "done"}
      BY <1>19 DEF JsonEnd, Read, YieldEvent
    <2>3. QED
      BY <2>1, <2>2, EndCause, StayCause
  <1>20. CASE SseChunk
    <2>1. \/ left <= 0 /\ End("60000")
          \/ End("cancelled") \/ End("other")
          \/ /\ left > 0
             /\ End("60001") \/ End("60002") \/ End("60003") \/ End("60007") \/ End("60008")
          \/ UNCHANGED fate
      BY <1>20 DEF SseChunk, Read, Checked
    <2>2. phase \notin {"yield", "done"}
      BY <1>20 DEF SseChunk, Read
    <2>3. QED
      BY <2>1, <2>2, EndCause, StayCause
  <1>21. CASE SseEvent
    <2>1. \/ left <= 0 /\ End("60000")
          \/ End("cancelled") \/ End("other")
          \/ /\ left > 0
             /\ End("60001") \/ End("60002") \/ End("60003") \/ End("60007") \/ End("60008")
          \/ UNCHANGED fate
      BY <1>21 DEF SseEvent, TimeInv, YieldEvent, Checked
    <2>2. phase \notin {"yield", "done"}
      BY <1>21 DEF SseEvent, TimeInv, YieldEvent
    <2>3. QED
      BY <2>1, <2>2, EndCause, StayCause
  <1>22. CASE Tick
    BY <1>22 DEF Tick, Blocked
  <1>23. ASSUME NEW a \in Aborters, Abort(a) PROVE FirstCause'
    BY <1>23 DEF Abort
  <1>24. ASSUME NEW a \in Aborters, AbortTake(a) PROVE FirstCause'
    BY <1>24 DEF AbortTake
  <1>25. ASSUME NEW a \in Aborters, AbortClose(a) PROVE FirstCause'
    BY <1>25 DEF AbortClose
  <1>26. QED
    BY <1>1, <1>2, <1>3, <1>4, <1>5, <1>6, <1>7, <1>8, <1>9, <1>10, <1>11, <1>12, <1>13, <1>14,
       <1>15, <1>16, <1>17, <1>18, <1>19, <1>20, <1>21, <1>22, <1>23, <1>24, <1>25
       DEF Step, Connecting, Reading, Provider, Body

-----------------------------------------------------------------------------
(* The invariant. *)

\* The Boolean variables, which Zenon handles and SMT does not.
LEMMA FlagStep == PInv /\ Step => Flags'
  <1> SUFFICES ASSUME PInv, Step PROVE Flags'
    OBVIOUS
  <1> USE DEF PInv, Flags
  <1>1. CASE Start
    <2>1. UNCHANGED <<streaming, https, sse, cancelled>>
      BY <1>1 DEF Start, Go, Restart, Local, request, reading, program, sockets, aborts, time
    <2>2. QED
      BY <2>1, Zenon
  <1>2. CASE Begin
    <2>1. UNCHANGED <<streaming, https, sse, cancelled>>
      BY <1>2
         DEF Begin, Checked, End, Close, Go, Local, request, reading, program, sockets, aborts,
         time
    <2>2. QED
      BY <2>1, Zenon
  <1>3. CASE Resolved
    <2>1. UNCHANGED <<streaming, https, sse, cancelled>>
      BY <1>3
         DEF Resolved, Checked, End, Close, Local, request, reading, program, sockets, aborts,
         time
    <2>2. QED
      BY <2>1, Zenon
  <1>4. CASE Create
    <2>1. UNCHANGED <<streaming, https, sse, cancelled>>
      BY <1>4
         DEF Create, MoreAddresses, Checked, End, Close, Local, request, reading, program,
         sockets, aborts, time
    <2>2. QED
      BY <2>1, Zenon
  <1>5. CASE Install
    <2>1. UNCHANGED <<streaming, https, sse, cancelled>>
      BY <1>5 DEF Install, Go, Installed, Local, request, reading, program, sockets, aborts, time
    <2>2. QED
      BY <2>1, Zenon
  <1>6. CASE Wrap
    <2>1. UNCHANGED <<streaming, https, sse, cancelled>>
      BY <1>6 DEF Wrap, Checked, End, Close, Local, request, reading, program, sockets, aborts, time
    <2>2. QED
      BY <2>1, Zenon
  <1>7. CASE Loop
    <2>1. UNCHANGED <<streaming, https, sse, cancelled>>
      BY <1>7 DEF Loop, Checked, End, Close, Local, request, reading, program, sockets, aborts, time
    <2>2. QED
      BY <2>1, Zenon
  <1>8. CASE Check
    <2>1. UNCHANGED <<streaming, https, sse, cancelled>>
      BY <1>8
         DEF Check, Checked, End, Close, Local, request, reading, program, sockets, aborts, time
    <2>2. QED
      BY <2>1, Zenon
  <1>9. CASE Take
    <2>1. UNCHANGED <<streaming, https, sse, cancelled>>
      BY <1>9 DEF Take, End, Close, Local, request, reading, program, sockets, aborts, time
    <2>2. QED
      BY <2>1, Zenon
  <1>10. CASE IoError
    <2>1. EndAny \/ NextAddress
      BY <1>10 DEF IoError, Blocked, Blocking, Failed, Checked, EndAny
    <2>2. UNCHANGED sse
      BY <2>1 DEF EndAny, End, NextAddress, reading
    <2>3. UNCHANGED <<streaming, https, cancelled>>
      BY <1>10 DEF IoError, request, aborts
    <2>4. QED
      BY <2>2, <2>3, Zenon
  <1>11. CASE IoDone
    <2>1. UNCHANGED <<streaming, https, sse, cancelled>>
      BY <1>11
         DEF IoDone, Blocked, Checked, End, Close, Go, Local, request, reading, program, sockets,
         aborts, time
    <2>2. QED
      BY <2>1, Zenon
  <1>12. CASE Head
    <2>1. UNCHANGED <<streaming, https, sse, cancelled>>
      BY <1>12
         DEF Head, Blocked, HeadersRead, YieldEvent, Restart, Checked, End, Close, Go, Local,
         request, reading, program, sockets, aborts, time
    <2>2. QED
      BY <2>1, Zenon
  <1>13. CASE Resume
    <2>1. UNCHANGED <<streaming, https, sse, cancelled>>
      BY <1>13
         DEF Resume, Shifted, AfterYield, Go, Local, request, reading, program, sockets, aborts,
         time
    <2>2. QED
      BY <2>1, Zenon
  <1>14. CASE Return
    <2>1. UNCHANGED <<streaming, https, sse, cancelled>>
      BY <1>14 DEF Return, End, Close, Local, request, reading, program, sockets, aborts, time
    <2>2. QED
      BY <2>1, Zenon
  <1>15. CASE Drop
    <2>1. UNCHANGED <<streaming, https, sse, cancelled>>
      BY <1>15 DEF Drop, End, Close, Local, request, reading, program, sockets, aborts, time
    <2>2. QED
      BY <2>1, Zenon
  <1>16. CASE OpenBody
    <2>1. UNCHANGED <<streaming, https, cancelled>>
      BY <1>16 DEF OpenBody, request, aborts
    <2>2. sse' \in BOOLEAN
      BY <1>16, Zenon DEF OpenBody, End, reading
    <2>3. QED
      BY <2>1, <2>2, Zenon
  <1>17. CASE BodyBroken
    <2>1. UNCHANGED <<streaming, https, sse, cancelled>>
      BY <1>17
         DEF BodyBroken, Read, Checked, End, Close, Local, request, reading, program, sockets,
         aborts, time
    <2>2. QED
      BY <2>1, Zenon
  <1>18. CASE JsonChunk
    <2>1. UNCHANGED <<streaming, https, sse, cancelled>>
      BY <1>18
         DEF JsonChunk, Read, Chunk, Checked, End, Close, Go, Restart, Local, request, reading,
         program, sockets, aborts, time
    <2>2. QED
      BY <2>1, Zenon
  <1>19. CASE JsonEnd
    <2>1. UNCHANGED <<streaming, https, sse, cancelled>>
      BY <1>19
         DEF JsonEnd, Read, YieldEvent, Checked, End, Close, Go, Local, request, reading, program,
         sockets, aborts, time
    <2>2. QED
      BY <2>1, Zenon
  <1>20. CASE SseChunk
    <2>1. UNCHANGED <<streaming, https, sse, cancelled>>
      BY <1>20
         DEF SseChunk, Read, Chunk, Checked, End, Close, Go, Local, request, reading, program,
         sockets, aborts, time
    <2>2. QED
      BY <2>1, Zenon
  <1>21. CASE SseEvent
    <2>1. UNCHANGED <<streaming, https, sse, cancelled>>
      BY <1>21
         DEF SseEvent, YieldEvent, Restart, End, Close, Go, Local, request, reading, program,
         sockets, aborts, time
    <2>2. QED
      BY <2>1, Zenon
  <1>22. CASE Tick
    <2>1. UNCHANGED <<streaming, https, sse, cancelled>>
      BY <1>22 DEF Tick, Blocked, Local, request, reading, program, sockets, aborts, time
    <2>2. QED
      BY <2>1, Zenon
  <1>23. ASSUME NEW a \in Aborters, Abort(a) PROVE Flags'
    BY <1>23, Zenon DEF Abort, request, program, reading
  <1>24. ASSUME NEW a \in Aborters, AbortTake(a) PROVE Flags'
    BY <1>24, Zenon DEF AbortTake, request, program, reading
  <1>25. ASSUME NEW a \in Aborters, AbortClose(a) PROVE Flags'
    BY <1>25, Zenon DEF AbortClose, request, program, reading
  <1>26. QED
    BY <1>1, <1>2, <1>3, <1>4, <1>5, <1>6, <1>7, <1>8, <1>9, <1>10, <1>11, <1>12, <1>13, <1>14,
       <1>15, <1>16, <1>17, <1>18, <1>19, <1>20, <1>21, <1>22, <1>23, <1>24, <1>25
       DEF Step, Connecting, Reading, Provider, Body

\* The invariant holds at the beginning ...
LEMMA StartsRight == Init => PInv
  <1> SUFFICES ASSUME Init PROVE PInv
    OBVIOUS
  <1>1. Flags
    BY Zenon DEF Init, Flags
  <1>2. Types
    BY Constants DEF Init, Types, Busy, Fates, Sockets, NoSocket
  <1>3. SocketInv /\ SocketsClosed /\ AbortInv
    BY DEF Init, SocketInv, Settled, SocketsClosed, AbortInv
  <1>4. TimeInv /\ YieldInv /\ FirstCause
    BY DEF Init, TimeInv, YieldInv, FirstCause, ErrorCodes
  <1>5. QED
    BY <1>1, <1>2, <1>3, <1>4 DEF PInv

\* ... and every step keeps it.
LEMMA Inductive == PInv /\ [Next]_vars => PInv'
  <1> SUFFICES ASSUME PInv, [Next]_vars PROVE PInv'
    OBVIOUS
  <1>1. CASE UNCHANGED vars
    <2>1. Flags'
      BY <1>1, Zenon DEF PInv, Flags, vars, request, program, reading, aborts
    <2>2. Types'
      BY <1>1 DEF PInv, Types, vars, request, program, reading, sockets, aborts, time
    <2>3. (SocketInv /\ SocketsClosed /\ AbortInv)'
      BY <1>1 DEF PInv, SocketInv, SocketsClosed, AbortInv, vars, program, sockets, aborts
    <2>4. (TimeInv /\ YieldInv /\ FirstCause)'
      BY <1>1 DEF PInv, TimeInv, YieldInv, FirstCause, vars, request, program, reading, time
    <2>5. QED
      BY <2>1, <2>2, <2>3, <2>4 DEF PInv
  <1>2. CASE Step
    BY <1>2, FlagStep, TypeStep, SocketStep, ClosedStep, AbortStep, TimeStep, YieldStep, CauseStep
       DEF PInv
  <1>3. QED
    BY <1>1, <1>2 DEF Next, Step, Done

\* In every state of every ProviderCall the parts of the invariant hold.
THEOREM ProviderInvariance == Spec => []PInv
  BY StartsRight, Inductive, PTL DEF Spec

\* The variables keep their types, in particular no address is tried that the
\* resolver has not returned.
THEOREM ProviderTypes == Spec => []TypeOK
  <1>1. PInv => TypeOK
    BY Zenon DEF PInv, Flags, Types, TypeOK, Fates
  <1>2. QED
    BY <1>1, ProviderInvariance, PTL

\* No descriptor is lost, for any number of addresses and of aborting threads.
THEOREM NoSocketLost == Spec => []SocketsClosed
  <1>1. PInv => SocketsClosed
    BY DEF PInv
  <1>2. QED
    BY <1>1, ProviderInvariance, PTL

\* After the abort() calls have returned the task does not wait on an open socket.
THEOREM AbortWorks == Spec => []AbortedIsClosed
  <1>1. PInv => AbortedIsClosed
    <2> SUFFICES ASSUME PInv, NEW b \in Aborters, aborting[b] = "done", Blocked, own \in open,
                        \A a \in Aborters : aborting[a] \in {"no", "done"}
                 PROVE  FALSE
      BY DEF AbortedIsClosed
    <2>1. socket = NoSocket /\ own # NoSocket
      BY DEF PInv, AbortInv, Types, Sockets, NoSocket
    <2>2. \A a \in Aborters : held[a] = NoSocket
      BY DEF PInv, AbortInv
    <2>3. phase \in Settled
      BY DEF Blocked, Blocking, Settled
    <2>4. QED
      BY <2>1, <2>2, <2>3 DEF PInv, SocketInv
  <1>2. QED
    BY <1>1, ProviderInvariance, PTL

\* 60000 is reported if and only if the Provider used up its budget, for any
\* budget and any pauses of the consumer.
THEOREM CauseTold == Spec => []FirstCause
  <1>1. PInv => FirstCause
    BY DEF PInv
  <1>2. QED
    BY <1>1, ProviderInvariance, PTL

-----------------------------------------------------------------------------
(* Refinement. *)

\* The state of the iterator, by where the generator is.
Stage ==
    IF phase = "done" THEN "gone"
    ELSE CASE yielded \in Endings -> "over"
           [] yielded \in {"headers", "append"} -> "streaming"
           [] yielded = "none" -> "before"

\* The stage of the iterator, from where the generator is.
LEMMA StageValue ==
    ASSUME Types, Types'
    PROVE  /\ Stage = IF phase = "done" THEN "gone"
                      ELSE IF yielded \in Endings THEN "over"
                      ELSE IF yielded = "none" THEN "before" ELSE "streaming"
           /\ Stage' = IF phase' = "done" THEN "gone"
                       ELSE IF yielded' \in Endings THEN "over"
                       ELSE IF yielded' = "none" THEN "before" ELSE "streaming"
  BY DEF Types, Stage, Endings

\* A next() is running.
Asked == phase \notin {"idle", "yield", "done"}

\* The generator goes on between two yields.
Hidden ==
    /\ phase # "done" /\ phase' # "done" /\ Asked' = Asked
    /\ UNCHANGED <<streaming, yielded, cancelled, fate>>

\* It yields.
Yields(what) ==
    /\ phase \in {"head", "body", "events"} /\ phase' = "yield" /\ yielded' = what
    /\ UNCHANGED <<streaming, cancelled, fate>>

\* It ends with a failure or because it has been cancelled.
Fails(how) ==
    /\ phase \notin {"idle", "yield", "over", "done"}
    /\ phase' = "done" /\ fate' = how /\ UNCHANGED <<streaming, yielded, cancelled>>
    /\ how = "cancelled" => cancelled
    /\ how \in {"60001", "60002"} => phase \in {"resolve", "wrap", "handshake"}

\* Going on between two yields is a stutter of the iterator,
LEMMA HiddenStep ==
    ASSUME PInv, PInv', Hidden PROVE UNCHANGED <<streaming, Stage, Asked, cancelled, fate>>
  BY StageValue DEF PInv, Hidden

\* yielding is a step of it,
LEMMA YieldsStep ==
    ASSUME PInv, PInv', NEW what, Yields(what),
           \/ ~streaming /\ what = "result"
           \/ streaming /\ phase = "head" /\ what = "headers"
           \/ streaming /\ phase # "head" /\ what \in {"append", "completed", "failed"}
    PROVE  Iterator!Yield
  <1>1. Stage = (IF yielded = "none" THEN "before" ELSE "streaming")
    BY StageValue DEF PInv, YieldInv, Yields, Endings
  <1>2. Stage' = IF what \in Endings THEN "over" ELSE "streaming"
    BY StageValue DEF PInv, Yields, Endings
  <1>3. Asked /\ ~Asked'
    BY DEF Asked, Yields
  <1>4. QED
    BY <1>1, <1>2, <1>3 DEF PInv, YieldInv, Yields, Endings, Stage, Asked,
                            Iterator!Yield, Iterator!YieldOne

\* and so is a failure or a cancellation.
LEMMA FailsStep ==
    ASSUME PInv, PInv', NEW how \in Fates \ {"none", "returned", "dropped"}, Fails(how)
    PROVE  Iterator!Finish
  <1>1. /\ Stage \in {"before", "streaming"} /\ Stage' = "gone"
        /\ how \in {"60001", "60002"} => Stage = "before"
    BY StageValue DEF PInv, YieldInv, Types, Busy, Blocking, Fails, Endings
  <1>2. Asked /\ ~Asked'
    BY DEF Asked, Fails
  <1>3. Iterator!Leave(how)
    BY <1>1, <1>2 DEF Stage, Asked, Fails, Iterator!Leave
  <1>4. how = "cancelled" \/ how \in Iterator!Codes(Stage)
    BY <1>1 DEF Fates, ErrorCodes, Iterator!Codes, Iterator!BeforeHeaders, Iterator!AfterHeaders
  <1>5. QED
    BY <1>1, <1>2, <1>3, <1>4 DEF Stage, Asked, Fails, Iterator!Finish

\* Every step of a ProviderCall is one of its iterator or none: it yields what
\* fits the request in the right order, fails with codes that fit how far it got,
\* and is cancelled only after an abort().  (That every next() returns is liveness.)
LEMMA RefineStep ==
    ASSUME PInv, PInv', Step
    PROVE  Iterator!INext \/ UNCHANGED <<streaming, Stage, Asked, cancelled, fate>>
  <1> DEFINE Goal == Iterator!INext \/ UNCHANGED <<streaming, Stage, Asked, cancelled, fate>>
  <1>a. ASSUME NEW how \in Fates \ {"none", "returned", "dropped"}, Fails(how) PROVE Goal
    BY <1>a, FailsStep DEF Iterator!INext
  <1>b. ASSUME Hidden PROVE Goal
    BY <1>b, HiddenStep
  <1>c. ASSUME NEW what, Yields(what),
               \/ ~streaming /\ what = "result"
               \/ streaming /\ phase = "head" /\ what = "headers"
               \/ streaming /\ phase # "head" /\ what \in {"append", "completed", "failed"}
        PROVE  Goal
    BY <1>c, YieldsStep DEF Iterator!INext
  <1>d. /\ Fails("60000") \/ Fails("60001") \/ Fails("60002") \/ Fails("60003") => Goal
        /\ Fails("60007") \/ Fails("60008") \/ Fails("cancelled") \/ Fails("other") => Goal
    BY <1>a DEF Fates, ErrorCodes
  <1> SUFFICES Goal
    OBVIOUS
  <1> HIDE DEF Goal
  <1>1. CASE Begin
    <2>1. \/ Hidden
          \/ Fails("60000") \/ Fails("60001") \/ Fails("60002") \/ Fails("60003") \/ Fails("60007")
          \/ Fails("60008") \/ Fails("cancelled") \/ Fails("other")
      BY <1>1
         DEF Begin, Go, Hidden, Asked, Local, Fails, Checked, End, Close, request, reading,
         program, sockets, aborts, time
    <2>2. QED
      BY <2>1, <1>b, <1>d
  <1>2. CASE Resolved
    <2>1. \/ Hidden
          \/ Fails("60000") \/ Fails("60001") \/ Fails("60002") \/ Fails("60003") \/ Fails("60007")
          \/ Fails("60008") \/ Fails("cancelled") \/ Fails("other")
      BY <1>2
         DEF Resolved, Hidden, Asked, Local, Fails, Checked, End, Close, request, reading,
         program, sockets, aborts, time
    <2>2. QED
      BY <2>1, <1>b, <1>d
  <1>3. CASE Create
    <2>1. \/ Hidden
          \/ Fails("60000") \/ Fails("60001") \/ Fails("60002") \/ Fails("60003") \/ Fails("60007")
          \/ Fails("60008") \/ Fails("cancelled") \/ Fails("other")
      BY <1>3
         DEF Create, MoreAddresses, Hidden, Asked, Local, Fails, Checked, End, Close, request,
         reading, program, sockets, aborts, time
    <2>2. QED
      BY <2>1, <1>b, <1>d
  <1>4. CASE Install
    <2>1. \/ Hidden
          \/ Fails("60000") \/ Fails("60001") \/ Fails("60002") \/ Fails("60003") \/ Fails("60007")
          \/ Fails("60008") \/ Fails("cancelled") \/ Fails("other")
      BY <1>4
         DEF Install, Go, Hidden, Asked, Local, Fails, Checked, End, Close, request, reading,
         program, sockets, aborts, time
    <2>2. QED
      BY <2>1, <1>b, <1>d
  <1>5. CASE Wrap
    <2>1. \/ Hidden
          \/ Fails("60000") \/ Fails("60001") \/ Fails("60002") \/ Fails("60003") \/ Fails("60007")
          \/ Fails("60008") \/ Fails("cancelled") \/ Fails("other")
      BY <1>5
         DEF Wrap, Hidden, Asked, Local, Fails, Checked, End, Close, request, reading, program,
         sockets, aborts, time
    <2>2. QED
      BY <2>1, <1>b, <1>d
  <1>6. CASE Loop
    <2>1. \/ Hidden
          \/ Fails("60000") \/ Fails("60001") \/ Fails("60002") \/ Fails("60003") \/ Fails("60007")
          \/ Fails("60008") \/ Fails("cancelled") \/ Fails("other")
      BY <1>6
         DEF Loop, Hidden, Asked, Local, Fails, Checked, End, Close, request, reading, program,
         sockets, aborts, time
    <2>2. QED
      BY <2>1, <1>b, <1>d
  <1>7. CASE Check
    <2>1. \/ Hidden
          \/ Fails("60000") \/ Fails("60001") \/ Fails("60002") \/ Fails("60003") \/ Fails("60007")
          \/ Fails("60008") \/ Fails("cancelled") \/ Fails("other")
      BY <1>7
         DEF Check, Blocking, Hidden, Asked, Local, Fails, Checked, End, Close, request, reading,
         program, sockets, aborts, time
    <2>2. QED
      BY <2>1, <1>b, <1>d
  <1>8. CASE Take
    <2>1. \/ Hidden
          \/ Fails("60000") \/ Fails("60001") \/ Fails("60002") \/ Fails("60003") \/ Fails("60007")
          \/ Fails("60008") \/ Fails("cancelled") \/ Fails("other")
      BY <1>8
         DEF Take, Blocking, Hidden, Asked, Local, Fails, Checked, End, Close, request, reading,
         program, sockets, aborts, time
    <2>2. QED
      BY <2>1, <1>b, <1>d
  <1>9. CASE IoError
    <2>1. \/ Hidden
          \/ Fails("60000") \/ Fails("60001") \/ Fails("60002") \/ Fails("60003") \/ Fails("60007")
          \/ Fails("60008") \/ Fails("cancelled") \/ Fails("other")
      BY <1>9
         DEF IoError, Blocked, Blocking, Failed, NextAddress, Hidden, Asked, Local, Fails,
         Checked, End, Close, request, reading, program, sockets, aborts, time
    <2>2. QED
      BY <2>1, <1>b, <1>d
  <1>10. CASE IoDone
    <2>1. \/ Hidden
          \/ Fails("60000") \/ Fails("60001") \/ Fails("60002") \/ Fails("60003") \/ Fails("60007")
          \/ Fails("60008") \/ Fails("cancelled") \/ Fails("other")
      BY <1>10
         DEF IoDone, Blocked, Go, Hidden, Asked, Local, Fails, Checked, End, Close, request,
         reading, program, sockets, aborts, time
    <2>2. QED
      BY <2>1, <1>b, <1>d
  <1>11. CASE OpenBody
    <2>1. \/ Hidden
          \/ Fails("60000") \/ Fails("60001") \/ Fails("60002") \/ Fails("60003") \/ Fails("60007")
          \/ Fails("60008") \/ Fails("cancelled") \/ Fails("other")
      BY <1>11
         DEF OpenBody, Go, Hidden, Asked, Local, Fails, Checked, End, Close, request, reading,
         program, sockets, aborts, time
    <2>2. QED
      BY <2>1, <1>b, <1>d
  <1>12. CASE BodyBroken
    <2>1. \/ Hidden
          \/ Fails("60000") \/ Fails("60001") \/ Fails("60002") \/ Fails("60003") \/ Fails("60007")
          \/ Fails("60008") \/ Fails("cancelled") \/ Fails("other")
      BY <1>12
         DEF BodyBroken, Read, Hidden, Asked, Local, Fails, Checked, End, Close, request, reading,
         program, sockets, aborts, time
    <2>2. QED
      BY <2>1, <1>b, <1>d
  <1>13. CASE JsonChunk
    <2>1. \/ Hidden
          \/ Fails("60000") \/ Fails("60001") \/ Fails("60002") \/ Fails("60003") \/ Fails("60007")
          \/ Fails("60008") \/ Fails("cancelled") \/ Fails("other")
      BY <1>13
         DEF JsonChunk, Read, Go, Hidden, Asked, Local, Fails, Checked, End, Close, request,
         reading, program, sockets, aborts, time
    <2>2. QED
      BY <2>1, <1>b, <1>d
  <1>14. CASE SseChunk
    <2>1. \/ Hidden
          \/ Fails("60000") \/ Fails("60001") \/ Fails("60002") \/ Fails("60003") \/ Fails("60007")
          \/ Fails("60008") \/ Fails("cancelled") \/ Fails("other")
      BY <1>14
         DEF SseChunk, Read, Go, Hidden, Asked, Local, Fails, Checked, End, Close, request,
         reading, program, sockets, aborts, time
    <2>2. QED
      BY <2>1, <1>b, <1>d
  <1>15. CASE Head
    <2>1. \/ Hidden
          \/ Fails("60000") \/ Fails("60001") \/ Fails("60002") \/ Fails("60003") \/ Fails("60007")
          \/ Fails("60008") \/ Fails("cancelled") \/ Fails("other")
          \/ streaming /\ phase = "head" /\ Yields("headers")
      BY <1>15
         DEF Head, HeadersRead, Blocked, YieldEvent, Go, Restart, PInv, YieldInv, Yields, Hidden,
         Asked, Local, Fails, Checked, End, Close, request, reading, program, sockets, aborts,
         time
    <2>2. QED
      BY <2>1, <1>b, <1>c, <1>d
  <1>16. CASE JsonEnd
    <2>1. \/ Hidden
          \/ Fails("60000") \/ Fails("60001") \/ Fails("60002") \/ Fails("60003") \/ Fails("60007")
          \/ Fails("60008") \/ Fails("cancelled") \/ Fails("other")
          \/ ~streaming /\ Yields("result")
          \/ streaming /\ phase = "body" /\ Yields("completed")
      BY <1>16
         DEF JsonEnd, Read, YieldEvent, Go, PInv, YieldInv, Yields, Hidden, Asked, Local, Fails,
         Checked, End, Close, request, reading, program, sockets, aborts, time
    <2>2. QED
      BY <2>1, <1>b, <1>c, <1>d
  <1>17. CASE SseEvent
    <2>1. \/ Hidden
          \/ Fails("60000") \/ Fails("60001") \/ Fails("60002") \/ Fails("60003") \/ Fails("60007")
          \/ Fails("60008") \/ Fails("cancelled") \/ Fails("other")
          \/ /\ streaming /\ phase = "events"
             /\ Yields("append") \/ Yields("completed") \/ Yields("failed")
      BY <1>17
         DEF SseEvent, YieldEvent, Go, Restart, PInv, YieldInv, Yields, Hidden, Asked, Local,
         Fails, Checked, End, Close, request, reading, program, sockets, aborts, time
    <2>2. QED
      BY <2>1, <1>b, <1>c, <1>d
  <1>18. CASE Start \/ Resume
    <2>1. /\ Stage # "gone" /\ Stage' = Stage /\ ~Asked /\ Asked'
          /\ UNCHANGED <<streaming, cancelled, fate>>
      <3>1. phase \in {"idle", "yield"} /\ yielded' = yielded
        BY <1>18 DEF Start, Resume, Local, reading
      <3>2. phase' \in {"begin", "encoding", "events", "over"}
        <4>1. CASE Start
          BY <4>1 DEF Start, Go
        <4>2. CASE Resume
          <5>1. AfterYield \in {"encoding", "events", "over"}
            BY <4>2 DEF Resume, PInv, Types, YieldInv, AfterYield, Endings
          <5>2. QED
            BY <4>2, <5>1 DEF Resume, Go
        <4>3. QED
          BY <1>18, <4>1, <4>2
      <3>3. UNCHANGED <<streaming, cancelled, fate>>
        BY <1>18 DEF Start, Resume, Local, request, aborts
      <3>4. QED
        BY <3>1, <3>2, <3>3, StageValue DEF PInv, Asked
    <2>2. Iterator!Ask
      BY <2>1 DEF Iterator!Ask, Stage, Asked
    <2>3. QED
      BY <2>2 DEF Goal, Iterator!INext
  <1>19. CASE Return \/ Drop
    <2>1. /\ Stage' = "gone" /\ ~Asked'
          /\ UNCHANGED <<streaming, cancelled>>
          /\ \/ Stage = "over" /\ Asked /\ fate' = "returned"
             \/ Stage \in {"streaming", "over"} /\ ~Asked /\ fate' = "dropped"
      BY <1>19, StageValue DEF Return, Drop, End, PInv, YieldInv, Endings, Asked, request, aborts
    <2>2. Iterator!Finish \/ Iterator!Drop
      BY <2>1 DEF Iterator!Finish, Iterator!Drop, Iterator!Leave, Stage, Asked
    <2>3. QED
      BY <2>2 DEF Goal, Iterator!INext
  <1>20. ASSUME NEW a \in Aborters, Abort(a) PROVE Goal
    <2>1. cancelled' = TRUE /\ UNCHANGED <<streaming, phase, yielded, fate>>
      BY <1>20 DEF Abort, request, program, reading
    <2>2. Stage' = Stage /\ Asked' = Asked
      BY <2>1 DEF Stage, Asked
    <2>3. CASE cancelled
      <3>1. cancelled' = cancelled
        BY <2>1, <2>3, Zenon DEF PInv, Flags
      <3>2. QED
        BY <2>1, <2>2, <3>1 DEF Goal
    <2>4. CASE ~cancelled
      BY <2>1, <2>2, <2>4 DEF Goal, Iterator!INext, Iterator!Abort, Stage, Asked
    <2>5. QED
      BY <2>3, <2>4
  <1>21. CASE Tick \/ \E a \in Aborters : AbortTake(a) \/ AbortClose(a)
    <2>1. UNCHANGED <<streaming, phase, yielded, cancelled, fate>>
      BY <1>21 DEF Tick, AbortTake, AbortClose, request, program, reading, aborts
    <2>2. QED
      BY <2>1 DEF Goal, Stage, Asked
  <1>22. Goal
    BY <1>1, <1>2, <1>3, <1>4, <1>5, <1>6, <1>7, <1>8, <1>9, <1>10, <1>11, <1>12, <1>13, <1>14,
       <1>15, <1>16, <1>17, <1>18, <1>19, <1>20, <1>21
       DEF Step, Connecting, Reading, Provider, Body
  <1> QED
    BY <1>22

\* The safety part of ImplementsIterator, for all parameters.
THEOREM ProviderRefines == Spec => Iterator!ISpec
  <1>1. Init => Iterator!IInit
    BY Zenon DEF Init, Iterator!IInit, Endings
  <1>2. PInv /\ PInv' /\ [Next]_vars
           => [Iterator!INext]_<<streaming, Stage, Asked, cancelled, fate>>
    <2> SUFFICES ASSUME PInv, PInv', [Next]_vars
                 PROVE  Iterator!INext \/ UNCHANGED <<streaming, Stage, Asked, cancelled, fate>>
      OBVIOUS
    <2>1. CASE UNCHANGED vars
      BY <2>1 DEF vars, request, program, reading, aborts, Stage, Asked
    <2>2. CASE Step
      BY <2>2, RefineStep
    <2>3. QED
      BY <2>1, <2>2 DEF Next, Step, Done
  <1>3. QED
    BY <1>1, <1>2, ProviderInvariance, PTL DEF Spec, Iterator!ISpec, Iterator!ivars, Stage, Asked
=============================================================================
