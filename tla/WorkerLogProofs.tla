--------------------------- MODULE WorkerLogProofs ---------------------------
(***************************************************************************)
(* The Worker and the log, for every value of the constants: the records   *)
(* of the Worker say what the log says.                                    *)
(***************************************************************************)
EXTENDS WorkerProofs, LlmMessagesProofs

(***************************************************************************)
(* The records of the requests against the reference reading of what this  *)
(* incarnation has read.                                                   *)
(***************************************************************************)
View(s) ==
    /\ ~Broken(log, s, Seen)
    /\ Tracked(s) => /\ requests[s].terminal = Winner(log, s, Seen)
                     /\ requests[s].chain = ChainTail(log, s, Seen)
                     /\ requests[s].duplicate <=> Earlier(s)
    /\ Winner(log, s, Seen) = 0 => Tracked(s)

ViewInv == \A s \in RequestSeqs(Seen) : View(s)

\* What is read is in the log, and a request that is read is one of Seqs.
LEMMA ReadSeqs ==
    ASSUME IInv
    PROVE  /\ Seen \in Nat /\ Len(log) \in Nat /\ Seen <= Len(log)
           /\ \A s \in RequestSeqs(Seen) : s \in Seqs /\ s \in 1..Seen /\ s \in 1..Len(log)
  <1>1. Seen \in Nat /\ Len(log) \in Nat
    BY SeenKnown, LenProperties DEF IInv, TypeOK
  <1>2. Seen <= Len(log)
    BY <1>1 DEF IInv, TypeOK, ReaderInv, Seen
  <1>3. QED
    BY <1>1, <1>2 DEF IInv, RequestsBounded, RequestSeqs

\* Nothing is read, and no record changes what it says of the log, unless it is
\* dropped after its request was decided.
SameRecord(t) ==
    \/ /\ requests'[t].phase = "absent" <=> requests[t].phase = "absent"
       /\ requests'[t].terminal = requests[t].terminal
       /\ requests'[t].chain = requests[t].chain
       /\ requests'[t].duplicate = requests[t].duplicate
    \/ requests'[t].phase = "absent" /\ requests[t].terminal # 0

\* A step that reads nothing keeps the agreement if it keeps what the records say.
LEMMA ViewKeeps ==
    ASSUME IInv, ViewInv, Seen' = Seen, \A i \in 1..Len(log) : log'[i] = log[i],
           \A t \in Seqs : SameRecord(t)
    PROVE  ViewInv'
  <1>1. /\ Seen \in Nat /\ Len(log) \in Nat /\ Seen <= Len(log)
        /\ \A s \in RequestSeqs(Seen) : s \in Seqs /\ s \in 1..Seen
    BY ReadSeqs
  <1>2. \A i \in 1..Seen : log'[i] = log[i]
    BY <1>1
  <1>3. RequestSeqs(Seen)' = RequestSeqs(Seen)
    BY <1>1, <1>2 DEF RequestSeqs
  <1>4. ASSUME NEW s \in RequestSeqs(Seen) PROVE View(s)'
    <2>1. s \in Seqs /\ s \in 1..Seen /\ View(s) /\ SameRecord(s)
      BY <1>1 DEF ViewInv
    <2>2. /\ Winner(log', s, Seen) = Winner(log, s, Seen)
          /\ ChainTail(log', s, Seen) = ChainTail(log, s, Seen)
          /\ Broken(log', s, Seen) <=> Broken(log, s, Seen)
      BY <1>1, <1>2, <2>1, ReadPrefix
    <2>3. Earlier(s)' <=> Earlier(s)
      <3>1. RequestSeqs(s - 1)' = RequestSeqs(s - 1) /\ log'[s] = log[s]
        BY <1>1, <1>2, <2>1 DEF RequestSeqs
      <3>2. \A q \in RequestSeqs(s - 1) : log'[q] = log[q]
        BY <1>1, <1>2, <2>1 DEF RequestSeqs
      <3>3. QED
        BY <3>1, <3>2 DEF Earlier
    <2>4. QED
      BY <2>1, <2>2, <2>3 DEF View, SameRecord, Tracked
  <1>5. QED
    BY <1>3, <1>4 DEF ViewInv

\* A message that is not for the request, or that its reader skips, says nothing.
LEMMA ViewSilent ==
    ASSUME IInv, NEW i \in Nat \ {0}, i = Seen + 1, NEW s \in RequestSeqs(Seen), View(s),
           Winner(log, s, Seen) = 0 =>
              ~Decides(log, s, Seen) /\ ~Links(log, s, Seen) /\ ~Misfits(log, s, Seen)
    PROVE  /\ Winner(log, s, i) = Winner(log, s, Seen)
           /\ ChainTail(log, s, i) = ChainTail(log, s, Seen)
           /\ ~Broken(log, s, i)
  <1>1. Seen \in Nat /\ s \in Nat /\ s <= Seen
    BY ReadSeqs
  <1>2. CASE Winner(log, s, Seen) # 0
    BY <1>1, <1>2, ReadSettled DEF View
  <1>3. CASE Winner(log, s, Seen) = 0
    <2>1. Winner(log, s, Seen + 1) = Winner(log, s, Seen)
      <3>1. Winner(log, s, Seen + 1) =
               IF Winner(log, s, Seen) = 0 /\ Decides(log, s, Seen) THEN Seen + 1
               ELSE Winner(log, s, Seen)
        BY <1>1, WinnerNext
      <3>2. QED
        BY <1>3, <3>1
    <2>2. /\ ChainTail(log, s, Seen + 1) = ChainTail(log, s, Seen)
          /\ ~Broken(log, s, Seen + 1)
      BY <1>1, <1>3, ReadNext DEF View
    <2>3. QED
      BY <2>1, <2>2
  <1>4. QED
    BY <1>2, <1>3

\* The same for a message that _accept skips.
LEMMA SkippedSilent ==
    ASSUME IInv, NEW i \in Nat \ {0}, i = Seen + 1, NEW s \in RequestSeqs(Seen), View(s),
           Winner(log, s, Seen) = 0, IsOutput(log[i]), Skipped(log[i])
    PROVE  ~Decides(log, s, Seen) /\ ~Links(log, s, Seen) /\ ~Misfits(log, s, Seen)
  <1> DEFINE m == log[i]
  <1>1. Seen \in Nat /\ s \in Nat /\ s <= Seen /\ s \in Seqs
    BY ReadSeqs
  <1>2. Tracked(s) /\ requests[s].terminal = 0 /\ requests[s].chain = ChainTail(log, s, Seen)
    BY DEF View
  <1>3. ChainTail(log, s, Seen) = 0 <=> FirstResult(log, s, Seen) = 0
    BY <1>1, ReadNext DEF View
  <1>4. ASSUME m.ref = s, m.key = log[s].key
        PROVE  \/ m.kind = "result" /\ FirstResult(log, s, Seen) # 0
               \/ m.kind \in {"end", "cancel"} /\ ~log[s].streaming
    BY <1>1, <1>2, <1>3, <1>4 DEF Skipped, Matched
  <1>5. QED
    BY <1>4 DEF Decides, Links, Misfits, Hit

\* The next output for an undecided request, as _accept and the reference see it.
LEMMA MatchedReading ==
    ASSUME IInv, NEW i \in Nat \ {0}, i = Seen + 1, NEW s \in RequestSeqs(Seen), View(s),
           s = log[i].ref, IsOutput(log[i]), Matched(log[i]), ~Skipped(log[i]), ~Faulty(log[i])
    PROVE  /\ Winner(log, s, Seen) = 0 /\ requests[s].chain = ChainTail(log, s, Seen)
           /\ Winner(log, s, i) = IF Terminal(log[i]) THEN i ELSE 0
           /\ ChainTail(log, s, i) = IF log[i].kind \in {"result", "append"} THEN i
                                     ELSE ChainTail(log, s, Seen)
           /\ ~Broken(log, s, i)
  <1> DEFINE m == log[i]
  <1>1. Seen \in Nat /\ s \in Nat /\ s <= Seen /\ s \in Seqs
    BY ReadSeqs
  <1>2. /\ Tracked(s) /\ requests[s].terminal = 0 /\ m.key = log[s].key
        /\ Winner(log, s, Seen) = 0 /\ requests[s].chain = ChainTail(log, s, Seen)
    BY DEF View, Matched
  <1>3. ChainTail(log, s, Seen) = 0 <=> FirstResult(log, s, Seen) = 0
    BY <1>1, <1>2, ReadNext DEF View
  <1>4. /\ m.kind = "result" => FirstResult(log, s, Seen) = 0
        /\ m.kind \in {"end", "cancel"} => log[s].streaming
    BY <1>2, <1>3 DEF Skipped
  <1>5. /\ m.kind = "result" /\ ~log[s].streaming => m.body
        /\ m.kind = "append" => /\ log[s].streaming /\ FirstResult(log, s, Seen) # 0
                                /\ m.prev = ChainTail(log, s, Seen)
    BY <1>2, <1>3 DEF Faulty
  <1>6. m.kind \in {"result", "append", "end", "cancel"}
    BY DEF IsOutput
  <1>7. Decides(log, s, Seen) <=> Terminal(m)
    BY <1>2, <1>4, <1>5, <1>6 DEF Decides, Terminal, Hit
  <1>8. Links(log, s, Seen) <=> m.kind \in {"result", "append"}
    BY <1>2, <1>4, <1>5, <1>6 DEF Links, Hit
  <1>9. ~Misfits(log, s, Seen)
    BY <1>2, <1>4, <1>5, <1>6 DEF Misfits, Hit
  <1>10. Winner(log, s, Seen + 1) = IF Terminal(m) THEN i ELSE 0
    BY <1>1, <1>2, <1>7, WinnerNext
  <1>11. /\ ChainTail(log, s, Seen + 1) = IF Links(log, s, Seen) THEN i ELSE ChainTail(log, s, Seen)
         /\ ~Broken(log, s, Seen + 1)
    BY <1>1, <1>2, <1>9, ReadNext DEF View
  <1>12. QED
    BY <1>2, <1>8, <1>10, <1>11

\* The reader processes one message: the reference reading and the records move
\* on together.
LEMMA AcceptView ==
    ASSUME IInv, ViewInv, IInv', NEW h \in BOOLEAN, NEW i \in 1..Len(log), i = Seen + 1,
           proc # "down", Accept(i, h), Seen' = i, log' = log
    PROVE  ViewInv'
  <1>1. /\ Seen \in Nat /\ Len(log) \in Nat /\ i \in Nat \ {0}
        /\ requests \in [Seqs -> RequestState]
        /\ \A s \in RequestSeqs(Seen) : s \in Seqs /\ s \in 1..Seen
    <2>1. /\ Seen \in Nat /\ Len(log) \in Nat
          /\ \A s \in RequestSeqs(Seen) : s \in Seqs /\ s \in 1..Seen
      BY ReadSeqs
    <2>2. i \in Nat \ {0}
      BY <2>1
    <2>3. QED
      BY <2>1, <2>2 DEF IInv, TypeOK
  <1>2. \A s : (s \in RequestSeqs(Seen)' <=> s \in RequestSeqs(Seen) \/ (s = i /\ IsRequest(log[i])))
    <2>1. Seen' = Seen + 1
      OBVIOUS
    <2>2. QED
      BY <1>1, <2>1 DEF RequestSeqs
  <1>3. \A s : Earlier(s)' <=> Earlier(s)
    BY DEF Earlier, RequestSeqs
  \* A record that stays as it is, and a message that says nothing of it.
  <1>4. ASSUME NEW s \in RequestSeqs(Seen), requests'[s] = requests[s],
               Winner(log, s, Seen) = 0 =>
                  ~Decides(log, s, Seen) /\ ~Links(log, s, Seen) /\ ~Misfits(log, s, Seen)
        PROVE  View(s)'
    <2>1. View(s)
      BY DEF ViewInv
    <2>2. /\ Winner(log, s, i) = Winner(log, s, Seen)
          /\ ChainTail(log, s, i) = ChainTail(log, s, Seen)
          /\ ~Broken(log, s, i)
      BY <1>1, <1>4, <2>1, ViewSilent
    <2>3. QED
      BY <1>3, <1>4, <2>1, <2>2 DEF View, Tracked
  <1>5. CASE UNCHANGED requests /\ (log[i] = System \/ (IsOutput(log[i]) /\ Skipped(log[i])))
    <2>1. ASSUME NEW s \in RequestSeqs(Seen) PROVE View(s)'
      <3>1. View(s)
        BY DEF ViewInv
      <3>2. CASE log[i] = System
        BY <1>4, <1>5, <3>2 DEF Decides, Links, Misfits, Hit, System
      <3>3. CASE IsOutput(log[i]) /\ Skipped(log[i])
        BY <1>1, <1>4, <1>5, <3>1, <3>3, SkippedSilent
      <3>4. QED
        BY <1>5, <3>2, <3>3
    <2>2. ~IsRequest(log[i])
      BY <1>5 DEF IsRequest, IsOutput, System
    <2>3. QED
      BY <1>2, <2>1, <2>2 DEF ViewInv
  <1>6. ASSUME NEW r \in Seqs, r = log[i].ref, IsOutput(log[i]), Matched(log[i]),
               ~Skipped(log[i]), ~Faulty(log[i]),
               requests' = [requests EXCEPT ![r] = Observed(requests[r], log[i], i)]
        PROVE  ViewInv'
    <2>1. ~IsRequest(log[i]) /\ requests[r] \in RequestState /\ requests[r].terminal = 0
      BY <1>1, <1>6 DEF IsRequest, IsOutput, Matched
    <2>2. ASSUME NEW s \in RequestSeqs(Seen), s # r PROVE View(s)'
      <3>1. requests'[s] = requests[s]
        BY <1>1, <1>6, <2>2
      <3>2. ~Decides(log, s, Seen) /\ ~Links(log, s, Seen) /\ ~Misfits(log, s, Seen)
        BY <1>6, <2>2 DEF Decides, Links, Misfits, Hit
      <3>3. QED
        BY <1>4, <3>1, <3>2
    <2>3. ASSUME r \in RequestSeqs(Seen) PROVE View(r)'
      <3>1. View(r)
        BY <2>3 DEF ViewInv
      <3>2. /\ requests[r].chain = ChainTail(log, r, Seen)
            /\ Winner(log, r, i) = IF Terminal(log[i]) THEN i ELSE 0
            /\ ChainTail(log, r, i) = IF log[i].kind \in {"result", "append"} THEN i
                                      ELSE ChainTail(log, r, Seen)
            /\ ~Broken(log, r, i)
        BY <1>1, <1>6, <2>3, <3>1, MatchedReading
      <3>3. requests'[r] = Observed(requests[r], log[i], i)
        BY <1>1, <1>6
      <3>4. /\ ~Terminal(log[i]) => /\ requests'[r].phase = requests[r].phase
                                    /\ requests'[r].terminal = requests[r].terminal
                                    /\ requests'[r].duplicate = requests[r].duplicate
            /\ Terminal(log[i]) /\ requests[r].phase # "running" => requests'[r] = Absent
            /\ Terminal(log[i]) /\ requests[r].phase = "running" =>
                  /\ requests'[r].phase = "running" /\ requests'[r].terminal = i
                  /\ requests'[r].duplicate = requests[r].duplicate
            /\ ~Terminal(log[i]) \/ requests[r].phase = "running" =>
                  requests'[r].chain = IF log[i].kind \in {"result", "append"} THEN i
                                       ELSE requests[r].chain
        BY <1>1, <2>1, <3>3, ObservedFields
      <3>5. Tracked(r)
        BY <1>6 DEF Matched
      <3>6. CASE ~Terminal(log[i])
        BY <1>1, <1>3, <2>1, <3>1, <3>2, <3>4, <3>5, <3>6 DEF View, Tracked
      <3>7. CASE Terminal(log[i]) /\ requests[r].phase # "running"
        <4>1. requests'[r].phase = "absent"
          BY <3>4, <3>7 DEF Absent
        <4>2. QED
          BY <1>1, <3>2, <3>7, <4>1 DEF View, Tracked
      <3>8. CASE Terminal(log[i]) /\ requests[r].phase = "running"
        BY <1>1, <1>3, <3>1, <3>2, <3>4, <3>5, <3>8 DEF View, Tracked
      <3>9. QED
        BY <3>6, <3>7, <3>8
    <2>4. QED
      BY <1>2, <2>1, <2>2, <2>3 DEF ViewInv
  <1>7. ASSUME i \in Seqs, Asked(i), NEW body \in BOOLEAN,
               requests' = [requests EXCEPT ![i] = NewRecord(i, body)]
        PROVE  ViewInv'
    <2>1. IsRequest(log[i])
      BY <1>7, MessageKinds DEF Asked, Messages
    <2>2. ASSUME NEW s \in RequestSeqs(Seen) PROVE View(s)'
      <3>1. requests'[s] = requests[s]
        BY <1>1, <1>7
      <3>2. ~Decides(log, s, Seen) /\ ~Links(log, s, Seen) /\ ~Misfits(log, s, Seen)
        BY <2>1 DEF Decides, Links, Misfits, Hit, IsRequest
      <3>3. QED
        BY <1>4, <3>1, <3>2
    <2>3. View(i)'
      <3>1. requests'[i] = NewRecord(i, body)
        BY <1>1, <1>7
      <3>2. /\ requests'[i].phase = "pending" /\ requests'[i].chain = 0
            /\ requests'[i].terminal = 0
            /\ requests'[i].duplicate <=> log[i].key \in originals
        BY <3>1, NewRecordFields
      <3>3. Winner(log, i, i) = 0 /\ ChainTail(log, i, i) = 0 /\ ~Broken(log, i, i)
        BY <1>1, ReadNothing
      <3>4. log[i].key \in originals <=> Earlier(i)
        <4>1. i - 1 = Seen
          BY <1>1
        <4>2. QED
          BY <4>1 DEF IInv, OriginalsInv, Earlier
      <3>5. QED
        BY <1>3, <3>2, <3>3, <3>4 DEF View, Tracked
    <2>4. QED
      BY <1>2, <2>2, <2>3 DEF ViewInv
  <1>8. CASE /\ IsOutput(log[i]) /\ Matched(log[i]) /\ ~Skipped(log[i]) /\ ~Faulty(log[i])
             /\ requests' = [requests EXCEPT ![log[i].ref] =
                                Observed(requests[log[i].ref], log[i], i)]
    BY <1>6, <1>8 DEF Matched
  <1>9. QED
    BY <1>5, <1>7, <1>8, AcceptCases

\* stop() leaves in a record what it says of the log.
LEMMA StopFields ==
    ASSUME IInv, NEW t \in Seqs
    PROVE  /\ StopAll[t].phase = requests[t].phase
           /\ StopAll[t].terminal = requests[t].terminal
           /\ StopAll[t].chain = requests[t].chain
           /\ StopAll[t].duplicate = requests[t].duplicate
  <1>1. requests[t] \in RequestState
    BY DEF IInv, TypeOK
  <1>2. /\ Aborted(requests[t]) \in RequestState
        /\ Aborted(requests[t]).phase = requests[t].phase
        /\ Aborted(requests[t]).terminal = requests[t].terminal
        /\ Aborted(requests[t]).chain = requests[t].chain
        /\ Aborted(requests[t]).duplicate = requests[t].duplicate
    BY <1>1 DEF Aborted, RequestState, Operations
  <1>3. StopAll[t] = [Aborted(requests[t]) EXCEPT !.body = FALSE]
    BY DEF StopAll
  <1>4. QED
    BY <1>2, <1>3 DEF RequestState

\* A thread touches its record only where it says nothing of the log, until it
\* drops it.
LEMMA ThreadSame ==
    ASSUME IInv, NEW s \in Seqs, Thread(s), TaskInv(s), NEW t \in Seqs
    PROVE  SameRecord(t)
  <1>1. CASE Fail
    BY <1>1, StopFields DEF Fail, SameRecord
  <1>2. CASE requests'[t] = requests[t]
    BY <1>2 DEF SameRecord
  <1>3. /\ requests[s] \in RequestState /\ requests \in [Seqs -> RequestState]
    BY DEF IInv, TypeOK
  <1>4. CASE t = s /\ ~Fail
    <2>1. CASE TaskBegin(s) \/ TaskInstall(s) \/ TaskStart(s) \/ ProviderCancelled(s)
      <3>1. CASE requests' = requests
        BY <1>2, <1>4, <3>1
      <3>2. CASE requests' = [requests EXCEPT ![s].body = FALSE]
        <4>1. requests'[s] = [requests[s] EXCEPT !.body = FALSE]
          BY <1>3, <3>2
        <4>2. QED
          BY <1>3, <1>4, <4>1 DEF SameRecord, RequestState
      <3>3. CASE requests' = [requests EXCEPT ![s].op = "open"]
        <4>1. requests'[s] = [requests[s] EXCEPT !.op = "open"]
          BY <1>3, <3>3
        <4>2. QED
          BY <1>3, <1>4, <4>1 DEF SameRecord, RequestState
      <3>4. QED
        BY <2>1, <3>1, <3>2, <3>3 DEF TaskBegin, TaskInstall, TaskStart, ProviderCancelled
    <2>2. CASE ProviderStep(s) \/ Oversize(s) \/ PublishStart(s)
      <3>1. requests' = requests
        BY <2>2 DEF ProviderStep, Yield, ProviderFail, Oversize, EmitOrEnd, PublishStart
      <3>2. QED
        BY <1>2, <1>4, <3>1
    <2>3. CASE PublishFail(s)
      <3>1. requests' = requests
        BY <1>4, <2>3 DEF PublishFail
      <3>2. QED
        BY <1>2, <1>4, <3>1
    <2>4. CASE PublishReturn(s)
      <3>1. CASE requests' = requests
        BY <1>2, <1>4, <3>1
      <3>2. CASE agent[s].role = "recovery" /\ requests' = [requests EXCEPT ![s].phase = "done"]
        <4>1. requests'[s] = [requests[s] EXCEPT !.phase = "done"]
          BY <1>3, <3>2
        <4>2. requests[s].phase = "pending"
          BY <3>2 DEF TaskInv
        <4>3. QED
          BY <1>3, <1>4, <4>1, <4>2 DEF SameRecord, RequestState
      <3>3. QED
        BY <2>4, <3>1, <3>2 DEF PublishReturn
    <2>5. ASSUME NEW r \in RequestState, requests'[s] = Retired(r), r.phase = "done",
                 r.terminal = requests[s].terminal, r.chain = requests[s].chain,
                 r.duplicate = requests[s].duplicate, requests[s].phase = "running"
          PROVE  SameRecord(s)
      <3>1. CASE r.terminal = 0
        <4>1. requests'[s] = r
          BY <2>5, <3>1 DEF Retired
        <4>2. QED
          BY <2>5, <4>1 DEF SameRecord
      <3>2. CASE r.terminal # 0
        <4>1. requests'[s].phase = "absent"
          BY <2>5, <3>2 DEF Retired, Absent
        <4>2. QED
          BY <2>5, <3>2, <4>1 DEF SameRecord
      <3>3. QED
        BY <3>1, <3>2
    <2>6. CASE TaskFinally(s)
      <3> DEFINE r == [requests[s] EXCEPT !.op = "none", !.body = FALSE, !.phase = "done"]
      <3>1. requests'[s] = Retired(r)
        BY <1>3, <2>6 DEF TaskFinally
      <3>2. r \in RequestState
        BY <1>3, FieldTypes
      <3>3. /\ r.phase = "done" /\ r.terminal = requests[s].terminal
            /\ r.chain = requests[s].chain /\ r.duplicate = requests[s].duplicate
        BY <1>3 DEF RequestState
      <3>4. requests[s].phase = "running"
        BY <2>6 DEF TaskFinally, At, TaskInv
      <3>5. QED
        <4> HIDE DEF r
        <4> QED BY <1>4, <2>5, <3>1, <3>2, <3>3, <3>4
    <2>7. CASE ControlFinally(s)
      <3> DEFINE r == [requests[s] EXCEPT !.phase = "done"]
      <3>1. requests'[s] = Retired(r)
        BY <1>3, <2>7 DEF ControlFinally
      <3>2. r \in RequestState
        BY <1>3, FieldTypes
      <3>3. /\ r.phase = "done" /\ r.terminal = requests[s].terminal
            /\ r.chain = requests[s].chain /\ r.duplicate = requests[s].duplicate
        BY <1>3 DEF RequestState
      <3>4. requests[s].phase = "running"
        BY <2>7 DEF ControlFinally, At, TaskInv
      <3>5. QED
        <4> HIDE DEF r
        <4> QED BY <1>4, <2>5, <3>1, <3>2, <3>3, <3>4
    <2>8. CASE ControlFail(s)
      <3> DEFINE r == [StopAll[s] EXCEPT !.phase = "done"]
      <3>1. requests'[s] = Retired(r) /\ StopAll[s] \in RequestState
        BY <2>8, ControlFailRecords
      <3>2. r \in RequestState
        BY <3>1, FieldTypes
      <3>3. /\ r.phase = "done" /\ r.terminal = requests[s].terminal
            /\ r.chain = requests[s].chain /\ r.duplicate = requests[s].duplicate
        BY <3>1, StopFields DEF RequestState
      <3>4. requests[s].phase = "running"
        BY <2>8 DEF ControlFail, TaskInv
      <3>5. QED
        <4> HIDE DEF r
        <4> QED BY <1>4, <2>5, <3>1, <3>2, <3>3, <3>4
    <2>9. QED
      BY <2>1, <2>2, <2>3, <2>4, <2>6, <2>7, <2>8 DEF Thread, ThreadStep
  <1>5. CASE requests'[t] = StopAll[t]
    BY <1>5, StopFields DEF SameRecord
  <1>6. QED
    BY <1>1, <1>2, <1>4, <1>5, ThreadFrame

\* Taking a request from a queue makes its record a running one.
LEMMA TakenSame ==
    ASSUME IInv, Schedule \/ ControlBegin, NEW t \in Seqs
    PROVE  SameRecord(t)
  <1>1. requests \in [Seqs -> RequestState]
    BY DEF IInv, TypeOK
  <1>2. \/ requests' = requests
        \/ \E s : Tracked(s) /\ requests' = [requests EXCEPT ![s].phase = "running"]
    BY DEF Schedule, ControlBegin
  <1>3. QED
    BY <1>1, <1>2 DEF SameRecord, RequestState, Tracked

\* Every step keeps the agreement; all but reading and restarting keep the records.
LEMMA ViewStep ==
    ASSUME IInv, IInv', TaskInvs, ViewInv, [Next]_vars
    PROVE  ViewInv'
  <1> USE DEF process, reader, queues, worker, server
  <1>1. ASSUME requests' = requests, Seen' = Seen, \A i \in 1..Len(log) : log'[i] = log[i]
        PROVE  ViewInv'
    BY <1>1, ViewKeeps DEF SameRecord
  <1>2. CASE Environment
    <2>1. /\ UNCHANGED <<process, reader, requests>> /\ \A i \in 1..Len(log) : log'[i] = log[i]
      BY <1>2, EnvironmentFrame
    <2>2. Seen' = Seen
      BY <2>1 DEF Seen
    <2>3. QED
      BY <1>1, <2>1, <2>2
  <1>3. CASE Connect \/ Disconnect \/ DeliverAgain \/ (\E s \in Seqs : RecoverRequest(s))
             \/ UNCHANGED vars
    <2>1. /\ UNCHANGED <<log, proc, requests, lastSeen>>
          /\ proc = "scan" => cursor' = cursor
      BY <1>3 DEF Connect, Disconnect, DeliverAgain, Receiving, RecoverRequest, vars
    <2>2. Seen' = Seen
      BY <2>1 DEF Seen
    <2>3. QED
      BY <1>1, <2>1, <2>2
  <1>4. CASE GoLive
    <2>1. /\ proc = "scan" /\ proc' = "live" /\ cursor > target /\ lastSeen' = target
          /\ UNCHANGED <<log, requests>>
      BY <1>4 DEF GoLive
    <2>2. Seen' = Seen
      BY <2>1 DEF Seen, IInv, ReaderInv, TypeOK
    <2>3. QED
      BY <1>1, <2>1, <2>2
  <1>5. ASSUME Fail, UNCHANGED <<log, cursor, lastSeen>> PROVE ViewInv'
    <2>1. requests' = StopAll /\ Seen' = Seen /\ log' = log
      BY <1>5 DEF Fail, Seen
    <2>2. \A t \in Seqs : SameRecord(t)
      BY <2>1, StopFields DEF SameRecord
    <2>3. QED
      BY <2>1, <2>2, ViewKeeps
  <1>6. CASE Stop \/ DeliverFault
    BY <1>5, <1>6 DEF Stop, DeliverFault
  <1>7. CASE Scan
    <2>1. /\ proc = "scan" /\ cursor <= target /\ UNCHANGED <<log, target, lastSeen>>
      BY <1>7 DEF Scan
    <2>2. cursor \in 1..Len(log) /\ cursor = Seen + 1 /\ cursor \in Nat
      BY <2>1, LenProperties DEF IInv, TypeOK, ReaderInv, Seen
    <2>3. CASE Accept(cursor, TRUE) /\ cursor' = cursor + 1 /\ UNCHANGED process
      <3>1. Seen' = cursor
        BY <2>1, <2>2, <2>3 DEF Seen
      <3>2. QED
        BY <2>1, <2>2, <2>3, <3>1, AcceptView
    <2>4. CASE Fail /\ UNCHANGED <<cursor, queues>>
      BY <1>5, <2>1, <2>4
    <2>5. QED
      BY <1>7, <2>3, <2>4 DEF Scan
  <1>8. CASE Deliver
    <2>1. /\ proc = "live" /\ cursor \in 1..Len(log) /\ cursor > lastSeen
          /\ Accept(cursor, FALSE) /\ lastSeen' = cursor /\ log' = log /\ proc' = proc
      BY <1>8 DEF Deliver, Receiving
    <2>2. cursor = Seen + 1 /\ Seen' = cursor
      <3>1. cursor \in Nat /\ lastSeen \in Nat /\ cursor <= lastSeen + 1
        BY <2>1 DEF IInv, TypeOK, ReaderInv
      <3>2. Seen = lastSeen /\ Seen' = lastSeen'
        BY <2>1 DEF Seen
      <3>3. QED
        BY <2>1, <3>1, <3>2
    <2>3. QED
      BY <2>1, <2>2, AcceptView
  <1>9. CASE Crash \/ Exit \/ Restart
    <2>1. Seen' = 0
      BY <1>9 DEF Crash, Exit, Restart, Seen
    <2>2. QED
      BY <2>1 DEF ViewInv, RequestSeqs
  <1>10. CASE Schedule \/ ControlBegin
    <2>1. Seen' = Seen /\ log' = log
      BY <1>10 DEF Schedule, ControlBegin, Seen
    <2>2. QED
      BY <1>10, <2>1, TakenSame, ViewKeeps
  <1>11. ASSUME NEW s \in Seqs, Thread(s) PROVE ViewInv'
    <2>1. Seen' = Seen /\ log' = log
      BY <1>11, ThreadFrame DEF Seen
    <2>2. QED
      BY <1>11, <2>1, ThreadSame, ViewKeeps DEF TaskInvs
  <1>12. QED
    BY <1>2, <1>3, <1>4, <1>6, <1>7, <1>8, <1>9, <1>10, <1>11 DEF Next, Life, Subscription

\* The records agree with the reference reading in every behaviour.
LEMMA ViewInvariance == Spec => []ViewInv
  <1>1. Init => ViewInv
    BY DEF Init, ViewInv, RequestSeqs, Seen
  <1>2. IInv /\ IInv' /\ TaskInvs /\ ViewInv /\ [Next]_vars => ViewInv'
    BY ViewStep
  <1>3. QED
    BY <1>1, <1>2, Invariance, TaskInvariance, PTL DEF Spec

\* The bookkeeping of _accept and _retire_locked agrees with the reference
\* reading of what has been processed, for every history of the log.
THEOREM ViewIsLog == Spec => []ViewMatchesLog
  <1>1. IInv /\ TaskInvs /\ ViewInv => ViewMatchesLog
    <2> SUFFICES ASSUME IInv, TaskInvs, ViewInv PROVE ViewMatchesLog
      OBVIOUS
    <2>1. ASSUME NEW s \in Seqs, s \in RequestSeqs(Seen)
          PROVE  /\ requests[s].phase \notin {"absent"} =>
                        /\ requests[s].terminal = Winner(log, s, Seen)
                        /\ requests[s].chain = ChainTail(log, s, Seen)
                        /\ requests[s].duplicate = Earlier(s)
                 /\ Winner(log, s, Seen) # 0 => requests[s].phase \in {"absent", "running"}
                 /\ Winner(log, s, Seen) = 0 => Tracked(s)
      <3>1. View(s) /\ TaskInv(s) /\ requests[s].duplicate \in BOOLEAN
        BY <2>1 DEF ViewInv, TaskInvs, IInv, TypeOK, RequestState
      <3>2. Earlier(s) \in BOOLEAN
        BY DEF Earlier
      <3>3. QED
        BY <3>1, <3>2 DEF View, TaskInv, Tracked
    <2>2. ASSUME NEW s \in Seqs, s \notin RequestSeqs(Seen) PROVE ~Tracked(s)
      <3>1. Tracked(s) => Asked(s) /\ s <= Seen /\ log[s] \in Messages
        BY ElementOfSeq DEF IInv, ThreadInv, Asked, TypeOK
      <3>2. s \in Nat /\ s >= 1 /\ Seen \in Nat
        BY ReadSeqs DEF Seqs
      <3>3. QED
        BY <2>2, <3>1, <3>2, MessageKinds DEF Asked, RequestSeqs
    <2>3. QED
      BY <2>1, <2>2 DEF ViewMatchesLog
  <1>2. QED
    BY <1>1, Invariance, TaskInvariance, ViewInvariance, PTL

\* A Worker never reads on past an output that breaks a call.
THEOREM FaultsStop == Spec => []FaultStopsReader
  <1>1. ViewInv => FaultStopsReader
    BY DEF ViewInv, View, FaultStopsReader
  <1>2. QED
    BY <1>1, ViewInvariance, PTL

-----------------------------------------------------------------------------
(***************************************************************************)
(* The outputs: what a Worker may send for a request, and that everything  *)
(* under way or in the log is that, or was written by somebody else.       *)
(***************************************************************************)

\* An output that continues a chain; any other output of a Worker is terminal.
Linking(m) == m.kind = "append" \/ (m.kind = "result" /\ ~m.body)

\* What a Worker may send for the request at seq s.
Own(s, m) ==
    /\ m \in Outputs /\ m.ref = s /\ m.key = log[s].key
    /\ Linking(m) => log[s].streaming /\ First(s)
    /\ m.kind = "end" => log[s].streaming
    /\ m.kind = "result" /\ m.body /\ log[s].streaming => ~First(s)
    /\ Earlier(s) => m.kind = "result" /\ m.code \in {Duplicate, Interrupted}
    /\ m # Foreign(s)

\* What another member may have written for a request, where such members are.
Alien(m) == "foreign" \in Noise /\ m \in {Foreign(m.ref), ForeignOutcome(m.ref)}

EventInv(s) ==
    /\ agent[s].pc \in {"emit", "publish"} =>
          /\ Own(s, agent[s].event)
          /\ Linking(agent[s].event) => agent[s].role = "provider"
    /\ agent[s].ack # 0 => agent[s].pc = "publish" /\ s < agent[s].ack
    /\ agent[s].writer # 0 => s < agent[s].writer
    /\ agent[s].role = "provider" /\ agent[s].pc \in Early => agent[s].writer = 0
    /\ agent[s].role = "provider" /\ agent[s].pc \in {"iterate", "emit", "publish"}
          => invoked[s] # 0

\* Only requests that a task will never work for are rejected.
ControlsInv ==
    \A i \in 1..Len(controls) :
        /\ ~First(controls[i][1])
        /\ Earlier(controls[i][1]) => controls[i][2] = Duplicate

\* The thread that waits for the reply to a publication of this incarnation.
Sender(p) ==
    \/ /\ agent[p.event.ref].pc = "publish" /\ agent[p.event.ref].ack = 0
       /\ agent[p.event.ref].event = p.event
    \/ stopped /\ agent[p.event.ref].pc \in {"finally", "idle"}

FlightInv ==
    \A p \in inflight :
        /\ p.epoch <= epoch
        /\ Asked(p.event.ref) /\ Own(p.event.ref, p.event)
        /\ p.epoch = epoch /\ proc # "down" => Sender(p)

OutputInv ==
    \A i \in 1..Len(log) : log[i] \in Outputs =>
        /\ Asked(log[i].ref) /\ log[i].ref < i
        /\ Own(log[i].ref, log[i]) \/ Alien(log[i])

OwnInv == (\A s \in Seqs : EventInv(s)) /\ ControlsInv /\ FlightInv /\ OutputInv

\* What the log says of the place of a request among the others is final.
LEMMA LogStable ==
    ASSUME IInv, Len(log') \in Nat, Len(log) <= Len(log'),
           \A i \in 1..Len(log) : log'[i] = log[i],
           NEW s, Asked(s)
    PROVE  /\ s \in Seqs /\ s \in Nat /\ s >= 1 /\ s <= Len(log) /\ log'[s] = log[s]
           /\ Asked(s)'
           /\ First(s)' <=> First(s)
           /\ Earlier(s)' <=> Earlier(s)
           /\ Foreign(s)' = Foreign(s) /\ ForeignOutcome(s)' = ForeignOutcome(s)
           /\ \A m : Own(s, m)' <=> Own(s, m)
  <1>1. Len(log) \in Nat /\ s \in 1..Len(log) /\ log'[s] = log[s]
    BY LenProperties DEF Asked, IInv, TypeOK
  <1>2. s \in Seqs
    <2>1. log[s] \in Messages
      BY <1>1, ElementOfSeq DEF IInv, TypeOK
    <2>2. QED
      BY <1>1, <2>1, MessageKinds DEF Asked, IInv, RequestsBounded
  <1>3. Asked(s)'
    BY <1>1 DEF Asked
  <1>4. \A q \in 1..(s - 1) : log'[q] = log[q]
    BY <1>1
  <1>5. First(s)' <=> First(s)
    BY <1>1, <1>3, <1>4 DEF First
  <1>6. Earlier(s)' <=> Earlier(s)
    BY <1>1, <1>4 DEF Earlier, RequestSeqs
  <1>7. Foreign(s)' = Foreign(s) /\ ForeignOutcome(s)' = ForeignOutcome(s)
    BY <1>1 DEF Foreign, ForeignOutcome
  <1>8. \A m : Own(s, m)' <=> Own(s, m)
    BY <1>1, <1>5, <1>6, <1>7 DEF Own
  <1>9. QED
    BY <1>1, <1>2, <1>3, <1>5, <1>6, <1>7, <1>8

\* An output of a Worker is terminal or continues a chain.
LEMMA LinkingOrTerminal ==
    ASSUME NEW m \in Outputs
    PROVE  Linking(m) <=> ~Terminal(m)
  BY DEF Outputs, Results, Appends, Ends, Linking, Terminal

\* What _error_output builds is one of them.
LEMMA ErrorOwn ==
    ASSUME NEW s \in Seqs, Asked(s), NEW code, NEW rec \in BOOLEAN, NEW rej \in BOOLEAN,
           code \in InterruptedCodes \/ (rej /\ code \in Codes),
           rej => ~First(s) /\ (Earlier(s) => code = Duplicate),
           rec => ~rej /\ code = Interrupted /\ (requests[s].duplicate <=> Earlier(s)),
           ~rej /\ ~rec => First(s)
    PROVE  Own(s, ErrorEvent(s, code, rec, rej)) /\ ~Linking(ErrorEvent(s, code, rec, rej))
  <1> DEFINE e == ErrorEvent(s, code, rec, rej)
  <1> SUFFICES Own(s, e) /\ ~Linking(e)
    OBVIOUS
  <1>1. log[s] \in Requests /\ e \in Outputs
    BY ErrorEventType DEF Asked
  <1>2. First(s) => ~Earlier(s)
    BY DEF First, Earlier, RequestSeqs
  <1>3. Foreign(s).kind = "append" \/ (Foreign(s).kind = "result" /\ Foreign(s).body = FALSE)
    BY DEF Foreign, AppendEvent, Result
  <1>4. CASE EndsStream(s, rec, rej)
    <2>1. /\ e.kind = "end" /\ e.ref = s /\ e.key = log[s].key
          /\ log[s].streaming /\ ~rej /\ ~(rec /\ requests[s].duplicate)
      BY <1>4 DEF ErrorEvent, End, EndsStream
    <2>2. ~Earlier(s)
      BY <1>2, <2>1
    <2> HIDE DEF e
    <2>3. QED
      BY <1>1, <1>3, <2>1, <2>2 DEF Own, Linking
  <1>5. CASE ~EndsStream(s, rec, rej)
    <2>1. /\ e.kind = "result" /\ e.ref = s /\ e.key = log[s].key /\ e.body = TRUE
          /\ e.code = code
      BY <1>5 DEF ErrorEvent, Result
    <2>2. log[s].streaming => rej \/ (rec /\ requests[s].duplicate)
      BY <1>5 DEF EndsStream
    <2>3. log[s].streaming => ~First(s)
      BY <1>2, <2>2
    <2>4. Earlier(s) => code \in {Duplicate, Interrupted}
      BY <1>2
    <2> HIDE DEF e
    <2>5. QED
      BY <1>1, <1>3, <2>1, <2>3, <2>4 DEF Own, Linking
  <1>6. QED
    BY <1>4, <1>5

\* What a Provider may yield next is one of them.
LEMMA NextOwn ==
    ASSUME IInv, NEW s \in Seqs, Yield(s), agent[s].writer # 0 => s < agent[s].writer,
           NEW e \in NextEvents(s)
    PROVE  Own(s, e)
  <1>8. First(s)
    BY DEF Yield, At, IInv, ThreadInv
  <1>1. log[s] \in Requests /\ s \in Nat
    BY <1>8 DEF First, Asked, Seqs
  <1>2. ~Earlier(s)
    BY <1>8 DEF First, Earlier, RequestSeqs
  <1>3. agent[s] \in Agents
    BY DEF IInv, TypeOK
  <1>4. e \in Outputs
    BY StepOutputs DEF ProviderStep
  <1>5. CASE ~log[s].streaming
    <2>1. e = Result(log[s].key, s, TRUE, Http) /\ Foreign(s) = Result(log[s].key, s, FALSE, Http)
      BY <1>5 DEF NextEvents, Foreign
    <2>2. QED
      BY <1>2, <1>4, <1>5, <1>8, <2>1 DEF Own, Linking, Result
  <1>6. CASE log[s].streaming
    <2>1. \/ e = Result(log[s].key, s, FALSE, Http)
          \/ e = End(log[s].key, s, Http)
          \/ e = AppendEvent(log[s].key, s, agent[s].writer) /\ agent[s].writer # 0
      BY <1>6 DEF NextEvents
    <2>2. Foreign(s) = AppendEvent(log[s].key, s, s)
      BY <1>6 DEF Foreign
    <2>3. e # Foreign(s)
      BY <1>1, <1>3, <2>1, <2>2 DEF Result, End, AppendEvent, Agents
    <2>4. QED
      BY <1>2, <1>4, <1>6, <1>8, <2>1, <2>3 DEF Own, Linking, Result, End, AppendEvent
  <1>7. QED
    BY <1>5, <1>6

\* Nothing is said differently of a request while the log is the same.
LEMMA LogFixed ==
    ASSUME log' = log
    PROVE  /\ \A s : (Asked(s)' <=> Asked(s)) /\ (First(s)' <=> First(s))
           /\ \A s : (Earlier(s)' <=> Earlier(s))
           /\ \A s, m : Own(s, m)' <=> Own(s, m)
           /\ OutputInv' <=> OutputInv
  <1>1. \A s : (Asked(s)' <=> Asked(s)) /\ (First(s)' <=> First(s))
    BY DEF Asked, First
  <1>2. \A s : /\ (Earlier(s)' <=> Earlier(s)) /\ Foreign(s)' = Foreign(s)
              /\ ForeignOutcome(s)' = ForeignOutcome(s)
    BY DEF Earlier, RequestSeqs, Foreign, ForeignOutcome
  <1>3. \A s, m : Own(s, m)' <=> Own(s, m)
    BY <1>1, <1>2 DEF Own
  <1>4. OutputInv' <=> OutputInv
    BY <1>1, <1>2, <1>3 DEF OutputInv, Alien
  <1>5. QED
    BY <1>1, <1>2, <1>3, <1>4

\* One thread moves and the log does not.
LEMMA AgentOwn ==
    ASSUME OwnInv, log' = log, NEW s \in Seqs, EventInv(s)',
           \A t \in Seqs \ {s} : agent'[t] = agent[t] /\ invoked'[t] = invoked[t],
           ControlsInv', FlightInv'
    PROVE  OwnInv'
  <1>1. ASSUME NEW t \in Seqs \ {s} PROVE EventInv(t)'
    <2>1. EventInv(t) /\ agent'[t] = agent[t] /\ invoked'[t] = invoked[t]
      BY DEF OwnInv
    <2>2. \A m : Own(t, m)' <=> Own(t, m)
      BY LogFixed
    <2>3. QED
      BY <2>1, <2>2 DEF EventInv
  <1>2. OutputInv'
    BY LogFixed DEF OwnInv
  <1>3. QED
    BY <1>1, <1>2 DEF OwnInv

\* The publications under way stay what they are, if their senders do.
LEMMA FlightKeeps ==
    ASSUME FlightInv, log' = log, inflight' = inflight, epoch' = epoch, proc' # "down" => proc # "down",
           \A p \in inflight : p.epoch = epoch /\ proc' # "down" /\ Sender(p) => Sender(p)'
    PROVE  FlightInv'
  <1>1. \A s, m : (Asked(s)' <=> Asked(s)) /\ (Own(s, m)' <=> Own(s, m))
    BY LogFixed
  <1>2. QED
    BY <1>1 DEF FlightInv

\* No thread moves: the reader, the subscription and the life of the process.
LEMMA QuietOwn ==
    ASSUME OwnInv, log' = log, ControlsInv', FlightInv', agent' = agent, invoked' = invoked
    PROVE  OwnInv'
  <1>1. ASSUME NEW t \in Seqs PROVE EventInv(t)'
    <2>1. EventInv(t)
      BY DEF OwnInv
    <2>2. \A m : Own(t, m)' <=> Own(t, m)
      BY LogFixed
    <2>3. QED
      BY <2>1, <2>2 DEF EventInv
  <1>2. OutputInv'
    BY LogFixed DEF OwnInv
  <1>3. QED
    BY <1>1, <1>2 DEF OwnInv

\* A message is written: what was said of the others stays, and the message is
\* no output, one that a Worker had sent, or one that somebody else made.
LEMMA GrowthOwn ==
    ASSUME IInv, OwnInv, NEW m \in Messages, log' = Append(log, m),
           m \in Outputs => Asked(m.ref) /\ (Own(m.ref, m) \/ Alien(m)),
           controls' = controls, invoked' = invoked, UNCHANGED process,
           inflight' \subseteq inflight,
           \A s \in Seqs : /\ agent'[s].pc = agent[s].pc /\ agent'[s].role = agent[s].role
                           /\ agent'[s].event = agent[s].event
                           /\ agent'[s].writer = agent[s].writer
                           /\ \/ agent'[s].ack = agent[s].ack
                              \/ agent[s].pc = "publish" /\ agent'[s].ack = Len(log) + 1,
           \A p \in inflight' : p.epoch = epoch => agent'[p.event.ref].ack = agent[p.event.ref].ack
    PROVE  OwnInv'
  <1> USE DEF process
  <1>1. /\ Len(log) \in Nat /\ Len(log') = Len(log) + 1 /\ log \in Seq(Messages)
        /\ \A i \in 1..Len(log) : log'[i] = log[i]
        /\ log'[Len(log) + 1] = m
    BY LogAppend, LenProperties, AppendProperties DEF IInv, TypeOK
  <1>2. \A s : Asked(s) =>
           /\ s \in Seqs /\ s \in Nat /\ s >= 1 /\ s <= Len(log) /\ log'[s] = log[s] /\ Asked(s)'
           /\ (First(s)' <=> First(s)) /\ (Earlier(s)' <=> Earlier(s))
           /\ Foreign(s)' = Foreign(s) /\ ForeignOutcome(s)' = ForeignOutcome(s)
           /\ \A e : Own(s, e)' <=> Own(s, e)
    <2>1. Len(log') \in Nat /\ Len(log) <= Len(log')
      BY <1>1
    <2>2. QED
      BY <1>1, <2>1, LogStable
  <1>3. ASSUME NEW s \in Seqs PROVE EventInv(s)'
    <2>1. EventInv(s)
      BY DEF OwnInv
    <2>2. agent[s].pc \in {"emit", "publish"} => Asked(s)
      BY DEF IInv, ThreadInv
    <2>3. agent[s].pc \in {"emit", "publish"} => Own(s, agent[s].event)'
      BY <1>2, <2>1, <2>2 DEF EventInv
    <2>4. agent'[s].ack # 0 => agent'[s].pc = "publish" /\ s < agent'[s].ack
      <3>1. CASE agent'[s].ack = agent[s].ack
        BY <2>1, <3>1 DEF EventInv
      <3>2. CASE agent[s].pc = "publish" /\ agent'[s].ack = Len(log) + 1
        BY <1>1, <1>2, <2>2, <3>2
      <3>3. QED
        BY <3>1, <3>2
    <2>5. QED
      BY <2>1, <2>3, <2>4 DEF EventInv
  <1>4. ControlsInv'
    <2>1. \A i \in 1..Len(controls) : Asked(controls[i][1])
      BY DEF IInv, QueueInv
    <2>2. QED
      BY <1>2, <2>1 DEF OwnInv, ControlsInv
  <1>5. FlightInv'
    <2> SUFFICES ASSUME NEW p \in inflight'
                 PROVE  /\ p.epoch <= epoch' /\ Asked(p.event.ref)' /\ Own(p.event.ref, p.event)'
                        /\ p.epoch = epoch' /\ proc' # "down" => Sender(p)'
      BY DEF FlightInv
    <2>1. /\ p.epoch <= epoch /\ Asked(p.event.ref) /\ Own(p.event.ref, p.event)
          /\ p.epoch = epoch /\ proc # "down" => Sender(p)
      BY DEF OwnInv, FlightInv
    <2>2. p.event.ref \in Seqs /\ Asked(p.event.ref)' /\ Own(p.event.ref, p.event)'
      BY <1>2, <2>1
    <2>3. ASSUME p.epoch = epoch', proc' # "down" PROVE Sender(p)'
      BY <2>1, <2>2, <2>3 DEF Sender
    <2>4. QED
      BY <2>1, <2>2, <2>3
  <1>6. OutputInv'
    <2> SUFFICES ASSUME NEW i \in 1..Len(log'), log'[i] \in Outputs
                 PROVE  /\ Asked(log[i].ref)' /\ log'[i].ref < i
                        /\ Own(log[i].ref, log[i])' \/ Alien(log[i])'
      BY DEF OutputInv
    <2>1. CASE i \in 1..Len(log)
      <3>1. /\ log'[i] = log[i] /\ Asked(log[i].ref) /\ log[i].ref < i
            /\ Own(log[i].ref, log[i]) \/ Alien(log[i])
        BY <1>1, <2>1 DEF OwnInv, OutputInv
      <3>2. QED
        BY <1>2, <3>1 DEF Alien
    <2>2. CASE i = Len(log) + 1
      <3>1. log'[i] = m /\ Asked(m.ref) /\ m.ref < i
        BY <1>1, <1>2, <2>2
      <3>2. QED
        BY <1>2, <2>2, <3>1 DEF Alien
    <2>3. QED
      BY <1>1, <2>1, <2>2
  <1>7. QED
    BY <1>3, <1>4, <1>5, <1>6 DEF OwnInv

\* What another member, or OpenEvent, writes; and what the Workers have sent.
LEMMA EnvironmentCases ==
    ASSUME IInv, Environment
    PROVE  \/ \E m \in Messages :
                 /\ Write(m)
                 /\ m \in Outputs => Asked(m.ref) /\ Alien(m)
           \/ \E p \in inflight : Commit(p)
  <1>1. log \in Seq(Messages) /\ Len(log) \in Nat
    BY LenProperties DEF IInv, TypeOK
  <1>2. ASSUME NEW k \in Keys, NEW kind \in RequestKinds, PublishRequest(k, kind[1], kind[2])
        PROVE  \E m \in Messages : Write(m) /\ m \notin Outputs
    <2>1. kind \in BOOLEAN \X Fits
      BY ConstantsAssumption
    <2>2. Request(k, kind[1], kind[2]) \in Messages /\ Request(k, kind[1], kind[2]) \notin Outputs
      BY <2>1 DEF Request, Messages, Requests, Outputs, Results, Appends, Ends
    <2>3. QED
      BY <1>2, <2>2 DEF PublishRequest
  <1>3. ASSUME NEW k \in Keys, NEW s \in Seqs, PublishCancel(k, s)
        PROVE  \E m \in Messages : Write(m) /\ m \notin Outputs
    <2>1. Cancel(k, s) \in Messages /\ Cancel(k, s).kind = "cancel"
      BY DEF Cancel, Messages, Cancels, Seqs
    <2>2. \A e \in Outputs : e.kind # "cancel"
      BY DEF Outputs, Results, Appends, Ends
    <2>3. QED
      BY <1>3, <2>1, <2>2 DEF PublishCancel
  <1>4. ASSUME NEW n \in Noise, PublishNoise(n)
        PROVE  \E m \in Messages :
                 /\ Write(m)
                 /\ m \in Outputs => Asked(m.ref) /\ Alien(m)
    <2>1. System \in Messages /\ Invalid \in Messages /\ System \notin Outputs /\ Invalid \notin Outputs
      BY DEF Messages, Outputs, Results, Appends, Ends, System, Invalid
    <2>2. ASSUME NEW s \in Seqs, s <= Len(log), IsRequest(log[s])
          PROVE  /\ Asked(s)
                 /\ Foreign(s) \in Messages /\ Foreign(s).ref = s
                 /\ ForeignOutcome(s) \in Messages /\ ForeignOutcome(s).ref = s
      <3>1. s \in 1..Len(log)
        BY <1>1, <2>2 DEF Seqs
      <3>2. log[s] \in Requests /\ s \in Nat
        BY <1>1, <2>2, <3>1, ElementOfSeq, MessageKinds
      <3>3. Foreign(s) \in Messages /\ ForeignOutcome(s) \in Messages
        BY <3>2, OutputTypes DEF Foreign, ForeignOutcome
      <3>4. Foreign(s).ref = s /\ ForeignOutcome(s).ref = s
        BY DEF Foreign, ForeignOutcome, AppendEvent, Result, End
      <3>5. QED
        BY <3>1, <3>2, <3>3, <3>4 DEF Asked
    <2>3. CASE n = "foreign" /\ ~(Write(System) \/ Write(Invalid))
      <3>1. PICK s \in Seqs : /\ s <= Len(log) /\ IsRequest(log[s])
                              /\ Write(Foreign(s)) \/ Write(ForeignOutcome(s))
        BY <1>4, <2>3 DEF PublishNoise
      <3>2. /\ Asked(s)
            /\ Foreign(s) \in Messages /\ Foreign(s).ref = s
            /\ ForeignOutcome(s) \in Messages /\ ForeignOutcome(s).ref = s
        BY <2>2, <3>1
      <3>3. Alien(Foreign(s)) /\ Alien(ForeignOutcome(s))
        BY <1>4, <2>3, <3>2 DEF Alien
      <3>4. QED
        BY <3>1, <3>2, <3>3, Zenon
    <2>4. QED
      BY <1>4, <2>1, <2>3 DEF PublishNoise
  <1>5. QED
    BY <1>2, <1>3, <1>4 DEF Environment

\* A publication of this incarnation is the one its sender waits for.
LEMMA OneWaiting ==
    ASSUME IInv, OwnInv, NEW p \in inflight, Waiting(p)
    PROVE  /\ proc # "down" /\ p.event.ref \in Seqs
           /\ agent[p.event.ref].event = p.event /\ agent[p.event.ref].ack = 0
           /\ \A q \in inflight : q.epoch = epoch /\ q.event.ref = p.event.ref => q = p
  <1>1. p.event.ref \in Seqs /\ proc # "down"
    <2>1. Asked(p.event.ref)
      BY DEF OwnInv, FlightInv
    <2>2. p.event.ref \in Seqs
      <3>1. log[p.event.ref] \in Messages /\ p.event.ref \in 1..Len(log)
        BY <2>1, ElementOfSeq DEF Asked, IInv, TypeOK
      <3>2. QED
        BY <2>1, <3>1, MessageKinds DEF Asked, IInv, RequestsBounded
    <2>3. QED
      BY <2>2 DEF Waiting, IInv, ThreadInv
  <1>2. \A q \in inflight : q.epoch = epoch /\ q.event.ref = p.event.ref
                              => q.event = agent[p.event.ref].event
    BY <1>1 DEF Waiting, OwnInv, FlightInv, Sender
  <1>3. \A q \in inflight : q.epoch = epoch /\ q.event.ref = p.event.ref => q = p
    <2>1. inflight \subseteq Publications /\ p.epoch = epoch
      BY DEF IInv, TypeOK, Waiting
    <2>2. QED
      BY <1>2, <2>1 DEF Publications
  <1>4. QED
    BY <1>1, <1>2, <1>3 DEF Waiting

\* Other members and the server add nothing to what the Workers send.
LEMMA EnvironmentOwn ==
    ASSUME IInv, OwnInv, Environment
    PROVE  OwnInv'
  <1>1. ASSUME NEW m \in Messages, Write(m),
               m \in Outputs => Asked(m.ref) /\ Alien(m)
        PROVE  OwnInv'
    <2>1. /\ log' = Append(log, m)
          /\ UNCHANGED <<inflight, process, controls, agent, invoked>>
      BY <1>1 DEF Write, worker, queues
    <2>2. QED
      BY <1>1, <2>1, GrowthOwn
  <1>2. ASSUME NEW p \in inflight, Commit(p) PROVE OwnInv'
    <2>1. /\ log' = Append(log, p.event) /\ inflight' = inflight \ {p}
          /\ UNCHANGED <<process, controls, invoked>>
          /\ agent' = IF Waiting(p)
                      THEN [agent EXCEPT ![p.event.ref].ack = Len(log) + 1]
                      ELSE agent
      BY <1>2 DEF Commit, queues
    <2>2. p.event \in Messages /\ Asked(p.event.ref) /\ Own(p.event.ref, p.event)
      BY DEF IInv, TypeOK, Publications, Messages, OwnInv, FlightInv
    <2>3. agent \in [Seqs -> Agents]
      BY DEF IInv, TypeOK
    <2>4. CASE ~Waiting(p)
      <3>1. agent' = agent
        BY <2>1, <2>4
      <3>2. QED
        BY <2>1, <2>2, <3>1, GrowthOwn
    <2>5. CASE Waiting(p)
      <3>1. /\ p.event.ref \in Seqs /\ agent[p.event.ref].pc = "publish"
            /\ \A q \in inflight : q.epoch = epoch /\ q.event.ref = p.event.ref => q = p
        BY <2>5, OneWaiting DEF Waiting
      <3>2. \A s \in Seqs : /\ agent'[s].pc = agent[s].pc /\ agent'[s].role = agent[s].role
                            /\ agent'[s].event = agent[s].event
                            /\ agent'[s].writer = agent[s].writer
                            /\ \/ agent'[s].ack = agent[s].ack
                               \/ agent[s].pc = "publish" /\ agent'[s].ack = Len(log) + 1
        BY <2>1, <2>3, <2>5, <3>1 DEF Agents
      <3>3. \A q \in inflight' : q.epoch = epoch => agent'[q.event.ref].ack = agent[q.event.ref].ack
        <4>1. ASSUME NEW q \in inflight', q.epoch = epoch PROVE agent'[q.event.ref] = agent[q.event.ref]
          <5>1. q \in inflight /\ q # p
            BY <2>1, <4>1
          <5>2. q.event.ref # p.event.ref
            BY <3>1, <4>1, <5>1
          <5>3. QED
            BY <2>1, <2>3, <2>5, <5>2
        <4>2. QED
          BY <4>1
      <3>4. QED
        BY <2>1, <2>2, <3>2, <3>3, GrowthOwn
    <2>6. QED
      BY <2>4, <2>5
  <1>3. QED
    BY <1>1, <1>2, EnvironmentCases

\* A request that is asked is one of Seqs.
LEMMA AskedSeqs ==
    ASSUME IInv, NEW s, Asked(s)
    PROVE  s \in Seqs
  <1>1. log[s] \in Messages /\ s \in 1..Len(log)
    BY ElementOfSeq DEF Asked, IInv, TypeOK
  <1>2. QED
    BY <1>1, MessageKinds DEF Asked, IInv, RequestsBounded

\* A thread that sends nothing leaves the publications to their senders.
LEMMA ThreadFlight ==
    ASSUME IInv, FlightInv, NEW s \in Seqs,
           log' = log, inflight' = inflight, epoch' = epoch, proc' = proc, stopped => stopped',
           \A t \in Seqs \ {s} : agent'[t] = agent[t],
           agent[s].pc = "publish" /\ agent[s].ack = 0
              => stopped' /\ agent'[s].pc \in {"finally", "idle"},
           stopped /\ agent[s].pc \in {"finally", "idle"} => agent'[s].pc \in {"finally", "idle"}
    PROVE  FlightInv'
  <1>1. ASSUME NEW p \in inflight, Sender(p) PROVE Sender(p)'
    <2>1. p.event.ref \in Seqs
      BY AskedSeqs DEF FlightInv
    <2>2. CASE p.event.ref = s
      BY <1>1, <2>2 DEF Sender
    <2>3. CASE p.event.ref # s
      BY <1>1, <2>1, <2>3 DEF Sender
    <2>4. QED
      BY <2>2, <2>3
  <1>2. QED
    BY <1>1, FlightKeeps

\* A thread in its last block, or none, has no event and waits for nothing.
LEMMA LastOwn ==
    ASSUME NEW s \in Seqs, agent'[s] = Last(agent[s]) \/ agent'[s] = Idle
    PROVE  EventInv(s)' /\ agent'[s].pc \in {"finally", "idle"}
  <1>1. agent'[s].pc \in {"finally", "idle"} /\ agent'[s].ack = 0 /\ agent'[s].writer = 0
    <2>1. CASE agent'[s] = Last(agent[s])
      <3>1. /\ Last(agent[s]).pc = "finally" /\ Last(agent[s]).ack = 0
            /\ Last(agent[s]).writer = 0
        BY DEF Last, Idle
      <3>2. QED
        BY <2>1, <3>1
    <2>2. CASE agent'[s] = Idle
      BY <2>2 DEF Idle
    <2>3. QED
      BY <2>1, <2>2
  <1>2. QED
    BY <1>1 DEF EventInv, Early

\* The steps of a Provider task before its first result publish nothing.
LEMMA CallOwn ==
    ASSUME IInv, OwnInv, NEW s \in Seqs,
           TaskBegin(s) \/ TaskInstall(s) \/ TaskStart(s) \/ ProviderCancelled(s)
    PROVE  EventInv(s)' /\ FlightInv'
  <1>1. /\ agent \in [Seqs -> Agents] /\ agent[s] \in Agents /\ invoked \in [Seqs -> Nat]
        /\ EventInv(s) /\ FlightInv
    BY DEF IInv, TypeOK, OwnInv
  <1>2. /\ agent[s].role = "provider" /\ agent[s].pc \in {"begin", "install", "start", "iterate"}
        /\ log' = log /\ inflight' = inflight /\ epoch' = epoch /\ proc' = proc /\ stopped' = stopped
        /\ \A t \in Seqs \ {s} : agent'[t] = agent[t]
    BY <1>1 DEF TaskBegin, TaskInstall, TaskStart, ProviderCancelled, At, server, process, Goto, Finish
  <1>3. FlightInv'
    BY <1>1, <1>2, ThreadFlight
  <1>4. CASE Finish(s)
    <2>1. agent'[s] = Last(agent[s])
      BY <1>1, <1>4 DEF Finish
    <2>2. QED
      BY <1>3, <2>1, LastOwn
  <1>5. ASSUME NEW pc \in Labels, Goto(s, pc)
        PROVE  /\ agent'[s].pc = pc /\ agent'[s].role = agent[s].role
               /\ agent'[s].ack = agent[s].ack /\ agent'[s].writer = agent[s].writer
    BY <1>1, <1>5 DEF Goto, Agents
  <1>6. CASE (TaskBegin(s) /\ Goto(s, "install")) \/ (TaskInstall(s) /\ Goto(s, "start"))
    <2>1. agent'[s].pc \in {"install", "start"} /\ agent[s].pc \in {"begin", "install"}
      BY <1>5, <1>6 DEF Labels, TaskBegin, TaskInstall, At
    <2>2. agent'[s].role = agent[s].role /\ agent'[s].ack = agent[s].ack /\ agent'[s].writer = agent[s].writer
      BY <1>5, <1>6 DEF Labels
    <2>3. QED
      BY <1>1, <1>2, <1>3, <2>1, <2>2 DEF EventInv, Early
  <1>7. CASE TaskStart(s) /\ Goto(s, "iterate") /\ invoked' = [invoked EXCEPT ![s] = @ + 1]
    <2>1. agent'[s].pc = "iterate" /\ agent[s].pc = "start"
      BY <1>5, <1>7 DEF Labels, TaskStart, At
    <2>2. agent'[s].role = agent[s].role /\ agent'[s].ack = agent[s].ack /\ agent'[s].writer = agent[s].writer
      BY <1>5, <1>7 DEF Labels
    <2>3. invoked'[s] # 0
      BY <1>1, <1>7
    <2>4. QED
      BY <1>1, <1>2, <1>3, <2>1, <2>2, <2>3 DEF EventInv, Early
  <1>8. QED
    BY <1>4, <1>6, <1>7 DEF TaskBegin, TaskInstall, TaskStart, ProviderCancelled

\* What the Provider yields or fails with becomes an output that a Worker may send.
LEMMA ProviderOwn ==
    ASSUME IInv, OwnInv, NEW s \in Seqs, ProviderStep(s) \/ Oversize(s)
    PROVE  EventInv(s)' /\ FlightInv'
  <1>1. /\ agent \in [Seqs -> Agents] /\ agent[s] \in Agents
        /\ EventInv(s) /\ FlightInv
    BY DEF IInv, TypeOK, OwnInv
  <1>2. /\ agent[s].role = "provider" /\ agent[s].pc \in {"iterate", "emit"} /\ First(s)
    <2>1. agent[s].role = "provider" /\ agent[s].pc \in {"iterate", "emit"}
      BY DEF ProviderStep, Yield, ProviderFail, Oversize, At
    <2>2. QED
      BY <2>1 DEF IInv, ThreadInv
  <1>3. PICK e : EmitOrEnd(s, e) /\ Own(s, e)
    <2>1. CASE Yield(s)
      BY <1>1, <2>1, NextOwn DEF Yield, EventInv
    <2>2. ASSUME NEW code \in Failures PROVE Own(s, ErrorEvent(s, code, FALSE, FALSE))
      <3>1. code \in InterruptedCodes /\ Asked(s)
        BY <1>2, ConstantsAssumption DEF ProviderCodes, InterruptedCodes, Interrupted, TooLarge, First
      <3>2. QED
        BY <1>2, <3>1, ErrorOwn
    <2>3. QED
      BY <2>1, <2>2 DEF ProviderStep, ProviderFail, Oversize
  <1>4. /\ UNCHANGED <<log, inflight, epoch, proc, stopped, invoked>>
        /\ \A t \in Seqs \ {s} : agent'[t] = agent[t]
    BY <1>1, <1>3 DEF EmitOrEnd, server, process
  <1>5. FlightInv'
    BY <1>1, <1>2, <1>4, ThreadFlight
  <1>6. CASE CanOutput(s)
    <2>1. agent'[s] = [agent[s] EXCEPT !.pc = "emit", !.event = e]
      BY <1>1, <1>3, <1>6 DEF EmitOrEnd
    <2>2. /\ agent'[s].pc = "emit" /\ agent'[s].role = "provider" /\ agent'[s].event = e
          /\ agent'[s].ack = agent[s].ack /\ agent'[s].writer = agent[s].writer
      BY <1>1, <1>2, <2>1 DEF Agents
    <2>3. Own(s, agent[s].event)'
      BY <1>3, <1>4, <2>2, LogFixed
    <2>4. agent[s].ack = 0 /\ invoked'[s] # 0
      BY <1>1, <1>2, <1>4 DEF EventInv
    <2>5. EventInv(s)'
      BY <1>1, <2>2, <2>3, <2>4 DEF EventInv, Early
    <2>6. QED
      BY <1>5, <2>5
  <1>7. CASE ~CanOutput(s)
    <2>1. agent'[s] = Last(agent[s])
      BY <1>1, <1>3, <1>7 DEF EmitOrEnd
    <2>2. QED
      BY <1>5, <2>1, LastOwn
  <1>8. QED
    BY <1>6, <1>7

\* The event is sent: its sender is the thread, and no other publication of this
\* incarnation is for the request.
LEMMA SentOwn ==
    ASSUME IInv, OwnInv, NEW s \in Seqs, agent[s].pc = "emit",
           inflight' = inflight \cup {[epoch |-> epoch, event |-> agent[s].event]},
           Goto(s, "publish"), UNCHANGED <<log, process, invoked>>
    PROVE  EventInv(s)' /\ FlightInv'
  <1> USE DEF process
  <1>1. /\ agent \in [Seqs -> Agents] /\ agent[s] \in Agents /\ EventInv(s) /\ FlightInv
        /\ epoch \in Nat
    BY DEF IInv, TypeOK, OwnInv
  <1>2. /\ agent'[s].pc = "publish" /\ agent'[s].role = agent[s].role
        /\ agent'[s].event = agent[s].event /\ agent'[s].ack = agent[s].ack
        /\ agent'[s].writer = agent[s].writer
        /\ \A t \in Seqs \ {s} : agent'[t] = agent[t]
    BY <1>1 DEF Goto, Agents
  <1>3. agent[s].ack = 0 /\ Own(s, agent[s].event) /\ Asked(s) /\ proc # "down"
    BY <1>1 DEF EventInv, IInv, ThreadInv
  <1>4. \A t, m : (Asked(t)' <=> Asked(t)) /\ (Own(t, m)' <=> Own(t, m))
    BY LogFixed
  <1>5. EventInv(s)'
    <2>1. Own(s, agent[s].event)'
      BY <1>2, <1>3, <1>4
    <2>2. QED
      BY <1>1, <1>2, <1>3, <2>1 DEF EventInv, Early
  <1>6. ASSUME NEW p \in inflight
        PROVE  /\ p.epoch <= epoch /\ Asked(p.event.ref)' /\ Own(p.event.ref, p.event)'
               /\ p.epoch = epoch /\ proc # "down" => Sender(p)'
    <2>1. /\ p.epoch <= epoch /\ Asked(p.event.ref) /\ Own(p.event.ref, p.event)
          /\ p.epoch = epoch /\ proc # "down" => Sender(p)
      BY <1>1 DEF FlightInv
    <2>2. ASSUME Sender(p) PROVE Sender(p)'
      <3>1. p.event.ref # s /\ p.event.ref \in Seqs
        BY <2>1, <2>2, AskedSeqs DEF Sender
      <3>2. QED
        BY <1>2, <2>2, <3>1 DEF Sender
    <2>3. QED
      BY <1>4, <2>1, <2>2
  <1>7. ASSUME NEW p, p = [epoch |-> epoch, event |-> agent[s].event]
        PROVE  /\ p.epoch <= epoch /\ Asked(p.event.ref)' /\ Own(p.event.ref, p.event)'
               /\ Sender(p)'
    <2>1. p.epoch = epoch /\ p.event = agent[s].event /\ p.event.ref = s
      BY <1>3, <1>7 DEF Own
    <2>2. Sender(p)'
      BY <1>2, <1>3, <2>1 DEF Sender
    <2>3. QED
      BY <1>1, <1>3, <1>4, <2>1, <2>2
  <1>8. FlightInv'
    BY <1>6, <1>7 DEF FlightInv
  <1>9. QED
    BY <1>5, <1>8

\* A publication sends the event of its thread, once, and ends with a reply or failure.
LEMMA PublishOwn ==
    ASSUME IInv, OwnInv, NEW s \in Seqs, PublishStart(s) \/ PublishReturn(s) \/ PublishFail(s)
    PROVE  EventInv(s)' /\ FlightInv'
  <1>1. /\ agent \in [Seqs -> Agents] /\ agent[s] \in Agents /\ EventInv(s) /\ FlightInv
    BY DEF IInv, TypeOK, OwnInv
  <1>2. agent[s].pc \in {"emit", "publish"} /\ log' = log /\ epoch' = epoch /\ proc' = proc
    BY DEF PublishStart, PublishReturn, PublishFail, server, process, Fail
  <1>3. ASSUME Finish(s), inflight' = inflight, stopped => stopped',
               agent[s].pc = "publish" /\ agent[s].ack = 0 => stopped'
        PROVE  EventInv(s)' /\ FlightInv'
    <2>1. agent'[s] = Last(agent[s]) /\ \A t \in Seqs \ {s} : agent'[t] = agent[t]
      BY <1>1, <1>3 DEF Finish
    <2>2. EventInv(s)' /\ agent'[s].pc \in {"finally", "idle"}
      BY <2>1, LastOwn
    <2>3. QED
      BY <1>1, <1>2, <1>3, <2>1, <2>2, ThreadFlight
  <1>4. CASE PublishStart(s)
    <2>1. CASE /\ CanOutput(s)
               /\ inflight' = inflight \cup {[epoch |-> epoch, event |-> agent[s].event]}
               /\ Goto(s, "publish")
      <3>1. agent[s].pc = "emit" /\ UNCHANGED <<log, process, invoked>>
        BY <1>4 DEF PublishStart
      <3>2. QED
        BY <2>1, <3>1, SentOwn
    <2>2. CASE Finish(s) /\ UNCHANGED inflight
      <3>1. stopped' = stopped /\ agent[s].pc = "emit"
        BY <1>4 DEF PublishStart, process
      <3>2. QED
        BY <1>3, <2>2, <3>1
    <2>3. QED
      BY <1>4, <2>1, <2>2 DEF PublishStart
  <1>5. CASE PublishFail(s)
    <2>1. Finish(s) /\ inflight' = inflight /\ stopped'
      BY <1>5 DEF PublishFail, Fail, server, process
    <2>2. QED
      BY <1>3, <2>1
  <1>6. CASE PublishReturn(s)
    <2>1. /\ agent[s].pc = "publish" /\ agent[s].ack # 0 /\ inflight' = inflight
          /\ stopped' = stopped /\ invoked' = invoked
          /\ \A t \in Seqs \ {s} : agent'[t] = agent[t]
      BY <1>1, <1>6 DEF PublishReturn, server, process
    <2>2. FlightInv'
      BY <1>1, <1>2, <2>1, ThreadFlight
    <2>3. \/ agent'[s] = Idle
          \/ agent'[s] = Acked(agent[s]) /\ agent[s].role = "provider"
          \/ agent'[s] = Last(agent[s])
      BY <1>1, <1>6 DEF PublishReturn
    <2>4. CASE agent'[s] = Acked(agent[s]) /\ agent[s].role = "provider"
      <3>1. /\ agent'[s].pc = "iterate" /\ agent'[s].ack = 0
            /\ agent'[s].writer = agent[s].ack
        BY <2>4 DEF Acked, Task, Idle
      <3>2. s < agent[s].ack /\ invoked[s] # 0
        BY <1>1, <2>1, <2>4 DEF EventInv
      <3>3. EventInv(s)'
        BY <2>1, <3>1, <3>2 DEF EventInv, Early
      <3>4. QED
        BY <2>2, <3>3
    <2>5. QED
      BY <2>2, <2>3, <2>4, LastOwn
  <1>7. QED
    BY <1>4, <1>5, <1>6

\* Every step of a thread keeps the outputs what they are.
LEMMA ThreadOwn ==
    ASSUME IInv, OwnInv, NEW s \in Seqs, Thread(s)
    PROVE  OwnInv'
  <1>1. /\ log' = log /\ controls' = controls
        /\ \A t \in Seqs \ {s} : agent'[t] = agent[t] /\ invoked'[t] = invoked[t]
    <2>1. log' = log /\ controls' = controls
      BY DEF Thread, ThreadStep, ProviderStep, TaskBegin, TaskInstall, TaskStart, Yield, ProviderFail,
             ProviderCancelled, Oversize, EmitOrEnd, TaskFinally, ControlFinally, PublishStart,
             PublishReturn, PublishFail, ControlFail, server, queues
    <2>2. \A t \in Seqs \ {s} : agent'[t] = agent[t]
      BY ThreadFrame
    <2>3. \A t \in Seqs \ {s} : invoked'[t] = invoked[t]
      BY DEF Thread, ThreadStep, ProviderStep, TaskBegin, TaskInstall, TaskStart, Yield, ProviderFail,
             ProviderCancelled, Oversize, EmitOrEnd, TaskFinally, ControlFinally, PublishStart,
             PublishReturn, PublishFail, ControlFail, IInv, TypeOK
    <2>4. QED
      BY <2>1, <2>2, <2>3
  <1>2. ControlsInv'
    BY <1>1, LogFixed DEF OwnInv, ControlsInv
  <1>3. EventInv(s)' /\ FlightInv'
    <2>1. CASE TaskFinally(s) \/ ControlFinally(s)
      <3>1. /\ agent \in [Seqs -> Agents] /\ agent[s].pc = "finally"
            /\ agent' = [agent EXCEPT ![s] = Idle]
            /\ UNCHANGED <<log, inflight, process>>
        BY <2>1 DEF TaskFinally, ControlFinally, At, server, IInv, TypeOK
      <3>2. agent'[s] = Idle
        BY <3>1
      <3>3. EventInv(s)' /\ agent'[s].pc \in {"finally", "idle"}
        BY <3>2, LastOwn
      <3>4. FlightInv'
        BY <1>1, <3>1, <3>3, ThreadFlight DEF OwnInv, process
      <3>5. QED
        BY <3>3, <3>4
    <2>2. CASE ControlFail(s)
      <3>1. /\ agent \in [Seqs -> Agents] /\ agent' = [agent EXCEPT ![s] = Idle]
            /\ UNCHANGED <<log, inflight, proc, epoch>> /\ stopped'
        BY <2>2 DEF ControlFail, server, IInv, TypeOK
      <3>2. agent'[s] = Idle
        BY <3>1
      <3>3. EventInv(s)' /\ agent'[s].pc \in {"finally", "idle"}
        BY <3>2, LastOwn
      <3>4. FlightInv'
        BY <1>1, <3>1, <3>3, ThreadFlight DEF OwnInv
      <3>5. QED
        BY <3>3, <3>4
    <2>3. QED
      BY <2>1, <2>2, CallOwn, ProviderOwn, PublishOwn DEF Thread, ThreadStep
  <1>4. QED
    BY <1>1, <1>2, <1>3, AgentOwn

\* A thread starts where none is at work: nothing is under way for its request.
LEMMA StartOwn ==
    ASSUME IInv, OwnInv, NEW s \in Seqs, agent[s].pc = "idle", ~stopped, ControlsInv',
           UNCHANGED <<server, process, invoked>>, NEW a, agent' = [agent EXCEPT ![s] = a],
           \/ a = Task
           \/ /\ a.pc = "emit" /\ a.role # "provider" /\ a.ack = 0 /\ a.writer = 0
              /\ Own(s, a.event) /\ ~Linking(a.event)
    PROVE  OwnInv'
  <1> USE DEF server, process
  <1>1. /\ agent \in [Seqs -> Agents] /\ FlightInv /\ agent'[s] = a
        /\ \A t \in Seqs \ {s} : agent'[t] = agent[t]
    BY DEF IInv, TypeOK, OwnInv
  <1>2. EventInv(s)'
    <2>1. CASE a = Task
      <3>1. /\ agent'[s].pc = "begin" /\ agent'[s].role = "provider" /\ agent'[s].ack = 0
            /\ agent'[s].writer = 0
        BY <1>1, <2>1 DEF Task, Idle
      <3>2. QED
        BY <3>1 DEF EventInv
    <2>2. CASE /\ a.pc = "emit" /\ a.role # "provider" /\ a.ack = 0 /\ a.writer = 0
               /\ Own(s, a.event) /\ ~Linking(a.event)
      <3>1. Own(s, a.event) <=> Own(s, agent[s].event)'
        BY <1>1, LogFixed
      <3>2. QED
        BY <1>1, <2>2, <3>1 DEF EventInv
    <2>3. QED
      BY <2>1, <2>2
  <1>3. FlightInv'
    BY <1>1, ThreadFlight
  <1>4. QED
    BY <1>1, <1>2, <1>3, AgentOwn

\* The scheduler hands queued requests to tasks, which have published nothing.
LEMMA ScheduleOwn ==
    ASSUME IInv, OwnInv, Schedule
    PROVE  OwnInv'
  <1>1. /\ pending \in Seq(Seqs) /\ pending # <<>> /\ ~stopped
        /\ UNCHANGED <<server, process, controls, invoked>>
    BY DEF Schedule, IInv, TypeOK
  <1>2. ControlsInv'
    BY <1>1, LogFixed DEF OwnInv, ControlsInv, server
  <1>3. CASE agent' = agent
    <2>1. FlightInv'
      BY <1>1, <1>3, FlightKeeps DEF OwnInv, Sender, server, process
    <2>2. QED
      BY <1>1, <1>2, <1>3, <2>1, QuietOwn DEF server
  <1>4. ASSUME NEW s, s = Head(pending), agent' = [agent EXCEPT ![s] = Task] PROVE OwnInv'
    <2>1. s \in Seqs /\ s = pending[1] /\ 1 \in 1..Len(pending)
      BY <1>1, <1>4, TakeHead
    <2>2. agent[s].pc = "idle"
      BY <2>1 DEF IInv, QueueInv
    <2>3. QED
      BY <1>1, <1>2, <1>4, <2>1, <2>2, StartOwn
  <1>5. QED
    BY <1>3, <1>4 DEF Schedule

\* A queued rejection becomes a terminal output for a request that no task works for.
LEMMA ControlOwn ==
    ASSUME IInv, OwnInv, ControlBegin
    PROVE  OwnInv'
  <1>1. /\ controls \in Seq(Seqs \X Codes) /\ controls # <<>> /\ ~stopped
        /\ controls' = Tail(controls) /\ UNCHANGED <<server, process, invoked>>
    BY DEF ControlBegin, IInv, TypeOK
  <1>2. /\ Head(controls) = controls[1] /\ 1 \in 1..Len(controls)
        /\ Head(controls) \in Seqs \X Codes
        /\ \A i \in 1..Len(controls') : i + 1 \in 1..Len(controls) /\ controls'[i] = controls[i + 1]
    BY <1>1, TakeHead
  <1>3. PICK s \in Seqs, code \in Codes : controls[1] = <<s, code>>
    BY <1>2
  <1>4. ControlsInv'
    <2>1. ASSUME NEW i \in 1..Len(controls')
          PROVE  /\ ~First(controls[i][1])'
                 /\ Earlier(controls[i][1])' => controls'[i][2] = Duplicate
      <3>1. controls'[i] = controls[i + 1] /\ i + 1 \in 1..Len(controls)
        BY <1>2
      <3>2. /\ ~First(controls[i + 1][1])
            /\ Earlier(controls[i + 1][1]) => controls[i + 1][2] = Duplicate
        BY <3>1 DEF OwnInv, ControlsInv
      <3>3. log' = log
        BY <1>1 DEF server
      <3>4. QED
        BY <3>1, <3>2, <3>3, LogFixed
    <2>2. QED
      BY <2>1 DEF ControlsInv
  <1>5. /\ agent[s].pc = "idle" /\ Asked(s) /\ ~First(s) /\ (Earlier(s) => code = Duplicate)
    <2>1. controls[1][1] = s /\ controls[1][2] = code
      BY <1>3
    <2>2. QED
      BY <1>2, <2>1 DEF IInv, QueueInv, OwnInv, ControlsInv
  <1>6. CASE agent' = agent
    <2>1. FlightInv'
      BY <1>1, <1>6, FlightKeeps DEF OwnInv, Sender, server, process
    <2>2. QED
      BY <1>1, <1>4, <1>6, <2>1, QuietOwn DEF server
  <1>7. ASSUME NEW e, e = ErrorEvent(s, code, FALSE, TRUE),
               agent' = [agent EXCEPT ![s] = Emitting("control", e)]
        PROVE  OwnInv'
    <2>1. Own(s, e) /\ ~Linking(e)
      BY <1>5, <1>7, ErrorOwn
    <2>2. LET a == Emitting("control", e)
          IN  /\ a.pc = "emit" /\ a.role # "provider" /\ a.ack = 0 /\ a.writer = 0
              /\ a.event = e
      BY DEF Emitting, Idle
    <2>3. QED
      BY <1>1, <1>4, <1>5, <1>7, <2>1, <2>2, StartOwn
  <1>8. QED
    <2>1. Head(controls)[1] = s /\ Head(controls)[2] = code
      BY <1>2, <1>3
    <2>2. \/ agent' = agent
          \/ agent' = [agent EXCEPT ![s] = Emitting("control", ErrorEvent(s, code, FALSE, TRUE))]
      BY <2>1 DEF ControlBegin
    <2>3. QED
      BY <1>6, <1>7, <2>2

\* What recovery publishes is terminal and fits the request.
LEMMA RecoverOwn ==
    ASSUME IInv, OwnInv, ViewInv, NEW s \in Seqs, RecoverRequest(s)
    PROVE  OwnInv'
  <1>1. /\ proc = "scan" /\ ~stopped /\ cursor > target /\ s \in Unresolved /\ agent[s] = Idle
        /\ UNCHANGED <<server, process, controls, invoked>>
    BY DEF RecoverRequest, queues
  <1>2. agent[s].pc = "idle" /\ Tracked(s) /\ Asked(s) /\ s <= Seen
    BY <1>1, NewAgentTypes DEF Unresolved, Tracked, IInv, ThreadInv
  <1>3. requests[s].duplicate <=> Earlier(s)
    <2>1. log[s] \in Messages
      BY <1>2, ElementOfSeq DEF IInv, TypeOK, Asked
    <2>2. s \in RequestSeqs(Seen)
      BY <1>2, <2>1, MessageKinds DEF Asked, RequestSeqs
    <2>3. QED
      BY <1>2, <2>2 DEF ViewInv, View
  <1>4. ControlsInv'
    BY <1>1, LogFixed DEF OwnInv, ControlsInv, server
  <1>5. ASSUME NEW e, e = ErrorEvent(s, Interrupted, TRUE, FALSE),
               agent' = [agent EXCEPT ![s] = Emitting("recovery", e)]
        PROVE  OwnInv'
    <2>1. Own(s, e) /\ ~Linking(e)
      <3>1. Interrupted \in InterruptedCodes
        BY DEF InterruptedCodes
      <3>2. QED
        BY <1>2, <1>3, <1>5, <3>1, ErrorOwn
    <2>2. LET a == Emitting("recovery", e)
          IN  /\ a.pc = "emit" /\ a.role # "provider" /\ a.ack = 0 /\ a.writer = 0
              /\ a.event = e
      BY DEF Emitting, Idle
    <2>3. QED
      BY <1>1, <1>2, <1>4, <1>5, <2>1, <2>2, StartOwn
  <1>6. QED
    BY <1>5 DEF RecoverRequest

\* The reader queues for rejection only what no task will work for.
LEMMA AcceptOwn ==
    ASSUME IInv, OwnInv, NEW h \in BOOLEAN, NEW i \in 1..Len(log), i = Seen + 1, proc # "down",
           Accept(i, h), UNCHANGED <<server, process, agent, invoked>>
    PROVE  OwnInv'
  <1> USE DEF server, process, queues
  <1>1. FlightInv'
    BY FlightKeeps DEF OwnInv, Sender
  <1>2. ControlsInv'
    <2>1. CASE controls' = controls
      BY <2>1, LogFixed DEF OwnInv, ControlsInv
    <2>2. ASSUME NEW code \in Codes, controls' = Append(controls, <<i, code>>), Asked(i), i \in Seqs,
                 log[i].key \in originals => code = Duplicate,
                 log[i].key \notin originals => log[i].fit # "ok"
          PROVE  ControlsInv'
      <3>1. log[i].key \in originals <=> Earlier(i)
        <4>1. i - 1 = Seen
          BY SeenKnown
        <4>2. originals = {log[q].key : q \in RequestSeqs(i - 1)}
          BY <4>1 DEF IInv, OriginalsInv
        <4>3. QED
          BY <4>2 DEF Earlier
      <3>2. First(i) => ~Earlier(i) /\ log[i].fit = "ok"
        BY DEF First, Earlier, RequestSeqs
      <3>3. ~First(i) /\ (Earlier(i) => code = Duplicate)
        BY <2>2, <3>1, <3>2
      <3>4. controls \in Seq(Seqs \X Codes) /\ <<i, code>> \in Seqs \X Codes
        BY <2>2 DEF IInv, TypeOK
      <3>5. /\ Len(controls) \in Nat /\ Len(controls') = Len(controls) + 1
            /\ \A j \in 1..Len(controls) : controls'[j] = controls[j]
            /\ controls'[Len(controls) + 1] = <<i, code>>
        BY <2>2, <3>4, AppendProperties, LenProperties
      <3>6. ASSUME NEW j \in 1..Len(controls')
            PROVE  /\ ~First(controls[j][1])'
                   /\ Earlier(controls[j][1])' => controls'[j][2] = Duplicate
        <4>1. CASE j \in 1..Len(controls)
          <5>1. /\ ~First(controls[j][1])
                /\ Earlier(controls[j][1]) => controls[j][2] = Duplicate
            BY <4>1 DEF OwnInv, ControlsInv
          <5>2. QED
            BY <3>5, <4>1, <5>1, LogFixed
        <4>2. CASE j = Len(controls) + 1
          <5>1. controls'[j][1] = i /\ controls'[j][2] = code
            BY <3>5, <4>2
          <5>2. QED
            BY <3>3, <5>1, LogFixed
        <4>3. QED
          BY <3>5, <4>1, <4>2
      <3>7. QED
        BY <3>6 DEF ControlsInv
    <2>3. QED
      BY <2>1, <2>2, AcceptCases
  <1>3. QED
    BY <1>1, <1>2, QuietOwn

\* The process starts, with nothing left of the incarnation before.
LEMMA LifeOwn ==
    ASSUME IInv, OwnInv, Crash \/ Exit \/ Restart
    PROVE  OwnInv'
  <1> USE DEF server, process
  <1>1. log' = log /\ inflight' = inflight /\ invoked' = invoked /\ epoch \in Nat
    BY DEF Crash, Exit, Restart, IInv, TypeOK
  <1>2. OutputInv' /\ \A s, m : (Asked(s)' <=> Asked(s)) /\ (Own(s, m)' <=> Own(s, m))
    BY <1>1, LogFixed DEF OwnInv
  <1>3. ControlsInv'
    <2>1. controls' = <<>>
      BY DEF Crash, Exit, Reset, Restart, worker, queues, IInv, ReaderInv
    <2>2. QED
      BY <2>1, EmptySeq DEF ControlsInv
  <1>4. ASSUME NEW s \in Seqs PROVE EventInv(s)'
    <2>1. CASE Crash \/ Exit
      <3>1. agent'[s] = Idle
        BY <2>1 DEF Crash, Exit, Reset
      <3>2. QED
        BY <3>1, LastOwn
    <2>2. CASE Restart
      <3>1. agent'[s] = agent[s] /\ agent[s].pc = "idle" /\ EventInv(s)
        BY <2>2 DEF Restart, worker, IInv, ThreadInv, OwnInv
      <3>2. QED
        BY <3>1 DEF EventInv, Early
    <2>3. QED
      BY <2>1, <2>2
  <1>5. FlightInv'
    <2>1. (Restart /\ epoch' = epoch + 1) \/ (proc' = "down" /\ epoch' = epoch)
      BY DEF Crash, Exit, Restart
    <2>2. ASSUME NEW p \in inflight
          PROVE  /\ p.epoch <= epoch' /\ Asked(p.event.ref)' /\ Own(p.event.ref, p.event)'
                 /\ ~(p.epoch = epoch' /\ proc' # "down")
      <3>1. p.epoch \in Nat /\ p.epoch <= epoch /\ Asked(p.event.ref) /\ Own(p.event.ref, p.event)
        BY DEF OwnInv, FlightInv, IInv, TypeOK, Publications
      <3>2. QED
        BY <1>1, <1>2, <2>1, <3>1
    <2>3. QED
      BY <1>1, <2>2 DEF FlightInv
  <1>6. QED
    BY <1>2, <1>3, <1>4, <1>5 DEF OwnInv

\* Every step keeps what is known of the outputs.
LEMMA OwnStep ==
    ASSUME IInv, ViewInv, OwnInv, [Next]_vars
    PROVE  OwnInv'
  <1> USE DEF process, reader, queues, worker, server
  <1>1. ASSUME UNCHANGED <<log, inflight, epoch, controls, agent, invoked>>,
               stopped => stopped', proc' # "down" => proc # "down"
        PROVE  OwnInv'
    <2>1. ControlsInv'
      BY <1>1, LogFixed DEF OwnInv, ControlsInv
    <2>2. FlightInv'
      BY <1>1, FlightKeeps DEF OwnInv, Sender
    <2>3. QED
      BY <1>1, <2>1, <2>2, QuietOwn
  <1>2. CASE Connect \/ Disconnect \/ DeliverAgain \/ DeliverFault \/ GoLive \/ Stop \/ UNCHANGED vars
    BY <1>1, <1>2 DEF Connect, Disconnect, DeliverAgain, DeliverFault, Receiving, GoLive, Stop, Fail, vars
  <1>3. CASE Scan
    <2>1. /\ proc = "scan" /\ cursor <= target
          /\ UNCHANGED <<log, inflight, target, lastSeen, running, agent, invoked, faults>>
      BY <1>3 DEF Scan
    <2>2. cursor \in 1..Len(log) /\ cursor = Seen + 1 /\ cursor \in Nat
      BY <2>1, LenProperties DEF IInv, TypeOK, ReaderInv, Seen
    <2>3. CASE Accept(cursor, TRUE) /\ UNCHANGED process
      BY <2>1, <2>2, <2>3, AcceptOwn
    <2>4. CASE Fail /\ UNCHANGED <<cursor, queues>>
      BY <1>1, <2>1, <2>4 DEF Fail
    <2>5. QED
      BY <1>3, <2>3, <2>4 DEF Scan
  <1>4. CASE Deliver
    <2>1. /\ proc = "live" /\ cursor \in 1..Len(log) /\ cursor > lastSeen
          /\ Accept(cursor, FALSE) /\ UNCHANGED <<log, inflight, process, agent, invoked>>
      BY <1>4 DEF Deliver, Receiving
    <2>2. cursor = Seen + 1
      BY <2>1 DEF IInv, TypeOK, ReaderInv, Seen
    <2>3. QED
      BY <2>1, <2>2, AcceptOwn
  <1>5. QED
    BY <1>2, <1>3, <1>4, EnvironmentOwn, LifeOwn, RecoverOwn, ScheduleOwn, ControlOwn, ThreadOwn
       DEF Next, Life, Subscription

\* What is known of the outputs holds in every behaviour.
LEMMA OwnInvariance == Spec => []OwnInv
  <1>1. Init => OwnInv
    <2> SUFFICES ASSUME Init PROVE OwnInv
      OBVIOUS
    <2>1. \A s \in Seqs : agent[s].pc = "idle" /\ agent[s].ack = 0 /\ agent[s].writer = 0
      BY DEF Init, Idle
    <2>2. \A s \in Seqs : EventInv(s)
      BY <2>1 DEF EventInv, Early
    <2>3. ControlsInv /\ FlightInv /\ OutputInv
      BY EmptySeq DEF Init, ControlsInv, FlightInv, OutputInv
    <2>4. QED
      BY <2>2, <2>3 DEF OwnInv
  <1>2. IInv /\ ViewInv /\ OwnInv /\ [Next]_vars => OwnInv'
    BY OwnStep
  <1>3. QED
    BY <1>1, <1>2, Invariance, ViewInvariance, PTL DEF Spec

\* Unless other members write outputs, a duplicate request is answered by nothing
\* but terminal results: its rejection, or the interruption found by recovery.
THEOREM DuplicatesAnswered ==
    ASSUME "foreign" \notin Noise
    PROVE  Spec => []DuplicatesRejected
  <1>1. IInv /\ OwnInv => DuplicatesRejected
    <2> SUFFICES ASSUME IInv, OwnInv, NEW i \in DOMAIN log, log[i] \in Outputs,
                        Earlier(log[i].ref)
                 PROVE  log[i].kind = "result" /\ log[i].body
                        /\ log[i].code \in {Duplicate, Interrupted}
      BY DEF DuplicatesRejected
    <2>1. i \in 1..Len(log)
      BY DEF IInv, TypeOK
    <2>2. Asked(log[i].ref) /\ Own(log[i].ref, log[i])
      BY <2>1 DEF OwnInv, OutputInv, Alien
    <2>3. log[i].kind = "result" /\ log[i].code \in {Duplicate, Interrupted}
      BY <2>2 DEF Own
    <2>4. ~Linking(log[i])
      BY <2>2 DEF Own, First, Earlier, RequestSeqs
    <2>5. log[i].body \in BOOLEAN
      BY <2>3 DEF Outputs, Results, Appends, Ends
    <2>6. QED
      BY <2>3, <2>4, <2>5 DEF Linking
  <1>2. QED
    BY <1>1, Invariance, OwnInvariance, PTL

-----------------------------------------------------------------------------
(***************************************************************************)
(* The output chain: while a call is undecided and nobody else has written *)
(* into it, at most one continuation of its chain is under way, and it     *)
(* fits the tail that the log has.                                         *)
(***************************************************************************)
ChainEnd(s) == ChainTail(log, s, Len(log))

\* A continuation that fits the chain in the log.
Fitting(s, m) == IF m.kind = "append" THEN m.prev = ChainEnd(s) /\ m.prev # 0
                 ELSE ChainEnd(s) = 0

\* No continuation is under way.
Quiet(s) == \A p \in inflight : p.event.ref = s => ~Linking(p.event)

Fresh(s) ==
    /\ \A p \in inflight : p.event.ref = s /\ Linking(p.event) => Fitting(s, p.event)
    /\ \A p, q \in inflight :
          p.event.ref = s /\ Linking(p.event) /\ q.event.ref = s /\ Linking(q.event) => p = q
    /\ invoked[s] = 0 => ChainEnd(s) = 0 /\ Quiet(s)
    /\ agent[s].role = "provider" /\ agent[s].pc \in {"iterate", "emit"}
          => agent[s].writer = ChainEnd(s) /\ Quiet(s)
    /\ agent[s].pc = "emit" /\ Linking(agent[s].event) => Fitting(s, agent[s].event)
    /\ agent[s].pc = "publish" /\ agent[s].ack # 0 /\ Linking(agent[s].event)
          => agent[s].ack = ChainEnd(s) /\ Quiet(s)

Chain(s) ==
    /\ \A n \in s..Len(log) : Broken(log, s, n) => Meddled(s, n)
    /\ Winner(log, s, Len(log)) = 0 /\ ~Meddled(s, Len(log)) => Fresh(s)

ChainInv == \A s \in Seqs : Asked(s) => Chain(s)

\* A message that continues no chain leaves an intact one intact, and its tail
\* where it was unless it decides the call.
LEMMA SilentRead ==
    ASSUME NEW lg, NEW s \in Nat, NEW n \in Nat, s <= n, ~Broken(lg, s, n),
           ~Hit(lg, s, n + 1, "append"), Hit(lg, s, n + 1, "result") => lg[n + 1].body
    PROVE  /\ ~Broken(lg, s, n + 1)
           /\ Winner(lg, s, n + 1) = 0 => /\ Winner(lg, s, n) = 0
                                          /\ ChainTail(lg, s, n + 1) = ChainTail(lg, s, n)
  <1>1. CASE Winner(lg, s, n) # 0
    BY <1>1, ReadSettled
  <1>2. CASE Winner(lg, s, n) = 0
    <2>1. ~Misfits(lg, s, n) /\ (Links(lg, s, n) => Decides(lg, s, n))
      BY DEF Misfits, Links, Decides
    <2>2. /\ ChainTail(lg, s, n + 1) = IF Links(lg, s, n) THEN n + 1 ELSE ChainTail(lg, s, n)
          /\ Broken(lg, s, n + 1) <=> Misfits(lg, s, n)
      BY <1>2, ReadNext
    <2>3. Winner(lg, s, n + 1) = IF Decides(lg, s, n) THEN n + 1 ELSE 0
      BY <1>2, WinnerNext
    <2>4. n + 1 # 0
      OBVIOUS
    <2>5. QED
      BY <1>2, <2>1, <2>2, <2>3, <2>4
  <1>3. QED
    BY <1>1, <1>2

\* A continuation that fits becomes the tail.
LEMMA LinkRead ==
    ASSUME NEW lg, NEW s \in Nat, NEW n \in Nat, s <= n, ~Broken(lg, s, n), Winner(lg, s, n) = 0,
           lg[s].streaming,
           \/ Hit(lg, s, n + 1, "result") /\ ~lg[n + 1].body /\ ChainTail(lg, s, n) = 0
           \/ /\ Hit(lg, s, n + 1, "append") /\ lg[n + 1].prev = ChainTail(lg, s, n)
              /\ ChainTail(lg, s, n) # 0
    PROVE  /\ ~Broken(lg, s, n + 1) /\ Winner(lg, s, n + 1) = 0
           /\ ChainTail(lg, s, n + 1) = n + 1
  <1>1. ChainTail(lg, s, n) = 0 <=> FirstResult(lg, s, n) = 0
    BY ReadNext
  <1>2. Links(lg, s, n) /\ ~Misfits(lg, s, n) /\ ~Decides(lg, s, n)
    BY <1>1 DEF Links, Misfits, Decides, Hit
  <1>3. QED
    BY <1>2, ReadNext, WinnerNext

\* What was meddled with stays so.
LEMMA MeddledGrows ==
    ASSUME IInv, NEW m \in Messages, log' = Append(log, m), NEW s, Asked(s)
    PROVE  /\ \A n \in s..Len(log) : Meddled(s, n)' <=> Meddled(s, n)
           /\ Meddled(s, Len(log)) => Meddled(s, Len(log))'
           /\ m.kind \in {"append", "result"} /\ m = Foreign(s) => Meddled(s, Len(log))'
  <1>1. /\ Len(log) \in Nat /\ Len(log') = Len(log) + 1
        /\ \A i \in 1..Len(log) : log'[i] = log[i]
        /\ log'[Len(log) + 1] = m
    BY LogAppend, LenProperties, AppendProperties DEF IInv, TypeOK
  <1>2. s \in Nat /\ s >= 1 /\ s <= Len(log) /\ Foreign(s)' = Foreign(s)
    BY <1>1, LogStable
  <1>3. \A n \in s..Len(log) : Meddled(s, n)' <=> Meddled(s, n)
    <2>1. ASSUME NEW n \in s..Len(log), NEW i \in (s + 1)..n PROVE log'[i] = log[i]
      BY <1>1, <1>2
    <2>2. QED
      BY <1>2, <2>1 DEF Meddled
  <1>4. ASSUME Meddled(s, Len(log)) PROVE Meddled(s, Len(log))'
    <2>1. PICK i \in (s + 1)..Len(log) : /\ log[i].kind \in {"append", "result"}
                                         /\ log[i].ref = s /\ log[i] = Foreign(s)
      BY <1>4 DEF Meddled
    <2>2. i \in (s + 1)..(Len(log) + 1) /\ log'[i] = log[i]
      BY <1>1, <1>2, <2>1
    <2>3. QED
      BY <1>2, <2>1, <2>2 DEF Meddled
  <1>5. ASSUME m.kind \in {"append", "result"}, m = Foreign(s) PROVE Meddled(s, Len(log))'
    <2>1. m.ref = s
      BY <1>5 DEF Foreign, AppendEvent, Result
    <2>2. Len(log) + 1 \in (s + 1)..(Len(log) + 1)
      BY <1>1, <1>2
    <2>3. QED
      BY <1>1, <1>2, <1>5, <2>1, <2>2 DEF Meddled
  <1>6. QED
    BY <1>3, <1>4, <1>5

\* A request is asked with its first message; nothing is under way for it.
LEMMA NewChain ==
    ASSUME IInv, OwnInv, NEW m \in Messages, log' = Append(log, m),
           inflight' \subseteq inflight, invoked' = invoked,
           \A t \in Seqs : agent'[t].pc = agent[t].pc,
           NEW s \in Seqs, ~Asked(s), Asked(s)'
    PROVE  Chain(s)'
  <1>1. /\ Len(log) \in Nat /\ Len(log') = Len(log) + 1
        /\ \A i \in 1..Len(log) : log'[i] = log[i]
    BY LogAppend, LenProperties DEF IInv, TypeOK
  <1>2. s = Len(log') /\ s \in Nat
    <2>1. s \in 1..Len(log') /\ log'[s] \in Requests
      BY DEF Asked
    <2>2. s \notin 1..Len(log)
      BY <1>1, <2>1 DEF Asked
    <2>3. QED
      BY <1>1, <2>1, <2>2
  <1>3. ChainTail(log', s, Len(log')) = 0 /\ ~Broken(log', s, s)
    BY <1>2, ReadNothing
  <1>4. \A p \in inflight' : p.event.ref # s
    BY DEF OwnInv, FlightInv
  <1>5. agent[s].pc = "idle"
    BY DEF IInv, ThreadInv
  <1>6. Fresh(s)'
    BY <1>3, <1>4, <1>5 DEF Fresh, Quiet, ChainEnd
  <1>7. \A n \in s..Len(log') : n = s
    BY <1>2
  <1>8. QED
    BY <1>3, <1>6, <1>7 DEF Chain

\* The new log reads like the old one up to the old end.
LEMMA OldReading ==
    ASSUME IInv, NEW m \in Messages, log' = Append(log, m), NEW s \in Seqs, Asked(s)
    PROVE  /\ s \in Nat /\ s <= Len(log) /\ Len(log) \in Nat /\ Len(log') = Len(log) + 1
           /\ log'[Len(log) + 1] = m /\ log'[s] = log[s]
           /\ \A n \in s..Len(log) :
                 /\ Winner(log', s, n) = Winner(log, s, n)
                 /\ ChainTail(log', s, n) = ChainTail(log, s, n)
                 /\ Broken(log', s, n) <=> Broken(log, s, n)
  <1>1. /\ Len(log) \in Nat /\ Len(log') = Len(log) + 1
        /\ \A i \in 1..Len(log) : log'[i] = log[i]
        /\ log'[Len(log) + 1] = m
    BY LogAppend, LenProperties, AppendProperties DEF IInv, TypeOK
  <1>2. s \in Nat /\ s >= 1 /\ s <= Len(log) /\ log'[s] = log[s]
    BY <1>1, LogStable
  <1>3. ASSUME NEW n \in s..Len(log)
        PROVE  /\ Winner(log', s, n) = Winner(log, s, n)
               /\ ChainTail(log', s, n) = ChainTail(log, s, n)
               /\ Broken(log', s, n) <=> Broken(log, s, n)
    <2>1. n \in Nat /\ s \in 1..n /\ \A i \in 1..n : log'[i] = log[i]
      BY <1>1, <1>2
    <2>2. QED
      BY <2>1, ReadPrefix
  <1>4. QED
    BY <1>1, <1>2, <1>3

\* A chain is only broken by the last message if somebody meddled.
LEMMA BreaksOn ==
    ASSUME IInv, NEW m \in Messages, log' = Append(log, m), NEW s \in Seqs, Asked(s), Chain(s),
           Broken(log', s, Len(log) + 1) => Meddled(s, Len(log))',
           Winner(log', s, Len(log) + 1) = 0 /\ ~Meddled(s, Len(log))' => Fresh(s)'
    PROVE  Chain(s)'
  <1>1. /\ s \in Nat /\ s <= Len(log) /\ Len(log) \in Nat /\ Len(log') = Len(log) + 1
        /\ \A n \in s..Len(log) : Broken(log', s, n) <=> Broken(log, s, n)
    BY OldReading
  <1>2. \A n \in s..Len(log) : Meddled(s, n)' <=> Meddled(s, n)
    BY MeddledGrows
  <1>3. ASSUME NEW n \in s..Len(log'), Broken(log', s, n) PROVE Meddled(s, n)'
    <2>1. CASE n \in s..Len(log)
      BY <1>1, <1>2, <1>3, <2>1 DEF Chain
    <2>2. CASE n = Len(log) + 1
      BY <1>3, <2>2
    <2>3. QED
      BY <1>1, <2>1, <2>2
  <1>4. Winner(log', s, Len(log')) = 0 /\ ~Meddled(s, Len(log))' => Fresh(s)'
    BY <1>1
  <1>5. QED
    BY <1>3, <1>4 DEF Chain

\* A message that continues no chain of the request, or that somebody else wrote.
LEMMA SilentChain ==
    ASSUME IInv, NEW m \in Messages, log' = Append(log, m), NEW s \in Seqs, Asked(s), Chain(s),
           inflight' \subseteq inflight, invoked' = invoked,
           /\ agent'[s].pc = agent[s].pc /\ agent'[s].role = agent[s].role
           /\ agent'[s].event = agent[s].event /\ agent'[s].writer = agent[s].writer,
           agent'[s].ack = agent[s].ack \/ ~Linking(agent[s].event),
           Hit(log', s, Len(log) + 1, "append") \/ Hit(log', s, Len(log) + 1, "result")
              => m = Foreign(s) \/ ~Linking(m)
    PROVE  Chain(s)'
  <1> DEFINE L == Len(log)
  <1>1. /\ s \in Nat /\ s <= L /\ L \in Nat /\ Len(log') = L + 1
        /\ log'[L + 1] = m /\ log'[s] = log[s]
        /\ Winner(log', s, L) = Winner(log, s, L)
        /\ ChainTail(log', s, L) = ChainTail(log, s, L)
        /\ Broken(log', s, L) <=> Broken(log, s, L)
    <2>1. s \in Nat /\ s <= L /\ L \in Nat
      BY OldReading
    <2>2. L \in s..L
      BY <2>1
    <2>3. QED
      BY <2>2, OldReading
  <1>2. Meddled(s, L) => Meddled(s, Len(log))'
    BY MeddledGrows
  <1>3. CASE Meddled(s, Len(log))'
    BY <1>3, BreaksOn
  <1>4. CASE ~Meddled(s, Len(log))'
    <2>1. ~(m.kind \in {"append", "result"} /\ m = Foreign(s))
      BY <1>4, MeddledGrows
    <2>2. ~Hit(log', s, L + 1, "append") /\ (Hit(log', s, L + 1, "result") => m.body)
      BY <1>1, <2>1 DEF Hit, Linking
    <2>3. ~Broken(log, s, L)
      <3>1. L \in s..L
        BY <1>1
      <3>2. QED
        BY <1>2, <1>4, <3>1 DEF Chain
    <2>4. /\ ~Broken(log', s, L + 1)
          /\ Winner(log', s, L + 1) = 0 => /\ Winner(log', s, L) = 0
                                           /\ ChainTail(log', s, L + 1) = ChainTail(log', s, L)
      BY <1>1, <2>2, <2>3, SilentRead
    <2>5. ASSUME Winner(log', s, L + 1) = 0 PROVE Fresh(s)'
      <3>1. Fresh(s) /\ ChainTail(log', s, Len(log')) = ChainTail(log, s, L)
        BY <1>1, <1>2, <1>4, <2>4, <2>5 DEF Chain
      <3>2. ChainEnd(s)' = ChainEnd(s) /\ (Quiet(s) => Quiet(s)')
        BY <3>1 DEF ChainEnd, Quiet
      <3>3. \A e : Fitting(s, e)' <=> Fitting(s, e)
        BY <3>2 DEF Fitting
      <3>4. QED
        BY <3>1, <3>2, <3>3 DEF Fresh
    <2>6. QED
      BY <2>4, <2>5, BreaksOn
  <1>5. QED
    BY <1>3, <1>4

\* A continuation of the Worker's own is committed.
LEMMA LinkedChain ==
    ASSUME IInv, OwnInv, NEW p \in inflight, Commit(p), NEW s \in Seqs, s = p.event.ref,
           Linking(p.event), Chain(s)
    PROVE  Chain(s)'
  <1> DEFINE L == Len(log)
             m == p.event
  <1>1. /\ log' = Append(log, m) /\ inflight' = inflight \ {p} /\ invoked' = invoked
        /\ agent' = IF Waiting(p) THEN [agent EXCEPT ![s].ack = L + 1] ELSE agent
        /\ m \in Messages /\ agent \in [Seqs -> Agents]
    BY DEF Commit, IInv, TypeOK, Publications, Messages
  <1>2. Asked(s) /\ Own(s, m) /\ EventInv(s) /\ log[s].streaming
    BY DEF OwnInv, FlightInv, Own
  <1>3. /\ s \in Nat /\ s <= L /\ L \in Nat /\ Len(log') = L + 1
        /\ log'[L + 1] = m /\ log'[s] = log[s]
        /\ Winner(log', s, L) = Winner(log, s, L)
        /\ ChainTail(log', s, L) = ChainTail(log, s, L)
        /\ Broken(log', s, L) <=> Broken(log, s, L)
    <2>1. s \in Nat /\ s <= L /\ L \in Nat
      BY <1>1, <1>2, OldReading
    <2>2. L \in s..L
      BY <2>1
    <2>3. QED
      BY <1>1, <1>2, <2>2, OldReading
  <1>4. Meddled(s, L) => Meddled(s, Len(log))'
    BY <1>1, <1>2, MeddledGrows
  <1>5. CASE Meddled(s, Len(log))'
    BY <1>1, <1>2, <1>5, BreaksOn
  <1>6. CASE ~Meddled(s, Len(log))'
    <2>1. ~Broken(log, s, L)
      <3>1. L \in s..L
        BY <1>3
      <3>2. QED
        BY <1>4, <1>6, <3>1 DEF Chain
    <2>2. CASE Winner(log, s, L) # 0
      <3>1. ~Broken(log', s, L + 1) /\ Winner(log', s, L + 1) # 0
        BY <1>3, <2>1, <2>2, ReadSettled
      <3>2. QED
        BY <1>1, <1>2, <3>1, BreaksOn
    <2>3. CASE Winner(log, s, L) = 0
      <3>1. Fresh(s)
        BY <1>4, <1>6, <2>3 DEF Chain
      <3>2. Fitting(s, m)
        BY <3>1 DEF Fresh
      <3>3. \/ Hit(log', s, L + 1, "result") /\ ~m.body /\ ChainTail(log', s, L) = 0
            \/ /\ Hit(log', s, L + 1, "append") /\ m.prev = ChainTail(log', s, L)
               /\ ChainTail(log', s, L) # 0
        BY <1>2, <1>3, <3>2 DEF Own, Linking, Hit, Fitting, ChainEnd
      <3>4. /\ ~Broken(log', s, L + 1) /\ Winner(log', s, L + 1) = 0
            /\ ChainTail(log', s, L + 1) = L + 1
        BY <1>2, <1>3, <2>1, <2>3, <3>3, LinkRead
      <3>5. ~Quiet(s) /\ invoked[s] # 0 /\ Quiet(s)'
        BY <1>1, <3>1 DEF Fresh, Quiet
      <3>6. \A q \in inflight' : ~(q.event.ref = s /\ Linking(q.event))
        BY <3>5 DEF Quiet
      <3>7. ~(agent[s].role = "provider" /\ agent[s].pc \in {"iterate", "emit"})
        BY <3>1, <3>5 DEF Fresh
      <3>8. ~(agent[s].pc = "emit" /\ Linking(agent[s].event))
        BY <1>2, <3>7 DEF EventInv
      <3>9. ~(agent[s].pc = "publish" /\ agent[s].ack # 0 /\ Linking(agent[s].event))
        BY <3>1, <3>5 DEF Fresh
      <3>10. /\ agent'[s].pc = agent[s].pc /\ agent'[s].role = agent[s].role
             /\ agent'[s].event = agent[s].event
             /\ agent'[s].ack = agent[s].ack \/ agent'[s].ack = L + 1
        BY <1>1 DEF Agents
      <3>11. Fresh(s)'
        <4>1. ChainEnd(s)' = L + 1
          BY <1>3, <3>4 DEF ChainEnd
        <4>2. QED
          BY <1>1, <3>5, <3>6, <3>7, <3>8, <3>9, <3>10, <4>1 DEF Fresh
      <3>12. QED
        BY <1>1, <1>2, <3>4, <3>11, BreaksOn
    <2>4. QED
      BY <2>2, <2>3
  <1>7. QED
    BY <1>5, <1>6

\* A message that somebody else writes is no continuation, or it is an intrusion.
LEMMA EnvironmentChain ==
    ASSUME IInv, OwnInv, ChainInv, Environment
    PROVE  ChainInv'
  <1>1. ASSUME NEW m \in Messages, Write(m),
               m \in Outputs => Asked(m.ref) /\ Alien(m), NEW s \in Seqs, Asked(s)'
        PROVE  Chain(s)'
    <2>1. log' = Append(log, m) /\ UNCHANGED <<inflight, agent, invoked>>
      BY <1>1 DEF Write, worker
    <2>2. CASE ~Asked(s)
      BY <1>1, <2>1, <2>2, NewChain
    <2>3. CASE Asked(s)
      <3>1. log'[Len(log) + 1] = m
        BY <2>1, <2>3, OldReading
      <3>2. Hit(log', s, Len(log) + 1, "append") \/ Hit(log', s, Len(log) + 1, "result")
               => m = Foreign(s) \/ m = ForeignOutcome(s)
        BY <1>1, <3>1, MessageKinds DEF Hit, Outputs, Alien
      <3>3. ~Linking(ForeignOutcome(s))
        BY DEF ForeignOutcome, Linking, End, Result
      <3>4. QED
        BY <2>1, <2>3, <3>2, <3>3, SilentChain DEF ChainInv
    <2>4. QED
      BY <2>2, <2>3
  <1>2. ASSUME NEW p \in inflight, Commit(p), NEW s \in Seqs, Asked(s)'
        PROVE  Chain(s)'
    <2>1. /\ log' = Append(log, p.event) /\ inflight' = inflight \ {p} /\ invoked' = invoked
          /\ agent' = IF Waiting(p) THEN [agent EXCEPT ![p.event.ref].ack = Len(log) + 1] ELSE agent
          /\ p.event \in Messages /\ agent \in [Seqs -> Agents]
      BY <1>2 DEF Commit, IInv, TypeOK, Publications, Messages
    <2>2. /\ agent'[s].pc = agent[s].pc /\ agent'[s].role = agent[s].role
          /\ agent'[s].event = agent[s].event /\ agent'[s].writer = agent[s].writer
          /\ agent'[s].ack = agent[s].ack \/ (Waiting(p) /\ p.event.ref = s)
      <3>1. CASE ~Waiting(p)
        BY <2>1, <3>1
      <3>2. CASE Waiting(p)
        <4>1. p.event.ref \in Seqs
          BY <3>2, OneWaiting
        <4>2. agent' = [agent EXCEPT ![p.event.ref].ack = Len(log) + 1]
          BY <2>1, <3>2
        <4>3. QED
          BY <2>1, <3>2, <4>1, <4>2 DEF Agents
      <3>3. QED
        BY <3>1, <3>2
    <2>3. CASE ~Asked(s)
      <3>1. \A t \in Seqs : agent'[t].pc = agent[t].pc
        BY <2>1 DEF Agents
      <3>2. QED
        BY <1>2, <2>1, <2>3, <3>1, NewChain
    <2>4. CASE Asked(s) /\ s = p.event.ref /\ Linking(p.event)
      BY <1>2, <2>4, LinkedChain DEF ChainInv
    <2>5. CASE Asked(s) /\ ~(s = p.event.ref /\ Linking(p.event))
      <3>1. log'[Len(log) + 1] = p.event
        BY <2>1, <2>5, OldReading
      <3>2. Hit(log', s, Len(log) + 1, "append") \/ Hit(log', s, Len(log) + 1, "result")
               => ~Linking(p.event)
        BY <2>5, <3>1 DEF Hit
      <3>3. agent'[s].ack = agent[s].ack \/ ~Linking(agent[s].event)
        BY <2>2, <2>5, OneWaiting
      <3>4. QED
        BY <2>1, <2>2, <2>5, <3>2, <3>3, SilentChain DEF ChainInv
    <2>6. QED
      BY <2>3, <2>4, <2>5
  <1>3. QED
    BY <1>1, <1>2, EnvironmentCases DEF ChainInv

\* While the log is the same the chain in it is; what is left to show is that
\* the threads and the publications still agree with it.
LEMMA SameChain ==
    ASSUME ChainInv, log' = log,
           \A s \in Seqs : Asked(s) /\ Winner(log, s, Len(log)) = 0 /\ Fresh(s) => Fresh(s)'
    PROVE  ChainInv'
  <1>1. \A s : Asked(s)' <=> Asked(s)
    BY LogFixed
  <1>2. \A s, n : Meddled(s, n)' <=> Meddled(s, n)
    BY DEF Meddled, Foreign
  <1>3. ASSUME NEW s \in Seqs, Asked(s)' PROVE Chain(s)'
    <2>1. Chain(s) /\ Asked(s)
      BY <1>1, <1>3 DEF ChainInv
    <2>2. /\ \A n \in s..Len(log') : Broken(log', s, n) => Meddled(s, n)'
          /\ Winner(log', s, Len(log')) = Winner(log, s, Len(log))
      BY <1>2, <2>1 DEF Chain
    <2>3. Meddled(s, Len(log))' <=> Meddled(s, Len(log))
      BY <1>2
    <2>4. Winner(log', s, Len(log')) = 0 /\ ~Meddled(s, Len(log))' => Fresh(s)'
      BY <2>1, <2>2, <2>3 DEF Chain
    <2>5. QED
      BY <2>2, <2>4 DEF Chain
  <1>4. QED
    BY <1>3 DEF ChainInv

\* Nothing new is under way for the request, and its thread does nothing that
\* depends on the chain, or does what it did.
LEMMA IdleFresh ==
    ASSUME log' = log, NEW s \in Seqs, Fresh(s), EventInv(s)',
           \A p \in inflight' : p.event.ref = s => p \in inflight,
           invoked'[s] = invoked[s],
           \/ agent'[s] = agent[s]
           \/ agent'[s].pc \notin {"iterate", "emit", "publish"}
           \/ agent'[s].pc = "emit" /\ agent'[s].role # "provider"
    PROVE  Fresh(s)'
  <1>1. ChainEnd(s)' = ChainEnd(s) /\ (Quiet(s) => Quiet(s)')
    BY DEF ChainEnd, Quiet
  <1>2. \A e : Fitting(s, e)' <=> Fitting(s, e)
    BY <1>1 DEF Fitting
  <1>3. agent'[s].pc = "emit" /\ agent'[s].role # "provider" => ~Linking(agent'[s].event)
    BY DEF EventInv
  <1>4. QED
    BY <1>1, <1>2, <1>3 DEF Fresh

\* The Provider is called: nothing has been said of the request.
LEMMA StartFresh ==
    ASSUME IInv, OwnInv, NEW s \in Seqs, TaskStart(s), Fresh(s), EventInv(s)'
    PROVE  Fresh(s)'
  <1>1. /\ agent \in [Seqs -> Agents] /\ agent[s] \in Agents /\ invoked \in [Seqs -> Nat]
        /\ EventInv(s)
    BY DEF IInv, TypeOK, OwnInv
  <1>2. agent[s].role = "provider" /\ agent[s].pc = "start" /\ UNCHANGED <<log, inflight>>
    BY DEF TaskStart, At, server
  <1>3. ChainEnd(s) = 0 /\ Quiet(s) /\ agent[s].writer = 0
    BY <1>1, <1>2 DEF Fresh, IInv, ThreadInv, EventInv, Early
  <1>4. CASE Goto(s, "iterate") /\ invoked' = [invoked EXCEPT ![s] = @ + 1]
    <2>1. agent'[s].pc = "iterate" /\ agent'[s].writer = 0 /\ invoked'[s] # 0
      BY <1>1, <1>3, <1>4 DEF Goto, Agents
    <2>2. ChainEnd(s)' = 0 /\ Quiet(s)'
      BY <1>2, <1>3 DEF ChainEnd, Quiet
    <2>3. QED
      BY <1>2, <1>3, <2>1, <2>2 DEF Fresh, Quiet
  <1>5. CASE Finish(s) /\ UNCHANGED invoked
    <2>1. agent'[s] = Last(agent[s])
      BY <1>1, <1>5 DEF Finish
    <2>2. agent'[s].pc \in {"finally", "idle"}
      BY <2>1, LastOwn
    <2>3. QED
      BY <1>2, <1>5, <2>2, IdleFresh
  <1>6. QED
    BY <1>4, <1>5 DEF TaskStart

\* What the Provider yields continues the chain where the task's last
\* publication left it.
LEMMA EmitFresh ==
    ASSUME IInv, OwnInv, NEW s \in Seqs, NEW e, EmitOrEnd(s, e), Fresh(s), EventInv(s)',
           agent[s].role = "provider", agent[s].pc \in {"iterate", "emit"},
           Linking(e) => Fitting(s, e)
    PROVE  Fresh(s)'
  <1>1. /\ agent \in [Seqs -> Agents] /\ agent[s] \in Agents
        /\ UNCHANGED <<log, inflight, invoked>>
    BY DEF IInv, TypeOK, EmitOrEnd, server
  <1>2. CASE CanOutput(s)
    <2>1. agent'[s] = [agent[s] EXCEPT !.pc = "emit", !.event = e]
      BY <1>1, <1>2 DEF EmitOrEnd
    <2>2. /\ agent'[s].pc = "emit" /\ agent'[s].role = "provider" /\ agent'[s].event = e
          /\ agent'[s].writer = agent[s].writer
      BY <1>1, <2>1 DEF Agents
    <2>3. ChainEnd(s)' = ChainEnd(s) /\ (Quiet(s)' <=> Quiet(s))
      BY <1>1 DEF ChainEnd, Quiet
    <2>4. \A m : Fitting(s, m)' <=> Fitting(s, m)
      BY <2>3 DEF Fitting
    <2>5. QED
      BY <1>1, <2>2, <2>3, <2>4 DEF Fresh
  <1>3. CASE ~CanOutput(s)
    <2>1. agent'[s] = Last(agent[s])
      BY <1>1, <1>3 DEF EmitOrEnd
    <2>2. agent'[s].pc \in {"finally", "idle"}
      BY <2>1, LastOwn
    <2>3. QED
      BY <1>1, <2>2, IdleFresh
  <1>4. QED
    BY <1>2, <1>3

\* A continuation that a task has prepared fits the tail that it has seen acknowledged.
LEMMA ProviderFresh ==
    ASSUME IInv, OwnInv, NEW s \in Seqs, ProviderStep(s) \/ Oversize(s), Fresh(s), EventInv(s)'
    PROVE  Fresh(s)'
  <1>1. agent[s].role = "provider" /\ agent[s].pc \in {"iterate", "emit"}
    BY DEF ProviderStep, Yield, ProviderFail, Oversize, At
  <1>2. agent[s].writer = ChainEnd(s) /\ First(s)
    BY <1>1 DEF Fresh, IInv, ThreadInv
  <1>3. ASSUME NEW e \in NextEvents(s), Linking(e) PROVE Fitting(s, e)
    <2>1. \/ e = Result(log[s].key, s, TRUE, Http)
          \/ e = Result(log[s].key, s, FALSE, Http) /\ agent[s].writer = 0
          \/ e = End(log[s].key, s, Http)
          \/ e = AppendEvent(log[s].key, s, agent[s].writer) /\ agent[s].writer # 0
      BY DEF NextEvents
    <2>2. QED
      BY <1>2, <1>3, <2>1 DEF Fitting, Linking, Result, End, AppendEvent
  <1>4. \A code \in InterruptedCodes : ~Linking(ErrorEvent(s, code, FALSE, FALSE))
    BY <1>2, ErrorOwn DEF First
  <1>5. CASE Yield(s)
    BY <1>1, <1>3, <1>5, EmitFresh DEF Yield
  <1>6. CASE ProviderFail(s)
    <2>1. Failures \subseteq InterruptedCodes
      BY ConstantsAssumption DEF ProviderCodes, InterruptedCodes, Interrupted, TooLarge
    <2>2. QED
      BY <1>1, <1>4, <1>6, <2>1, EmitFresh DEF ProviderFail
  <1>7. CASE Oversize(s)
    <2>1. TooLarge \in InterruptedCodes
      BY DEF InterruptedCodes
    <2>2. QED
      BY <1>1, <1>4, <1>7, <2>1, EmitFresh DEF Oversize
  <1>8. QED
    BY <1>5, <1>6, <1>7 DEF ProviderStep

\* A continuation is sent: it is the only one, and it fits.
LEMMA SentFresh ==
    ASSUME IInv, OwnInv, NEW s \in Seqs, agent[s].pc = "emit", Fresh(s),
           inflight' = inflight \cup {[epoch |-> epoch, event |-> agent[s].event]},
           Goto(s, "publish"), log' = log, invoked' = invoked
    PROVE  Fresh(s)'
  <1>1. /\ agent \in [Seqs -> Agents] /\ agent[s] \in Agents /\ EventInv(s)
    BY DEF IInv, TypeOK, OwnInv
  <1>2. agent'[s].pc = "publish" /\ agent'[s].event = agent[s].event /\ agent'[s].ack = agent[s].ack
    BY <1>1 DEF Goto, Agents
  <1>3. agent[s].ack = 0
    BY <1>1 DEF EventInv
  <1>4. ChainEnd(s)' = ChainEnd(s)
    BY DEF ChainEnd
  <1>5. \A m : Fitting(s, m)' <=> Fitting(s, m)
    BY <1>4 DEF Fitting
  <1>6. CASE ~Linking(agent[s].event)
    <2>1. \A p \in inflight' : Linking(p.event) => p \in inflight
      BY <1>6
    <2>2. Quiet(s) => Quiet(s)'
      BY <2>1 DEF Quiet
    <2>3. QED
      BY <1>2, <1>3, <1>4, <1>5, <2>1, <2>2 DEF Fresh
  <1>7. CASE Linking(agent[s].event)
    <2>1. agent[s].role = "provider" /\ invoked[s] # 0
      BY <1>1, <1>7 DEF EventInv
    <2>2. Quiet(s) /\ Fitting(s, agent[s].event)
      BY <1>7, <2>1 DEF Fresh
    <2>3. \A p \in inflight' : p.event.ref = s /\ Linking(p.event)
             => p = [epoch |-> epoch, event |-> agent[s].event] /\ p.event = agent[s].event
      BY <2>2 DEF Quiet
    <2>4. \A p \in inflight' : p.event.ref = s /\ Linking(p.event) => Fitting(s, p.event)'
      BY <1>5, <2>2, <2>3
    <2>5. QED
      BY <1>2, <1>3, <2>1, <2>3, <2>4 DEF Fresh
  <1>8. QED
    BY <1>6, <1>7

\* A continuation is sent once, and the next one only after its reply.
LEMMA PublishFresh ==
    ASSUME IInv, OwnInv, NEW s \in Seqs, PublishStart(s) \/ PublishReturn(s) \/ PublishFail(s),
           Fresh(s), EventInv(s)'
    PROVE  Fresh(s)'
  <1>1. /\ agent \in [Seqs -> Agents] /\ agent[s] \in Agents /\ EventInv(s)
        /\ log' = log /\ invoked' = invoked
    BY DEF IInv, TypeOK, OwnInv, PublishStart, PublishReturn, PublishFail, server
  <1>2. ASSUME agent'[s] = Last(agent[s]) \/ agent'[s] = Idle, inflight' = inflight
        PROVE  Fresh(s)'
    <2>1. agent'[s].pc \in {"finally", "idle"}
      BY <1>2, LastOwn
    <2>2. QED
      BY <1>1, <1>2, <2>1, IdleFresh
  <1>3. CASE PublishStart(s)
    <2>1. CASE /\ inflight' = inflight \cup {[epoch |-> epoch, event |-> agent[s].event]}
               /\ Goto(s, "publish")
      <3>1. agent[s].pc = "emit"
        BY <1>3 DEF PublishStart
      <3>2. QED
        BY <1>1, <2>1, <3>1, SentFresh
    <2>2. CASE Finish(s) /\ UNCHANGED inflight
      BY <1>1, <1>2, <2>2 DEF Finish
    <2>3. QED
      BY <1>3, <2>1, <2>2 DEF PublishStart
  <1>4. CASE PublishFail(s)
    BY <1>1, <1>2, <1>4 DEF PublishFail, Finish, server
  <1>5. CASE PublishReturn(s)
    <2>1. agent[s].pc = "publish" /\ agent[s].ack # 0 /\ inflight' = inflight
      BY <1>5 DEF PublishReturn, server
    <2>2. \/ agent'[s] = Idle
          \/ agent'[s] = Acked(agent[s]) /\ ~Terminal(agent[s].event) /\ invoked[s] # 0
          \/ agent'[s] = Last(agent[s])
      BY <1>1, <1>5, <2>1 DEF PublishReturn, EventInv
    <2>3. CASE agent'[s] = Acked(agent[s]) /\ ~Terminal(agent[s].event) /\ invoked[s] # 0
      <3>1. agent'[s].pc = "iterate" /\ agent'[s].writer = agent[s].ack
        BY <2>3 DEF Acked, Task, Idle
      <3>2. agent[s].event \in Outputs
        BY <2>1 DEF IInv, ThreadInv
      <3>3. agent[s].ack = ChainEnd(s) /\ Quiet(s)
        BY <2>1, <2>3, <3>2, LinkingOrTerminal DEF Fresh
      <3>4. ChainEnd(s)' = ChainEnd(s) /\ Quiet(s)'
        BY <1>1, <2>1, <3>3 DEF ChainEnd, Quiet
      <3>5. \A p \in inflight' : ~(p.event.ref = s /\ Linking(p.event))
        BY <3>4 DEF Quiet
      <3>6. QED
        BY <1>1, <2>3, <3>1, <3>3, <3>4, <3>5 DEF Fresh
    <2>4. QED
      BY <1>2, <2>1, <2>2, <2>3
  <1>6. QED
    BY <1>3, <1>4, <1>5

\* A thread sends nothing for a request that is not its own.
LEMMA ThreadSends ==
    ASSUME IInv, OwnInv, NEW s \in Seqs, Thread(s)
    PROVE  /\ \A t \in Seqs \ {s} : \A p \in inflight' : p.event.ref = t => p \in inflight
           /\ ~PublishStart(s) => inflight' = inflight
           /\ ~TaskStart(s) => invoked' = invoked
           /\ \A t \in Seqs \ {s} : invoked'[t] = invoked[t]
  <1>1. ~PublishStart(s) => inflight' = inflight
    BY DEF Thread, ThreadStep, ProviderStep, TaskBegin, TaskInstall, TaskStart, Yield, ProviderFail,
           ProviderCancelled, Oversize, EmitOrEnd, TaskFinally, ControlFinally,
           PublishReturn, PublishFail, ControlFail, server
  <1>2. ~TaskStart(s) => invoked' = invoked
    BY DEF Thread, ThreadStep, ProviderStep, TaskBegin, TaskInstall, Yield, ProviderFail,
           ProviderCancelled, Oversize, EmitOrEnd, TaskFinally, ControlFinally, PublishStart,
           PublishReturn, PublishFail, ControlFail
  <1>3. \A t \in Seqs \ {s} : invoked'[t] = invoked[t]
    BY <1>2 DEF TaskStart, IInv, TypeOK
  <1>4. ASSUME PublishStart(s), NEW t \in Seqs \ {s}, NEW p \in inflight', p.event.ref = t
        PROVE  p \in inflight
    <2>1. agent[s].event.ref = s
      BY <1>4 DEF PublishStart, OwnInv, EventInv, Own
    <2>2. inflight' = inflight \/ inflight' = inflight \cup {[epoch |-> epoch, event |-> agent[s].event]}
      BY <1>4 DEF PublishStart
    <2>3. QED
      BY <1>4, <2>1, <2>2
  <1>5. QED
    BY <1>1, <1>2, <1>3, <1>4

\* No step of a thread disturbs a chain.
LEMMA ThreadChain ==
    ASSUME IInv, OwnInv, OwnInv', ChainInv, NEW s \in Seqs, Thread(s)
    PROVE  ChainInv'
  <1>1. /\ log' = log /\ \A t \in Seqs \ {s} : agent'[t] = agent[t]
        /\ agent \in [Seqs -> Agents] /\ agent[s] \in Agents
    BY ThreadFrame DEF IInv, TypeOK
  <1>2. \A t \in Seqs : EventInv(t)'
    BY DEF OwnInv
  <1>3. ASSUME NEW t \in Seqs \ {s}, Fresh(t) PROVE Fresh(t)'
    BY <1>1, <1>2, <1>3, ThreadSends, IdleFresh
  <1>4. ASSUME Fresh(s) PROVE Fresh(s)'
    <2>1. CASE TaskBegin(s) \/ TaskInstall(s) \/ ProviderCancelled(s)
                \/ TaskFinally(s) \/ ControlFinally(s) \/ ControlFail(s)
      <3>1. inflight' = inflight /\ invoked' = invoked
        BY <2>1 DEF TaskBegin, TaskInstall, ProviderCancelled, TaskFinally, ControlFinally,
                    ControlFail, server
      <3>2. \/ agent'[s] = Last(agent[s]) \/ agent'[s] = Idle
            \/ agent'[s].pc \in {"install", "start"}
        BY <1>1, <2>1 DEF TaskBegin, TaskInstall, ProviderCancelled, TaskFinally, ControlFinally,
                          ControlFail, Goto, Finish, Agents
      <3>3. agent'[s].pc \notin {"iterate", "emit", "publish"}
        BY <3>2, LastOwn
      <3>4. QED
        BY <1>1, <1>2, <1>4, <3>1, <3>3, IdleFresh
    <2>2. QED
      BY <1>2, <1>4, <2>1, StartFresh, ProviderFresh, PublishFresh DEF Thread, ThreadStep
  <1>5. QED
    BY <1>1, <1>3, <1>4, SameChain

\* Every step keeps the chains.
LEMMA ChainStep ==
    ASSUME IInv, OwnInv, OwnInv', ChainInv, [Next]_vars
    PROVE  ChainInv'
  <1> USE DEF process, reader, queues, worker, server
  <1>1. \A t \in Seqs : EventInv(t)'
    BY DEF OwnInv
  <1>2. ASSUME UNCHANGED <<log, inflight, invoked>>,
               \A t \in Seqs : \/ agent'[t] = agent[t]
                               \/ agent'[t].pc \notin {"iterate", "emit", "publish"}
                               \/ agent'[t].pc = "emit" /\ agent'[t].role # "provider"
        PROVE  ChainInv'
    BY <1>1, <1>2, IdleFresh, SameChain
  <1>3. CASE Connect \/ Disconnect \/ DeliverAgain \/ Deliver \/ DeliverFault \/ GoLive \/ Stop
             \/ Scan \/ Restart \/ UNCHANGED vars
    BY <1>2, <1>3 DEF Connect, Disconnect, DeliverAgain, Deliver, DeliverFault, Receiving, GoLive,
                      Stop, Fail, Scan, Restart, vars
  <1>4. CASE Crash \/ Exit
    BY <1>2, <1>4 DEF Crash, Exit, Reset, Idle
  <1>5. ASSUME NEW s, NEW a, agent' = [agent EXCEPT ![s] = a], UNCHANGED <<log, inflight, invoked>>,
               a.pc = "begin" \/ (a.pc = "emit" /\ a.role # "provider")
        PROVE  ChainInv'
    <2>1. agent \in [Seqs -> Agents]
      BY DEF IInv, TypeOK
    <2>2. \A t \in Seqs : agent'[t] = agent[t] \/ agent'[t] = a
      BY <1>5, <2>1
    <2>3. QED
      BY <1>2, <1>5, <2>2
  <1>6. \A e : LET a == Emitting("control", e) b == Emitting("recovery", e)
               IN  a.pc = "emit" /\ a.role # "provider" /\ b.pc = "emit" /\ b.role # "provider"
    BY DEF Emitting, Idle
  <1>7. CASE Schedule
    <2>1. Task.pc = "begin"
      BY NewAgentTypes
    <2>2. UNCHANGED <<log, inflight, invoked>>
      BY <1>7 DEF Schedule
    <2>3. agent' = agent \/ agent' = [agent EXCEPT ![Head(pending)] = Task]
      BY <1>7 DEF Schedule
    <2>4. QED
      BY <1>2, <1>5, <2>1, <2>2, <2>3
  <1>8. CASE ControlBegin
    <2>1. UNCHANGED <<log, inflight, invoked>>
      BY <1>8 DEF ControlBegin
    <2>2. \/ agent' = agent
          \/ agent' = [agent EXCEPT ![Head(controls)[1]] = Emitting("control",
                          ErrorEvent(Head(controls)[1], Head(controls)[2], FALSE, TRUE))]
      BY <1>8 DEF ControlBegin
    <2>3. QED
      BY <1>2, <1>5, <1>6, <2>1, <2>2
  <1>9. ASSUME NEW s \in Seqs, RecoverRequest(s) PROVE ChainInv'
    <2>1. /\ UNCHANGED <<log, inflight, invoked>>
          /\ agent' = [agent EXCEPT ![s] = Emitting("recovery", ErrorEvent(s, Interrupted, TRUE, FALSE))]
      BY <1>9 DEF RecoverRequest
    <2>2. QED
      BY <1>5, <1>6, <2>1
  <1>10. QED
    BY <1>3, <1>4, <1>7, <1>8, <1>9, EnvironmentChain, ThreadChain DEF Next, Life, Subscription

\* The chains are intact in every behaviour.
LEMMA ChainInvariance == Spec => []ChainInv
  <1>1. Init => ChainInv
    BY EmptySeq DEF Init, ChainInv, Asked
  <1>2. IInv /\ OwnInv /\ OwnInv' /\ ChainInv /\ [Next]_vars => ChainInv'
    BY ChainStep
  <1>3. QED
    BY <1>1, <1>2, Invariance, OwnInvariance, PTL DEF Spec

\* What the Workers write never violates the output chain as a consumer reads it,
\* through crashes, unacknowledged publications and late commits: a chain is only
\* ever broken by an output that no Worker sends.
THEOREM ChainsStayIntact == Spec => []ChainIntact
  <1>1. IInv /\ ChainInv => ChainIntact
    <2> SUFFICES ASSUME IInv, ChainInv, NEW s \in RequestSeqs(Len(log)), Broken(log, s, Len(log))
                 PROVE  Meddled(s, Len(log))
      BY DEF ChainIntact
    <2>1. Len(log) \in Nat /\ s \in 1..Len(log) /\ s \in Seqs /\ log[s] \in Messages
      BY LenProperties, ElementOfSeq DEF RequestSeqs, IInv, TypeOK, RequestsBounded
    <2>2. Asked(s)
      BY <2>1, MessageKinds DEF RequestSeqs, Asked
    <2>3. Len(log) \in s..Len(log)
      BY <2>1
    <2>4. QED
      BY <2>1, <2>2, <2>3 DEF ChainInv, Chain
  <1>2. QED
    BY <1>1, Invariance, ChainInvariance, PTL

\* The subscription never meets a ProtocolError of the Workers' own making: what
\* it cannot read is no llm.v1 message, or follows an output no Worker sends.
THEOREM OwnOutputsNeverFault == Spec => []ReaderNeverFaults
  <1>1. IInv /\ ViewInv /\ ChainInv => ReaderNeverFaults
    <2> SUFFICES ASSUME IInv, ViewInv, ChainInv, Receiving, cursor > lastSeen,
                        NEW m, m = log[cursor], Faulty(m), m # Invalid, NEW s, s = m.ref
                 PROVE  Meddled(s, cursor)
      BY DEF ReaderNeverFaults
    <2>1. /\ proc = "live" /\ cursor \in 1..Len(log) /\ cursor = Seen + 1
          /\ Seen \in Nat /\ Len(log) \in Nat
      BY ReadSeqs DEF Receiving, IInv, TypeOK, ReaderInv, Seen
    <2>2. IsOutput(m) /\ ~Skipped(m) /\ Matched(m)
      BY DEF Faulty, Skipped
    <2>3. /\ s \in Seqs /\ Tracked(s) /\ log[s].key = m.key /\ requests[s].terminal = 0
      BY <2>2 DEF Matched
    <2>4. Asked(s) /\ s \in RequestSeqs(Seen)
      <3>1. Asked(s) /\ s <= Seen
        BY <2>3 DEF IInv, ThreadInv
      <3>2. log[s] \in Messages
        BY <3>1, ElementOfSeq DEF IInv, TypeOK, Asked
      <3>3. QED
        BY <3>1, <3>2, MessageKinds DEF Asked, RequestSeqs
    <2>5. /\ ~Broken(log, s, Seen) /\ Winner(log, s, Seen) = 0
          /\ requests[s].chain = ChainTail(log, s, Seen) /\ s \in Nat /\ s <= Seen
      BY <2>3, <2>4, ReadSeqs DEF ViewInv, View
    <2>6. ChainTail(log, s, Seen) = 0 <=> FirstResult(log, s, Seen) = 0
      BY <2>1, <2>5, ReadNext
    <2>7. Misfits(log, s, Seen)
      <3>1. m.kind = "result" /\ ~log[s].streaming /\ ~m.body => requests[s].chain = 0
        BY <2>2 DEF Skipped
      <3>2. Hit(log, s, Seen + 1, m.kind)
        BY <2>1, <2>3, <2>5 DEF Hit
      <3>3. QED
        BY <2>1, <2>5, <2>6, <3>1, <3>2 DEF Faulty, Misfits
    <2>8. Broken(log, s, cursor)
      BY <2>1, <2>5, <2>7, ReadNext
    <2>9. cursor \in s..Len(log)
      BY <2>1, <2>5
    <2>10. QED
      BY <2>3, <2>4, <2>8, <2>9 DEF ChainInv, Chain
  <1>2. QED
    BY <1>1, Invariance, ViewInvariance, ChainInvariance, PTL

-----------------------------------------------------------------------------
(***************************************************************************)
(* What is over: a request that a thread has done with is decided in the   *)
(* log, unless somebody else wrote into its call.                          *)
(***************************************************************************)
Decided(s) == Winner(log, s, Len(log)) # 0 \/ Meddled(s, Len(log))

Waits(s) ==
    \/ \E i \in 1..Len(pending) : pending[i] = s
    \/ \E i \in 1..Len(controls) : controls[i][1] = s

Over(s) ==
    /\ agent[s].pc = "publish" /\ agent[s].ack # 0 /\ Terminal(agent[s].event) => Decided(s)
    /\ agent[s].pc = "finally" /\ ~stopped => requests[s].terminal # 0 \/ Decided(s)
    /\ requests[s].phase = "done" /\ ~stopped => Decided(s)
    /\ proc = "live" /\ ~stopped /\ requests[s].phase = "pending" => Waits(s)
    /\ agent[s].role \in {"provider", "control"} => proc = "live"

TargetInv ==
    proc = "live" => target <= Len(log) /\ \A s \in RequestSeqs(target) : Decided(s)

OverInv == (\A s \in Seqs : Over(s)) /\ TargetInv

\* A call that was decided among the first messages is decided.
LEMMA WinnerStays ==
    ASSUME NEW lg, NEW s \in Nat, NEW n \in Nat, NEW k \in Nat, s <= n, n <= k, Winner(lg, s, n) # 0
    PROVE  Winner(lg, s, k) # 0
  <1>1. ASSUME NEW kind
        PROVE  /\ Matching(lg, s, n, kind) \subseteq Matching(lg, s, k, kind)
               /\ \A i \in Matching(lg, s, k, kind) : i <= n => i \in Matching(lg, s, n, kind)
    BY DEF Matching
  <1>2. \A m \in {n, k} : Winner(lg, s, m) = 0 <=> Deciding(lg, s, m) = {}
    <2> SUFFICES ASSUME NEW m \in {n, k} PROVE Winner(lg, s, m) = 0 <=> Deciding(lg, s, m) = {}
      OBVIOUS
    <2>1. m \in Nat /\ s <= m
      OBVIOUS
    <2>2. FirstResult(lg, s, m) \in 0..m
      BY <2>1, FirstNext
    <2>3. Matching(lg, s, m, "end") \subseteq 1..m /\ Matching(lg, s, m, "cancel") \subseteq 1..m
      BY <2>1, MatchingNext
    <2>4. Deciding(lg, s, m) \subseteq 1..m
      <3>1. FirstResult(lg, s, m) # 0 => FirstResult(lg, s, m) \in 1..m
        BY <2>1, <2>2
      <3>2. QED
        BY <2>3, <3>1 DEF Deciding
    <2>5. Winner(lg, s, m) = Earliest(Deciding(lg, s, m))
      BY DEF Winner, Deciding
    <2>6. QED
      BY <2>1, <2>4, <2>5, ExtremesNext
  <1>3. CASE lg[s].streaming /\ (Matching(lg, s, n, "end") # {} \/ Matching(lg, s, n, "cancel") # {})
    BY <1>1, <1>2, <1>3 DEF Deciding
  <1>4. CASE FirstResult(lg, s, n) # 0 /\ lg[FirstResult(lg, s, n)].body
    <2> DEFINE S == Matching(lg, s, n, "result")
               T == Matching(lg, s, k, "result")
    <2>1. S \subseteq Nat /\ T \subseteq Nat /\ IsFiniteSet(S) /\ IsFiniteSet(T) /\ S \subseteq T
          /\ S \subseteq 1..n /\ \A i \in T : i <= n => i \in S
      <3>1. S \subseteq 1..n /\ IsFiniteSet(S) /\ T \subseteq 1..k /\ IsFiniteSet(T)
        BY MatchingSeqs
      <3>2. QED
        BY <1>1, <3>1
    <2>2. S # {}
      BY <1>4 DEF FirstResult, Earliest
    <2> HIDE DEF S, T
    <2>3. /\ Earliest(S) \in S /\ \A j \in S : Earliest(S) <= j
          /\ Earliest(T) \in T /\ \A j \in T : Earliest(T) <= j
      <3>1. T # {}
        BY <2>1, <2>2
      <3>2. (\E i \in S : \A j \in S : i <= j) /\ (\E i \in T : \A j \in T : i <= j)
        BY <2>1, <2>2, <3>1, Extremes
      <3>3. QED
        BY <2>2, <3>1, <3>2 DEF Earliest
    <2>4. Earliest(T) = Earliest(S)
      <3>1. Earliest(S) \in T /\ Earliest(S) \in 1..n /\ Earliest(T) \in Nat
        BY <2>1, <2>3
      <3>2. Earliest(T) <= Earliest(S)
        BY <2>3, <3>1
      <3>3. Earliest(T) <= n
        BY <3>1, <3>2
      <3>4. Earliest(S) <= Earliest(T)
        BY <2>1, <2>3, <3>3
      <3>5. QED
        BY <3>1, <3>4, <3>2
    <2>5. FirstResult(lg, s, k) = FirstResult(lg, s, n)
      BY <2>4 DEF FirstResult, S, T
    <2>6. Deciding(lg, s, k) # {}
      BY <1>4, <2>5 DEF Deciding
    <2>7. QED
      BY <1>2, <2>6
  <1>5. QED
    BY <1>2, <1>3, <1>4 DEF Deciding

\* What is decided stays so.
LEMMA DecidedGrows ==
    ASSUME IInv, NEW m \in Messages, log' = Append(log, m), NEW s \in Seqs, Asked(s), Decided(s)
    PROVE  Decided(s)'
  <1>1. /\ s \in Nat /\ s <= Len(log) /\ Len(log) \in Nat /\ Len(log') = Len(log) + 1
    BY OldReading
  <1>2. CASE Meddled(s, Len(log))
    BY <1>2, MeddledGrows DEF Decided
  <1>3. CASE Winner(log, s, Len(log)) # 0
    <2>1. Len(log) \in s..Len(log)
      BY <1>1
    <2>2. Winner(log', s, Len(log)) # 0
      BY <1>3, <2>1, OldReading
    <2>3. Winner(log', s, Len(log) + 1) # 0
      BY <1>1, <2>2, WinnerStays
    <2>4. QED
      BY <1>1, <2>3 DEF Decided
  <1>4. QED
    BY <1>2, <1>3 DEF Decided

\* Whether a request is decided depends on the log alone.
LEMMA DecidedFixed ==
    ASSUME log' = log
    PROVE  \A s : Decided(s)' <=> Decided(s)
  <1>1. \A s, n : Meddled(s, n)' <=> Meddled(s, n)
    BY DEF Meddled, Foreign
  <1>2. ASSUME NEW s PROVE Decided(s)' <=> Decided(s)
    <2>1. Meddled(s, Len(log))' <=> Meddled(s, Len(log))
      BY <1>1
    <2>2. QED
      BY <2>1 DEF Decided
  <1>3. QED
    BY <1>2

\* A terminal output of a Worker decides its call, unless another member has
\* put a first result before it.
LEMMA TerminalDecides ==
    ASSUME IInv, OwnInv, NEW p \in inflight, log' = Append(log, p.event), Terminal(p.event),
           NEW s \in Seqs, s = p.event.ref
    PROVE  Decided(s)'
  <1> DEFINE L == Len(log)
             m == p.event
  <1>1. Asked(s) /\ Own(s, m) /\ m \in Messages /\ m \in Outputs
    BY DEF OwnInv, FlightInv, Own, Messages
  <1>2. /\ s \in Nat /\ s <= L /\ L \in Nat /\ Len(log') = L + 1
        /\ log'[L + 1] = m /\ log'[s] = log[s]
    BY <1>1, OldReading
  <1>3. \A i \in 1..L : log'[i] = log[i]
    BY <1>1, LogAppend DEF IInv, TypeOK
  <1>4. CASE Decides(log', s, L)
    <2>1. Winner(log', s, L + 1) # 0
      <3>1. Winner(log', s, L + 1) = IF Winner(log', s, L) = 0 /\ Decides(log', s, L)
                                     THEN L + 1 ELSE Winner(log', s, L)
        BY <1>2, WinnerNext
      <3>2. QED
        BY <1>2, <1>4, <3>1
    <2>2. QED
      BY <1>2, <2>1 DEF Decided
  <1>5. CASE ~Decides(log', s, L)
    <2>1. m.key = log[s].key /\ m.ref = s /\ s < L + 1
      BY <1>1, <1>2 DEF Own
    <2>2. m.kind = "result" /\ m.body
      <3>1. m.kind \in {"result", "append", "end"}
        BY <1>1 DEF Outputs, Results, Appends, Ends
      <3>2. m.kind = "end" => log[s].streaming
        BY <1>1 DEF Own
      <3>3. QED
        BY <1>2, <1>5, <2>1, <3>1, <3>2 DEF Decides, Hit, Terminal
    <2> DEFINE f == FirstResult(log', s, L)
    <2>3. f # 0 /\ f \in Matching(log', s, L, "result") /\ Matching(log', s, L, "result") \subseteq 1..L
      <3>1. f # 0
        BY <1>2, <1>5, <2>1, <2>2 DEF Decides, Hit
      <3>2. Matching(log', s, L, "result") \subseteq 1..L /\ IsFiniteSet(Matching(log', s, L, "result"))
        BY <1>2, MatchingSeqs
      <3>3. f \in Matching(log', s, L, "result") \cup {0}
        BY <3>2, Chosen DEF FirstResult
      <3>4. QED
        BY <3>1, <3>2, <3>3
    <2> HIDE DEF f
    <2>4. /\ f \in (s + 1)..L /\ f \in 1..L /\ log[f].kind = "result" /\ log[f].ref = s
      BY <1>2, <1>3, <2>3 DEF Matching
    <2>5. log[f] \in Results
      BY <2>4, ElementOfSeq, MessageKinds DEF IInv, TypeOK
    <2>6. Own(s, log[f]) \/ log[f] = Foreign(s) \/ log[f] = ForeignOutcome(s)
      BY <2>4, <2>5 DEF OwnInv, OutputInv, Outputs, Alien
    <2>7. CASE log[f] = Foreign(s)
      <3>1. Meddled(s, Len(log))
        BY <2>4, <2>7 DEF Meddled
      <3>2. QED
        BY <1>1, <3>1, DecidedGrows DEF Decided
    <2>8. CASE Own(s, log[f]) /\ ~log[f].body
      <3>1. log[s].streaming /\ First(s)
        BY <2>4, <2>8 DEF Own, Linking
      <3>2. QED
        BY <1>1, <2>2, <3>1 DEF Own
    <2>9. CASE log[f].body
      <3>1. log'[f].body
        BY <1>3, <2>4, <2>9
      <3>2. f \in Deciding(log', s, L)
        BY <2>3, <3>1 DEF Deciding, f
      <3>3. Winner(log', s, L) # 0
        <4>1. Deciding(log', s, L) \subseteq 1..L
          <5>1. Matching(log', s, L, "end") \subseteq 1..L /\ Matching(log', s, L, "cancel") \subseteq 1..L
            BY <1>2, MatchingSeqs
          <5>2. f \in 1..L
            BY <2>4
          <5>3. QED
            BY <5>1, <5>2 DEF Deciding, f
        <4>2. Winner(log', s, L) = Earliest(Deciding(log', s, L))
          BY DEF Winner, Deciding
        <4>3. Earliest(Deciding(log', s, L)) = 0 <=> Deciding(log', s, L) = {}
          BY <1>2, <4>1, ExtremesNext
        <4>4. QED
          BY <3>2, <4>2, <4>3
      <3>4. Winner(log', s, L + 1) # 0
        BY <1>2, <3>3, WinnerStays
      <3>5. QED
        BY <1>2, <3>4 DEF Decided
    <2>10. ForeignOutcome(s).kind = "result" => ForeignOutcome(s).body
      BY DEF ForeignOutcome, End, Result
    <2>11. QED
      BY <2>4, <2>5, <2>6, <2>7, <2>8, <2>9, <2>10 DEF Results
  <1>6. QED
    BY <1>4, <1>5

\* The threads and records are as before, or the Worker has stopped.
LEMMA OverSame ==
    ASSUME OverInv, log' = log, proc' = proc, target' = target, pending' = pending,
           controls' = controls, stopped => stopped',
           \A t \in Seqs :
              /\ agent'[t].pc \in {"publish", "finally"} => agent'[t] = agent[t]
              /\ agent'[t].role \in {"provider", "control"} => agent[t].role = agent'[t].role
              /\ stopped' \/ requests'[t] = requests[t]
    PROVE  OverInv'
  <1>1. \A t : Decided(t)' <=> Decided(t)
    BY DecidedFixed
  <1>2. ASSUME NEW t \in Seqs PROVE Over(t)'
    <2>1. Waits(t)' <=> Waits(t)
      BY DEF Waits
    <2>2. Over(t)
      BY DEF OverInv
    <2>3. QED
      BY <1>1, <2>1, <2>2 DEF Over
  <1>3. TargetInv'
    <2>1. RequestSeqs(target)' = RequestSeqs(target)
      BY DEF RequestSeqs
    <2>2. QED
      BY <1>1, <2>1 DEF OverInv, TargetInv
  <1>4. QED
    BY <1>2, <1>3 DEF OverInv

\* One thread moves.
LEMMA OverMove ==
    ASSUME OverInv, log' = log, proc' = proc, target' = target, pending' = pending,
           controls' = controls, stopped' = stopped, NEW s \in Seqs,
           \A t \in Seqs \ {s} : agent'[t] = agent[t] /\ requests'[t] = requests[t],
           agent'[s].pc = "publish" => agent'[s].ack = 0,
           agent'[s].pc = "finally" /\ ~stopped => requests'[s].terminal # 0 \/ Decided(s),
           requests'[s].phase = "done" /\ ~stopped => Decided(s),
           requests'[s].phase = "pending" => requests[s].phase = "pending",
           agent'[s].role \in {"provider", "control"} => agent[s].role = agent'[s].role
    PROVE  OverInv'
  <1>1. \A t : Decided(t)' <=> Decided(t)
    BY DecidedFixed
  <1>2. ASSUME NEW t \in Seqs PROVE Over(t)'
    <2>1. Waits(t)' <=> Waits(t)
      BY DEF Waits
    <2>2. Over(t)
      BY DEF OverInv
    <2>3. CASE t = s
      BY <1>1, <2>1, <2>2, <2>3 DEF Over
    <2>4. CASE t # s
      BY <1>1, <2>1, <2>2, <2>4 DEF Over
    <2>5. QED
      BY <2>3, <2>4
  <1>3. TargetInv'
    <2>1. RequestSeqs(target)' = RequestSeqs(target)
      BY DEF RequestSeqs
    <2>2. QED
      BY <1>1, <2>1 DEF OverInv, TargetInv
  <1>4. QED
    BY <1>2, <1>3 DEF OverInv

\* Once a task may no longer output, the Worker stops or its request is decided.
LEMMA CallOver ==
    ASSUME IInv, TaskInvs, OwnInv, OverInv, NEW s \in Seqs,
           TaskBegin(s) \/ TaskInstall(s) \/ TaskStart(s) \/ ProviderCancelled(s)
    PROVE  OverInv'
  <1> USE DEF server, process, reader, queues
  <1>1. /\ agent \in [Seqs -> Agents] /\ requests \in [Seqs -> RequestState]
        /\ agent[s] \in Agents /\ requests[s] \in RequestState
    BY DEF IInv, TypeOK
  <1>2. /\ UNCHANGED <<log, proc, target, pending, controls, stopped>>
        /\ \A t \in Seqs \ {s} : agent'[t] = agent[t] /\ requests'[t] = requests[t]
    BY <1>1 DEF TaskBegin, TaskInstall, TaskStart, ProviderCancelled, Goto, Finish
  <1>3. /\ requests'[s].phase = requests[s].phase
        /\ requests'[s].terminal = requests[s].terminal
    BY <1>1 DEF TaskBegin, TaskInstall, TaskStart, ProviderCancelled, RequestState
  <1>4. agent[s].role = "provider" /\ requests[s].phase = "running"
    BY DEF TaskBegin, TaskInstall, TaskStart, ProviderCancelled, At, TaskInvs, TaskInv
  <1>5. \/ agent'[s].pc \in {"install", "start", "iterate"}
        \/ ~CanOutput(s) /\ agent'[s] = Last(agent[s])
    <2>1. ProviderCancelled(s) => ~CanOutput(s)
      BY DEF ProviderCancelled, TaskInvs, TaskInv
    <2>2. QED
      BY <1>1, <2>1 DEF TaskBegin, TaskInstall, TaskStart, ProviderCancelled, Goto, Finish, Agents
  <1>6. agent'[s].role \in {"provider", "control"} => agent'[s].role = agent[s].role
    <2>1. Last(agent[s]).role = agent[s].role
      BY <1>1, AgentTypes
    <2>2. QED
      BY <1>1, <2>1 DEF TaskBegin, TaskInstall, TaskStart, ProviderCancelled, Goto, Finish, Agents
  <1>7. agent'[s].pc # "publish"
    BY <1>5, LastOwn
  <1>8. agent'[s].pc = "finally" /\ ~stopped => requests'[s].terminal # 0
    BY <1>3, <1>5 DEF CanOutput
  <1>9. QED
    BY <1>2, <1>3, <1>4, <1>6, <1>7, <1>8, OverMove

\* A step of the Provider finishes nothing.
LEMMA ProviderOver ==
    ASSUME IInv, TaskInvs, OverInv, NEW s \in Seqs, ProviderStep(s) \/ Oversize(s)
    PROVE  OverInv'
  <1> USE DEF server, process, reader, queues
  <1>1. /\ agent \in [Seqs -> Agents] /\ agent[s] \in Agents
    BY DEF IInv, TypeOK
  <1>2. PICK e : EmitOrEnd(s, e)
    BY DEF ProviderStep, Yield, ProviderFail, Oversize
  <1>3. /\ UNCHANGED <<log, proc, target, pending, controls, stopped, requests>>
        /\ \A t \in Seqs \ {s} : agent'[t] = agent[t]
    BY <1>1, <1>2 DEF EmitOrEnd
  <1>4. agent[s].role = "provider" /\ requests[s].phase = "running"
    BY DEF ProviderStep, Yield, ProviderFail, Oversize, At, TaskInvs, TaskInv
  <1>5. \/ agent'[s].pc = "emit" /\ agent'[s].role = agent[s].role
        \/ ~CanOutput(s) /\ agent'[s] = Last(agent[s])
    <2>1. CASE CanOutput(s)
      <3>1. agent'[s] = [agent[s] EXCEPT !.pc = "emit", !.event = e]
        BY <1>1, <1>2, <2>1 DEF EmitOrEnd
      <3>2. QED
        BY <1>1, <3>1 DEF Agents
    <2>2. CASE ~CanOutput(s)
      BY <1>1, <1>2, <2>2 DEF EmitOrEnd
    <2>3. QED
      BY <2>1, <2>2
  <1>6. Last(agent[s]).role = agent[s].role
    BY <1>1, AgentTypes
  <1>7. agent'[s].pc # "publish" /\ agent'[s].role = agent[s].role
    BY <1>5, <1>6, LastOwn
  <1>8. agent'[s].pc = "finally" /\ ~stopped => requests'[s].terminal # 0
    BY <1>3, <1>5 DEF CanOutput
  <1>9. QED
    BY <1>3, <1>4, <1>7, <1>8, OverMove

\* A thread whose terminal event is acknowledged has its request decided.
LEMMA PublishOver ==
    ASSUME IInv, TaskInvs, OwnInv, OverInv, NEW s \in Seqs,
           PublishStart(s) \/ PublishReturn(s) \/ PublishFail(s)
    PROVE  OverInv'
  <1> USE DEF server, process, reader, queues
  <1>1. /\ agent \in [Seqs -> Agents] /\ requests \in [Seqs -> RequestState]
        /\ agent[s] \in Agents /\ requests[s] \in RequestState
        /\ EventInv(s) /\ TaskInv(s) /\ Over(s)
    BY DEF IInv, TypeOK, OwnInv, OverInv, TaskInvs
  <1>2. /\ UNCHANGED <<log, proc, target, pending, controls>>
        /\ \A t \in Seqs \ {s} : agent'[t] = agent[t]
    BY <1>1 DEF PublishStart, PublishReturn, PublishFail, Fail, Goto, Finish
  <1>3. Last(agent[s]).role = agent[s].role
    BY <1>1, AgentTypes
  <1>4. agent[s].pc \in {"emit", "publish"} /\ agent[s].event \in Outputs
    BY DEF PublishStart, PublishReturn, PublishFail, IInv, ThreadInv
  <1>5. agent[s].role # "provider" => Terminal(agent[s].event)
    BY <1>1, <1>4, LinkingOrTerminal DEF EventInv
  <1>6. CASE PublishStart(s)
    <2>1. stopped' = stopped /\ requests' = requests
      BY <1>6 DEF PublishStart
    <2>2. \/ agent'[s].pc = "publish" /\ agent'[s].ack = agent[s].ack /\ agent'[s].role = agent[s].role
          \/ ~CanOutput(s) /\ agent'[s] = Last(agent[s])
      BY <1>1, <1>6 DEF PublishStart, Goto, Finish, Agents
    <2>3. agent[s].ack = 0
      BY <1>1, <1>6 DEF PublishStart, EventInv
    <2>4. agent'[s].pc = "publish" => agent'[s].ack = 0
      BY <2>2, <2>3, LastOwn
    <2>5. agent'[s].pc = "finally" /\ ~stopped => requests'[s].terminal # 0
      BY <2>1, <2>2 DEF CanOutput
    <2>6. requests'[s].phase = "done" /\ ~stopped => Decided(s)
      BY <1>1, <2>1 DEF Over
    <2>7. agent'[s].role = agent[s].role
      BY <1>3, <2>2
    <2>8. QED
      BY <1>2, <2>1, <2>4, <2>5, <2>6, <2>7, OverMove
  <1>7. CASE PublishFail(s)
    <2>1. stopped' /\ agent'[s] = Last(agent[s])
      BY <1>1, <1>7 DEF PublishFail, Fail, Finish
    <2>2. agent'[s].pc \in {"finally", "idle"} /\ agent'[s].role = agent[s].role
      BY <1>3, <2>1, LastOwn
    <2>3. \A t \in Seqs : Over(t)'
      <3>1. \A t : Decided(t)' <=> Decided(t)
        BY <1>2, DecidedFixed
      <3>2. ASSUME NEW t \in Seqs \ {s} PROVE Over(t)'
        BY <1>2, <2>1, <3>1 DEF OverInv, Over
      <3>3. Over(s)'
        BY <1>1, <1>2, <2>1, <2>2 DEF Over
      <3>4. QED
        BY <3>2, <3>3
    <2>4. TargetInv'
      <3>1. RequestSeqs(target)' = RequestSeqs(target) /\ \A t : Decided(t)' <=> Decided(t)
        BY <1>2, DecidedFixed DEF RequestSeqs
      <3>2. QED
        BY <1>2, <3>1 DEF OverInv, TargetInv
    <2>5. QED
      BY <2>3, <2>4 DEF OverInv
  <1>8. CASE PublishReturn(s)
    <2>1. agent[s].pc = "publish" /\ agent[s].ack # 0 /\ stopped' = stopped
      BY <1>8 DEF PublishReturn
    <2>2. Terminal(agent[s].event) => Decided(s)
      BY <1>1, <2>1 DEF Over
    <2>3. CASE agent[s].role = "recovery"
      <3>1. agent'[s] = Idle /\ requests' = [requests EXCEPT ![s].phase = "done"]
        BY <1>1, <1>8, <2>3 DEF PublishReturn
      <3>2. /\ agent'[s].pc = "idle" /\ agent'[s].role = "none"
            /\ requests'[s].phase = "done"
            /\ \A t \in Seqs \ {s} : requests'[t] = requests[t]
        BY <1>1, <3>1, NewAgentTypes DEF RequestState
      <3>3. Decided(s)
        BY <1>5, <2>2, <2>3
      <3>4. QED
        BY <1>2, <2>1, <3>2, <3>3, OverMove
    <2>4. CASE agent[s].role = "provider" /\ ~Terminal(agent[s].event)
      <3>1. agent'[s] = Acked(agent[s]) /\ requests' = requests
        BY <1>1, <1>8, <2>4 DEF PublishReturn
      <3>2. agent'[s].pc = "iterate" /\ agent'[s].role = "provider"
        BY <1>1, <3>1, AgentTypes
      <3>3. requests'[s].phase = "done" /\ ~stopped => Decided(s)
        BY <1>1, <3>1 DEF Over
      <3>4. QED
        BY <1>2, <2>1, <2>4, <3>1, <3>2, <3>3, OverMove
    <2>5. CASE agent[s].role # "recovery" /\ (agent[s].role # "provider" \/ Terminal(agent[s].event))
      <3>1. agent'[s] = Last(agent[s]) /\ requests' = requests
        BY <1>1, <1>8, <2>5 DEF PublishReturn
      <3>2. agent'[s].pc \in {"finally", "idle"} /\ agent'[s].role = agent[s].role
        BY <1>3, <3>1, LastOwn
      <3>3. Decided(s)
        BY <1>5, <2>2, <2>5
      <3>4. QED
        BY <1>2, <2>1, <3>1, <3>2, <3>3, OverMove
    <2>6. QED
      BY <2>3, <2>4, <2>5
  <1>9. QED
    BY <1>6, <1>7, <1>8

\* A thread ends: a record that is kept is that of a decided request.
LEMMA FinallyOver ==
    ASSUME IInv, OverInv, NEW s \in Seqs, TaskFinally(s) \/ ControlFinally(s)
    PROVE  OverInv'
  <1> USE DEF server, process, reader, queues
  <1>1. /\ agent \in [Seqs -> Agents] /\ requests \in [Seqs -> RequestState]
        /\ requests[s] \in RequestState /\ Over(s)
    BY DEF IInv, TypeOK, OverInv
  <1>2. /\ UNCHANGED <<log, proc, target, pending, controls, stopped>>
        /\ \A t \in Seqs \ {s} : agent'[t] = agent[t] /\ requests'[t] = requests[t]
        /\ agent'[s] = Idle /\ agent[s].pc = "finally"
    BY <1>1 DEF TaskFinally, ControlFinally, At
  <1>3. agent'[s].pc = "idle" /\ agent'[s].role = "none"
    BY <1>2, NewAgentTypes
  <1>4. ASSUME NEW r \in RequestState, r.phase = "done", r.terminal = requests[s].terminal,
               requests'[s] = Retired(r)
        PROVE  /\ requests'[s].phase # "pending"
               /\ requests'[s].phase = "done" => requests[s].terminal = 0
    BY <1>4 DEF Retired, Absent
  <1>5. /\ requests'[s].phase # "pending"
        /\ requests'[s].phase = "done" => requests[s].terminal = 0
    <2>1. CASE TaskFinally(s)
      <3> DEFINE r == [requests[s] EXCEPT !.op = "none", !.body = FALSE, !.phase = "done"]
      <3>1. requests'[s] = Retired(r)
        BY <1>1, <2>1 DEF TaskFinally
      <3>2. r \in RequestState /\ r.phase = "done" /\ r.terminal = requests[s].terminal
        BY <1>1 DEF RequestState, Phases, Operations
      <3>3. QED
        <4> HIDE DEF r
        <4> QED BY <1>4, <3>1, <3>2
    <2>2. CASE ControlFinally(s)
      <3> DEFINE r == [requests[s] EXCEPT !.phase = "done"]
      <3>1. requests'[s] = Retired(r)
        BY <1>1, <2>2 DEF ControlFinally
      <3>2. r \in RequestState /\ r.phase = "done" /\ r.terminal = requests[s].terminal
        BY <1>1 DEF RequestState, Phases
      <3>3. QED
        <4> HIDE DEF r
        <4> QED BY <1>4, <3>1, <3>2
    <2>3. QED
      BY <2>1, <2>2
  <1>6. requests'[s].phase = "done" /\ ~stopped => Decided(s)
    BY <1>1, <1>2, <1>5 DEF Over
  <1>7. QED
    BY <1>2, <1>3, <1>5, <1>6, OverMove

\* The log grows: what was over stays over.
LEMMA GrowthOver ==
    ASSUME IInv, OverInv, NEW m \in Messages, log' = Append(log, m),
           UNCHANGED <<proc, stopped, target, pending, controls, requests>>,
           \A t \in Seqs :
              /\ agent'[t].pc = agent[t].pc /\ agent'[t].role = agent[t].role
              /\ agent'[t].event = agent[t].event
              /\ \/ agent'[t].ack = agent[t].ack
                 \/ Terminal(agent[t].event) => Decided(t)'
    PROVE  OverInv'
  <1>1. \A t \in Seqs : Asked(t) /\ Decided(t) => Decided(t)'
    BY DecidedGrows
  <1>2. ASSUME NEW t \in Seqs PROVE Over(t)'
    <2>1. Waits(t)' <=> Waits(t)
      BY DEF Waits
    <2>2. Over(t) /\ (Tracked(t) \/ agent[t].pc # "idle" => Asked(t))
      BY DEF OverInv, IInv, ThreadInv
    <2>3. agent[t].pc = "publish" /\ agent[t].ack # 0 /\ Terminal(agent[t].event) => Decided(t)'
      BY <1>1, <2>2 DEF Over
    <2>4. agent[t].pc = "finally" /\ ~stopped => requests[t].terminal # 0 \/ Decided(t)'
      BY <1>1, <2>2 DEF Over
    <2>5. requests[t].phase = "done" /\ ~stopped => Decided(t)'
      BY <1>1, <2>2 DEF Over, Tracked
    <2>6. agent'[t].pc = "publish" /\ agent'[t].ack # 0 /\ Terminal(agent'[t].event) => Decided(t)'
      BY <2>3
    <2>7. QED
      BY <2>1, <2>2, <2>4, <2>5, <2>6 DEF Over
  <1>3. TargetInv'
    <2> SUFFICES ASSUME proc = "live"
                 PROVE  target' <= Len(log') /\ \A s \in RequestSeqs(target)' : Decided(s)'
      BY DEF TargetInv
    <2>1. /\ Len(log) \in Nat /\ Len(log') = Len(log) + 1 /\ target \in Nat /\ target <= Len(log)
          /\ \A i \in 1..Len(log) : log'[i] = log[i]
      BY LogAppend, LenProperties DEF IInv, TypeOK, OverInv, TargetInv
    <2>2. RequestSeqs(target)' = RequestSeqs(target)
      BY <2>1 DEF RequestSeqs, IsRequest
    <2>3. ASSUME NEW s \in RequestSeqs(target) PROVE s \in Seqs /\ Asked(s) /\ Decided(s)
      <3>1. s \in 1..Len(log) /\ IsRequest(log[s])
        BY <2>1 DEF RequestSeqs
      <3>2. log[s] \in Messages
        BY <3>1, ElementOfSeq DEF IInv, TypeOK
      <3>3. Asked(s) /\ s \in Seqs
        BY <3>1, <3>2, MessageKinds DEF Asked, IInv, RequestsBounded
      <3>4. QED
        BY <3>3 DEF OverInv, TargetInv
    <2>4. QED
      BY <1>1, <2>1, <2>2, <2>3
  <1>4. QED
    BY <1>2, <1>3 DEF OverInv

\* Other members write, and publications commit.
LEMMA EnvironmentOver ==
    ASSUME IInv, OwnInv, OverInv, Environment
    PROVE  OverInv'
  <1>1. ASSUME NEW m \in Messages, Write(m) PROVE OverInv'
    <2>1. log' = Append(log, m) /\ UNCHANGED <<proc, stopped, target, pending, controls, requests, agent>>
      BY <1>1 DEF Write, worker, queues, process, reader
    <2>2. QED
      BY <2>1, GrowthOver
  <1>2. ASSUME NEW p \in inflight, Commit(p) PROVE OverInv'
    <2>1. /\ log' = Append(log, p.event)
          /\ UNCHANGED <<proc, stopped, target, pending, controls, requests>>
          /\ agent' = IF Waiting(p) THEN [agent EXCEPT ![p.event.ref].ack = Len(log) + 1] ELSE agent
          /\ p.event \in Messages /\ agent \in [Seqs -> Agents]
      BY <1>2 DEF Commit, IInv, TypeOK, Publications, Messages, queues, process, reader
    <2>2. ASSUME NEW t \in Seqs
          PROVE  /\ agent'[t].pc = agent[t].pc /\ agent'[t].role = agent[t].role
                 /\ agent'[t].event = agent[t].event
                 /\ agent'[t].ack = agent[t].ack \/ (Waiting(p) /\ p.event.ref = t)
      <3>1. CASE ~Waiting(p)
        BY <2>1, <3>1
      <3>2. CASE Waiting(p)
        <4>1. p.event.ref \in Seqs
          BY <3>2, OneWaiting
        <4>2. agent' = [agent EXCEPT ![p.event.ref].ack = Len(log) + 1]
          BY <2>1, <3>2
        <4>3. QED
          BY <2>1, <3>2, <4>1, <4>2 DEF Agents
      <3>3. QED
        BY <3>1, <3>2
    <2>3. ASSUME NEW t \in Seqs, Waiting(p), p.event.ref = t, Terminal(agent[t].event)
          PROVE  Decided(t)'
      <3>1. agent[t].event = p.event
        BY <2>3, OneWaiting
      <3>2. QED
        BY <2>1, <2>3, <3>1, TerminalDecides
    <2>4. QED
      BY <2>1, <2>2, <2>3, GrowthOver
  <1>3. QED
    BY <1>1, <1>2, EnvironmentCases

\* The head of a queue is taken.
LEMMA TakenOver ==
    ASSUME IInv, OverInv, proc = "live", UNCHANGED <<log, proc, stopped, target>>,
           NEW s \in Seqs,
           \A t \in Seqs \ {s} : /\ agent'[t] = agent[t] /\ requests'[t] = requests[t]
                                 /\ Waits(t) => Waits(t)',
           \/ requests'[s] = requests[s] /\ agent'[s] = agent[s] /\ requests[s].phase = "absent"
           \/ requests'[s].phase = "running" /\ agent'[s].pc \in {"begin", "emit"}
    PROVE  OverInv'
  <1>1. \A t : Decided(t)' <=> Decided(t)
    BY DecidedFixed
  <1>2. ASSUME NEW t \in Seqs PROVE Over(t)'
    <2>1. Over(t)
      BY DEF OverInv
    <2>2. CASE t = s
      BY <1>1, <2>1, <2>2 DEF Over
    <2>3. CASE t # s
      BY <1>1, <2>1, <2>3 DEF Over
    <2>4. QED
      BY <2>2, <2>3
  <1>3. TargetInv'
    <2>1. RequestSeqs(target)' = RequestSeqs(target)
      BY DEF RequestSeqs
    <2>2. QED
      BY <1>1, <2>1 DEF OverInv, TargetInv
  <1>4. QED
    BY <1>2, <1>3 DEF OverInv

\* A queue that loses its head keeps its other entries.
LEMMA TailKeeps ==
    ASSUME NEW S, NEW q \in Seq(S), q # <<>>, NEW i \in 1..Len(q), i # 1
    PROVE  i - 1 \in 1..Len(Tail(q)) /\ Tail(q)[i - 1] = q[i]
  <1>1. Len(Tail(q)) = Len(q) - 1 /\ Len(q) \in Nat
    BY TakeHead
  <1>2. i - 1 \in 1..Len(Tail(q))
    BY <1>1
  <1>3. QED
    BY <1>2, TakeHead

\* A request leaves the queue to get a task.
LEMMA ScheduleOver ==
    ASSUME IInv, OverInv, Schedule
    PROVE  OverInv'
  <1> DEFINE s == Head(pending)
  <1>1. /\ pending \in Seq(Seqs) /\ pending # <<>> /\ pending' = Tail(pending)
        /\ controls' = controls /\ proc = "live"
        /\ requests \in [Seqs -> RequestState] /\ agent \in [Seqs -> Agents]
        /\ UNCHANGED <<log, proc, stopped, target>>
    BY DEF Schedule, IInv, TypeOK, server, process, reader
  <1>2. s = pending[1] /\ s \in Seqs
    BY <1>1, TakeHead
  <1>3. ASSUME NEW t \in Seqs \ {s}, Waits(t) PROVE Waits(t)'
    <2>1. CASE \E i \in 1..Len(pending) : pending[i] = t
      <3>1. PICK i \in 1..Len(pending) : pending[i] = t
        BY <2>1
      <3>2. i # 1
        BY <1>2, <3>1
      <3>3. i - 1 \in 1..Len(pending') /\ pending'[i - 1] = t
        BY <1>1, <3>1, <3>2, TailKeeps
      <3>4. QED
        BY <3>3 DEF Waits
    <2>2. CASE \E i \in 1..Len(controls) : controls[i][1] = t
      BY <1>1, <2>2 DEF Waits
    <2>3. QED
      BY <1>3, <2>1, <2>2 DEF Waits
  <1>4. CASE ~Tracked(s)
    <2>1. UNCHANGED <<requests, agent>>
      BY <1>4 DEF Schedule
    <2>2. QED
      BY <1>1, <1>2, <1>3, <1>4, <2>1, TakenOver DEF Tracked
  <1>5. CASE Tracked(s)
    <2>1. /\ requests' = [requests EXCEPT ![s] = [requests[s] EXCEPT !.phase = "running"]]
          /\ agent' = [agent EXCEPT ![s] = Task]
      BY <1>5 DEF Schedule
    <2>2. agent'[s].pc = "begin"
      BY <1>1, <1>2, <2>1 DEF Task, Idle
    <2>3. requests'[s].phase = "running"
      BY <1>1, <1>2, <2>1 DEF RequestState
    <2>4. \A t \in Seqs \ {s} : agent'[t] = agent[t] /\ requests'[t] = requests[t]
      BY <1>1, <2>1
    <2>5. QED
      BY <1>1, <1>2, <1>3, <2>2, <2>3, <2>4, TakenOver
  <1>6. QED
    BY <1>4, <1>5

\* A request leaves the queue of rejections to get a thread.
LEMMA ControlOver ==
    ASSUME IInv, OverInv, ControlBegin
    PROVE  OverInv'
  <1> DEFINE s == Head(controls)[1]
             e == ErrorEvent(s, Head(controls)[2], FALSE, TRUE)
  <1>1. /\ controls \in Seq(Seqs \X Codes) /\ controls # <<>> /\ controls' = Tail(controls)
        /\ pending' = pending /\ proc = "live"
        /\ requests \in [Seqs -> RequestState] /\ agent \in [Seqs -> Agents]
        /\ UNCHANGED <<log, proc, stopped, target>>
    BY DEF ControlBegin, IInv, TypeOK, server, process, reader
  <1>2. s = controls[1][1] /\ s \in Seqs
    <2>1. Head(controls) = controls[1] /\ Head(controls) \in Seqs \X Codes
      BY <1>1, TakeHead
    <2>2. QED
      BY <2>1
  <1>3. ASSUME NEW t \in Seqs \ {s}, Waits(t) PROVE Waits(t)'
    <2>1. CASE \E i \in 1..Len(controls) : controls[i][1] = t
      <3>1. PICK i \in 1..Len(controls) : controls[i][1] = t
        BY <2>1
      <3>2. i # 1
        BY <1>2, <3>1
      <3>3. i - 1 \in 1..Len(controls') /\ controls'[i - 1] = controls[i]
        BY <1>1, <3>2, TailKeeps
      <3>4. QED
        BY <3>1, <3>3 DEF Waits
    <2>2. CASE \E i \in 1..Len(pending) : pending[i] = t
      BY <1>1, <2>2 DEF Waits
    <2>3. QED
      BY <1>3, <2>1, <2>2 DEF Waits
  <1>4. CASE ~Tracked(s)
    <2>1. UNCHANGED <<requests, agent>>
      BY <1>4 DEF ControlBegin
    <2>2. QED
      BY <1>1, <1>2, <1>3, <1>4, <2>1, TakenOver DEF Tracked
  <1>5. CASE Tracked(s)
    <2>1. /\ requests' = [requests EXCEPT ![s] = [requests[s] EXCEPT !.phase = "running"]]
          /\ agent' = [agent EXCEPT ![s] = Emitting("control", e)]
      BY <1>5 DEF ControlBegin
    <2>2. agent'[s] = Emitting("control", e)
      BY <1>1, <1>2, <2>1
    <2>3. requests'[s].phase = "running"
      BY <1>1, <1>2, <2>1 DEF RequestState
    <2>4. \A t \in Seqs \ {s} : agent'[t] = agent[t] /\ requests'[t] = requests[t]
      BY <1>1, <2>1
    <2> HIDE DEF e
    <2>5. agent'[s].pc = "emit"
      BY <2>2 DEF Emitting, Idle
    <2>6. QED
      BY <1>1, <1>2, <1>3, <2>3, <2>4, <2>5, TakenOver
  <1>6. QED
    BY <1>4, <1>5

\* recover() closes a request.
LEMMA RecoverOver ==
    ASSUME IInv, OverInv, NEW s \in Seqs, RecoverRequest(s)
    PROVE  OverInv'
  <1> DEFINE e == ErrorEvent(s, Interrupted, TRUE, FALSE)
  <1>1. /\ UNCHANGED <<log, proc, stopped, target, pending, controls, requests>>
        /\ agent' = [agent EXCEPT ![s] = Emitting("recovery", e)] /\ agent \in [Seqs -> Agents]
    BY DEF RecoverRequest, IInv, TypeOK, server, process, reader, queues
  <1>2. agent'[s] = Emitting("recovery", e) /\ \A t \in Seqs \ {s} : agent'[t] = agent[t]
    BY <1>1
  <1> HIDE DEF e
  <1>3. agent'[s].pc = "emit" /\ agent'[s].role = "recovery"
    BY <1>2 DEF Emitting, Idle
  <1>4. \A t \in Seqs : /\ agent'[t].pc \in {"publish", "finally"} => agent'[t] = agent[t]
                        /\ agent'[t].role \in {"provider", "control"}
                              => agent[t].role = agent'[t].role
    BY <1>2, <1>3
  <1>5. QED
    BY <1>1, <1>4, OverSame

\* A message that is read moves one record on, or makes a record that waits.
LEMMA AcceptOver ==
    ASSUME IInv, OverInv, NEW h \in BOOLEAN, NEW i \in 1..Len(log), i = Seen + 1, proc # "down",
           Accept(i, h), proc = "live" => ~h, UNCHANGED <<log, proc, stopped, target, agent>>
    PROVE  OverInv'
  <1> USE DEF queues
  <1>1. \A t : Decided(t)' <=> Decided(t)
    BY DecidedFixed
  <1>2. TargetInv'
    <2>1. RequestSeqs(target)' = RequestSeqs(target)
      BY DEF RequestSeqs
    <2>2. QED
      BY <1>1, <2>1 DEF OverInv, TargetInv
  <1>3. ASSUME NEW t \in Seqs, requests'[t] = requests[t], Waits(t) => Waits(t)' PROVE Over(t)'
    BY <1>1, <1>3 DEF OverInv, Over
  <1>4. requests \in [Seqs -> RequestState]
    BY DEF IInv, TypeOK
  <1>5. CASE UNCHANGED <<requests, queues>>
    <2>1. \A t \in Seqs : Over(t)'
      BY <1>3, <1>5 DEF Waits
    <2>2. QED
      BY <1>2, <2>1 DEF OverInv
  <1>6. ASSUME NEW s \in Seqs, requests[s].terminal = 0, UNCHANGED queues,
               requests' = [requests EXCEPT ![s] = Observed(requests[s], log[i], i)]
        PROVE  OverInv'
    <2>1. \A t \in Seqs : Waits(t)' <=> Waits(t)
      BY <1>6 DEF Waits
    <2>2. \A t \in Seqs \ {s} : Over(t)'
      BY <1>3, <1>4, <1>6, <2>1
    <2>3. requests'[s] = Observed(requests[s], log[i], i) /\ requests[s] \in RequestState
      BY <1>4, <1>6
    <2>4. i \in Nat \ {0}
      BY LenProperties DEF IInv, TypeOK
    <2>5. Absent.phase = "absent"
      BY DEF Absent
    <2>6. requests'[s].phase \in {"absent", "running", requests[s].phase}
      BY <2>3, <2>4, <2>5, ObservedFields
    <2>7. requests'[s].phase \in {"done", "pending"} => requests'[s].phase = requests[s].phase
      BY <2>6
    <2>8. Over(s)'
      BY <1>1, <1>6, <2>1, <2>7 DEF OverInv, Over
    <2>9. QED
      BY <1>2, <2>2, <2>8 DEF OverInv
  <1>7. ASSUME i \in Seqs, ~Tracked(i), NEW body \in BOOLEAN,
               requests' = [requests EXCEPT ![i] = NewRecord(i, body)],
               body => ~h /\ pending' = Append(pending, i) /\ controls' = controls,
               ~body => pending' = pending,
               ~body /\ h => controls' = controls,
               ~body /\ ~h => \E code \in Codes : controls' = Append(controls, <<i, code>>)
        PROVE  OverInv'
    <2>1. requests'[i].phase = "pending" /\ \A t \in Seqs \ {i} : requests'[t] = requests[t]
      BY <1>4, <1>7, NewRecordFields
    <2>2. agent[i].pc = "idle" /\ agent[i].role = "none"
      BY <1>7, SeenKnown DEF IInv, ThreadInv
    <2>3. \/ pending' = pending
          \/ /\ Len(pending) \in Nat /\ Len(pending') = Len(pending) + 1
             /\ \A j \in 1..Len(pending) : pending'[j] = pending[j]
             /\ pending'[Len(pending) + 1] = i
      <3>1. pending \in Seq(Seqs)
        BY DEF IInv, TypeOK
      <3>2. CASE body
        BY <1>7, <3>1, <3>2, AppendProperties, LenProperties
      <3>3. QED
        BY <1>7, <3>2
    <2>4. \/ controls' = controls
          \/ /\ Len(controls) \in Nat /\ Len(controls') = Len(controls) + 1
             /\ \A j \in 1..Len(controls) : controls'[j] = controls[j]
             /\ controls'[Len(controls) + 1][1] = i
      <3>1. controls \in Seq(Seqs \X Codes)
        BY DEF IInv, TypeOK
      <3>2. CASE ~body /\ ~h
        <4>1. PICK code \in Codes : controls' = Append(controls, <<i, code>>)
          BY <1>7, <3>2
        <4>2. <<i, code>> \in Seqs \X Codes /\ <<i, code>>[1] = i
          BY <1>7
        <4>3. controls'[Len(controls) + 1] = <<i, code>>
          BY <3>1, <4>1, <4>2, AppendProperties
        <4>4. QED
          BY <3>1, <4>1, <4>2, <4>3, AppendProperties, LenProperties
      <3>3. QED
        BY <1>7, <3>2
    <2>5. \A t \in Seqs : Waits(t) => Waits(t)'
      <3>1. \A j \in 1..Len(pending) : j \in 1..Len(pending') /\ pending'[j] = pending[j]
        BY <2>3
      <3>2. \A j \in 1..Len(controls) : j \in 1..Len(controls') /\ controls'[j] = controls[j]
        BY <2>4
      <3>3. QED
        BY <3>1, <3>2 DEF Waits
    <2>6. ~h => Waits(i)'
      <3>1. CASE body
        <4>1. pending' = Append(pending, i) /\ pending \in Seq(Seqs)
          BY <1>7, <3>1 DEF IInv, TypeOK
        <4>2. Len(pending) + 1 \in 1..Len(pending') /\ pending'[Len(pending) + 1] = i
          BY <1>7, <4>1, AppendProperties, LenProperties
        <4>3. QED
          BY <4>2 DEF Waits
      <3>2. CASE ~body
        <4> SUFFICES ASSUME ~h PROVE Waits(i)'
          OBVIOUS
        <4>1. PICK code \in Codes : controls' = Append(controls, <<i, code>>)
          BY <1>7, <3>2
        <4>2. controls \in Seq(Seqs \X Codes) /\ <<i, code>> \in Seqs \X Codes /\ <<i, code>>[1] = i
          BY <1>7 DEF IInv, TypeOK
        <4>3. controls'[Len(controls) + 1] = <<i, code>> /\ Len(controls) + 1 \in 1..Len(controls')
          BY <4>1, <4>2, AppendProperties, LenProperties
        <4>4. controls'[Len(controls) + 1][1] = i
          BY <4>2, <4>3
        <4>5. QED
          BY <4>3, <4>4 DEF Waits
      <3>3. QED
        BY <3>1, <3>2
    <2>7. \A t \in Seqs \ {i} : Over(t)'
      BY <1>3, <2>1, <2>5
    <2>8. Over(i)'
      BY <2>1, <2>2, <2>6 DEF Over
    <2>9. QED
      BY <1>2, <2>7, <2>8 DEF OverInv
  <1>8. CASE /\ i \in Seqs /\ ~Tracked(i)
             /\ \E body \in BOOLEAN :
                   /\ requests' = [requests EXCEPT ![i] = NewRecord(i, body)]
                   /\ body => ~h /\ pending' = Append(pending, i) /\ controls' = controls
                   /\ ~body => pending' = pending
                   /\ ~body /\ h => controls' = controls
                   /\ ~body /\ ~h => \E code \in Codes : controls' = Append(controls, <<i, code>>)
    BY <1>7, <1>8
  <1>9. CASE /\ Matched(log[i]) /\ UNCHANGED queues
             /\ requests' = [requests EXCEPT ![log[i].ref] =
                                Observed(requests[log[i].ref], log[i], i)]
    BY <1>6, <1>9 DEF Matched
  <1>10. QED
    BY <1>5, <1>8, <1>9, AcceptCases

\* recover() has returned: every request it found is decided.
LEMMA GoLiveOver ==
    ASSUME IInv, TaskInvs, ViewInv, OverInv, GoLive
    PROVE  OverInv'
  <1>1. /\ proc = "scan" /\ proc' = "live" /\ ~stopped /\ cursor > target /\ Unresolved = {}
        /\ UNCHANGED <<log, stopped, target, requests, agent>>
    BY DEF GoLive, worker, server
  <1>2. /\ target \in Nat /\ cursor \in Nat /\ target <= Len(log) /\ Len(log) \in Nat
        /\ cursor = target + 1
    BY <1>1, LenProperties DEF IInv, TypeOK, ReaderInv
  <1>3. Seen = target
    BY <1>1, <1>2 DEF Seen
  <1>4. \A t : Decided(t)' <=> Decided(t)
    BY <1>1, DecidedFixed
  <1>5. ASSUME NEW t \in Seqs
        PROVE  /\ requests[t].phase \notin {"pending", "running"}
               /\ agent[t].role \notin {"provider", "control"}
    <2>1. TaskInv(t) /\ Over(t) /\ requests[t] \in RequestState /\ t \notin Unresolved
      BY <1>1 DEF TaskInvs, OverInv, IInv, TypeOK
    <2>2. requests[t].phase # "pending"
      BY <2>1 DEF TaskInv, Unresolved
    <2>3. agent[t].role \notin {"provider", "control"}
      BY <1>1, <2>1 DEF Over
    <2>4. QED
      BY <2>1, <2>2, <2>3 DEF TaskInv
  <1>6. ASSUME NEW t \in Seqs PROVE Over(t)'
    BY <1>1, <1>4, <1>5 DEF OverInv, Over
  <1>7. TargetInv'
    <2>1. RequestSeqs(target)' = RequestSeqs(target)
      BY <1>1 DEF RequestSeqs
    <2>2. ASSUME NEW s \in RequestSeqs(target) PROVE Decided(s)
      <3>1. s \in Seqs /\ s \in 1..Seen /\ View(s)
        BY <1>3, <2>2, ReadSeqs DEF ViewInv
      <3>2. requests[s] \in RequestState /\ requests[s].phase \in {"absent", "done"}
        BY <1>5, <3>1 DEF IInv, TypeOK, RequestState, Phases
      <3>3. CASE requests[s].phase = "done"
        BY <1>1, <3>1, <3>3 DEF OverInv, Over
      <3>4. CASE requests[s].phase = "absent"
        <4>1. Winner(log, s, Seen) # 0
          BY <3>1, <3>4 DEF View, Tracked
        <4>2. s \in Nat /\ s <= Seen
          BY <1>2, <1>3, <3>1
        <4>3. Winner(log, s, Len(log)) # 0
          BY <1>2, <1>3, <4>1, <4>2, WinnerStays
        <4>4. QED
          BY <4>3 DEF Decided
      <3>5. QED
        BY <3>2, <3>3, <3>4
    <2>3. QED
      BY <1>1, <1>2, <1>4, <2>1, <2>2 DEF TargetInv
  <1>8. QED
    BY <1>6, <1>7 DEF OverInv

\* The process starts, and ends, with no thread and no record.
LEMMA LifeOver ==
    ASSUME IInv, Crash \/ Exit \/ Restart
    PROVE  OverInv'
  <1>1. proc' # "live" /\ TargetInv'
    BY DEF Crash, Exit, Restart, TargetInv
  <1>2. ASSUME NEW t \in Seqs
        PROVE  agent'[t].pc = "idle" /\ agent'[t].role = "none" /\ requests'[t].phase = "absent"
    <2>1. CASE Crash \/ Exit
      <3>1. agent'[t] = Idle /\ requests'[t] = Absent
        BY <2>1 DEF Crash, Exit, Reset
      <3>2. QED
        BY <3>1 DEF Idle, Absent
    <2>2. CASE Restart
      <3>1. ~Tracked(t) /\ agent[t].pc = "idle" /\ agent[t].role = "none"
        BY <2>2, DownIsEmpty DEF Restart, IInv, ThreadInv
      <3>2. QED
        BY <2>2, <3>1 DEF Restart, worker, Tracked
    <2>3. QED
      BY <2>1, <2>2
  <1>3. \A t \in Seqs : Over(t)'
    BY <1>1, <1>2 DEF Over
  <1>4. QED
    BY <1>1, <1>3 DEF OverInv

\* Every step leaves finished only what is decided.
LEMMA OverStep ==
    ASSUME IInv, TaskInvs, ViewInv, OwnInv, OverInv, [Next]_vars
    PROVE  OverInv'
  <1> USE DEF process, reader, queues, worker, server
  <1>1. ASSUME UNCHANGED <<log, proc, target, pending, controls, agent>>, stopped => stopped',
               stopped' \/ requests' = requests
        PROVE  OverInv'
    BY <1>1, OverSame
  <1>2. CASE Connect \/ Disconnect \/ DeliverAgain \/ DeliverFault \/ Stop \/ UNCHANGED vars
    BY <1>1, <1>2 DEF Connect, Disconnect, DeliverAgain, DeliverFault, Receiving, Stop, Fail, vars
  <1>3. CASE Scan
    <2>1. /\ proc = "scan" /\ cursor <= target /\ UNCHANGED <<log, target, lastSeen, agent>>
      BY <1>3 DEF Scan
    <2>2. cursor \in 1..Len(log) /\ cursor = Seen + 1
      BY <2>1, LenProperties DEF IInv, TypeOK, ReaderInv, Seen
    <2>3. CASE Accept(cursor, TRUE) /\ UNCHANGED process
      BY <2>1, <2>2, <2>3, AcceptOver
    <2>4. CASE Fail /\ UNCHANGED <<cursor, queues>>
      BY <1>1, <2>1, <2>4 DEF Fail
    <2>5. QED
      BY <1>3, <2>3, <2>4 DEF Scan
  <1>4. CASE Deliver
    <2>1. /\ proc = "live" /\ cursor \in 1..Len(log) /\ cursor > lastSeen
          /\ Accept(cursor, FALSE) /\ UNCHANGED <<log, process, target, agent>>
      BY <1>4 DEF Deliver, Receiving
    <2>2. cursor = Seen + 1
      BY <2>1 DEF IInv, TypeOK, ReaderInv, Seen
    <2>3. QED
      BY <2>1, <2>2, AcceptOver
  <1>5. ASSUME NEW s \in Seqs, Thread(s) PROVE OverInv'
    <2>1. CASE ControlFail(s)
      <3>1. /\ stopped' = TRUE /\ UNCHANGED <<log, proc, target, pending, controls>>
            /\ agent \in [Seqs -> Agents] /\ agent' = [agent EXCEPT ![s] = Idle]
        BY <2>1 DEF ControlFail, IInv, TypeOK
      <3>2. Idle.pc = "idle" /\ Idle.role = "none"
        BY NewAgentTypes
      <3>3. \A t \in Seqs : agent'[t] = agent[t] \/ agent'[t] = Idle
        BY <3>1
      <3>4. QED
        BY <3>1, <3>2, <3>3, OverSame
    <2>2. QED
      BY <1>5, <2>1, CallOver, ProviderOver, PublishOver, FinallyOver DEF Thread, ThreadStep
  <1>6. QED
    BY <1>2, <1>3, <1>4, <1>5, EnvironmentOver, LifeOver, RecoverOver, GoLiveOver, ScheduleOver,
       ControlOver DEF Next, Life, Subscription

\* Only what is decided is finished, in every behaviour.
LEMMA OverInvariance == Spec => []OverInv
  <1>1. Init => OverInv
    BY DEF Init, OverInv, Over, TargetInv, Idle, Absent
  <1>2. IInv /\ TaskInvs /\ ViewInv /\ OwnInv /\ OverInv /\ [Next]_vars => OverInv'
    BY OverStep
  <1>3. QED
    BY <1>1, <1>2, Invariance, TaskInvariance, ViewInvariance, OwnInvariance, PTL DEF Spec

\* Where no other member writes outputs, nothing meddles with a call.
LEMMA NoMeddling ==
    ASSUME "foreign" \notin Noise, IInv, OwnInv, NEW s \in Seqs
    PROVE  ~Meddled(s, Len(log))
  <1> SUFFICES ASSUME NEW i \in (s + 1)..Len(log), log[i].kind \in {"append", "result"},
                      log[i].ref = s, log[i] = Foreign(s)
               PROVE  FALSE
    BY DEF Meddled
  <1>1. i \in 1..Len(log)
    BY DEF Seqs
  <1>2. log[i] \in Outputs
    BY <1>1, ElementOfSeq, MessageKinds DEF IInv, TypeOK, Outputs
  <1>3. Own(s, log[i])
    BY <1>1, <1>2 DEF OwnInv, OutputInv, Alien
  <1>4. QED
    BY <1>3 DEF Own

\* No request is forgotten: one that is tracked and undecided is queued, has a
\* thread, or its deciding event is in the log already; and a running one has a
\* thread.  Outputs written by other members are excluded: a foreign result
\* without body takes the place of the one that decides an ordinary request.
THEOREM NothingForgotten ==
    ASSUME "foreign" \notin Noise
    PROVE  Spec => []NoForgottenRequest
  <1>1. IInv /\ TaskInvs /\ OwnInv /\ OverInv => NoForgottenRequest
    <2> SUFFICES ASSUME IInv, TaskInvs, OwnInv, OverInv, proc = "live", ~stopped,
                        NEW s \in Seqs, Tracked(s)
                 PROVE  /\ \/ requests[s].terminal # 0
                           \/ \E i \in DOMAIN pending : pending[i] = s
                           \/ \E i \in DOMAIN controls : controls[i][1] = s
                           \/ agent[s] # Idle
                           \/ Winner(log, s, Len(log)) # 0
                        /\ requests[s].phase = "running" => agent[s] # Idle
      BY DEF NoForgottenRequest
    <2>1. TaskInv(s) /\ Over(s) /\ requests[s].phase \in {"pending", "running", "done"}
      BY DEF TaskInvs, OverInv, IInv, TypeOK, RequestState, Phases, Tracked
    <2>2. requests[s].phase = "running" => agent[s] # Idle
      BY <2>1 DEF TaskInv, Idle
    <2>3. requests[s].phase = "done" => Winner(log, s, Len(log)) # 0
      BY <2>1, NoMeddling DEF Over, Decided
    <2>4. requests[s].phase = "pending" => \/ \E i \in DOMAIN pending : pending[i] = s
                                           \/ \E i \in DOMAIN controls : controls[i][1] = s
      <3>1. DOMAIN pending = 1..Len(pending) /\ DOMAIN controls = 1..Len(controls)
        BY LenProperties DEF IInv, TypeOK
      <3>2. QED
        BY <2>1, <3>1 DEF Over, Waits
    <2>5. QED
      BY <2>1, <2>2, <2>3, <2>4
  <1>2. QED
    BY <1>1, Invariance, TaskInvariance, OwnInvariance, OverInvariance, PTL

\* No other step of a Worker is seen in the log or calls a Provider.
LEMMA SilentCalls ==
    ASSUME IInv, [Next]_vars, ~Environment, \A s \in Seqs : ~TaskStart(s)
    PROVE  log' = log /\ invoked' = invoked
  <1> USE DEF process, reader, queues, worker, server
  <1>1. ASSUME NEW s \in Seqs, Thread(s) PROVE log' = log /\ invoked' = invoked
    <2>1. CASE ThreadStep(s)
      BY <2>1 DEF ThreadStep, TaskBegin, TaskInstall, ProviderCancelled, TaskFinally,
                  ControlFinally, PublishStart, PublishReturn
    <2>2. CASE ProviderStep(s) \/ Oversize(s)
      BY <2>2 DEF ProviderStep, Yield, ProviderFail, Oversize, EmitOrEnd
    <2>3. CASE PublishFail(s) \/ ControlFail(s)
      BY <2>3 DEF PublishFail, ControlFail
    <2>4. QED
      BY <1>1, <2>1, <2>2, <2>3 DEF Thread
  <1>2. CASE Life
    BY <1>2 DEF Life, Restart, Scan, RecoverRequest, GoLive, Crash, Stop, Exit
  <1>3. CASE Subscription
    BY <1>3 DEF Subscription, Connect, Disconnect, DeliverAgain, Deliver, DeliverFault
  <1>4. CASE Schedule \/ ControlBegin \/ UNCHANGED vars
    BY <1>4 DEF Schedule, ControlBegin, vars
  <1>5. QED
    BY <1>1, <1>2, <1>3, <1>4 DEF Next

\* A thread of recover() works for a request that the snapshot leaves undecided.
RecoveringInv ==
    \A s \in Seqs : agent[s].role = "recovery" =>
        s \in RequestSeqs(target) /\ Winner(log, s, target) = 0

\* Only RecoverRequest starts such a thread, and the snapshot lasts as long as it.
LEMMA RecoveryThreads ==
    ASSUME IInv, OverInv, TaskInvs', [Next]_vars, NEW s \in Seqs, agent'[s].role = "recovery"
    PROVE  \/ agent[s].role = "recovery" /\ target' = target
           \/ RecoverRequest(s)
  <1> USE DEF process, reader, queues, worker, server
  <1>1. agent \in [Seqs -> Agents]
    BY DEF IInv, TypeOK
  <1>2. CASE Environment
    BY <1>2, EnvironmentFrame
  <1>3. CASE Crash \/ Exit
    BY <1>3 DEF Crash, Exit, Reset, Idle
  <1>4. CASE Restart
    BY <1>4 DEF Restart, IInv, ThreadInv
  <1>5. ASSUME NEW t \in Seqs, RecoverRequest(t) PROVE s = t \/ (agent'[s] = agent[s] /\ target' = target)
    BY <1>1, <1>5 DEF RecoverRequest
  <1>6. CASE Scan \/ GoLive \/ Stop \/ Subscription \/ UNCHANGED vars
    BY <1>6 DEF Scan, GoLive, Stop, Subscription, Connect, Disconnect, DeliverAgain, Deliver,
                DeliverFault, vars
  <1>7. CASE Schedule
    <2>1. \A t : agent' = [agent EXCEPT ![t] = Task] => agent'[s] = agent[s] \/ agent'[s] = Task
      BY <1>1
    <2>2. Task.role # "recovery" /\ target' = target
      BY <1>7, NewAgentTypes DEF Schedule
    <2>3. QED
      BY <1>7, <2>1, <2>2 DEF Schedule
  <1>8. CASE ControlBegin
    <2>1. \A t, a : agent' = [agent EXCEPT ![t] = a] => agent'[s] = agent[s] \/ agent'[s] = a
      BY <1>1
    <2>2. \A e : Emitting("control", e).role # "recovery"
      BY DEF Emitting, Idle
    <2>3. QED
      BY <1>8, <2>1, <2>2 DEF ControlBegin
  <1>9. ASSUME NEW t \in Seqs, Thread(t) PROVE agent[s].role = "recovery" /\ target' = target
    <2>1. target' = target /\ (s # t => agent'[s] = agent[s])
      BY <1>9, ThreadFrame
    <2>2. CASE s = t
      <3>1. proc' = "scan" /\ proc' = proc /\ agent[s].pc # "idle"
        BY <1>9, <2>2, ThreadFrame DEF TaskInvs, TaskInv
      <3>2. agent[s].role \in Roles \ {"none", "provider", "control"}
        BY <3>1 DEF OverInv, Over, IInv, ThreadInv, TypeOK, Agents
      <3>3. QED
        BY <2>1, <3>2 DEF Roles
    <2>3. QED
      BY <2>1, <2>2
  <1>10. QED
    BY <1>2, <1>3, <1>4, <1>5, <1>6, <1>7, <1>8, <1>9 DEF Next, Life

\* The log only grows under such a thread, so what the snapshot says is final.
LEMMA RecoveringStep ==
    ASSUME IInv, ViewInv, OverInv, TaskInvs, TaskInvs', RecoveringInv, [Next]_vars
    PROVE  RecoveringInv'
  <1> SUFFICES ASSUME NEW s \in Seqs, agent'[s].role = "recovery"
               PROVE  (s \in RequestSeqs(target))' /\ (Winner(log, s, target) = 0)'
    BY DEF RecoveringInv
  <1>1. /\ s \in RequestSeqs(target) /\ Winner(log, s, target) = 0 /\ target' = target
        /\ target \in Nat /\ target <= Len(log)
    <2>1. CASE agent[s].role = "recovery" /\ target' = target
      <3>1. proc = "scan"
        BY <2>1 DEF TaskInvs, TaskInv
      <3>2. target \in Nat /\ target <= Len(log)
        BY <3>1 DEF IInv, TypeOK, ReaderInv
      <3>3. QED
        BY <2>1, <3>2 DEF RecoveringInv
    <2>2. CASE RecoverRequest(s)
      <3>1. /\ proc = "scan" /\ cursor > target /\ requests[s].phase = "pending"
            /\ requests[s].terminal = 0 /\ target' = target
        BY <2>2 DEF RecoverRequest, Unresolved, reader
      <3>2. target \in Nat /\ target <= Len(log) /\ Seen = target
        BY <3>1 DEF IInv, TypeOK, ReaderInv, Seen
      <3>3. s \in RequestSeqs(target)
        <4>1. Asked(s) /\ s <= target
          BY <3>1, <3>2 DEF IInv, ThreadInv, Tracked
        <4>2. QED
          BY <3>2, <4>1 DEF Asked, RequestSeqs, IsRequest, Requests
      <3>4. View(s) /\ Tracked(s)
        BY <3>1, <3>2, <3>3 DEF ViewInv, Tracked
      <3>5. QED
        BY <3>1, <3>2, <3>3, <3>4 DEF View
    <2>3. QED
      BY <2>1, <2>2, RecoveryThreads
  <1>2. \A i \in 1..target : i \in 1..Len(log) /\ log'[i] = log[i]
    <2>1. CASE Environment
      BY <1>1, <2>1, EnvironmentFrame
    <2>2. CASE \E t \in Seqs : TaskStart(t)
      BY <1>1, <2>2 DEF TaskStart, server
    <2>3. CASE ~Environment /\ \A t \in Seqs : ~TaskStart(t)
      BY <1>1, <2>3, SilentCalls
    <2>4. QED
      BY <2>1, <2>2, <2>3
  <1>3. s \in 1..target
    BY <1>1 DEF RequestSeqs
  <1>4. Winner(log', s, target) = Winner(log, s, target)
    BY <1>1, <1>2, <1>3, ReadPrefix
  <1>5. QED
    BY <1>1, <1>2, <1>3, <1>4 DEF RequestSeqs

\* Such a thread never works for a request that the snapshot has decided.
LEMMA RecoveringInvariance == Spec => []RecoveringInv
  <1>1. Init => RecoveringInv
    BY DEF Init, RecoveringInv, Idle
  <1>2. IInv /\ ViewInv /\ OverInv /\ TaskInvs /\ TaskInvs' /\ RecoveringInv /\ [Next]_vars
           => RecoveringInv'
    BY RecoveringStep
  <1>3. QED
    BY <1>1, <1>2, Invariance, ViewInvariance, OverInvariance, TaskInvariance, PTL DEF Spec

\* Recovery closes what history left open and nothing else: once the Worker is
\* live every request it found is decided in the log, and it only works for one
\* that its whole snapshot leaves undecided.  Outputs written by other members
\* are excluded, as in NothingForgotten.
THEOREM RecoveryCloses ==
    ASSUME "foreign" \notin Noise
    PROVE  Spec => []RecoveredClosed
  <1>1. IInv /\ OwnInv /\ OverInv /\ RecoveringInv => RecoveredClosed
    <2> SUFFICES ASSUME IInv, OwnInv, OverInv, proc = "live", NEW s \in RequestSeqs(target)
                 PROVE  Winner(log, s, Len(log)) # 0
      BY DEF RecoveredClosed, RecoveringInv
    <2>1. Decided(s) /\ target <= Len(log) /\ target \in Nat /\ Len(log) \in Nat
      BY LenProperties DEF OverInv, TargetInv, IInv, TypeOK
    <2>2. s \in Seqs
      BY <2>1 DEF RequestSeqs, IInv, RequestsBounded
    <2>3. QED
      BY <2>1, <2>2, NoMeddling DEF Decided
  <1>2. QED
    BY <1>1, Invariance, OwnInvariance, OverInvariance, RecoveringInvariance, PTL

-----------------------------------------------------------------------------
(***************************************************************************)
(* The Workers implement the call protocol.                                *)
(***************************************************************************)
StatusOf == [s \in Seqs |-> IF InLog(s) THEN CallStatus(log, s, Len(log)) ELSE "none"]
NameOf == [s \in Seqs |-> IF InLog(s) THEN log[s].key ELSE "no name"]
Called == {s \in Seqs : invoked[s] > 0}

\* One message moves an intact call at most one stage on.
LEMMA StatusNext ==
    ASSUME NEW lg, NEW s \in Nat, NEW n \in Nat, s <= n, ~Broken(lg, s, n), ~Broken(lg, s, n + 1)
    PROVE  /\ \/ CallStatus(lg, s, n + 1) = CallStatus(lg, s, n)
              \/ CallStatus(lg, s, n) = "open" /\ CallStatus(lg, s, n + 1) = "streaming"
              \/ /\ CallStatus(lg, s, n) \in {"ordinary", "open", "streaming"}
                 /\ CallStatus(lg, s, n + 1) = "closed"
           /\ (\A kind \in {"result", "end", "cancel"} : ~Hit(lg, s, n + 1, kind))
                 => CallStatus(lg, s, n + 1) = CallStatus(lg, s, n)
  <1>1. n + 1 # 0
    OBVIOUS
  <1>2. CASE Winner(lg, s, n) # 0
    BY <1>2, ReadSettled DEF CallStatus
  <1>3. CASE Winner(lg, s, n) = 0 /\ Decides(lg, s, n)
    <2>1. Winner(lg, s, n + 1) = n + 1
      BY <1>3, WinnerNext
    <2>2. \E kind \in {"result", "end", "cancel"} : Hit(lg, s, n + 1, kind)
      BY <1>3 DEF Decides
    <2>3. QED
      BY <1>1, <1>3, <2>1, <2>2 DEF CallStatus
  <1>4. CASE Winner(lg, s, n) = 0 /\ ~Decides(lg, s, n)
    <2>1. Winner(lg, s, n + 1) = 0
      BY <1>4, WinnerNext
    <2>2. FirstResult(lg, s, n + 1) =
             IF FirstResult(lg, s, n) = 0 /\ Hit(lg, s, n + 1, "result") THEN n + 1
             ELSE FirstResult(lg, s, n)
      BY FirstNext
    <2>3. CASE ~(FirstResult(lg, s, n) = 0 /\ Hit(lg, s, n + 1, "result"))
      BY <1>4, <2>1, <2>2, <2>3 DEF CallStatus
    <2>4. CASE FirstResult(lg, s, n) = 0 /\ Hit(lg, s, n + 1, "result")
      <3>1. ~Misfits(lg, s, n)
        BY <1>4, ReadNext
      <3>2. lg[s].streaming
        BY <1>4, <2>4, <3>1 DEF Misfits, Decides
      <3>3. QED
        BY <1>1, <1>4, <2>1, <2>2, <2>4, <3>2 DEF CallStatus
    <2>5. QED
      BY <2>3, <2>4
  <1>5. QED
    BY <1>2, <1>3, <1>4

\* What has just been asked is open.
LEMMA StatusFirst ==
    ASSUME NEW lg, NEW s \in Nat
    PROVE  CallStatus(lg, s, s) = IF lg[s].streaming THEN "open" ELSE "ordinary"
  <1>1. Winner(lg, s, s) = 0 /\ ~Broken(lg, s, s) /\ FirstResult(lg, s, s) = 0
    BY ReadNothing, FirstNext
  <1>2. QED
    BY <1>1 DEF CallStatus

\* The calls in the log are the requests that were asked, and none is broken.
Intact ==
    \A s \in Seqs : /\ InLog(s) <=> Asked(s)
                    /\ Asked(s) => ~Broken(log, s, Len(log))

\* So it is where no other member writes outputs.
LEMMA CallsIntact ==
    ASSUME "foreign" \notin Noise, IInv, OwnInv, ChainInv
    PROVE  Intact
  <1> SUFFICES ASSUME NEW s \in Seqs
               PROVE  (InLog(s) <=> Asked(s)) /\ (Asked(s) => ~Broken(log, s, Len(log)))
    BY DEF Intact
  <1>1. InLog(s) <=> Asked(s)
    <2>1. s \in 1..Len(log) => log[s] \in Messages
      BY ElementOfSeq DEF IInv, TypeOK
    <2>2. QED
      BY <2>1, MessageKinds DEF InLog, RequestSeqs, Asked
  <1>2. ASSUME Asked(s) PROVE ~Broken(log, s, Len(log))
    <2>1. Len(log) \in s..Len(log)
      BY <1>2, LenProperties DEF Asked, IInv, TypeOK, Seqs
    <2>2. QED
      BY <1>2, <2>1, NoMeddling DEF ChainInv, Chain
  <1>3. QED
    BY <1>1, <1>2

\* A message that is written opens a call, moves one on, or is about none.
LEMMA LogCalls ==
    ASSUME IInv, Intact, IInv', Intact', NEW m \in Messages, log' = Append(log, m),
           invoked' = invoked
    PROVE  Calls!CallNext \/ UNCHANGED <<StatusOf, NameOf, Called>>
  <1> DEFINE L == Len(log)
  <1>1. /\ L \in Nat /\ Len(log') = L + 1 /\ log'[L + 1] = m
        /\ \A i \in 1..L : log'[i] = log[i]
    BY LogAppend, LenProperties, AppendProperties DEF IInv, TypeOK
  <1>2. Called' = Called
    BY DEF Called
  <1>3. /\ \A s \in Seqs : InLog(s) <=> Asked(s)
        /\ \A s \in Seqs : InLog(s)' <=> Asked(s)'
        /\ \A s \in Seqs : Asked(s) => ~Broken(log, s, L)
        /\ \A s \in Seqs : Asked(s)' => ~Broken(log', s, Len(log'))
    BY DEF Intact
  <1>4. ASSUME NEW s \in Seqs, Asked(s)
        PROVE  /\ Asked(s)' /\ log'[s] = log[s]
               /\ CallStatus(log', s, L) = CallStatus(log, s, L)
               /\ ~Broken(log', s, L) /\ ~Broken(log', s, L + 1)
               /\ s \in Nat /\ s <= L
    <2>1. s \in 1..L
      BY <1>4 DEF Asked
    <2>2. Asked(s)' /\ log'[s] = log[s]
      BY <1>1, <1>4, <2>1 DEF Asked
    <2>3. /\ Winner(log', s, L) = Winner(log, s, L)
          /\ FirstResult(log', s, L) = FirstResult(log, s, L)
          /\ Broken(log', s, L) <=> Broken(log, s, L)
      BY <1>1, <2>1, ReadPrefix
    <2>4. CallStatus(log', s, L) = CallStatus(log, s, L)
      BY <2>2, <2>3 DEF CallStatus
    <2>5. QED
      BY <1>1, <1>3, <1>4, <2>1, <2>2, <2>3, <2>4
  <1>5. ASSUME NEW s \in Seqs, Asked(s)', ~Asked(s) PROVE s = L + 1 /\ m \in Requests
    <2>1. s \in 1..(L + 1) /\ log'[s] \in Requests
      BY <1>1, <1>5 DEF Asked
    <2>2. s \notin 1..L
      BY <1>1, <1>5, <2>1 DEF Asked
    <2>3. QED
      BY <1>1, <2>1, <2>2
  <1>6. ASSUME NEW s \in Seqs, Asked(s) \/ ~Asked(s)',
               Asked(s) => \A kind \in {"result", "end", "cancel"} : ~Hit(log', s, L + 1, kind)
        PROVE  StatusOf'[s] = StatusOf[s] /\ NameOf'[s] = NameOf[s]
    <2>1. CASE Asked(s)
      <3>1. CallStatus(log', s, L + 1) = CallStatus(log', s, L)
        BY <1>1, <1>4, <1>6, <2>1, StatusNext
      <3>2. StatusOf'[s] = CallStatus(log', s, L + 1) /\ StatusOf[s] = CallStatus(log, s, L)
        BY <1>1, <1>3, <1>4, <2>1 DEF StatusOf
      <3>3. NameOf'[s] = NameOf[s]
        BY <1>3, <1>4, <2>1 DEF NameOf
      <3>4. QED
        BY <1>4, <2>1, <3>1, <3>2, <3>3
    <2>2. CASE ~Asked(s)
      BY <1>3, <1>6, <2>2 DEF StatusOf, NameOf
    <2>3. QED
      BY <2>1, <2>2
  <1>7. ASSUME NEW c \in Nat, c = L + 1, IsRequest(m) PROVE Calls!CallNext
    <2> DEFINE st == IF m.streaming THEN "open" ELSE "ordinary"
    <2>1. m \in Requests /\ c \in 1..Len(log') /\ c \in Nat
      BY <1>1, <1>7, MessageKinds
    <2>2. c \in Seqs /\ Asked(c)' /\ ~Asked(c)
      <3>1. IsRequest(log'[c])
        BY <1>1, <1>7
      <3>2. c \in Seqs
        BY <2>1, <3>1 DEF IInv, RequestsBounded
      <3>3. Asked(c)'
        BY <1>1, <1>7, <2>1 DEF Asked
      <3>4. ~Asked(c)
        BY <1>1, <1>7 DEF Asked
      <3>5. QED
        BY <3>2, <3>3, <3>4
    <2>3. \A s \in Seqs \ {c} : StatusOf'[s] = StatusOf[s] /\ NameOf'[s] = NameOf[s]
      <3>1. \A s, kind : kind # "request" => ~Hit(log', s, L + 1, kind)
        BY <1>1, <1>7 DEF Hit, IsRequest
      <3>2. QED
        BY <1>5, <1>6, <1>7, <3>1
    <2>4. StatusOf[c] = "none" /\ StatusOf'[c] = st /\ NameOf'[c] = m.key
      <3>1. StatusOf[c] = "none"
        BY <1>3, <2>2 DEF StatusOf
      <3>2. StatusOf'[c] = CallStatus(log', c, c) /\ NameOf'[c] = log'[c].key
        BY <1>1, <1>3, <1>7, <2>2 DEF StatusOf, NameOf
      <3>3. CallStatus(log', c, c) = IF log'[c].streaming THEN "open" ELSE "ordinary"
        BY <2>1, StatusFirst
      <3>4. QED
        BY <1>1, <1>7, <3>1, <3>2, <3>3
    <2>5. /\ StatusOf' = [StatusOf EXCEPT ![c] = st] /\ NameOf' = [NameOf EXCEPT ![c] = m.key]
      BY <2>2, <2>3, <2>4 DEF StatusOf, NameOf
    <2>6. m.key \in Keys /\ st \in {"ordinary", "open"}
      BY <2>1 DEF Requests
    <2> HIDE DEF st
    <2>7. Calls!Open(c, m.key, st)
      BY <1>2, <2>4, <2>5 DEF Calls!Open, StatusOf, NameOf, Called
    <2>8. QED
      BY <2>2, <2>6, <2>7 DEF Calls!CallNext
  <1>8. CASE ~IsRequest(m)
    <2>1. \A s \in Seqs : Asked(s) \/ ~Asked(s)'
      BY <1>5, <1>8, MessageKinds
    <2>2. \A s : m.ref # s => \A kind \in {"result", "end", "cancel"} : ~Hit(log', s, L + 1, kind)
      BY <1>1 DEF Hit
    <2>3. CASE \A s \in Seqs : Asked(s) => m.ref # s
      <3>1. \A s \in Seqs : StatusOf'[s] = StatusOf[s] /\ NameOf'[s] = NameOf[s]
        BY <1>6, <2>1, <2>2, <2>3
      <3>2. StatusOf' = StatusOf /\ NameOf' = NameOf
        BY <3>1 DEF StatusOf, NameOf
      <3>3. QED
        BY <1>2, <3>2
    <2>4. ASSUME NEW c \in Seqs, Asked(c), m.ref = c
          PROVE  Calls!CallNext \/ UNCHANGED <<StatusOf, NameOf, Called>>
      <3>1. \A s \in Seqs \ {c} : StatusOf'[s] = StatusOf[s] /\ NameOf'[s] = NameOf[s]
        BY <1>6, <2>1, <2>2, <2>4
      <3>2. NameOf'[c] = NameOf[c]
        BY <1>3, <1>4, <2>4 DEF NameOf
      <3>3. NameOf' = NameOf
        BY <3>1, <3>2 DEF NameOf
      <3>4. StatusOf'[c] = CallStatus(log', c, L + 1) /\ StatusOf[c] = CallStatus(log', c, L)
        BY <1>1, <1>3, <1>4, <2>4 DEF StatusOf
      <3>5. \/ StatusOf'[c] = StatusOf[c]
            \/ StatusOf[c] = "open" /\ StatusOf'[c] = "streaming"
            \/ StatusOf[c] \in {"ordinary", "open", "streaming"} /\ StatusOf'[c] = "closed"
        BY <1>1, <1>4, <2>4, <3>4, StatusNext
      <3>6. StatusOf' = [StatusOf EXCEPT ![c] = StatusOf'[c]]
        BY <3>1 DEF StatusOf
      <3>7. CASE StatusOf'[c] = StatusOf[c]
        BY <1>2, <3>3, <3>6, <3>7 DEF StatusOf
      <3>8. CASE StatusOf[c] = "open" /\ StatusOf'[c] = "streaming"
        <4>1. StatusOf' = [StatusOf EXCEPT ![c] = "streaming"]
          BY <3>6, <3>8
        <4>2. Calls!Start(c)
          BY <1>2, <3>3, <3>8, <4>1 DEF Calls!Start, StatusOf, NameOf, Called
        <4>3. QED
          BY <4>2 DEF Calls!CallNext
      <3>9. CASE StatusOf[c] \in {"ordinary", "open", "streaming"} /\ StatusOf'[c] = "closed"
        <4>1. StatusOf' = [StatusOf EXCEPT ![c] = "closed"]
          BY <3>6, <3>9
        <4>2. Calls!Close(c)
          BY <1>2, <3>3, <3>9, <4>1 DEF Calls!Close, StatusOf, NameOf, Called
        <4>3. QED
          BY <4>2 DEF Calls!CallNext
      <3>10. QED
        BY <3>5, <3>7, <3>8, <3>9
    <2>5. QED
      BY <2>3, <2>4
  <1>9. QED
    <2>1. L + 1 \in Nat
      BY <1>1
    <2>2. QED
      BY <1>7, <1>8, <2>1

\* A Provider is called for a call that is in the log, under a name that no
\* Provider was called for.
LEMMA ProviderCalls ==
    ASSUME IInv, Intact, NEW s \in Seqs, TaskStart(s)
    PROVE  Calls!CallNext \/ UNCHANGED <<StatusOf, NameOf, Called>>
  <1>1. log' = log /\ agent[s].role = "provider" /\ agent[s].pc = "start"
    BY DEF TaskStart, At, server
  <1>2. First(s) /\ invoked[s] = 0 /\ Asked(s) /\ InLog(s) /\ invoked \in [Seqs -> Nat]
    BY <1>1 DEF Intact, IInv, ThreadInv, First, TypeOK
  <1>3. StatusOf' = StatusOf /\ NameOf' = NameOf
    BY <1>1 DEF StatusOf, NameOf, InLog, RequestSeqs
  <1>4. CASE invoked' = invoked
    BY <1>3, <1>4 DEF Called
  <1>5. CASE invoked' = [invoked EXCEPT ![s] = @ + 1]
    <2>1. Called' = Called \cup {s}
      BY <1>2, <1>5 DEF Called
    <2>2. ASSUME NEW d \in Called PROVE NameOf[d] # NameOf[s]
      <3>1. d \in Seqs /\ d # s /\ First(d)
        BY <1>2 DEF Called, IInv, InvokedInv
      <3>2. InLog(d) /\ Asked(d)
        BY <3>1 DEF Intact, First
      <3>3. NameOf[d] = log[d].key /\ NameOf[s] = log[s].key
        BY <1>2, <3>1, <3>2 DEF NameOf
      <3>4. d \in 1..Len(log) /\ s \in 1..Len(log) /\ IsRequest(log[d]) /\ IsRequest(log[s])
        BY <1>2, <3>2 DEF Asked, InLog, RequestSeqs
      <3>5. d \in 1..(s - 1) \/ s \in 1..(d - 1)
        BY <3>1, <3>4
      <3>6. QED
        BY <1>2, <3>1, <3>3, <3>4, <3>5 DEF First
    <2>3. StatusOf[s] # "none"
      <3>1. StatusOf[s] = CallStatus(log, s, Len(log))
        BY <1>2 DEF StatusOf
      <3>2. QED
        BY <3>1 DEF CallStatus
    <2>4. Calls!CallProvider(s)
      BY <1>3, <2>1, <2>2, <2>3 DEF Calls!CallProvider, StatusOf, NameOf, Called
    <2>5. QED
      BY <2>4 DEF Calls!CallNext
  <1>6. QED
    BY <1>4, <1>5 DEF TaskStart

\* Seen through the log the Workers implement the call protocol: a call opens,
\* streams and closes in order and once, and at most one Provider call is made
\* under a stream key.  Only outputs written by other members are excluded, as
\* they may break a call.
THEOREM CallsRefined ==
    ASSUME "foreign" \notin Noise
    PROVE  Spec => Calls!CallSpec
  <1>1. Init => Calls!CallInit
    <2> SUFFICES ASSUME Init PROVE Calls!CallInit
      OBVIOUS
    <2>1. \A s \in Seqs : ~InLog(s) /\ invoked[s] = 0
      BY EmptySeq DEF Init, InLog, RequestSeqs
    <2>2. {s \in Seqs : invoked[s] > 0} = {}
      BY <2>1
    <2>3. QED
      BY <2>1, <2>2, Zenon DEF Calls!CallInit, Calls!NoName
  <1>2. IInv /\ Intact /\ IInv' /\ Intact' /\ [Next]_vars
           => [Calls!CallNext]_<<StatusOf, NameOf, Called>>
    <2> SUFFICES ASSUME IInv, Intact, IInv', Intact', [Next]_vars
                 PROVE  Calls!CallNext \/ UNCHANGED <<StatusOf, NameOf, Called>>
      OBVIOUS
    <2>1. CASE Environment
      <3>1. invoked' = invoked
        BY <2>1, EnvironmentFrame
      <3>2. \E m \in Messages : log' = Append(log, m)
        <4>1. \A p \in inflight : p.event \in Messages
          BY DEF IInv, TypeOK, Publications, Messages
        <4>2. QED
          BY <2>1, <4>1, EnvironmentCases DEF Write, Commit
      <3>3. QED
        BY <3>1, <3>2, LogCalls
    <2>2. ASSUME NEW s \in Seqs, TaskStart(s)
          PROVE  Calls!CallNext \/ UNCHANGED <<StatusOf, NameOf, Called>>
      BY <2>2, ProviderCalls
    <2>3. CASE ~Environment /\ \A s \in Seqs : ~TaskStart(s)
      <3>1. log' = log /\ invoked' = invoked
        BY <2>3, SilentCalls
      <3>2. QED
        BY <3>1 DEF StatusOf, NameOf, Called, InLog, RequestSeqs
    <2>4. QED
      BY <2>1, <2>2, <2>3
  <1>3. [Calls!CallNext]_<<StatusOf, NameOf, Called>> => [Calls!CallNext]_(Calls!callVars)
    BY DEF Calls!callVars, StatusOf, NameOf, Called
  <1>4. IInv /\ OwnInv /\ ChainInv => Intact
    BY CallsIntact
  <1>5. QED
    BY <1>1, <1>2, <1>3, <1>4, Invariance, OwnInvariance, ChainInvariance, PTL
       DEF Spec, Calls!CallSpec
=============================================================================
