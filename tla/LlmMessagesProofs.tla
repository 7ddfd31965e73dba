-------------------------- MODULE LlmMessagesProofs --------------------------
(***************************************************************************)
(* What one more message does to the reference reading of a log, for any   *)
(* log: the facts that the reader of the Worker and the reader of the SDK  *)
(* are proved against.                                                     *)
(***************************************************************************)
EXTENDS LlmMessages, TLAPS, FiniteSetTheorems

\* Among finite sets, one for each element of S, one is minimal.
LEMMA MinimalImage ==
    ASSUME NEW S, IsFiniteSet(S), S # {}, NEW F, \A i \in S : F[i] \subseteq S
    PROVE  \E i \in S : \A j \in S : F[j] \subseteq F[i] => F[j] = F[i]
  <1> DEFINE Images == {F[i] : i \in S}
  <1>1. IsWellFoundedOn(StrictSubsetOrdering(S), SUBSET S)
    BY FS_StrictSubsetOrderingWellFounded, FS_FiniteSubsetsOfFinite
  <1>2. Images \subseteq SUBSET S /\ Images # {}
    OBVIOUS
  <1>3. PICK T \in Images : \A U \in Images : <<U, T>> \notin StrictSubsetOrdering(S)
    <2> HIDE DEF Images
    <2> QED BY <1>1, <1>2, WFMin
  <1>4. PICK i \in S : T = F[i]
    OBVIOUS
  <1>5. ASSUME NEW j \in S, F[j] \subseteq F[i], F[j] # F[i] PROVE FALSE
    <2>1. <<F[j], F[i]>> \in (SUBSET S) \X (SUBSET S)
      OBVIOUS
    <2>2. <<F[j], F[i]>> \in StrictSubsetOrdering(S)
      BY <1>5, <2>1 DEF StrictSubsetOrdering
    <2>3. QED
      BY <1>3, <1>4, <2>2
  <1>6. QED
    BY <1>5

\* A finite set of numbers has a least and a greatest element: its elements up to
\* one, or from one on, are ordered like the elements.
LEMMA Extremes ==
    ASSUME NEW S, IsFiniteSet(S), S # {}
    PROVE  S \subseteq Nat => /\ \E i \in S : \A j \in S : i <= j
                             /\ \E i \in S : \A j \in S : i >= j
  <1>0. ASSUME NEW F, \A i \in S : F[i] \subseteq S
        PROVE  \E i \in S : \A j \in S : F[j] \subseteq F[i] => F[j] = F[i]
    BY <1>0, MinimalImage
  <1> HAVE S \subseteq Nat
  <1>1. \E i \in S : \A j \in S : i <= j
    <2> DEFINE F == [i \in S |-> {j \in S : j <= i}]
    <2>1. PICK i \in S : \A j \in S : F[j] \subseteq F[i] => F[j] = F[i]
      <3>1. \A i \in S : F[i] \subseteq S
        OBVIOUS
      <3>2. QED
        <4> HIDE DEF F
        <4> QED BY <3>1, <1>0
    <2>2. ASSUME NEW j \in S, j < i PROVE FALSE
      <3>1. i \in Nat /\ j \in Nat /\ i \in F[i] /\ i \notin F[j]
        BY <2>2
      <3>2. ASSUME NEW x \in F[j] PROVE x \in F[i]
        BY <3>1, <2>2
      <3>3. QED
        <4> HIDE DEF F
        <4> QED BY <2>1, <3>1, <3>2
    <2>3. QED
      BY <2>2
  <1>2. \E i \in S : \A j \in S : i >= j
    <2> DEFINE F == [i \in S |-> {j \in S : j >= i}]
    <2>1. PICK i \in S : \A j \in S : F[j] \subseteq F[i] => F[j] = F[i]
      <3>1. \A i \in S : F[i] \subseteq S
        OBVIOUS
      <3>2. QED
        <4> HIDE DEF F
        <4> QED BY <3>1, <1>0
    <2>2. ASSUME NEW j \in S, j > i PROVE FALSE
      <3>1. i \in Nat /\ j \in Nat /\ i \in F[i] /\ i \notin F[j]
        BY <2>2
      <3>2. ASSUME NEW x \in F[j] PROVE x \in F[i]
        BY <3>1, <2>2
      <3>3. QED
        <4> HIDE DEF F
        <4> QED BY <2>1, <3>1, <3>2
    <2>3. QED
      BY <2>2
  <1>3. QED
    BY <1>1, <1>2

\* So Earliest and Latest return one of the seqs, or 0.
LEMMA Chosen ==
    ASSUME NEW S, S \subseteq Nat, IsFiniteSet(S)
    PROVE  Earliest(S) \in S \cup {0} /\ Latest(S) \in S \cup {0}
  <1>1. CASE S = {}
    BY <1>1 DEF Earliest, Latest
  <1>2. CASE S # {}
    BY <1>2, Extremes DEF Earliest, Latest
  <1>3. QED
    BY <1>1, <1>2

\* The messages of one kind that match a request are among those read.
LEMMA MatchingSeqs ==
    ASSUME NEW lg, NEW s \in Nat, NEW n \in Nat, NEW kind
    PROVE  Matching(lg, s, n, kind) \subseteq 1..n /\ IsFiniteSet(Matching(lg, s, n, kind))
  <1>1. Matching(lg, s, n, kind) \subseteq 1..n
    BY DEF Matching
  <1>2. QED
    BY <1>1, FS_Interval, FS_Subset

\* The tail of a chain is a seq.
LEMMA TailType ==
    ASSUME NEW lg, NEW s \in Nat, NEW n \in Nat
    PROVE  ChainTail(lg, s, n) \in Nat
  <1>1. ASSUME NEW m \in Nat PROVE FirstResult(lg, s, m) \in 0..m
    BY MatchingSeqs, Chosen DEF FirstResult
  <1>2. Winner(lg, s, n) \in 0..n
    <2> DEFINE first == FirstResult(lg, s, n)
               bodied == IF first # 0 /\ lg[first].body THEN {first} ELSE {}
               control == IF lg[s].streaming
                          THEN Matching(lg, s, n, "end") \cup Matching(lg, s, n, "cancel")
                          ELSE {}
    <2>1. bodied \subseteq 1..n
      BY <1>1
    <2>2. control \subseteq 1..n
      BY MatchingSeqs
    <2>3. bodied \cup control \subseteq 1..n
      BY <2>1, <2>2
    <2>4. IsFiniteSet(bodied \cup control)
      <3>1. IsFiniteSet(1..n)
        BY FS_Interval
      <3>2. QED
        <4> HIDE DEF bodied, control
        <4> QED BY <2>3, <3>1, FS_Subset
    <2>5. Winner(lg, s, n) = Earliest(bodied \cup control)
      BY DEF Winner
    <2>6. QED
      <3> HIDE DEF bodied, control
      <3> QED BY <2>3, <2>4, <2>5, Chosen
  <1>3. ChainNodes(lg, s, n) \subseteq 1..n
    <2> DEFINE last == IF Winner(lg, s, n) = 0 THEN n ELSE Winner(lg, s, n)
    <2>1. last \in 0..n
      BY <1>2
    <2>2. ChainNodes(lg, s, n) \subseteq
              ({FirstResult(lg, s, last)} \ {0}) \cup Matching(lg, s, last, "append")
      BY DEF ChainNodes
    <2>3. QED
      <3> HIDE DEF last
      <3> QED BY <1>1, <2>1, <2>2, MatchingSeqs
  <1>4. IsFiniteSet(ChainNodes(lg, s, n))
    BY <1>3, FS_Interval, FS_Subset
  <1>5. QED
    BY <1>3, <1>4, Chosen DEF ChainTail

-----------------------------------------------------------------------------
(* The extremes of a set of seqs, when it grows at its end. *)

\* Only the first seq put into an empty set changes the earliest one, and every
\* new seq is the latest one.
LEMMA ExtremesNext ==
    ASSUME NEW n \in Nat, NEW S, S \subseteq 1..n
    PROVE  /\ Earliest(S) \in 0..n
           /\ Earliest(S) \in S \cup {0}
           /\ Latest(S) \in 0..n
           /\ Earliest(S) = 0 <=> S = {}
           /\ Latest(S) = 0 <=> S = {}
           /\ Earliest(S \cup {n + 1}) = IF S = {} THEN n + 1 ELSE Earliest(S)
           /\ Latest(S \cup {n + 1}) = n + 1
  <1>1. IsFiniteSet(S)
    <2>1. IsFiniteSet(1..n)
      BY FS_Interval
    <2>2. QED
      BY <2>1, FS_Subset
  <1>2. S # {} => /\ \E i \in S : \A j \in S : i <= j
                  /\ \E i \in S : \A j \in S : i >= j
    <2>1. S \subseteq Nat
      OBVIOUS
    <2>2. QED
      BY <1>1, <2>1, Extremes
  <1>3. S # {} => /\ Earliest(S) \in S /\ \A j \in S : Earliest(S) <= j
                  /\ Latest(S) \in S
    BY <1>2 DEF Earliest, Latest
  <1>4. S = {} => Earliest(S) = 0 /\ Latest(S) = 0
    BY DEF Earliest, Latest
  <1>5. Latest(S \cup {n + 1}) = n + 1
    <2> DEFINE T == S \cup {n + 1}
    <2>1. n + 1 \in T /\ \A j \in T : n + 1 >= j
      OBVIOUS
    <2>2. \A i \in T : (\A j \in T : i >= j) => i = n + 1
      <3> TAKE i \in T
      <3> HAVE \A j \in T : i >= j
      <3>1. i >= n + 1 /\ i \in Nat /\ i <= n + 1
        BY <2>1
      <3>2. QED
        BY <3>1
    <2>3. T # {} /\ Latest(T) = CHOOSE i \in T : \A j \in T : i >= j
      BY DEF Latest
    <2>4. (CHOOSE i \in T : \A j \in T : i >= j) = n + 1
      <3> HIDE DEF T
      <3> QED BY <2>1, <2>2
    <2>5. QED
      BY <2>3, <2>4
  <1>6. Earliest(S \cup {n + 1}) = IF S = {} THEN n + 1 ELSE Earliest(S)
    <2> DEFINE T == S \cup {n + 1}
               e == IF S = {} THEN n + 1 ELSE Earliest(S)
    <2>0. e \in Nat /\ e <= n + 1
      <3>1. \A i \in S : i \in Nat /\ i <= n + 1
        OBVIOUS
      <3>2. CASE S = {}
        BY <3>2
      <3>3. CASE S # {}
        BY <1>3, <3>1, <3>3
      <3>4. QED
        BY <3>2, <3>3
    <2>1. e \in T /\ \A j \in T : e <= j
      BY <1>3, <2>0
    <2>2. \A i \in T : (\A j \in T : i <= j) => i = e
      <3> TAKE i \in T
      <3> HAVE \A j \in T : i <= j
      <3>1. i <= e /\ e <= i
        BY <2>1
      <3>3. i \in Nat
        OBVIOUS
      <3>2. QED
        BY <2>0, <3>1, <3>3
    <2>3. T # {} /\ Earliest(T) = CHOOSE i \in T : \A j \in T : i <= j
      BY DEF Earliest
    <2>4. (CHOOSE i \in T : \A j \in T : i <= j) = e
      <3> HIDE DEF T, e
      <3> QED BY <2>1, <2>2
    <2>5. QED
      BY <2>3, <2>4
  <1>7. /\ Earliest(S) \in S \cup {0} /\ Latest(S) \in S \cup {0}
        /\ (Earliest(S) = 0 <=> S = {}) /\ (Latest(S) = 0 <=> S = {})
    BY <1>3, <1>4
  <1>8. Earliest(S) \in 0..n /\ Latest(S) \in 0..n
    <2>1. \A i \in S \cup {0} : i \in 0..n
      OBVIOUS
    <2>2. QED
      BY <1>7, <2>1
  <1>9. QED
    BY <1>5, <1>6, <1>7, <1>8

-----------------------------------------------------------------------------
(* The reference reading, one message further. *)

\* The message at i is of one kind and matches the request at s.
Hit(lg, s, i, kind) == lg[i].kind = kind /\ lg[i].ref = s /\ lg[i].key = lg[s].key

\* One more message enlarges a set of matching messages by itself or not at all.
LEMMA MatchingNext ==
    ASSUME NEW lg, NEW s \in Nat, NEW n \in Nat, s <= n, NEW kind
    PROVE  /\ Matching(lg, s, n, kind) \subseteq 1..n
           /\ Matching(lg, s, n + 1, kind) =
                 IF Hit(lg, s, n + 1, kind) THEN Matching(lg, s, n, kind) \cup {n + 1}
                 ELSE Matching(lg, s, n, kind)
           /\ Matching(lg, s, s, kind) = {}
  <1>1. (s + 1)..(n + 1) = ((s + 1)..n) \cup {n + 1} /\ (s + 1)..s = {}
    OBVIOUS
  <1>2. QED
    BY <1>1 DEF Matching, Hit

\* The first result of a request stays the first.
LEMMA FirstNext ==
    ASSUME NEW lg, NEW s \in Nat, NEW n \in Nat, s <= n
    PROVE  /\ FirstResult(lg, s, n) \in 0..n
           /\ FirstResult(lg, s, n) # 0 => Hit(lg, s, FirstResult(lg, s, n), "result")
           /\ FirstResult(lg, s, n + 1) =
                 IF FirstResult(lg, s, n) = 0 /\ Hit(lg, s, n + 1, "result") THEN n + 1
                 ELSE FirstResult(lg, s, n)
           /\ FirstResult(lg, s, s) = 0
  <1> DEFINE M == Matching(lg, s, n, "result")
  <1>1. /\ M \subseteq 1..n
        /\ Matching(lg, s, n + 1, "result") =
              IF Hit(lg, s, n + 1, "result") THEN M \cup {n + 1} ELSE M
        /\ Matching(lg, s, s, "result") = {}
    BY MatchingNext
  <1>2. \A i \in M : Hit(lg, s, i, "result")
    BY DEF Matching, Hit
  <1> HIDE DEF M
  <1>3. /\ Earliest(M) \in 0..n /\ Earliest(M) \in M \cup {0} /\ (Earliest(M) = 0 <=> M = {})
        /\ Earliest(M \cup {n + 1}) = IF M = {} THEN n + 1 ELSE Earliest(M)
    BY <1>1, ExtremesNext
  <1>4. FirstResult(lg, s, n) = Earliest(M) /\ FirstResult(lg, s, s) = 0
    BY <1>1 DEF FirstResult, M, Earliest
  <1>5. QED
    BY <1>1, <1>2, <1>3, <1>4 DEF FirstResult

\* The messages that can decide: Winner takes the earliest of them.
Deciding(lg, s, n) ==
    (IF FirstResult(lg, s, n) # 0 /\ lg[FirstResult(lg, s, n)].body
     THEN {FirstResult(lg, s, n)} ELSE {})
    \cup (IF lg[s].streaming
          THEN Matching(lg, s, n, "end") \cup Matching(lg, s, n, "cancel") ELSE {})

\* The message at n + 1 is a candidate to decide the request.
Decides(lg, s, n) ==
    \/ Hit(lg, s, n + 1, "result") /\ FirstResult(lg, s, n) = 0 /\ lg[n + 1].body
    \/ lg[s].streaming /\ (Hit(lg, s, n + 1, "end") \/ Hit(lg, s, n + 1, "cancel"))

\* The winner stays the winner, and while there is none it is the first message
\* that can decide.
LEMMA WinnerNext ==
    ASSUME NEW lg, NEW s \in Nat, NEW n \in Nat, s <= n
    PROVE  /\ Winner(lg, s, n) \in 0..n
           /\ Winner(lg, s, n + 1) =
                 IF Winner(lg, s, n) = 0 /\ Decides(lg, s, n) THEN n + 1
                 ELSE Winner(lg, s, n)
           /\ Winner(lg, s, s) = 0
  <1>1. /\ FirstResult(lg, s, n) \in 0..n
        /\ FirstResult(lg, s, n + 1) =
              IF FirstResult(lg, s, n) = 0 /\ Hit(lg, s, n + 1, "result") THEN n + 1
              ELSE FirstResult(lg, s, n)
        /\ FirstResult(lg, s, s) = 0
    BY FirstNext
  <1>2. ASSUME NEW kind
        PROVE  /\ Matching(lg, s, n, kind) \subseteq 1..n
               /\ Matching(lg, s, n + 1, kind) =
                     IF Hit(lg, s, n + 1, kind) THEN Matching(lg, s, n, kind) \cup {n + 1}
                     ELSE Matching(lg, s, n, kind)
               /\ Matching(lg, s, s, kind) = {}
    BY MatchingNext
  <1>3. Hit(lg, s, n + 1, "result") => ~Hit(lg, s, n + 1, "end") /\ ~Hit(lg, s, n + 1, "cancel")
    BY DEF Hit
  <1>4. Deciding(lg, s, n) \subseteq 1..n /\ Deciding(lg, s, s) = {}
    <2>1. Deciding(lg, s, n) \subseteq
             ({FirstResult(lg, s, n)} \ {0}) \cup Matching(lg, s, n, "end")
                 \cup Matching(lg, s, n, "cancel")
      BY DEF Deciding
    <2>2. Matching(lg, s, n, "end") \subseteq 1..n /\ Matching(lg, s, n, "cancel") \subseteq 1..n
      BY <1>2
    <2>3. {FirstResult(lg, s, n)} \ {0} \subseteq 1..n
      BY <1>1
    <2>4. Deciding(lg, s, s) = {}
      BY <1>1, <1>2 DEF Deciding
    <2>5. QED
      BY <2>1, <2>2, <2>3, <2>4
  <1>5. /\ Decides(lg, s, n) => Deciding(lg, s, n + 1) = Deciding(lg, s, n) \cup {n + 1}
        /\ ~Decides(lg, s, n) => Deciding(lg, s, n + 1) = Deciding(lg, s, n)
    <2>1. CASE Hit(lg, s, n + 1, "result")
      <3>1. ~Hit(lg, s, n + 1, "end") /\ ~Hit(lg, s, n + 1, "cancel")
        BY <1>3, <2>1
      <3>2. /\ Matching(lg, s, n + 1, "end") = Matching(lg, s, n, "end")
            /\ Matching(lg, s, n + 1, "cancel") = Matching(lg, s, n, "cancel")
        BY <1>2, <3>1
      <3>3. FirstResult(lg, s, n + 1) =
               IF FirstResult(lg, s, n) = 0 THEN n + 1 ELSE FirstResult(lg, s, n)
        BY <1>1, <2>1
      <3>4. n + 1 # 0
        OBVIOUS
      <3>5. QED
        BY <2>1, <3>1, <3>2, <3>3, <3>4 DEF Deciding, Decides
    <2>2. CASE ~Hit(lg, s, n + 1, "result")
      <3>1. FirstResult(lg, s, n + 1) = FirstResult(lg, s, n)
        BY <1>1, <2>2
      <3>2. QED
        BY <1>2, <2>2, <3>1 DEF Deciding, Decides
    <2>3. QED
      BY <2>1, <2>2
  <1>6. /\ Winner(lg, s, n) = Earliest(Deciding(lg, s, n))
        /\ Winner(lg, s, n + 1) = Earliest(Deciding(lg, s, n + 1))
        /\ Winner(lg, s, s) = Earliest(Deciding(lg, s, s))
    BY DEF Winner, Deciding
  <1> DEFINE C == Deciding(lg, s, n)
  <1>7. C \subseteq 1..n
    BY <1>4
  <1>8. /\ Earliest(C) \in 0..n /\ (Earliest(C) = 0 <=> C = {})
        /\ Earliest(C \cup {n + 1}) = IF C = {} THEN n + 1 ELSE Earliest(C)
    <2> HIDE DEF C
    <2> QED BY <1>7, ExtremesNext
  <1>9. Winner(lg, s, s) = 0
    BY <1>4, <1>6 DEF Earliest
  <1>10. QED
    BY <1>5, <1>6, <1>8, <1>9

\* The chain up to seq n, as it is while nothing has decided the request.
Nodes(lg, s, n) ==
    IF FirstResult(lg, s, n) = 0 THEN {}
    ELSE {FirstResult(lg, s, n)} \cup Matching(lg, s, n, "append")

\* An append that does not continue the chain before it.
Loose(lg, s, n, i) ==
    lg[i].prev # Latest({j \in Nodes(lg, s, n) : j < i}) \/ lg[i].prev = 0

\* What is wrong with the first n messages while nothing has decided the request.
Wrong(lg, s, n) ==
    \/ ~lg[s].streaming /\ FirstResult(lg, s, n) # 0 /\ ~lg[FirstResult(lg, s, n)].body
    \/ ~lg[s].streaming /\ Matching(lg, s, n, "append") # {}
    \/ \E i \in Matching(lg, s, n, "append") : Loose(lg, s, n, i)

\* Until the winner, and at it, the chain is read from everything so far.
LEMMA ReadSoFar ==
    ASSUME NEW lg, NEW s \in Nat, NEW n \in Nat, Winner(lg, s, n) \in {0, n}
    PROVE  /\ ChainNodes(lg, s, n) = Nodes(lg, s, n)
           /\ Broken(lg, s, n) <=> Wrong(lg, s, n)
  <1> DEFINE last == IF Winner(lg, s, n) = 0 THEN n ELSE Winner(lg, s, n)
  <1>1. last = n
    OBVIOUS
  <1>2. ChainNodes(lg, s, n) = Nodes(lg, s, n)
    BY <1>1, Zenon DEF ChainNodes, Nodes
  <1>3. Broken(lg, s, n) <=> Wrong(lg, s, n)
    BY <1>1, <1>2, Zenon DEF Broken, Wrong, Loose
  <1>4. QED
    BY <1>2, <1>3

\* After the winner nothing changes the chain any more.
LEMMA ReadSettled ==
    ASSUME NEW lg, NEW s \in Nat, NEW n \in Nat, s <= n, Winner(lg, s, n) # 0
    PROVE  /\ Winner(lg, s, n + 1) = Winner(lg, s, n)
           /\ ChainNodes(lg, s, n + 1) = ChainNodes(lg, s, n)
           /\ ChainTail(lg, s, n + 1) = ChainTail(lg, s, n)
           /\ Broken(lg, s, n + 1) <=> Broken(lg, s, n)
  <1>1. Winner(lg, s, n + 1) = Winner(lg, s, n)
    BY WinnerNext
  <1>2. ChainNodes(lg, s, n + 1) = ChainNodes(lg, s, n)
    BY <1>1, Zenon DEF ChainNodes
  <1>3. ChainTail(lg, s, n + 1) = ChainTail(lg, s, n)
    BY <1>2, Zenon DEF ChainTail
  <1>4. Broken(lg, s, n + 1) <=> Broken(lg, s, n)
    BY <1>1, <1>2, Zenon DEF Broken
  <1>5. QED
    BY <1>1, <1>2, <1>3, <1>4

\* The message at n + 1 continues the chain: it is the first result, or an
\* append after it.
Links(lg, s, n) ==
    \/ Hit(lg, s, n + 1, "result") /\ FirstResult(lg, s, n) = 0
    \/ Hit(lg, s, n + 1, "append") /\ FirstResult(lg, s, n) # 0

\* The message at n + 1 is a protocol error of the call.
Misfits(lg, s, n) ==
    \/ /\ Hit(lg, s, n + 1, "result") /\ FirstResult(lg, s, n) = 0
       /\ ~lg[s].streaming /\ ~lg[n + 1].body
    \/ /\ Hit(lg, s, n + 1, "append")
       /\ ~lg[s].streaming \/ FirstResult(lg, s, n) = 0 \/ lg[n + 1].prev # ChainTail(lg, s, n)

\* Before the winner: the tail moves with every link, and only an output that
\* does not fit breaks a chain that was intact.
LEMMA ReadNext ==
    ASSUME NEW lg, NEW s \in Nat, NEW n \in Nat, s <= n,
           Winner(lg, s, n) = 0, ~Broken(lg, s, n)
    PROVE  /\ ChainTail(lg, s, n) \in 0..n
           /\ ChainTail(lg, s, n) = 0 <=> FirstResult(lg, s, n) = 0
           /\ ChainTail(lg, s, n + 1) =
                 IF Links(lg, s, n) THEN n + 1 ELSE ChainTail(lg, s, n)
           /\ Broken(lg, s, n + 1) <=> Misfits(lg, s, n)
  <1>1. Winner(lg, s, n) \in {0, n} /\ Winner(lg, s, n + 1) \in {0, n + 1} /\ n + 1 \in Nat
    <2>1. Winner(lg, s, n + 1) =
             IF Winner(lg, s, n) = 0 /\ Decides(lg, s, n) THEN n + 1 ELSE Winner(lg, s, n)
      BY WinnerNext
    <2>2. QED
      BY <2>1
  <1>2. /\ ChainNodes(lg, s, n) = Nodes(lg, s, n) /\ ~Wrong(lg, s, n)
        /\ ChainNodes(lg, s, n + 1) = Nodes(lg, s, n + 1)
        /\ Broken(lg, s, n + 1) <=> Wrong(lg, s, n + 1)
    BY <1>1, ReadSoFar
  <1>3. /\ FirstResult(lg, s, n) \in 0..n
        /\ FirstResult(lg, s, n + 1) =
              IF FirstResult(lg, s, n) = 0 /\ Hit(lg, s, n + 1, "result") THEN n + 1
              ELSE FirstResult(lg, s, n)
    <2>1. FirstResult(lg, s, n) \in 0..n
      BY FirstNext
    <2>2. QED
      BY <2>1, FirstNext, ZenonT(60)
  <1>4. /\ Matching(lg, s, n, "append") \subseteq 1..n
        /\ Matching(lg, s, n + 1, "append") =
              IF Hit(lg, s, n + 1, "append") THEN Matching(lg, s, n, "append") \cup {n + 1}
              ELSE Matching(lg, s, n, "append")
    <2>1. Matching(lg, s, n, "append") \subseteq 1..n
      BY DEF Matching
    <2>2. (s + 1)..(n + 1) = ((s + 1)..n) \cup {n + 1}
      OBVIOUS
    <2>3. QED
      BY <2>1, <2>2 DEF Matching, Hit
  <1>5. ~(Hit(lg, s, n + 1, "append") /\ Hit(lg, s, n + 1, "result"))
    BY DEF Hit
  <1>6. Nodes(lg, s, n) \subseteq 1..n
    <2>1. CASE FirstResult(lg, s, n) = 0
      BY <2>1 DEF Nodes
    <2>2. CASE FirstResult(lg, s, n) # 0
      <3>1. FirstResult(lg, s, n) \in 1..n
        BY <1>3, <2>2
      <3>2. QED
        BY <1>4, <2>2, <3>1 DEF Nodes
    <2>3. QED
      BY <2>1, <2>2
  <1>7. FirstResult(lg, s, n) = 0 => Matching(lg, s, n, "append") = {}
    <2> SUFFICES ASSUME FirstResult(lg, s, n) = 0, NEW i \in Matching(lg, s, n, "append")
                 PROVE  FALSE
      OBVIOUS
    <2>1. {j \in Nodes(lg, s, n) : j < i} = {}
      BY DEF Nodes
    <2>2. Latest({j \in Nodes(lg, s, n) : j < i}) = 0
      BY <2>1 DEF Latest
    <2>3. Loose(lg, s, n, i)
      BY <2>2 DEF Loose
    <2>4. QED
      BY <1>2, <2>3 DEF Wrong
  <1>8. Nodes(lg, s, n + 1) =
           IF Links(lg, s, n) THEN Nodes(lg, s, n) \cup {n + 1} ELSE Nodes(lg, s, n)
    <2>1. n + 1 # 0
      OBVIOUS
    <2>2. CASE FirstResult(lg, s, n) = 0
      BY <1>3, <1>4, <1>5, <1>7, <2>1, <2>2 DEF Nodes, Links
    <2>3. CASE FirstResult(lg, s, n) # 0
      BY <1>3, <1>4, <2>3 DEF Nodes, Links
    <2>4. QED
      BY <2>2, <2>3
  <1>9. /\ ChainTail(lg, s, n) = Latest(Nodes(lg, s, n))
        /\ ChainTail(lg, s, n + 1) = Latest(Nodes(lg, s, n + 1))
    BY <1>2 DEF ChainTail
  <1>10. /\ Latest(Nodes(lg, s, n)) \in 0..n
         /\ Latest(Nodes(lg, s, n)) = 0 <=> Nodes(lg, s, n) = {}
         /\ Latest(Nodes(lg, s, n) \cup {n + 1}) = n + 1
    BY <1>6, ExtremesNext
  <1>11. Nodes(lg, s, n) = {} <=> FirstResult(lg, s, n) = 0
    BY DEF Nodes
  <1>12. \A i \in Matching(lg, s, n, "append") : ~Loose(lg, s, n + 1, i)
    <2> TAKE i \in Matching(lg, s, n, "append")
    <2>1. i \in 1..n
      BY <1>4
    <2>2. {j \in Nodes(lg, s, n + 1) : j < i} = {j \in Nodes(lg, s, n) : j < i}
      BY <1>8, <2>1
    <2>3. ~Loose(lg, s, n, i)
      BY <1>2 DEF Wrong
    <2>4. QED
      BY <2>2, <2>3 DEF Loose
  <1>13. Hit(lg, s, n + 1, "append")
            => (Loose(lg, s, n + 1, n + 1) <=> FirstResult(lg, s, n) = 0
                                              \/ lg[n + 1].prev # ChainTail(lg, s, n))
    <2> HAVE Hit(lg, s, n + 1, "append")
    <2>1. {j \in Nodes(lg, s, n + 1) : j < n + 1} = Nodes(lg, s, n)
      BY <1>6, <1>8
    <2>2. QED
      BY <1>9, <1>10, <1>11, <2>1 DEF Loose
  <1>14. Wrong(lg, s, n + 1) <=> Misfits(lg, s, n)
    <2>1. CASE Hit(lg, s, n + 1, "append")
      <3>1. ~Hit(lg, s, n + 1, "result") /\ FirstResult(lg, s, n + 1) = FirstResult(lg, s, n)
        BY <1>3, <1>5, <2>1
      <3>2. Matching(lg, s, n + 1, "append") = Matching(lg, s, n, "append") \cup {n + 1}
        BY <1>4, <2>1
      <3>3. ~(~lg[s].streaming /\ FirstResult(lg, s, n) # 0 /\ ~lg[FirstResult(lg, s, n)].body)
        BY <1>2 DEF Wrong
      <3>4. Wrong(lg, s, n + 1) <=> ~lg[s].streaming \/ Loose(lg, s, n + 1, n + 1)
        BY <1>12, <3>1, <3>2, <3>3 DEF Wrong
      <3>5. QED
        BY <1>13, <2>1, <3>1, <3>4 DEF Misfits
    <2>2. CASE ~Hit(lg, s, n + 1, "append")
      <3>1. Matching(lg, s, n + 1, "append") = Matching(lg, s, n, "append")
        BY <1>4, <2>2
      <3>2. ~(~lg[s].streaming /\ Matching(lg, s, n, "append") # {})
        BY <1>2 DEF Wrong
      <3>3. Wrong(lg, s, n + 1) <=>
               /\ ~lg[s].streaming /\ FirstResult(lg, s, n + 1) # 0
               /\ ~lg[FirstResult(lg, s, n + 1)].body
        BY <1>12, <3>1, <3>2 DEF Wrong
      <3>4. CASE FirstResult(lg, s, n) = 0 /\ Hit(lg, s, n + 1, "result")
        <4>1. FirstResult(lg, s, n + 1) = n + 1 /\ n + 1 # 0
          BY <1>3, <3>4
        <4>2. QED
          BY <2>2, <3>3, <3>4, <4>1 DEF Misfits
      <3>5. CASE ~(FirstResult(lg, s, n) = 0 /\ Hit(lg, s, n + 1, "result"))
        <4>1. FirstResult(lg, s, n + 1) = FirstResult(lg, s, n)
          BY <1>3, <3>5
        <4>2. ~(~lg[s].streaming /\ FirstResult(lg, s, n) # 0 /\ ~lg[FirstResult(lg, s, n)].body)
          BY <1>2 DEF Wrong
        <4>3. QED
          BY <2>2, <3>3, <3>5, <4>1, <4>2 DEF Misfits
      <3>6. QED
        BY <3>4, <3>5
    <2>3. QED
      BY <2>1, <2>2
  <1>15. QED
    BY <1>2, <1>8, <1>9, <1>10, <1>11, <1>14

\* Right after a request nothing has been said of it.
LEMMA ReadNothing ==
    ASSUME NEW lg, NEW s \in Nat
    PROVE  Winner(lg, s, s) = 0 /\ ChainTail(lg, s, s) = 0 /\ ~Broken(lg, s, s)
  <1>1. /\ Winner(lg, s, s) = 0 /\ FirstResult(lg, s, s) = 0
        /\ Matching(lg, s, s, "append") = {}
    <2>1. s <= s
      OBVIOUS
    <2>2. Winner(lg, s, s) = 0
      BY <2>1, WinnerNext
    <2>3. FirstResult(lg, s, s) = 0
      BY <2>1, FirstNext
    <2>4. \A kind : Matching(lg, s, s, kind) = {}
      BY <2>1, MatchingNext
    <2>5. QED
      BY <2>2, <2>3, <2>4
  <1>2. ChainNodes(lg, s, s) = {} /\ ~Broken(lg, s, s)
    BY <1>1, ReadSoFar DEF Nodes, Wrong
  <1>3. QED
    BY <1>1, <1>2 DEF ChainTail, Latest

\* What the first n messages say does not depend on the later ones.
LEMMA ReadPrefix ==
    ASSUME NEW lg, NEW lh, NEW n \in Nat, NEW s \in 1..n, \A i \in 1..n : lh[i] = lg[i]
    PROVE  /\ Winner(lh, s, n) = Winner(lg, s, n)
           /\ FirstResult(lh, s, n) = FirstResult(lg, s, n)
           /\ ChainTail(lh, s, n) = ChainTail(lg, s, n)
           /\ Broken(lh, s, n) <=> Broken(lg, s, n)
  <1>1. ASSUME NEW k \in 0..n, NEW kind PROVE Matching(lh, s, k, kind) = Matching(lg, s, k, kind)
    BY DEF Matching
  <1>2. ASSUME NEW k \in 0..n
        PROVE  /\ FirstResult(lh, s, k) = FirstResult(lg, s, k)
               /\ FirstResult(lg, s, k) \in 0..k
    <2>1. FirstResult(lh, s, k) = FirstResult(lg, s, k)
      BY <1>1 DEF FirstResult
    <2>2. Matching(lg, s, k, "result") \subseteq 1..k
      BY DEF Matching
    <2>3. FirstResult(lg, s, k) \in 0..k
      <3>1. k \in Nat
        OBVIOUS
      <3>2. QED
        BY <2>2, <3>1, ExtremesNext DEF FirstResult
    <2>4. QED
      BY <2>1, <2>3
  <1>3. ASSUME NEW k \in 0..n, FirstResult(lg, s, k) # 0
        PROVE  lh[FirstResult(lg, s, k)] = lg[FirstResult(lg, s, k)]
    BY <1>2, <1>3
  <1>4. Winner(lh, s, n) = Winner(lg, s, n) /\ Winner(lg, s, n) \in 0..n
    <2>1. Deciding(lh, s, n) = Deciding(lg, s, n)
      <3>1. /\ Matching(lh, s, n, "end") = Matching(lg, s, n, "end")
            /\ Matching(lh, s, n, "cancel") = Matching(lg, s, n, "cancel")
            /\ lh[s] = lg[s]
        BY <1>1
      <3>2. FirstResult(lh, s, n) = FirstResult(lg, s, n)
        BY <1>2
      <3>3. FirstResult(lg, s, n) # 0 => lh[FirstResult(lg, s, n)] = lg[FirstResult(lg, s, n)]
        BY <1>3
      <3>4. QED
        BY <3>1, <3>2, <3>3, Zenon DEF Deciding
    <2>2. /\ Winner(lg, s, n) = Earliest(Deciding(lg, s, n))
          /\ Winner(lh, s, n) = Earliest(Deciding(lh, s, n))
      BY DEF Winner, Deciding
    <2>3. Winner(lg, s, n) \in 0..n
      <3>1. s \in Nat /\ s <= n
        OBVIOUS
      <3>2. QED
        BY <3>1, WinnerNext
    <2>4. QED
      BY <2>1, <2>2, <2>3
  <1> DEFINE last == IF Winner(lg, s, n) = 0 THEN n ELSE Winner(lg, s, n)
  <1>5. last \in 0..n
    BY <1>4
  <1>6. /\ FirstResult(lh, s, last) = FirstResult(lg, s, last)
        /\ FirstResult(lg, s, last) # 0
              => lh[FirstResult(lg, s, last)] = lg[FirstResult(lg, s, last)]
        /\ Matching(lh, s, last, "append") = Matching(lg, s, last, "append")
        /\ lh[s] = lg[s]
        /\ \A i \in Matching(lg, s, last, "append") : lh[i] = lg[i]
    <2> HIDE DEF last
    <2>1. \A i \in Matching(lg, s, last, "append") : i \in 1..n
      BY <1>5 DEF Matching
    <2>2. QED
      BY <1>1, <1>2, <1>3, <1>5, <2>1
  <1>7. ChainNodes(lh, s, n) = ChainNodes(lg, s, n)
    BY <1>4, <1>6, Zenon DEF ChainNodes
  <1>8. Broken(lh, s, n) <=> Broken(lg, s, n)
    BY <1>4, <1>6, <1>7, Zenon DEF Broken
  <1>9. QED
    BY <1>2, <1>4, <1>7, <1>8 DEF ChainTail
\* Earliest returns the least element.
LEMMA EarliestIs ==
    ASSUME NEW n \in Nat, NEW S, S \subseteq 1..n
    PROVE  /\ S # {} => Earliest(S) \in S /\ \A j \in S : Earliest(S) <= j
           /\ \A e \in S : (\A j \in S : e <= j) => Earliest(S) = e
           /\ S = {} => Earliest(S) = 0
  <1>1. IsFiniteSet(S) /\ S \subseteq Nat
    <2>1. IsFiniteSet(1..n)
      BY FS_Interval
    <2>2. IsFiniteSet(S)
      BY <2>1, FS_Subset
    <2>3. S \subseteq Nat
      OBVIOUS
    <2>4. QED
      BY <2>2, <2>3
  <1>2. S # {} => \E i \in S : \A j \in S : i <= j
    BY <1>1, Extremes
  <1>3. S # {} => Earliest(S) \in S /\ \A j \in S : Earliest(S) <= j
    BY <1>2 DEF Earliest
  <1>4. ASSUME NEW e \in S, \A j \in S : e <= j PROVE Earliest(S) = e
    <2>1. Earliest(S) \in S /\ Earliest(S) <= e /\ e <= Earliest(S)
      BY <1>3, <1>4
    <2>2. e \in Nat /\ Earliest(S) \in Nat
      BY <1>1, <2>1
    <2>3. QED
      BY <2>1, <2>2
  <1>5. QED
    BY <1>3, <1>4 DEF Earliest

\* What the first k of n messages have as first result.
LEMMA FirstAt ==
    ASSUME NEW lg, NEW s \in Nat, NEW n \in Nat
    PROVE  LET f == FirstResult(lg, s, n)
           IN  /\ f \in 0..n
               /\ f # 0 => f > s /\ Hit(lg, s, f, "result")
               /\ \A i \in Matching(lg, s, n, "result") : f # 0 /\ f <= i
               /\ \A k \in 0..n : FirstResult(lg, s, k) = IF f # 0 /\ f <= k THEN f ELSE 0
  <1> DEFINE M == Matching(lg, s, n, "result")
             f == FirstResult(lg, s, n)
  <1>1. M \subseteq 1..n /\ \A i \in M : i > s /\ Hit(lg, s, i, "result")
    BY DEF Matching, Hit
  <1>2. f = Earliest(M)
    BY DEF FirstResult
  <1>3. (M # {} => f \in M /\ \A j \in M : f <= j) /\ (M = {} => f = 0)
    <2>1. M \subseteq 1..n /\ f = Earliest(M)
      BY <1>1, <1>2
    <2> HIDE DEF M, f
    <2>2. QED
      BY <2>1, EarliestIs
  <1>4. f \in 0..n /\ (f # 0 <=> M # {})
    <2>1. \A i \in M : i \in 0..n /\ i # 0
      BY <1>1
    <2> HIDE DEF M, f
    <2>2. QED
      BY <1>3, <2>1
  <1>5. ASSUME NEW k \in 0..n
        PROVE  FirstResult(lg, s, k) = IF f # 0 /\ f <= k THEN f ELSE 0
    <2> DEFINE K == Matching(lg, s, k, "result")
    <2>1. K = {i \in M : i <= k}
      BY DEF Matching
    <2>2. K \subseteq 1..k
      BY DEF Matching
    <2>3. FirstResult(lg, s, k) = Earliest(K)
      BY DEF FirstResult
    <2> HIDE DEF K, M, f
    <2>4. CASE f # 0 /\ f <= k
      <3>1. f \in K /\ \A j \in K : f <= j
        BY <1>3, <1>4, <2>1, <2>4
      <3>2. k \in Nat
        OBVIOUS
      <3>3. Earliest(K) = f
        BY <2>2, <3>1, <3>2, EarliestIs
      <3>4. QED
        BY <2>3, <2>4, <3>3
    <2>5. CASE ~(f # 0 /\ f <= k)
      <3>1. K = {}
        <4> SUFFICES ASSUME NEW i \in K PROVE FALSE
          OBVIOUS
        <4>1. i \in M /\ i <= k /\ i \in 1..n
          BY <1>1, <2>1
        <4>2. f \in M /\ f <= i /\ f # 0 /\ f \in 0..n
          BY <1>3, <1>4, <4>1
        <4>3. QED
          BY <2>5, <4>1, <4>2
      <3>2. QED
        BY <2>3, <2>5, <3>1 DEF Earliest
    <2>6. QED
      BY <2>4, <2>5
  <1>6. QED
    BY <1>1, <1>3, <1>4, <1>5
=============================================================================
