---------------------------- MODULE HistoryProofs ----------------------------
(***************************************************************************)
(* Proofs about the rotation records of a policy, for any history limit:   *)
(* pruning takes the oldest only, leaves what it was told to leave, and,   *)
(* while no two records are of one second, spares the record that          *)
(* lastRotationRecord names.                                               *)
(***************************************************************************)
EXTENDS History, FiniteSetTheorems, TLAPS

-----------------------------------------------------------------------------
(* The inductive invariant *)

\* Records are numbered in the order of their creation, and the clock of the
\* API server does not go back.
InOrder ==
  /\ \A n \in Made : created[n] <= now
  /\ \A m, n \in Made : m <= n => created[m] <= created[n]

\* The other records that are no older than n.
Younger(n) == {m \in Made \ {n} : created[m] >= created[n]}

\* Record n may go: the limit is made up of others no older than it.
Expendable(n) == Cardinality(Younger(n)) >= HistoryLimit

\* The items a prune has still to delete.
Marked == {doomed[k] : k \in DOMAIN doomed}

\* What is gone, and what is to go, may go.
OnlyExpendable == \A n \in (Made \ Kept) \cup Marked : Expendable(n)

\* The record in hand is the youngest, as no other worker makes any: it is there
\* until the history is pruned, and the status names it by then.
InHand ==
  /\ pc # "delete" => doomed = <<>>
  /\ pc # "idle" => record \in {0, Len(created)}
  /\ pc \in {"rotate", "status"} => record \in Kept \cup {0}
  /\ pc \in {"list", "delete"} => last = record

\* The record that the status names is neither gone nor to go.
LastSpared == DistinctAges => last \in (Kept \ Marked) \cup {0}

\* Of its list a prune leaves no more than the limit, once it has deleted what
\* it has still to delete.
LeavesLimit ==
  pc = "delete" /\ ~missed => Cardinality((items \cap Kept) \ Marked) <= HistoryLimit

IInv == TypeOK /\ InOrder /\ OnlyExpendable /\ InHand /\ LastSpared /\ LeavesLimit

-----------------------------------------------------------------------------
(* The operators *)

\* The cache and the server hold records that were made.
LEMMA HeldAreMade ==
  ASSUME TypeOK
  PROVE  Listed \in SUBSET Made /\ Kept \in SUBSET Made
BY DEF TypeOK, Listed, Kept, Last

\* The server holds the last of the sets: that the watch shows an earlier one,
\* or that a new process lists them afresh, does not change it.
LEMMA KeptIsLatest ==
  ASSUME TypeOK
  PROVE  /\ \A held : versions' = Append(versions, held) => Kept' = held
         /\ Len(versions) > 1 /\ versions' = Tail(versions) => Kept' = Kept
         /\ versions' = <<Kept>> => Kept' = Kept
<1>1. ASSUME NEW held, versions' = Append(versions, held) PROVE Kept' = held
  BY <1>1 DEF TypeOK, Kept, Last
<1>2. ASSUME Len(versions) > 1, versions' = Tail(versions) PROVE Kept' = Kept
  BY <1>2 DEF TypeOK, Kept, Last
<1>3. ASSUME versions' = <<Kept>> PROVE Kept' = Kept
  <2>1. Kept' = versions'[Len(versions')]
    BY DEF Kept, Last
  <2> QED
    BY <1>3, <2>1
<1> QED
  BY <1>1, <1>2, <1>3

\* The sets of records the watch has still to show change at their ends only.
LEMMA QueueStays ==
  ASSUME NEW S, NEW q \in Seq(S)
  PROVE  /\ \A held \in S : Append(q, held) \in Seq(S) /\ Append(q, held) # <<>>
         /\ Len(q) > 1 => Tail(q) \in Seq(S) /\ Tail(q) # <<>>
         /\ \A held \in S : <<held>> \in Seq(S) /\ <<held>> # <<>>
OBVIOUS

LEMMA AgesAreNaturals ==
  ASSUME TypeOK
  PROVE  now \in Nat /\ \A n \in Made : created[n] \in Nat
BY DEF TypeOK, Made

\* There are finitely many records.
LEMMA MadeFinite ==
  ASSUME TypeOK
  PROVE  Made = 1..Len(created) /\ Len(created) \in Nat /\ IsFiniteSet(Made)
<1>1. Made = 1..Len(created) /\ Len(created) \in Nat
  BY DEF TypeOK, Made
<1> QED
  BY <1>1, FS_Interval

LEMMA YoungerFinite ==
  ASSUME TypeOK, NEW n
  PROVE  IsFiniteSet(Younger(n)) /\ Cardinality(Younger(n)) \in Nat
BY MadeFinite, FS_Subset, FS_CardinalityType DEF Younger

\* A sorted list has every item once: from the cache nothing is left out and
\* nothing comes twice.
LEMMA SortedFacts ==
  ASSUME TypeOK, NEW s \in SortedItems
  PROVE  LET N == Cardinality(Listed)
         IN  /\ N \in Nat
             /\ s \in [1..N -> Listed] /\ s \in Seq(Listed) /\ Len(s) = N
             /\ \A i, j \in 1..N : i # j => s[i] # s[j]
             /\ \A n \in Listed : \E j \in 1..N : s[j] = n
             /\ \A i, j \in 1..N : i < j => created[s[i]] <= created[s[j]]
<1> DEFINE N == Cardinality(Listed)
<1>1. IsFiniteSet(Listed) /\ N \in Nat
  BY HeldAreMade, MadeFinite, FS_Subset, FS_CardinalityType
<1>2. s \in [1..N -> Listed] /\ \A i, j \in 1..N : i # j => s[i] # s[j]
  BY DEF SortedItems, SetToSeqs
<1>3. s \in Seq(Listed) /\ Len(s) = N /\ DOMAIN s = 1..N
  BY <1>1, <1>2
<1>4. s \in Injection(1..N, Listed)
  BY <1>2 DEF Injection, IsInjective
<1>5. Cardinality(1..N) = N
  BY <1>1, FS_Interval
<1>6. s \in Surjection(1..N, Listed)
  BY <1>1, <1>4, <1>5, FS_Injection
<1>7. \A n \in Listed : \E j \in 1..N : s[j] = n
  BY <1>6 DEF Surjection
<1>8. \A i, j \in 1..N : i < j => created[s[i]] <= created[s[j]]
  BY <1>3 DEF SortedItems, Sorted
<1> QED
  BY <1>1, <1>2, <1>3, <1>7, <1>8

\* What pruneHistory leaves of its list are as many records as the limit says.
LEMMA RestIsLimit ==
  ASSUME TypeOK, NEW s \in SortedItems, Excess > 0
  PROVE  LET Rest == {s[j] : j \in (Excess + 1)..Cardinality(Listed)}
         IN  IsFiniteSet(Rest) /\ Cardinality(Rest) = HistoryLimit
<1> DEFINE N == Cardinality(Listed)
           Places == (Excess + 1)..N
           Rest == {s[j] : j \in Places}
           f == [j \in Places |-> s[j]]
<1>1. N \in Nat /\ Excess \in Nat /\ N = Excess + HistoryLimit
  BY SortedFacts, HistoryLimitAssumption DEF Excess
<1>2. IsFiniteSet(Places) /\ Cardinality(Places) = HistoryLimit
  BY <1>1, HistoryLimitAssumption, FS_Interval
<1>3. Places \subseteq 1..N
  BY <1>1
<1>4. f \in Bijection(Places, Rest)
  <2>1. f \in [Places -> Rest]
    OBVIOUS
  <2>2. \A i, j \in Places : f[i] = f[j] => i = j
    BY <1>3, SortedFacts
  <2>3. \A r \in Rest : \E j \in Places : f[j] = r
    OBVIOUS
  <2> QED
    BY <2>1, <2>2, <2>3 DEF Bijection, Injection, IsInjective, Surjection
<1> QED
  BY <1>2, <1>4, FS_Bijection DEF ExistsBijection

-----------------------------------------------------------------------------
(* The steps *)

\* As records are made only, a record that may go may go for good.
LEMMA StaysExpendable ==
  ASSUME TypeOK, TypeOK', NEW n \in Made, Expendable(n),
         Made \subseteq Made', \A m \in Made : created'[m] = created[m]
  PROVE  Expendable(n)'
<1>1. Younger(n) \subseteq Younger(n)'
  BY DEF Younger
<1>2. IsFiniteSet(Made')
  <2>1. Made' = 1..Len(created') /\ Len(created') \in Nat
    BY DEF TypeOK, Made
  <2> QED
    BY <2>1, FS_Interval
<1>3. IsFiniteSet(Younger(n)') /\ Cardinality(Younger(n)') \in Nat
  <2>1. Younger(n)' \in SUBSET (Made')
    BY DEF Younger
  <2> QED
    BY <1>2, <2>1, FS_Subset, FS_CardinalityType
<1>4. Cardinality(Younger(n)) <= Cardinality(Younger(n)')
  BY <1>1, <1>3, FS_Subset
<1> QED
  BY <1>3, <1>4, YoungerFinite, HistoryLimitAssumption DEF Expendable

\* The steps that neither make nor delete a record, and mark none: they leave
\* the promises about records as they are.
LEMMA SameRecords ==
  ASSUME IInv, TypeOK', created' = created, Kept' = Kept, Marked' \subseteq Marked, now' >= now,
         InHand', last' \in (Kept \ Marked) \cup {0, last}, LeavesLimit'
  PROVE  IInv'
<1>1. Made' = Made /\ (DistinctAges' <=> DistinctAges)
  BY DEF Made, DistinctAges
<1>2. \A n : Expendable(n)' <=> Expendable(n)
  BY DEF Expendable, Younger, Made
<1>3. InOrder'
  <2>1. \A n \in Made : created[n] \in Nat /\ now \in Nat /\ now' \in Nat
    BY DEF IInv, TypeOK, Made
  <2> QED
    BY <1>1, <2>1 DEF IInv, InOrder
<1>4. OnlyExpendable'
  BY <1>1, <1>2 DEF IInv, OnlyExpendable
<1>5. LastSpared'
  BY <1>1 DEF IInv, LastSpared
<1> QED
  BY <1>3, <1>4, <1>5 DEF IInv

\* Back from the reconcile nothing is marked, and nothing is in hand.
LEMMA Returned ==
  ASSUME Return
  PROVE  Marked' = {} /\ InHand' /\ LeavesLimit' /\ pc' = "idle"
         /\ record' = 0 /\ items' = {} /\ doomed' = <<>> /\ missed' = FALSE
BY DEF Return, Marked, InHand, LeavesLimit

LEMMA ReturnStep ==
  ASSUME IInv, Return, UNCHANGED <<now, created>>, Kept' = Kept,
         versions' \in Seq(SUBSET Made), versions' # <<>>,
         last' \in Made \cup {0}, last' \in (Kept \ Marked) \cup {0, last}
  PROVE  IInv'
<1>1. TypeOK'
  BY Returned DEF IInv, TypeOK, Made
<1>2. now' >= now
  BY DEF IInv, TypeOK
<1> QED
  BY <1>1, <1>2, Returned, SameRecords

LEMMA TickStep == IInv /\ Tick => IInv'
<1> SUFFICES ASSUME IInv, Tick PROVE IInv'
  OBVIOUS
<1>1. now' = now + 1 /\ UNCHANGED <<created, versions, pc, record, items, doomed, missed, last>>
  BY DEF Tick, prune
<1>2. TypeOK' /\ now' >= now
  BY <1>1 DEF IInv, TypeOK, Made
<1>3. Kept' = Kept /\ Marked' = Marked
  BY <1>1 DEF Kept, Marked
<1>4. InHand' /\ LeavesLimit'
  BY <1>1, <1>3 DEF IInv, InHand, LeavesLimit
<1> QED
  BY <1>1, <1>2, <1>3, <1>4, SameRecords

LEMMA RecordSyncStep == IInv /\ RecordSync => IInv'
<1> SUFFICES ASSUME IInv, RecordSync PROVE IInv'
  OBVIOUS
<1>1. /\ Len(versions) > 1 /\ versions' = Tail(versions)
      /\ UNCHANGED <<now, created, pc, record, items, doomed, missed, last>>
  BY DEF RecordSync, prune
<1>2. TypeOK' /\ now' >= now
  <2>1. versions' \in Seq(SUBSET Made) /\ versions' # <<>>
    BY <1>1, QueueStays DEF IInv, TypeOK
  <2> QED
    BY <1>1, <2>1 DEF IInv, TypeOK, Made
<1>3. Kept' = Kept /\ Marked' = Marked
  BY <1>1, KeptIsLatest DEF IInv, Marked
<1>4. InHand' /\ LeavesLimit'
  BY <1>1, <1>3 DEF IInv, InHand, LeavesLimit
<1> QED
  BY <1>1, <1>2, <1>3, <1>4, SameRecords

\* A new record is the youngest, and the one in hand if the server's answer
\* came; nothing is being deleted meanwhile.
LEMMA CreateRecordStep == IInv /\ CreateRecord => IInv'
<1> SUFFICES ASSUME IInv, CreateRecord PROVE IInv'
  OBVIOUS
<1> DEFINE new == Len(created) + 1
<1>1. PICK ok \in BOOLEAN :
        /\ record' = Name(ok)
        /\ \/ /\ created' = Append(created, now)
              /\ versions' = Append(versions, Kept \cup {new})
           \/ ~ok /\ UNCHANGED <<created, versions>>
  BY DEF CreateRecord
<1>2. /\ pc = "idle" /\ pc' = "rotate" /\ doomed = <<>>
      /\ UNCHANGED <<now, items, doomed, missed, last>>
  BY DEF CreateRecord, prune, IInv, InHand
<1>3. Marked = {} /\ Marked' = {} /\ LeavesLimit'
  BY <1>2 DEF Marked, LeavesLimit
<1>4. CASE ~ok /\ UNCHANGED <<created, versions>>
  <2>1. record' = 0 /\ Kept' = Kept /\ Made' = Made
    BY <1>1, <1>4 DEF Name, Kept, Made
  <2>2. TypeOK' /\ now' >= now
    BY <1>2, <1>4, <2>1 DEF IInv, TypeOK, Made
  <2>3. InHand'
    BY <1>2, <2>1 DEF InHand
  <2> QED
    BY <1>2, <1>3, <1>4, <2>1, <2>2, <2>3, SameRecords
<1>5. CASE created' = Append(created, now) /\ versions' = Append(versions, Kept \cup {new})
  <2>1. /\ created' \in Seq(Nat) /\ Len(created') = new
        /\ Made' = Made \cup {new} /\ new \notin Made /\ new \in Nat /\ new # 0
        /\ created'[new] = now
        /\ \A m \in Made : created'[m] = created[m] /\ created[m] \in Nat /\ m \in Nat /\ m < new
    BY <1>5 DEF IInv, TypeOK, Made
  <2>2. Kept' = Kept \cup {new} /\ Kept \in SUBSET Made
    BY <1>5, KeptIsLatest, HeldAreMade DEF IInv
  <2>3. TypeOK'
    <3>1. versions' \in Seq(SUBSET Made') /\ versions' # <<>>
      <4>1. versions \in Seq(SUBSET Made') /\ Kept \cup {new} \in SUBSET Made'
        BY <2>1, <2>2 DEF IInv, TypeOK
      <4> QED
        BY <1>5, <4>1
    <3>2. record' \in Made' \cup {0}
      BY <1>1, <2>1 DEF Name
    <3> QED
      BY <1>2, <2>1, <3>1, <3>2 DEF IInv, TypeOK
  <2>4. InOrder'
    <3>1. now \in Nat /\ now' = now /\ \A m \in Made : created[m] <= now
      BY <1>2, AgesAreNaturals DEF IInv, InOrder
    <3>2. \A m \in Made' : created'[m] <= now'
      BY <2>1, <3>1
    <3>3. ASSUME NEW m \in Made', NEW n \in Made', m <= n PROVE created'[m] <= created'[n]
      <4>1. CASE n = new
        BY <2>1, <3>1, <3>2, <4>1
      <4>2. CASE n # new
        BY <2>1, <3>3, <4>2 DEF IInv, InOrder
      <4> QED
        BY <4>1, <4>2
    <3> QED
      BY <3>2, <3>3 DEF InOrder
  <2>5. OnlyExpendable'
    <3> SUFFICES ASSUME NEW n \in Made' \ Kept' PROVE Expendable(n)'
      BY <1>3 DEF OnlyExpendable
    <3>1. n \in Made /\ Expendable(n)
      BY <2>1, <2>2 DEF IInv, OnlyExpendable
    <3> QED
      BY <2>1, <2>3, <3>1, StaysExpendable DEF IInv
  <2>6. InHand'
    BY <1>1, <1>2, <2>1, <2>2 DEF Name, InHand
  <2>7. LastSpared'
    <3> SUFFICES ASSUME DistinctAges' PROVE last' \in (Kept' \ Marked') \cup {0}
      BY DEF LastSpared
    <3>1. DistinctAges
      BY <2>1 DEF DistinctAges
    <3> QED
      BY <1>2, <1>3, <2>2, <3>1 DEF IInv, LastSpared
  <2> QED
    BY <1>3, <2>3, <2>4, <2>5, <2>6, <2>7 DEF IInv
<1> QED
  BY <1>1, <1>4, <1>5

LEMMA RotateStep == IInv /\ Rotate => IInv'
<1> SUFFICES ASSUME IInv, Rotate PROVE IInv'
  OBVIOUS
<1>1. pc = "rotate" /\ UNCHANGED <<now, created, versions, last>> /\ doomed = <<>>
  BY DEF Rotate, IInv, InHand
<1>2. Kept' = Kept
  BY <1>1 DEF Kept
<1>3. CASE Fail
  BY <1>1, <1>2, <1>3, ReturnStep DEF Fail, IInv, TypeOK
<1>4. CASE pc' = "status" /\ UNCHANGED <<record, prune>>
  <2>1. TypeOK' /\ now' >= now
    BY <1>1, <1>4 DEF IInv, TypeOK, Made, prune
  <2>2. Marked' = Marked
    BY <1>4 DEF Marked, prune
  <2>3. InHand' /\ LeavesLimit'
    BY <1>1, <1>2, <1>4 DEF IInv, InHand, LeavesLimit, prune
  <2> QED
    BY <1>1, <1>2, <2>1, <2>2, <2>3, SameRecords
<1> QED
  BY <1>3, <1>4 DEF Rotate

\* The status comes to name the record in hand, which is there.
LEMMA UpdateStatusStep == IInv /\ UpdateStatus => IInv'
<1> SUFFICES ASSUME IInv, UpdateStatus PROVE IInv'
  OBVIOUS
<1>1. /\ pc = "status" /\ UNCHANGED <<now, created, versions>> /\ doomed = <<>>
      /\ record \in Kept \cup {0}
  BY DEF UpdateStatus, IInv, InHand
<1>2. Kept' = Kept /\ Marked = {}
  BY <1>1 DEF Kept, Marked
<1>3. CASE last' = record /\ pc' = "list" /\ UNCHANGED <<record, prune>>
  <2>1. TypeOK' /\ now' >= now
    BY <1>1, <1>3 DEF IInv, TypeOK, Made, prune
  <2>2. Marked' = Marked
    BY <1>3 DEF Marked, prune
  <2>3. InHand' /\ LeavesLimit'
    BY <1>1, <1>3 DEF IInv, InHand, LeavesLimit, prune
  <2> QED
    BY <1>1, <1>2, <1>3, <2>1, <2>2, <2>3, SameRecords
<1>4. CASE last' \in {last, record} /\ Return
  BY <1>1, <1>2, <1>4, ReturnStep DEF IInv, TypeOK
<1> QED
  BY <1>3, <1>4 DEF UpdateStatus

\* The oldest of the list are marked: each leaves HistoryLimit behind that are
\* no older, and none is the record just made.
LEMMA ListStep == IInv /\ List => IInv'
<1> SUFFICES ASSUME IInv, List PROVE IInv'
  OBVIOUS
<1>1. pc = "list" /\ UNCHANGED <<now, created, versions, last>> /\ doomed = <<>>
  BY DEF List, IInv, InHand
<1>2. Kept' = Kept /\ Made' = Made /\ Listed' = Listed
  BY <1>1 DEF Kept, Made, Listed
<1>3. CASE Return
  BY <1>1, <1>2, <1>3, ReturnStep DEF IInv, TypeOK
<1>4. CASE /\ Excess > 0 /\ pc' = "delete" /\ items' = Listed
           /\ \E s \in SortedItems : doomed' = SubSeq(s, 1, Excess)
           /\ UNCHANGED <<record, missed>>
  <2>1. PICK s \in SortedItems : doomed' = SubSeq(s, 1, Excess)
    BY <1>4
  <2> DEFINE N == Cardinality(Listed)
             Rest == {s[j] : j \in (Excess + 1)..N}
  <2>2. /\ N \in Nat /\ Excess \in 1..N /\ N = Excess + HistoryLimit
        /\ s \in Seq(Listed) /\ Len(s) = N
        /\ \A i, j \in 1..N : i # j => s[i] # s[j]
        /\ \A n \in Listed : \E j \in 1..N : s[j] = n
        /\ \A i, j \in 1..N : i < j => created[s[i]] <= created[s[j]]
    <3>1. TypeOK /\ Excess > 0
      BY <1>4 DEF IInv
    <3>2. N \in Nat /\ s \in Seq(Listed) /\ Len(s) = N
      BY <3>1, SortedFacts
    <3>3. Excess \in 1..N /\ N = Excess + HistoryLimit
      BY <3>1, <3>2, HistoryLimitAssumption DEF Excess
    <3> QED
      BY <3>1, <3>2, <3>3, SortedFacts
  <2>3. /\ doomed' \in Seq(Listed) /\ Len(doomed') = Excess
        /\ \A k \in 1..Excess : doomed'[k] = s[k]
    BY <2>1, <2>2
  <2>4. Listed \in SUBSET Made
    BY HeldAreMade DEF IInv
  <2>5. TypeOK'
    BY <1>1, <1>2, <1>4, <2>3, <2>4 DEF IInv, TypeOK
  <2>6. \A n \in Marked' : \E k \in 1..Excess : n = s[k]
    BY <2>3 DEF Marked
  <2>7. Rest \in SUBSET Listed /\ Listed \subseteq Marked' \cup Rest
    BY <2>2, <2>3 DEF Marked
  <2>8. IsFiniteSet(Rest) /\ Cardinality(Rest) = HistoryLimit
    BY <1>4, RestIsLimit DEF IInv
  <2>9. InOrder' /\ (DistinctAges' <=> DistinctAges)
    BY <1>1, <1>2 DEF IInv, InOrder, DistinctAges
  <2>10. OnlyExpendable'
    <3>1. ASSUME NEW n \in Marked' PROVE Expendable(n)
      <4>1. PICK k \in 1..Excess : n = s[k]
        BY <2>6
      <4>2. \A j \in (Excess + 1)..N : s[j] \in Made /\ s[j] # n /\ created[n] <= created[s[j]]
        BY <2>2, <2>4, <4>1
      <4>3. \A m \in Made : created[m] \in Nat
        BY DEF IInv, TypeOK, Made
      <4>4. n \in Made
        BY <2>2, <2>4, <4>1
      <4>5. Rest \in SUBSET Younger(n)
        BY <4>2, <4>3, <4>4 DEF Younger
      <4> QED
        BY <2>8, <4>5, YoungerFinite, FS_Subset, HistoryLimitAssumption DEF Expendable, IInv
    <3>2. \A n : Expendable(n)' <=> Expendable(n)
      BY <1>1 DEF Expendable, Younger, Made
    <3> QED
      BY <1>2, <3>1, <3>2 DEF IInv, OnlyExpendable
  <2>11. InHand'
    BY <1>1, <1>4 DEF IInv, InHand
  <2>12. LastSpared'
    <3> SUFFICES ASSUME DistinctAges, last # 0 PROVE last \notin Marked' /\ last \in Kept
      BY <1>1, <1>2, <2>9 DEF LastSpared
    <3>1. last \in Kept /\ last = Len(created) /\ last \in Made
      BY <1>1 DEF IInv, LastSpared, InHand, TypeOK
    <3>2. ASSUME last \in Marked' PROVE FALSE
      <4>1. PICK k \in 1..Excess : last = s[k]
        BY <2>6, <3>2
      <4>2. s[N] \in Made /\ s[N] # last /\ created[last] <= created[s[N]]
        BY <2>2, <2>4, <4>1, HistoryLimitAssumption
      <4>3. s[N] <= last
        BY <3>1, <4>2, MadeFinite DEF IInv
      <4>4. created[s[N]] <= created[last]
        BY <3>1, <4>2, <4>3 DEF IInv, InOrder
      <4>5. created[last] \in Nat /\ created[s[N]] \in Nat
        BY <3>1, <4>2, AgesAreNaturals DEF IInv
      <4> QED
        BY <3>1, <4>2, <4>4, <4>5 DEF DistinctAges
    <3> QED
      BY <3>1, <3>2
  <2>13. LeavesLimit'
    <3>1. ((items \cap Kept) \ Marked)' \in SUBSET Rest
      BY <1>4, <2>7
    <3> QED
      BY <2>8, <3>1, FS_Subset DEF LeavesLimit
  <2> QED
    BY <2>5, <2>9, <2>10, <2>11, <2>12, <2>13 DEF IInv
<1> QED
  BY <1>3, <1>4 DEF List

\* One mark less; the record it stood for is gone, or a delete was missed.
LEMMA DeleteRecordStep == IInv /\ DeleteRecord => IInv'
<1> SUFFICES ASSUME IInv, DeleteRecord PROVE IInv'
  OBVIOUS
<1> DEFINE n == Head(doomed)
<1>1. /\ pc = "delete" /\ doomed # <<>> /\ doomed' = Tail(doomed)
      /\ \/ n \in Kept /\ versions' = Append(versions, Kept \ {n}) /\ UNCHANGED missed
         \/ n \notin Kept /\ UNCHANGED <<versions, missed>>
         \/ missed' = TRUE /\ UNCHANGED versions
      /\ UNCHANGED <<now, created, pc, record, items, last>>
  BY DEF DeleteRecord
<1>2. doomed' \in Seq(items) /\ Marked = Marked' \cup {n} /\ n \in Marked
  <2>1. doomed \in Seq(items)
    BY DEF IInv, TypeOK
  <2>2. /\ doomed' \in Seq(items) /\ Len(doomed) \in Nat \ {0} /\ Len(doomed') = Len(doomed) - 1
        /\ DOMAIN doomed = 1..Len(doomed) /\ DOMAIN doomed' = 1..(Len(doomed) - 1)
        /\ n = doomed[1] /\ \A k \in 1..(Len(doomed) - 1) : doomed'[k] = doomed[k + 1]
    BY <1>1, <2>1
  <2>3. \A k \in 1..Len(doomed) : k = 1 \/ (k - 1 \in DOMAIN doomed' /\ doomed'[k - 1] = doomed[k])
    BY <2>2
  <2>4. Marked \subseteq Marked' \cup {n}
    BY <2>2, <2>3 DEF Marked
  <2>5. Marked' \cup {n} \subseteq Marked
    BY <2>2 DEF Marked
  <2> QED
    BY <2>2, <2>4, <2>5
<1>3. Made' = Made /\ (DistinctAges' <=> DistinctAges) /\ \A m : Expendable(m)' <=> Expendable(m)
  BY <1>1 DEF Made, DistinctAges, Expendable, Younger
<1>4. Kept' \in {Kept, Kept \ {n}}
  BY <1>1, KeptIsLatest DEF IInv, Kept
<1>5. Kept' \cap {n} = {} \/ missed'
  BY <1>1, KeptIsLatest DEF IInv, Kept
<1>6. TypeOK'
  <2>1. versions' \in Seq(SUBSET Made) /\ versions' # <<>>
    <3>1. Kept \ {n} \in SUBSET Made
      BY HeldAreMade DEF IInv
    <3>2. versions \in Seq(SUBSET Made) /\ versions # <<>>
      BY DEF IInv, TypeOK
    <3> QED
      BY <1>1, <3>1, <3>2, QueueStays
  <2> QED
    BY <1>1, <1>2, <1>3, <2>1 DEF IInv, TypeOK
<1>7. InOrder'
  BY <1>1, <1>3 DEF IInv, InOrder
<1>8. OnlyExpendable'
  BY <1>2, <1>3, <1>4 DEF IInv, OnlyExpendable
<1>9. InHand'
  BY <1>1 DEF IInv, InHand
<1>10. LastSpared'
  BY <1>1, <1>2, <1>3, <1>4 DEF IInv, LastSpared
<1>11. LeavesLimit'
  <2> SUFFICES ASSUME ~missed'
               PROVE  Cardinality(((items \cap Kept) \ Marked)') <= HistoryLimit
    BY DEF LeavesLimit
  <2> DEFINE Left == (items \cap Kept) \ Marked
  <2>1. ~missed /\ Cardinality(Left) <= HistoryLimit
    BY <1>1 DEF IInv, LeavesLimit
  <2>2. Left' \in SUBSET Left
    BY <1>1, <1>2, <1>4, <1>5
  <2>3. IsFiniteSet(Left) /\ Cardinality(Left) \in Nat
    <3>1. Left \in SUBSET Made
      BY HeldAreMade DEF IInv
    <3> QED
      BY <3>1, MadeFinite, FS_Subset, FS_CardinalityType DEF IInv
  <2>4. IsFiniteSet(Left') /\ Cardinality(Left') <= Cardinality(Left) /\ Cardinality(Left') \in Nat
    BY <2>2, <2>3, FS_Subset, FS_CardinalityType
  <2> QED
    BY <2>1, <2>3, <2>4, HistoryLimitAssumption
<1> QED
  BY <1>6, <1>7, <1>8, <1>9, <1>10, <1>11 DEF IInv

LEMMA FinishStep == IInv /\ Finish => IInv'
<1> SUFFICES ASSUME IInv, Finish PROVE IInv'
  OBVIOUS
<1>1. Return /\ UNCHANGED <<now, created, versions, last>>
  BY DEF Finish
<1>2. Kept' = Kept
  BY <1>1 DEF Kept
<1> QED
  BY <1>1, <1>2, ReturnStep DEF IInv, TypeOK

\* The process that comes next knows no more than the server holds.
LEMMA CrashStep == IInv /\ Crash => IInv'
<1> SUFFICES ASSUME IInv, Crash PROVE IInv'
  OBVIOUS
<1>1. Return /\ versions' = <<Kept>> /\ UNCHANGED <<now, created, last>>
  BY DEF Crash
<1>2. Kept' = Kept /\ Kept \in SUBSET Made
  BY <1>1, KeptIsLatest, HeldAreMade DEF IInv
<1>3. versions' \in Seq(SUBSET Made) /\ versions' # <<>>
  BY <1>1, <1>2
<1> QED
  BY <1>1, <1>2, <1>3, ReturnStep DEF IInv, TypeOK

-----------------------------------------------------------------------------
(* The theorems *)

\* The inductive invariant holds in every state: of every record that is gone or
\* marked there is enough left that is no older, and the one lastRotationRecord
\* names is not marked.
THEOREM Invariance == Spec => []IInv
<1>1. Init => IInv
  <2> SUFFICES ASSUME Init PROVE IInv
    OBVIOUS
  <2>1. created = <<>> /\ versions = <<{}>> /\ doomed = <<>>
    BY DEF Init
  <2>2. Made = {} /\ Marked = {}
    BY <2>1 DEF Made, Marked
  <2>3. Kept = {}
    BY <2>1 DEF Kept, Last
  <2>4. versions \in Seq(SUBSET Made) /\ versions # <<>>
    BY <2>1, QueueStays
  <2>5. TypeOK
    <3>1. created \in Seq(Nat) /\ doomed \in Seq(items)
      BY <2>1
    <3>2. now \in Nat /\ {record, last} \subseteq Made \cup {0} /\ items \in SUBSET Made
      BY DEF Init
    <3>3. pc \in {"idle", "rotate", "status", "list", "delete"} /\ missed \in BOOLEAN
      BY DEF Init
    <3> QED
      BY <2>4, <3>1, <3>2, <3>3 DEF TypeOK
  <2> QED
    BY <2>2, <2>3, <2>5 DEF Init, IInv, InOrder, OnlyExpendable, InHand, LastSpared, LeavesLimit
<1>2. IInv /\ [Next]_vars => IInv'
  <2> SUFFICES ASSUME IInv, [Next]_vars PROVE IInv'
    OBVIOUS
  <2>1. CASE UNCHANGED vars
    <3>1. TypeOK' /\ InHand' /\ LeavesLimit' /\ Kept' = Kept /\ Marked' = Marked
      BY <2>1 DEF vars, IInv, TypeOK, Made, InHand, Kept, LeavesLimit, Marked
    <3>2. now' >= now /\ created' = created /\ last' = last
      BY <2>1 DEF vars, IInv, TypeOK
    <3> QED
      BY <3>1, <3>2, SameRecords
  <2> QED
    BY <2>1, CreateRecordStep, RotateStep, UpdateStatusStep, ListStep, DeleteRecordStep,
       FinishStep, RecordSyncStep, TickStep, CrashStep DEF Next
<1> QED
  BY <1>1, <1>2, PTL DEF Spec

\* The state of the history is what TypeOK says: the cache, the list and the
\* items to delete name records that were made.
THEOREM TypeCorrect == Spec => []TypeOK
BY Invariance, PTL DEF IInv

\* pruneHistory deletes the oldest only, for any history limit: of every record
\* that is gone there are HistoryLimit others no older than it, although the list
\* comes out of a cache that may be behind, the sort is not stable, and creates,
\* deletes and processes fail at any point.
THEOREM NewestAreKept == Spec => []KeepsNewest
<1>1. IInv => KeepsNewest
  BY DEF IInv, OnlyExpendable, Expendable, Younger, KeepsNewest
<1> QED
  BY <1>1, Invariance, PTL

\* While no two records are of the same second, the record the status names as
\* that of the last rotation is not pruned.
THEOREM LastRecordSpared == Spec => []LastRecordThere
<1>1. IInv => LastRecordThere
  BY DEF IInv, LastSpared, LastRecordThere
<1> QED
  BY <1>1, Invariance, PTL

\* A prune that went through leaves no more than HistoryLimit of what it listed,
\* whatever the size of the list.
THEOREM PruneReachesLimit == Spec => []PrunedToLimit
<1>1. IInv => PrunedToLimit
  <2> SUFFICES ASSUME IInv, pc = "delete", doomed = <<>>, ~missed
               PROVE  Cardinality(items \cap Kept) <= HistoryLimit
    BY DEF PrunedToLimit
  <2>1. Marked = {}
    BY DEF Marked
  <2>2. (items \cap Kept) \ Marked = items \cap Kept
    BY <2>1
  <2> QED
    BY <2>2 DEF IInv, LeavesLimit
<1> QED
  BY <1>1, Invariance, PTL
=============================================================================
