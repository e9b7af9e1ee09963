------------------------------ MODULE History ------------------------------
(***************************************************************************)
(* The RotationRecords of one policy (internal/controller: the record      *)
(* steps of executeRotation, and pruneHistory): a record is created before *)
(* the provider is called, stays whatever becomes of the attempt, and is   *)
(* pruned after a success, by age, from a list that comes out of an        *)
(* informer cache.  Creation times count whole seconds.                    *)
(***************************************************************************)
EXTENDS Integers, Sequences, FiniteSets, SequencesExt

CONSTANTS
  HistoryLimit,   \* spec.policy.historyLimit, the schema's minimum is one
  MaxRecords,     \* bound on the records created
  MaxTime,        \* bound on the clock
  MayCrash        \* whether the process may die

ASSUME HistoryLimitAssumption == HistoryLimit \in Nat \ {0}
ASSUME BoundsAssumption == {MaxRecords, MaxTime} \subseteq Nat /\ MayCrash \in BOOLEAN

VARIABLES
  now,        \* the second shown by the clock of the API server
  created,    \* creation time of each record ever made, in the order of creation
  versions,   \* the sets of records the watch has still to show, oldest first
  pc,         \* where the worker is
  record,     \* the record executeRotation holds, 0 when it has no name
  items,      \* the records pruneHistory listed
  doomed,     \* those it has still to delete, in order
  missed,     \* history: a delete of this prune failed
  last        \* status.lastRotationRecord, 0 when it names none

vars == <<now, created, versions, pc, record, items, doomed, missed, last>>

Made == DOMAIN created
Listed == Head(versions)    \* what the informer cache holds
Kept == Last(versions)      \* what the API server holds

TypeOK ==
  /\ now \in Nat
  /\ created \in Seq(Nat)
  /\ versions \in Seq(SUBSET Made) /\ versions # <<>>
  /\ pc \in {"idle", "rotate", "status", "list", "delete"}
  /\ {record, last} \subseteq Made \cup {0}
  /\ items \in SUBSET Made
  /\ doomed \in Seq(items)
  /\ missed \in BOOLEAN

Init ==
  /\ now = 0
  /\ created = <<>> /\ versions = <<{}>>
  /\ pc = "idle" /\ record = 0 /\ items = {} /\ doomed = <<>> /\ missed = FALSE
  /\ last = 0

prune == <<items, doomed, missed>>

Return == pc' = "idle" /\ record' = 0 /\ items' = {} /\ doomed' = <<>> /\ missed' = FALSE

Tick ==
  /\ now < MaxTime
  /\ now' = now + 1
  /\ UNCHANGED <<created, versions, pc, record, prune, last>>

\* The watch shows the next set of records.
RecordSync ==
  /\ Len(versions) > 1
  /\ versions' = Tail(versions)
  /\ UNCHANGED <<now, created, pc, record, prune, last>>

-----------------------------------------------------------------------------
(* executeRotation, as far as records go *)

\* Variant: the name is taken for granted.
NameAssumed(ok) == Len(created) + 1

\* The server fills in the name when it answers.
Name(ok) == IF ok THEN Len(created) + 1 ELSE 0

\* r.Create: done, refused, or done without an answer.
CreateRecord ==
  /\ pc = "idle"
  /\ Len(created) < MaxRecords
  /\ pc' = "rotate"
  /\ \E ok \in BOOLEAN :
       /\ record' = Name(ok)
       /\ \/ /\ created' = Append(created, now)
             /\ versions' = Append(versions, Kept \cup {Len(created) + 1})
          \/ ~ok /\ UNCHANGED <<created, versions>>
  /\ UNCHANGED <<now, prune, last>>

\* Variant: a failure ends in the pruning of the history, too.
FailAndPrune == pc' = "list" /\ UNCHANGED <<record, prune>>

\* The provider, the mapping of the keys or the Secret failed.
Fail == Return

\* The attempt fails and its record is left behind, or it succeeds.
Rotate ==
  /\ pc = "rotate"
  /\ Fail \/ (pc' = "status" /\ UNCHANGED <<record, prune>>)
  /\ UNCHANGED <<now, created, versions, last>>

\* The status names the record before the history is pruned.  An update that
\* fails, having taken effect or not, ends the attempt without pruning.
UpdateStatus ==
  /\ pc = "status"
  /\ \/ last' = record /\ pc' = "list" /\ UNCHANGED <<record, prune>>
     \/ last' \in {last, record} /\ Return
  /\ UNCHANGED <<now, created, versions>>

-----------------------------------------------------------------------------
(* pruneHistory *)

\* sort.Slice by CreationTimestamp.  It is not stable and the cache lists in no
\* particular order, so records of one second come in any order.
Sorted(s) == \A i, j \in DOMAIN s : i < j => created[s[i]] <= created[s[j]]
SortedItems == {s \in SetToSeqs(Listed) : Sorted(s)}

\* Variant: one too many.
ExcessAndOne == Cardinality(Listed) - HistoryLimit + 1

\* Variant: one too few.
ExcessLessOne == Cardinality(Listed) - HistoryLimit - 1

Excess == Cardinality(Listed) - HistoryLimit

\* The list fails, is short enough, or its oldest items are to go.
List ==
  /\ pc = "list"
  /\ \/ Return
     \/ /\ Excess > 0
        /\ pc' = "delete"
        /\ items' = Listed
        /\ \E s \in SortedItems : doomed' = SubSeq(s, 1, Excess)
        /\ UNCHANGED <<record, missed>>
  /\ UNCHANGED <<now, created, versions, last>>

\* r.Delete of the next item: its error, a record gone already included, is
\* ignored.
DeleteRecord ==
  /\ pc = "delete" /\ doomed # <<>>
  /\ doomed' = Tail(doomed)
  /\ LET n == Head(doomed)
     IN  \/ /\ n \in Kept
            /\ versions' = Append(versions, Kept \ {n})
            /\ UNCHANGED missed
         \/ /\ n \notin Kept
            /\ UNCHANGED <<versions, missed>>
         \/ /\ missed' = TRUE
            /\ UNCHANGED versions
  /\ UNCHANGED <<now, created, pc, record, items, last>>

Finish ==
  /\ pc = "delete" /\ doomed = <<>>
  /\ Return
  /\ UNCHANGED <<now, created, versions, last>>

\* The process dies; the next one lists the records afresh.
Crash ==
  /\ MayCrash
  /\ Return
  /\ versions' = <<Kept>>
  /\ UNCHANGED <<now, created, last>>

Next ==
  \/ CreateRecord \/ Rotate \/ UpdateStatus \/ List \/ DeleteRecord \/ Finish
  \/ RecordSync \/ Tick \/ Crash

Spec == Init /\ [][Next]_vars

-----------------------------------------------------------------------------
(* Properties *)

DistinctAges == \A m, n \in Made : m # n => created[m] # created[n]

\* Pruning takes the oldest only: of every record that is gone there are
\* HistoryLimit others that are no older, however far the list it was chosen
\* from was behind and whichever creates, deletes and processes failed.
KeepsNewest ==
  \A n \in Made \ Kept :
    Cardinality({m \in Made \ {n} : created[m] >= created[n]}) >= HistoryLimit

\* The record that lastRotationRecord names is there to be read, whatever failed
\* attempts came later, as long as no two records are of the same second.
LastRecordThere == DistinctAges => last \in Kept \cup {0}

\* A prune whose every delete went through leaves no more than HistoryLimit of
\* the records it listed, records that were deleted before it included.
PrunedToLimit ==
  pc = "delete" /\ doomed = <<>> /\ ~missed => Cardinality(items \cap Kept) <= HistoryLimit

\* "LastRotationRecord references the most recent RotationRecord": the record
\* it names exists, of the same second as another or not.
LastRecordKept == last \in Kept \cup {0}

\* "HistoryLimit is the maximum number of RotationRecords to retain per policy":
\* between attempts, with the cache up to date, there are no more.
LimitKept == pc = "idle" /\ Len(versions) = 1 => Cardinality(Kept) <= HistoryLimit
=============================================================================
