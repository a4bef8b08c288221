--------------------------- MODULE ChangeLogProofs ---------------------------
(***************************************************************************)
(* Proofs about ChangeLog and the ruggers that ObservedCommissions finds   *)
(* in its log, for any validators, values and epochs and any number of     *)
(* snapshots.                                                              *)
(***************************************************************************)
EXTENDS ObservedCommissions, WellFoundedInduction, TLAPS

(* Each row was written for a snapshot that has been begun, and says what  *)
(* that snapshot says.                                                     *)
RowsObserved ==
    \A r \in log :
        /\ r.created_at \in DOMAIN snapshots
        /\ r.created_at <= begun
        /\ Present(r.created_at, r.vote_account)
        /\ r = RowOf(r.vote_account, r.created_at)

StoredBegun == \A i \in stored : i \in DOMAIN snapshots /\ i <= begun

(* Nobody writes the log while a command decides, so that what it decided  *)
(* is still true when it inserts.                                          *)
DecisionIsCurrent ==
    cmd # Idle =>
        /\ cmd.snapshot = begun
        /\ cmd.snapshot \in DOMAIN snapshots
        /\ cmd.changes = {RowOf(v, cmd.snapshot) :
               v \in {u \in VoteAccounts : Present(cmd.snapshot, u)} \ Skipped(cmd.snapshot)}

IInv ==
    /\ TypeOK
    /\ RowsObserved
    /\ StoredBegun
    /\ DecisionIsCurrent
    /\ LogTellsSnapshots
    /\ RowsAreChanges

-----------------------------------------------------------------------------
LEMMA SnapshotTyped ==
    ASSUME TypeOK, NEW i \in DOMAIN snapshots
    PROVE  /\ i \in CreatedAt /\ i \in Nat
           /\ snapshots[i] \in Snapshot
<1>1. snapshots \in Seq(Snapshot) /\ Len(snapshots) <= MaxSnapshots /\ Len(snapshots) \in Nat
  BY DEF TypeOK
<1>2. MaxSnapshots \in Nat
  BY ChangeLogAssumption DEF ChangeLogAssumption
<1> QED
  BY <1>1, <1>2 DEF CreatedAt

LEMMA RowOfTyped ==
    ASSUME TypeOK, NEW i \in DOMAIN snapshots, NEW v \in VoteAccounts, Present(i, v)
    PROVE  RowOf(v, i) \in Row
BY SnapshotTyped DEF RowOf, Row, Present, Snapshot

(* A row of the newest snapshot is the latest of its validator and repeats *)
(* what the snapshot says: the validator is skipped.                       *)
LEMMA RowAtNewestIsSkipped ==
    ASSUME TypeOK, RowsObserved, NEW r \in log, r.created_at = begun
    PROVE  r.vote_account \in Skipped(begun)
<1>1. r \in LatestRow(r.vote_account)
  BY DEF RowsObserved, LatestRow, RowsOf
<1>2. r = RowOf(r.vote_account, begun) /\ Present(begun, r.vote_account)
  BY DEF RowsObserved
<1>3. r.epoch = snapshots[begun].epoch /\ r.value = snapshots[begun].value[r.vote_account]
  BY <1>2 DEF RowOf
<1>4. r.vote_account \in VoteAccounts
  BY DEF TypeOK, Row
<1> QED
  BY <1>1, <1>2, <1>3, <1>4 DEF Skipped

LEMMA InitIInv == Init => IInv
<1> SUFFICES ASSUME Init PROVE IInv
  OBVIOUS
<1>1. TypeOK
  BY ChangeLogAssumption DEF ChangeLogAssumption, Init, TypeOK, Idle
<1> QED
  BY <1>1 DEF Init, IInv, RowsObserved, StoredBegun, DecisionIsCurrent, LogTellsSnapshots,
     RowsAreChanges, Idle

LEMMA CollectIInv == ASSUME IInv, NEW s \in Snapshot, Collect(s) PROVE IInv'
<1> USE DEF IInv
<1>1. /\ UNCHANGED <<log, cmd, begun, stored>>
      /\ snapshots' \in Seq(Snapshot) /\ Len(snapshots') = Len(snapshots) + 1
      /\ \A i \in DOMAIN snapshots : i \in DOMAIN snapshots' /\ snapshots'[i] = snapshots[i]
  BY DEF Collect, TypeOK
<1>2. TypeOK'
  BY <1>1, ChangeLogAssumption DEF ChangeLogAssumption, Collect, TypeOK
<1>3. RowsObserved' /\ StoredBegun'
  BY <1>1 DEF RowsObserved, StoredBegun, Present, RowOf
<1>4. DecisionIsCurrent'
  <2> SUFFICES ASSUME cmd # Idle PROVE DecisionIsCurrent'
    BY <1>1 DEF DecisionIsCurrent
  <2>1. cmd.snapshot \in DOMAIN snapshots /\ snapshots'[cmd.snapshot] = snapshots[cmd.snapshot]
    BY <1>1 DEF DecisionIsCurrent
  <2>2. \A v : /\ Present(cmd.snapshot, v)' <=> Present(cmd.snapshot, v)
               /\ RowOf(v, cmd.snapshot)' = RowOf(v, cmd.snapshot)
               /\ LatestRow(v)' = LatestRow(v)
    BY <1>1, <2>1 DEF Present, RowOf, LatestRow, RowsOf
  <2>3. Skipped(cmd.snapshot)' = Skipped(cmd.snapshot)
    BY <1>1, <2>1, <2>2 DEF Skipped
  <2> QED
    BY <1>1, <2>1, <2>2, <2>3 DEF DecisionIsCurrent
<1>5. LogTellsSnapshots'
  <2>1. \A i \in stored : i \in DOMAIN snapshots
    BY DEF StoredBegun
  <2> QED
    BY <1>1, <2>1 DEF LogTellsSnapshots, InForce, RowsOf, Present
<1>6. RowsAreChanges'
  BY <1>1 DEF RowsAreChanges, InForce, RowsOf
<1> QED
  BY <1>2, <1>3, <1>4, <1>5, <1>6

LEMMA SelectLatestIInv ==
    ASSUME IInv, NEW i \in DOMAIN snapshots, SelectLatest(i)
    PROVE  IInv'
<1> USE DEF IInv
<1>1. /\ UNCHANGED <<snapshots, log, stored>>
      /\ begun <= i /\ begun' = i
      /\ cmd' = [snapshot |-> i,
                 changes |-> {RowOf(v, i) :
                     v \in {u \in VoteAccounts : Present(i, u)} \ Skipped(i)}]
  BY DEF SelectLatest
<1>2. i \in CreatedAt /\ i \in Nat /\ begun \in Nat /\ MaxSnapshots \in Nat
  BY SnapshotTyped, ChangeLogAssumption DEF ChangeLogAssumption, TypeOK
<1>3. TypeOK'
  <2>1. cmd'.changes \in SUBSET Row
    BY <1>1, RowOfTyped
  <2>2. cmd' \in Command
    BY <1>1, <1>2, <2>1 DEF Command
  <2>3. begun' \in 0..MaxSnapshots
    BY <1>1, <1>2 DEF CreatedAt
  <2> QED
    BY <1>1, <2>2, <2>3 DEF TypeOK
<1>4. RowsObserved'
  <2> SUFFICES ASSUME NEW r \in log PROVE r.created_at <= i
    BY <1>1 DEF RowsObserved, Present, RowOf
  <2>1. r.created_at <= begun /\ r.created_at \in Nat
    BY SnapshotTyped DEF RowsObserved
  <2> QED
    BY <1>1, <1>2, <2>1
<1>5. StoredBegun'
  <2> SUFFICES ASSUME NEW j \in stored PROVE j <= i
    BY <1>1 DEF StoredBegun
  <2>1. j <= begun /\ j \in Nat
    BY SnapshotTyped DEF StoredBegun
  <2> QED
    BY <1>1, <1>2, <2>1
<1>6. DecisionIsCurrent'
  BY <1>1 DEF DecisionIsCurrent, RowOf, Present, Skipped, LatestRow, RowsOf
<1>7. LogTellsSnapshots' /\ RowsAreChanges'
  BY <1>1 DEF LogTellsSnapshots, RowsAreChanges, InForce, RowsOf, Present
<1> QED
  BY <1>3, <1>4, <1>5, <1>6, <1>7

LEMMA CrashIInv == IInv /\ Crash => IInv'
<1> SUFFICES ASSUME IInv, Crash PROVE IInv'
  OBVIOUS
<1> USE DEF IInv, Crash
<1>1. TypeOK' /\ DecisionIsCurrent'
  BY DEF TypeOK, DecisionIsCurrent
<1>2. RowsObserved' /\ StoredBegun'
  BY DEF RowsObserved, StoredBegun, Present, RowOf
<1>3. LogTellsSnapshots' /\ RowsAreChanges'
  BY DEF LogTellsSnapshots, RowsAreChanges, InForce, RowsOf, Present
<1> QED
  BY <1>1, <1>2, <1>3

(* The new rows are the newest of their validators and differ from those   *)
(* before them; the validators without one have it already.                *)
LEMMA InsertChangesIInv == IInv /\ InsertChanges => IInv'
<1> SUFFICES ASSUME IInv, InsertChanges PROVE IInv'
  OBVIOUS
<1> USE DEF IInv
<1>1. /\ cmd # Idle /\ cmd' = Idle
      /\ log' = log \cup cmd.changes
      /\ stored' = stored \cup {begun}
      /\ UNCHANGED <<snapshots, begun>>
      /\ begun \in DOMAIN snapshots
  BY DEF InsertChanges, DecisionIsCurrent
<1>2. begun \in CreatedAt /\ begun \in Nat
  BY <1>1, SnapshotTyped
<1>3. \A r \in cmd.changes :
          /\ r.vote_account \in VoteAccounts /\ r.created_at = begun
          /\ Present(begun, r.vote_account) /\ r.vote_account \notin Skipped(begun)
          /\ r = RowOf(r.vote_account, begun)
          /\ r.value = snapshots[begun].value[r.vote_account] /\ r.epoch = snapshots[begun].epoch
  BY <1>1 DEF DecisionIsCurrent, RowOf
<1>4. \A r \in log : /\ r.vote_account \in VoteAccounts /\ r.created_at \in Nat
                     /\ r.created_at <= begun
                     /\ r.created_at = begun => r.vote_account \in Skipped(begun)
  BY SnapshotTyped, RowAtNewestIsSkipped DEF RowsObserved, TypeOK, Row
<1>5. TypeOK'
  <2>1. cmd.changes \subseteq Row
    BY <1>1, <1>3, RowOfTyped
  <2>2. \A r, s \in log' : r.vote_account = s.vote_account /\ r.created_at = s.created_at => r = s
    BY <1>1, <1>3, <1>4 DEF TypeOK
  <2> QED
    BY <1>1, <1>2, <2>1, <2>2 DEF TypeOK
<1>6. RowsObserved'
  BY <1>1, <1>2, <1>3 DEF RowsObserved, Present, RowOf
<1>7. StoredBegun' /\ DecisionIsCurrent'
  BY <1>1, <1>2 DEF StoredBegun, DecisionIsCurrent
<1>8. LogTellsSnapshots'
  <2> SUFFICES ASSUME NEW i \in stored', NEW v \in VoteAccounts, Present(i, v)
               PROVE  \E r \in InForce(v, i)' :
                          r.value = snapshots[i].value[v] /\ r.epoch = snapshots[i].epoch
    BY <1>1 DEF LogTellsSnapshots, Present
  <2>1. i \in Nat /\ i <= begun
    BY <1>1, <1>2, SnapshotTyped DEF StoredBegun
  <2>2. CASE i # begun
    <3>1. PICK r \in InForce(v, i) : r.value = snapshots[i].value[v] /\ r.epoch = snapshots[i].epoch
      BY <1>1, <2>2 DEF LogTellsSnapshots
    <3>2. \A s \in RowsOf(v)' : s \in RowsOf(v) \/ s.created_at > i
      BY <1>1, <1>2, <1>3, <2>1, <2>2 DEF RowsOf
    <3>3. r \in RowsOf(v)' /\ r.created_at <= i
      BY <1>1, <3>1 DEF InForce, RowsOf
    <3>4. \A s \in RowsOf(v)' : s.created_at <= i => s.created_at <= r.created_at
      <4> SUFFICES ASSUME NEW s \in RowsOf(v)', s.created_at <= i
                   PROVE  s.created_at <= r.created_at
        OBVIOUS
      <4>1. s.created_at \in Nat
        BY <1>1, <1>2, <1>3, <1>4 DEF RowsOf
      <4>2. s \in RowsOf(v)
        BY <2>1, <3>2, <4>1
      <4> QED
        BY <3>1, <4>2 DEF InForce
    <3>5. r \in InForce(v, i)'
      BY <1>1, <3>3, <3>4 DEF InForce
    <3> QED
      BY <3>1, <3>5
  <2>3. CASE i = begun /\ v \in Skipped(begun)
    <3>1. PICK r \in LatestRow(v) : r.value = snapshots[i].value[v] /\ r.epoch = snapshots[i].epoch
      BY <2>3 DEF Skipped
    <3>2. RowsOf(v)' = RowsOf(v)
      BY <1>1, <1>3, <2>3 DEF RowsOf
    <3>3. r \in InForce(v, i)'
      BY <3>1, <3>2, <1>4, <2>3 DEF InForce, LatestRow, RowsOf
    <3> QED
      BY <3>1, <3>3
  <2>4. CASE i = begun /\ v \notin Skipped(begun)
    <3> DEFINE r == RowOf(v, begun)
    <3>1. r \in cmd.changes
      BY <1>1, <2>4 DEF DecisionIsCurrent
    <3>2. \A s \in RowsOf(v)' : s.created_at <= begun
      BY <1>1, <1>2, <1>3, <1>4 DEF RowsOf
    <3>3. r.vote_account = v /\ r.created_at = begun
          /\ r.value = snapshots[i].value[v] /\ r.epoch = snapshots[i].epoch
      BY <2>4 DEF RowOf
    <3> HIDE DEF r
    <3>4. r \in InForce(v, i)'
      BY <1>1, <1>2, <2>4, <3>1, <3>2, <3>3 DEF InForce, RowsOf
    <3> QED
      BY <3>3, <3>4
  <2> QED
    BY <2>2, <2>3, <2>4
<1>9. RowsAreChanges'
  <2> SUFFICES ASSUME NEW r \in log', NEW s \in InForce(r.vote_account, r.created_at - 1)'
               PROVE  r.value # s.value \/ r.epoch # s.epoch
    BY DEF RowsAreChanges
  <2>1. r.created_at \in Nat /\ r.created_at <= begun
    BY <1>1, <1>2, <1>3, <1>4
  <2>2. s \in log /\ s.vote_account = r.vote_account
    BY <1>1, <1>2, <1>3, <2>1 DEF InForce, RowsOf
  <2>3. s \in InForce(r.vote_account, r.created_at - 1)
    BY <1>1, <2>2 DEF InForce, RowsOf
  <2>4. CASE r \in log
    BY <2>3, <2>4 DEF RowsAreChanges
  <2>5. CASE r \in cmd.changes
    <3>1. \A t \in RowsOf(r.vote_account) : t.created_at <= begun - 1
      BY <1>2, <1>3, <1>4, <2>5 DEF RowsOf
    <3>2. s \in LatestRow(r.vote_account)
      BY <1>3, <2>3, <2>5, <3>1 DEF LatestRow, InForce
    <3> QED
      BY <1>3, <2>5, <3>2 DEF Skipped
  <2> QED
    BY <1>1, <2>4, <2>5
<1> QED
  BY <1>5, <1>6, <1>7, <1>8, <1>9

LEMMA NextIInv == IInv /\ [Next]_vars => IInv'
<1> SUFFICES ASSUME IInv, [Next]_vars PROVE IInv'
  OBVIOUS
<1>1. ASSUME NEW s \in Snapshot, Collect(s) PROVE IInv'
  BY <1>1, CollectIInv
<1>2. ASSUME NEW i \in DOMAIN snapshots, SelectLatest(i) PROVE IInv'
  BY <1>2, SelectLatestIInv
<1>3. CASE InsertChanges
  BY <1>3, InsertChangesIInv
<1>4. CASE Crash
  BY <1>4, CrashIInv
<1>5. CASE UNCHANGED vars
  BY <1>5 DEF vars, IInv, TypeOK, RowsObserved, StoredBegun, DecisionIsCurrent,
     LogTellsSnapshots, RowsAreChanges, InForce, RowsOf, Present, RowOf, Skipped, LatestRow
<1> QED
  BY <1>1, <1>2, <1>3, <1>4, <1>5 DEF Next

-----------------------------------------------------------------------------
(* The table and the commands are of the kind TypeOK says; above all, a    *)
(* validator has at most one row for a snapshot, however often a command   *)
(* is run on it.                                                           *)
THEOREM ChangeLogTypeCorrect == Spec => []TypeOK
<1>1. IInv => TypeOK
  BY DEF IInv
<1> QED
  BY InitIInv, NextIInv, <1>1, PTL DEF Spec

(* The row in force at a stored snapshot says what the snapshot said.      *)
THEOREM LogTellsTheTruth == Spec => []LogTellsSnapshots
<1>1. IInv => LogTellsSnapshots
  BY DEF IInv
<1> QED
  BY InitIInv, NextIInv, <1>1, PTL DEF Spec

(* No row repeats the one before it.                                       *)
THEOREM NoRowIsSuperfluous == Spec => []RowsAreChanges
<1>1. IInv => RowsAreChanges
  BY DEF IInv
<1> QED
  BY InitIInv, NextIInv, <1>1, PTL DEF Spec

-----------------------------------------------------------------------------
(* The ruggers                                                             *)

(* A row is written together with the note that its snapshot is stored.    *)
RowsStored == \A r \in log : r.created_at \in stored

LEMMA RowsStoredStep == IInv /\ RowsStored /\ [Next]_vars => RowsStored'
<1> SUFFICES ASSUME IInv, RowsStored, [Next]_vars
             PROVE  RowsStored'
  OBVIOUS
<1>1. CASE InsertChanges
  <2>1. /\ log' = log \cup cmd.changes /\ stored' = stored \cup {cmd.snapshot}
        /\ cmd # Idle
    BY <1>1 DEF InsertChanges
  <2>2. \A r \in cmd.changes : r.created_at = cmd.snapshot
    BY <2>1 DEF IInv, DecisionIsCurrent, RowOf
  <2> QED
    BY <2>1, <2>2 DEF RowsStored
<1>2. CASE UNCHANGED <<log, stored>>
  BY <1>2 DEF RowsStored
<1> QED
  BY <1>1, <1>2 DEF Next, Collect, SelectLatest, Crash, vars

(* A nonempty set of natural numbers has a least element.                  *)
LEMMA LeastOfNaturals ==
    ASSUME NEW S \in SUBSET Nat, S # {}
    PROVE  Min(S) \in S /\ \A x \in S : Min(S) <= x
<1> DEFINE R == OpToRel(<, Nat)
<1>1. IsWellFoundedOn(R, Nat)
  BY NatLessThanWellFounded
<1>2. \A x, y \in Nat : <<y, x>> \in R <=> y < x
  BY DEF OpToRel
<1> HIDE DEF R
<1>3. PICK x \in S : \A y \in S : ~ (<<y, x>> \in R)
  BY <1>1, WFMin
<1>4. ASSUME NEW y \in S PROVE x <= y
  <2>1. x \in Nat /\ y \in Nat /\ ~ (y < x)
    BY <1>2, <1>3
  <2> QED
    BY <2>1
<1> QED
  BY <1>4 DEF Min

(* What was shown in an epoch is in the log of the epoch, and the converse *)
LEMMA LoggedIsShown ==
    ASSUME IInv, RowsStored, NEW v \in VoteAccounts, NEW e \in Epochs
    PROVE  Logged(v, e) =
               {snapshots[i].value[v] :
                    i \in {j \in stored : snapshots[j].epoch = e /\ Present(j, v)}}
<1> DEFINE shown == {snapshots[i].value[v] :
                         i \in {j \in stored : snapshots[j].epoch = e /\ Present(j, v)}}
<1>1. ASSUME NEW r \in log, r.vote_account = v, r.epoch = e
      PROVE  r.value \in shown
  <2>1. /\ r.created_at \in stored /\ Present(r.created_at, v)
        /\ r = RowOf(v, r.created_at)
    BY <1>1 DEF RowsStored, IInv, RowsObserved
  <2>2. /\ r.value = snapshots[r.created_at].value[v]
        /\ snapshots[r.created_at].epoch = e
    BY <1>1, <2>1 DEF RowOf
  <2> QED
    BY <2>1, <2>2
<1>2. ASSUME NEW i \in stored, snapshots[i].epoch = e, Present(i, v)
      PROVE  \E r \in log : /\ r.vote_account = v /\ r.epoch = e
                            /\ r.value = snapshots[i].value[v]
  BY <1>2 DEF IInv, LogTellsSnapshots, InForce, RowsOf
<1> QED
  BY <1>1, <1>2 DEF Logged, RowsOf

(* An epoch counts exactly if the snapshots show less than was charged or  *)
(* what was charged crossed the limit for one epoch, by each of the three  *)
(* conditions of the report.                                               *)
THEOREM RuggersAreThoseShown == Spec => []RuggersReported
<1>1. Init => IInv /\ RowsStored
  BY InitIInv DEF Init, RowsStored
<1>2. IInv /\ RowsStored => RuggersReported
  <2> SUFFICES ASSUME IInv, RowsStored, NEW v \in VoteAccounts, NEW e \in Epochs,
                      NEW advertised \in Value, NEW effective \in Value,
                      NEW prev \in Value \cup {NoValue}, NEW next \in Value \cup {NoValue}
               PROVE  IsRugged(ClosedRow(v, e, advertised, effective), prev, next)
                        <=> \/ ShowedLess(v, e, advertised, effective)
                            \/ ForOneEpoch(prev, effective, next)
    <3>1. \A row, showed : <<row, showed>>[1] = row /\ <<row, showed>>[2] = showed
      OBVIOUS
    <3>2. \A v, e, advertised, effective :
             (ClosedRow(v, e, advertised, effective)).effective = effective
      BY DEF ClosedRow
    <3> QED
      BY <3>1, <3>2 DEF RuggersReported
  <2> DEFINE least == CommissionMinObserved(v, e, advertised, effective)
             all == Logged(v, e) \cup {advertised, effective}
  <2>1. /\ Value \subseteq Nat /\ Limit \in Nat /\ NoValue \notin Value
    BY ObservedAssumption, ChangeLogAssumption DEF ObservedAssumption, ChangeLogAssumption
  <2>2. all \subseteq Value /\ all # {}
    BY DEF IInv, TypeOK, Row, Logged, RowsOf
  <2>3. least \in all /\ \A c \in all : least <= c
    BY <2>1, <2>2, LeastOfNaturals DEF CommissionMinObserved
  <2>4. all = Shown(v, e, advertised) \cup {effective}
    BY LoggedIsShown DEF Shown
  <2>5. IsRugged(ClosedRow(v, e, advertised, effective), prev, next)
            <=> \/ Above(effective) /\ Within(least) /\ effective > least
                \/ Above(prev) /\ Within(effective) /\ Above(next)
                \/ Within(prev) /\ Above(effective) /\ Within(next)
    BY DEF IsRugged, ClosedRow
  <2> HIDE DEF least, all
  <2>6. /\ least \in Nat /\ least \in Value /\ effective \in Nat
        /\ Shown(v, e, advertised) \subseteq Nat
    BY <2>1, <2>2, <2>3, <2>4
  <2>7. Above(effective) /\ Within(least) /\ effective > least
            <=> ShowedLess(v, e, advertised, effective)
    BY <2>1, <2>3, <2>4, <2>6 DEF ShowedLess, Above, Within
  <2>8. ForOneEpoch(prev, effective, next)
            <=> \/ Above(prev) /\ Within(effective) /\ Above(next)
                \/ Within(prev) /\ Above(effective) /\ Within(next)
    <3>1. CASE NoValue \in {prev, next}
      BY <3>1 DEF ForOneEpoch, Above, Within
    <3>2. CASE NoValue \notin {prev, next}
      <4>1. prev \in Nat /\ next \in Nat /\ NoValue \notin {prev, effective, next}
        BY <2>1, <3>2
      <4> QED
        BY <2>1, <2>6, <4>1 DEF ForOneEpoch, Above, Within
    <3> QED
      BY <3>1, <3>2
  <2> QED
    BY <2>5, <2>7, <2>8
<1> QED
  BY <1>1, <1>2, NextIInv, RowsStoredStep, PTL DEF Spec

=============================================================================
