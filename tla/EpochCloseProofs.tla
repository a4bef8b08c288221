-------------------------- MODULE EpochCloseProofs --------------------------
(***************************************************************************)
(* Proofs about EpochClose, for any validators and any number of epochs    *)
(* and snapshots.                                                          *)
(***************************************************************************)
EXTENDS EpochClose, WellFoundedInduction, TLAPS

-----------------------------------------------------------------------------
(* A nonempty set of natural numbers has a least element.                  *)
LEMMA LeastOfNaturals ==
    ASSUME NEW S \in SUBSET Nat, S # {}
    PROVE  \E x \in S : \A y \in S : x <= y
<1> DEFINE R == OpToRel(<, Nat)
<1>1. IsWellFoundedOn(R, Nat)
  BY NatLessThanWellFounded
<1>2. \A x, y \in Nat : <<y, x>> \in R <=> y < x
  BY DEF OpToRel
<1> HIDE DEF R
<1>3. PICK x \in S : \A y \in S : ~ (<<y, x>> \in R)
  BY <1>1, WFMin
<1>4. ASSUME NEW y \in S PROVE x <= y
  <2>1. x \in Nat /\ y \in Nat /\ ~ (y < x)
    BY <1>2, <1>3
  <2> QED
    BY <2>1
<1> QED
  BY <1>4

(* A nonempty set of numbers up to n has a greatest and a least element.   *)
LEMMA MaxMin ==
    ASSUME NEW n \in Nat, NEW S \in SUBSET (0..n), S # {}
    PROVE  /\ Max(S) \in S /\ \A x \in S : x <= Max(S)
           /\ Min(S) \in S /\ \A x \in S : Min(S) <= x
<1>1. PICK least \in S : \A y \in S : least <= y
  BY LeastOfNaturals
<1>2. \E x \in S : \A y \in S : y <= x
  <2> DEFINE T == {n - x : x \in S}
  <2>1. \A x \in S : x \in Nat /\ x <= n /\ n - x \in Nat
    OBVIOUS
  <2>2. T \subseteq Nat /\ T # {}
    BY <2>1
  <2>3. PICK t \in T : \A y \in T : t <= y
    BY <2>2, LeastOfNaturals
  <2>4. PICK x \in S : t = n - x
    OBVIOUS
  <2>5. ASSUME NEW y \in S PROVE y <= x
    <3>1. n - y \in T
      OBVIOUS
    <3>2. n - x <= n - y
      BY <2>3, <2>4, <3>1
    <3> HIDE DEF T
    <3> QED
      BY <2>1, <3>2
  <2> QED
    BY <2>5
<1> QED
  BY <1>1, <1>2 DEF Max, Min

SnapshotsInOrder ==
    \A i, j \in DOMAIN snapshots : i <= j => snapshots[i] <= snapshots[j]

InfoOfSnapshots ==
    \A c \in cluster_info :
        c.created_at \in DOMAIN snapshots /\ snapshots[c.created_at] = c.epoch

(* A window ends at a snapshot of its epoch, and starts at one or where    *)
(* the window of the epoch before ends.                                    *)
WindowsOfSnapshots ==
    \A r \in epochs :
        /\ r.start_at \in DOMAIN snapshots /\ r.end_at \in DOMAIN snapshots
        /\ r.start_at <= r.end_at
        /\ snapshots[r.end_at] = r.epoch
        /\ \/ snapshots[r.start_at] = r.epoch
           \/ \E p \in epochs : p.epoch = r.epoch - 1 /\ p.end_at = r.start_at

WindowsInv == TypeOK /\ SnapshotsInOrder /\ InfoOfSnapshots /\ WindowsOfSnapshots

(* A row that was there when its epoch was recorded *)
Early(v, e) == Stored(v, e) /\ ~validators[v][e].late

ClosingRecorded == closing # Idle => Recorded(closing.epoch)

(* What the running close-epoch has set so far *)
ClosedSoFar ==
    closing # Idle =>
        /\ \A v \in closing.validators \ closing.left :
               Early(v, closing.epoch) => validators[v][closing.epoch].commission_effective
        /\ closing.step = "commissions" =>
               /\ closing.left = {}
               /\ \A v \in VoteAccounts :
                      Early(v, closing.epoch) => validators[v][closing.epoch].uptime

CompletedRecorded == \A c \in completed : Recorded(c.epoch)

RowsInv ==
    /\ TypeOK
    /\ ClosingRecorded
    /\ ClosedSoFar
    /\ CompletedRecorded
    /\ CompletedCloseIsFinal
    /\ OpenEpochsUntouched

-----------------------------------------------------------------------------
(* Windows *)

(* The window that close-epoch computes: it lies in the snapshots that     *)
(* cluster info is known of, and before it lies that of the last epoch.    *)
LEMMA NewWindow ==
    ASSUME TypeOK, NEW e \in EpochId, InfoOf(e) # {}
    PROVE  /\ Max(InfoOf(e)) \in InfoOf(e) /\ Min(InfoOf(e)) \in InfoOf(e)
           /\ Min(InfoOf(e)) <= Max(InfoOf(e))
           /\ InfoOf(e) \subseteq CreatedAt
           /\ PreviousEnd(e) # {} => Max(PreviousEnd(e)) \in PreviousEnd(e)
           /\ PreviousEnd(e) \subseteq CreatedAt
<1>1. InfoOf(e) \subseteq 1..MaxSnapshots
  BY DEF TypeOK, InfoOf, ClusterInfo, CreatedAt
<1>2. PreviousEnd(e) \subseteq 1..MaxSnapshots
  BY DEF TypeOK, PreviousEnd, EpochRecord, CreatedAt
<1>3. MaxSnapshots \in Nat
  BY EpochCloseAssumption DEF EpochCloseAssumption
<1>4. /\ Max(InfoOf(e)) \in InfoOf(e) /\ Min(InfoOf(e)) \in InfoOf(e)
      /\ Min(InfoOf(e)) <= Max(InfoOf(e))
  <2>1. InfoOf(e) \in SUBSET (0..MaxSnapshots)
    BY <1>1, <1>3
  <2>2. \A x \in InfoOf(e) : Min(InfoOf(e)) <= x
    BY <1>3, <2>1, MaxMin
  <2> QED
    BY <1>3, <2>1, <2>2, MaxMin
<1>5. PreviousEnd(e) # {} => Max(PreviousEnd(e)) \in PreviousEnd(e)
  <2>1. PreviousEnd(e) \in SUBSET (0..MaxSnapshots)
    BY <1>2, <1>3
  <2> QED
    BY <1>3, <2>1, MaxMin
<1> QED
  BY <1>1, <1>2, <1>4, <1>5 DEF CreatedAt

-----------------------------------------------------------------------------
(* Types *)

LEMMA RowTyped ==
    ASSUME TypeOK, NEW v \in VoteAccounts, NEW e \in EpochId
    PROVE  /\ validators[v][e] \in Row \cup {NoRow}
           /\ Stored(v, e) => validators[v][e] \in Row
BY DEF TypeOK, Stored

LEMMA ChangedRowTyped ==
    ASSUME NEW row \in Row
    PROVE  /\ [row EXCEPT !.performance = "running"] \in Row
           /\ [row EXCEPT !.performance = "final", !.commission_effective = TRUE] \in Row
           /\ [row EXCEPT !.uptime = TRUE] \in Row
           /\ [row EXCEPT !.commission_observed = TRUE] \in Row
BY DEF Row

LEMMA StoringTyped ==
    ASSUME TypeOK, NEW v \in storing.left
    PROVE  /\ storing \in Storing
           /\ v \in VoteAccounts /\ storing.epoch \in EpochId
           /\ [storing EXCEPT !.left = @ \ {v}] \in Storing
BY DEF TypeOK, Storing, Idle

LEMMA ClosingTyped ==
    ASSUME TypeOK, closing # Idle
    PROVE  /\ closing \in Closing
           /\ closing.epoch \in EpochId
           /\ closing.validators \subseteq VoteAccounts
           /\ closing.left \subseteq VoteAccounts
BY DEF TypeOK, Closing

LEMMA CreateEpochRecordTyped ==
    ASSUME TypeOK, NEW e \in EpochId, NEW present \in SUBSET VoteAccounts,
           CreateEpochRecord(e, present)
    PROVE  TypeOK'
<1> DEFINE r == [epoch |-> e,
                 start_at |-> IF PreviousEnd(e) # {} THEN Max(PreviousEnd(e)) ELSE Min(InfoOf(e)),
                 end_at |-> Max(InfoOf(e))]
<1>1. epochs' = epochs \cup {r} /\ ~Recorded(e) /\ InfoOf(e) # {}
  BY DEF CreateEpochRecord
<1>2. r \in EpochRecord /\ r.epoch = e
  BY <1>1, NewWindow DEF EpochRecord
<1>3. closing' \in Closing
  BY DEF CreateEpochRecord, Closing
<1> HIDE DEF r
<1>4. epochs' \subseteq EpochRecord
  BY <1>1, <1>2 DEF TypeOK
<1>5. \A p, s \in epochs' : p.epoch = s.epoch => p = s
  BY <1>1, <1>2 DEF TypeOK, Recorded
<1> QED
  BY <1>3, <1>4, <1>5 DEF CreateEpochRecord, TypeOK

LEMMA TypeStep ==
    ASSUME TypeOK, Next
    PROVE  TypeOK'
<1> USE DEF TypeOK
<1>1. ASSUME NEW e \in EpochId, Collect(e) PROVE TypeOK'
  <2>1. Len(snapshots) < MaxSnapshots /\ snapshots' = Append(snapshots, e)
    BY <1>1 DEF Collect
  <2>2. snapshots' \in Seq(EpochId) /\ Len(snapshots') <= MaxSnapshots
    BY <2>1, EpochCloseAssumption DEF EpochCloseAssumption
  <2> QED
    BY <1>1, <2>2 DEF Collect
<1>2. ASSUME NEW i \in DOMAIN snapshots, StoreClusterInfo(i) PROVE TypeOK'
  <2>1. i \in CreatedAt /\ snapshots[i] \in EpochId
    BY EpochCloseAssumption DEF EpochCloseAssumption, CreatedAt
  <2>2. cluster_info' \subseteq ClusterInfo
    BY <1>2, <2>1 DEF StoreClusterInfo, ClusterInfo
  <2> QED
    BY <1>2, <2>2 DEF StoreClusterInfo
<1>3. ASSUME NEW e \in EpochId, NEW present \in SUBSET VoteAccounts, SelectExisting(e, present)
      PROVE  TypeOK'
  BY <1>3 DEF SelectExisting, Storing
<1>4. ASSUME NEW v \in VoteAccounts, UpdateExisting(v) PROVE TypeOK'
  <2>1. v \in storing.left /\ Stored(v, storing.epoch)
    BY <1>4 DEF UpdateExisting
  <2>2. /\ storing.epoch \in EpochId
        /\ [storing EXCEPT !.left = @ \ {v}] \in Storing
        /\ validators[v][storing.epoch] \in Row
    BY <2>1, StoringTyped, RowTyped
  <2>3. [validators[v][storing.epoch] EXCEPT !.performance = "running"] \in Row
    BY <2>2, ChangedRowTyped
  <2> QED
    BY <1>4, <2>2, <2>3 DEF UpdateExisting
<1>5. ASSUME NEW v \in VoteAccounts, InsertNew(v) PROVE TypeOK'
  <2>1. v \in storing.left
    BY <1>5 DEF InsertNew
  <2>2. storing.epoch \in EpochId /\ [storing EXCEPT !.left = @ \ {v}] \in Storing
    BY <2>1, StoringTyped
  <2>3. [performance |-> "running", commission_effective |-> FALSE, uptime |-> FALSE,
         commission_observed |-> FALSE, late |-> Recorded(storing.epoch)] \in Row
    BY DEF Row, Recorded
  <2> QED
    BY <1>5, <2>2, <2>3 DEF InsertNew
<1>6. ASSUME EndStoring PROVE TypeOK'
  BY <1>6 DEF EndStoring
<1>7. ASSUME NEW e \in EpochId, NEW present \in SUBSET VoteAccounts, CreateEpochRecord(e, present)
      PROVE  TypeOK'
  BY <1>7, CreateEpochRecordTyped
<1>8. ASSUME NEW v \in VoteAccounts, UpdatePerformance(v) PROVE TypeOK'
  <2>1. closing # Idle
    BY <1>8 DEF UpdatePerformance
  <2>2. closing \in Closing /\ closing.epoch \in EpochId
    BY <2>1, ClosingTyped
  <2>3. closing' \in Closing
    BY <1>8, <2>2 DEF UpdatePerformance, Closing
  <2>4. Stored(v, closing.epoch) =>
            [validators[v][closing.epoch] EXCEPT !.performance = "final",
                                                 !.commission_effective = TRUE] \in Row
    BY <2>2, RowTyped, ChangedRowTyped
  <2> QED
    BY <1>8, <2>2, <2>3, <2>4 DEF UpdatePerformance
<1>9. ASSUME UpdateUptimes PROVE TypeOK'
  <2>1. closing \in Closing /\ closing.epoch \in EpochId
    BY <1>9, ClosingTyped DEF UpdateUptimes
  <2>2. closing' \in Closing
    BY <1>9, <2>1 DEF UpdateUptimes, Closing
  <2>3. ASSUME NEW v \in VoteAccounts, Stored(v, closing.epoch)
        PROVE  [validators[v][closing.epoch] EXCEPT !.uptime = TRUE] \in Row
    BY <2>1, <2>3, RowTyped, ChangedRowTyped
  <2> QED
    BY <1>9, <2>1, <2>2, <2>3 DEF UpdateUptimes
<1>10. ASSUME UpdateObservedCommission PROVE TypeOK'
  <2>1. closing \in Closing /\ closing.epoch \in EpochId /\ closing.validators \subseteq VoteAccounts
    BY <1>10, ClosingTyped DEF UpdateObservedCommission
  <2>2. completed' \subseteq [epoch : EpochId, validators : SUBSET VoteAccounts]
    BY <1>10, <2>1 DEF UpdateObservedCommission
  <2>3. ASSUME NEW v \in VoteAccounts, Stored(v, closing.epoch)
        PROVE  [validators[v][closing.epoch] EXCEPT !.commission_observed = TRUE] \in Row
    BY <2>1, <2>3, RowTyped, ChangedRowTyped
  <2> QED
    BY <1>10, <2>1, <2>2, <2>3 DEF UpdateObservedCommission
<1>11. ASSUME InterruptClosing PROVE TypeOK'
  BY <1>11 DEF InterruptClosing
<1> QED
  BY <1>1, <1>2, <1>3, <1>4, <1>5, <1>6, <1>7, <1>8, <1>9, <1>10, <1>11 DEF Next

LEMMA InitTyped == Init => TypeOK
BY EpochCloseAssumption DEF Init, TypeOK, EpochCloseAssumption

(* For any validators and bounds, every variable keeps a value of its      *)
(* kind, and no epoch gets a second record.                                *)
THEOREM EpochCloseTypeCorrect == Spec => []TypeOK
<1>1. TypeOK /\ [Next]_vars => TypeOK'
  BY TypeStep DEF vars, TypeOK
<1> QED
  BY InitTyped, <1>1, PTL DEF Spec

-----------------------------------------------------------------------------
(* Windows *)

LEMMA SnapshotTyped ==
    ASSUME TypeOK, NEW i \in DOMAIN snapshots
    PROVE  i \in 1..Len(snapshots) /\ i \in Nat /\ snapshots[i] \in EpochId /\ snapshots[i] \in Nat
<1>1. i \in 1..Len(snapshots) /\ snapshots[i] \in EpochId
  BY DEF TypeOK
<1>2. Len(snapshots) \in Nat
  BY DEF TypeOK
<1> QED
  BY <1>1, <1>2, EpochCloseAssumption DEF EpochId, EpochCloseAssumption

(* What cluster info tells of an epoch are snapshots of it.                *)
LEMMA InfoIsOfEpoch ==
    ASSUME InfoOfSnapshots, NEW e, NEW i \in InfoOf(e)
    PROVE  i \in DOMAIN snapshots /\ snapshots[i] = e
BY DEF InfoOfSnapshots, InfoOf

LEMMA EarlierEpochsBefore ==
    ASSUME TypeOK, SnapshotsInOrder, NEW i \in DOMAIN snapshots, NEW j \in DOMAIN snapshots,
           snapshots[i] < snapshots[j]
    PROVE  i < j
<1>1. i \in Nat /\ j \in Nat /\ snapshots[i] \in Nat /\ snapshots[j] \in Nat
  BY SnapshotTyped
<1>2. j <= i => snapshots[j] <= snapshots[i]
  BY DEF SnapshotsInOrder
<1> QED
  BY <1>1, <1>2

LEMMA RecordTyped ==
    ASSUME TypeOK, NEW r \in epochs
    PROVE  r.epoch \in Nat /\ r.start_at \in Nat /\ r.end_at \in Nat
BY EpochCloseAssumption DEF TypeOK, EpochRecord, EpochId, CreatedAt, EpochCloseAssumption

(* Windows of snapshots in order are disjoint: one that starts at a        *)
(* snapshot of its epoch does so after every earlier epoch, and one that   *)
(* starts where the epoch before ends meets only that, as it is recorded   *)
(* once.                                                                   *)
LEMMA WindowsInvGivesDisjoint == WindowsInv => WindowsDisjoint
<1> SUFFICES ASSUME WindowsInv, NEW r \in epochs, NEW s \in epochs
             PROVE  /\ r.start_at <= r.end_at
                    /\ r.epoch < s.epoch => r.end_at <= s.start_at
  BY DEF WindowsDisjoint
<1> USE DEF WindowsInv
<1>1. r.start_at <= r.end_at
  BY DEF WindowsOfSnapshots
<1>2. ASSUME r.epoch < s.epoch PROVE r.end_at <= s.start_at
  <2>1. /\ r.end_at \in DOMAIN snapshots /\ s.start_at \in DOMAIN snapshots
        /\ snapshots[r.end_at] = r.epoch
        /\ \/ snapshots[s.start_at] = s.epoch
           \/ \E p \in epochs : p.epoch = s.epoch - 1 /\ p.end_at = s.start_at
    BY DEF WindowsOfSnapshots
  <2>2. r.end_at \in Nat /\ s.start_at \in Nat /\ r.epoch \in Nat /\ s.epoch \in Nat
    BY RecordTyped
  <2>3. CASE snapshots[s.start_at] = s.epoch
    <3>1. r.end_at < s.start_at
      BY <1>2, <2>1, <2>3, EarlierEpochsBefore
    <3> QED
      BY <2>2, <3>1
  <2>4. ASSUME NEW p \in epochs, p.epoch = s.epoch - 1, p.end_at = s.start_at
        PROVE  r.end_at <= s.start_at
    <3>1. p.epoch \in Nat /\ snapshots[p.end_at] = p.epoch /\ p.end_at \in DOMAIN snapshots
      BY RecordTyped DEF WindowsOfSnapshots
    <3>2. CASE r.epoch = p.epoch
      <4>1. r = p
        BY <3>2 DEF TypeOK
      <4> QED
        BY <2>2, <2>4, <4>1
    <3>3. CASE r.epoch < p.epoch
      <4>1. r.end_at < p.end_at
        BY <2>1, <3>1, <3>3, EarlierEpochsBefore
      <4> QED
        BY <2>2, <2>4, <4>1
    <3> QED
      BY <1>2, <2>2, <2>4, <3>1, <3>2, <3>3
  <2> QED
    BY <2>1, <2>3, <2>4
<1> QED
  BY <1>1, <1>2

LEMMA CollectKeepsWindows ==
    ASSUME WindowsInv, NEW e \in EpochId, Collect(e)
    PROVE  (SnapshotsInOrder /\ InfoOfSnapshots /\ WindowsOfSnapshots)'
<1> USE DEF WindowsInv
<1> DEFINE n == Len(snapshots)
<1>1. /\ snapshots \in Seq(EpochId) /\ n \in Nat
      /\ snapshots' = Append(snapshots, e)
      /\ DOMAIN snapshots = 1..n /\ DOMAIN snapshots' = 1..(n + 1)
      /\ snapshots'[n + 1] = e
      /\ \A i \in DOMAIN snapshots : i \in DOMAIN snapshots' /\ snapshots'[i] = snapshots[i]
  BY DEF Collect, TypeOK
<1>2. \A i \in DOMAIN snapshots : snapshots[i] <= e
  <2> SUFFICES ASSUME NEW i \in DOMAIN snapshots PROVE snapshots[i] <= e
    OBVIOUS
  <2>1. n \in DOMAIN snapshots /\ i <= n /\ snapshots # <<>>
    BY <1>1
  <2>2. snapshots[i] <= snapshots[n] /\ snapshots[n] <= e
    BY <2>1 DEF SnapshotsInOrder, Collect, CurrentEpoch
  <2>3. snapshots[i] \in Nat /\ snapshots[n] \in Nat /\ e \in Nat
    BY <2>1, SnapshotTyped DEF EpochId
  <2> QED
    BY <2>2, <2>3
<1>3. SnapshotsInOrder'
  <2> SUFFICES ASSUME NEW i \in DOMAIN snapshots', NEW j \in DOMAIN snapshots', i <= j
               PROVE  snapshots'[i] <= snapshots'[j]
    BY DEF SnapshotsInOrder
  <2>1. CASE j \in DOMAIN snapshots
    <3>1. i \in DOMAIN snapshots
      BY <1>1, <2>1
    <3> QED
      BY <1>1, <2>1, <3>1 DEF SnapshotsInOrder
  <2>2. CASE j = n + 1
    <3>1. i = n + 1 \/ i \in DOMAIN snapshots
      BY <1>1
    <3> QED
      BY <1>1, <1>2, <2>2, <3>1 DEF EpochId
  <2> QED
    BY <1>1, <2>1, <2>2
<1>4. cluster_info' = cluster_info /\ epochs' = epochs
  BY DEF Collect
<1>5. InfoOfSnapshots'
  BY <1>1, <1>4 DEF InfoOfSnapshots
<1>6. WindowsOfSnapshots'
  <2> SUFFICES ASSUME NEW r \in epochs
               PROVE  /\ r.start_at \in DOMAIN snapshots' /\ r.end_at \in DOMAIN snapshots'
                      /\ r.start_at <= r.end_at
                      /\ snapshots'[r.end_at] = r.epoch
                      /\ \/ snapshots'[r.start_at] = r.epoch
                         \/ \E p \in epochs : p.epoch = r.epoch - 1 /\ p.end_at = r.start_at
    BY <1>4 DEF WindowsOfSnapshots
  <2> QED
    BY <1>1 DEF WindowsOfSnapshots
<1> QED
  BY <1>3, <1>5, <1>6

LEMMA RecordKeepsWindows ==
    ASSUME WindowsInv, NEW e \in EpochId, NEW present \in SUBSET VoteAccounts,
           CreateEpochRecord(e, present)
    PROVE  WindowsOfSnapshots'
<1> USE DEF WindowsInv
<1> DEFINE start == IF PreviousEnd(e) # {} THEN Max(PreviousEnd(e)) ELSE Min(InfoOf(e))
           end == Max(InfoOf(e))
           r == [epoch |-> e, start_at |-> start, end_at |-> end]
<1>1. /\ epochs' = epochs \cup {r} /\ InfoOf(e) # {} /\ snapshots' = snapshots
      /\ r.epoch = e /\ r.start_at = start /\ r.end_at = end
  BY DEF CreateEpochRecord
<1>2. end \in DOMAIN snapshots /\ snapshots[end] = e
  BY <1>1, NewWindow, InfoIsOfEpoch
<1>3. CASE PreviousEnd(e) # {}
  <2>1. PICK p \in epochs : p.epoch = e - 1 /\ p.end_at = start
    BY <1>3, <1>1, NewWindow DEF PreviousEnd
  <2>2. p.end_at \in DOMAIN snapshots /\ snapshots[p.end_at] = p.epoch
    BY DEF WindowsOfSnapshots
  <2>3. snapshots[start] < snapshots[end]
    BY <1>2, <2>1, <2>2 DEF EpochId
  <2>4. start \in Nat /\ end \in Nat
    BY <1>2, <2>1, <2>2, SnapshotTyped
  <2>5. start <= end
    <3> HIDE DEF start, end
    <3>1. start < end
      BY <1>2, <2>1, <2>2, <2>3, EarlierEpochsBefore
    <3> QED
      BY <2>4, <3>1
  <2> HIDE DEF start, end
  <2> QED
    BY <1>1, <1>2, <2>1, <2>2, <2>5 DEF WindowsOfSnapshots
<1>4. CASE PreviousEnd(e) = {}
  <2>1. start = Min(InfoOf(e))
    BY <1>4
  <2>2. start \in DOMAIN snapshots /\ snapshots[start] = e /\ start <= end
    BY <1>1, <2>1, NewWindow, InfoIsOfEpoch
  <2> HIDE DEF start, end
  <2> QED
    BY <1>1, <1>2, <2>2 DEF WindowsOfSnapshots
<1> QED
  BY <1>3, <1>4

LEMMA WindowsStep ==
    ASSUME WindowsInv, Next
    PROVE  WindowsInv'
<1> USE DEF WindowsInv
<1>1. TypeOK'
  BY TypeStep
<1>2. ASSUME NEW e \in EpochId, Collect(e) PROVE WindowsInv'
  BY <1>1, <1>2, CollectKeepsWindows
<1>3. ASSUME NEW i \in DOMAIN snapshots, StoreClusterInfo(i) PROVE WindowsInv'
  <2>1. snapshots' = snapshots /\ epochs' = epochs
        /\ cluster_info' = cluster_info \cup {[epoch |-> snapshots[i], created_at |-> i]}
    BY <1>3 DEF StoreClusterInfo
  <2> QED
    BY <1>1, <2>1 DEF SnapshotsInOrder, InfoOfSnapshots, WindowsOfSnapshots
<1>4. ASSUME NEW e \in EpochId, NEW present \in SUBSET VoteAccounts, CreateEpochRecord(e, present)
      PROVE  WindowsInv'
  <2>1. snapshots' = snapshots /\ cluster_info' = cluster_info
    BY <1>4 DEF CreateEpochRecord
  <2>2. WindowsOfSnapshots'
    BY <1>4, RecordKeepsWindows
  <2> QED
    BY <1>1, <2>1, <2>2 DEF SnapshotsInOrder, InfoOfSnapshots
<1>5. ASSUME UNCHANGED <<snapshots, cluster_info, epochs>> PROVE WindowsInv'
  BY <1>1, <1>5 DEF SnapshotsInOrder, InfoOfSnapshots, WindowsOfSnapshots
<1> QED
  BY <1>2, <1>3, <1>4, <1>5
  DEF Next, SelectExisting, UpdateExisting, InsertNew, EndStoring, UpdatePerformance,
      UpdateUptimes, UpdateObservedCommission, InterruptClosing

(* The windows of closed epochs are in order and do not overlap, in        *)
(* whatever order they are closed and however late cluster info is stored. *)
THEOREM WindowsStayDisjoint == Spec => []WindowsDisjoint
<1>1. Init => WindowsInv
  BY InitTyped
  DEF Init, WindowsInv, SnapshotsInOrder, InfoOfSnapshots, WindowsOfSnapshots
<1>2. WindowsInv /\ [Next]_vars => WindowsInv'
  <2>1. ASSUME WindowsInv, UNCHANGED vars PROVE WindowsInv'
    BY <2>1 DEF vars, WindowsInv, TypeOK, SnapshotsInOrder, InfoOfSnapshots, WindowsOfSnapshots
  <2> QED
    BY <2>1, WindowsStep
<1> QED
  BY <1>1, <1>2, WindowsInvGivesDisjoint, PTL DEF Spec

-----------------------------------------------------------------------------
(* Rows *)

LEMMA NoRowIsNoRow == NoRow \notin Row
<1> SUFFICES ASSUME NoRow \in Row PROVE FALSE
  OBVIOUS
<1>1. NoRow.performance = "none" /\ NoRow.performance \in {"running", "final"}
  BY DEF Row, NoRow
<1> QED
  BY <1>1

(* A step leaves a row what it was, but for the performance columns and    *)
(* columns that get final; a row that is new is early only if its epoch is *)
(* not recorded.                                                           *)
Keeps(row, after) ==
    /\ after # NoRow
    /\ after.late = row.late
    /\ row.commission_effective => after.commission_effective
    /\ row.uptime => after.uptime
    /\ row.commission_observed => after.commission_observed

RowKept(v, e) ==
    /\ Stored(v, e) => Keeps(validators[v][e], validators'[v][e])
    /\ ~Stored(v, e) /\ validators'[v][e] # NoRow /\ Recorded(e) => validators'[v][e].late

LEMMA ChangedRowKept ==
    ASSUME NEW row \in Row
    PROVE  /\ Keeps(row, [row EXCEPT !.performance = "running"])
           /\ Keeps(row, [row EXCEPT !.performance = "final", !.commission_effective = TRUE])
           /\ Keeps(row, [row EXCEPT !.uptime = TRUE])
           /\ Keeps(row, [row EXCEPT !.commission_observed = TRUE])
           /\ Keeps(row, row)
<1>1. /\ [row EXCEPT !.performance = "running"] # NoRow
      /\ [row EXCEPT !.performance = "final", !.commission_effective = TRUE] # NoRow
      /\ [row EXCEPT !.uptime = TRUE] # NoRow
      /\ [row EXCEPT !.commission_observed = TRUE] # NoRow
      /\ row # NoRow
  BY ChangedRowTyped, NoRowIsNoRow
<1> QED
  BY <1>1 DEF Keeps, Row

(* The rows after each action that writes some *)
LEMMA UpdateExistingRows ==
    ASSUME TypeOK, NEW u \in VoteAccounts, UpdateExisting(u),
           NEW v \in VoteAccounts, NEW e \in EpochId
    PROVE  validators'[v][e] =
               IF v = u /\ e = storing.epoch
               THEN [validators[v][e] EXCEPT !.performance = "running"]
               ELSE validators[v][e]
BY DEF UpdateExisting, TypeOK

LEMMA InsertNewRows ==
    ASSUME TypeOK, NEW u \in VoteAccounts, InsertNew(u),
           NEW v \in VoteAccounts, NEW e \in EpochId
    PROVE  validators'[v][e] =
               IF v = u /\ e = storing.epoch
               THEN [performance |-> "running", commission_effective |-> FALSE,
                     uptime |-> FALSE, commission_observed |-> FALSE,
                     late |-> Recorded(storing.epoch)]
               ELSE validators[v][e]
BY DEF InsertNew, TypeOK

LEMMA UpdatePerformanceRows ==
    ASSUME TypeOK, NEW u \in VoteAccounts, UpdatePerformance(u),
           NEW v \in VoteAccounts, NEW e \in EpochId
    PROVE  validators'[v][e] =
               IF v = u /\ e = closing.epoch /\ Stored(v, e)
               THEN [validators[v][e] EXCEPT !.performance = "final",
                                             !.commission_effective = TRUE]
               ELSE validators[v][e]
BY DEF UpdatePerformance, TypeOK

LEMMA UpdateUptimesRows ==
    ASSUME TypeOK, UpdateUptimes, NEW v \in VoteAccounts, NEW e \in EpochId
    PROVE  validators'[v][e] =
               IF e = closing.epoch /\ Stored(v, e)
               THEN [validators[v][e] EXCEPT !.uptime = TRUE]
               ELSE validators[v][e]
BY DEF UpdateUptimes, TypeOK

LEMMA UpdateObservedCommissionRows ==
    ASSUME TypeOK, UpdateObservedCommission, NEW v \in VoteAccounts, NEW e \in EpochId
    PROVE  validators'[v][e] =
               IF e = closing.epoch /\ Stored(v, e)
               THEN [validators[v][e] EXCEPT !.commission_observed = TRUE]
               ELSE validators[v][e]
BY DEF UpdateObservedCommission, TypeOK

LEMMA RowsKept ==
    ASSUME TypeOK, Next \/ UNCHANGED vars, NEW v \in VoteAccounts, NEW e \in EpochId
    PROVE  RowKept(v, e)
<1>1. Stored(v, e) => validators[v][e] \in Row
  BY RowTyped
<1>2. ASSUME validators'[v][e] = validators[v][e] PROVE RowKept(v, e)
  BY <1>1, <1>2, ChangedRowKept DEF RowKept, Stored
<1>3. ASSUME NEW u \in VoteAccounts, UpdateExisting(u) PROVE RowKept(v, e)
  <2>1. Stored(u, storing.epoch)
    BY <1>3 DEF UpdateExisting
  <2>2. CASE v = u /\ e = storing.epoch
    <3>1. Stored(v, e)
      BY <2>1, <2>2
    <3>2. validators'[v][e] = [validators[v][e] EXCEPT !.performance = "running"]
      BY <1>3, <2>2, UpdateExistingRows
    <3>3. validators[v][e] \in Row
      BY <1>1, <3>1
    <3>4. Keeps(validators[v][e], validators'[v][e])
      BY <3>2, <3>3, ChangedRowKept
    <3> QED
      BY <3>1, <3>4 DEF RowKept
  <2>3. CASE ~(v = u /\ e = storing.epoch)
    <3>1. validators'[v][e] = validators[v][e]
      BY <1>3, <2>3, UpdateExistingRows
    <3> QED
      BY <1>2, <3>1
  <2> QED
    BY <2>2, <2>3
<1>4. ASSUME NEW u \in VoteAccounts, InsertNew(u) PROVE RowKept(v, e)
  <2>1. ~Stored(u, storing.epoch)
    BY <1>4 DEF InsertNew
  <2>2. CASE v = u /\ e = storing.epoch
    <3>1. ~Stored(v, e)
      BY <2>1, <2>2
    <3>2. ASSUME Recorded(e) PROVE validators'[v][e].late
      <4>1. Recorded(storing.epoch) = TRUE
        BY <2>2, <3>2
      <4>2. validators'[v][e] = [performance |-> "running", commission_effective |-> FALSE,
                                 uptime |-> FALSE, commission_observed |-> FALSE, late |-> TRUE]
        BY <1>4, <2>2, <4>1, InsertNewRows
      <4> QED
        BY <4>2
    <3> QED
      BY <3>1, <3>2 DEF RowKept
  <2> QED
    BY <1>2, <1>4, <2>2, InsertNewRows
<1>5. ASSUME NEW u \in VoteAccounts, UpdatePerformance(u) PROVE RowKept(v, e)
  <2>1. CASE v = u /\ e = closing.epoch /\ Stored(v, e)
    <3>1. validators'[v][e] = [validators[v][e] EXCEPT !.performance = "final",
                                                   !.commission_effective = TRUE]
      BY <1>5, <2>1, UpdatePerformanceRows
    <3>2. Keeps(validators[v][e], validators'[v][e])
      BY <1>1, <2>1, <3>1, ChangedRowKept
    <3> QED
      BY <2>1, <3>2 DEF RowKept
  <2>2. CASE ~(v = u /\ e = closing.epoch /\ Stored(v, e))
    <3>1. validators'[v][e] = validators[v][e]
      BY <1>5, <2>2, UpdatePerformanceRows
    <3> QED
      BY <1>2, <3>1
  <2> QED
    BY <2>1, <2>2
<1>6. ASSUME UpdateUptimes PROVE RowKept(v, e)
  <2>1. CASE e = closing.epoch /\ Stored(v, e)
    <3>1. validators'[v][e] = [validators[v][e] EXCEPT !.uptime = TRUE]
      BY <1>6, <2>1, UpdateUptimesRows
    <3>2. Keeps(validators[v][e], validators'[v][e])
      BY <1>1, <2>1, <3>1, ChangedRowKept
    <3> QED
      BY <2>1, <3>2 DEF RowKept
  <2>2. CASE ~(e = closing.epoch /\ Stored(v, e))
    <3>1. validators'[v][e] = validators[v][e]
      BY <1>6, <2>2, UpdateUptimesRows
    <3> QED
      BY <1>2, <3>1
  <2> QED
    BY <2>1, <2>2
<1>7. ASSUME UpdateObservedCommission PROVE RowKept(v, e)
  <2>1. CASE e = closing.epoch /\ Stored(v, e)
    <3>1. validators'[v][e] = [validators[v][e] EXCEPT !.commission_observed = TRUE]
      BY <1>7, <2>1, UpdateObservedCommissionRows
    <3>2. Keeps(validators[v][e], validators'[v][e])
      BY <1>1, <2>1, <3>1, ChangedRowKept
    <3> QED
      BY <2>1, <3>2 DEF RowKept
  <2>2. CASE ~(e = closing.epoch /\ Stored(v, e))
    <3>1. validators'[v][e] = validators[v][e]
      BY <1>7, <2>2, UpdateObservedCommissionRows
    <3> QED
      BY <1>2, <3>1
  <2> QED
    BY <2>1, <2>2
<1> QED
  BY <1>2, <1>3, <1>4, <1>5, <1>6, <1>7
  DEF Next, vars, Collect, StoreClusterInfo, SelectExisting, EndStoring, CreateEpochRecord,
      InterruptClosing

(* What close-epoch has set stays set, whatever is stored afterwards.      *)
THEOREM FinalColumnsAreKept == Spec => FinalColumnsStay
<1>1. TypeOK /\ [Next]_vars =>
          [\A v \in VoteAccounts : \A e \in EpochId : Stored(v, e) =>
              LET row == validators[v][e]
                  after == validators'[v][e]
              IN /\ after # NoRow
                 /\ row.commission_effective => after.commission_effective
                 /\ row.uptime => after.uptime
                 /\ row.commission_observed => after.commission_observed]_vars
  BY RowsKept DEF RowKept, Keeps
<1> QED
  BY <1>1, EpochCloseTypeCorrect, PTL DEF Spec, FinalColumnsStay

-----------------------------------------------------------------------------
(* Completed and open epochs *)

(* A row is early after a step only if it was before, or its epoch is not  *)
(* recorded.                                                               *)
LEMMA EarlyBefore ==
    ASSUME TypeOK, Next \/ UNCHANGED vars, NEW v \in VoteAccounts, NEW e \in EpochId,
           Recorded(e), Early(v, e)'
    PROVE  Early(v, e) /\ Keeps(validators[v][e], validators'[v][e])
<1>1. RowKept(v, e)
  BY RowsKept
<1>2. validators'[v][e] # NoRow /\ ~validators'[v][e].late
  BY DEF Early, Stored
<1>3. Stored(v, e)
  BY <1>1, <1>2 DEF RowKept
<1> QED
  BY <1>1, <1>2, <1>3 DEF RowKept, Keeps, Early

LEMMA RecordsStay ==
    ASSUME Next \/ UNCHANGED vars, NEW e, Recorded(e)
    PROVE  Recorded(e)'
<1>1. epochs \subseteq epochs'
  BY DEF Next, vars, Collect, StoreClusterInfo, SelectExisting, UpdateExisting, InsertNew,
         EndStoring, CreateEpochRecord, UpdatePerformance, UpdateUptimes,
         UpdateObservedCommission, InterruptClosing
<1> QED
  BY <1>1 DEF Recorded

LEMMA CompletedTyped ==
    ASSUME TypeOK, NEW c \in completed
    PROVE  c.epoch \in EpochId /\ c.validators \subseteq VoteAccounts
BY DEF TypeOK

(* The same as CompletedCloseIsFinal, of one command and validator *)
Final(c, v) ==
    /\ validators[v][c.epoch].uptime
    /\ validators[v][c.epoch].commission_observed
    /\ v \in c.validators => validators[v][c.epoch].commission_effective

LEMMA CompletedByFinal ==
    CompletedCloseIsFinal <=>
        \A c \in completed : \A v \in VoteAccounts : Early(v, c.epoch) => Final(c, v)
BY DEF CompletedCloseIsFinal, Early, Stored, Final

LEMMA CompletedStaysFinal ==
    ASSUME RowsInv, Next \/ UNCHANGED vars, NEW c \in completed, NEW v \in VoteAccounts,
           Early(v, c.epoch)'
    PROVE  Final(c, v)'
<1> USE DEF RowsInv
<1>1. c.epoch \in EpochId /\ Recorded(c.epoch)
  BY CompletedTyped DEF CompletedRecorded
<1>2. Early(v, c.epoch) /\ Keeps(validators[v][c.epoch], validators'[v][c.epoch])
  BY <1>1, EarlyBefore
<1>3. Final(c, v)
  BY <1>2, CompletedByFinal
<1> QED
  BY <1>2, <1>3 DEF Final, Keeps

(* The last statement of close-epoch completes what the others have set.   *)
LEMMA CompletingIsFinal ==
    ASSUME RowsInv, UpdateObservedCommission, NEW v \in VoteAccounts,
           NEW c, c = [epoch |-> closing.epoch, validators |-> closing.validators],
           Early(v, c.epoch)'
    PROVE  Final(c, v)'
<1> USE DEF RowsInv
<1>1. /\ closing # Idle /\ closing.step = "commissions"
      /\ c.epoch = closing.epoch /\ c.validators = closing.validators
  BY DEF UpdateObservedCommission
<1>2. c.epoch \in EpochId /\ Recorded(c.epoch) /\ closing.left = {}
  BY <1>1, ClosingTyped DEF ClosingRecorded, ClosedSoFar
<1>3. Early(v, c.epoch) /\ Keeps(validators[v][c.epoch], validators'[v][c.epoch])
  BY <1>2, EarlyBefore DEF Next
<1>4. /\ validators[v][c.epoch].uptime
      /\ v \in c.validators => validators[v][c.epoch].commission_effective
  BY <1>1, <1>2, <1>3 DEF ClosedSoFar
<1>5. validators'[v][c.epoch].commission_observed
  <2>1. Stored(v, c.epoch) /\ validators[v][c.epoch] \in Row
    BY <1>2, <1>3, RowTyped DEF Early
  <2>2. validators'[v][c.epoch] = [validators[v][c.epoch] EXCEPT !.commission_observed = TRUE]
    BY <1>1, <1>2, <2>1, UpdateObservedCommissionRows
  <2> QED
    BY <2>1, <2>2 DEF Row
<1> QED
  BY <1>3, <1>4, <1>5 DEF Final, Keeps

LEMMA CompletedStep ==
    ASSUME RowsInv, Next \/ UNCHANGED vars
    PROVE  CompletedRecorded' /\ CompletedCloseIsFinal'
<1>1. ASSUME NEW c \in completed', c \notin completed
      PROVE  /\ UpdateObservedCommission
             /\ c = [epoch |-> closing.epoch, validators |-> closing.validators]
  <2>1. completed' = completed \/ UpdateObservedCommission
    BY DEF Next, vars, Collect, StoreClusterInfo, SelectExisting, UpdateExisting, InsertNew,
           EndStoring, CreateEpochRecord, UpdatePerformance, UpdateUptimes, InterruptClosing
  <2> QED
    BY <1>1, <2>1 DEF UpdateObservedCommission
<1>2. ASSUME NEW c \in completed', NEW v \in VoteAccounts, Early(v, c.epoch)'
      PROVE  Final(c, v)'
  BY <1>1, <1>2, CompletedStaysFinal, CompletingIsFinal
<1>3. CompletedCloseIsFinal'
  BY <1>2 DEF CompletedCloseIsFinal, Early, Stored, Final
<1>4. ASSUME NEW c \in completed' PROVE Recorded(c.epoch)'
  <2>1. Recorded(c.epoch)
    BY <1>1 DEF RowsInv, CompletedRecorded, ClosingRecorded, UpdateObservedCommission
  <2> QED
    BY <2>1, RecordsStay
<1> QED
  BY <1>3, <1>4 DEF CompletedRecorded

ClosingInv == ClosingRecorded /\ ClosedSoFar

(* What the statements so far have set stays set.                          *)
LEMMA ClosedStays ==
    ASSUME RowsInv, Next \/ UNCHANGED vars, closing # Idle,
           NEW e, e = closing.epoch, NEW v \in VoteAccounts, Early(v, e)'
    PROVE  /\ e \in EpochId
           /\ Early(v, e) /\ Keeps(validators[v][e], validators'[v][e])
           /\ v \in closing.validators \ closing.left => validators'[v][e].commission_effective
           /\ closing.step = "commissions" => validators'[v][e].uptime
<1> USE DEF RowsInv
<1>1. e \in EpochId /\ Recorded(e)
  BY ClosingTyped DEF ClosingRecorded
<1>2. Early(v, e) /\ Keeps(validators[v][e], validators'[v][e])
  BY <1>1, EarlyBefore
<1> QED
  BY <1>1, <1>2 DEF ClosedSoFar, Keeps

(* ClosedSoFar of the command's next state, told of the epoch itself       *)
LEMMA ClosedSoFarNext ==
    ASSUME RowsInv, NEW e, closing' # Idle => closing'.epoch = e,
           closing'.validators \subseteq VoteAccounts,
           \A v \in VoteAccounts : Early(v, e)' =>
               /\ v \in closing'.validators \ closing'.left =>
                      validators'[v][e].commission_effective
               /\ closing'.step = "commissions" => validators'[v][e].uptime,
           closing'.step = "commissions" => closing'.left = {}
    PROVE  ClosedSoFar'
BY DEF ClosedSoFar, Early, Stored

LEMMA PerformanceStep ==
    ASSUME RowsInv, NEW u \in VoteAccounts, UpdatePerformance(u)
    PROVE  ClosingInv'
<1> USE DEF RowsInv
<1>1. PICK e : e = closing.epoch
  OBVIOUS
<1>2. /\ closing # Idle /\ closing.step = "performance" /\ closing \in Closing
      /\ Next
  BY ClosingTyped DEF UpdatePerformance, Next
<1>3. /\ closing'.epoch = e /\ closing'.validators = closing.validators
      /\ closing'.left = closing.left \ {u} /\ closing'.step = "performance"
      /\ closing' # Idle
  BY <1>1, <1>2 DEF UpdatePerformance, Closing, Idle
<1>4. ASSUME NEW v \in VoteAccounts, Early(v, e)', v \in closing'.validators \ closing'.left
      PROVE  validators'[v][e].commission_effective
  <2>1. CASE v # u
    BY <1>1, <1>2, <1>3, <1>4, <2>1, ClosedStays
  <2>2. CASE v = u
    <3>1. e \in EpochId /\ Early(v, e)
      BY <1>1, <1>2, <1>4, ClosedStays
    <3>2. validators'[v][e] = [validators[v][e] EXCEPT !.performance = "final",
                                                       !.commission_effective = TRUE]
      BY <1>1, <2>2, <3>1, UpdatePerformanceRows DEF Early
    <3>3. validators[v][e] \in Row
      BY <3>1, RowTyped DEF Early
    <3> QED
      BY <3>2, <3>3 DEF Row
  <2> QED
    BY <2>1, <2>2
<1>5. closing.validators \subseteq VoteAccounts
  BY <1>2, ClosingTyped
<1>6. ClosedSoFar'
  BY <1>3, <1>4, <1>5, ClosedSoFarNext
<1>7. ClosingRecorded'
  <2>1. epochs' = epochs
    BY DEF UpdatePerformance
  <2> QED
    BY <1>1, <1>2, <1>3, <2>1 DEF ClosingRecorded, Recorded
<1> QED
  BY <1>6, <1>7 DEF ClosingInv

LEMMA UptimesStep ==
    ASSUME RowsInv, UpdateUptimes
    PROVE  ClosingInv'
<1> USE DEF RowsInv
<1>1. PICK e : e = closing.epoch
  OBVIOUS
<1>2. /\ closing # Idle /\ closing.step = "performance" /\ closing.left = {}
      /\ closing \in Closing /\ Next
  BY ClosingTyped DEF UpdateUptimes, Next
<1>3. /\ closing'.epoch = e /\ closing'.validators = closing.validators
      /\ closing'.left = {} /\ closing'.step = "commissions"
      /\ closing' # Idle
  BY <1>1, <1>2 DEF UpdateUptimes, Closing, Idle
<1>4. ASSUME NEW v \in VoteAccounts, Early(v, e)'
      PROVE  /\ v \in closing.validators => validators'[v][e].commission_effective
             /\ validators'[v][e].uptime
  <2>1. /\ e \in EpochId /\ Early(v, e)
        /\ v \in closing.validators => validators'[v][e].commission_effective
    BY <1>1, <1>2, <1>4, ClosedStays
  <2>2. validators'[v][e] = [validators[v][e] EXCEPT !.uptime = TRUE]
    BY <1>1, <2>1, UpdateUptimesRows DEF Early
  <2>3. validators[v][e] \in Row
    BY <2>1, RowTyped DEF Early
  <2>4. validators'[v][e].uptime
    BY <2>2, <2>3 DEF Row
  <2> QED
    BY <2>1, <2>4
<1>5. closing.validators \subseteq VoteAccounts
  BY <1>2, ClosingTyped
<1>6. ClosedSoFar'
  BY <1>3, <1>4, <1>5, ClosedSoFarNext
<1>7. ClosingRecorded'
  <2>1. epochs' = epochs
    BY DEF UpdateUptimes
  <2> QED
    BY <1>1, <1>2, <1>3, <2>1 DEF ClosingRecorded, Recorded
<1> QED
  BY <1>6, <1>7 DEF ClosingInv

LEMMA ClosingStep ==
    ASSUME RowsInv, Next \/ UNCHANGED vars
    PROVE  ClosingInv'
<1> USE DEF RowsInv
<1>1. ASSUME closing' = closing, closing # Idle PROVE ClosingInv'
  <2>1. PICK e : e = closing.epoch
    OBVIOUS
  <2>2. Recorded(e)' /\ e \in EpochId
    BY <1>1, <2>1, RecordsStay, ClosingTyped DEF ClosingRecorded
  <2>3. closing.validators \subseteq VoteAccounts
    BY <1>1, ClosingTyped
  <2>4. \A v \in VoteAccounts : Early(v, e)' =>
            /\ v \in closing.validators \ closing.left =>
                   validators'[v][e].commission_effective
            /\ closing.step = "commissions" => validators'[v][e].uptime
    BY <1>1, <2>1, ClosedStays
  <2>5. closing.step = "commissions" => closing.left = {}
    BY <1>1 DEF ClosedSoFar
  <2>6. ClosedSoFar'
    BY <1>1, <2>1, <2>3, <2>4, <2>5, ClosedSoFarNext
  <2>7. ClosingRecorded'
    BY <1>1, <2>1, <2>2 DEF ClosingRecorded, Recorded
  <2> QED
    BY <2>6, <2>7 DEF ClosingInv
<1>2. ASSUME closing' = Idle PROVE ClosingInv'
  BY <1>2 DEF ClosingInv, ClosingRecorded, ClosedSoFar
<1>3. ASSUME NEW e \in EpochId, NEW present \in SUBSET VoteAccounts, CreateEpochRecord(e, present)
      PROVE  ClosingInv'
  <2>1. closing' = [step |-> "performance", epoch |-> e,
                    validators |-> present, left |-> present]
    BY <1>3 DEF CreateEpochRecord
  <2>2. \E r \in epochs' : r.epoch = e
    <3> DEFINE start == IF PreviousEnd(e) # {} THEN Max(PreviousEnd(e)) ELSE Min(InfoOf(e))
               r == [epoch |-> e, start_at |-> start, end_at |-> Max(InfoOf(e))]
    <3>1. r \in epochs'
      BY <1>3 DEF CreateEpochRecord
    <3>2. r.epoch = e
      OBVIOUS
    <3> QED
      BY <3>1, <3>2
  <2> QED
    BY <2>1, <2>2 DEF ClosingInv, ClosingRecorded, ClosedSoFar, Recorded
<1>4. ASSUME NEW v \in VoteAccounts, UpdatePerformance(v) PROVE ClosingInv'
  BY <1>4, PerformanceStep
<1>5. ASSUME UpdateUptimes PROVE ClosingInv'
  BY <1>5, UptimesStep
<1> QED
  BY <1>1, <1>2, <1>3, <1>4, <1>5
  DEF Next, vars, Collect, StoreClusterInfo, SelectExisting, UpdateExisting, InsertNew,
      EndStoring, UpdateObservedCommission, InterruptClosing

(* The rows of an epoch that is not recorded are as they were inserted: no *)
(* close-epoch is at work on them.                                         *)
Untouched(row) == row.performance = "running" /\ ~row.uptime /\ ~row.commission_effective

LEMMA OpenByUntouched ==
    OpenEpochsUntouched <=>
        \A v \in VoteAccounts, e \in EpochId :
            ~Recorded(e) /\ Stored(v, e) => Untouched(validators[v][e])
BY DEF OpenEpochsUntouched, OpenEpochs, Untouched

LEMMA OpenStep ==
    ASSUME RowsInv, Next \/ UNCHANGED vars
    PROVE  OpenEpochsUntouched'
<1> USE DEF RowsInv
<1> SUFFICES ASSUME NEW v \in VoteAccounts, NEW e \in EpochId, ~Recorded(e)',
                    validators'[v][e] # NoRow
             PROVE  Untouched(validators'[v][e])
  BY DEF OpenEpochsUntouched, OpenEpochs, Untouched, Stored
<1>1. ~Recorded(e)
  BY RecordsStay
<1>2. ASSUME validators'[v][e] = validators[v][e] PROVE Untouched(validators'[v][e])
  BY <1>1, <1>2, OpenByUntouched DEF Stored
<1>3. ASSUME NEW u \in VoteAccounts, UpdateExisting(u) PROVE Untouched(validators'[v][e])
  <2>1. CASE v = u /\ e = storing.epoch
    <3>1. Stored(v, e)
      BY <1>3, <2>1 DEF UpdateExisting
    <3>2. validators'[v][e] = [validators[v][e] EXCEPT !.performance = "running"]
      BY <1>3, <2>1, UpdateExistingRows
    <3>3. validators[v][e] \in Row /\ Untouched(validators[v][e])
      BY <1>1, <3>1, RowTyped, OpenByUntouched
    <3> QED
      BY <3>2, <3>3 DEF Untouched, Row
  <2>2. CASE ~(v = u /\ e = storing.epoch)
    <3>1. validators'[v][e] = validators[v][e]
      BY <1>3, <2>2, UpdateExistingRows
    <3> QED
      BY <1>2, <3>1
  <2> QED
    BY <2>1, <2>2
<1>4. ASSUME NEW u \in VoteAccounts, InsertNew(u) PROVE Untouched(validators'[v][e])
  BY <1>2, <1>4, InsertNewRows DEF Untouched
<1>5. ASSUME closing # Idle, e # closing.epoch => validators'[v][e] = validators[v][e]
      PROVE  Untouched(validators'[v][e])
  BY <1>1, <1>2, <1>5 DEF ClosingRecorded
<1>6. ASSUME NEW u \in VoteAccounts, UpdatePerformance(u) PROVE Untouched(validators'[v][e])
  <2>1. closing # Idle
    BY <1>6 DEF UpdatePerformance
  <2>2. e # closing.epoch => validators'[v][e] = validators[v][e]
    BY <1>6, UpdatePerformanceRows
  <2> QED
    BY <1>5, <2>1, <2>2
<1>7. ASSUME UpdateUptimes PROVE Untouched(validators'[v][e])
  BY <1>5, <1>7, UpdateUptimesRows DEF UpdateUptimes
<1>8. ASSUME UpdateObservedCommission PROVE Untouched(validators'[v][e])
  BY <1>5, <1>8, UpdateObservedCommissionRows DEF UpdateObservedCommission
<1> QED
  BY <1>2, <1>3, <1>4, <1>6, <1>7, <1>8
  DEF Next, vars, Collect, StoreClusterInfo, SelectExisting, EndStoring, CreateEpochRecord,
      InterruptClosing

LEMMA RowsInductive == Spec => []RowsInv
<1>1. Init => RowsInv
  <2> SUFFICES ASSUME Init PROVE RowsInv
    OBVIOUS
  <2>1. TypeOK
    BY InitTyped
  <2>2. \A v \in VoteAccounts, e \in EpochId : ~Stored(v, e)
    BY DEF Init, Stored
  <2>3. OpenEpochsUntouched
    BY <2>2, OpenByUntouched
  <2>4. ClosingRecorded /\ ClosedSoFar /\ CompletedRecorded /\ CompletedCloseIsFinal
    BY DEF Init, ClosingRecorded, ClosedSoFar, CompletedRecorded, CompletedCloseIsFinal
  <2> QED
    BY <2>1, <2>3, <2>4 DEF RowsInv
<1>2. RowsInv /\ [Next]_vars => RowsInv'
  <2> SUFFICES ASSUME RowsInv, Next \/ UNCHANGED vars PROVE RowsInv'
    OBVIOUS
  <2>1. TypeOK'
    BY TypeStep DEF RowsInv, vars, TypeOK
  <2> QED
    BY <2>1, ClosingStep, CompletedStep, OpenStep DEF RowsInv, ClosingInv
<1> QED
  BY <1>1, <1>2, PTL DEF Spec

(* A close-epoch that ran to its end has set all final values, whatever is *)
(* stored beside it.                                                       *)
THEOREM CompletedClosesAreFinal == Spec => []CompletedCloseIsFinal
<1>1. RowsInv => CompletedCloseIsFinal
  BY DEF RowsInv
<1> QED
  BY <1>1, RowsInductive, PTL

(* An epoch that is offered to be closed has no final value yet.           *)
THEOREM OpenEpochsAreUntouched == Spec => []OpenEpochsUntouched
<1>1. RowsInv => OpenEpochsUntouched
  BY DEF RowsInv
<1> QED
  BY <1>1, RowsInductive, PTL

=============================================================================
