------------------------- MODULE JitoAccountsProofs -------------------------
(***************************************************************************)
(* Proofs about JitoAccounts, for any validators, any length of epochs and *)
(* any interval between collections.                                       *)
(***************************************************************************)
EXTENDS JitoAccounts, WellFoundedInduction, TLAPS

-----------------------------------------------------------------------------
(* A nonempty set of natural numbers has a least element.                  *)
LEMMA LeastOfNaturals ==
    ASSUME NEW S \in SUBSET Nat, S # {}
    PROVE  \E x \in S : \A y \in S : x <= y
<1> DEFINE R == OpToRel(<, Nat)
<1>1. IsWellFoundedOn(R, Nat)
  BY NatLessThanWellFounded
<1>2. \A x, y \in Nat : <<y, x>> \in R <=> y < x
  BY DEF OpToRel
<1> HIDE DEF R
<1>3. PICK x \in S : \A y \in S : ~ (<<y, x>> \in R)
  BY <1>1, WFMin
<1>4. ASSUME NEW y \in S PROVE x <= y
  <2>1. x \in Nat /\ y \in Nat /\ ~ (y < x)
    BY <1>2, <1>3
  <2> QED
    BY <2>1
<1> QED
  BY <1>4

(* A nonempty set of numbers up to n has a greatest and a least element.   *)
LEMMA MaxMin ==
    ASSUME NEW n \in Nat, NEW S \in SUBSET (0..n), S # {}
    PROVE  /\ Max(S) \in S /\ \A x \in S : x <= Max(S)
           /\ Min(S) \in S /\ \A x \in S : Min(S) <= x
<1>1. PICK least \in S : \A y \in S : least <= y
  BY LeastOfNaturals
<1>2. \E x \in S : \A y \in S : y <= x
  <2> DEFINE T == {n - x : x \in S}
  <2>1. \A x \in S : x \in Nat /\ x <= n /\ n - x \in Nat
    OBVIOUS
  <2>2. T \subseteq Nat /\ T # {}
    BY <2>1
  <2>3. PICK t \in T : \A y \in T : t <= y
    BY <2>2, LeastOfNaturals
  <2>4. PICK x \in S : t = n - x
    OBVIOUS
  <2>5. ASSUME NEW y \in S PROVE y <= x
    <3>1. n - y \in T
      OBVIOUS
    <3>2. n - x <= n - y
      BY <2>3, <2>4, <3>1
    <3> HIDE DEF T
    <3> QED
      BY <2>1, <3>2
  <2> QED
    BY <2>5
<1> QED
  BY <1>1, <1>2 DEF Max, Min

(* The job collects an epoch that is over, and rows are of such epochs.    *)
EpochsOver ==
    /\ epoch >= 1
    /\ \A r \in table : r.epoch < epoch
    /\ job.step \in {"fetch", "fetched", "store", "update", "insert"} => job.epoch < epoch

(* What was fetched was so, and accounts only go from absent to created to *)
(* uploaded.                                                               *)
SnapshotIsPast ==
    /\ job.step \in {"collect", "fetch"} => job.snapshot = NothingFetched
    /\ \A v \in VoteAccounts :
           /\ job.snapshot[v] = "uploaded" => account[job.epoch][v] = "uploaded"
           /\ job.at_start[v] = "uploaded" => account[job.epoch][v] = "uploaded"
           /\ job.at_start[v] # "absent" => account[job.epoch][v] # "absent"

(* After the first request an account that was there at the beginning is   *)
(* in the snapshot or has its root; after the second it is in.             *)
SnapshotSoFar ==
    \A v \in VoteAccounts :
        /\ job.step = "fetched" /\ job.at_start[v] # "absent" =>
               job.snapshot[v] # "absent" \/ account[job.epoch][v] = "uploaded"
        /\ job.step \in {"store", "update", "insert"} =>
               /\ job.at_start[v] # "absent" => job.snapshot[v] # "absent"
               /\ job.at_start[v] = "uploaded" => job.snapshot[v] = "uploaded"

(* What the statements of `store` have written so far; only what has no    *)
(* row is inserted.                                                        *)
StoredSoFar ==
    /\ job.step = "update" =>
           \A v \in InSnapshot : v \in Existing /\ v \notin job.left => RowFor(v) \in table
    /\ job.step = "insert" =>
           /\ job.left \cap Existing = {}
           /\ \A v \in InSnapshot : v \notin job.left => RowFor(v) \in table

IInv ==
    /\ TypeOK
    /\ EpochsOver
    /\ SnapshotIsPast
    /\ SnapshotSoFar
    /\ StoredSoFar
    /\ OneRowPerAccount

-----------------------------------------------------------------------------
LEMMA SlotTyped == ASSUME NEW s \in Slot PROVE s \in Nat /\ s < SlotsInEpoch
BY JitoAccountsAssumption DEF Slot, JitoAccountsAssumption

LEMMA EpochTyped == ASSUME NEW e \in EpochId PROVE e \in Nat
BY JitoAccountsAssumption DEF EpochId, JitoAccountsAssumption

LEMMA JobTyped ==
    ASSUME TypeOK
    PROVE  /\ job.epoch \in EpochId /\ job.epoch_slot \in Slot
           /\ job.left \subseteq VoteAccounts
           /\ job.snapshot \in [VoteAccounts -> AccountState]
           /\ job.at_start \in [VoteAccounts -> AccountState]
           /\ job.step # "idle" => job \in Job
<1>1. 0 \in EpochId /\ 0 \in Slot
  BY JitoAccountsAssumption DEF EpochId, Slot, JitoAccountsAssumption
<1>2. CASE job = Idle
  BY <1>1, <1>2 DEF Idle, NothingFetched, AccountState
<1>3. CASE job \in Job
  BY <1>3 DEF Job
<1> QED
  BY <1>2, <1>3 DEF TypeOK

LEMMA RowForTyped ==
    ASSUME TypeOK, NEW v \in VoteAccounts
    PROVE  /\ RowFor(v) \in Row
           /\ RowFor(v).epoch = job.epoch /\ RowFor(v).vote_account = v
           /\ RowFor(v).epoch_slot = job.epoch_slot
           /\ RowFor(v).root <=> job.snapshot[v] = "uploaded"
BY JobTyped DEF RowFor, Row

LEMMA InitInv == Init => IInv
<1> SUFFICES ASSUME Init PROVE IInv
  OBVIOUS
<1>1. 1 \in EpochId /\ 0 \in EpochId /\ 0 \in Slot
  BY JitoAccountsAssumption DEF EpochId, Slot, JitoAccountsAssumption
<1>2. TypeOK
  BY <1>1 DEF Init, TypeOK, NothingFetched, AccountState
<1>3. EpochsOver /\ SnapshotIsPast /\ SnapshotSoFar /\ StoredSoFar /\ OneRowPerAccount
  BY DEF Init, Idle, NothingFetched, EpochsOver, SnapshotIsPast, SnapshotSoFar, StoredSoFar,
         OneRowPerAccount
<1> QED
  BY <1>2, <1>3 DEF IInv

-----------------------------------------------------------------------------
(* Steps of the chain and of the accounts leave the table and the job.     *)

LEMMA WorldStep ==
    ASSUME IInv, UNCHANGED <<table, job>>,
           epoch' \in EpochId /\ slot' \in Slot /\ epoch <= epoch',
           account' \in [EpochId -> [VoteAccounts -> AccountState]],
           \A e \in EpochId, v \in VoteAccounts :
               /\ account[e][v] = "uploaded" => account'[e][v] = "uploaded"
               /\ account[e][v] # "absent" => account'[e][v] # "absent"
    PROVE  IInv'
<1> USE DEF IInv
<1>1. \A r \in table : r.epoch \in EpochId /\ r.vote_account \in VoteAccounts
  BY DEF TypeOK, Row
<1>2. TypeOK'
  BY <1>1 DEF TypeOK
<1>3. EpochsOver'
  <2>1. epoch \in Nat /\ epoch' \in Nat /\ job.epoch \in Nat /\ \A r \in table : r.epoch \in Nat
    BY <1>1, EpochTyped, JobTyped DEF TypeOK
  <2> QED
    BY <2>1 DEF EpochsOver
<1>4. SnapshotIsPast' /\ SnapshotSoFar'
  BY JobTyped DEF SnapshotIsPast, SnapshotSoFar
<1>5. StoredSoFar' /\ OneRowPerAccount'
  BY DEF StoredSoFar, OneRowPerAccount, InSnapshot, Existing, RowsOf, RowFor
<1> QED
  BY <1>2, <1>3, <1>4, <1>5

LEMMA TickStep == ASSUME IInv, Tick PROVE IInv'
<1>1. epoch \in EpochId /\ slot \in Slot /\ epoch \in Nat /\ slot \in Nat
  BY EpochTyped, SlotTyped DEF IInv, TypeOK
<1>2. epoch' \in EpochId /\ slot' \in Slot /\ epoch <= epoch'
  BY <1>1, JitoAccountsAssumption DEF Tick, EpochId, Slot, JitoAccountsAssumption
<1> QED
  BY <1>2, WorldStep DEF Tick, IInv, TypeOK

LEMMA CreateAccountStep ==
    ASSUME IInv, NEW u \in VoteAccounts, CreateAccount(u)
    PROVE  IInv'
<1>1. epoch \in EpochId /\ slot \in Slot /\ epoch \in Nat
  BY EpochTyped DEF IInv, TypeOK
<1>2. account' \in [EpochId -> [VoteAccounts -> AccountState]]
  BY DEF CreateAccount, IInv, TypeOK, AccountState
<1>3. \A e \in EpochId, v \in VoteAccounts :
          /\ account[e][v] = "uploaded" => account'[e][v] = "uploaded"
          /\ account[e][v] # "absent" => account'[e][v] # "absent"
  BY <1>1 DEF CreateAccount, IInv, TypeOK
<1> QED
  BY <1>1, <1>2, <1>3, WorldStep DEF CreateAccount

LEMMA UploadRootStep ==
    ASSUME IInv, NEW d \in EpochId, NEW u \in VoteAccounts, UploadRoot(d, u)
    PROVE  IInv'
<1>1. epoch \in EpochId /\ slot \in Slot /\ epoch \in Nat
  BY EpochTyped DEF IInv, TypeOK
<1>2. account' \in [EpochId -> [VoteAccounts -> AccountState]]
  BY DEF UploadRoot, IInv, TypeOK, AccountState
<1>3. \A e \in EpochId, v \in VoteAccounts :
          /\ account[e][v] = "uploaded" => account'[e][v] = "uploaded"
          /\ account[e][v] # "absent" => account'[e][v] # "absent"
  BY <1>1 DEF UploadRoot, IInv, TypeOK
<1> QED
  BY <1>1, <1>2, <1>3, WorldStep DEF UploadRoot

-----------------------------------------------------------------------------
(* Steps of the job *)

LEMMA IdleStep ==
    ASSUME IInv, UNCHANGED <<epoch, slot, account, table>>,
           job' = Idle \/ job' = [Idle EXCEPT !.step = "collect"]
    PROVE  IInv'
<1> USE DEF IInv
<1>1. job'.step \in {"idle", "collect"} /\ job'.snapshot = NothingFetched
      /\ job'.at_start = NothingFetched
  BY DEF Idle
<1>2. job' \in {Idle} \cup Job
  <2>1. 0 \in EpochId /\ 0 \in Slot
    BY JitoAccountsAssumption DEF EpochId, Slot, JitoAccountsAssumption
  <2> QED
    BY <2>1 DEF Idle, Job, NothingFetched, AccountState
<1>3. TypeOK' /\ EpochsOver' /\ OneRowPerAccount'
  BY <1>1, <1>2 DEF TypeOK, EpochsOver, OneRowPerAccount
<1>4. SnapshotIsPast' /\ SnapshotSoFar' /\ StoredSoFar'
  BY <1>1 DEF SnapshotIsPast, SnapshotSoFar, StoredSoFar, NothingFetched
<1> QED
  BY <1>3, <1>4

LEMMA EpochInfoStep == ASSUME IInv, EpochInfo PROVE IInv'
<1> USE DEF IInv
<1>1. epoch \in EpochId /\ slot \in Slot /\ epoch \in Nat /\ epoch >= 1
  BY EpochTyped DEF TypeOK, EpochsOver
<1>2. epoch - 1 \in EpochId
  BY <1>1, JitoAccountsAssumption DEF EpochId, JitoAccountsAssumption
<1>3. job \in Job
  BY JobTyped DEF EpochInfo
<1>4. /\ job'.step = "fetch" /\ job'.epoch = epoch - 1
      /\ job'.at_start = account[epoch - 1] /\ job'.snapshot = job.snapshot
      /\ UNCHANGED <<epoch, slot, account, table>>
  BY <1>3 DEF EpochInfo, Job
<1>5. job' \in Job
  BY <1>1, <1>2, <1>3 DEF EpochInfo, Job, TypeOK
<1>6. TypeOK' /\ EpochsOver' /\ OneRowPerAccount'
  BY <1>1, <1>4, <1>5 DEF TypeOK, EpochsOver, OneRowPerAccount
<1>7. SnapshotSoFar' /\ StoredSoFar'
  BY <1>4 DEF SnapshotSoFar, StoredSoFar
<1>8. SnapshotIsPast'
  <2>1. job.snapshot = NothingFetched
    BY DEF SnapshotIsPast, EpochInfo
  <2> QED
    BY <1>4, <2>1 DEF SnapshotIsPast, NothingFetched
<1> QED
  BY <1>6, <1>7, <1>8

LEMMA FetchFirstStep == ASSUME IInv, Fetch(1) PROVE IInv'
<1> USE DEF IInv
<1>1. job \in Job /\ job.step = "fetch" /\ job.epoch \in EpochId
  BY JobTyped DEF Fetch
<1>2. account[job.epoch] \in [VoteAccounts -> AccountState]
  BY <1>1 DEF TypeOK
<1>3. /\ job'.step = "fetched" /\ job'.epoch = job.epoch
      /\ job'.at_start = job.at_start
      /\ UNCHANGED <<epoch, slot, account, table>>
  BY <1>1 DEF Fetch, Job
<1>4. \A v \in VoteAccounts :
          job'.snapshot[v] = IF account[job.epoch][v] = "created" THEN "created" ELSE "absent"
  BY <1>1 DEF Fetch, Job, Requests, SnapshotIsPast, NothingFetched
<1>5. job' \in Job
  <2>1. [v \in VoteAccounts |-> IF account[job.epoch][v] = Requests[1]
                                THEN Requests[1] ELSE job.snapshot[v]]
            \in [VoteAccounts -> AccountState]
    BY <1>1 DEF Requests, Job, AccountState
  <2> QED
    BY <1>1, <2>1 DEF Fetch, Job
<1>6. TypeOK' /\ EpochsOver' /\ OneRowPerAccount'
  BY <1>1, <1>3, <1>5 DEF TypeOK, EpochsOver, OneRowPerAccount
<1>7. SnapshotIsPast'
  BY <1>3, <1>4 DEF SnapshotIsPast
<1>8. SnapshotSoFar'
  BY <1>2, <1>3, <1>4 DEF SnapshotSoFar, SnapshotIsPast, AccountState
<1>9. StoredSoFar'
  BY <1>3 DEF StoredSoFar
<1> QED
  BY <1>6, <1>7, <1>8, <1>9

LEMMA FetchSecondStep == ASSUME IInv, Fetch(2) PROVE IInv'
<1> USE DEF IInv
<1>1. job \in Job /\ job.step = "fetched" /\ job.epoch \in EpochId
  BY JobTyped DEF Fetch
<1>2. account[job.epoch] \in [VoteAccounts -> AccountState]
  BY <1>1 DEF TypeOK
<1>3. /\ job'.step = "store" /\ job'.epoch = job.epoch
      /\ job'.at_start = job.at_start
      /\ UNCHANGED <<epoch, slot, account, table>>
  BY <1>1 DEF Fetch, Job
<1>4. \A v \in VoteAccounts :
          job'.snapshot[v] =
              IF account[job.epoch][v] = "uploaded" THEN "uploaded" ELSE job.snapshot[v]
  BY <1>1 DEF Fetch, Job, Requests
<1>5. job' \in Job
  <2>1. [v \in VoteAccounts |-> IF account[job.epoch][v] = Requests[2]
                                THEN Requests[2] ELSE job.snapshot[v]]
            \in [VoteAccounts -> AccountState]
    BY <1>1 DEF Requests, Job, AccountState
  <2> QED
    BY <1>1, <2>1 DEF Fetch, Job
<1>6. TypeOK' /\ EpochsOver' /\ OneRowPerAccount'
  BY <1>1, <1>3, <1>5 DEF TypeOK, EpochsOver, OneRowPerAccount
<1>7. SnapshotIsPast'
  BY <1>3, <1>4 DEF SnapshotIsPast
<1>8. SnapshotSoFar'
  BY <1>1, <1>3, <1>4 DEF SnapshotSoFar, SnapshotIsPast
<1>9. StoredSoFar'
  BY <1>3 DEF StoredSoFar
<1> QED
  BY <1>6, <1>7, <1>8, <1>9

(* The statements of `store` change neither what was fetched nor the epoch. *)
LEMMA StoringKeeps ==
    ASSUME IInv, UNCHANGED <<epoch, slot, account>>,
           job.step \in {"store", "update", "insert"}, job'.step \in {"update", "insert"},
           NEW left \in SUBSET VoteAccounts,
           job' = [job EXCEPT !.step = job'.step, !.left = left],
           \A r \in table' : r \in table \/ \E v \in VoteAccounts : r = RowFor(v)
    PROVE  /\ TypeOK' /\ EpochsOver' /\ SnapshotIsPast' /\ SnapshotSoFar'
           /\ InSnapshot' = InSnapshot
           /\ \A u \in VoteAccounts : RowFor(u)' = RowFor(u)
<1> USE DEF IInv
<1>1. job \in Job /\ job.epoch \in EpochId
  BY JobTyped
<1>2. /\ job'.epoch = job.epoch /\ job'.epoch_slot = job.epoch_slot
      /\ job'.snapshot = job.snapshot /\ job'.at_start = job.at_start
  BY <1>1 DEF Job
<1>3. job' \in Job
  BY <1>1 DEF Job
<1>4. \A r \in table' :
          r \in Row /\ r.epoch < epoch
          /\ (r.root => account[r.epoch][r.vote_account] = "uploaded")
  <2>1. ASSUME NEW v \in VoteAccounts
        PROVE  /\ RowFor(v) \in Row /\ RowFor(v).epoch < epoch
               /\ RowFor(v).root =>
                      account[RowFor(v).epoch][RowFor(v).vote_account] = "uploaded"
    BY RowForTyped DEF EpochsOver, SnapshotIsPast
  <2> QED
    BY <2>1 DEF TypeOK, EpochsOver
<1>5. TypeOK' /\ EpochsOver'
  BY <1>2, <1>3, <1>4 DEF TypeOK, EpochsOver
<1>6. SnapshotIsPast' /\ SnapshotSoFar'
  BY <1>2 DEF SnapshotIsPast, SnapshotSoFar
<1>7. InSnapshot' = InSnapshot /\ \A u \in VoteAccounts : RowFor(u)' = RowFor(u)
  BY <1>2 DEF InSnapshot, RowFor
<1> QED
  BY <1>5, <1>6, <1>7

LEMMA SelectExistingStep == ASSUME IInv, SelectExisting PROVE IInv'
<1> USE DEF IInv
<1>1. job \in Job
  BY JobTyped DEF SelectExisting
<1>2. job'.step = "update" /\ job' = [job EXCEPT !.step = job'.step, !.left = InSnapshot \cap Existing]
  BY <1>1 DEF SelectExisting, Job
<1>3. InSnapshot \cap Existing \in SUBSET VoteAccounts
  BY DEF InSnapshot
<1>4. job'.left = InSnapshot \cap Existing /\ job'.epoch = job.epoch
  BY <1>1 DEF SelectExisting, Job
<1>5. /\ TypeOK' /\ EpochsOver' /\ SnapshotIsPast' /\ SnapshotSoFar'
      /\ InSnapshot' = InSnapshot
  BY <1>2, <1>3, StoringKeeps DEF SelectExisting
<1>6. Existing' = Existing
  BY <1>4 DEF SelectExisting, Existing, RowsOf
<1>7. StoredSoFar'
  BY <1>2, <1>4, <1>5, <1>6 DEF StoredSoFar
<1>8. OneRowPerAccount'
  BY DEF SelectExisting, OneRowPerAccount
<1> QED
  BY <1>5, <1>7, <1>8

LEMMA UpdateRowStep ==
    ASSUME IInv, NEW u \in VoteAccounts, UpdateRow(u)
    PROVE  IInv'
<1> USE DEF IInv
<1>1. job \in Job /\ job.left \subseteq VoteAccounts
  BY JobTyped DEF UpdateRow
<1>2. /\ job.step = "update" /\ job'.step = "update"
      /\ job'.left = job.left \ {u} /\ job'.epoch = job.epoch
      /\ job' = [job EXCEPT !.step = job'.step, !.left = job.left \ {u}]
  BY <1>1 DEF UpdateRow, Job
<1> DEFINE Updated(r) == r.epoch = job.epoch /\ r.vote_account = u
<1>3. table' = {IF Updated(r) THEN RowFor(u) ELSE r : r \in table}
  BY DEF UpdateRow
<1>4. RowFor(u).epoch = job.epoch /\ RowFor(u).vote_account = u
  BY RowForTyped
<1>5. \A r \in table' : r = RowFor(u) \/ (r \in table /\ ~Updated(r))
  BY <1>3
<1>6. \A r \in table : ~Updated(r) => r \in table'
  BY <1>3
<1>7. /\ TypeOK' /\ EpochsOver' /\ SnapshotIsPast' /\ SnapshotSoFar'
      /\ InSnapshot' = InSnapshot
      /\ \A v \in VoteAccounts : RowFor(v)' = RowFor(v)
  <2> HIDE DEF Updated
  <2>1. job.left \ {u} \in SUBSET VoteAccounts
    BY <1>1
  <2> QED
    BY <1>2, <1>5, <2>1, StoringKeeps DEF UpdateRow
<1>8. OneRowPerAccount'
  BY <1>4, <1>5 DEF OneRowPerAccount
<1>9. StoredSoFar'
  <2> SUFFICES ASSUME NEW v \in InSnapshot, v \in Existing', v \notin job'.left
               PROVE  RowFor(v) \in table'
    BY <1>2, <1>7 DEF StoredSoFar, InSnapshot
  <2>1. PICK s \in table' : s.epoch = job.epoch /\ s.vote_account = v
    BY <1>2 DEF Existing, RowsOf
  <2>2. CASE v = u
    <3>1. PICK r \in table : s = IF Updated(r) THEN RowFor(u) ELSE r
      BY <1>3
    <3>2. Updated(r)
      BY <2>1, <2>2, <3>1
    <3> QED
      BY <1>3, <2>2, <3>2
  <2>3. CASE v # u
    <3>1. s \in table
      BY <1>4, <1>5, <2>1, <2>3
    <3>2. v \in Existing /\ v \notin job.left
      BY <1>2, <2>1, <2>3, <3>1 DEF Existing, RowsOf
    <3>3. RowFor(v) \in table
      BY <1>2, <3>2 DEF StoredSoFar
    <3>4. ~Updated(RowFor(v))
      BY <2>3, RowForTyped DEF InSnapshot
    <3> QED
      BY <1>6, <3>3, <3>4
  <2> QED
    BY <2>2, <2>3
<1> QED
  BY <1>7, <1>8, <1>9

LEMMA EndUpdatesStep == ASSUME IInv, EndUpdates PROVE IInv'
<1> USE DEF IInv
<1>1. job \in Job
  BY JobTyped DEF EndUpdates
<1>2. /\ job.step = "update" /\ job.left = {} /\ job'.step = "insert"
      /\ job' = [job EXCEPT !.step = job'.step, !.left = InSnapshot \ Existing]
  BY <1>1 DEF EndUpdates, Job
<1>3. InSnapshot \ Existing \in SUBSET VoteAccounts
  BY DEF InSnapshot
<1>4. job'.left = InSnapshot \ Existing /\ job'.epoch = job.epoch
  BY <1>1 DEF EndUpdates, Job
<1>5. /\ TypeOK' /\ EpochsOver' /\ SnapshotIsPast' /\ SnapshotSoFar'
      /\ InSnapshot' = InSnapshot
      /\ \A u \in VoteAccounts : RowFor(u)' = RowFor(u)
  BY <1>2, <1>3, StoringKeeps DEF EndUpdates
<1>6. Existing' = Existing /\ table' = table
  BY <1>4 DEF EndUpdates, Existing, RowsOf
<1>7. \A v \in InSnapshot : v \notin job'.left => RowFor(v) \in table
  BY <1>2, <1>4 DEF StoredSoFar
<1>8. StoredSoFar'
  BY <1>2, <1>4, <1>5, <1>6, <1>7 DEF StoredSoFar, InSnapshot
<1>9. OneRowPerAccount'
  BY <1>6 DEF OneRowPerAccount
<1> QED
  BY <1>5, <1>8, <1>9

LEMMA InsertRowStep ==
    ASSUME IInv, NEW u \in VoteAccounts, InsertRow(u)
    PROVE  IInv'
<1> USE DEF IInv
<1>1. job \in Job /\ job.left \subseteq VoteAccounts
  BY JobTyped DEF InsertRow
<1>2. /\ job.step = "insert" /\ job'.step = "insert" /\ u \in job.left
      /\ job'.left = job.left \ {u} /\ job'.epoch = job.epoch
      /\ job' = [job EXCEPT !.step = job'.step, !.left = job.left \ {u}]
  BY <1>1 DEF InsertRow, Job
<1>3. table' = table \cup {RowFor(u)}
  BY DEF InsertRow
<1>4. RowFor(u).epoch = job.epoch /\ RowFor(u).vote_account = u
  BY RowForTyped
<1>5. job.left \cap Existing = {}
  BY <1>2 DEF StoredSoFar
<1>6. /\ TypeOK' /\ EpochsOver' /\ SnapshotIsPast' /\ SnapshotSoFar'
      /\ InSnapshot' = InSnapshot
      /\ \A v \in VoteAccounts : RowFor(v)' = RowFor(v)
  <2>1. job.left \ {u} \in SUBSET VoteAccounts
    BY <1>1
  <2>2. \A r \in table' : r \in table \/ \E v \in VoteAccounts : r = RowFor(v)
    BY <1>3
  <2> QED
    BY <1>2, <2>1, <2>2, StoringKeeps DEF InsertRow
<1>7. \A r \in table : ~(r.epoch = job.epoch /\ r.vote_account = u)
  BY <1>2, <1>5 DEF Existing, RowsOf
<1>8. OneRowPerAccount'
  BY <1>3, <1>4, <1>7 DEF OneRowPerAccount
<1>9. StoredSoFar'
  <2>1. Existing' = Existing \cup {u}
    BY <1>2, <1>3, <1>4 DEF Existing, RowsOf
  <2>2. job'.left \cap Existing' = {}
    BY <1>2, <1>5, <2>1
  <2>3. \A v \in InSnapshot : v \notin job'.left => RowFor(v) \in table'
    BY <1>2, <1>3 DEF StoredSoFar
  <2> QED
    BY <1>2, <1>6, <2>2, <2>3 DEF StoredSoFar, InSnapshot
<1> QED
  BY <1>6, <1>8, <1>9

-----------------------------------------------------------------------------
LEMMA NextInv == ASSUME IInv, [Next]_vars PROVE IInv'
<1>1. CASE \E v \in VoteAccounts : CreateAccount(v)
  BY <1>1, CreateAccountStep
<1>2. CASE \E e \in EpochId, v \in VoteAccounts : UploadRoot(e, v)
  BY <1>2, UploadRootStep
<1>3. CASE \E i \in {1, 2} : Fetch(i)
  BY <1>3, FetchFirstStep, FetchSecondStep
<1>4. CASE \E v \in VoteAccounts : UpdateRow(v)
  BY <1>4, UpdateRowStep
<1>5. CASE \E v \in VoteAccounts : InsertRow(v)
  BY <1>5, InsertRowStep
<1>6. CASE CheckProceeds \/ EndJob \/ Crash
  BY <1>6, IdleStep DEF CheckProceeds, EndJob, Crash
<1>7. CASE CheckSkips \/ UNCHANGED vars
  <2>1. UNCHANGED <<table, job, epoch, slot, account>>
    BY <1>7 DEF CheckSkips, vars
  <2>2. epoch \in Nat
    BY EpochTyped DEF IInv, TypeOK
  <2> QED
    BY <2>1, <2>2, WorldStep DEF IInv, TypeOK
<1> QED
  BY <1>1, <1>2, <1>3, <1>4, <1>5, <1>6, <1>7, TickStep, EpochInfoStep, SelectExistingStep,
     EndUpdatesStep
  DEF Next

LEMMA Invariance == Spec => []IInv
BY InitInv, NextInv, PTL DEF Spec

(* Every variable of the Jito job keeps a value of its kind, and the table *)
(* never claims a root that Jito has not uploaded.                         *)
THEOREM JitoTypeCorrect == Spec => []TypeOK
BY Invariance, PTL DEF IInv

(* The tables hold one row of an account for each epoch, although nothing  *)
(* in the schema says so and jobs break off between any two chunks.        *)
THEOREM AccountsHaveOneRow == Spec => []OneRowPerAccount
BY Invariance, PTL DEF IInv

LEMMA StoredIsComplete == IInv => NoAccountMissed
<1> SUFFICES ASSUME IInv, job.step = "insert", job.left = {},
                    NEW v \in VoteAccounts, job.at_start[v] # "absent"
             PROVE  \E r \in RowsOf(job.epoch) :
                        /\ r.vote_account = v
                        /\ r.epoch_slot = job.epoch_slot
                        /\ job.at_start[v] = "uploaded" => r.root
  BY DEF NoAccountMissed
<1>1. /\ v \in InSnapshot
      /\ job.at_start[v] = "uploaded" => job.snapshot[v] = "uploaded"
  BY DEF IInv, SnapshotSoFar, InSnapshot
<1>2. RowFor(v) \in table
  BY <1>1 DEF IInv, StoredSoFar
<1>3. RowFor(v) \in RowsOf(job.epoch)
  BY <1>2, RowForTyped DEF IInv, RowsOf
<1> QED
  BY <1>1, <1>3, RowForTyped DEF IInv

(* A job that ends has a row, of its own collection, for every account     *)
(* that was there when it began, whatever root was uploaded between its    *)
(* two requests and whatever an earlier job left behind.                   *)
THEOREM EveryAccountStored == Spec => []NoAccountMissed
BY Invariance, StoredIsComplete, PTL

-----------------------------------------------------------------------------
(* The distance of collections.  A job that the check let through finds    *)
(* the rows of its epoch an interval old, and they only get older until it *)
(* asks for the slot.  After that, every row of its epoch is its own or an *)
(* interval older.                                                         *)
SpacedSoFar ==
    /\ job.step = "collect" =>
           \A r \in table : r.epoch = epoch - 1 => slot - r.epoch_slot >= Interval
    /\ job.step \in {"fetch", "fetched", "store", "update", "insert"} =>
           \A r \in table : r.epoch = job.epoch =>
               r.epoch_slot = job.epoch_slot \/ job.epoch_slot - r.epoch_slot >= Interval

SInv == IInv /\ SpacedSoFar /\ CollectionsSpaced

LEMMA Numbers ==
    ASSUME TypeOK
    PROVE  /\ epoch \in Nat /\ slot \in Nat /\ Interval \in Nat
           /\ job.epoch \in Nat /\ job.epoch_slot \in Nat
           /\ \A r \in table : r.epoch \in Nat /\ r.epoch_slot \in Nat
<1>1. \A r \in table : r.epoch \in EpochId /\ r.epoch_slot \in Slot
  BY DEF TypeOK, Row
<1>2. Interval \in Nat
  BY JitoAccountsAssumption DEF JitoAccountsAssumption
<1> QED
  BY <1>1, <1>2, EpochTyped, SlotTyped, JobTyped DEF TypeOK

LEMMA LastEpochIsLast ==
    ASSUME TypeOK, table # {}
    PROVE  /\ LastEpoch \in Nat
           /\ \E r \in table : r.epoch = LastEpoch
           /\ \A r \in table : r.epoch <= LastEpoch
<1> DEFINE S == {r.epoch : r \in table}
<1>1. S \in SUBSET (0..MaxEpoch) /\ S # {} /\ MaxEpoch \in Nat
  BY JitoAccountsAssumption DEF JitoAccountsAssumption, TypeOK, Row, EpochId
<1>2. Max(S) \in S /\ \A x \in S : x <= Max(S)
  <2> HIDE DEF S
  <2> QED
    BY <1>1, MaxMin
<1>3. LastEpoch = Max(S)
  BY DEF LastEpoch
<1>4. LastEpoch \in Nat
  <2>1. \A x \in S : x \in Nat
    BY DEF TypeOK, Row, EpochId
  <2> QED
    BY <1>2, <1>3, <2>1
<1>5. \E r \in table : r.epoch = LastEpoch
  BY <1>2, <1>3
<1>6. \A r \in table : r.epoch \in S
  OBVIOUS
<1> HIDE DEF S
<1> QED
  BY <1>2, <1>3, <1>4, <1>5, <1>6

LEMMA LastEpochSlotIsLast ==
    ASSUME TypeOK, NEW r \in table, r.epoch = LastEpoch
    PROVE  LastEpochSlot \in Nat /\ r.epoch_slot <= LastEpochSlot
<1> DEFINE S == {s.epoch_slot : s \in RowsOf(LastEpoch)}
<1>1. RowsOf(LastEpoch) \subseteq table /\ r \in RowsOf(LastEpoch)
  BY DEF RowsOf
<1>2. SlotsInEpoch - 1 \in Nat
  BY JitoAccountsAssumption DEF JitoAccountsAssumption
<1>3. S \in SUBSET (0..(SlotsInEpoch - 1)) /\ r.epoch_slot \in S
  BY <1>1 DEF TypeOK, Row, Slot
<1>4. Max(S) \in S /\ \A x \in S : x <= Max(S)
  <2> HIDE DEF S
  <2> QED
    BY <1>2, <1>3, MaxMin
<1>5. LastEpochSlot = Max(S)
  BY DEF LastEpochSlot
<1>6. \A x \in S : x \in Nat
  BY <1>1 DEF TypeOK, Row, Slot
<1> HIDE DEF S
<1> QED
  BY <1>3, <1>4, <1>5, <1>6

LEMMA CheckSpaces == ASSUME IInv, CheckProceeds PROVE SpacedSoFar'
<1>1. TypeOK /\ Due /\ UNCHANGED <<epoch, slot, table>>
  BY DEF IInv, CheckProceeds
<1>2. job'.step = "collect"
  BY DEF CheckProceeds, Idle
<1>3. ASSUME NEW r \in table, r.epoch = epoch - 1 PROVE slot - r.epoch_slot >= Interval
  <2>1. LastEpoch \in Nat /\ r.epoch <= LastEpoch /\ epoch \in Nat
    BY <1>1, LastEpochIsLast, Numbers
  <2>2. PICK s \in table : s.epoch = LastEpoch
    BY <1>1, LastEpochIsLast
  <2>3. LastEpoch < epoch
    BY <2>2 DEF IInv, EpochsOver
  <2>4. r.epoch = LastEpoch
    BY <1>3, <2>1, <2>3
  <2>5. slot - LastEpochSlot >= Interval
    BY <1>1, <1>3, <2>1, <2>4 DEF Due
  <2>6. LastEpochSlot \in Nat /\ r.epoch_slot <= LastEpochSlot
    BY <1>1, <2>4, LastEpochSlotIsLast
  <2> QED
    BY <1>1, <2>5, <2>6, Numbers
<1> QED
  BY <1>1, <1>2, <1>3 DEF SpacedSoFar

LEMMA TickSpaces == ASSUME IInv, SpacedSoFar, Tick PROVE SpacedSoFar'
<1>1. UNCHANGED <<table, job>> /\ TypeOK
  BY DEF Tick, IInv
<1>2. ASSUME job.step = "collect", NEW r \in table, r.epoch = epoch' - 1
      PROVE  slot' - r.epoch_slot >= Interval
  <2>1. CASE slot' = slot + 1 /\ epoch' = epoch
    <3>1. slot - r.epoch_slot >= Interval
      BY <1>2, <2>1 DEF SpacedSoFar
    <3> QED
      BY <1>1, <2>1, <3>1, Numbers
  <2>2. CASE epoch' = epoch + 1
    <3>1. r.epoch < epoch
      BY DEF IInv, EpochsOver
    <3> QED
      BY <1>1, <1>2, <2>2, <3>1, Numbers
  <2> QED
    BY <2>1, <2>2 DEF Tick
<1> QED
  BY <1>1, <1>2 DEF SpacedSoFar

LEMMA EpochInfoSpaces == ASSUME IInv, SpacedSoFar, EpochInfo PROVE SpacedSoFar'
<1>1. job \in Job /\ job.step = "collect"
  BY JobTyped DEF EpochInfo, IInv
<1>2. job'.step = "fetch" /\ job'.epoch = epoch - 1 /\ job'.epoch_slot = slot /\ table' = table
  BY <1>1 DEF EpochInfo, Job
<1> QED
  BY <1>1, <1>2 DEF SpacedSoFar

(* A row that `store` writes is of the collection of the job.              *)
LEMMA WriteSpaces ==
    ASSUME IInv, SpacedSoFar, CollectionsSpaced,
           job.step \in {"fetch", "fetched", "store", "update", "insert"},
           job'.step \in {"fetch", "fetched", "store", "update", "insert"},
           job'.epoch = job.epoch, job'.epoch_slot = job.epoch_slot,
           \A r \in table' : r \in table \/ \E v \in VoteAccounts : r = RowFor(v)
    PROVE  SpacedSoFar' /\ CollectionsSpaced'
<1>1. TypeOK
  BY DEF IInv
<1>2. \A r \in table' :
          \/ r \in table
          \/ r.epoch = job.epoch /\ r.epoch_slot = job.epoch_slot
  BY <1>1, RowForTyped
<1>3. \A r \in table' : r.epoch = job.epoch =>
          r.epoch_slot = job.epoch_slot \/ job.epoch_slot - r.epoch_slot >= Interval
  BY <1>2 DEF SpacedSoFar
<1>4. \A r \in table' : r.epoch_slot \in Nat
  BY <1>1, <1>2, Numbers
<1>5. ASSUME NEW r \in table', NEW s \in table',
             r.epoch = s.epoch, r.epoch_slot < s.epoch_slot
      PROVE  s.epoch_slot - r.epoch_slot >= Interval
  <2>1. CASE r \in table /\ s \in table
    BY <1>5, <2>1 DEF CollectionsSpaced
  <2>2. CASE ~(r \in table /\ s \in table)
    <3>1. r.epoch = job.epoch /\ s.epoch = job.epoch
      BY <1>2, <1>5, <2>2
    <3>2. r.epoch_slot = job.epoch_slot \/ s.epoch_slot = job.epoch_slot
      BY <1>2, <2>2
    <3>3. /\ r.epoch_slot = job.epoch_slot \/ job.epoch_slot - r.epoch_slot >= Interval
          /\ s.epoch_slot = job.epoch_slot \/ job.epoch_slot - s.epoch_slot >= Interval
      BY <1>3, <3>1
    <3>4. /\ r.epoch_slot \in Nat /\ s.epoch_slot \in Nat
          /\ job.epoch_slot \in Nat /\ Interval \in Nat
      BY <1>1, <1>4, Numbers
    <3> QED
      BY <1>5, <3>2, <3>3, <3>4
  <2> QED
    BY <2>1, <2>2
<1> QED
  BY <1>3, <1>5 DEF SpacedSoFar, CollectionsSpaced

LEMMA NextSpaced == ASSUME SInv, [Next]_vars PROVE SInv'
<1> USE DEF SInv
<1>1. IInv'
  BY NextInv
<1>2. CASE Tick
  BY <1>1, <1>2, TickSpaces DEF Tick, CollectionsSpaced
<1>3. CASE CheckProceeds
  BY <1>1, <1>3, CheckSpaces DEF CheckProceeds, CollectionsSpaced
<1>4. CASE EpochInfo
  BY <1>1, <1>4, EpochInfoSpaces DEF EpochInfo, CollectionsSpaced
<1>5. CASE EndJob \/ Crash
  <2>1. job'.step = "idle" /\ table' = table
    BY <1>5 DEF EndJob, Crash, Idle
  <2> QED
    BY <1>1, <2>1 DEF SpacedSoFar, CollectionsSpaced
<1>6. CASE CheckSkips \/ UNCHANGED vars \/ (\E v \in VoteAccounts : CreateAccount(v))
           \/ (\E e \in EpochId, v \in VoteAccounts : UploadRoot(e, v))
  <2>1. UNCHANGED <<epoch, slot, table, job>>
    BY <1>6 DEF CheckSkips, vars, CreateAccount, UploadRoot
  <2> QED
    BY <1>1, <2>1 DEF SpacedSoFar, CollectionsSpaced
<1>7. CASE (\E i \in {1, 2} : Fetch(i)) \/ SelectExisting \/ EndUpdates
  <2>1. job \in Job
    BY <1>7, JobTyped DEF IInv, Fetch, SelectExisting, EndUpdates
  <2>2. /\ job.step \in {"fetch", "fetched", "store", "update"}
        /\ job'.step \in {"fetched", "store", "update", "insert"}
        /\ job'.epoch = job.epoch /\ job'.epoch_slot = job.epoch_slot
        /\ table' = table
    BY <1>7, <2>1 DEF Fetch, SelectExisting, EndUpdates, Job
  <2> QED
    BY <1>1, <2>2, WriteSpaces
<1>8. CASE \E v \in VoteAccounts : UpdateRow(v) \/ InsertRow(v)
  <2>1. PICK v \in VoteAccounts : UpdateRow(v) \/ InsertRow(v)
    BY <1>8
  <2>2. job \in Job
    BY <2>1, JobTyped DEF IInv, UpdateRow, InsertRow
  <2>3. /\ job.step \in {"update", "insert"} /\ job'.step = job.step
        /\ job'.epoch = job.epoch /\ job'.epoch_slot = job.epoch_slot
    BY <2>1, <2>2 DEF UpdateRow, InsertRow, Job
  <2>4. \A r \in table' : r \in table \/ r = RowFor(v)
    BY <2>1 DEF UpdateRow, InsertRow
  <2> QED
    BY <1>1, <2>3, <2>4, WriteSpaces
<1> QED
  BY <1>2, <1>3, <1>4, <1>5, <1>6, <1>7, <1>8 DEF Next

(* Collections of one epoch stay an execution interval apart, also when    *)
(* the chain goes on between the check and the collection, and when a job  *)
(* that broke off leaves rows of two collections in the table.             *)
THEOREM CollectionsStaySpaced == Spec => []CollectionsSpaced
<1>1. Init => SInv
  BY InitInv DEF Init, Idle, SInv, SpacedSoFar, CollectionsSpaced
<1> QED
  BY <1>1, NextSpaced, PTL DEF Spec, SInv

=============================================================================
