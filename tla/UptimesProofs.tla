--------------------------- MODULE UptimesProofs ---------------------------
(***************************************************************************)
(* Safety of `store uptime` for every set of validators, every set of      *)
(* timestamps and every StatusTail and MaxDelay, with failed commands      *)
(* re-run or skipped.                                                      *)
(***************************************************************************)
EXTENDS Downtimes, SequenceTheorems, FiniteSetTheorems, WellFoundedInduction, TLAPS

(* The last row of v, which RowsOrdered makes the one LatestRow selects.   *)
Last(v) == uptimes[v][Len(uptimes[v])]

(* A timestamp names one snapshot. *)
SnapshotsDistinct ==
    \A s1, s2 \in snapshots : s1.created_at = s2.created_at => s1 = s2

(* The running command works on the newest snapshot any command began.     *)
CommandIsNewest ==
    /\ cmd # Idle => cmd.snapshot \in snapshots /\ cmd.snapshot.created_at = begun
    /\ \A t \in stored : t <= begun /\ \E s \in snapshots : s.created_at = t

(* Every row began with a collected observation, and none is younger than  *)
(* the newest command.                                                     *)
RowsObserved ==
    \A v \in VoteAccounts : \A i \in DOMAIN uptimes[v] :
        /\ uptimes[v][i].start_at <= begun
        /\ \E s \in snapshots :
              /\ s.created_at = uptimes[v][i].start_at
              /\ Present(s, v) /\ Continues(uptimes[v][i], v, s)

(* Until its UPDATE, what the command decided is still what the table says.*)
DecisionIsCurrent ==
    cmd # Idle /\ cmd.step = "update" =>
        /\ cmd.extended = ExtendedStatus(cmd.snapshot)
        /\ cmd.extensions = RecordsExtensions(cmd.snapshot)

(* After it, an extended row reaches past the snapshot, and everything     *)
(* else the validator has ended before it.                                 *)
ReadyToInsert ==
    cmd # Idle /\ cmd.step = "insert" =>
        \A v \in VoteAccounts : Present(cmd.snapshot, v) =>
            IF v \in cmd.extended
            THEN /\ uptimes[v] # <<>>
                 /\ Last(v).end_at = begun + StatusTail
                 /\ Continues(Last(v), v, cmd.snapshot)
            ELSE uptimes[v] # <<>> =>
                    /\ Last(v).end_at <= begun
                    /\ Continues(Last(v), v, cmd.snapshot) => Last(v).end_at + MaxDelay <= begun

(* If the newest command was completed, each of its observations is the    *)
(* last row of its validator.                                              *)
NewestKept ==
    \A s \in snapshots : s.created_at = begun /\ begun \in stored =>
        \A v \in VoteAccounts : Present(s, v) =>
            /\ uptimes[v] # <<>>
            /\ Last(v).end_at = begun + StatusTail
            /\ Continues(Last(v), v, s)

IInv ==
    /\ TypeOK
    /\ RowsOrdered
    /\ SnapshotsDistinct
    /\ CommandIsNewest
    /\ RowsObserved
    /\ DecisionIsCurrent
    /\ ReadyToInsert
    /\ NewestKept
    /\ OutagesNotSplit
    /\ ObservationsKept

-----------------------------------------------------------------------------
(* Lemmas about one validator's rows *)

(* An idle cmd is not a command, so a command has a step to look at.       *)
LEMMA CommandStep ==
    ASSUME TypeOK, cmd # Idle
    PROVE  cmd \in Command
BY DEF TypeOK

(* The rows of uptime.rs are records of naturals, at positions from 1 on.  *)
LEMMA RowTyped ==
    ASSUME NEW rows \in Seq(Row)
    PROVE  /\ Len(rows) \in Nat /\ DOMAIN rows = 1..Len(rows)
           /\ rows # <<>> => Len(rows) # 0
           /\ \A i \in 1..Len(rows) :
                 rows[i] \in Row /\ rows[i].start_at \in Nat /\ rows[i].end_at \in Nat
<1>1. \A i \in 1..Len(rows) : rows[i] \in Row
  OBVIOUS
<1>2. \A r \in Row : r.start_at \in Nat /\ r.end_at \in Nat
  BY DEF Row
<1>3. QED
  BY <1>1, <1>2

(* In ordered rows the last one has the greatest end, so DISTINCT ON has   *)
(* no tie to break.                                                        *)
LEMMA LatestIsLast ==
    ASSUME TypeOK, RowsOrdered, NEW v \in VoteAccounts, uptimes[v] # <<>>
    PROVE  LatestRow(v) = Len(uptimes[v])
<1> DEFINE rows == uptimes[v]
           n == Len(rows)
           Latest(i) == \A j \in DOMAIN rows : rows[j].end_at <= rows[i].end_at
<1>1. rows \in Seq(Row)
  BY DEF TypeOK
<1>2. /\ n \in Nat \ {0} /\ DOMAIN rows = 1..n
      /\ \A i \in 1..n : rows[i].start_at \in Nat /\ rows[i].end_at \in Nat
  BY <1>1, RowTyped
<1>3. \A i \in 1..n : i # n => rows[i].end_at < rows[n].end_at
  BY <1>1, <1>2 DEF RowsOrdered, Ordered
<1>4. n \in DOMAIN rows /\ Latest(n)
  BY <1>1, <1>2, <1>3
<1>5. \A i \in DOMAIN rows : Latest(i) => i = n
  BY <1>1, <1>2, <1>3
<1>6. QED
  BY <1>4, <1>5 DEF LatestRow

(* A validator with rows has a last one, which is a row as well.           *)
LEMMA LastTyped ==
    ASSUME TypeOK, NEW v \in VoteAccounts, uptimes[v] # <<>>
    PROVE  /\ Len(uptimes[v]) \in Nat \ {0} /\ Len(uptimes[v]) \in 1..Len(uptimes[v])
           /\ DOMAIN uptimes[v] = 1..Len(uptimes[v])
           /\ Last(v) \in Row /\ Last(v).start_at \in Nat /\ Last(v).end_at \in Nat
<1>1. uptimes[v] \in Seq(Row)
  BY DEF TypeOK
<1>2. Len(uptimes[v]) \in Nat \ {0} /\ Len(uptimes[v]) \in 1..Len(uptimes[v])
  BY <1>1, RowTyped
<1>3. QED
  BY <1>1, <1>2, RowTyped DEF Last

(* Moving the end of the last row past its start keeps the rows in order.  *)
LEMMA OrderedExtend ==
    ASSUME NEW rows \in Seq(Row), Ordered(rows), rows # <<>>,
           NEW e \in Nat, rows[Len(rows)].start_at < e
    PROVE  Ordered([rows EXCEPT ![Len(rows)].end_at = e])
BY DEF Ordered, Row

(* Row by row: only the end of the last row may differ.                    *)
OnlyLastEndDiffers(old, new) ==
    /\ new \in Seq(Row) /\ Len(new) = Len(old) /\ Len(old) \in Nat
    /\ DOMAIN new = 1..Len(old) /\ DOMAIN old = 1..Len(old)
    /\ old # <<>> => new # <<>> /\ Len(old) \in 1..Len(old)
    /\ \A i \in 1..Len(old) :
          /\ new[i].status = old[i].status /\ new[i].epoch = old[i].epoch
          /\ new[i].start_at = old[i].start_at
          /\ i # Len(old) => new[i].end_at = old[i].end_at

(* What moving the end of the last row changes, and what it leaves.        *)
LEMMA ExtendLast ==
    ASSUME NEW rows \in Seq(Row), rows # <<>>, NEW e \in Nat, NEW new,
           new = [rows EXCEPT ![Len(rows)].end_at = e]
    PROVE  /\ OnlyLastEndDiffers(rows, new)
           /\ new # <<>> /\ new[Len(rows)].end_at = e
<1> DEFINE n == Len(rows)
<1>1. /\ n \in Nat /\ n # 0 /\ DOMAIN rows = 1..n
      /\ \A i \in 1..n : rows[i] \in Row
  BY RowTyped
<1>2. new = [i \in 1..n |-> IF i = n THEN [rows[n] EXCEPT !.end_at = e] ELSE rows[i]]
  BY <1>1
<1>3. [rows[n] EXCEPT !.end_at = e] \in Row
  <2>1. \A r \in Row : [r EXCEPT !.end_at = e] \in Row
    BY DEF Row
  <2>2. QED
    BY <1>1, <2>1
<1>4. new \in Seq(Row) /\ Len(new) = n /\ DOMAIN new = 1..n
  BY <1>1, <1>2, <1>3, IsASeq
<1>5. \A i \in 1..n :
         /\ i # n => new[i] = rows[i]
         /\ new[i].status = rows[i].status /\ new[i].epoch = rows[i].epoch
         /\ new[i].start_at = rows[i].start_at
  BY <1>1, <1>2 DEF Row
<1>6. new[n].end_at = e
  BY <1>1, <1>2 DEF Row
<1>7. new # <<>>
  BY <1>1, <1>4
<1>8. n \in 1..n
  BY <1>1
<1>9. QED
  BY <1>1, <1>4, <1>5, <1>6, <1>7, <1>8 DEF OnlyLastEndDiffers

(* What appending a row changes. *)
LEMMA AppendRow ==
    ASSUME NEW rows \in Seq(Row), NEW row \in Row, NEW new, new = Append(rows, row)
    PROVE  /\ new \in Seq(Row) /\ new # <<>> /\ Len(new) = Len(rows) + 1
           /\ DOMAIN rows = 1..Len(rows) /\ DOMAIN new = 1..(Len(rows) + 1)
           /\ \A i \in 1..Len(rows) : new[i] = rows[i]
           /\ new[Len(rows) + 1] = row
BY AppendProperties, RowTyped

(* A new row that starts when the last one has ended keeps the order.      *)
LEMMA OrderedAppend ==
    ASSUME NEW rows \in Seq(Row), Ordered(rows), NEW row \in Row,
           row.start_at < row.end_at,
           rows # <<>> => rows[Len(rows)].end_at <= row.start_at
    PROVE  Ordered(Append(rows, row))
<1> DEFINE n == Len(rows)
           new == Append(rows, row)
<1>1. /\ n \in Nat /\ DOMAIN rows = 1..n /\ DOMAIN new = 1..(n + 1)
      /\ new[n + 1] = row
      /\ \A i \in 1..n : new[i] = rows[i]
  OBVIOUS
<1>2. \A i \in 1..n : rows[i].start_at \in Nat /\ rows[i].end_at \in Nat
  BY RowTyped
<1>3. row.start_at \in Nat /\ row.end_at \in Nat
  BY DEF Row
<1>4. \A i \in 1..n : rows[i].end_at <= row.start_at
  <2> TAKE i \in 1..n
  <2>1. n \in 1..n /\ rows # <<>>
    BY <1>1
  <2>2. rows[i].end_at <= rows[n].end_at
    BY <1>1, <1>2, <2>1 DEF Ordered
  <2>3. QED
    BY <1>1, <1>2, <1>3, <2>1, <2>2
<1>5. QED
  BY <1>1, <1>2, <1>3, <1>4 DEF Ordered

(* UptimesAssumption, in the form that the arithmetic steps need.          *)
LEMMA ConstantsTyped ==
    /\ Instants \subseteq Nat /\ Epochs \subseteq Nat
    /\ StatusTail \in Nat /\ StatusTail > 0 /\ MaxDelay \in Nat /\ MaxDelay > 0
<1>1. /\ Instants \subseteq Nat /\ Epochs \subseteq Nat
      /\ StatusTail \in Nat \ {0} /\ MaxDelay \in Nat \ {0}
  BY UptimesAssumption, Zenon DEF UptimesAssumption
<1>2. QED
  BY <1>1

(* The timestamps that a command works out from a snapshot are naturals.   *)
LEMMA SnapshotTyped ==
    ASSUME NEW s \in Snapshot
    PROVE  /\ s.created_at \in Nat /\ s.created_at \in Instants /\ s.epoch \in Epochs
           /\ s.created_at + StatusTail \in Nat
<1>1. s.created_at \in Instants /\ s.epoch \in Epochs
  BY DEF Snapshot
<1>2. s.created_at \in Nat
  BY <1>1, ConstantsTyped
<1>3. QED
  BY <1>1, <1>2, ConstantsTyped

(* What the INSERT of uptime.rs writes is a row.                           *)
LEMMA NewRowTyped ==
    ASSUME NEW s \in Snapshot, NEW v \in VoteAccounts
    PROVE  NewRow(v, s) \in Row
BY SnapshotTyped DEF NewRow, Row, StatusFromDelinquency

-----------------------------------------------------------------------------
(* The inductive invariant *)

(* The empty tables satisfy the invariant.                                 *)
LEMMA InitIInv == Init => IInv
<1> SUFFICES ASSUME Init PROVE IInv
  OBVIOUS
<1>1. \A v \in VoteAccounts : uptimes[v] = <<>> /\ uptimes[v] \in Seq(Row)
  BY EmptySeq DEF Init
<1>2. uptimes \in [VoteAccounts -> Seq(Row)]
  BY <1>1 DEF Init
<1>3. TypeOK
  BY <1>2 DEF Init, TypeOK
<1>4. /\ RowsOrdered /\ RowsObserved /\ OutagesNotSplit
  BY <1>1 DEF RowsOrdered, Ordered, RowsObserved, OutagesNotSplit
<1>5. QED
  BY <1>3, <1>4 DEF Init, IInv, SnapshotsDistinct, CommandIsNewest, DecisionIsCurrent,
                    ReadyToInsert, NewestKept, ObservationsKept

(* A new snapshot is younger than all others, so nothing refers to it yet. *)
LEMMA CollectIInv ==
    ASSUME IInv, NEW s \in Snapshot, Collect(s)
    PROVE  IInv'
<1>1. /\ uptimes' = uptimes /\ cmd' = cmd /\ begun' = begun /\ stored' = stored
      /\ crashed' = crashed /\ skipped' = skipped /\ snapshots' = snapshots \cup {s}
  BY DEF Collect
<1>0. \A old \in snapshots : old.created_at # s.created_at
  <2>1. \A old \in snapshots : old.created_at \in Nat /\ old.created_at < s.created_at
    BY SnapshotTyped DEF IInv, TypeOK, Collect
  <2>2. QED
    BY <2>1, SnapshotTyped
<1>2. TypeOK'
  BY <1>1 DEF IInv, TypeOK
<1>3. RowsOrdered' /\ OutagesNotSplit'
  BY <1>1 DEF IInv, RowsOrdered, OutagesNotSplit
<1>4. SnapshotsDistinct'
  BY <1>1, <1>0 DEF IInv, SnapshotsDistinct
<1>5. CommandIsNewest' /\ ReadyToInsert'
  BY <1>1 DEF IInv, CommandIsNewest, ReadyToInsert, Last
<1>6. RowsObserved'
  BY <1>1 DEF IInv, RowsObserved
<1>7. DecisionIsCurrent'
  <2>1. \A x : ExtendedStatus(x)' = ExtendedStatus(x) /\ RecordsExtensions(x)' = RecordsExtensions(x)
    BY <1>1 DEF ExtendedStatus, RecordsExtensions, WithinReach, LatestRow
  <2>2. QED
    BY <1>1, <2>1 DEF IInv, DecisionIsCurrent
<1>8. s.created_at \notin stored
  BY <1>0 DEF IInv, CommandIsNewest
<1>9. NewestKept'
  BY <1>1, <1>8 DEF IInv, NewestKept, Last
<1>10. ObservationsKept'
  BY <1>1, <1>8 DEF IInv, ObservationsKept
<1>11. QED
  BY <1>2, <1>3, <1>4, <1>5, <1>6, <1>7, <1>9, <1>10 DEF IInv

(* A command that starts reads the latest rows: its decision is current.   *)
LEMMA SelectIInv ==
    ASSUME IInv, NEW s \in snapshots, SelectLatest(s)
    PROVE  IInv'
<1>1. /\ uptimes' = uptimes /\ snapshots' = snapshots /\ stored' = stored
      /\ begun' = s.created_at /\ begun <= s.created_at /\ crashed' = FALSE
      /\ cmd' = [step |-> "update", snapshot |-> s,
                 extended |-> ExtendedStatus(s), extensions |-> RecordsExtensions(s)]
  BY DEF SelectLatest, IInv, TypeOK
<1>2. /\ s \in Snapshot /\ begun \in Nat /\ stored \subseteq Nat
      /\ s.created_at \in Nat /\ s.created_at + StatusTail \in Nat
  BY SnapshotTyped, ConstantsTyped DEF IInv, TypeOK
<1>0. skipped' \in BOOLEAN
  BY DEF SelectLatest
<1>3. \A v \in VoteAccounts : WithinReach(v, s) => LatestRow(v) \in Nat
  BY LatestIsLast, RowTyped DEF WithinReach, IInv, TypeOK
<1>4. RecordsExtensions(s) \in [VoteAccounts -> Extension]
  BY <1>2, <1>3 DEF RecordsExtensions, Extension, NoExtension
<1>5. TypeOK'
  BY <1>0, <1>1, <1>2, <1>4 DEF IInv, TypeOK, Command, ExtendedStatus
<1>6. RowsOrdered' /\ OutagesNotSplit' /\ SnapshotsDistinct' /\ ObservationsKept'
  BY <1>1 DEF IInv, RowsOrdered, OutagesNotSplit, SnapshotsDistinct, ObservationsKept
<1>7. CommandIsNewest'
  BY <1>1, <1>2 DEF IInv, CommandIsNewest
<1>8. RowsObserved'
  <2>1. \A v \in VoteAccounts : \A i \in DOMAIN uptimes[v] : uptimes[v][i].start_at \in Nat
    BY RowTyped DEF IInv, TypeOK
  <2>2. QED
    BY <1>1, <1>2, <2>1 DEF IInv, RowsObserved
<1>9. DecisionIsCurrent'
  <2>1. ExtendedStatus(s)' = ExtendedStatus(s) /\ RecordsExtensions(s)' = RecordsExtensions(s)
    BY <1>1 DEF ExtendedStatus, RecordsExtensions, WithinReach, LatestRow
  <2>2. QED
    BY <1>1, <2>1 DEF DecisionIsCurrent
<1>10. ReadyToInsert'
  BY <1>1 DEF ReadyToInsert
<1>11. NewestKept'
  <2>1. begun' \in stored' => begun' = begun
    BY <1>1, <1>2 DEF IInv, CommandIsNewest
  <2>2. QED
    BY <1>1, <2>1 DEF IInv, NewestKept, Last
<1>12. QED
  BY <1>5, <1>6, <1>7, <1>8, <1>9, <1>10, <1>11 DEF IInv

(* A crash forgets the command and leaves the rows.                        *)
LEMMA CrashIInv == ASSUME IInv, Crash PROVE IInv'
<1>1. /\ uptimes' = uptimes /\ snapshots' = snapshots /\ stored' = stored
      /\ begun' = begun /\ crashed' = TRUE /\ skipped' = skipped /\ cmd' = Idle
  BY DEF Crash
<1>2. QED
  BY <1>1 DEF IInv, TypeOK, RowsOrdered, OutagesNotSplit, SnapshotsDistinct, ObservationsKept,
              CommandIsNewest, RowsObserved, DecisionIsCurrent, ReadyToInsert, NewestKept, Last

(* A step of none of these changes nothing.                                *)
LEMMA StutterIInv == ASSUME IInv, UNCHANGED vars PROVE IInv'
<1>1. /\ uptimes' = uptimes /\ snapshots' = snapshots /\ stored' = stored
      /\ begun' = begun /\ crashed' = crashed /\ skipped' = skipped /\ cmd' = cmd
  BY DEF vars
<1>2. DecisionIsCurrent'
  <2>1. \A x : ExtendedStatus(x)' = ExtendedStatus(x) /\ RecordsExtensions(x)' = RecordsExtensions(x)
    BY <1>1 DEF ExtendedStatus, RecordsExtensions, WithinReach, LatestRow
  <2>2. QED
    BY <1>1, <2>1 DEF IInv, DecisionIsCurrent
<1>3. QED
  BY <1>1, <1>2 DEF IInv, TypeOK, RowsOrdered, OutagesNotSplit, SnapshotsDistinct,
              ObservationsKept, CommandIsNewest, RowsObserved, ReadyToInsert, NewestKept, Last

-----------------------------------------------------------------------------
(* The two writing steps *)

(* The UPDATE: a validator's rows are left alone, or its last row is       *)
(* continued past the snapshot, or it is ended at the snapshot; the last   *)
(* two only when the row had not ended long before.                        *)
LEMMA UpdateOneValidator ==
    ASSUME IInv, UpdateEnds, NEW v \in VoteAccounts
    PROVE  /\ uptimes[v] \in Seq(Row) /\ begun \in Nat /\ begun + StatusTail \in Nat
           /\ cmd.snapshot \in snapshots /\ cmd.snapshot.created_at = begun
           /\ \/ /\ ~WithinReach(v, cmd.snapshot) /\ v \notin cmd.extended
                 /\ uptimes'[v] = uptimes[v]
              \/ /\ uptimes[v] # <<>> /\ WithinReach(v, cmd.snapshot)
                 /\ Present(cmd.snapshot, v) /\ v \in cmd.extended
                 /\ Last(v).start_at < begun + StatusTail
                 /\ Continues(Last(v), v, cmd.snapshot)
                 /\ uptimes'[v] = [uptimes[v] EXCEPT ![Len(uptimes[v])].end_at = begun + StatusTail]
              \/ /\ uptimes[v] # <<>> /\ WithinReach(v, cmd.snapshot)
                 /\ Present(cmd.snapshot, v) /\ v \notin cmd.extended
                 /\ Last(v).start_at < begun
                 /\ ~Continues(Last(v), v, cmd.snapshot)
                 /\ uptimes'[v] = [uptimes[v] EXCEPT ![Len(uptimes[v])].end_at = begun]
<1> DEFINE s == cmd.snapshot
           n == Len(uptimes[v])
<1>1. cmd # Idle /\ cmd.step = "update"
  BY DEF UpdateEnds, Idle
<1>2. /\ s \in snapshots /\ s.created_at = begun
      /\ cmd.extended = ExtendedStatus(s) /\ cmd.extensions = RecordsExtensions(s)
  BY <1>1 DEF IInv, CommandIsNewest, DecisionIsCurrent
<1>3. /\ uptimes[v] \in Seq(Row) /\ begun \in Nat /\ begun + StatusTail \in Nat
      /\ StatusTail > 0
  BY ConstantsTyped DEF IInv, TypeOK
<1>4. uptimes'[v] = IF cmd.extensions[v] = NoExtension
                    THEN uptimes[v]
                    ELSE [uptimes[v] EXCEPT ![cmd.extensions[v].row].end_at
                                               = cmd.extensions[v].end_at]
  BY DEF UpdateEnds
<1>5. CASE ~WithinReach(v, s)
  BY <1>2, <1>3, <1>4, <1>5 DEF RecordsExtensions, ExtendedStatus
<1>6. CASE WithinReach(v, s)
  <2>1. /\ uptimes[v] # <<>> /\ Present(s, v) /\ n \in Nat /\ n # 0 /\ n \in DOMAIN uptimes[v]
        /\ LatestRow(v) = n
    BY <1>3, <1>6, RowTyped, LatestIsLast DEF WithinReach, IInv
  <2>2. cmd.extensions[v] = [row |-> n, end_at |-> IF v \in cmd.extended
                                                   THEN begun + StatusTail ELSE begun]
    BY <1>2, <1>6, <2>1 DEF RecordsExtensions
  <2>3. uptimes'[v] = [uptimes[v] EXCEPT ![n].end_at = IF v \in cmd.extended
                                                       THEN begun + StatusTail ELSE begun]
    BY <1>4, <2>1, <2>2 DEF NoExtension
  <2>4. v \in cmd.extended <=> Continues(Last(v), v, s)
    BY <1>2, <1>6, <2>1 DEF ExtendedStatus, Last
  <2>5. Last(v).start_at \in Nat /\ Last(v).start_at <= begun
    BY <1>3, <2>1, RowTyped DEF IInv, RowsObserved, Last
  <2>6. ~Continues(Last(v), v, s) => Last(v).start_at # begun
    BY <1>2, <2>1 DEF IInv, RowsObserved, SnapshotsDistinct, Last
  <2>7. CASE v \in cmd.extended
    <3>1. Last(v).start_at < begun + StatusTail
      BY <1>3, <2>5, ConstantsTyped
    <3>2. QED
      BY <1>2, <1>3, <1>6, <2>1, <2>3, <2>4, <2>7, <3>1
  <2>8. CASE v \notin cmd.extended
    <3>1. Last(v).start_at < begun
      BY <1>3, <2>4, <2>5, <2>6, <2>8
    <3>2. QED
      BY <1>2, <1>3, <1>6, <2>1, <2>3, <2>4, <2>8, <3>1
  <2>9. QED
    BY <2>7, <2>8
<1>7. QED
  BY <1>5, <1>6

(* The UPDATE moves at most the end of a validator's last row.             *)
LEMMA UpdateShape ==
    ASSUME IInv, UpdateEnds, NEW v \in VoteAccounts
    PROVE  OnlyLastEndDiffers(uptimes[v], uptimes'[v])
<1>1. ASSUME NEW rows \in Seq(Row) PROVE OnlyLastEndDiffers(rows, rows)
  BY RowTyped DEF OnlyLastEndDiffers
<1>2. ASSUME NEW rows \in Seq(Row), NEW e \in Nat, rows # <<>>
      PROVE  OnlyLastEndDiffers(rows, [rows EXCEPT ![Len(rows)].end_at = e])
  BY <1>2, ExtendLast
<1>3. uptimes[v] \in Seq(Row) /\ begun \in Nat /\ begun + StatusTail \in Nat
  BY UpdateOneValidator
<1>4. CASE uptimes'[v] = uptimes[v]
  BY <1>1, <1>3, <1>4
<1>5. CASE /\ uptimes[v] # <<>>
           /\ uptimes'[v] = [uptimes[v] EXCEPT ![Len(uptimes[v])].end_at = begun + StatusTail]
  BY <1>2, <1>3, <1>5
<1>6. CASE /\ uptimes[v] # <<>>
           /\ uptimes'[v] = [uptimes[v] EXCEPT ![Len(uptimes[v])].end_at = begun]
  BY <1>2, <1>3, <1>6
<1>7. QED
  BY <1>4, <1>5, <1>6, UpdateOneValidator

(* How the last row and the command's decision agree after the UPDATE.     *)
LEMMA UpdateLast ==
    ASSUME IInv, UpdateEnds, NEW v \in VoteAccounts
    PROVE  \/ /\ ~WithinReach(v, cmd.snapshot) /\ v \notin cmd.extended
              /\ uptimes'[v] = uptimes[v]
           \/ /\ uptimes[v] # <<>> /\ uptimes'[v] # <<>> /\ v \in cmd.extended
              /\ Last(v)'.end_at = begun + StatusTail
              /\ Continues(Last(v), v, cmd.snapshot) /\ Continues(Last(v)', v, cmd.snapshot)
           \/ /\ uptimes[v] # <<>> /\ uptimes'[v] # <<>> /\ v \notin cmd.extended
              /\ Last(v)'.end_at = begun
              /\ ~Continues(Last(v), v, cmd.snapshot) /\ ~Continues(Last(v)', v, cmd.snapshot)
<1>1. OnlyLastEndDiffers(uptimes[v], uptimes'[v])
  BY UpdateShape
<1>2. uptimes[v] # <<>> => /\ Continues(Last(v)', v, cmd.snapshot) <=> Continues(Last(v), v, cmd.snapshot)
                           /\ uptimes'[v] # <<>>
  BY <1>1 DEF OnlyLastEndDiffers, Last, Continues
<1>3. ASSUME NEW e \in Nat, uptimes[v] # <<>>,
             uptimes'[v] = [uptimes[v] EXCEPT ![Len(uptimes[v])].end_at = e]
      PROVE  Last(v)'.end_at = e
  <2>1. uptimes[v] \in Seq(Row)
    BY UpdateOneValidator
  <2>2. QED
    BY <1>1, <1>3, <2>1, ExtendLast DEF OnlyLastEndDiffers, Last
<1>4. QED
  BY <1>2, <1>3, UpdateOneValidator

(* The UPDATE of uptime.rs preserves the invariant.                        *)
LEMMA UpdateIInv == ASSUME IInv, UpdateEnds PROVE IInv'
<1> DEFINE s == cmd.snapshot
<1>1. /\ snapshots' = snapshots /\ stored' = stored /\ begun' = begun
      /\ crashed' = crashed /\ skipped' = skipped
      /\ cmd' = [cmd EXCEPT !.step = "insert"] /\ cmd # Idle /\ cmd.step = "update"
  BY DEF UpdateEnds, Idle
<1>2. cmd \in Command
  BY <1>1, CommandStep DEF IInv
<1>3. /\ cmd' \in Command /\ cmd'.step = "insert" /\ cmd'.snapshot = s
      /\ cmd'.extended = cmd.extended /\ cmd' # Idle
  BY <1>1, <1>2 DEF Command, Idle
<1>4. s \in snapshots /\ s.created_at = begun /\ begun \in Nat
  BY <1>1 DEF IInv, CommandIsNewest, TypeOK
<1>5. TypeOK'
  <2>1. uptimes' \in [VoteAccounts -> Seq(Row)]
    BY UpdateShape DEF UpdateEnds, OnlyLastEndDiffers
  <2>2. QED
    BY <1>1, <1>3, <2>1 DEF IInv, TypeOK
<1>6. RowsOrdered'
  <2> SUFFICES ASSUME NEW v \in VoteAccounts PROVE Ordered(uptimes'[v])
    BY DEF RowsOrdered
  <2>1. Ordered(uptimes[v]) /\ uptimes[v] \in Seq(Row)
    BY DEF IInv, RowsOrdered, TypeOK
  <2>2. QED
    BY <2>1, UpdateOneValidator, OrderedExtend DEF Last
<1>7. SnapshotsDistinct' /\ CommandIsNewest'
  BY <1>1, <1>3, <1>4 DEF IInv, SnapshotsDistinct, CommandIsNewest
<1>8. RowsObserved'
  BY <1>1, UpdateShape DEF IInv, RowsObserved, Continues, OnlyLastEndDiffers
<1>9. DecisionIsCurrent'
  BY <1>3 DEF DecisionIsCurrent
<1>10. ReadyToInsert'
  <2> SUFFICES ASSUME NEW v \in VoteAccounts, Present(s, v)
               PROVE  IF v \in cmd.extended
                      THEN /\ uptimes'[v] # <<>>
                           /\ Last(v)'.end_at = begun + StatusTail
                           /\ Continues(Last(v)', v, s)
                      ELSE uptimes'[v] # <<>> =>
                              /\ Last(v)'.end_at <= begun
                              /\ Continues(Last(v)', v, s) => Last(v)'.end_at + MaxDelay <= begun
    BY <1>1, <1>3 DEF ReadyToInsert
  <2>1. CASE ~WithinReach(v, s) /\ v \notin cmd.extended /\ uptimes'[v] = uptimes[v]
    <3>1. uptimes[v] # <<>> => LatestRow(v) = Len(uptimes[v])
      BY LatestIsLast DEF IInv
    <3>2. uptimes[v] # <<>> => Last(v).end_at \in Nat
      BY LastTyped DEF IInv
    <3>3. uptimes[v] # <<>> => Last(v).end_at + MaxDelay <= begun
      BY <1>4, <2>1, <3>1, <3>2, ConstantsTyped DEF WithinReach, Last
    <3>4. QED
      BY <1>4, <2>1, <3>2, <3>3, ConstantsTyped DEF Last
  <2>2. CASE /\ uptimes'[v] # <<>> /\ v \in cmd.extended
             /\ Last(v)'.end_at = begun + StatusTail /\ Continues(Last(v)', v, s)
    BY <2>2
  <2>3. CASE /\ uptimes'[v] # <<>> /\ v \notin cmd.extended
             /\ Last(v)'.end_at = begun /\ ~Continues(Last(v)', v, s)
    BY <1>4, <2>3
  <2>4. QED
    BY <2>1, <2>2, <2>3, UpdateLast
<1>11. NewestKept'
  <2> SUFFICES ASSUME NEW v \in VoteAccounts, Present(s, v), begun \in stored
               PROVE  /\ uptimes'[v] # <<>>
                      /\ Last(v)'.end_at = begun + StatusTail
                      /\ Continues(Last(v)', v, s)
    BY <1>1, <1>4 DEF NewestKept, IInv, SnapshotsDistinct
  <2>1. uptimes[v] # <<>> /\ Last(v).end_at = begun + StatusTail /\ Continues(Last(v), v, s)
    BY <1>4 DEF IInv, NewestKept
  <2>2. WithinReach(v, s)
    BY <1>4, <2>1, LatestIsLast, ConstantsTyped DEF IInv, WithinReach, Last
  <2>3. QED
    BY <2>1, <2>2, UpdateLast
<1>12. OutagesNotSplit'
  <2> SUFFICES ASSUME NEW v \in VoteAccounts, NEW i \in DOMAIN uptimes'[v],
                      NEW j \in DOMAIN uptimes'[v], j = i + 1,
                      uptimes'[v][i].status = uptimes'[v][j].status,
                      uptimes'[v][i].epoch = uptimes'[v][j].epoch
               PROVE  uptimes'[v][i].end_at + MaxDelay <= uptimes'[v][j].start_at
    BY DEF OutagesNotSplit
  <2>1. OnlyLastEndDiffers(uptimes[v], uptimes'[v])
    BY UpdateShape
  <2>2. i \in 1..Len(uptimes[v]) /\ j \in 1..Len(uptimes[v]) /\ i # Len(uptimes[v])
    BY <2>1 DEF OnlyLastEndDiffers
  <2>3. QED
    BY <2>1, <2>2 DEF IInv, OutagesNotSplit, OnlyLastEndDiffers
<1>13. ObservationsKept'
  <2> SUFFICES ASSUME NEW s1 \in snapshots, s1.created_at \in stored,
                      NEW v \in VoteAccounts, Present(s1, v)
               PROVE  \E i \in DOMAIN uptimes'[v] :
                         /\ Covers(uptimes'[v][i], s1.created_at)
                         /\ Continues(uptimes'[v][i], v, s1)
    BY <1>1 DEF ObservationsKept
  <2>1. PICK i \in DOMAIN uptimes[v] : /\ Covers(uptimes[v][i], s1.created_at)
                                       /\ Continues(uptimes[v][i], v, s1)
    BY DEF IInv, ObservationsKept
  <2>2. OnlyLastEndDiffers(uptimes[v], uptimes'[v])
    BY UpdateShape
  <2>3. /\ i \in DOMAIN uptimes'[v] /\ Continues(uptimes'[v][i], v, s1)
        /\ uptimes'[v][i].start_at <= s1.created_at
    BY <2>1, <2>2 DEF OnlyLastEndDiffers, Continues, Covers
  <2>4. s1.created_at < uptimes'[v][i].end_at
    <3>1. CASE i # Len(uptimes[v]) \/ uptimes'[v] = uptimes[v]
      BY <2>1, <2>2, <3>1 DEF OnlyLastEndDiffers, Covers
    <3>2. s1.created_at \in Nat /\ s1.created_at <= begun
      BY SnapshotTyped DEF IInv, TypeOK, CommandIsNewest
    <3>3. i = Len(uptimes[v]) => uptimes[v][i] = Last(v) /\ uptimes'[v][i] = Last(v)'
      BY <2>2 DEF OnlyLastEndDiffers, Last
    <3>4. CASE i = Len(uptimes[v]) /\ Last(v)'.end_at = begun + StatusTail
      BY <1>4, <3>2, <3>3, <3>4, ConstantsTyped
    <3>5. CASE /\ i = Len(uptimes[v]) /\ Last(v)'.end_at = begun
               /\ ~Continues(Last(v), v, s)
      <4>1. s1.created_at # begun
        BY <1>4, <2>1, <3>3, <3>5 DEF IInv, SnapshotsDistinct
      <4>2. QED
        BY <1>4, <3>2, <3>3, <3>5, <4>1
    <3>6. QED
      BY <3>1, <3>4, <3>5, UpdateLast
  <2>5. QED
    BY <2>3, <2>4 DEF Covers
<1>14. QED
  BY <1>5, <1>6, <1>7, <1>8, <1>9, <1>10, <1>11, <1>12, <1>13 DEF IInv

(* The INSERT, for one validator: its row is left alone or one is added.   *)
LEMMA InsertOneValidator ==
    ASSUME IInv, InsertRows, NEW v \in VoteAccounts
    PROVE  /\ uptimes[v] \in Seq(Row) /\ begun \in Nat /\ begun < begun + StatusTail
           /\ cmd.snapshot \in snapshots /\ cmd.snapshot.created_at = begun
           /\ \/ /\ ~Present(cmd.snapshot, v) \/ v \in cmd.extended
                 /\ uptimes'[v] = uptimes[v]
              \/ /\ Present(cmd.snapshot, v) /\ v \notin cmd.extended
                 /\ NewRow(v, cmd.snapshot) \in Row
                 /\ uptimes'[v] = Append(uptimes[v], NewRow(v, cmd.snapshot))
<1>1. cmd # Idle /\ cmd.step = "insert"
  BY DEF InsertRows, Idle
<1>2. cmd.snapshot \in snapshots /\ cmd.snapshot.created_at = begun
  BY <1>1 DEF IInv, CommandIsNewest
<1>3. NewRow(v, cmd.snapshot) \in Row
  BY <1>2, NewRowTyped DEF IInv, TypeOK
<1>4. uptimes[v] \in Seq(Row) /\ begun \in Nat /\ begun < begun + StatusTail
  BY ConstantsTyped DEF IInv, TypeOK
<1>5. QED
  BY <1>2, <1>3, <1>4 DEF InsertRows

(* The INSERT of uptime.rs preserves the invariant.                        *)
LEMMA InsertIInv == ASSUME IInv, InsertRows PROVE IInv'
<1> DEFINE s == cmd.snapshot
<1>1. /\ snapshots' = snapshots /\ begun' = begun /\ cmd' = Idle
      /\ crashed' = crashed /\ skipped' = skipped
      /\ stored' = stored \cup {begun} /\ cmd # Idle /\ cmd.step = "insert"
  BY DEF InsertRows, Idle, IInv, CommandIsNewest
<1>2. s \in snapshots /\ s.created_at = begun /\ begun \in Nat /\ begun \in Instants
  BY <1>1, SnapshotTyped DEF IInv, CommandIsNewest, TypeOK
<1>3. TypeOK'
  <2>1. \A v \in VoteAccounts : uptimes'[v] \in Seq(Row)
    BY InsertOneValidator, AppendRow
  <2>2. uptimes' \in [VoteAccounts -> Seq(Row)]
    BY <2>1 DEF InsertRows
  <2>3. QED
    BY <1>1, <1>2, <2>2 DEF IInv, TypeOK
<1>4. SnapshotsDistinct' /\ CommandIsNewest' /\ DecisionIsCurrent' /\ ReadyToInsert'
  BY <1>1, <1>2 DEF IInv, SnapshotsDistinct, CommandIsNewest, DecisionIsCurrent, ReadyToInsert
<1>5. ASSUME NEW v \in VoteAccounts,
             Present(s, v), v \notin cmd.extended
      PROVE  /\ uptimes[v] # <<>> => /\ Last(v).end_at <= begun
                                     /\ Continues(Last(v), v, s) => Last(v).end_at + MaxDelay <= begun
             /\ NewRow(v, s).start_at = begun /\ NewRow(v, s).end_at = begun + StatusTail
             /\ Continues(NewRow(v, s), v, s)
  BY <1>1, <1>2, <1>5 DEF IInv, ReadyToInsert, NewRow, Continues
<1>6. ASSUME NEW v \in VoteAccounts, uptimes'[v] # uptimes[v]
      PROVE  /\ Present(s, v) /\ v \notin cmd.extended
             /\ Len(uptimes'[v]) = Len(uptimes[v]) + 1 /\ uptimes'[v] # <<>> /\ Len(uptimes[v]) \in Nat
             /\ DOMAIN uptimes[v] = 1..Len(uptimes[v]) /\ DOMAIN uptimes'[v] = 1..(Len(uptimes[v]) + 1)
             /\ \A i \in 1..Len(uptimes[v]) : uptimes'[v][i] = uptimes[v][i]
             /\ uptimes'[v][Len(uptimes[v]) + 1] = NewRow(v, s)
             /\ Last(v)' = NewRow(v, s)
  <2>1. /\ Present(s, v) /\ v \notin cmd.extended /\ uptimes[v] \in Seq(Row)
        /\ NewRow(v, s) \in Row /\ uptimes'[v] = Append(uptimes[v], NewRow(v, s))
    BY <1>6, InsertOneValidator
  <2>2. /\ uptimes'[v] # <<>> /\ Len(uptimes'[v]) = Len(uptimes[v]) + 1
        /\ DOMAIN uptimes[v] = 1..Len(uptimes[v]) /\ DOMAIN uptimes'[v] = 1..(Len(uptimes[v]) + 1)
        /\ \A i \in 1..Len(uptimes[v]) : uptimes'[v][i] = uptimes[v][i]
        /\ uptimes'[v][Len(uptimes[v]) + 1] = NewRow(v, s)
    BY <2>1, AppendRow
  <2>3. QED
    BY <2>1, <2>2, RowTyped DEF Last
<1>7. RowsOrdered'
  <2> SUFFICES ASSUME NEW v \in VoteAccounts PROVE Ordered(uptimes'[v])
    BY DEF RowsOrdered
  <2>1. Ordered(uptimes[v])
    BY DEF IInv, RowsOrdered
  <2>2. QED
    BY <1>5, <2>1, InsertOneValidator, OrderedAppend DEF Last
<1>8. RowsObserved'
  <2> SUFFICES ASSUME NEW v \in VoteAccounts, NEW i \in DOMAIN uptimes'[v]
               PROVE  /\ uptimes'[v][i].start_at <= begun
                      /\ \E s1 \in snapshots :
                            /\ s1.created_at = uptimes'[v][i].start_at
                            /\ Present(s1, v) /\ Continues(uptimes'[v][i], v, s1)
    BY <1>1 DEF RowsObserved
  <2>1. CASE i \in DOMAIN uptimes[v] /\ uptimes'[v][i] = uptimes[v][i]
    BY <2>1 DEF IInv, RowsObserved
  <2>2. CASE uptimes'[v] # uptimes[v] /\ uptimes'[v][i] = NewRow(v, s)
    BY <1>2, <1>5, <1>6, <2>2
  <2>3. QED
    BY <1>6, <2>1, <2>2
<1>9. NewestKept'
  <2> SUFFICES ASSUME NEW v \in VoteAccounts, Present(s, v)
               PROVE  /\ uptimes'[v] # <<>>
                      /\ Last(v)'.end_at = begun + StatusTail
                      /\ Continues(Last(v)', v, s)
    BY <1>1, <1>2 DEF NewestKept, IInv, SnapshotsDistinct
  <2>1. CASE v \in cmd.extended
    BY <1>1, <1>6, <2>1 DEF IInv, ReadyToInsert, Last
  <2>2. CASE v \notin cmd.extended
    <3>1. Len(uptimes'[v]) # Len(uptimes[v])
      BY <2>2, InsertOneValidator, AppendRow, RowTyped
    <3>2. QED
      BY <1>5, <1>6, <2>2, <3>1
  <2>3. QED
    BY <2>1, <2>2
<1>10. OutagesNotSplit'
  <2> SUFFICES ASSUME NEW v \in VoteAccounts, NEW i \in DOMAIN uptimes'[v],
                      NEW j \in DOMAIN uptimes'[v], j = i + 1,
                      uptimes'[v][i].status = uptimes'[v][j].status,
                      uptimes'[v][i].epoch = uptimes'[v][j].epoch
               PROVE  uptimes'[v][i].end_at + MaxDelay <= uptimes'[v][j].start_at
    BY DEF OutagesNotSplit
  <2>1. CASE uptimes'[v] = uptimes[v]
    BY <2>1 DEF IInv, OutagesNotSplit
  <2>2. CASE uptimes'[v] # uptimes[v]
    <3> DEFINE n == Len(uptimes[v])
    <3>1. CASE j # n + 1
      <4>1. i \in 1..n /\ j \in 1..n
        BY <1>6, <2>2, <3>1
      <4>2. QED
        BY <1>6, <2>2, <4>1 DEF IInv, OutagesNotSplit
    <3>2. CASE j = n + 1
      <4>1. i = n /\ n \in 1..n /\ uptimes[v] # <<>>
        BY <1>6, <2>2, <3>2
      <4>2. uptimes'[v][i] = Last(v) /\ uptimes'[v][j] = NewRow(v, s)
        BY <1>6, <2>2, <3>2, <4>1 DEF Last
      <4>3. Continues(Last(v), v, s)
        BY <1>5, <1>6, <2>2, <4>2 DEF Continues
      <4>4. QED
        BY <1>5, <1>6, <2>2, <4>1, <4>2, <4>3
    <3>3. QED
      BY <3>1, <3>2
  <2>3. QED
    BY <2>1, <2>2
<1>11. ObservationsKept'
  <2> SUFFICES ASSUME NEW s1 \in snapshots, s1.created_at \in stored \cup {begun},
                      NEW v \in VoteAccounts, Present(s1, v)
               PROVE  \E i \in DOMAIN uptimes'[v] :
                         /\ Covers(uptimes'[v][i], s1.created_at)
                         /\ Continues(uptimes'[v][i], v, s1)
    BY <1>1 DEF ObservationsKept
  <2>1. CASE s1.created_at \in stored
    <3>1. PICK i \in DOMAIN uptimes[v] : /\ Covers(uptimes[v][i], s1.created_at)
                                         /\ Continues(uptimes[v][i], v, s1)
      BY <2>1 DEF IInv, ObservationsKept
    <3>2. i \in DOMAIN uptimes'[v] /\ uptimes'[v][i] = uptimes[v][i]
      BY <1>6
    <3>3. QED
      BY <3>1, <3>2
  <2>2. CASE s1.created_at = begun
    <3>1. s1 = s
      BY <1>2, <2>2 DEF IInv, SnapshotsDistinct
    <3>2. /\ uptimes'[v] # <<>> /\ Last(v)'.end_at = begun + StatusTail
          /\ Continues(Last(v)', v, s)
      BY <1>1, <1>2, <1>9, <3>1 DEF NewestKept
    <3>3. /\ Last(v)'.start_at <= begun /\ Len(uptimes'[v]) \in DOMAIN uptimes'[v]
          /\ Last(v)' = uptimes'[v][Len(uptimes'[v])]
      <4>1. uptimes'[v] \in Seq(Row)
        BY <1>3 DEF TypeOK
      <4>2. Len(uptimes'[v]) \in DOMAIN uptimes'[v]
        BY <3>2, <4>1, RowTyped
      <4>3. QED
        BY <1>1, <1>8, <4>2 DEF RowsObserved, Last
    <3>4. QED
      BY <1>2, <2>2, <3>1, <3>2, <3>3, ConstantsTyped DEF Covers
  <2>3. QED
    BY <2>1, <2>2
<1>12. QED
  BY <1>3, <1>4, <1>7, <1>8, <1>9, <1>10, <1>11 DEF IInv

-----------------------------------------------------------------------------
(* Theorems *)

(* Every step of `store uptime` preserves the invariant.                   *)
LEMMA NextIInv == IInv /\ [Next]_vars => IInv'
<1> SUFFICES ASSUME IInv, [Next]_vars PROVE IInv'
  OBVIOUS
<1>1. CASE \E s \in Snapshot : Collect(s)
  BY <1>1, CollectIInv
<1>2. CASE \E s \in snapshots : SelectLatest(s)
  BY <1>2, SelectIInv
<1>3. CASE UpdateEnds
  BY <1>3, UpdateIInv
<1>4. CASE InsertRows
  BY <1>4, InsertIInv
<1>5. CASE Crash
  BY <1>5, CrashIInv
<1>6. CASE UNCHANGED vars
  BY <1>6, StutterIInv
<1>7. QED
  BY <1>1, <1>2, <1>3, <1>4, <1>5, <1>6 DEF Next

(* The invariant holds in every state that `store uptime` reaches.         *)
THEOREM Invariant == Spec => []IInv
BY InitIInv, NextIInv, PTL DEF Spec

(* Every variable of `store uptime` keeps a value of its kind.             *)
THEOREM TypeCorrect == Spec => []TypeOK
<1>1. IInv => TypeOK
  BY DEF IInv
<1>2. QED
  BY <1>1, Invariant, PTL

(* The intervals of a validator never overlap and never have a negative    *)
(* length, however many commands crash, are re-run or are skipped.         *)
THEOREM RowsStayOrdered == Spec => []RowsOrdered
<1>1. IInv => RowsOrdered
  BY DEF IInv
<1>2. QED
  BY <1>1, Invariant, PTL

(* What a completed command recorded is never lost or overwritten.         *)
THEOREM ObservationsStay == Spec => []ObservationsKept
<1>1. IInv => ObservationsKept
  BY DEF IInv
<1>2. QED
  BY <1>1, Invariant, PTL

(* An outage within one epoch is one row.                                  *)
THEOREM OutagesStayWhole == Spec => []OutagesNotSplit
<1>1. IInv => OutagesNotSplit
  BY DEF IInv
<1>2. QED
  BY <1>1, Invariant, PTL

(* A command that is run again on a snapshot it was completed on changes   *)
(* no row: every validator of the snapshot is extended to the end its row  *)
(* already has.                                                            *)
LEMMA RerunStep ==
    ASSUME IInv, [Next]_vars, cmd # Idle, begun \in stored
    PROVE  uptimes' = uptimes
<1> DEFINE s == cmd.snapshot
<1>1. s \in snapshots /\ s.created_at = begun /\ begun \in Nat
  BY DEF IInv, CommandIsNewest, TypeOK
<1>2. ASSUME NEW v \in VoteAccounts, Present(s, v)
      PROVE  /\ uptimes[v] # <<>> /\ uptimes[v] \in Seq(Row)
             /\ Last(v).end_at = begun + StatusTail /\ Continues(Last(v), v, s)
  BY <1>1, <1>2 DEF IInv, NewestKept, TypeOK
<1>3. CASE UpdateEnds
  <2>1. \A v \in VoteAccounts : uptimes'[v] = uptimes[v]
    <3> TAKE v \in VoteAccounts
    <3>1. CASE /\ Present(s, v)
               /\ uptimes'[v] = [uptimes[v] EXCEPT ![Len(uptimes[v])].end_at = begun + StatusTail]
      <4>1. ASSUME NEW rows \in Seq(Row), rows # <<>>
            PROVE  [rows EXCEPT ![Len(rows)].end_at = rows[Len(rows)].end_at] = rows
        <5>1. \A r \in Row : [r EXCEPT !.end_at = r.end_at] = r
          BY DEF Row
        <5>2. rows[Len(rows)] \in Row
          BY <4>1, RowTyped
        <5>3. QED
          BY <4>1, <5>1, <5>2
      <4>2. QED
        BY <1>2, <3>1, <4>1 DEF Last
    <3>2. QED
      BY <1>2, <1>3, <3>1, UpdateOneValidator
  <2>2. QED
    BY <1>3, <2>1 DEF IInv, TypeOK, UpdateEnds
<1>4. CASE InsertRows
  <2>1. \A v \in VoteAccounts : Present(s, v) => v \in cmd.extended
    <3>1. cmd.step = "insert"
      BY <1>4 DEF InsertRows
    <3>2. ~(begun + StatusTail <= begun)
      BY <1>1, ConstantsTyped
    <3>3. QED
      BY <1>2, <3>1, <3>2 DEF IInv, ReadyToInsert
  <2>2. \A v \in VoteAccounts : uptimes'[v] = uptimes[v]
    BY <1>4, <2>1, InsertOneValidator
  <2>3. QED
    BY <1>4, <2>2 DEF IInv, TypeOK, InsertRows
<1>5. QED
  BY <1>3, <1>4 DEF Next, Collect, SelectLatest, Crash, vars

(* Re-running a completed command writes nothing new.                      *)
THEOREM RerunIsIdempotent == Spec => RerunWritesNothing
<1>1. ASSUME IInv, [Next]_vars
      PROVE  [cmd # Idle /\ begun \in stored => UNCHANGED uptimes]_vars
  BY <1>1, RerunStep
<1>2. QED
  BY <1>1, Invariant, PTL DEF Spec, RerunWritesNothing

-----------------------------------------------------------------------------
(* The downtime of an epoch *)

(* Later snapshots are not of an earlier epoch.                            *)
EpochsInOrder ==
    \A s1, s2 \in snapshots : s1.created_at <= s2.created_at => s1.epoch <= s2.epoch

(* The collector's clock and the cluster's epoch move forward together.    *)
LEMMA NextEpochsInOrder ==
    ASSUME IInv, EpochsInOrder, [Next]_vars PROVE EpochsInOrder'
<1>1. CASE snapshots' = snapshots
  BY <1>1 DEF EpochsInOrder
<1>2. ASSUME NEW s \in Snapshot, Collect(s) PROVE EpochsInOrder'
  <2>1. /\ s.created_at \in Nat /\ s.epoch \in Nat
        /\ \A old \in snapshots : old.created_at \in Nat /\ old.epoch \in Nat
    BY SnapshotTyped, ConstantsTyped DEF IInv, TypeOK
  <2>2. /\ snapshots' = snapshots \cup {s}
        /\ \A old \in snapshots : old.created_at < s.created_at /\ old.epoch <= s.epoch
    BY <1>2 DEF Collect
  <2>3. QED
    BY <2>1, <2>2 DEF EpochsInOrder
<1>3. QED
  BY <1>1, <1>2 DEF Next, SelectLatest, UpdateEnds, InsertRows, Crash, vars

(* The rows of a validator are in the order of their epochs, and the next  *)
(* command writes no row of an earlier one.                                *)
LEMMA RowEpochsInOrder ==
    ASSUME IInv, EpochsInOrder, NEW v \in VoteAccounts
    PROVE  /\ \A i \in DOMAIN uptimes[v] : uptimes[v][i].epoch \in Nat
           /\ \A i, j \in DOMAIN uptimes[v] : i < j => uptimes[v][i].epoch <= uptimes[v][j].epoch
           /\ \A s \in snapshots : s.created_at = begun =>
                 \A i \in DOMAIN uptimes[v] : uptimes[v][i].epoch <= s.epoch
<1> DEFINE rows == uptimes[v]
<1>1. /\ DOMAIN rows \subseteq Nat
      /\ \A i \in DOMAIN rows : rows[i] \in Row /\ rows[i].start_at \in Nat /\ rows[i].end_at \in Nat
  BY RowTyped DEF IInv, TypeOK
<1>2. \A i \in DOMAIN rows : rows[i].epoch \in Nat
  BY <1>1, ConstantsTyped DEF Row
<1>3. \A i \in DOMAIN rows :
         /\ rows[i].start_at <= begun
         /\ \E s \in snapshots : s.created_at = rows[i].start_at /\ s.epoch = rows[i].epoch
  BY DEF IInv, RowsObserved, Continues
<1>4. \A i, j \in DOMAIN rows : i < j => rows[i].start_at <= rows[j].start_at
  BY <1>1 DEF IInv, RowsOrdered, Ordered
<1>5. \A i, j \in DOMAIN rows : i < j => rows[i].epoch <= rows[j].epoch
  BY <1>3, <1>4 DEF EpochsInOrder
<1>6. \A s \in snapshots : s.created_at = begun => \A i \in DOMAIN rows : rows[i].epoch <= s.epoch
  BY <1>3 DEF EpochsInOrder
<1>7. QED
  BY <1>2, <1>5, <1>6

(* The rows that are summed as the downtime of an epoch.                   *)
Summed(v, e) == {i \in DownRows(v) : uptimes[v][i].epoch = e}

(* Equal rows have equal sums: downtime depends on these rows only.        *)
LEMMA SameRowsSameDowntime ==
    ASSUME NEW v, NEW e, Summed(v, e)' = Summed(v, e),
           \A i \in Summed(v, e) : LengthOf(uptimes[v][i])' = LengthOf(uptimes[v][i])
    PROVE  Downtime(v, e)' = Downtime(v, e)
<1>1. [i \in Summed(v, e)' |-> LengthOf(uptimes'[v][i])]
         = [i \in Summed(v, e) |-> LengthOf(uptimes[v][i])]
  BY DEF LengthOf
<1>2. Downtime(v, e) = SumFunction([i \in Summed(v, e) |-> LengthOf(uptimes[v][i])])
  BY DEF Downtime, Summed
<1>3. Downtime(v, e)' = SumFunction([i \in Summed(v, e)' |-> LengthOf(uptimes'[v][i])])
  BY DEF Downtime, Summed, DownRows, LengthOf
<1>4. QED
  BY <1>1, <1>2, <1>3

(* A step leaves the rows of an epoch alone once a later epoch has a row:  *)
(* UPDATE reaches the last row only, and INSERT adds one that is no older. *)
LEMMA EarlierEpochsKept ==
    ASSUME IInv, EpochsInOrder, [Next]_vars, NEW v \in VoteAccounts, NEW e \in Epochs,
           NEW k \in DOMAIN uptimes[v], uptimes[v][k].epoch > e
    PROVE  Downtime(v, e)' = Downtime(v, e)
<1>0. e \in Nat /\ uptimes[v][k].epoch \in Nat
  BY RowEpochsInOrder, ConstantsTyped
<1>1. CASE uptimes' = uptimes
  BY <1>1, SameRowsSameDowntime DEF Summed, DownRows
<1>2. CASE UpdateEnds
  <2>1. OnlyLastEndDiffers(uptimes[v], uptimes'[v])
    BY <1>2, UpdateShape
  <2>2. Summed(v, e)' = Summed(v, e)
    BY <2>1 DEF OnlyLastEndDiffers, Summed, DownRows
  <2>3. ASSUME NEW i \in Summed(v, e)
        PROVE  LengthOf(uptimes[v][i])' = LengthOf(uptimes[v][i])
    <3>1. i \in DOMAIN uptimes[v] /\ uptimes[v][i].epoch = e
      BY DEF Summed, DownRows
    <3>2. /\ \A j \in 1..Len(uptimes[v]) : j <= Len(uptimes[v])
          /\ i \in 1..Len(uptimes[v]) /\ k \in 1..Len(uptimes[v]) /\ Len(uptimes[v]) \in Nat
      BY <2>1, <3>1 DEF OnlyLastEndDiffers
    <3>3. i # Len(uptimes[v])
      BY <1>0, <3>1, <3>2, RowEpochsInOrder
    <3>4. QED
      BY <2>1, <3>2, <3>3 DEF OnlyLastEndDiffers, LengthOf
  <2>4. QED
    BY <2>2, <2>3, SameRowsSameDowntime
<1>3. CASE InsertRows
  <2>1. CASE uptimes'[v] = uptimes[v]
    BY <2>1, SameRowsSameDowntime DEF Summed, DownRows
  <2>2. CASE uptimes'[v] # uptimes[v]
    <3> DEFINE n == Len(uptimes[v])
    <3>1. /\ uptimes[v] \in Seq(Row) /\ NewRow(v, cmd.snapshot) \in Row
          /\ uptimes'[v] = Append(uptimes[v], NewRow(v, cmd.snapshot))
          /\ cmd.snapshot \in snapshots /\ cmd.snapshot.created_at = begun
      BY <1>3, <2>2, InsertOneValidator
    <3>2. /\ DOMAIN uptimes[v] = 1..n /\ DOMAIN uptimes'[v] = 1..(n + 1)
          /\ \A i \in 1..n : uptimes'[v][i] = uptimes[v][i]
          /\ uptimes'[v][n + 1] = NewRow(v, cmd.snapshot) /\ n \in Nat
      BY <3>1, AppendRow, RowTyped
    <3>3. cmd.snapshot.epoch \in Nat
      BY <3>1, SnapshotTyped, ConstantsTyped DEF IInv, TypeOK
    <3>4. NewRow(v, cmd.snapshot).epoch # e
      BY <1>0, <3>1, <3>3, RowEpochsInOrder DEF NewRow
    <3>5. Summed(v, e)' = Summed(v, e)
      BY <3>2, <3>4 DEF Summed, DownRows
    <3>6. \A i \in Summed(v, e) : LengthOf(uptimes[v][i])' = LengthOf(uptimes[v][i])
      BY <3>2 DEF Summed, DownRows
    <3>7. QED
      BY <3>5, <3>6, SameRowsSameDowntime
  <2>3. QED
    BY <2>1, <2>2
<1>4. QED
  BY <1>1, <1>2, <1>3 DEF Next, Collect, SelectLatest, Crash, vars

(* Snapshots keep the order of their epochs.                               *)
LEMMA EpochsStayInOrder == Spec => []EpochsInOrder
<1>1. Init => EpochsInOrder
  BY DEF Init, EpochsInOrder
<1>2. IInv /\ EpochsInOrder /\ [Next]_vars => EpochsInOrder'
  BY NextEpochsInOrder
<1>3. QED
  BY <1>1, <1>2, Invariant, PTL DEF Spec

(* The downtime close-epoch sums for an epoch is final once the validator  *)
(* has a row in a later epoch.                                             *)
THEOREM DowntimeIsFinal == Spec => DowntimeFinal
<1>1. ASSUME IInv, EpochsInOrder, [Next]_vars
      PROVE  [\A v \in VoteAccounts, e \in Epochs :
                 (\E i \in DOMAIN uptimes[v] : uptimes[v][i].epoch > e)
                     => Downtime(v, e)' = Downtime(v, e)]_vars
  BY <1>1, EarlierEpochsKept
<1>2. QED
  BY <1>1, Invariant, EpochsStayInOrder, PTL DEF Spec, DowntimeFinal

-----------------------------------------------------------------------------
(* What the rows tell of the observations *)

(* The status and the epoch of the observations m and n of v are the same. *)
SameState(v, m, n) ==
    /\ n.epoch = m.epoch
    /\ StatusFromDelinquency(n.health[v]) = StatusFromDelinquency(m.health[v])

(* The state seen at m goes on, as a row is continued: UP or DOWN.         *)
StateGoesOn(seen, v, m) ==
    \E n \in Following(seen, m) : IsNear(m, n) /\ SameState(v, m, n)

(* From s to z the observations went on, one after the other, in the state *)
(* of the row.                                                             *)
Unbroken(seen, v, row, s, z) ==
    \A m \in seen : s.created_at <= m.created_at /\ m.created_at <= z.created_at =>
        /\ Continues(row, v, m)
        /\ m.created_at < z.created_at => StateGoesOn(seen, v, m)
        /\ s.created_at < m.created_at =>
               \E p \in seen : s.created_at <= p.created_at /\ m \in Following(seen, p)

(* Before s and after z they did not.                                      *)
CutOff(seen, v, s, z) ==
    /\ ~StateGoesOn(seen, v, z)
    /\ \A p \in seen : s \in Following(seen, p) => ~StateGoesOn(seen, v, p)

(* A row that has a next one ended when its last observation did; the last *)
(* row goes up to the last observation.                                    *)
EndOfRun(seen, rows, i, z) ==
    IF i = Len(rows)
    THEN Later(seen, z) = {}
    ELSE Later(seen, z) # {} /\ rows[i].end_at = HoldsUntil(seen, z)

(* Row i stands for the observations from s to z.                          *)
RunOfRow(seen, v, rows, i, s, z) ==
    /\ s \in seen /\ z \in seen
    /\ s.created_at = rows[i].start_at /\ s.created_at <= z.created_at
    /\ Unbroken(seen, v, rows[i], s, z)
    /\ CutOff(seen, v, s, z)
    /\ EndOfRun(seen, rows, i, z)

(* Every row stands for observations, and every observation is in a row.   *)
RowsTell(seen, v, rows) ==
    /\ \A i \in DOMAIN rows : \E s, z \in seen : RunOfRow(seen, v, rows, i, s, z)
    /\ \A m \in seen : \E i \in DOMAIN rows : \E s, z \in seen :
          /\ RunOfRow(seen, v, rows, i, s, z)
          /\ s.created_at <= m.created_at /\ m.created_at <= z.created_at

(* The end of the last row as the last observation z left it,              *)
EndsAsStored(seen, rows) ==
    \A z \in seen : Later(seen, z) = {} =>
        rows[Len(rows)].end_at = z.created_at + StatusTail

(* and as the UPDATE for the snapshot n leaves it.                         *)
EndsAsUpdated(seen, v, rows, n) ==
    \A z \in seen : Later(seen, z) = {} =>
        rows[Len(rows)].end_at =
            IF Present(n, v) /\ IsNear(z, n)
            THEN IF SameState(v, z, n) THEN n.created_at + StatusTail ELSE n.created_at
            ELSE z.created_at + StatusTail

AllTold == \A v \in VoteAccounts : RowsTell(Observed(v), v, uptimes[v])

AllEndAsStored == \A v \in VoteAccounts : EndsAsStored(Observed(v), uptimes[v])

AllEndAsUpdated(n) == \A v \in VoteAccounts : EndsAsUpdated(Observed(v), v, uptimes[v], n)

(* As long as every failed command is run again, the rows tell what was    *)
(* observed, up to an UPDATE whose INSERT is still to come.                *)
TellInv ==
    /\ AllTold
    /\ \/ AllEndAsStored
       \/ /\ begun \notin stored
          /\ \E n \in snapshots : n.created_at = begun /\ AllEndAsUpdated(n)
    /\ cmd # Idle /\ cmd.step = "insert" /\ begun \notin stored => AllEndAsUpdated(cmd.snapshot)
    /\ cmd = Idle /\ ~crashed => begun \in stored \/ stored = {}

TellsUnlessSkipped == ~skipped => TellInv

-----------------------------------------------------------------------------
(* A new observation *)

(* The observation n of v is younger than those seen.                      *)
Newest(seen, n) ==
    /\ seen \subseteq Snapshot /\ n \in Snapshot
    /\ \A m \in seen : m.created_at < n.created_at

(* In numbers: *)
LEMMA NewestIsYounger ==
    ASSUME NEW seen, NEW n, Newest(seen, n)
    PROVE  /\ \A m \in seen : m.created_at \in Nat /\ m.created_at < n.created_at
           /\ n.created_at \in Nat
BY SnapshotTyped DEF Newest

(* Nothing is later than n.                                                *)
LEMMA NothingAfterNewest ==
    ASSUME NEW seen, NEW n, Newest(seen, n)
    PROVE  Later(seen \cup {n}, n) = {} /\ Following(seen \cup {n}, n) = {}
<1>1. Later(seen \cup {n}, n) = {}
  BY NewestIsYounger DEF Later
<1>2. QED
  BY <1>1 DEF Following

(* It follows the last observation, and what followed the others still     *)
(* does.                                                                   *)
LEMMA NewestFollowsLast ==
    ASSUME NEW seen, NEW n, Newest(seen, n), NEW m \in seen
    PROVE  /\ Later(seen \cup {n}, m) = Later(seen, m) \cup {n}
           /\ Later(seen, m) = {} => Following(seen \cup {n}, m) = {n}
           /\ Later(seen, m) # {} => Following(seen \cup {n}, m) = Following(seen, m)
<1>1. /\ \A k \in seen \cup {n} : k.created_at \in Nat
      /\ \A k \in seen : k.created_at < n.created_at
  BY NewestIsYounger
<1>2. Later(seen \cup {n}, m) = Later(seen, m) \cup {n}
  BY <1>1 DEF Later
<1>4. \A k \in Later(seen, m) : k.created_at \in Nat /\ k.created_at < n.created_at
  BY <1>1 DEF Later
<1>5. CASE Later(seen, m) = {}
  <2>1. Later(seen \cup {n}, m) = {n}
    BY <1>2, <1>5
  <2>2. Following(seen \cup {n}, m) = {n}
    BY <1>1, <2>1 DEF Following
  <2>3. QED
    BY <1>2, <1>5, <2>2
<1>6. CASE Later(seen, m) # {}
  <2>1. \A k : k \in Following(seen \cup {n}, m) <=>
            /\ k \in Later(seen, m) \cup {n}
            /\ \A j \in Later(seen, m) \cup {n} : k.created_at <= j.created_at
    BY <1>2 DEF Following
  <2>2. \A k : k \in Following(seen, m) <=>
            k \in Later(seen, m) /\ \A j \in Later(seen, m) : k.created_at <= j.created_at
    BY DEF Following
  <2>3. n \notin Following(seen \cup {n}, m)
    <3>1. PICK j \in Later(seen, m) : TRUE
      BY <1>6
    <3>2. ~(n.created_at <= j.created_at)
      BY <1>1, <1>4
    <3>3. QED
      BY <2>1, <3>2
  <2>4. \A k : k \in Following(seen \cup {n}, m) <=> k \in Following(seen, m)
    <3>1. \A k \in Later(seen, m) : k.created_at <= n.created_at
      BY <1>1, <1>4
    <3>2. QED
      BY <2>1, <2>2, <2>3, <3>1
  <2>5. Following(seen \cup {n}, m) = Following(seen, m)
    BY <2>4
  <2>6. QED
    BY <1>2, <1>6, <2>5
<1>7. QED
  BY <1>5, <1>6

(* So what was said of the other observations still holds.                 *)
LEMMA OthersUnchanged ==
    ASSUME NEW seen, NEW n, Newest(seen, n), NEW v, NEW m \in seen, Later(seen, m) # {}
    PROVE  /\ Following(seen \cup {n}, m) = Following(seen, m)
           /\ StateGoesOn(seen \cup {n}, v, m) <=> StateGoesOn(seen, v, m)
           /\ HoldsUntil(seen \cup {n}, m) = HoldsUntil(seen, m)
           /\ Later(seen \cup {n}, m) # {}
<1>1. /\ Later(seen \cup {n}, m) = Later(seen, m) \cup {n}
      /\ Following(seen \cup {n}, m) = Following(seen, m)
  BY NewestFollowsLast
<1>2. Following(seen \cup {n}, m) = Following(seen, m) /\ Later(seen \cup {n}, m) # {}
  BY <1>1
<1>3. StateGoesOn(seen \cup {n}, v, m) <=> StateGoesOn(seen, v, m)
  BY <1>2 DEF StateGoesOn
<1>4. HoldsUntil(seen \cup {n}, m) = HoldsUntil(seen, m)
  BY <1>2 DEF HoldsUntil
<1>5. QED
  BY <1>2, <1>3, <1>4

(* The last observation holds until n if that is near.                     *)
LEMMA LastUntilNewest ==
    ASSUME NEW seen, NEW n, Newest(seen, n), NEW v, NEW z \in seen, Later(seen, z) = {}
    PROVE  /\ Following(seen \cup {n}, z) = {n}
           /\ StateGoesOn(seen \cup {n}, v, z) <=> IsNear(z, n) /\ SameState(v, z, n)
           /\ HoldsUntil(seen \cup {n}, z) =
                 IF IsNear(z, n) THEN n.created_at ELSE z.created_at + StatusTail
           /\ Later(seen \cup {n}, z) # {}
<1>0. \A m \in seen : Later(seen, m) = {} => Following(seen \cup {n}, m) = {n}
  BY NewestFollowsLast
<1>1. Following(seen \cup {n}, z) = {n}
  BY <1>0
<1>3. Later(seen \cup {n}, z) # {}
  <2>1. Later(seen \cup {n}, z) = Later(seen, z) \cup {n}
    BY NewestFollowsLast
  <2>2. QED
    BY <2>1
<1>2. (CHOOSE k \in {n} : TRUE) = n
  OBVIOUS
<1>4. StateGoesOn(seen \cup {n}, v, z) <=> IsNear(z, n) /\ SameState(v, z, n)
  BY <1>1 DEF StateGoesOn
<1>5. HoldsUntil(seen \cup {n}, z) =
         IF IsNear(z, n) THEN n.created_at ELSE z.created_at + StatusTail
  BY <1>1, <1>2 DEF HoldsUntil, InstantOf
<1>6. QED
  BY <1>1, <1>3, <1>4, <1>5

(* The run of observations from s to z is still one when n is added.       *)
LEMMA UnbrokenKept ==
    ASSUME NEW seen, NEW n, Newest(seen, n), NEW v, NEW row, NEW s \in seen, NEW z \in seen,
           Unbroken(seen, v, row, s, z)
    PROVE  Unbroken(seen \cup {n}, v, row, s, z)
<1> SUFFICES ASSUME NEW m \in seen \cup {n},
                    s.created_at <= m.created_at, m.created_at <= z.created_at
             PROVE  /\ Continues(row, v, m)
                    /\ m.created_at < z.created_at => StateGoesOn(seen \cup {n}, v, m)
                    /\ s.created_at < m.created_at =>
                           \E p \in seen \cup {n} : /\ s.created_at <= p.created_at
                                                    /\ m \in Following(seen \cup {n}, p)
  BY DEF Unbroken
<1>1. m \in seen
  BY NewestIsYounger
<1>2. /\ Continues(row, v, m)
      /\ m.created_at < z.created_at => StateGoesOn(seen, v, m)
      /\ s.created_at < m.created_at =>
             \E p \in seen : s.created_at <= p.created_at /\ m \in Following(seen, p)
  BY <1>1 DEF Unbroken
<1>3. m.created_at < z.created_at => StateGoesOn(seen \cup {n}, v, m)
  <2>1. m.created_at < z.created_at => Later(seen, m) # {}
    BY NewestIsYounger DEF Later
  <2>2. QED
    BY <1>1, <1>2, <2>1, OthersUnchanged
<1>4. ASSUME NEW p \in seen, m \in Following(seen, p)
      PROVE  m \in Following(seen \cup {n}, p)
  <2>1. Later(seen, p) # {}
    BY <1>4 DEF Following
  <2>2. QED
    BY <1>4, <2>1, OthersUnchanged
<1>5. QED
  BY <1>2, <1>3, <1>4

(* It goes on up to n if n is near and shows the same state.               *)
LEMMA UnbrokenGoesOn ==
    ASSUME NEW seen, NEW n, Newest(seen, n), NEW v, NEW row, NEW s \in seen, NEW z \in seen,
           s.created_at <= z.created_at, Later(seen, z) = {},
           Unbroken(seen, v, row, s, z), Continues(row, v, n),
           IsNear(z, n), SameState(v, z, n)
    PROVE  Unbroken(seen \cup {n}, v, row, s, n)
<1> DEFINE all == seen \cup {n}
<1>1. Unbroken(all, v, row, s, z)
  BY UnbrokenKept
<1>2. /\ \A m \in seen : m.created_at \in Nat /\ m.created_at < n.created_at
      /\ n.created_at \in Nat
  BY NewestIsYounger
<1>3. \A m \in seen : m.created_at <= z.created_at
  BY <1>2 DEF Later
<1>4. Following(all, z) = {n} /\ StateGoesOn(all, v, z)
  BY LastUntilNewest
<1> SUFFICES ASSUME NEW m \in all, s.created_at <= m.created_at, m.created_at <= n.created_at
             PROVE  /\ Continues(row, v, m)
                    /\ m.created_at < n.created_at => StateGoesOn(all, v, m)
                    /\ s.created_at < m.created_at =>
                           \E p \in all : s.created_at <= p.created_at /\ m \in Following(all, p)
  BY DEF Unbroken
<1>5. CASE m = n
  <2>1. z \in all /\ n \in Following(all, z)
    BY <1>4
  <2>2. \E p \in all : s.created_at <= p.created_at /\ n \in Following(all, p)
    BY <2>1
  <2>3. ~(n.created_at < n.created_at)
    BY <1>2
  <2> HIDE DEF all
  <2>4. QED
    BY <1>5, <2>2, <2>3
<1>6. CASE m \in seen /\ m.created_at < z.created_at
  <2>1. m.created_at <= z.created_at
    BY <1>2, <1>6
  <2>2. QED
    BY <1>1, <1>6, <2>1 DEF Unbroken
<1>7. CASE m \in seen /\ ~(m.created_at < z.created_at)
  <2>1. m.created_at = z.created_at
    BY <1>2, <1>3, <1>7
  <2>2. /\ m = z \/ z \notin Following(all, m)
        /\ Continues(row, v, m)
        /\ s.created_at < m.created_at =>
               \E p \in all : s.created_at <= p.created_at /\ m \in Following(all, p)
    BY <1>1, <1>2, <2>1 DEF Unbroken, Following, Later
  <2>3. StateGoesOn(all, v, m)
    <3>1. Later(seen, m) = {}
      BY <1>3, <1>2, <2>1, <1>7 DEF Later
    <3>2. Continues(row, v, m) /\ Continues(row, v, z)
      BY <1>1, <1>2, <1>3, <2>2 DEF Unbroken
    <3>3. SameState(v, m, n) /\ IsNear(m, n)
      BY <2>1, <3>2 DEF SameState, Continues, IsNear
    <3>4. QED
      BY <1>7, <3>1, <3>3, LastUntilNewest
  <2>4. QED
    BY <2>2, <2>3
<1>8. QED
  BY <1>5, <1>6, <1>7

(* What came before s was cut off, and still is.                           *)
LEMMA CutBeforeKept ==
    ASSUME NEW seen, NEW n, Newest(seen, n), NEW v, NEW s \in seen,
           \A p \in seen : s \in Following(seen, p) => ~StateGoesOn(seen, v, p)
    PROVE  \A p \in seen \cup {n} :
               s \in Following(seen \cup {n}, p) => ~StateGoesOn(seen \cup {n}, v, p)
<1> SUFFICES ASSUME NEW p \in seen \cup {n}, s \in Following(seen \cup {n}, p)
             PROVE  ~StateGoesOn(seen \cup {n}, v, p)
  OBVIOUS
<1>1. p # n
  BY NothingAfterNewest
<1>2. Later(seen, p) # {}
  BY DEF Following, Later
<1>3. QED
  BY <1>1, <1>2, OthersUnchanged

-----------------------------------------------------------------------------
(* A new observation and the rows *)

(* A row that is not the last one stands for the same observations.        *)
LEMMA RunKept ==
    ASSUME NEW seen, NEW n, Newest(seen, n), NEW v, NEW rows, NEW new, NEW i,
           NEW s \in seen, NEW z \in seen, RunOfRow(seen, v, rows, i, s, z),
           new[i] = rows[i], i # Len(rows), i # Len(new)
    PROVE  RunOfRow(seen \cup {n}, v, new, i, s, z)
<1> DEFINE all == seen \cup {n}
<1>1. Later(seen, z) # {} /\ rows[i].end_at = HoldsUntil(seen, z)
  BY DEF RunOfRow, EndOfRun
<1>2. /\ ~StateGoesOn(all, v, z) /\ HoldsUntil(all, z) = HoldsUntil(seen, z) /\ Later(all, z) # {}
  BY <1>1, OthersUnchanged DEF RunOfRow, CutOff
<1>3. \A p \in all : s \in Following(all, p) => ~StateGoesOn(all, v, p)
  BY CutBeforeKept DEF RunOfRow, CutOff
<1>4. Unbroken(all, v, new[i], s, z)
  BY UnbrokenKept DEF RunOfRow
<1>5. EndOfRun(all, new, i, z)
  BY <1>1, <1>2 DEF EndOfRun
<1>6. s \in all /\ z \in all
  OBVIOUS
<1> HIDE DEF all
<1>7. CutOff(all, v, s, z)
  BY <1>2, <1>3 DEF CutOff
<1>8. RunOfRow(all, v, new, i, s, z)
  BY <1>4, <1>5, <1>6, <1>7 DEF RunOfRow
<1>9. QED
  BY <1>8 DEF all

(* The last row when n begins another: it is over, at n if n is near.      *)
LEMMA LastRunEnds ==
    ASSUME NEW seen, NEW n, Newest(seen, n), NEW v, NEW rows, NEW new, NEW i,
           NEW s \in seen, NEW z \in seen, RunOfRow(seen, v, rows, i, s, z),
           new[i] = rows[i], i = Len(rows), i # Len(new),
           ~(IsNear(z, n) /\ SameState(v, z, n)),
           rows[i].end_at = IF IsNear(z, n) THEN n.created_at ELSE z.created_at + StatusTail
    PROVE  RunOfRow(seen \cup {n}, v, new, i, s, z)
<1> DEFINE all == seen \cup {n}
<1>1. Later(seen, z) = {}
  BY DEF RunOfRow, EndOfRun
<1>2. /\ ~StateGoesOn(all, v, z) /\ Later(all, z) # {} /\ rows[i].end_at = HoldsUntil(all, z)
  BY <1>1, LastUntilNewest
<1>3. \A p \in all : s \in Following(all, p) => ~StateGoesOn(all, v, p)
  BY CutBeforeKept DEF RunOfRow, CutOff
<1>4. Unbroken(all, v, new[i], s, z)
  BY UnbrokenKept DEF RunOfRow
<1>5. EndOfRun(all, new, i, z)
  BY <1>2 DEF EndOfRun
<1>6. s \in all /\ z \in all
  OBVIOUS
<1> HIDE DEF all
<1>7. CutOff(all, v, s, z)
  BY <1>2, <1>3 DEF CutOff
<1>8. RunOfRow(all, v, new, i, s, z)
  BY <1>4, <1>5, <1>6, <1>7 DEF RunOfRow
<1>9. QED
  BY <1>8 DEF all

(* The last row when n continues it: it now goes up to n.                  *)
LEMMA LastRunGoesOn ==
    ASSUME NEW seen, NEW n, Newest(seen, n), NEW v, NEW rows, NEW i,
           NEW s \in seen, NEW z \in seen, RunOfRow(seen, v, rows, i, s, z),
           i = Len(rows), IsNear(z, n), SameState(v, z, n), Continues(rows[i], v, n)
    PROVE  RunOfRow(seen \cup {n}, v, rows, i, s, n)
<1> DEFINE all == seen \cup {n}
<1>1. Later(seen, z) = {} /\ s.created_at <= z.created_at
  BY DEF RunOfRow, EndOfRun
<1>2. Later(all, n) = {} /\ Following(all, n) = {}
  BY NothingAfterNewest
<1>3. \A p \in all : s \in Following(all, p) => ~StateGoesOn(all, v, p)
  BY CutBeforeKept DEF RunOfRow, CutOff
<1>4. Unbroken(all, v, rows[i], s, n)
  BY <1>1, UnbrokenGoesOn DEF RunOfRow
<1>5. s.created_at <= n.created_at
  BY NewestIsYounger
<1>6. s \in all /\ n \in all
  OBVIOUS
<1> HIDE DEF all
<1>7. CutOff(all, v, s, n)
  BY <1>2, <1>3 DEF CutOff, StateGoesOn
<1>8. RunOfRow(all, v, rows, i, s, n)
  BY <1>2, <1>4, <1>5, <1>6, <1>7 DEF RunOfRow, EndOfRun
<1>9. QED
  BY <1>8 DEF all

(* The row that n begins stands for n.                                     *)
LEMMA NewRun ==
    ASSUME NEW seen, NEW n, Newest(seen, n), NEW v, NEW new, NEW i,
           i = Len(new), new[i].start_at = n.created_at, Continues(new[i], v, n),
           \A z \in seen : Later(seen, z) = {} => ~(IsNear(z, n) /\ SameState(v, z, n))
    PROVE  RunOfRow(seen \cup {n}, v, new, i, n, n)
<1> DEFINE all == seen \cup {n}
<1>1. /\ \A m \in seen : m.created_at \in Nat /\ m.created_at < n.created_at
      /\ n.created_at \in Nat
  BY NewestIsYounger
<1>2. Later(all, n) = {} /\ Following(all, n) = {}
  BY NothingAfterNewest
<1>3. ASSUME NEW p \in all, n \in Following(all, p) PROVE ~StateGoesOn(all, v, p)
  <2>1. p \in seen
    BY <1>2, <1>3
  <2>2. Later(seen, p) = {}
    <3>1. ASSUME Later(seen, p) # {} PROVE FALSE
      <4>1. Following(all, p) = Following(seen, p)
        BY <2>1, <3>1, OthersUnchanged
      <4>2. n \in seen
        BY <1>3, <4>1 DEF Following, Later
      <4>3. QED
        BY <1>1, <4>2
    <3>2. QED
      BY <3>1
  <2>3. QED
    BY <2>1, <2>2, LastUntilNewest
<1>4. \A m \in all : n.created_at <= m.created_at => m = n
  BY <1>1
<1>5. n \in all /\ n.created_at <= n.created_at /\ ~(n.created_at < n.created_at)
  BY <1>1
<1> HIDE DEF all
<1>6. Unbroken(all, v, new[i], n, n)
  BY <1>4, <1>5 DEF Unbroken
<1>7. CutOff(all, v, n, n)
  BY <1>2, <1>3 DEF CutOff, StateGoesOn
<1>8. RunOfRow(all, v, new, i, n, n)
  BY <1>2, <1>5, <1>6, <1>7 DEF RunOfRow, EndOfRun
<1>9. QED
  BY <1>8 DEF all

(* The rows still tell the observations when n continues the last row.     *)
LEMMA TellContinued ==
    ASSUME NEW seen, NEW n, Newest(seen, n), NEW v, NEW rows \in Seq(Row), rows # <<>>,
           RowsTell(seen, v, rows), Continues(rows[Len(rows)], v, n),
           \A z \in seen : Later(seen, z) = {} => IsNear(z, n) /\ SameState(v, z, n)
    PROVE  RowsTell(seen \cup {n}, v, rows)
<1> DEFINE all == seen \cup {n}
<1>1. \A m \in seen : m.created_at \in Nat /\ n.created_at \in Nat /\ m.created_at <= n.created_at
  BY NewestIsYounger
<1>2. Len(rows) \in DOMAIN rows
  BY RowTyped
<1>3. ASSUME NEW i \in DOMAIN rows, NEW s \in seen, NEW z \in seen, RunOfRow(seen, v, rows, i, s, z)
      PROVE  IF i = Len(rows)
             THEN RunOfRow(all, v, rows, i, s, n)
             ELSE RunOfRow(all, v, rows, i, s, z)
  <2>1. CASE i = Len(rows)
    <3>1. Later(seen, z) = {}
      BY <1>3, <2>1 DEF RunOfRow, EndOfRun
    <3>2. IsNear(z, n) /\ SameState(v, z, n)
      BY <3>1
    <3>3. RunOfRow(all, v, rows, i, s, n)
      BY <1>3, <2>1, <3>2, LastRunGoesOn
    <3>4. QED
      BY <2>1, <3>3
  <2>2. CASE i # Len(rows)
    <3>1. RunOfRow(all, v, rows, i, s, z)
      BY <1>3, <2>2, RunKept
    <3>2. QED
      BY <2>2, <3>1
  <2>3. QED
    BY <2>1, <2>2
<1>4. seen \subseteq all /\ n \in all /\ \A m \in all : m \in seen \/ m = n
  OBVIOUS
<1> HIDE DEF all
<1>5. ASSUME NEW i \in DOMAIN rows
      PROVE  \E s, z \in all : RunOfRow(all, v, rows, i, s, z)
  <2>1. PICK s \in seen, z \in seen : RunOfRow(seen, v, rows, i, s, z)
    BY DEF RowsTell
  <2>2. QED
    BY <1>3, <1>4, <2>1
<1>6. PICK s0 \in all : RunOfRow(all, v, rows, Len(rows), s0, n) /\ s0.created_at <= n.created_at
  <2>1. PICK s \in seen, z \in seen : RunOfRow(seen, v, rows, Len(rows), s, z)
    BY <1>2 DEF RowsTell
  <2>2. RunOfRow(all, v, rows, Len(rows), s, n)
    BY <1>2, <1>3, <2>1
  <2>3. QED
    BY <1>1, <1>4, <2>1, <2>2
<1>7. ASSUME NEW m \in all
      PROVE  \E i \in DOMAIN rows : \E s, z \in all :
                 /\ RunOfRow(all, v, rows, i, s, z)
                 /\ s.created_at <= m.created_at /\ m.created_at <= z.created_at
  <2>1. CASE m = n
    <3>1. n.created_at <= n.created_at
      BY NewestIsYounger
    <3>2. QED
      BY <1>2, <1>4, <1>6, <2>1, <3>1
  <2>2. CASE m \in seen
    <3>1. PICK i \in DOMAIN rows, s \in seen, z \in seen :
              /\ RunOfRow(seen, v, rows, i, s, z)
              /\ s.created_at <= m.created_at /\ m.created_at <= z.created_at
      BY <2>2 DEF RowsTell
    <3>2. CASE i = Len(rows)
      <4>1. RunOfRow(all, v, rows, i, s, n)
        BY <1>3, <3>1, <3>2
      <4>2. QED
        BY <1>1, <1>4, <2>2, <3>1, <4>1
    <3>3. CASE i # Len(rows)
      <4>1. RunOfRow(all, v, rows, i, s, z)
        BY <1>3, <3>1, <3>3
      <4>2. QED
        BY <1>4, <3>1, <4>1
    <3>4. QED
      BY <3>2, <3>3
  <2>3. QED
    BY <1>4, <2>1, <2>2
<1>8. RowsTell(all, v, rows)
  BY <1>5, <1>7 DEF RowsTell
<1>9. QED
  BY <1>8 DEF all

(* They tell them, too, when n begins a row and the last one was ended as  *)
(* the UPDATE for n does it.                                               *)
LEMMA TellAppended ==
    ASSUME NEW seen, NEW n, Newest(seen, n), NEW v, NEW rows \in Seq(Row), NEW row \in Row,
           RowsTell(seen, v, rows),
           row.start_at = n.created_at, Continues(row, v, n),
           \A z \in seen : Later(seen, z) = {} =>
               /\ ~(IsNear(z, n) /\ SameState(v, z, n))
               /\ rows[Len(rows)].end_at =
                      IF IsNear(z, n) THEN n.created_at ELSE z.created_at + StatusTail
    PROVE  RowsTell(seen \cup {n}, v, Append(rows, row))
<1> DEFINE all == seen \cup {n}
           new == Append(rows, row)
<1>1. /\ DOMAIN rows = 1..Len(rows) /\ Len(rows) \in Nat
      /\ DOMAIN new = 1..(Len(rows) + 1) /\ Len(new) = Len(rows) + 1
      /\ \A i \in 1..Len(rows) : new[i] = rows[i] /\ i # Len(new)
      /\ new[Len(rows) + 1] = row
  BY AppendRow, RowTyped
<1> HIDE DEF new
<1>2. ASSUME NEW i \in DOMAIN rows, NEW s \in seen, NEW z \in seen, RunOfRow(seen, v, rows, i, s, z)
      PROVE  RunOfRow(all, v, new, i, s, z)
  <2>0. new[i] = rows[i] /\ i # Len(new)
    BY <1>1
  <2>1. CASE i = Len(rows)
    <3>1. Later(seen, z) = {}
      BY <1>2, <2>1 DEF RunOfRow, EndOfRun
    <3>2. /\ ~(IsNear(z, n) /\ SameState(v, z, n))
          /\ rows[i].end_at = IF IsNear(z, n) THEN n.created_at ELSE z.created_at + StatusTail
      BY <2>1, <3>1
    <3>3. QED
      BY <1>2, <2>0, <2>1, <3>2, LastRunEnds
  <2>2. CASE i # Len(rows)
    BY <1>2, <2>0, <2>2, RunKept
  <2>3. QED
    BY <2>1, <2>2
<1>3. RunOfRow(all, v, new, Len(new), n, n)
  <2>1. new[Len(new)].start_at = n.created_at /\ Continues(new[Len(new)], v, n)
    BY <1>1
  <2>2. \A z \in seen : Later(seen, z) = {} => ~(IsNear(z, n) /\ SameState(v, z, n))
    OBVIOUS
  <2>3. QED
    BY <2>1, <2>2, NewRun
<1>4. seen \subseteq all /\ n \in all /\ \A m \in all : m \in seen \/ m = n
  OBVIOUS
<1>5. n.created_at <= n.created_at
  BY NewestIsYounger
<1> HIDE DEF all
<1>6. /\ Len(new) \in DOMAIN new /\ DOMAIN rows \subseteq DOMAIN new
      /\ \A i \in DOMAIN new : i \in DOMAIN rows \/ i = Len(new)
  BY <1>1
<1>7. \A i \in DOMAIN new : \E s, z \in all : RunOfRow(all, v, new, i, s, z)
  <2> TAKE i \in DOMAIN new
  <2>1. CASE i = Len(new)
    BY <1>3, <1>4, <2>1
  <2>2. CASE i \in DOMAIN rows
    <3>1. PICK s \in seen, z \in seen : RunOfRow(seen, v, rows, i, s, z)
      BY <2>2 DEF RowsTell
    <3>2. QED
      BY <1>2, <1>4, <2>2, <3>1
  <2>3. QED
    BY <1>6, <2>1, <2>2
<1>8. ASSUME NEW m \in all
      PROVE  \E i \in DOMAIN new : \E s, z \in all :
                 /\ RunOfRow(all, v, new, i, s, z)
                 /\ s.created_at <= m.created_at /\ m.created_at <= z.created_at
  <2>1. CASE m = n
    BY <1>3, <1>4, <1>5, <1>6, <2>1
  <2>2. CASE m \in seen
    <3>1. PICK i \in DOMAIN rows, s \in seen, z \in seen :
              /\ RunOfRow(seen, v, rows, i, s, z)
              /\ s.created_at <= m.created_at /\ m.created_at <= z.created_at
      BY <2>2 DEF RowsTell
    <3>2. QED
      BY <1>2, <1>4, <1>6, <3>1
  <2>3. QED
    BY <1>4, <2>1, <2>2
<1>9. RowsTell(all, v, new)
  BY <1>7, <1>8 DEF RowsTell
<1>10. QED
  BY <1>9 DEF all, new

(* A validator that was seen has rows, and the last observation is in the  *)
(* last one.                                                               *)
LEMMA LastSeenInLastRow ==
    ASSUME NEW seen, seen \subseteq Snapshot, NEW v, NEW rows \in Seq(Row),
           RowsTell(seen, v, rows), NEW z \in seen, Later(seen, z) = {}
    PROVE  /\ rows # <<>>
           /\ Continues(rows[Len(rows)], v, z)
           /\ \E s \in seen : \E last \in seen :
                 /\ RunOfRow(seen, v, rows, Len(rows), s, last)
                 /\ last.created_at = z.created_at
<1>1. \A m \in seen : m.created_at \in Nat /\ m.created_at <= z.created_at
  BY SnapshotTyped DEF Later
<1>2. rows # <<>>
  <2>1. DOMAIN rows # {}
    BY DEF RowsTell
  <2>2. QED
    BY <2>1
<1>3. Len(rows) \in DOMAIN rows
  BY <1>2, RowTyped
<1>4. PICK s \in seen, last \in seen : RunOfRow(seen, v, rows, Len(rows), s, last)
  BY <1>3 DEF RowsTell
<1>5. Later(seen, last) = {}
  BY <1>4 DEF RunOfRow, EndOfRun
<1>6. last.created_at = z.created_at
  BY <1>1, <1>5 DEF Later
<1>7. s.created_at <= z.created_at
  BY <1>1
<1>8. Continues(rows[Len(rows)], v, z)
  BY <1>1, <1>4, <1>6, <1>7 DEF RunOfRow, Unbroken
<1>9. QED
  BY <1>2, <1>4, <1>6, <1>8

-----------------------------------------------------------------------------
(* What the rows tell, step by step *)

(* The observations of completed commands, all older than one that has not *)
(* been completed.                                                         *)
LEMMA ObservedTyped ==
    ASSUME IInv, NEW v
    PROVE  /\ Observed(v) \subseteq Snapshot
           /\ \A s \in snapshots : s.created_at = begun /\ begun \notin stored =>
                 Newest(Observed(v), s)
<1>1. Observed(v) \subseteq snapshots /\ snapshots \subseteq Snapshot
  BY DEF Observed, IInv, TypeOK
<1>2. \A m \in Observed(v) : m.created_at \in stored /\ m.created_at \in Nat /\ m.created_at <= begun
  BY <1>1, SnapshotTyped DEF Observed, IInv, CommandIsNewest
<1>3. begun \in Nat
  BY DEF IInv, TypeOK
<1>4. QED
  BY <1>1, <1>2, <1>3 DEF Newest

(* What is told depends on the rows and the observations only.             *)
LEMMA SameTold ==
    ASSUME uptimes' = uptimes, \A v \in VoteAccounts : Observed(v)' = Observed(v)
    PROVE  /\ AllTold => AllTold'
           /\ AllEndAsStored => AllEndAsStored'
           /\ \A n : AllEndAsUpdated(n) => AllEndAsUpdated(n)'
<1>1. AllTold => AllTold'
  BY DEF AllTold
<1>2. AllEndAsStored => AllEndAsStored'
  BY DEF AllEndAsStored
<1>3. \A n : AllEndAsUpdated(n) => AllEndAsUpdated(n)'
  BY DEF AllEndAsUpdated
<1>4. QED
  BY <1>1, <1>2, <1>3

(* The runs of observations do not depend on the end of the last row.      *)
LEMMA TellUpdated ==
    ASSUME NEW seen, NEW v, NEW old, NEW new, OnlyLastEndDiffers(old, new),
           RowsTell(seen, v, old)
    PROVE  RowsTell(seen, v, new)
<1>1. /\ DOMAIN new = DOMAIN old /\ Len(new) = Len(old)
      /\ \A i \in DOMAIN old : /\ new[i].status = old[i].status /\ new[i].epoch = old[i].epoch
                               /\ new[i].start_at = old[i].start_at
                               /\ i # Len(old) => new[i].end_at = old[i].end_at
  BY DEF OnlyLastEndDiffers
<1>2. ASSUME NEW i \in DOMAIN old, NEW s \in seen, NEW z \in seen, RunOfRow(seen, v, old, i, s, z)
      PROVE  RunOfRow(seen, v, new, i, s, z)
  <2>1. Unbroken(seen, v, new[i], s, z)
    <3>1. \A m : Continues(old[i], v, m) => Continues(new[i], v, m)
      BY <1>1 DEF Continues
    <3>2. QED
      BY <1>2, <3>1 DEF RunOfRow, Unbroken
  <2>2. EndOfRun(seen, new, i, z)
    BY <1>1, <1>2 DEF RunOfRow, EndOfRun
  <2>3. QED
    BY <1>1, <1>2, <2>1, <2>2 DEF RunOfRow
<1>3. QED
  BY <1>1, <1>2 DEF RowsTell

(* The UPDATE for a snapshot that was not completed moves the end of the   *)
(* last row to where this snapshot puts it, also when it is run again.     *)
LEMMA UpdateTells ==
    ASSUME IInv, TellInv, UpdateEnds, begun \notin stored, NEW v \in VoteAccounts
    PROVE  /\ RowsTell(Observed(v), v, uptimes'[v])
           /\ EndsAsUpdated(Observed(v), v, uptimes'[v], cmd.snapshot)
<1> DEFINE n == cmd.snapshot
           seen == Observed(v)
           rows == uptimes[v]
<1>1. n \in snapshots /\ n.created_at = begun
  BY UpdateOneValidator
<1>2. /\ n \in Snapshot /\ rows \in Seq(Row) /\ begun \in Nat
      /\ StatusTail \in Nat /\ StatusTail > 0 /\ MaxDelay \in Nat /\ MaxDelay > 0
      /\ seen \subseteq Snapshot
  BY <1>1, ConstantsTyped, ObservedTyped DEF IInv, TypeOK
<1>3. RowsTell(seen, v, rows)
  BY DEF TellInv, AllTold
<1>4. EndsAsStored(seen, rows) \/ EndsAsUpdated(seen, v, rows, n)
  BY <1>1 DEF TellInv, AllEndAsStored, AllEndAsUpdated, IInv, SnapshotsDistinct
<1>5. OnlyLastEndDiffers(rows, uptimes'[v])
  BY UpdateShape
<1>6. RowsTell(seen, v, uptimes'[v])
  BY <1>3, <1>5, TellUpdated
<1> SUFFICES ASSUME NEW z \in seen, Later(seen, z) = {}
             PROVE  uptimes'[v][Len(uptimes'[v])].end_at =
                        IF Present(n, v) /\ IsNear(z, n)
                        THEN IF SameState(v, z, n)
                             THEN n.created_at + StatusTail
                             ELSE n.created_at
                        ELSE z.created_at + StatusTail
  BY <1>6 DEF EndsAsUpdated
<1> HIDE DEF n, seen
<1>7. rows # <<>> /\ Continues(Last(v), v, z) /\ z.created_at \in Nat
  BY <1>2, <1>3, LastSeenInLastRow, SnapshotTyped DEF Last
<1>8. Len(uptimes'[v]) = Len(rows) /\ Len(rows) \in Nat /\ Len(rows) # 0
  BY <1>2, <1>5, <1>7, RowTyped DEF OnlyLastEndDiffers
<1>9. \/ Last(v).end_at = z.created_at + StatusTail
      \/ Last(v).end_at = IF Present(n, v) /\ IsNear(z, n)
                          THEN IF SameState(v, z, n) THEN begun + StatusTail ELSE begun
                          ELSE z.created_at + StatusTail
  BY <1>1, <1>4 DEF EndsAsStored, EndsAsUpdated, Last, n
<1>10. Continues(Last(v), v, n) <=> SameState(v, z, n)
  BY <1>7 DEF Continues, SameState
<1>11. WithinReach(v, n) <=> Present(n, v) /\ Last(v).end_at + MaxDelay > begun
  BY <1>1, <1>7, LatestIsLast DEF WithinReach, Last, IInv, n
<1>12. IsNear(z, n) <=> begun < z.created_at + StatusTail + MaxDelay
  BY <1>1 DEF IsNear, n
<1>13. WithinReach(v, n) => IsNear(z, n) /\ Present(n, v)
  BY <1>2, <1>7, <1>9, <1>11, <1>12
<1>14. CASE ~WithinReach(v, n) /\ uptimes'[v] = rows
  <2>1. \/ ~Present(n, v)
        \/ ~(Last(v).end_at + MaxDelay > begun)
    BY <1>11, <1>14
  <2>2. ~(Present(n, v) /\ IsNear(z, n)) \/ Last(v).end_at # z.created_at + StatusTail
    BY <1>2, <1>7, <1>12, <2>1
  <2>3. Last(v)' = Last(v)
    BY <1>14 DEF Last
  <2>4. QED
    BY <1>1, <1>9, <1>14, <2>2 DEF Last, n
<1>15. CASE /\ WithinReach(v, n) /\ Continues(Last(v), v, n)
            /\ uptimes'[v] = [rows EXCEPT ![Len(rows)].end_at = begun + StatusTail]
  <2>1. begun + StatusTail \in Nat
    BY <1>2
  <2>2. uptimes'[v][Len(rows)].end_at = begun + StatusTail
    BY <1>2, <1>7, <1>15, <2>1, ExtendLast
  <2>3. QED
    BY <1>1, <1>8, <1>10, <1>13, <1>15, <2>2 DEF n
<1>16. CASE /\ WithinReach(v, n) /\ ~Continues(Last(v), v, n)
            /\ uptimes'[v] = [rows EXCEPT ![Len(rows)].end_at = begun]
  <2>1. uptimes'[v][Len(rows)].end_at = begun
    BY <1>2, <1>7, <1>16, ExtendLast
  <2>2. QED
    BY <1>1, <1>8, <1>10, <1>13, <1>16, <2>1 DEF n
<1>17. QED
  BY <1>14, <1>15, <1>16, UpdateOneValidator DEF n

(* The INSERT completes what the UPDATE began: the snapshot becomes an     *)
(* observation of every validator in it, and its last row tells so.        *)
LEMMA InsertTells ==
    ASSUME IInv, TellInv, InsertRows, begun \notin stored, NEW v \in VoteAccounts
    PROVE  /\ RowsTell(Observed(v)', v, uptimes'[v])
           /\ EndsAsStored(Observed(v)', uptimes'[v])
<1> DEFINE n == cmd.snapshot
           seen == Observed(v)
           rows == uptimes[v]
<1>1. cmd # Idle /\ cmd.step = "insert"
  BY DEF InsertRows, Idle
<1>2. /\ n \in snapshots /\ n.created_at = begun /\ rows \in Seq(Row)
      /\ snapshots' = snapshots /\ stored' = stored \cup {begun}
  BY <1>1 DEF IInv, TypeOK, CommandIsNewest, InsertRows
<1>3. begun \in Nat /\ StatusTail \in Nat /\ StatusTail > 0
  BY ConstantsTyped DEF IInv, TypeOK
<1>4. RowsTell(seen, v, rows) /\ EndsAsUpdated(seen, v, rows, n)
  BY <1>1 DEF TellInv, AllTold, AllEndAsUpdated
<1>5. CASE ~Present(n, v)
  <2>1. Observed(v)' = seen
    BY <1>2, <1>5 DEF Observed, IInv, SnapshotsDistinct
  <2>2. uptimes'[v] = rows
    BY <1>5, InsertOneValidator
  <2>3. EndsAsStored(seen, rows)
    BY <1>4, <1>5 DEF EndsAsStored, EndsAsUpdated
  <2>4. QED
    BY <1>4, <2>1, <2>2, <2>3
<1>6. CASE Present(n, v)
  <2>1. Observed(v)' = seen \cup {n}
    BY <1>2, <1>6 DEF Observed, IInv, SnapshotsDistinct
  <2>2. Newest(seen, n) /\ seen \subseteq Snapshot
    BY <1>2, ObservedTyped
  <2>3. ASSUME NEW z \in seen \cup {n}, Later(seen \cup {n}, z) = {}
        PROVE  z = n
    BY <2>3, NewestIsYounger, <2>2 DEF Later
  <2>4. ASSUME NEW z \in seen, Later(seen, z) = {}
        PROVE  /\ rows # <<>> /\ Continues(Last(v), v, z)
               /\ z.created_at \in Nat /\ z.created_at < begun
               /\ Last(v).end_at = IF IsNear(z, n)
                                   THEN IF SameState(v, z, n) THEN begun + StatusTail ELSE begun
                                   ELSE z.created_at + StatusTail
    <3>1. rows # <<>> /\ Continues(Last(v), v, z)
      BY <1>2, <1>4, <2>2, <2>4, LastSeenInLastRow DEF Last
    <3>2. z.created_at \in Nat /\ z.created_at < begun
      BY <1>2, <2>2, NewestIsYounger
    <3>3. QED
      BY <1>2, <1>4, <1>6, <2>4, <3>1, <3>2 DEF EndsAsUpdated, Last
  <2>5. CASE v \in cmd.extended
    <3>1. uptimes'[v] = rows
      BY <2>5, InsertOneValidator
    <3>2. rows # <<>> /\ Last(v).end_at = begun + StatusTail /\ Continues(Last(v), v, n)
      BY <1>1, <1>6, <2>5 DEF IInv, ReadyToInsert
    <3>3. ASSUME NEW z \in seen, Later(seen, z) = {}
          PROVE  IsNear(z, n) /\ SameState(v, z, n)
      <4>1. IsNear(z, n)
        BY <1>3, <2>4, <3>2, <3>3
      <4>2. Continues(Last(v), v, z)
        BY <2>4, <3>3
      <4>3. QED
        BY <3>2, <4>1, <4>2 DEF Continues, SameState
    <3>4. RowsTell(seen \cup {n}, v, rows)
      BY <1>2, <1>4, <2>2, <3>2, <3>3, TellContinued DEF Last
    <3>5. EndsAsStored(seen \cup {n}, rows)
      BY <1>2, <2>3, <3>2 DEF EndsAsStored, Last
    <3>6. QED
      BY <2>1, <3>1, <3>4, <3>5
  <2>6. CASE v \notin cmd.extended
    <3> DEFINE row == NewRow(v, n)
    <3>1. row \in Row /\ uptimes'[v] = Append(rows, row)
      BY <1>6, <2>6, InsertOneValidator
    <3>2. /\ row.start_at = n.created_at /\ row.end_at = begun + StatusTail
          /\ Continues(row, v, n)
      BY <1>2 DEF NewRow, Continues
    <3>3. rows # <<>> => Last(v).end_at <= begun
      BY <1>1, <1>6, <2>6 DEF IInv, ReadyToInsert
    <3>4. ASSUME NEW z \in seen, Later(seen, z) = {}
          PROVE  /\ ~(IsNear(z, n) /\ SameState(v, z, n))
                 /\ Last(v).end_at = IF IsNear(z, n) THEN begun ELSE z.created_at + StatusTail
      <4>1. ~(begun + StatusTail <= begun)
        BY <1>3
      <4>2. ~(IsNear(z, n) /\ SameState(v, z, n))
        BY <2>4, <3>3, <3>4, <4>1
      <4>3. QED
        BY <2>4, <3>4, <4>2
    <3>5. RowsTell(seen \cup {n}, v, Append(rows, row))
      <4> HIDE DEF row
      <4>1. \A z \in seen : Later(seen, z) = {} =>
               /\ ~(IsNear(z, n) /\ SameState(v, z, n))
               /\ rows[Len(rows)].end_at =
                      IF IsNear(z, n) THEN n.created_at ELSE z.created_at + StatusTail
        BY <1>2, <3>4 DEF Last
      <4>2. QED
        BY <1>2, <1>4, <2>2, <3>1, <3>2, <4>1, TellAppended
    <3>6. EndsAsStored(seen \cup {n}, Append(rows, row))
      <4> HIDE DEF row
      <4>1. /\ Len(Append(rows, row)) = Len(rows) + 1
            /\ Append(rows, row)[Len(rows) + 1] = row
        BY <1>2, <3>1, AppendRow
      <4>2. QED
        BY <1>2, <2>3, <3>2, <4>1 DEF EndsAsStored
    <3>7. QED
      BY <2>1, <3>1, <3>5, <3>6
  <2>7. QED
    BY <2>5, <2>6
<1>7. QED
  BY <1>5, <1>6

(* Every step keeps what the rows tell.                                    *)
LEMMA NextTells ==
    ASSUME IInv, TellsUnlessSkipped, [Next]_vars
    PROVE  TellsUnlessSkipped'
<1> SUFFICES ASSUME ~skipped' PROVE TellInv'
  BY DEF TellsUnlessSkipped
<1>1. skipped' = skipped \/ (skipped' = (skipped \/ (crashed /\ begun' # begun)))
  BY DEF Next, Collect, SelectLatest, UpdateEnds, InsertRows, Crash, vars
<1>2. TellInv
  BY <1>1 DEF TellsUnlessSkipped, IInv, TypeOK
<1>3. ASSUME NEW s \in Snapshot, Collect(s) PROVE TellInv'
  <2>1. /\ uptimes' = uptimes /\ cmd' = cmd /\ begun' = begun /\ stored' = stored
        /\ crashed' = crashed /\ snapshots' = snapshots \cup {s}
    BY <1>3 DEF Collect
  <2>2. s.created_at \notin stored
    <3>1. \A old \in snapshots : old.created_at \in Nat /\ old.created_at < s.created_at
      BY <1>3, SnapshotTyped DEF IInv, TypeOK, Collect
    <3>2. QED
      BY <3>1 DEF IInv, CommandIsNewest
  <2>3. \A v \in VoteAccounts : Observed(v)' = Observed(v)
    BY <2>1, <2>2 DEF Observed
  <2>4. QED
    BY <1>2, <2>1, <2>3, SameTold DEF TellInv
<1>4. ASSUME NEW s \in snapshots, SelectLatest(s) PROVE TellInv'
  <2>1. /\ uptimes' = uptimes /\ snapshots' = snapshots /\ stored' = stored
        /\ begun' = s.created_at /\ cmd = Idle /\ cmd' # Idle /\ cmd'.step = "update"
        /\ ~(crashed /\ s.created_at # begun)
    BY <1>4 DEF SelectLatest, Idle
  <2>2. \A v \in VoteAccounts : Observed(v)' = Observed(v)
    BY <2>1 DEF Observed
  <2>3. AllTold' /\ (AllEndAsStored => AllEndAsStored')
    BY <1>2, <2>1, <2>2, SameTold DEF TellInv
  <2>4. CASE begun' = begun
    BY <1>2, <2>1, <2>2, <2>4, SameTold DEF TellInv
  <2>5. CASE begun' # begun
    <3>1. begun \in stored \/ stored = {}
      BY <1>2, <2>1, <2>5 DEF TellInv
    <3>2. stored = {} => AllEndAsStored
      BY DEF AllEndAsStored, EndsAsStored, Observed
    <3>3. AllEndAsStored
      BY <1>2, <3>1, <3>2 DEF TellInv
    <3>4. QED
      BY <2>1, <2>3, <3>3 DEF TellInv
  <2>6. QED
    BY <2>4, <2>5
<1>5. CASE UpdateEnds
  <2>1. /\ snapshots' = snapshots /\ begun' = begun /\ stored' = stored /\ crashed' = crashed
        /\ cmd # Idle /\ cmd' # Idle /\ cmd'.snapshot = cmd.snapshot
    BY <1>5, CommandStep DEF UpdateEnds, Idle, IInv, Command
  <2>2. \A v \in VoteAccounts : Observed(v)' = Observed(v)
    BY <2>1 DEF Observed
  <2>3. CASE begun \in stored
    <3>1. uptimes' = uptimes
      BY <2>1, <2>3, RerunStep
    <3>2. QED
      BY <1>2, <2>1, <2>2, <2>3, <3>1, SameTold DEF TellInv
  <2>4. CASE begun \notin stored
    <3>1. \A v \in VoteAccounts : /\ RowsTell(Observed(v), v, uptimes'[v])
                                  /\ EndsAsUpdated(Observed(v), v, uptimes'[v], cmd.snapshot)
      BY <1>2, <1>5, <2>4, UpdateTells
    <3>2. AllTold' /\ AllEndAsUpdated(cmd.snapshot)'
      BY <2>1, <2>2, <3>1 DEF AllTold, AllEndAsUpdated
    <3>3. cmd.snapshot \in snapshots /\ cmd.snapshot.created_at = begun
      BY <2>1 DEF IInv, CommandIsNewest
    <3>4. \E n \in snapshots : n.created_at = begun /\ AllEndAsUpdated(n)'
      <4>1. PICK n : n = cmd.snapshot
        OBVIOUS
      <4>2. AllEndAsUpdated(n)'
        BY <2>2, <3>1, <4>1 DEF AllEndAsUpdated
      <4>3. QED
        BY <3>3, <4>1, <4>2
    <3>5. QED
      BY <2>1, <2>4, <3>2, <3>3, <3>4 DEF TellInv
  <2>5. QED
    BY <2>3, <2>4
<1>6. CASE InsertRows
  <2>1. /\ snapshots' = snapshots /\ begun' = begun /\ stored' = stored \cup {begun}
        /\ cmd # Idle /\ cmd' = Idle
    BY <1>6 DEF InsertRows, Idle, IInv, CommandIsNewest
  <2>2. CASE begun \in stored
    <3>1. uptimes' = uptimes
      BY <2>1, <2>2, RerunStep
    <3>2. stored' = stored /\ \A v \in VoteAccounts : Observed(v)' = Observed(v)
      BY <2>1, <2>2 DEF Observed
    <3>3. QED
      BY <1>2, <2>1, <2>2, <3>1, <3>2, SameTold DEF TellInv
  <2>3. CASE begun \notin stored
    <3>1. \A v \in VoteAccounts : /\ RowsTell(Observed(v)', v, uptimes'[v])
                                  /\ EndsAsStored(Observed(v)', uptimes'[v])
      BY <1>2, <1>6, <2>3, InsertTells
    <3>2. AllTold' /\ AllEndAsStored'
      BY <3>1 DEF AllTold, AllEndAsStored
    <3>3. QED
      BY <2>1, <3>2 DEF TellInv
  <2>4. QED
    BY <2>2, <2>3
<1>7. CASE Crash
  <2>1. /\ uptimes' = uptimes /\ snapshots' = snapshots /\ stored' = stored
        /\ begun' = begun /\ crashed' = TRUE /\ cmd' = Idle
    BY <1>7 DEF Crash
  <2>2. \A v \in VoteAccounts : Observed(v)' = Observed(v)
    BY <2>1 DEF Observed
  <2>3. QED
    BY <1>2, <2>1, <2>2, SameTold DEF TellInv
<1>8. CASE UNCHANGED vars
  <2>1. /\ uptimes' = uptimes /\ snapshots' = snapshots /\ stored' = stored
        /\ begun' = begun /\ crashed' = crashed /\ cmd' = cmd
    BY <1>8 DEF vars
  <2>2. \A v \in VoteAccounts : Observed(v)' = Observed(v)
    BY <2>1 DEF Observed
  <2>3. QED
    BY <1>2, <2>1, <2>2, SameTold DEF TellInv
<1>9. QED
  BY <1>3, <1>4, <1>5, <1>6, <1>7, <1>8 DEF Next

(* Before the first command there is nothing to tell.                      *)
LEMMA InitTells == Init => TellsUnlessSkipped
<1> SUFFICES ASSUME Init PROVE TellInv
  BY DEF TellsUnlessSkipped
<1>1. \A v \in VoteAccounts : uptimes[v] = <<>>
  BY DEF Init
<1>2. \A v \in VoteAccounts : Observed(v) = {}
  BY DEF Init, Observed
<1>3. \A v : RowsTell({}, v, <<>>)
  BY DEF RowsTell
<1>4. AllTold
  BY <1>1, <1>2, <1>3 DEF AllTold
<1>5. AllEndAsStored
  BY <1>2 DEF AllEndAsStored, EndsAsStored
<1>6. QED
  BY <1>4, <1>5 DEF TellInv, Init

(* While no failed command is skipped, the rows tell what was observed.    *)
LEMMA RowsAlwaysTell == Spec => []TellsUnlessSkipped
<1>1. IInv /\ TellsUnlessSkipped /\ [Next]_vars => TellsUnlessSkipped'
  BY NextTells
<1>2. QED
  BY <1>1, InitTells, Invariant, PTL DEF Spec

-----------------------------------------------------------------------------
(* Incidents and outages *)

(* A row stands for its observations and ends when the last of them does.  *)
StandsFor(seen, v, row, s, z) ==
    /\ s \in seen /\ z \in seen
    /\ s.created_at = row.start_at /\ s.created_at <= z.created_at
    /\ row.end_at = HoldsUntil(seen, z)
    /\ Unbroken(seen, v, row, s, z)
    /\ CutOff(seen, v, s, z)

(* Once all commands are completed, this is so of every row, and every     *)
(* observation is in a row.                                                *)
LEMMA SettledRows ==
    ASSUME IInv, TellsUnlessSkipped, Settled, NEW v \in VoteAccounts
    PROVE  /\ \A i \in DOMAIN uptimes[v] : \E s, z \in Observed(v) :
                  StandsFor(Observed(v), v, uptimes[v][i], s, z)
           /\ \A m \in Observed(v) : \E i \in DOMAIN uptimes[v] : \E s, z \in Observed(v) :
                  /\ StandsFor(Observed(v), v, uptimes[v][i], s, z)
                  /\ s.created_at <= m.created_at /\ m.created_at <= z.created_at
<1> DEFINE seen == Observed(v)
           rows == uptimes[v]
<1>1. TellInv
  BY DEF Settled, TellsUnlessSkipped
<1>2. AllEndAsStored
  <2>1. stored = {} => AllEndAsStored
    BY DEF AllEndAsStored, EndsAsStored, Observed
  <2>2. QED
    BY <1>1, <2>1 DEF TellInv, Settled
<1>3. RowsTell(seen, v, rows) /\ EndsAsStored(seen, rows)
  BY <1>1, <1>2 DEF TellInv, AllTold, AllEndAsStored
<1> HIDE DEF seen, rows
<1>4. ASSUME NEW i \in DOMAIN rows, NEW s \in seen, NEW z \in seen, RunOfRow(seen, v, rows, i, s, z)
      PROVE  StandsFor(seen, v, rows[i], s, z)
  <2>1. rows[i].end_at = HoldsUntil(seen, z)
    <3>1. CASE i = Len(rows)
      <4>1. Later(seen, z) = {}
        BY <1>4, <3>1 DEF RunOfRow, EndOfRun
      <4>2. rows[i].end_at = z.created_at + StatusTail
        BY <1>3, <3>1, <4>1 DEF EndsAsStored
      <4>3. Following(seen, z) = {}
        BY <4>1 DEF Following
      <4>4. QED
        BY <4>2, <4>3 DEF HoldsUntil
    <3>2. CASE i # Len(rows)
      BY <1>4, <3>2 DEF RunOfRow, EndOfRun
    <3>3. QED
      BY <3>1, <3>2
  <2>2. QED
    BY <1>4, <2>1 DEF RunOfRow, StandsFor
<1>5. /\ \A i \in DOMAIN rows : \E s, z \in seen : StandsFor(seen, v, rows[i], s, z)
      /\ \A m \in seen : \E i \in DOMAIN rows : \E s, z \in seen :
             /\ StandsFor(seen, v, rows[i], s, z)
             /\ s.created_at <= m.created_at /\ m.created_at <= z.created_at
  BY <1>3, <1>4 DEF RowsTell
<1>6. QED
  BY <1>5 DEF seen, rows

(* For delinquent observations, to go on is to go on DOWN.                 *)
LEMMA DownGoesOn ==
    ASSUME NEW v, NEW m \in Delinquent(v)
    PROVE  StateGoesOn(Observed(v), v, m) <=> GoesOn(v, m)
<1>1. \A n \in Following(Observed(v), m) : n \in Observed(v)
  BY DEF Following, Later
<1>2. \A n : StatusFromDelinquency(n.health[v]) = "DOWN" <=> n.health[v] = "delinquent"
  BY DEF StatusFromDelinquency
<1>3. m.health[v] = "delinquent"
  BY DEF Delinquent
<1>4. \A n \in Following(Observed(v), m) :
         SameState(v, m, n) <=> n \in Delinquent(v) /\ n.epoch = m.epoch
  BY <1>1, <1>2, <1>3 DEF SameState, Delinquent
<1>5. QED
  BY <1>4 DEF StateGoesOn, GoesOn

(* The observations of a DOWN row are an outage.                           *)
LEMMA DownRowIsOutage ==
    ASSUME NEW v, NEW row, row.status = "DOWN", NEW s, NEW z,
           Observed(v) \subseteq Snapshot, StandsFor(Observed(v), v, row, s, z)
    PROVE  /\ s \in Delinquent(v) /\ z \in Delinquent(v) /\ IsOutage(v, s, z)
           /\ Incident(row) = [epoch |-> s.epoch, start_at |-> s.created_at,
                               end_at |-> HoldsUntil(Observed(v), z)]
<1> DEFINE seen == Observed(v)
<1>1. /\ s \in seen /\ z \in seen /\ s.created_at <= z.created_at
      /\ s.created_at = row.start_at /\ row.end_at = HoldsUntil(seen, z)
      /\ Unbroken(seen, v, row, s, z) /\ CutOff(seen, v, s, z)
  BY DEF StandsFor
<1>2. \A m \in seen : m.created_at \in Nat
  BY SnapshotTyped
<1>3. \A m \in seen : m.created_at <= m.created_at
  BY <1>2
<1>4. \A m \in seen : Continues(row, v, m) => m \in Delinquent(v) /\ m.epoch = row.epoch
  BY DEF Continues, StatusFromDelinquency, Delinquent
<1>5. s \in Delinquent(v) /\ z \in Delinquent(v) /\ s.epoch = row.epoch
  BY <1>1, <1>3, <1>4 DEF Unbroken
<1>6. Begins(v, s)
  <2>1. \A p \in Delinquent(v) : p \in seen
    BY DEF Delinquent
  <2>2. \A p \in Delinquent(v) : s \in Following(seen, p) => ~GoesOn(v, p)
    BY <1>1, <2>1, DownGoesOn DEF CutOff
  <2>3. QED
    BY <2>2 DEF Begins
<1>7. ~GoesOn(v, z)
  BY <1>1, <1>5, DownGoesOn DEF CutOff
<1>8. ASSUME NEW m \in Delinquent(v),
             s.created_at <= m.created_at, m.created_at < z.created_at
      PROVE  GoesOn(v, m)
  <2>1. m \in seen
    BY DEF Delinquent
  <2>2. m.created_at <= z.created_at
    BY <1>1, <1>2, <1>8, <2>1
  <2>3. StateGoesOn(seen, v, m)
    BY <1>1, <1>8, <2>1, <2>2 DEF Unbroken
  <2>4. QED
    BY <2>3, DownGoesOn
<1>9. IsOutage(v, s, z)
  BY <1>1, <1>6, <1>7, <1>8 DEF IsOutage
<1>10. QED
  BY <1>1, <1>5, <1>9 DEF Incident

(* An outage whose first observation is in a row is that row's.            *)
LEMMA OutageIsOfItsRow ==
    ASSUME NEW v, NEW row, NEW s, NEW z, NEW s0 \in Delinquent(v), NEW z0 \in Delinquent(v),
           Observed(v) \subseteq Snapshot, StandsFor(Observed(v), v, row, s, z),
           IsOutage(v, s0, z0),
           s.created_at <= s0.created_at, s0.created_at <= z.created_at
    PROVE  /\ row.status = "DOWN" /\ row.epoch = s0.epoch
           /\ s0.created_at = s.created_at /\ z0.created_at = z.created_at
<1> DEFINE seen == Observed(v)
<1>1. /\ s \in seen /\ z \in seen /\ s.created_at <= z.created_at
      /\ Unbroken(seen, v, row, s, z) /\ CutOff(seen, v, s, z)
  BY DEF StandsFor
<1>2. \A m \in seen : m.created_at \in Nat
  BY SnapshotTyped
<1>3. s0 \in seen /\ z0 \in seen /\ s0.health[v] = "delinquent"
  BY DEF Delinquent
<1>4. Continues(row, v, s0)
  BY <1>1, <1>3 DEF Unbroken
<1>5. row.status = "DOWN" /\ row.epoch = s0.epoch
  BY <1>3, <1>4 DEF Continues, StatusFromDelinquency
<1>6. \A m \in seen : s.created_at <= m.created_at /\ m.created_at <= z.created_at =>
         m \in Delinquent(v)
  BY <1>1, <1>5 DEF Unbroken, Continues, StatusFromDelinquency, Delinquent
<1>7. s0.created_at = s.created_at
  <2>1. ASSUME s.created_at < s0.created_at PROVE FALSE
    <3>1. PICK p \in seen : s.created_at <= p.created_at /\ s0 \in Following(seen, p)
      BY <1>1, <1>3, <2>1 DEF Unbroken
    <3>2. p.created_at < s0.created_at
      BY <1>2, <1>3, <3>1 DEF Following, Later
    <3>3. p.created_at < z.created_at /\ p.created_at <= z.created_at
      BY <1>1, <1>2, <1>3, <3>2
    <3>4. StateGoesOn(seen, v, p) /\ p \in Delinquent(v)
      BY <1>1, <1>6, <3>1, <3>3 DEF Unbroken
    <3>5. GoesOn(v, p)
      BY <3>4, DownGoesOn
    <3>6. QED
      BY <3>1, <3>4, <3>5 DEF IsOutage, Begins
  <2>2. QED
    BY <1>1, <1>2, <1>3, <2>1
<1>8. z \in Delinquent(v) /\ ~GoesOn(v, z)
  <2>1. z \in Delinquent(v)
    BY <1>1, <1>2, <1>6
  <2>2. QED
    BY <1>1, <2>1, DownGoesOn DEF CutOff
<1>9. ~(z.created_at < z0.created_at)
  BY <1>8 DEF IsOutage
<1>10. ~(z0.created_at < z.created_at)
  <2>1. ASSUME z0.created_at < z.created_at PROVE FALSE
    <3>1. s.created_at <= z0.created_at /\ z0.created_at <= z.created_at
      BY <1>1, <1>2, <1>3, <1>7, <2>1 DEF IsOutage
    <3>2. StateGoesOn(seen, v, z0)
      BY <1>1, <1>3, <2>1, <3>1 DEF Unbroken
    <3>3. GoesOn(v, z0)
      BY <3>2, DownGoesOn
    <3>4. QED
      BY <3>3 DEF IsOutage
  <2>2. QED
    BY <2>1
<1>11. QED
  BY <1>1, <1>2, <1>3, <1>5, <1>7, <1>9, <1>10

(* The incidents that the API lists are the outages that were observed in  *)
(* the epochs of the window, each once and none broken up, while no failed *)
(* command is left out.                                                    *)
THEOREM IncidentsStayOutages == Spec => []IncidentsAreOutages
<1>1. ASSUME IInv, TellsUnlessSkipped, Settled, NEW v \in VoteAccounts, NEW last_epoch
      PROVE  Incidents(v, last_epoch)
                 = {o \in Outages(v) : o.epoch > last_epoch - IncidentsWindow}
  <2> DEFINE seen == Observed(v)
             rows == uptimes[v]
             AsOutage(s, z) == [epoch |-> s.epoch, start_at |-> s.created_at,
                                end_at |-> HoldsUntil(seen, z)]
             Listed(e) == e > last_epoch - IncidentsWindow
  <2>0. seen \subseteq Snapshot
    BY <1>1, ObservedTyped
  <2>1. \A x : x \in Outages(v) <=>
           \E s, z \in Delinquent(v) : IsOutage(v, s, z) /\ x = AsOutage(s, z)
    <3>1. \A x : x \in Outages(v) <=>
             \E run \in Delinquent(v) \X Delinquent(v) :
                IsOutage(v, run[1], run[2]) /\ x = AsOutage(run[1], run[2])
      BY DEF Outages
    <3>2. \A s, z : s \in Delinquent(v) /\ z \in Delinquent(v) =>
             /\ <<s, z>> \in Delinquent(v) \X Delinquent(v)
             /\ <<s, z>>[1] = s /\ <<s, z>>[2] = z
      OBVIOUS
    <3>3. \A run \in Delinquent(v) \X Delinquent(v) :
             run[1] \in Delinquent(v) /\ run[2] \in Delinquent(v)
      OBVIOUS
    <3> HIDE DEF AsOutage
    <3>4. ASSUME NEW s \in Delinquent(v), NEW z \in Delinquent(v), IsOutage(v, s, z)
          PROVE  AsOutage(s, z) \in Outages(v)
      <4>1. PICK run : run = <<s, z>>
        OBVIOUS
      <4>2. run \in Delinquent(v) \X Delinquent(v) /\ run[1] = s /\ run[2] = z
        BY <3>2, <4>1
      <4>3. QED
        BY <3>1, <3>4, <4>2
    <3>5. QED
      BY <3>1, <3>3, <3>4
  <2>2. \A x : x \in Incidents(v, last_epoch) <=>
           \E i \in DOMAIN rows : /\ rows[i].status = "DOWN" /\ x = Incident(rows[i])
                                  /\ Listed(rows[i].epoch)
    BY DEF Incidents, DownRows
  <2>3. ASSUME NEW i \in DOMAIN rows, rows[i].status = "DOWN"
        PROVE  Incident(rows[i]) \in Outages(v)
    <3>1. PICK s \in seen, z \in seen : StandsFor(seen, v, rows[i], s, z)
      BY <1>1, SettledRows
    <3>2. /\ s \in Delinquent(v) /\ z \in Delinquent(v) /\ IsOutage(v, s, z)
          /\ Incident(rows[i]) = AsOutage(s, z)
      BY <2>0, <2>3, <3>1, DownRowIsOutage
    <3> HIDE DEF AsOutage
    <3>3. QED
      BY <2>1, <3>2
  <2>4. ASSUME NEW s0 \in Delinquent(v), NEW z0 \in Delinquent(v), IsOutage(v, s0, z0)
        PROVE  Listed(s0.epoch) => AsOutage(s0, z0) \in Incidents(v, last_epoch)
    <3>1. s0 \in seen
      BY DEF Delinquent
    <3>2. PICK i \in DOMAIN rows, s \in seen, z \in seen :
              /\ StandsFor(seen, v, rows[i], s, z)
              /\ s.created_at <= s0.created_at /\ s0.created_at <= z.created_at
      BY <1>1, <3>1, SettledRows
    <3>3. /\ rows[i].status = "DOWN" /\ rows[i].epoch = s0.epoch
          /\ s0.created_at = s.created_at /\ z0.created_at = z.created_at
      BY <2>0, <2>4, <3>2, OutageIsOfItsRow
    <3>4. z0 = z
      <4>1. seen \subseteq snapshots /\ z0 \in seen
        BY DEF Observed, Delinquent
      <4>2. QED
        BY <1>1, <3>3, <4>1 DEF IInv, SnapshotsDistinct
    <3>5. rows[i].start_at = s0.created_at /\ rows[i].end_at = HoldsUntil(seen, z0)
      BY <3>2, <3>3, <3>4 DEF StandsFor
    <3>6. Incident(rows[i]) = AsOutage(s0, z0)
      BY <3>3, <3>5 DEF Incident
    <3> HIDE DEF AsOutage
    <3>7. QED
      BY <2>2, <3>3, <3>6
  <2> HIDE DEF AsOutage
  <2> HIDE DEF Listed
  <2>5. /\ \A i \in DOMAIN rows : Incident(rows[i]).epoch = rows[i].epoch
        /\ \A s, z : AsOutage(s, z).epoch = s.epoch
    BY DEF Incident, AsOutage
  <2>6. \A x : x \in Incidents(v, last_epoch) <=> x \in Outages(v) /\ Listed(x.epoch)
    BY <2>1, <2>2, <2>3, <2>4, <2>5
  <2>7. QED
    BY <2>6 DEF Listed
<1>2. IInv /\ TellsUnlessSkipped => IncidentsAreOutages
  BY <1>1 DEF IncidentsAreOutages
<1>3. QED
  BY <1>2, Invariant, RowsAlwaysTell, PTL

-----------------------------------------------------------------------------
(* Sums of lengths                                                         *)

(* A nonempty set of natural numbers has a least element.                  *)
LEMMA LeastOfNaturals ==
    ASSUME NEW S \in SUBSET Nat, S # {}
    PROVE  Min(S) \in S /\ \A x \in S : Min(S) <= x
<1> DEFINE R == OpToRel(<, Nat)
<1>1. IsWellFoundedOn(R, Nat)
  BY NatLessThanWellFounded
<1>2. \A x, y \in Nat : <<y, x>> \in R <=> y < x
  BY DEF OpToRel
<1> HIDE DEF R
<1>3. PICK x \in S : \A y \in S : ~ (<<y, x>> \in R)
  BY <1>1, WFMin
<1>4. ASSUME NEW y \in S PROVE x <= y
  <2>1. x \in Nat /\ y \in Nat /\ ~ (y < x)
    BY <1>2, <1>3
  <2> QED
    BY <2>1
<1> QED
  BY <1>4 DEF Min

(* A sum is what its defining equations say, whichever of the summands is  *)
(* taken first.                                                            *)
LEMMA SumIsMeasure ==
    ASSUME NEW f, IsFiniteSet(DOMAIN f), NEW m, DOMAIN m = SUBSET (DOMAIN f),
           m = [s \in DOMAIN m |-> m[s]], m[{}] = 0,
           \A s \in SUBSET (DOMAIN f) : \A x \in s : m[s] = f[x] + m[s \ {x}]
    PROVE  SumFunction(f) = m[DOMAIN f]
<1> DEFINE S == DOMAIN f
           some(s) == CHOOSE x \in s : TRUE
           F(it) == [s \in SUBSET S |-> IF s = {} THEN 0 ELSE f[some(s)] + it[s \ {some(s)}]]
           sum == CHOOSE it : it = F(it)
<1>1. SumFunction(f) = sum[S]
  BY DEF SumFunction, SumFunctionOnSet, FoldFunctionOnSet, MapThenFoldSet
<1> HIDE DEF some
<1>2. \A s \in SUBSET S : s # {} => some(s) \in s
  BY DEF some
<1>3. m = F(m)
  <2>1. \A s \in SUBSET S : m[s] = IF s = {} THEN 0 ELSE f[some(s)] + m[s \ {some(s)}]
    BY <1>2
  <2> QED
    BY <2>1, Zenon
<1> HIDE DEF F
<1>4. sum = F(sum)
  BY <1>3
<1> HIDE DEF sum
<1>5. \A s \in SUBSET S :
         sum[s] = IF s = {} THEN 0 ELSE f[some(s)] + sum[s \ {some(s)}]
  <2>1. sum = [s \in SUBSET S |-> IF s = {} THEN 0 ELSE f[some(s)] + sum[s \ {some(s)}]]
    BY <1>4 DEF F
  <2> SUFFICES ASSUME NEW s \in SUBSET S
               PROVE  sum[s] = IF s = {} THEN 0 ELSE f[some(s)] + sum[s \ {some(s)}]
    OBVIOUS
  <2> HIDE DEF S
  <2> QED
    BY <2>1, Zenon
<1> DEFINE Bad == {s \in SUBSET S : sum[s] # m[s]}
           Sizes == {Cardinality(s) : s \in Bad}
<1>6. Bad = {}
  <2> SUFFICES ASSUME Bad # {} PROVE FALSE
    OBVIOUS
  <2>1. \A s \in SUBSET S : IsFiniteSet(s) /\ Cardinality(s) \in Nat
    BY FS_Subset, FS_CardinalityType
  <2>2. Sizes \in SUBSET Nat /\ Sizes # {}
    BY <2>1
  <2>3. PICK s \in Bad : \A t \in Bad : Cardinality(s) <= Cardinality(t)
    <3>1. Min(Sizes) \in Sizes /\ \A n \in Sizes : Min(Sizes) <= n
      BY <2>2, LeastOfNaturals
    <3>2. \A t \in Bad : Cardinality(t) \in Sizes
      OBVIOUS
    <3>3. PICK s \in Bad : Cardinality(s) = Min(Sizes)
      BY <3>1
    <3> HIDE DEF Sizes, Bad
    <3> QED
      BY <3>1, <3>2, <3>3
  <2>4. s # {}
    BY <1>5, <2>3
  <2> DEFINE x == some(s)
             t == s \ {x}
  <2>5. x \in s /\ s \in SUBSET S /\ t \in SUBSET S
    BY <1>2, <2>3, <2>4
  <2>6. Cardinality(t) = Cardinality(s) - 1
    BY <2>1, <2>5, FS_RemoveElement
  <2>7. t \notin Bad
    BY <2>1, <2>3, <2>5, <2>6
  <2>8. sum[t] = m[t]
    BY <2>5, <2>7
  <2>9. sum[s] = f[x] + sum[t] /\ m[s] = f[x] + m[t]
    BY <1>5, <2>4, <2>5
  <2> QED
    BY <2>3, <2>8, <2>9
<1>7. sum[S] = m[S]
  BY <1>6
<1> QED
  BY <1>1, <1>7

Covered(S, from, upto) == {t \in Nat : \E x \in S : from[x] <= t /\ t < upto[x]}

LEMMA SumOfIntervals ==
    ASSUME NEW S, IsFiniteSet(S), NEW from \in [S -> Nat], NEW upto \in [S -> Nat],
           NEW bound \in Nat,
           \A x \in S : from[x] <= upto[x] /\ upto[x] <= bound,
           \A x, y \in S : x # y => upto[x] <= from[y] \/ upto[y] <= from[x]
    PROVE  SumFunction([x \in S |-> upto[x] - from[x]]) = Cardinality(Covered(S, from, upto))
<1> DEFINE f == [x \in S |-> upto[x] - from[x]]
           m == [s \in SUBSET S |-> Cardinality(Covered(s, from, upto))]
<1>1. \A s \in SUBSET S : IsFiniteSet(Covered(s, from, upto))
  <2> TAKE s \in SUBSET S
  <2>1. Covered(s, from, upto) \in SUBSET Nat /\ \A t \in Covered(s, from, upto) : t <= bound
    BY DEF Covered
  <2> QED
    BY <2>1, FS_BoundedSetOfNaturals
<1>2. m[{}] = 0
  <2>1. Covered({}, from, upto) = {}
    BY DEF Covered
  <2> QED
    BY <2>1, FS_EmptySet
<1>3. ASSUME NEW s \in SUBSET S, NEW x \in s
      PROVE  Cardinality(Covered(s, from, upto)) =
                 f[x] + Cardinality(Covered(s \ {x}, from, upto))
  <2> DEFINE rest == Covered(s \ {x}, from, upto)
             own == from[x]..(upto[x] - 1)
  <2>0. from[x] \in Nat /\ upto[x] \in Nat /\ from[x] <= upto[x] /\ f[x] = upto[x] - from[x]
    OBVIOUS
  <2>1. IsFiniteSet(own) /\ Cardinality(own) = f[x]
    <3> DEFINE a == from[x]
               b == upto[x] - 1
    <3>1. a \in Int /\ b \in Int /\ (IF a > b THEN 0 ELSE b - a + 1) = f[x]
      BY <2>0
    <3> HIDE DEF a, b
    <3>2. IsFiniteSet(a..b) /\ Cardinality(a..b) = IF a > b THEN 0 ELSE b - a + 1
      BY <3>1, FS_Interval
    <3> QED
      BY <3>1, <3>2 DEF a, b
  <2>2. IsFiniteSet(rest) /\ Cardinality(rest) \in Nat
    BY <1>1, FS_CardinalityType
  <2>3. own \cap rest = {}
    BY <2>0 DEF Covered
  <2>4. Covered(s, from, upto) = own \cup rest
    BY <2>0 DEF Covered
  <2> HIDE DEF own, rest, f
  <2>5. Cardinality(own \cup rest) = Cardinality(own) + Cardinality(rest)
    <3>1. /\ Cardinality(own) \in Nat /\ Cardinality(own \cap rest) = 0
          /\ Cardinality(own \cup rest) =
                 Cardinality(own) + Cardinality(rest) - Cardinality(own \cap rest)
      BY <2>1, <2>2, <2>3, FS_EmptySet, FS_Union, FS_CardinalityType
    <3> QED
      BY <2>2, <3>1
  <2> QED
    BY <2>1, <2>4, <2>5 DEF rest
<1>4. \A s \in SUBSET S : \A x \in s : m[s] = f[x] + m[s \ {x}]
  <2>1. \A s \in SUBSET S : \A x \in s : s \ {x} \in SUBSET S
    OBVIOUS
  <2> HIDE DEF f
  <2> QED
    BY <1>3, <2>1
<1>5. DOMAIN f = S /\ DOMAIN m = SUBSET S /\ m = [s \in DOMAIN m |-> m[s]]
  OBVIOUS
<1>6. m[S] = Cardinality(Covered(S, from, upto))
  OBVIOUS
<1> HIDE DEF f, m
<1>7. SumFunction(f) = m[S]
  BY <1>2, <1>4, <1>5, SumIsMeasure
<1> QED
  BY <1>6, <1>7 DEF f
-----------------------------------------------------------------------------
(* Downtime                                                                *)

(* Something follows an observation that is not the last.                  *)
LEMMA SomethingFollows ==
    ASSUME NEW seen \in SUBSET Snapshot, NEW m \in seen, NEW n \in seen,
           m.created_at < n.created_at
    PROVE  \E k \in Following(seen, m) : k.created_at <= n.created_at
<1> DEFINE times == {k.created_at : k \in Later(seen, m)}
<1>1. n \in Later(seen, m) /\ \A k \in Later(seen, m) : k.created_at \in Nat
  BY SnapshotTyped DEF Later
<1>2. times \in SUBSET Nat /\ times # {}
  BY <1>1
<1>3. Min(times) \in times /\ \A x \in times : Min(times) <= x
  BY <1>2, LeastOfNaturals
<1>4. PICK k \in Later(seen, m) : k.created_at = Min(times)
  BY <1>3
<1>5. \A j \in Later(seen, m) : k.created_at <= j.created_at
  BY <1>3, <1>4
<1> QED
  BY <1>1, <1>4, <1>5 DEF Following

(* An observation holds for some time, but not when the next is there.     *)
LEMMA HoldsForSomeTime ==
    ASSUME NEW seen \in SUBSET Snapshot, NEW m \in seen
    PROVE  /\ m.created_at \in Nat /\ HoldsUntil(seen, m) \in Nat
           /\ m.created_at < HoldsUntil(seen, m)
           /\ \A n \in seen : m.created_at < n.created_at => HoldsUntil(seen, m) <= n.created_at
<1>1. /\ m.created_at \in Nat
      /\ \A k \in Following(seen, m) :
            /\ k \in seen /\ k.created_at \in Nat /\ m.created_at < k.created_at
            /\ \A n \in seen : m.created_at < n.created_at => k.created_at <= n.created_at
  BY SnapshotTyped DEF Following, Later
<1>2. CASE \E k \in Following(seen, m) : IsNear(m, k)
  <2>1. PICK k \in Following(seen, m) : HoldsUntil(seen, m) = k.created_at
    BY <1>2 DEF HoldsUntil, InstantOf
  <2> QED
    BY <1>1, <2>1
<1>3. CASE ~\E k \in Following(seen, m) : IsNear(m, k)
  <2>1. HoldsUntil(seen, m) = m.created_at + StatusTail
    BY <1>3 DEF HoldsUntil
  <2>2. ASSUME NEW n \in seen, m.created_at < n.created_at
        PROVE  HoldsUntil(seen, m) <= n.created_at
    <3>1. PICK k \in Following(seen, m) : k.created_at <= n.created_at
      BY <2>2, SomethingFollows
    <3>2. ~(k.created_at < m.created_at + StatusTail + MaxDelay)
      BY <1>3 DEF IsNear
    <3>3. n.created_at \in Nat
      BY SnapshotTyped
    <3> QED
      BY <1>1, <2>1, <3>1, <3>2, <3>3, ConstantsTyped
  <2> QED
    BY <1>1, <2>1, <2>2, ConstantsTyped
<1> QED
  BY <1>2, <1>3

(* Observations hold one after the other within a row, and as long as it.  *)
LEMMA HoldWithinRow ==
    ASSUME IInv, NEW v, NEW row, NEW s, NEW z, StandsFor(Observed(v), v, row, s, z),
           NEW m \in Observed(v), s.created_at <= m.created_at, m.created_at <= z.created_at
    PROVE  /\ HoldsUntil(Observed(v), m) <= row.end_at
           /\ \/ HoldsUntil(Observed(v), m) = row.end_at
              \/ \E n \in Observed(v) :
                    /\ m.created_at < n.created_at /\ n.created_at <= z.created_at
                    /\ HoldsUntil(Observed(v), m) = n.created_at
<1> DEFINE seen == Observed(v)
<1>1. seen \in SUBSET Snapshot /\ seen \subseteq snapshots
  BY ObservedTyped DEF Observed
<1>2. z \in seen /\ row.end_at = HoldsUntil(seen, z) /\ Unbroken(seen, v, row, s, z)
  BY DEF StandsFor
<1> HIDE DEF seen
<1>3. /\ m.created_at \in Nat /\ z.created_at \in Nat
      /\ HoldsUntil(seen, z) \in Nat /\ z.created_at < HoldsUntil(seen, z)
  BY <1>1, <1>2, HoldsForSomeTime DEF seen
<1>4. CASE m.created_at = z.created_at
  <2>1. m = z
    BY <1>1, <1>2, <1>4 DEF IInv, SnapshotsDistinct, seen
  <2> QED
    BY <1>2, <1>3, <2>1 DEF seen
<1>5. CASE m.created_at < z.created_at
  <2>1. StateGoesOn(seen, v, m)
    BY <1>2, <1>5 DEF Unbroken, seen
  <2>2. \E k \in Following(seen, m) : IsNear(m, k)
    BY <2>1 DEF StateGoesOn
  <2>3. PICK n \in Following(seen, m) : HoldsUntil(seen, m) = n.created_at
    BY <2>2 DEF HoldsUntil, InstantOf
  <2>4. /\ n \in seen /\ m.created_at < n.created_at /\ n.created_at <= z.created_at
    BY <1>2, <1>5, <2>3 DEF Following, Later
  <2>5. n.created_at \in Nat
    BY <1>1, <2>4, SnapshotTyped
  <2>6. HoldsUntil(seen, m) <= row.end_at
    BY <1>2, <1>3, <2>3, <2>4, <2>5
  <2> QED
    BY <2>3, <2>4, <2>6 DEF seen
<1> QED
  BY <1>3, <1>4, <1>5

(* At every instant of a row one of its observations holds.                *)
LEMMA OneHoldsInRow ==
    ASSUME IInv, NEW v, NEW row, NEW s, NEW z, StandsFor(Observed(v), v, row, s, z),
           NEW t \in Nat, row.start_at <= t, t < row.end_at
    PROVE  \E m \in Observed(v) :
               /\ s.created_at <= m.created_at /\ m.created_at <= z.created_at
               /\ m.created_at <= t /\ t < HoldsUntil(Observed(v), m)
<1> DEFINE seen == Observed(v)
           before == {m \in seen : /\ s.created_at <= m.created_at
                                   /\ m.created_at <= z.created_at
                                   /\ m.created_at <= t}
           ages == {t - m.created_at : m \in before}
<1>1. seen \in SUBSET Snapshot /\ \A m \in seen : m.created_at \in Nat
  BY ObservedTyped, SnapshotTyped
<1>2. s \in before
  BY <1>1 DEF StandsFor
<1>3. ages \in SUBSET Nat /\ ages # {}
  BY <1>1, <1>2
<1>4. Min(ages) \in ages /\ \A x \in ages : Min(ages) <= x
  BY <1>3, LeastOfNaturals
<1>5. PICK m \in before : Min(ages) = t - m.created_at
  BY <1>4
<1>6. \A n \in before : n.created_at <= m.created_at
  <2> TAKE n \in before
  <2>1. t - n.created_at \in ages /\ n.created_at \in Nat /\ m.created_at \in Nat
    BY <1>1
  <2>2. t - m.created_at <= t - n.created_at
    BY <1>4, <1>5, <2>1
  <2> QED
    BY <2>1, <2>2
<1>7. \/ HoldsUntil(seen, m) = row.end_at
      \/ \E n \in seen : /\ m.created_at < n.created_at /\ n.created_at <= z.created_at
                         /\ HoldsUntil(seen, m) = n.created_at
  BY HoldWithinRow
<1>8. CASE HoldsUntil(seen, m) = row.end_at
  BY <1>8
<1>9. CASE \E n \in seen : /\ m.created_at < n.created_at /\ n.created_at <= z.created_at
                           /\ HoldsUntil(seen, m) = n.created_at
  <2>1. PICK n \in seen : /\ m.created_at < n.created_at /\ n.created_at <= z.created_at
                          /\ HoldsUntil(seen, m) = n.created_at
    BY <1>9
  <2>2. n.created_at \in Nat /\ m.created_at \in Nat /\ s.created_at \in Nat /\ s.created_at <= m.created_at
    BY <1>1, <1>2, <2>1
  <2>3. n \notin before
    BY <1>6, <2>1, <2>2
  <2>4. s.created_at <= n.created_at
    BY <2>1, <2>2
  <2>5. ~(n.created_at <= t)
    BY <2>1, <2>3, <2>4
  <2> QED
    BY <2>1, <2>2, <2>5
<1> QED
  BY <1>7, <1>8, <1>9

(* The rows that are summed up, and the observations                       *)
DownIn(v, e) == {i \in DownRows(v) : uptimes[v][i].epoch = e}
DelinquentIn(v, e) == {m \in Delinquent(v) : m.epoch = e}

(* cover the same instants.                                                *)
LEMMA SameTimeCovered ==
    ASSUME IInv, TellsUnlessSkipped, Settled, NEW v \in VoteAccounts, NEW e, NEW t \in Nat
    PROVE  (\E i \in DownIn(v, e) : uptimes[v][i].start_at <= t /\ t < uptimes[v][i].end_at)
           <=> (\E m \in DelinquentIn(v, e) :
                   m.created_at <= t /\ t < HoldsUntil(Observed(v), m))
<1> DEFINE seen == Observed(v)
           rows == uptimes[v]
<1>1. seen \in SUBSET Snapshot
  BY ObservedTyped
<1>2. ASSUME NEW i \in DownIn(v, e), rows[i].start_at <= t, t < rows[i].end_at
      PROVE  \E m \in DelinquentIn(v, e) : m.created_at <= t /\ t < HoldsUntil(seen, m)
  <2>1. i \in DOMAIN rows /\ rows[i].status = "DOWN" /\ rows[i].epoch = e
    BY DEF DownIn, DownRows
  <2>2. PICK s \in seen, z \in seen : StandsFor(seen, v, rows[i], s, z)
    BY <2>1, SettledRows
  <2>3. PICK m \in seen : /\ s.created_at <= m.created_at /\ m.created_at <= z.created_at
                          /\ m.created_at <= t /\ t < HoldsUntil(seen, m)
    BY <1>2, <2>2, OneHoldsInRow
  <2>4. Continues(rows[i], v, m)
    BY <2>2, <2>3 DEF StandsFor, Unbroken
  <2>5. m \in DelinquentIn(v, e)
    BY <2>1, <2>3, <2>4 DEF Continues, StatusFromDelinquency, DelinquentIn, Delinquent
  <2> QED
    BY <2>3, <2>5
<1>3. ASSUME NEW m \in DelinquentIn(v, e), m.created_at <= t, t < HoldsUntil(seen, m)
      PROVE  \E i \in DownIn(v, e) : rows[i].start_at <= t /\ t < rows[i].end_at
  <2>1. m \in seen /\ m.health[v] = "delinquent" /\ m.epoch = e
    BY DEF DelinquentIn, Delinquent
  <2>2. PICK i \in DOMAIN rows, s \in seen, z \in seen :
            /\ StandsFor(seen, v, rows[i], s, z)
            /\ s.created_at <= m.created_at /\ m.created_at <= z.created_at
    BY <2>1, SettledRows
  <2>3. Continues(rows[i], v, m)
    BY <2>1, <2>2 DEF StandsFor, Unbroken
  <2>4. i \in DownIn(v, e)
    BY <2>1, <2>3 DEF Continues, StatusFromDelinquency, DownIn, DownRows
  <2>5. HoldsUntil(seen, m) <= rows[i].end_at
    BY <2>1, <2>2, HoldWithinRow
  <2>6. /\ s.created_at = rows[i].start_at /\ rows[i].end_at = HoldsUntil(seen, z)
    BY <2>2 DEF StandsFor
  <2>7. /\ m.created_at \in Nat /\ s.created_at \in Nat
        /\ HoldsUntil(seen, m) \in Nat /\ HoldsUntil(seen, z) \in Nat
    BY <1>1, <2>1, HoldsForSomeTime
  <2> QED
    BY <1>3, <2>2, <2>4, <2>5, <2>6, <2>7
<1> QED
  BY <1>2, <1>3

(* Every row and every observation ends by some instant.                   *)
LEMMA AllEnd ==
    ASSUME IInv, TellsUnlessSkipped, Settled, NEW v \in VoteAccounts
    PROVE  \E bound \in Nat :
               /\ \A i \in DOMAIN uptimes[v] : uptimes[v][i].end_at <= bound
               /\ \A m \in Observed(v) : HoldsUntil(Observed(v), m) <= bound
<1> DEFINE seen == Observed(v)
           rows == uptimes[v]
<1>1. /\ rows \in Seq(Row) /\ Len(rows) \in Nat /\ DOMAIN rows = 1..Len(rows)
      /\ \A i \in 1..Len(rows) : rows[i].end_at \in Nat /\ rows[i].start_at \in Nat
  BY RowTyped DEF IInv, TypeOK
<1>2. PICK bound \in Nat : \A i \in DOMAIN rows : rows[i].end_at <= bound
  <2>1. CASE rows = <<>>
    BY <1>1, <2>1
  <2>2. CASE rows # <<>>
    <3>1. Len(rows) \in 1..Len(rows)
      BY <1>1, <2>2, RowTyped
    <3>2. \A i \in 1..Len(rows) : rows[i].end_at <= rows[Len(rows)].end_at
      BY <1>1, <3>1 DEF IInv, RowsOrdered, Ordered
    <3> QED
      BY <1>1, <3>1, <3>2
  <2> QED
    BY <2>1, <2>2
<1>3. \A m \in seen : HoldsUntil(seen, m) <= bound
  <2> TAKE m \in seen
  <2>1. PICK i \in DOMAIN rows, s \in seen, z \in seen :
            /\ StandsFor(seen, v, rows[i], s, z)
            /\ s.created_at <= m.created_at /\ m.created_at <= z.created_at
    BY SettledRows
  <2>2. HoldsUntil(seen, m) <= rows[i].end_at
    BY <2>1, HoldWithinRow
  <2>3. HoldsUntil(seen, m) \in Nat
    BY ObservedTyped, HoldsForSomeTime
  <2> QED
    BY <1>1, <1>2, <2>2, <2>3
<1> QED
  BY <1>2, <1>3

(* The sum over rows and the sum over observations are the number of the   *)
(* instants that they cover.                                               *)
LEMMA RowsAddUp ==
    ASSUME IInv, NEW v \in VoteAccounts, NEW e, NEW bound \in Nat,
           \A i \in DOMAIN uptimes[v] : uptimes[v][i].end_at <= bound
    PROVE  Downtime(v, e) =
               Cardinality({t \in Nat : \E i \in DownIn(v, e) :
                               uptimes[v][i].start_at <= t /\ t < uptimes[v][i].end_at})
<1> DEFINE rows == uptimes[v]
           S == DownIn(v, e)
           from == [i \in S |-> rows[i].start_at]
           upto == [i \in S |-> rows[i].end_at]
<1>1. /\ DOMAIN rows = 1..Len(rows) /\ Len(rows) \in Nat
      /\ \A i \in DOMAIN rows : rows[i].start_at \in Nat /\ rows[i].end_at \in Nat
  BY RowTyped DEF IInv, TypeOK
<1>2. Ordered(rows)
  BY DEF IInv, RowsOrdered
<1>3. S \subseteq DOMAIN rows
  BY DEF DownIn, DownRows
<1>4. IsFiniteSet(S)
  <2>1. IsFiniteSet(1..Len(rows)) /\ S \in SUBSET (1..Len(rows))
    BY <1>1, <1>3, FS_Interval
  <2> QED
    BY <2>1, FS_Subset
<1> HIDE DEF S, rows
<1>5. from \in [S -> Nat] /\ upto \in [S -> Nat]
  BY <1>1, <1>3
<1>6. \A i \in S : from[i] <= upto[i] /\ upto[i] <= bound
  BY <1>1, <1>2, <1>3 DEF Ordered, rows
<1>7. \A i, j \in S : i # j => upto[i] <= from[j] \/ upto[j] <= from[i]
  <2> TAKE i, j \in S
  <2>1. i \in DOMAIN rows /\ j \in DOMAIN rows /\ i \in Int /\ j \in Int
    BY <1>1, <1>3
  <2>2. (i < j => upto[i] <= from[j]) /\ (j < i => upto[j] <= from[i])
    BY <1>2, <2>1 DEF Ordered
  <2> QED
    BY <2>1, <2>2
<1>8. [i \in S |-> LengthOf(rows[i])] = [i \in S |-> upto[i] - from[i]]
  BY DEF LengthOf
<1>9. Covered(S, from, upto) =
          {t \in Nat : \E i \in S : rows[i].start_at <= t /\ t < rows[i].end_at}
  BY DEF Covered
<1>10. Downtime(v, e) = SumFunction([i \in S |-> LengthOf(rows[i])])
  BY DEF Downtime, S, DownIn, rows
<1> HIDE DEF from, upto
<1>11. SumFunction([i \in S |-> upto[i] - from[i]]) = Cardinality(Covered(S, from, upto))
  BY <1>4, <1>5, <1>6, <1>7, SumOfIntervals
<1> QED
  BY <1>8, <1>9, <1>10, <1>11 DEF S, rows

LEMMA ObservationsAddUp ==
    ASSUME IInv, NEW v \in VoteAccounts, NEW e, NEW bound \in Nat,
           \A m \in Observed(v) : HoldsUntil(Observed(v), m) <= bound
    PROVE  TimeDown(v, e) =
               Cardinality({t \in Nat : \E m \in DelinquentIn(v, e) :
                               m.created_at <= t /\ t < HoldsUntil(Observed(v), m)})
<1> DEFINE seen == Observed(v)
           S == DelinquentIn(v, e)
           from == [m \in S |-> m.created_at]
           upto == [m \in S |-> HoldsUntil(seen, m)]
<1>1. seen \in SUBSET Snapshot /\ S \subseteq seen /\ seen \subseteq snapshots
  BY ObservedTyped DEF DelinquentIn, Delinquent, Observed
<1>2. /\ \A m \in S : m.created_at \in Nat /\ HoldsUntil(seen, m) \in Nat
                      /\ m.created_at < HoldsUntil(seen, m) /\ HoldsUntil(seen, m) <= bound
      /\ \A m, n \in S : m.created_at < n.created_at => HoldsUntil(seen, m) <= n.created_at
  BY <1>1, HoldsForSomeTime
<1>3. \A m, n \in S : m # n => m.created_at # n.created_at
  BY <1>1 DEF IInv, SnapshotsDistinct
<1> HIDE DEF S, seen
<1>4. from \in [S -> Nat] /\ upto \in [S -> Nat]
  BY <1>2
<1>5. IsFiniteSet(S)
  <2>1. from \in Injection(S, 0..bound)
    <3>1. \A m \in S : m.created_at \in 0..bound
      BY <1>2
    <3> QED
      BY <1>3, <3>1 DEF Injection, IsInjective
  <2>2. IsFiniteSet(0..bound)
    BY FS_Interval
  <2> HIDE DEF from
  <2> QED
    BY <2>1, <2>2, FS_Injection
<1>6. \A m \in S : from[m] <= upto[m] /\ upto[m] <= bound
  BY <1>2
<1>7. \A m, n \in S : m # n => upto[m] <= from[n] \/ upto[n] <= from[m]
  <2> TAKE m, n \in S
  <2>1. /\ m # n => m.created_at # n.created_at
        /\ m.created_at \in Nat /\ n.created_at \in Nat
        /\ m.created_at < n.created_at => upto[m] <= from[n]
        /\ n.created_at < m.created_at => upto[n] <= from[m]
    BY <1>2, <1>3
  <2> QED
    BY <2>1
<1>8. [m \in S |-> HoldsUntil(seen, m) - m.created_at] = [m \in S |-> upto[m] - from[m]]
  OBVIOUS
<1>9. Covered(S, from, upto) =
          {t \in Nat : \E m \in S : m.created_at <= t /\ t < HoldsUntil(seen, m)}
  BY DEF Covered
<1>10. TimeDown(v, e) = SumFunction([m \in S |-> HoldsUntil(seen, m) - m.created_at])
  BY DEF TimeDown, S, DelinquentIn, seen
<1> HIDE DEF from, upto
<1>11. SumFunction([m \in S |-> upto[m] - from[m]]) = Cardinality(Covered(S, from, upto))
  BY <1>4, <1>5, <1>6, <1>7, SumOfIntervals
<1> QED
  BY <1>8, <1>9, <1>10, <1>11 DEF S, seen

(* The downtime of an epoch is the time for which delinquent observations  *)
(* of the epoch hold, while no failed command is left out.                 *)
THEOREM DowntimeAddsUp == Spec => []DowntimeIsTimeDown
<1>1. ASSUME IInv, TellsUnlessSkipped, Settled, NEW v \in VoteAccounts, NEW e \in Epochs
      PROVE  Downtime(v, e) = TimeDown(v, e)
  <2>1. PICK bound \in Nat :
            /\ \A i \in DOMAIN uptimes[v] : uptimes[v][i].end_at <= bound
            /\ \A m \in Observed(v) : HoldsUntil(Observed(v), m) <= bound
    BY <1>1, AllEnd
  <2>2. {t \in Nat : \E i \in DownIn(v, e) :
             uptimes[v][i].start_at <= t /\ t < uptimes[v][i].end_at}
        = {t \in Nat : \E m \in DelinquentIn(v, e) :
             m.created_at <= t /\ t < HoldsUntil(Observed(v), m)}
    BY <1>1, SameTimeCovered
  <2> QED
    BY <1>1, <2>1, <2>2, RowsAddUp, ObservationsAddUp
<1>2. IInv /\ TellsUnlessSkipped => DowntimeIsTimeDown
  BY <1>1 DEF DowntimeIsTimeDown
<1> QED
  BY <1>2, Invariant, RowsAlwaysTell, PTL

=============================================================================
