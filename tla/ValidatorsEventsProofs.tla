----------------------- MODULE ValidatorsEventsProofs -----------------------
(***************************************************************************)
(* Proofs about ValidatorsEvents, for any number of runs of the job, any   *)
(* windows and any claim window.                                           *)
(***************************************************************************)
EXTENDS ValidatorsEvents, TLAPS

(* A settlement never disappears, and only settlements have rows.          *)
RowsSettled == \A k \in Key : settlements[k] = 0 => events[k] = NoRow

StartedInPast == \A j \in Jobs : job[j] # Idle => job[j].created_at <= epoch

(* What a run got from BigQuery is still right for the epochs whose claims *)
(* were over when it started.                                              *)
AnswerRight(j, k) ==
    /\ k \in job[j].left => k.epoch >= job[j].from /\ job[j].amounts[k] > 0
    /\ job[j].amounts[k] > 0 => settlements[k] > 0
    /\ k.epoch >= job[j].from /\ job[j].created_at > ClaimsOver(k.epoch)
       => job[j].amounts[k] = settlements[k]

AnswersRight == \A j \in Jobs : job[j].step = "store" => \A k \in Key : AnswerRight(j, k)

OneActive ==
    ~overlapped => \A i, j \in Jobs : job[i] # Idle /\ job[j] # Idle => i = j

DueAreOver == \A e \in due : epoch > ClaimsOver(e)

(* A run that is active started after the epochs that are due were stored. *)
DueBeforeActive ==
    ~overlapped => \A e \in due : \A j \in Jobs :
        job[j] # Idle => job[j].created_at > ClaimsOver(e)

StoredSoFar ==
    ~overlapped => \A j \in Jobs : job[j].step = "store" =>
        \A k \in Key : k.epoch >= job[j].from /\ job[j].amounts[k] > 0 /\ k \notin job[j].left
                       => events[k].amount = job[j].amounts[k]

DueRight ==
    ~overlapped => \A k \in Key : k.epoch \in due => events[k].amount = settlements[k]

IInv ==
    /\ TypeOK
    /\ RecentIsRight
    /\ RowsSettled
    /\ StartedInPast
    /\ AnswersRight
    /\ OneActive
    /\ DueAreOver
    /\ DueBeforeActive
    /\ StoredSoFar
    /\ DueRight

-----------------------------------------------------------------------------
(* What a run holds at each step.                                          *)
LEMMA JobTyped ==
    ASSUME TypeOK, NEW j \in Jobs
    PROVE  /\ job[j] # Idle => job[j].created_at \in Nat
           /\ job[j].step = "epoch_info" => job[j] \in Started
           /\ job[j].step = "query" => job[j] \in Querying
           /\ job[j].step = "store" => job[j] \in Storing
           /\ job[j].step = "idle" => job[j] = Idle
BY DEF TypeOK, Idle, Started, Querying, Storing

LEMMA KeyTyped == ASSUME NEW k \in Key
                  PROVE  k.epoch \in Epochs /\ k.vote_account \in VoteAccounts
BY DEF Key

LEMMA ClockTyped == MaxEpoch \in Nat /\ ClaimWindow \in Nat /\ EpochsBack \in Nat /\ MaxAmount \in Nat
BY EventsAssumption DEF EventsAssumption

LEMMA InitIInv == Init => IInv
<1> SUFFICES ASSUME Init PROVE IInv
  OBVIOUS
<1>1. TypeOK
  <2>1. epoch \in Epochs /\ settlements \in [Key -> 0..MaxAmount]
    BY ClockTyped DEF Init, Epochs
  <2>2. events \in [Key -> Event] /\ \A k \in Key : events[k].updated_at <= epoch
    BY DEF Init, Event, NoRow
  <2>3. job \in [Jobs -> {Idle} \cup Started \cup Querying \cup Storing]
    BY DEF Init
  <2>4. due \subseteq Epochs /\ overlapped \in BOOLEAN
    BY DEF Init
  <2> QED
    BY <2>1, <2>2, <2>3, <2>4 DEF TypeOK
<1>2. \A j \in Jobs : job[j] = Idle /\ job[j].step = "idle"
  BY DEF Init, Idle
<1>3. RecentIsRight
  BY ClockTyped, KeyTyped DEF Init, RecentIsRight, NoRow, ClaimsOver, Epochs
<1>4. RowsSettled /\ DueRight
  BY DEF Init, RowsSettled, DueRight
<1> QED
  BY <1>1, <1>2, <1>3, <1>4 DEF Init, IInv, StartedInPast, AnswersRight, OneActive, DueAreOver,
     DueBeforeActive, StoredSoFar

(* The claims of an epoch that are over stay over.                         *)
LEMMA TickIInv == IInv /\ Tick => IInv'
<1> SUFFICES ASSUME IInv, Tick PROVE IInv'
  OBVIOUS
<1> USE DEF IInv, Tick
<1>1. TypeOK'
  BY ClockTyped DEF TypeOK, Epochs, Event
<1>2. RecentIsRight' /\ RowsSettled'
  BY DEF RecentIsRight, RowsSettled
<1>3. StartedInPast'
  BY JobTyped, ClockTyped DEF StartedInPast, TypeOK, Epochs
<1>4. AnswersRight'
  BY DEF AnswersRight, AnswerRight
<1>5. DueAreOver'
  BY ClockTyped DEF DueAreOver, TypeOK, Epochs, ClaimsOver
<1>6. OneActive' /\ DueBeforeActive' /\ StoredSoFar' /\ DueRight'
  BY DEF OneActive, DueBeforeActive, StoredSoFar, DueRight
<1> QED
  BY <1>1, <1>2, <1>3, <1>4, <1>5, <1>6

(* An amount changes only while its epoch can be claimed, before anything  *)
(* relies on it.                                                           *)
LEMMA SettleIInv ==
    ASSUME IInv, NEW s \in Key, NEW amount \in 1..MaxAmount, Settle(s, amount)
    PROVE  IInv'
<1> USE DEF IInv, Settle
<1>0. /\ epoch \in Nat /\ s.epoch \in Nat /\ ClaimWindow \in Nat /\ amount \in Nat /\ amount > 0
      /\ \A k \in Key : k.epoch \in Nat
  BY ClockTyped, KeyTyped DEF TypeOK, Epochs
<1>1. TypeOK'
  BY <1>0, ClockTyped DEF TypeOK
<1>t. \A k \in Key : settlements'[k] = IF k = s THEN amount ELSE settlements[k]
  BY DEF TypeOK
<1>2. RecentIsRight'
  <2> SUFFICES ASSUME NEW k \in Key, events[k].updated_at > ClaimsOver(k.epoch)
               PROVE  events[k].amount = settlements'[k]
    BY DEF RecentIsRight
  <2>1. CASE k = s
    <3>1. events[k].updated_at <= epoch /\ events[k].updated_at \in Nat
      BY DEF TypeOK, Event
    <3> QED
      BY <2>1, <3>1, <1>0 DEF ClaimsOver
  <2>2. CASE k # s
    BY <2>2, <1>t DEF RecentIsRight
  <2> QED
    BY <2>1, <2>2
<1>3. RowsSettled'
  BY <1>t, <1>0 DEF RowsSettled
<1>4. AnswersRight'
  <2> SUFFICES ASSUME NEW j \in Jobs, job[j].step = "store", NEW k \in Key
               PROVE  AnswerRight(j, k)'
    BY DEF AnswersRight
  <2>0. AnswerRight(j, k) /\ job[j] \in Storing /\ job[j].created_at <= epoch
    BY JobTyped DEF AnswersRight, StartedInPast, Idle
  <2>1. CASE k = s
    <3>1. ~(job[j].created_at > ClaimsOver(k.epoch))
      BY <2>0, <2>1, <1>0 DEF ClaimsOver, Storing
    <3> QED
      BY <2>0, <2>1, <3>1, <1>0, <1>t DEF AnswerRight
  <2>2. CASE k # s
    BY <2>0, <2>2, <1>t DEF AnswerRight
  <2> QED
    BY <2>1, <2>2
<1>5. DueRight'
  <2> SUFFICES ASSUME ~overlapped, NEW k \in Key, k.epoch \in due
               PROVE  events[k].amount = settlements'[k]
    BY DEF DueRight
  <2>1. k # s
    BY <1>0 DEF DueAreOver, ClaimsOver
  <2> QED
    BY <2>1, <1>t DEF DueRight
<1>6. StartedInPast' /\ OneActive' /\ DueAreOver' /\ DueBeforeActive' /\ StoredSoFar'
  BY DEF StartedInPast, OneActive, DueAreOver, DueBeforeActive, StoredSoFar
<1> QED
  BY <1>1, <1>2, <1>3, <1>4, <1>5, <1>6

(* Steps that only move a run on, to a state in which it stores nothing.   *)
LEMMA MovesOn ==
    ASSUME IInv, NEW j \in Jobs, TypeOK',
           UNCHANGED <<epoch, settlements, events, due>>,
           \A i \in Jobs : i # j => job'[i] = job[i],
           job'[j].step # "store",
           job'[j] # Idle => job'[j].created_at <= epoch,
           overlapped => overlapped',
           ~overlapped' => /\ \A i \in Jobs : job'[i] # Idle /\ job'[j] # Idle => i = j
                           /\ \A e \in due : job'[j] # Idle => job'[j].created_at > ClaimsOver(e)
    PROVE  IInv'
<1> USE DEF IInv
<1>1. RecentIsRight' /\ RowsSettled' /\ DueAreOver'
  BY DEF RecentIsRight, RowsSettled, DueAreOver
<1>2. StartedInPast'
  BY DEF StartedInPast
<1>3. AnswersRight'
  <2> SUFFICES ASSUME NEW i \in Jobs, job'[i].step = "store", NEW k \in Key
               PROVE  AnswerRight(i, k)'
    BY DEF AnswersRight
  <2> QED
    BY DEF AnswersRight, AnswerRight
<1>4. OneActive' /\ DueBeforeActive'
  BY DEF OneActive, DueBeforeActive
<1>5. StoredSoFar' /\ DueRight'
  BY DEF StoredSoFar, DueRight
<1> QED
  BY <1>1, <1>2, <1>3, <1>4, <1>5

LEMMA StartIInv ==
    ASSUME IInv, NEW j \in Jobs, NEW from_epoch \in FromEpochs \cup {-1}, Start(j, from_epoch)
    PROVE  IInv'
<1> USE DEF IInv
<1>1. /\ job'[j] = [step |-> "epoch_info", created_at |-> epoch, from_epoch |-> from_epoch]
      /\ \A i \in Jobs : i # j => job'[i] = job[i]
  BY DEF Start, TypeOK
<1>2. epoch \in Nat
  BY ClockTyped DEF TypeOK, Epochs
<1>3. TypeOK'
  BY <1>2 DEF TypeOK, Start, Started
<1>4. ~overlapped' => \A i \in Jobs : job'[i] # Idle => i = j
  BY <1>1 DEF Start
<1>5. \A e \in due : job'[j].created_at > ClaimsOver(e)
  BY <1>1 DEF DueAreOver
<1>6. UNCHANGED <<epoch, settlements, events, due>> /\ (overlapped => overlapped')
  BY DEF Start
<1>7. job'[j].step # "store" /\ job'[j].created_at <= epoch
  BY <1>1, <1>2
<1> QED
  BY <1>1, <1>3, <1>4, <1>5, <1>6, <1>7, MovesOn

LEMMA GetEpochInfoIInv == ASSUME IInv, NEW j \in Jobs, GetEpochInfo(j) PROVE IInv'
<1> USE DEF IInv
<1>1. job[j] \in Started /\ job[j] # Idle
  BY JobTyped DEF GetEpochInfo, Idle
<1>2. /\ job'[j].step = "query" /\ job'[j].created_at = job[j].created_at
      /\ \A i \in Jobs : i # j => job'[i] = job[i]
  BY DEF GetEpochInfo, TypeOK
<1>3. TypeOK'
  <2>1. \A a, b \in Nat : SaturatingSub(a, b) \in Nat
    BY DEF SaturatingSub
  <2>2. epoch \in Nat /\ EpochsBack \in Nat
    BY ClockTyped DEF TypeOK, Epochs
  <2>3. job[j].from_epoch # -1 => job[j].from_epoch \in Nat
    BY <1>1, EventsAssumption DEF Started, EventsAssumption
  <2>4. job'[j] \in Querying
    BY <1>1, <2>1, <2>2, <2>3 DEF GetEpochInfo, TypeOK, Querying, Started
  <2> QED
    BY <2>4 DEF TypeOK, GetEpochInfo
<1>4. ~overlapped => /\ \A i \in Jobs : job[i] # Idle => i = j
                     /\ \A e \in due : job[j].created_at > ClaimsOver(e)
  BY <1>1 DEF OneActive, DueBeforeActive
<1> QED
  BY <1>1, <1>2, <1>3, <1>4, MovesOn DEF GetEpochInfo, StartedInPast

LEMMA CrashIInv == ASSUME IInv, NEW j \in Jobs, Crash(j) PROVE IInv'
<1> USE DEF IInv
<1>1. job'[j] = Idle /\ \A i \in Jobs : i # j => job'[i] = job[i]
  BY DEF Crash, TypeOK
<1>2. TypeOK'
  BY DEF Crash, TypeOK
<1> QED
  BY <1>1, <1>2, MovesOn DEF Crash, Idle

(* The answer holds every settlement of the window, as it is now.          *)
LEMMA QuerySettlementsIInv == ASSUME IInv, NEW j \in Jobs, QuerySettlements(j) PROVE IInv'
<1> USE DEF IInv
<1>1. job[j] \in Querying /\ job[j] # Idle
  BY JobTyped DEF QuerySettlements, Idle
<1>2. /\ job'[j].step = "store" /\ job'[j].created_at = job[j].created_at
      /\ job'[j].from = job[j].from
      /\ job'[j].left = Window(job[j].from)
      /\ job'[j].amounts = Sums(Window(job[j].from))
      /\ \A i \in Jobs : i # j => job'[i] = job[i]
  BY DEF QuerySettlements, TypeOK
<1>3. \A k \in Key : settlements[k] \in Nat
  BY ClockTyped DEF TypeOK
<1>4. TypeOK'
  <2>1. Sums(Window(job[j].from)) \in [Key -> Nat] /\ Window(job[j].from) \in SUBSET Key
    BY <1>3 DEF Sums, Window
  <2>2. job'[j] \in Storing
    BY <1>1, <2>1 DEF QuerySettlements, TypeOK, Querying, Storing
  <2> QED
    BY <2>2 DEF TypeOK, QuerySettlements
<1>5. \A k \in Key : AnswerRight(j, k)' /\ (job'[j].amounts[k] > 0 /\ k.epoch >= job[j].from => k \in job'[j].left)
  <2> SUFFICES ASSUME NEW k \in Key
               PROVE  /\ AnswerRight(j, k)'
                      /\ job'[j].amounts[k] > 0 /\ k.epoch >= job[j].from => k \in job'[j].left
    OBVIOUS
  <2>1. job'[j].amounts[k] = IF k \in Window(job[j].from) THEN settlements[k] ELSE 0
    BY <1>2 DEF Sums
  <2>2. k \in Window(job[j].from) <=> k.epoch >= job[j].from /\ settlements[k] > 0
    BY DEF Window
  <2>3. settlements' = settlements
    BY DEF QuerySettlements
  <2> QED
    BY <2>1, <2>2, <2>3, <1>2, <1>3 DEF AnswerRight
<1>6. AnswersRight'
  <2> SUFFICES ASSUME NEW i \in Jobs, job'[i].step = "store", NEW k \in Key
               PROVE  AnswerRight(i, k)'
    BY DEF AnswersRight
  <2>1. CASE i = j
    BY <2>1, <1>5
  <2>2. CASE i # j
    BY <2>2, <1>2 DEF AnswersRight, AnswerRight, QuerySettlements
  <2> QED
    BY <2>1, <2>2
<1>7. StoredSoFar'
  <2> SUFFICES ASSUME ~overlapped, NEW i \in Jobs, job'[i].step = "store", NEW k \in Key,
                      k.epoch >= job'[i].from, job'[i].amounts[k] > 0, k \notin job'[i].left
               PROVE  events[k].amount = job'[i].amounts[k]
    BY DEF StoredSoFar, QuerySettlements
  <2>1. i # j
    BY <1>2, <1>5
  <2> QED
    BY <2>1, <1>2 DEF StoredSoFar
<1>8. StartedInPast' /\ OneActive' /\ DueBeforeActive'
  BY <1>1, <1>2 DEF StartedInPast, OneActive, DueBeforeActive, QuerySettlements
<1>9. RecentIsRight' /\ RowsSettled' /\ DueAreOver' /\ DueRight'
  BY DEF RecentIsRight, RowsSettled, DueAreOver, DueRight, QuerySettlements
<1> QED
  BY <1>4, <1>6, <1>7, <1>8, <1>9

(* A chunk brings rows that are due to the amount they already have.       *)
LEMMA UpsertChunkIInv == ASSUME IInv, NEW j \in Jobs, UpsertChunk(j) PROVE IInv'
<1> USE DEF IInv
<1>1. job[j] \in Storing /\ job[j] # Idle /\ job[j].step = "store"
  BY JobTyped DEF UpsertChunk, Idle
<1>2. PICK s \in job[j].left :
          /\ events' = [events EXCEPT ![s] = [amount |-> job[j].amounts[s],
                                              updated_at |-> job[j].created_at]]
          /\ job' = [job EXCEPT ![j].left = @ \ {s}]
  BY DEF UpsertChunk
<1>3. s \in Key /\ job[j].amounts[s] \in Nat /\ job[j].created_at \in Nat /\ epoch \in Nat
  BY <1>1, ClockTyped DEF Storing, TypeOK, Epochs
<1>4. UNCHANGED <<epoch, settlements, due, overlapped>>
  BY DEF UpsertChunk
<1>5. /\ events'[s].amount = job[j].amounts[s] /\ events'[s].updated_at = job[j].created_at
      /\ \A k \in Key : k # s => events'[k] = events[k]
  BY <1>2, <1>3 DEF TypeOK
<1>6. /\ job'[j].step = "store" /\ job'[j].created_at = job[j].created_at
      /\ job'[j].from = job[j].from /\ job'[j].amounts = job[j].amounts
      /\ job'[j].left = job[j].left \ {s}
      /\ \A i \in Jobs : i # j => job'[i] = job[i]
  BY <1>1, <1>2 DEF TypeOK, Storing
<1>7. job[j].created_at <= epoch
  BY <1>1 DEF StartedInPast
<1>8. AnswerRight(j, s)
  BY <1>1, <1>3 DEF AnswersRight
<1>9. TypeOK'
  <2>1. events' \in [Key -> Event]
    BY <1>2, <1>3 DEF TypeOK, Event
  <2>2. \A k \in Key : events'[k].updated_at <= epoch
    BY <1>5, <1>7 DEF TypeOK
  <2>3. job'[j] \in Storing
    BY <1>1, <1>2 DEF TypeOK, Storing
  <2>4. job' \in [Jobs -> {Idle} \cup Started \cup Querying \cup Storing]
    BY <1>2, <2>3 DEF TypeOK
  <2> QED
    BY <2>1, <2>2, <2>4, <1>4 DEF TypeOK
<1>10. RecentIsRight' /\ RowsSettled'
  BY <1>1, <1>2, <1>4, <1>5, <1>8 DEF RecentIsRight, RowsSettled, AnswerRight
<1>11. AnswersRight'
  <2> SUFFICES ASSUME NEW i \in Jobs, job'[i].step = "store", NEW k \in Key
               PROVE  AnswerRight(i, k)'
    BY DEF AnswersRight
  <2>1. AnswerRight(i, k)
    BY <1>1, <1>6 DEF AnswersRight
  <2> QED
    BY <2>1, <1>4, <1>6 DEF AnswerRight
<1>12. StartedInPast' /\ OneActive' /\ DueBeforeActive' /\ DueAreOver'
  BY <1>1, <1>4, <1>6 DEF StartedInPast, OneActive, DueBeforeActive, DueAreOver
<1>13. StoredSoFar'
  <2> SUFFICES ASSUME ~overlapped, NEW i \in Jobs, job'[i].step = "store", NEW k \in Key,
                      k.epoch >= job'[i].from, job'[i].amounts[k] > 0, k \notin job'[i].left
               PROVE  events'[k].amount = job'[i].amounts[k]
    BY <1>4 DEF StoredSoFar
  <2>1. i = j
    BY <1>1, <1>6 DEF OneActive, Idle
  <2>2. CASE k = s
    BY <2>1, <2>2, <1>5, <1>6
  <2>3. CASE k # s
    BY <2>1, <2>3, <1>1, <1>5, <1>6 DEF StoredSoFar
  <2> QED
    BY <2>2, <2>3
<1>14. DueRight'
  <2> SUFFICES ASSUME ~overlapped, NEW k \in Key, k.epoch \in due
               PROVE  events'[k].amount = settlements[k]
    BY <1>4 DEF DueRight
  <2>1. CASE k = s
    <3>1. job[j].created_at > ClaimsOver(k.epoch)
      BY <1>1 DEF DueBeforeActive
    <3> QED
      BY <2>1, <3>1, <1>5, <1>8 DEF AnswerRight
  <2>2. CASE k # s
    BY <2>2, <1>5 DEF DueRight
  <2> QED
    BY <2>1, <2>2
<1> QED
  BY <1>9, <1>10, <1>11, <1>12, <1>13, <1>14

(* The epochs that become due have the amounts the run brought, which are  *)
(* final.                                                                  *)
LEMMA CompleteIInv == ASSUME IInv, NEW j \in Jobs, Complete(j) PROVE IInv'
<1> USE DEF IInv
<1>1. job[j] \in Storing /\ job[j] # Idle /\ job[j].step = "store"
  BY JobTyped DEF Complete, Idle
<1>2. job'[j] = Idle /\ \A i \in Jobs : i # j => job'[i] = job[i]
  BY DEF Complete, TypeOK
<1>3. UNCHANGED <<epoch, settlements, events, overlapped>>
  BY DEF Complete
<1>4. \A e \in due' : \/ e \in due
                      \/ e \in Epochs /\ job[j].from <= e /\ job[j].created_at > ClaimsOver(e)
  BY DEF Complete
<1>5. job[j].created_at \in Nat /\ job[j].created_at <= epoch /\ epoch \in Nat /\ ClaimWindow \in Nat
  BY <1>1, ClockTyped DEF StartedInPast, Storing, TypeOK, Epochs
<1>6. TypeOK'
  BY <1>2, <1>3 DEF Complete, TypeOK
<1>7. RecentIsRight' /\ RowsSettled'
  BY <1>3 DEF RecentIsRight, RowsSettled
<1>8. StartedInPast' /\ OneActive'
  BY <1>2, <1>3 DEF StartedInPast, OneActive
<1>9. AnswersRight'
  <2> SUFFICES ASSUME NEW i \in Jobs, job'[i].step = "store", NEW k \in Key
               PROVE  AnswerRight(i, k)'
    BY DEF AnswersRight
  <2> QED
    BY <1>2, <1>3 DEF AnswersRight, AnswerRight, Idle
<1>10. DueAreOver'
  <2> SUFFICES ASSUME NEW e \in due' PROVE epoch > ClaimsOver(e)
    BY <1>3 DEF DueAreOver
  <2>1. CASE e \in due
    BY <2>1 DEF DueAreOver
  <2>2. CASE e \in Epochs /\ job[j].created_at > ClaimsOver(e)
    BY <2>2, <1>5, ClockTyped DEF ClaimsOver, Epochs
  <2> QED
    BY <2>1, <2>2, <1>4
<1>11. DueBeforeActive'
  BY <1>1, <1>2, <1>3 DEF OneActive, DueBeforeActive
<1>12. StoredSoFar'
  BY <1>2, <1>3 DEF StoredSoFar, Idle
<1>13. DueRight'
  <2> SUFFICES ASSUME ~overlapped, NEW k \in Key, k.epoch \in due'
               PROVE  events[k].amount = settlements[k]
    BY <1>3 DEF DueRight
  <2>1. CASE k.epoch \in due
    BY <2>1 DEF DueRight
  <2>2. CASE job[j].from <= k.epoch /\ job[j].created_at > ClaimsOver(k.epoch)
    <3>1. job[j].amounts[k] = settlements[k]
      <4>1. AnswerRight(j, k) /\ k.epoch \in Nat /\ job[j].from \in Nat
        BY <1>1, ClockTyped, KeyTyped DEF AnswersRight, Epochs, Storing
      <4> QED
        BY <2>2, <4>1 DEF AnswerRight
    <3>2. CASE job[j].amounts[k] > 0
      <4>1. k \notin job[j].left /\ k.epoch \in Nat /\ job[j].from \in Nat
        BY <1>1, ClockTyped, KeyTyped DEF Complete, Epochs, Storing
      <4> QED
        BY <2>2, <3>1, <3>2, <4>1, <1>1 DEF StoredSoFar
    <3>3. CASE ~(job[j].amounts[k] > 0)
      <4>1. job[j].amounts[k] = 0
        BY <3>3, <1>1 DEF Storing
      <4>2. events[k] = NoRow
        BY <3>1, <4>1 DEF RowsSettled
      <4>3. NoRow.amount = 0
        BY DEF NoRow
      <4> QED
        BY <3>1, <4>1, <4>2, <4>3
    <3> QED
      BY <3>2, <3>3
  <2> QED
    BY <2>1, <2>2, <1>4
<1> QED
  BY <1>6, <1>7, <1>8, <1>9, <1>10, <1>11, <1>12, <1>13

LEMMA NextIInv == IInv /\ [Next]_vars => IInv'
<1> SUFFICES ASSUME IInv, [Next]_vars PROVE IInv'
  OBVIOUS
<1>1. CASE Tick
  BY <1>1, TickIInv
<1>2. ASSUME NEW s \in Key, NEW amount \in 1..MaxAmount, Settle(s, amount) PROVE IInv'
  BY <1>2, SettleIInv
<1>3. ASSUME NEW j \in Jobs, NEW from_epoch \in FromEpochs \cup {-1}, Start(j, from_epoch)
      PROVE  IInv'
  BY <1>3, StartIInv
<1>4. ASSUME NEW j \in Jobs, GetEpochInfo(j) PROVE IInv'
  BY <1>4, GetEpochInfoIInv
<1>5. ASSUME NEW j \in Jobs, QuerySettlements(j) PROVE IInv'
  BY <1>5, QuerySettlementsIInv
<1>6. ASSUME NEW j \in Jobs, UpsertChunk(j) PROVE IInv'
  BY <1>6, UpsertChunkIInv
<1>7. ASSUME NEW j \in Jobs, Complete(j) PROVE IInv'
  BY <1>7, CompleteIInv
<1>8. ASSUME NEW j \in Jobs, Crash(j) PROVE IInv'
  BY <1>8, CrashIInv
<1>9. CASE UNCHANGED vars
  BY <1>9 DEF vars, IInv, TypeOK, RecentIsRight, RowsSettled, StartedInPast, AnswersRight,
     AnswerRight, OneActive, DueAreOver, DueBeforeActive, StoredSoFar, DueRight
<1> QED
  BY <1>1, <1>2, <1>3, <1>4, <1>5, <1>6, <1>7, <1>8, <1>9 DEF Next

(* The page of an epoch that is due follows from its rows.                 *)
LEMMA DueRowsServed == IInv => FinalAmountsServed
<1> SUFFICES ASSUME IInv, ~overlapped, NEW e \in due, NEW v \in VoteAccounts, NEW from \in 0..e
             PROVE  LET final == {k \in Key : k.epoch = e /\ k.vote_account = v
                                              /\ settlements[k] > 0}
                        page == EventsPage(v, from)
                    IN /\ final # {} => e \in DOMAIN page
                       /\ e \in DOMAIN page =>
                              page[e].settlements =
                                  {[reason |-> k.reason, amount |-> settlements[k]] : k \in final}
  BY DEF FinalAmountsServed
<1> DEFINE final == {k \in Key : k.epoch = e /\ k.vote_account = v /\ settlements[k] > 0}
           shown == {s \in Settled(v, from) : s.epoch = e}
<1>1. e \in Nat /\ from \in Nat /\ from <= e
  BY ClockTyped DEF IInv, TypeOK, Epochs
<1>2. \A k \in Key : k.epoch = e =>
          /\ events[k].amount = settlements[k]
          /\ events[k] # NoRow <=> settlements[k] > 0
  <2> SUFFICES ASSUME NEW k \in Key, k.epoch = e
               PROVE  /\ events[k].amount = settlements[k]
                      /\ events[k] # NoRow <=> settlements[k] > 0
    OBVIOUS
  <2>1. events[k].amount = settlements[k]
    BY DEF IInv, DueRight
  <2>2. settlements[k] \in Nat
    BY ClockTyped DEF IInv, TypeOK
  <2>3. events[k] = NoRow => settlements[k] = 0
    BY <2>1 DEF NoRow
  <2>4. settlements[k] = 0 => events[k] = NoRow
    BY DEF IInv, RowsSettled
  <2> QED
    BY <2>1, <2>2, <2>3, <2>4
<1>3. shown = final
  BY <1>1, <1>2 DEF Settled
<1>4. SettlementsOf(v, from, e) = {[reason |-> k.reason, amount |-> settlements[k]] : k \in final}
  <2>1. \A k \in final : events[k].amount = settlements[k]
    BY <1>2
  <2>2. SettlementsOf(v, from, e) = {[reason |-> k.reason, amount |-> events[k].amount] : k \in final}
    BY <1>3 DEF SettlementsOf
  <2> QED
    BY <2>1, <2>2
<1>5. e \in DOMAIN EventsPage(v, from) => EventsPage(v, from)[e].settlements = SettlementsOf(v, from, e)
  BY DEF EventsPage
<1>6. final # {} => e \in DOMAIN EventsPage(v, from)
  BY <1>3 DEF EventsPage
<1> QED
  BY <1>4, <1>5, <1>6

-----------------------------------------------------------------------------
(* Every state of the job and of the table is of the kind TypeOK says.     *)
THEOREM EventsTypeCorrect == Spec => []TypeOK
<1>1. IInv => TypeOK
  BY DEF IInv
<1> QED
  BY InitIInv, NextIInv, <1>1, PTL DEF Spec

(* Rows stamped after the claims of their epoch are right, with any number *)
(* of runs at once.                                                        *)
THEOREM RecentRowsAreRight == Spec => []RecentIsRight
<1>1. IInv => RecentIsRight
  BY DEF IInv
<1> QED
  BY InitIInv, NextIInv, <1>1, PTL DEF Spec

(* The window keeps its promise, for any length of it and of the claims,   *)
(* as long as runs do not overlap.                                         *)
THEOREM WindowKeepsPromise == Spec => []FinalAmountsServed
<1> QED
  BY InitIInv, NextIInv, DueRowsServed, PTL DEF Spec

=============================================================================
