-------------------------- MODULE ValidatorsEvents --------------------------
(***************************************************************************)
(* The `validators_events` table: settlements of protected staking rewards *)
(* (collect and store validators-events, and the events page of the API).  *)
(* A settlement of an epoch appears in BigQuery once the epoch is over and *)
(* its amount changes while it can be claimed, so each run of the job asks *)
(* for a whole window of epochs again and upserts what it gets.            *)
(*                                                                         *)
(* The clock is the epoch of the chain: timestamps are epochs.             *)
(***************************************************************************)
EXTENDS Integers, FiniteSets

CONSTANTS
    VoteAccounts,
    Reasons,      \* a reason and the meta that comes with it
    Jobs,         \* runs of the job that may be active at once
    EpochsBack,   \* --epochs-back, 10 unless given
    FromEpochs,   \* what a manual backfill may give as --from-epoch
    ClaimWindow,  \* amounts of an epoch change this many epochs after it
    MaxAmount,    \* bounds the amounts
    MaxEpoch,     \* bounds the epochs
    Performed     \* <<e, v>> for which the validators table will have a row

ASSUME EventsAssumption ==
    /\ EpochsBack \in Nat
    /\ FromEpochs \subseteq Nat
    /\ ClaimWindow \in Nat
    /\ MaxAmount \in Nat
    /\ MaxEpoch \in Nat

VARIABLES
    epoch,        \* the epoch of the chain
    settlements,  \* psr_settlements of BigQuery, summed: key -> amount, 0 if none
    events,       \* the validators_events table: key -> row
    job,          \* job[j]: where run j of the job stands
    due,          \* epochs that were asked for late enough, and stored (history)
    overlapped    \* whether two runs were ever active at once (history)

vars == <<epoch, settlements, events, job, due, overlapped>>

Epochs == 0..MaxEpoch

(* UNIQUE(epoch, vote_account, reason, meta) *)
Key == [epoch : Epochs, vote_account : VoteAccounts, reason : Reasons]

NoRow == [amount |-> 0, updated_at |-> 0]

Event == [amount : Nat, updated_at : Nat]

Idle == [step |-> "idle"]

Started == [step : {"epoch_info"}, created_at : Nat, from_epoch : FromEpochs \cup {-1}]

Querying == [step : {"query"}, created_at : Nat, from : Nat]

Storing == [step : {"store"}, created_at : Nat, from : Nat,
            amounts : [Key -> Nat], left : SUBSET Key]

(* The last epoch in which amounts of epoch e change.                      *)
ClaimsOver(e) == e + ClaimWindow

-----------------------------------------------------------------------------
Init ==
    /\ epoch = 0
    /\ settlements = [k \in Key |-> 0]
    /\ events = [k \in Key |-> NoRow]
    /\ job = [j \in Jobs |-> Idle]
    /\ due = {}
    /\ overlapped = FALSE

Tick ==
    /\ epoch < MaxEpoch
    /\ epoch' = epoch + 1
    /\ UNCHANGED <<settlements, events, job, due, overlapped>>

(* Settlements of an epoch are generated and claimed after it.             *)
Settle(k, amount) ==
    /\ k.epoch < epoch
    /\ epoch <= ClaimsOver(k.epoch)
    /\ settlements' = [settlements EXCEPT ![k] = amount]
    /\ UNCHANGED <<epoch, events, job, due, overlapped>>

(* collect validators-events starts; -1 is no --from-epoch.                *)
Start(j, from_epoch) ==
    /\ job[j] = Idle
    /\ job' = [job EXCEPT ![j] =
                  [step |-> "epoch_info", created_at |-> epoch, from_epoch |-> from_epoch]]
    /\ overlapped' = (overlapped \/ \E i \in Jobs : job[i] # Idle)
    /\ UNCHANGED <<epoch, settlements, events, due>>

(* Faulty variant: a subtraction that goes below zero.                     *)
PlainSub(a, b) == a - b

SaturatingSub(a, b) == IF a >= b THEN a - b ELSE 0

GetEpochInfo(j) ==
    /\ job[j].step = "epoch_info"
    /\ job' = [job EXCEPT ![j] =
                  [step |-> "query",
                   created_at |-> job[j].created_at,
                   from |-> IF job[j].from_epoch = -1
                            THEN SaturatingSub(epoch, EpochsBack)
                            ELSE job[j].from_epoch]]
    /\ UNCHANGED <<epoch, settlements, events, due, overlapped>>

(* Faulty variant: the lower bound is left out of the window.              *)
WindowAfter(from) == {k \in Key : k.epoch > from /\ settlements[k] > 0}

(* WHERE epoch >= {from_epoch} GROUP BY epoch, vote_account, reason, meta   *)
Window(from) == {k \in Key : k.epoch >= from /\ settlements[k] > 0}

Sums(keys) == [k \in Key |-> IF k \in keys THEN settlements[k] ELSE 0]

QuerySettlements(j) ==
    /\ job[j].step = "query"
    /\ job' = [job EXCEPT ![j] =
                  [step |-> "store",
                   created_at |-> job[j].created_at,
                   from |-> job[j].from,
                   amounts |-> Sums(Window(job[j].from)),
                   left |-> Window(job[j].from)]]
    /\ UNCHANGED <<epoch, settlements, events, due, overlapped>>

(* Faulty variant: ON CONFLICT DO NOTHING.                                 *)
InsertOnly(j) ==
    /\ job[j].step = "store"
    /\ \E k \in job[j].left :
        /\ \A other \in job[j].left : other.epoch <= k.epoch
        /\ events' = IF events[k] = NoRow
                     THEN [events EXCEPT ![k] = [amount |-> job[j].amounts[k],
                                                 updated_at |-> job[j].created_at]]
                     ELSE events
        /\ job' = [job EXCEPT ![j].left = @ \ {k}]
    /\ UNCHANGED <<epoch, settlements, due, overlapped>>

(* Faulty variant: rows are stamped when they are written.                 *)
UpsertStampedNow(j) ==
    /\ job[j].step = "store"
    /\ \E k \in job[j].left :
        /\ \A other \in job[j].left : other.epoch <= k.epoch
        /\ events' = [events EXCEPT ![k] = [amount |-> job[j].amounts[k],
                                            updated_at |-> epoch]]
        /\ job' = [job EXCEPT ![j].left = @ \ {k}]
    /\ UNCHANGED <<epoch, settlements, due, overlapped>>

(* One chunk, in the order of the answer (ORDER BY epoch DESC).            *)
UpsertChunk(j) ==
    /\ job[j].step = "store"
    /\ \E k \in job[j].left :
        /\ \A other \in job[j].left : other.epoch <= k.epoch
        /\ events' = [events EXCEPT ![k] = [amount |-> job[j].amounts[k],
                                            updated_at |-> job[j].created_at]]
        /\ job' = [job EXCEPT ![j].left = @ \ {k}]
    /\ UNCHANGED <<epoch, settlements, due, overlapped>>

Complete(j) ==
    /\ job[j].step = "store"
    /\ job[j].left = {}
    /\ due' = due \cup {e \in Epochs : job[j].from <= e /\ job[j].created_at > ClaimsOver(e)}
    /\ job' = [job EXCEPT ![j] = Idle]
    /\ UNCHANGED <<epoch, settlements, events, overlapped>>

(* A request or a statement fails, or the process dies.                    *)
Crash(j) ==
    /\ job[j] # Idle
    /\ job' = [job EXCEPT ![j] = Idle]
    /\ UNCHANGED <<epoch, settlements, events, due, overlapped>>

Next ==
    \/ Tick
    \/ \E k \in Key, amount \in 1..MaxAmount : Settle(k, amount)
    \/ \E j \in Jobs :
        \/ \E from_epoch \in FromEpochs \cup {-1} : Start(j, from_epoch)
        \/ GetEpochInfo(j)
        \/ QuerySettlements(j)
        \/ UpsertChunk(j)
        \/ Complete(j)
        \/ Crash(j)

Spec == Init /\ [][Next]_vars

-----------------------------------------------------------------------------
(* The events page *)

Settled(v, from) == {k \in Key : k.vote_account = v /\ k.epoch >= from /\ events[k] # NoRow}

PerformedIn(v, from) == {e \in 0..epoch : e >= from /\ <<e, v>> \in Performed}

SettlementsOf(v, from, e) ==
    {[reason |-> k.reason, amount |-> events[k].amount] :
        k \in {s \in Settled(v, from) : s.epoch = e}}

(* Faulty variant: only epochs in which the validator was stored.          *)
PageOfPerformance(v, from) ==
    [e \in PerformedIn(v, from) |->
        [performance |-> TRUE, settlements |-> SettlementsOf(v, from, e)]]

(* get_events_with_context: epochs with performance, with settlements, or  *)
(* with both.                                                              *)
EventsPage(v, from) ==
    [e \in PerformedIn(v, from) \cup {k.epoch : k \in Settled(v, from)} |->
        [performance |-> e \in PerformedIn(v, from),
         settlements |-> SettlementsOf(v, from, e)]]

-----------------------------------------------------------------------------
(* Properties *)

(* Every variable holds a value of its kind; a row is stamped with a time  *)
(* that has come (collect and store validators_events.rs).                 *)
TypeOK ==
    /\ epoch \in Epochs
    /\ settlements \in [Key -> 0..MaxAmount]
    /\ events \in [Key -> Event]
    /\ \A k \in Key : events[k].updated_at <= epoch
    /\ job \in [Jobs -> {Idle} \cup Started \cup Querying \cup Storing]
    /\ due \subseteq Epochs
    /\ overlapped \in BOOLEAN

(* updated_at can be relied upon: a row that is stamped later than the     *)
(* claims of its epoch has the amount they came to, although requests take *)
(* their time, chunks of an interrupted run are stored and others are not, *)
(* and runs of the cron and of a backfill overlap.                         *)
RecentIsRight ==
    \A k \in Key :
        events[k].updated_at > ClaimsOver(k.epoch) => events[k].amount = settlements[k]

(* What the window promises (collect/README.md): once a run has been       *)
(* completed that started after the claims of epoch e were over and whose  *)
(* window includes e, the events page shows every settlement of e with its *)
(* amount and no other, whatever interrupted runs left and will leave      *)
(* behind, and whether or not the validator was stored in e.  Runs must    *)
(* not overlap: nothing keeps a slow run from storing old amounts over     *)
(* newer ones.                                                             *)
FinalAmountsServed ==
    ~overlapped =>
        \A e \in due, v \in VoteAccounts : \A from \in 0..e :
            LET final == {k \in Key : k.epoch = e /\ k.vote_account = v /\ settlements[k] > 0}
                page == EventsPage(v, from)
            IN /\ final # {} => e \in DOMAIN page
               /\ e \in DOMAIN page =>
                      page[e].settlements =
                          {[reason |-> k.reason, amount |-> settlements[k]] : k \in final}

=============================================================================
