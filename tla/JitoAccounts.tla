---------------------------- MODULE JitoAccounts ---------------------------
(***************************************************************************)
(* How the tip distribution accounts of Jito get into the table `mev`, and *)
(* the priority fee distribution accounts, in the same way, into           *)
(* `jito_priority_fee`: the job of scripts/check-collect-store-jito.bash,  *)
(*   check    has a new epoch begun, or the execution interval passed?     *)
(*   collect  the accounts of the previous epoch, fetched in two requests: *)
(*            those without a merkle root and those with one               *)
(*   store    updates the rows of known accounts, then inserts the others  *)
(* A validator creates its account during the epoch; Jito uploads the root *)
(* some time after the epoch, also while the job is running.  Each program *)
(* asks the chain for the epoch itself.  The job is started again and      *)
(* again, never twice at once.                                             *)
(*                                                                         *)
(* Slots are counted coarsely, and a chunk of 500 rows is one row.         *)
(***************************************************************************)
EXTENDS Integers, FiniteSetsExt

CONSTANTS
    VoteAccounts,
    MaxEpoch,        \* bound on the epochs
    SlotsInEpoch,
    Interval         \* execution_interval_slots

ASSUME JitoAccountsAssumption ==
    /\ MaxEpoch \in Nat \ {0}
    /\ SlotsInEpoch \in Nat \ {0}
    /\ Interval \in Nat

VARIABLES
    epoch, slot,  \* of the chain
    account,      \* the state of the account of each validator and epoch
    table,        \* mev, or jito_priority_fee
    job           \* the step of the job and what it holds, or Idle

vars == <<epoch, slot, account, table, job>>

-----------------------------------------------------------------------------
EpochId == 0..MaxEpoch

Slot == 0..(SlotsInEpoch - 1)

AccountState == {"absent", "created", "uploaded"}

Row == [epoch : EpochId, vote_account : VoteAccounts, epoch_slot : Slot, root : BOOLEAN]

(* Faulty variant: accounts with a root are fetched first.                 *)
UploadedFirst == <<"uploaded", "created">>

(* The states that the two requests for accounts ask for, in their order   *)
Requests == <<"created", "uploaded">>

NothingFetched == [v \in VoteAccounts |-> "absent"]

(* at_start: the accounts when collect asked for the epoch (history)       *)
Job == [step : {"collect", "fetch", "fetched", "store", "update", "insert"},
        epoch : EpochId,
        epoch_slot : Slot,
        snapshot : [VoteAccounts -> AccountState],
        at_start : [VoteAccounts -> AccountState],
        left : SUBSET VoteAccounts]

Idle == [step |-> "idle", epoch |-> 0, epoch_slot |-> 0,
         snapshot |-> NothingFetched, at_start |-> NothingFetched, left |-> {}]

RowsOf(e) == {r \in table : r.epoch = e}

Init ==
    /\ epoch = 1
    /\ slot = 0
    /\ account = [e \in EpochId |-> NothingFetched]
    /\ table = {}
    /\ job = Idle

-----------------------------------------------------------------------------
(* The chain *)

Tick ==
    /\ IF slot + 1 < SlotsInEpoch
       THEN slot' = slot + 1 /\ UNCHANGED epoch
       ELSE slot' = 0 /\ epoch < MaxEpoch /\ epoch' = epoch + 1
    /\ UNCHANGED <<account, table, job>>

CreateAccount(v) ==
    /\ account[epoch][v] = "absent"
    /\ account' = [account EXCEPT ![epoch][v] = "created"]
    /\ UNCHANGED <<epoch, slot, table, job>>

UploadRoot(e, v) ==
    /\ e < epoch
    /\ account[e][v] = "created"
    /\ account' = [account EXCEPT ![e][v] = "uploaded"]
    /\ UNCHANGED <<epoch, slot, table, job>>

-----------------------------------------------------------------------------
(* check jito-mev, check jito-priority *)

LastEpoch == Max({r.epoch : r \in table})

(* Faulty variant: MIN(epoch_slot).                                        *)
FirstEpochSlot == Min({r.epoch_slot : r \in RowsOf(LastEpoch)})

LastEpochSlot == Max({r.epoch_slot : r \in RowsOf(LastEpoch)})

Due == table # {} => epoch - 1 > LastEpoch \/ slot - LastEpochSlot >= Interval

CheckProceeds ==
    /\ job = Idle
    /\ Due
    /\ job' = [Idle EXCEPT !.step = "collect"]
    /\ UNCHANGED <<epoch, slot, account, table>>

(* Not a good time to collect: the job ends at once. *)
CheckSkips ==
    /\ job = Idle
    /\ ~Due
    /\ UNCHANGED vars

-----------------------------------------------------------------------------
(* collect jito-mev, collect jito-priority (without the option --epoch) *)

EpochInfo ==
    /\ job.step = "collect"
    /\ job' = [job EXCEPT !.step = "fetch",
                          !.epoch = epoch - 1,
                          !.epoch_slot = slot,
                          !.at_start = account[epoch - 1]]
    /\ UNCHANGED <<epoch, slot, account, table>>

(* One request.  The accounts go into a map by vote account, where those   *)
(* of the second request replace those of the first.                       *)
Fetch(i) ==
    /\ job.step = IF i = 1 THEN "fetch" ELSE "fetched"
    /\ job' = [job EXCEPT
                  !.step = IF i = 1 THEN "fetched" ELSE "store",
                  !.snapshot = [v \in VoteAccounts |->
                      IF account[job.epoch][v] = Requests[i] THEN Requests[i] ELSE @[v]]]
    /\ UNCHANGED <<epoch, slot, account, table>>

-----------------------------------------------------------------------------
(* store jito-mev, store jito-priority *)

InSnapshot == {v \in VoteAccounts : job.snapshot[v] # "absent"}

(* Faulty variant: selected by the epoch when the snapshot was loaded.     *)
ExistingInNextEpoch == {r.vote_account : r \in RowsOf(job.epoch + 1)}

Existing == {r.vote_account : r \in RowsOf(job.epoch)}

SelectExisting ==
    /\ job.step = "store"
    /\ job' = [job EXCEPT !.step = "update", !.left = InSnapshot \cap Existing]
    /\ UNCHANGED <<epoch, slot, account, table>>

RowFor(v) ==
    [epoch |-> job.epoch,
     vote_account |-> v,
     epoch_slot |-> job.epoch_slot,
     root |-> job.snapshot[v] = "uploaded"]

UpdateRow(v) ==
    /\ job.step = "update"
    /\ v \in job.left
    /\ table' = {IF r.epoch = job.epoch /\ r.vote_account = v THEN RowFor(v) ELSE r : r \in table}
    /\ job' = [job EXCEPT !.left = @ \ {v}]
    /\ UNCHANGED <<epoch, slot, account>>

(* What was not updated is inserted. *)
EndUpdates ==
    /\ job.step = "update"
    /\ job.left = {}
    /\ job' = [job EXCEPT !.step = "insert", !.left = InSnapshot \ Existing]
    /\ UNCHANGED <<epoch, slot, account, table>>

InsertRow(v) ==
    /\ job.step = "insert"
    /\ v \in job.left
    /\ table' = table \cup {RowFor(v)}
    /\ job' = [job EXCEPT !.left = @ \ {v}]
    /\ UNCHANGED <<epoch, slot, account>>

EndJob ==
    /\ job.step = "insert"
    /\ job.left = {}
    /\ job' = Idle
    /\ UNCHANGED <<epoch, slot, account, table>>

(* A program fails or dies between two steps; the script ends. *)
Crash ==
    /\ job # Idle
    /\ job' = Idle
    /\ UNCHANGED <<epoch, slot, account, table>>

Next ==
    \/ Tick
    \/ \E v \in VoteAccounts : CreateAccount(v)
    \/ \E e \in EpochId, v \in VoteAccounts : UploadRoot(e, v)
    \/ CheckProceeds
    \/ CheckSkips
    \/ EpochInfo
    \/ \E i \in {1, 2} : Fetch(i)
    \/ SelectExisting
    \/ \E v \in VoteAccounts : UpdateRow(v)
    \/ EndUpdates
    \/ \E v \in VoteAccounts : InsertRow(v)
    \/ EndJob
    \/ Crash

Spec == Init /\ [][Next]_vars

-----------------------------------------------------------------------------
(* Properties *)

(* Every variable holds a value of its kind, and a row with a root is of   *)
(* an account whose root was uploaded.                                     *)
TypeOK ==
    /\ epoch \in EpochId /\ slot \in Slot
    /\ account \in [EpochId -> [VoteAccounts -> AccountState]]
    /\ table \subseteq Row
    /\ \A r \in table : r.root => account[r.epoch][r.vote_account] = "uploaded"
    /\ job \in {Idle} \cup Job

(* When a job has stored its snapshot, every account that existed when it  *)
(* began has a row of this very collection, also an account whose root was *)
(* uploaded between the two requests, and also after earlier jobs broke    *)
(* off; a root that was there at the beginning is in its row.              *)
NoAccountMissed ==
    job.step = "insert" /\ job.left = {} =>
        \A v \in VoteAccounts : job.at_start[v] # "absent" =>
            \E r \in RowsOf(job.epoch) :
                /\ r.vote_account = v
                /\ r.epoch_slot = job.epoch_slot
                /\ job.at_start[v] = "uploaded" => r.root

(* No constraint of the tables forbids a second row of an account for an   *)
(* epoch; the jobs create none, whatever is left of a job that broke off.  *)
OneRowPerAccount ==
    \A r, s \in table : r.epoch = s.epoch /\ r.vote_account = s.vote_account => r = s

(* Two collections of one epoch are an execution interval apart, also when *)
(* a broken job leaves rows of both in the table.                          *)
CollectionsSpaced ==
    \A r, s \in table :
        r.epoch = s.epoch /\ r.epoch_slot < s.epoch_slot =>
            s.epoch_slot - r.epoch_slot >= Interval

=============================================================================
