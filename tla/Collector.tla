------------------------------ MODULE Collector ----------------------------
(***************************************************************************)
(* The collectors of validators and of their performance                   *)
(*   collect validators               also scans all stake accounts        *)
(*   collect validators-performance   the running or, with --epoch, a past *)
(*                                    epoch, to close it                   *)
(* Each is a sequence of RPC requests, which takes minutes and prints one  *)
(* snapshot.  The chain goes on between the requests: slots and epochs     *)
(* pass, stake accounts and vote accounts get other withdraw authorities.  *)
(* It is the chain of BlockRewards, whose job runs beside the collector.   *)
(*                                                                         *)
(* A slot of epoch e is counted from the first slot of all.  A withdraw    *)
(* authority is represented by its first byte, by which the scan of stake  *)
(* accounts is paged, and all stake accounts have a stake of one.          *)
(***************************************************************************)
EXTENDS BlockRewards, Sequences, SequencesExt

CONSTANTS
    StakeAccounts,
    VoteAccounts,
    Voter,          \* the vote account that each stake account is delegated to
    LastPage,       \* the pages are 0..LastPage, u8::MAX in the code
    RpcAttempts,    \* --rpc-attempts
    HistorySlots,   \* the slots that the slot history reaches back
    CreditsKept     \* the past epochs whose credits the node still tells

ASSUME CollectorAssumption ==
    /\ IsFiniteSet(StakeAccounts)
    /\ Voter \in [StakeAccounts -> VoteAccounts]
    /\ LastPage \in Nat /\ RpcAttempts \in Nat
    /\ HistorySlots \in Nat /\ CreditsKept \in Nat

VARIABLES
    withdrawer,     \* the withdraw authority of each stake account
    authorized,     \* the authorized withdrawer of each vote account
    collector,      \* the step and the local variables of the collector
    steady          \* the stake accounts that were self stake all through the scan (history)

collectorVars == <<withdrawer, authorized, collector, steady>>

-----------------------------------------------------------------------------
Authority == 0..LastPage

Slot == 0..((MaxEpoch + 1) * SlotsInEpoch - 1)

FirstSlotInEpoch(e) == e * SlotsInEpoch

LastSlotInEpoch(e) == FirstSlotInEpoch(e + 1) - 1

CurrentSlot == FirstSlotInEpoch(epoch) + slot

NoStake == [v \in VoteAccounts |-> 0]

(* production: the slots that leader slots and blocks were counted in      *)
(* over: whether the epoch was over when the collector began (history)     *)
NoCollection ==
    [step |-> "idle", epoch |-> 0, over |-> FALSE, attempts |-> 0, page |-> 0,
     authorities |-> {}, self_stake |-> NoStake, production |-> {}, credits |-> "none"]

Collection ==
    [step : {"idle", "authorities", "pages", "production", "history", "credits", "printed"},
     epoch : EpochId,
     over : BOOLEAN,
     attempts : 0..RpcAttempts,
     page : Authority,
     authorities : SUBSET (Authority \X VoteAccounts),
     self_stake : [VoteAccounts -> 0..Cardinality(StakeAccounts)],
     production : SUBSET Slot,
     credits : {"none", "so far", "whole"}]

CollectorInit ==
    /\ Init
    /\ withdrawer \in [StakeAccounts -> Authority]
    /\ authorized \in [VoteAccounts -> Authority]
    /\ collector = NoCollection
    /\ steady = {}

-----------------------------------------------------------------------------
(* Superminority, from the activated stakes of all vote accounts           *)

TotalStake(stakes) == SumFunction(stakes)

(* Faulty variant: it breaks on reaching a third.                          *)
AddStakeUpTo(threshold, loop, stake) ==
    IF loop.accumulated >= threshold
    THEN loop
    ELSE [accumulated |-> loop.accumulated + stake, last_stake |-> stake]

(* The loop adds up stakes, largest first, and breaks after the one that   *)
(* exceeds the threshold.                                                  *)
AddStake(threshold, loop, stake) ==
    IF loop.accumulated > threshold
    THEN loop
    ELSE [accumulated |-> loop.accumulated + stake, last_stake |-> stake]

(* The accounts with the largest stakes first, those of one stake in any   *)
(* order                                                                   *)
LargestFirst(stakes) ==
    {order \in SetToSeqs(DOMAIN stakes) :
        \A i, j \in DOMAIN order : i < j => stakes[order[i]] >= stakes[order[j]]}

get_minimum_superminority_stake(stakes, largestFirst) ==
    FoldLeft(LAMBDA loop, v : AddStake(TotalStake(stakes) \div 3, loop, stakes[v]),
             [accumulated |-> 0, last_stake |-> 0],
             largestFirst).last_stake

Superminority(stakes, minimum) == {v \in DOMAIN stakes : minimum <= stakes[v]}

-----------------------------------------------------------------------------
(* The chain goes on.  What changes while nobody scans is as if it had     *)
(* always been so.                                                         *)

SelfStaked == {a \in StakeAccounts : withdrawer[a] = authorized[Voter[a]]}

ChangeAuthorities ==
    /\ collector.step = "pages"
    /\ \/ \E a \in StakeAccounts, w \in Authority :
              withdrawer' = [withdrawer EXCEPT ![a] = w] /\ UNCHANGED authorized
       \/ \E v \in VoteAccounts, w \in Authority :
              authorized' = [authorized EXCEPT ![v] = w] /\ UNCHANGED withdrawer
    /\ steady' = steady \cap SelfStaked'
    /\ UNCHANGED <<vars, collector>>

-----------------------------------------------------------------------------
(* The collectors *)

(* get_epoch_info.  The epoch is that of the moment or one given with      *)
(* --epoch.  The vote accounts are a request of their own, which is taken  *)
(* together with this one: which accounts there are does not change here,  *)
(* and their withdrawers and credits are asked for again.                  *)
GetEpochInfo(e, step) ==
    /\ collector.step \in {"idle", "printed"}
    /\ e <= epoch
    /\ collector' = [NoCollection EXCEPT !.step = step, !.epoch = e, !.over = e < epoch]
    /\ steady' = {}
    /\ UNCHANGED <<vars, withdrawer, authorized>>

(* get_withdraw_authorities: the withdrawer of each vote account, asked    *)
(* for once, before the scan                                               *)
GetWithdrawAuthorities ==
    /\ collector.step = "authorities"
    /\ collector' = [collector EXCEPT !.step = "pages",
                                      !.authorities = {<<authorized[v], v>> : v \in VoteAccounts}]
    /\ steady' = SelfStaked
    /\ UNCHANGED <<vars, withdrawer, authorized>>

(* Faulty variant: the authorities are those of the moment.                *)
AddSelfStakeOfNow(accounts) ==
    [v \in VoteAccounts |->
        collector.self_stake[v]
            + Cardinality({a \in accounts : Voter[a] = v /\ withdrawer[a] = authorized[v]})]

(* process_accounts_for_self_stake: an account counts for its validator if *)
(* they have the same withdrawer.                                          *)
AddSelfStake(accounts) ==
    [v \in VoteAccounts |->
        collector.self_stake[v]
            + Cardinality({a \in accounts : /\ Voter[a] = v
                                            /\ <<withdrawer[a], v>> \in collector.authorities})]

(* fetch_stake_accounts_on_page.  A page that fails is asked for again; a  *)
(* page that keeps failing ends the program.                               *)
FetchPage ==
    /\ collector.step = "pages"
    /\ LET accounts == {a \in StakeAccounts : withdrawer[a] = collector.page}
           after == [collector EXCEPT !.self_stake = AddSelfStake(accounts)]
       IN collector' =
              IF collector.page < LastPage
              THEN [after EXCEPT !.page = @ + 1]
              ELSE [after EXCEPT !.step = "production", !.page = 0, !.authorities = {}]
    /\ UNCHANGED <<vars, withdrawer, authorized, steady>>

(* Faulty variant: it is the production of the epoch that is asked for if  *)
(* that was the running one when the collector began.                      *)
BlockProductionAsBegun ==
    /\ collector.step = "production"
    /\ collector' = IF ~collector.over
                    THEN [collector EXCEPT !.step = "credits",
                                           !.production = FirstSlotInEpoch(epoch)..CurrentSlot]
                    ELSE [collector EXCEPT !.step = "history"]
    /\ UNCHANGED <<vars, withdrawer, authorized, steady>>

(* get_block_production tells of the running epoch so far.  If that is not *)
(* the epoch to collect, its blocks are looked for in the slot history.    *)
GetBlockProduction ==
    /\ collector.step = "production"
    /\ collector' = IF FirstSlotInEpoch(collector.epoch) = FirstSlotInEpoch(epoch)
                    THEN [collector EXCEPT !.step = "credits",
                                           !.production = FirstSlotInEpoch(epoch)..CurrentSlot]
                    ELSE [collector EXCEPT !.step = "history"]
    /\ UNCHANGED <<vars, withdrawer, authorized, steady>>

WithinHistory(start_slot, end_slot) ==
    /\ start_slot > CurrentSlot - HistorySlots
    /\ end_slot <= CurrentSlot

GetConfirmedBlocks ==
    /\ collector.step = "history"
    /\ LET start_slot == FirstSlotInEpoch(collector.epoch)
           end_slot == LastSlotInEpoch(collector.epoch)
       IN /\ WithinHistory(start_slot, end_slot)
          /\ collector' = [collector EXCEPT !.step = "credits",
                                            !.production = start_slot..end_slot]
    /\ UNCHANGED <<vars, withdrawer, authorized, steady>>

(* A request fails, or the slot history does not have the whole epoch: it  *)
(* is all asked for again, some times, and once more after the last pause. *)
ProductionFails ==
    /\ collector.step \in {"production", "history"}
    /\ collector' = IF collector.attempts < RpcAttempts
                    THEN [collector EXCEPT !.step = "production", !.attempts = @ + 1]
                    ELSE NoCollection
    /\ UNCHANGED <<vars, withdrawer, authorized, steady>>

(* get_credits asks for the vote accounts anew and takes the record of the *)
(* epoch.  Without one the credits are zero.  The snapshot is printed.     *)
GetCredits ==
    /\ collector.step = "credits"
    /\ collector' =
           [collector EXCEPT
               !.step = "printed",
               !.attempts = 0,
               !.credits = CASE collector.epoch = epoch -> "so far"
                             [] collector.epoch \in (epoch - CreditsKept)..(epoch - 1) -> "whole"
                             [] OTHER -> "none"]
    /\ UNCHANGED <<vars, withdrawer, authorized, steady>>

(* Any other request fails, no self stake was found, or the process dies.  *)
CollectorFails ==
    /\ collector.step \notin {"idle", "printed"}
    /\ collector' = NoCollection
    /\ UNCHANGED <<vars, withdrawer, authorized, steady>>

CollectorNext ==
    \/ Next /\ UNCHANGED collectorVars
    \/ ChangeAuthorities
    \/ \E e \in EpochId, step \in {"authorities", "production"} : GetEpochInfo(e, step)
    \/ GetWithdrawAuthorities
    \/ FetchPage
    \/ GetBlockProduction
    \/ GetConfirmedBlocks
    \/ ProductionFails
    \/ GetCredits
    \/ CollectorFails

CollectorSpec == CollectorInit /\ [][CollectorNext]_<<vars, collectorVars>>

-----------------------------------------------------------------------------
(* Properties *)

(* Every variable holds a value of its kind.                               *)
CollectorTypeOK ==
    /\ TypeOK
    /\ withdrawer \in [StakeAccounts -> Authority]
    /\ authorized \in [VoteAccounts -> Authority]
    /\ collector \in Collection
    /\ steady \subseteq StakeAccounts

(* A snapshot tells what happened in its own epoch, though the epoch may   *)
(* end between any two requests and any attempts: leader slots and blocks  *)
(* are counted in no slot of another one, and if the epoch was over when   *)
(* the collector began, as it is for close-epoch, in all of its slots, and *)
(* credits are not those of an unfinished epoch.                           *)
PerformanceOfItsEpoch ==
    collector.step = "printed" =>
        LET slots == FirstSlotInEpoch(collector.epoch)..LastSlotInEpoch(collector.epoch)
        IN /\ collector.production # {}
           /\ collector.production \subseteq slots
           /\ collector.over => collector.production = slots /\ collector.credits # "so far"

(* The scan of stake accounts is no snapshot: an account whose withdrawer  *)
(* changes between two pages may be met on both or on none.  Yet each is   *)
(* counted at most once, and exactly once if it shared the withdrawer of   *)
(* its validator all the time.                                             *)
SelfStakeOnce ==
    \A v \in VoteAccounts :
        LET of(accounts) == Cardinality({a \in accounts : Voter[a] = v})
        IN /\ collector.self_stake[v] <= of(StakeAccounts)
           /\ collector.step \in {"production", "history", "credits", "printed"} =>
                  collector.self_stake[v] >= of(steady)

(* The accounts of a group hold more than a third of all stake together.   *)
HoldsThird(stakes, group) ==
    3 * SumFunctionOnSet(stakes, group) > SumFunctionOnSet(stakes, DOMAIN stakes)

(* The lowest number of accounts that hold more than a third, and of those *)
(* the largest.  There are several such groups when the smallest in one    *)
(* has as much as somebody outside it.                                     *)
SmallestGroups(stakes) ==
    {group \in SUBSET DOMAIN stakes :
        /\ HoldsThird(stakes, group)
        /\ \A other \in SUBSET DOMAIN stakes :
               HoldsThird(stakes, other) => Cardinality(group) <= Cardinality(other)
        /\ \A v \in group, w \in DOMAIN stakes \ group : stakes[v] >= stakes[w]}

(* Where there is any stake, the flagged are the members of these groups.  *)
FlagsSmallestGroups(stakes, largestFirst) ==
    SumFunctionOnSet(stakes, DOMAIN stakes) > 0 =>
        Superminority(stakes, get_minimum_superminority_stake(stakes, largestFirst))
            = UNION SmallestGroups(stakes)

(* Four vote accounts with any stakes                                      *)
SuperminorityOfAnyStakes ==
    \A stakes \in [1..4 -> 0..3] :
        \A order \in LargestFirst(stakes) : FlagsSmallestGroups(stakes, order)

(* A validator is flagged as superminority if and only if it is in a group *)
(* of the largest that is the smallest to hold more than a third of all    *)
(* stake, though the code adds up a sorted list and rounds the third down. *)
(* (Of validators with the same stake all are flagged or none, so that     *)
(* there can be more flagged than the lowest number that suffices.)        *)
SuperminorityOfSmallest == collector.step # "idle" => SuperminorityOfAnyStakes

=============================================================================
