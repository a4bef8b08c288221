----------------------------- MODULE EpochScores ----------------------------
(***************************************************************************)
(* The scores of past epochs, which load_validators fetches from the       *)
(* scoring service while its caller, the cache warmer, holds the lock of   *)
(* ContextLock to read: load_scores_in_epochs spawns a task for each       *)
(* epoch, some at a time, which send what they get through a channel to    *)
(* one more task, and waits until that has seen the end of the channel.    *)
(*                                                                         *)
(* It is the "query" of the program warm_validators: whatever keeps it     *)
(* keeps the guard, the next writer, and all who ask after that.           *)
(***************************************************************************)
EXTENDS ContextLock, FiniteSetsExt

CONSTANTS
    LastEpoch,    \* the epochs 1..LastEpoch are fetched
    Workers       \* SCORING_SCRAPER_WORKERS

ASSUME EpochScoresAssumption == LastEpoch \in Nat /\ Workers \in Nat \ {0}

VARIABLE loader  \* the step and the local variables of the loading of scores

loadingVars == <<vars, loader>>

-----------------------------------------------------------------------------
EpochRange == 1..LastEpoch

(* next: the epoch to spawn a task for; fetching: the epochs whose tasks   *)
(* have not ended; channel: the epochs whose scores were sent and not      *)
(* received; result: those received; scored: the epochs in the records     *)
(* that have scores; newest: the epoch of a validator's own score, or 0;   *)
(* answered: the epochs that the service gave scores of (history)          *)
NoLoad ==
    [step |-> "query", next |-> 1, fetching |-> {}, channel |-> {}, result |-> {},
     scored |-> {}, newest |-> 0, answered |-> {}]

Loads ==
    [step : {"query", "spawn", "join", "loaded"},
     next : 1..LastEpoch + 1,
     fetching : SUBSET EpochRange,
     channel : SUBSET EpochRange,
     result : SUBSET EpochRange,
     scored : SUBSET EpochRange,
     newest : 0..LastEpoch,
     answered : SUBSET EpochRange]

LoadingInit == Init /\ loader = NoLoad

LoadsValidators ==
    pc[Warmer].program = "warm_validators" /\ Operation(Warmer) = "query"

AtStep(step) == LoadsValidators /\ loader.step = step

-----------------------------------------------------------------------------
(* load_scores_in_epochs *)

(* The queries before the scores have succeeded. *)
BeginScores ==
    /\ AtStep("query")
    /\ loader' = [loader EXCEPT !.step = "spawn"]
    /\ UNCHANGED vars

(* The loop waits for a permit before it spawns a task. *)
SpawnFetch ==
    /\ AtStep("spawn")
    /\ loader.next <= LastEpoch
    /\ Cardinality(loader.fetching) < Workers
    /\ loader' = [loader EXCEPT !.fetching = @ \cup {loader.next}, !.next = @ + 1]
    /\ UNCHANGED vars

(* After the loop its own sender is dropped, and the receiver waited for.  *)
DropSender ==
    /\ AtStep("spawn")
    /\ loader.next > LastEpoch
    /\ loader' = [loader EXCEPT !.step = "join"]
    /\ UNCHANGED vars

(* The task of an epoch drops its permit and its sender when it ends.      *)
FetchSucceeds(e) ==
    /\ LoadsValidators /\ e \in loader.fetching
    /\ loader' = [loader EXCEPT !.fetching = @ \ {e}, !.channel = @ \cup {e},
                                !.answered = @ \cup {e}]
    /\ UNCHANGED vars

(* A failure is only logged, and a body that cannot be read not even that. *)
FetchFails(e) ==
    /\ LoadsValidators /\ e \in loader.fetching
    /\ loader' = [loader EXCEPT !.fetching = @ \ {e}]
    /\ UNCHANGED vars

Receive(e) ==
    /\ LoadsValidators /\ e \in loader.channel
    /\ loader' = [loader EXCEPT !.channel = @ \ {e}, !.result = @ \cup {e}]
    /\ UNCHANGED vars

(* Faulty variant: the loop keeps its sender until the function returns.   *)
SendersToTheEnd == loader.fetching \cup {0}

(* Who may still send: 0 stands for the loop, which each task has its      *)
(* sender from.                                                            *)
Senders == IF loader.step = "spawn" THEN loader.fetching \cup {0} ELSE loader.fetching

(* Faulty variant: what is in the channel when it closes is left there.    *)
ChannelClosed == Senders = {}

ChannelEnds == Senders = {} /\ loader.channel = {}

(* The receiver returns its result, and update_validators_with_scores puts *)
(* it into the records.                                                    *)
JoinReceiver ==
    /\ AtStep("join")
    /\ ChannelEnds
    /\ loader' = [loader EXCEPT !.step = "loaded",
                                !.scored = loader.result,
                                !.newest = Max(loader.result \cup {0})]
    /\ UNCHANGED vars

-----------------------------------------------------------------------------
(* The rest of load_validators, and everyone else *)

(* The queries before or after the scores fail; or those after succeed.    *)
LoadingFails ==
    /\ AtStep("query") \/ AtStep("loaded")
    /\ QueryFails(Warmer)
    /\ loader' = NoLoad

LoadingSucceeds ==
    /\ AtStep("loaded")
    /\ QuerySucceeds(Warmer)
    /\ loader' = NoLoad

OtherStep(t) ==
    /\ ~(t = Warmer /\ LoadsValidators)
    /\ TaskStep(t)
    /\ UNCHANGED loader

Answer(e) == FetchSucceeds(e) \/ FetchFails(e)

LoadingStep ==
    \/ BeginScores
    \/ SpawnFetch
    \/ DropSender
    \/ \E e \in EpochRange : Answer(e)
    \/ \E e \in EpochRange : Receive(e)
    \/ JoinReceiver
    \/ LoadingFails
    \/ LoadingSucceeds

LoadingNext ==
    \/ LoadingStep
    \/ \E t \in Tasks : OtherStep(t)
    \/ (\E t \in Handlers, r \in Requests : Arrive(t, r)) /\ UNCHANGED loader
    \/ WakeUp /\ UNCHANGED loader
    \/ Grant /\ UNCHANGED loader

(* As for ContextLock; the runtime polls the tasks of the loading too, and *)
(* the scoring service answers, or refuses, every request.                 *)
LoadingFairness ==
    /\ WF_loadingVars(LoadingStep)
    /\ \A t \in Tasks : WF_loadingVars(OtherStep(t))
    /\ WF_loadingVars(Grant /\ UNCHANGED loader)
    /\ WF_loadingVars(WakeUp /\ UNCHANGED loader)

LoadingSpec == LoadingInit /\ [][LoadingNext]_loadingVars /\ LoadingFairness

-----------------------------------------------------------------------------
(* Properties *)

(* Every variable holds a value of its kind.                               *)
LoadingTypeOK == TypeOK /\ loader \in Loads

(* Whatever requests fail and in whichever order the others are answered,  *)
(* received and interleaved with the spawning of more, the records get the *)
(* scores of all epochs that were answered, and a validator's own score is *)
(* that of the newest of them: no message is left in the channel, and none *)
(* of another round gets in.                                               *)
AnsweredScoresLoaded ==
    loader.step = "loaded" =>
        /\ loader.scored = loader.answered
        /\ loader.newest = Max(loader.answered \cup {0})

=============================================================================
