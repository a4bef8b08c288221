---------------------------- MODULE ContextLock ----------------------------
(***************************************************************************)
(* The one lock of the API: the Context, with the database client and the  *)
(* cache, sits in an Arc<tokio::sync::RwLock<_>> (api/src/context.rs).     *)
(* Request handlers and the cache warmer are tasks that lock it to read or *)
(* to write, some of them several times and some while they hold it.       *)
(*                                                                         *)
(* tokio's lock is fair: requests are granted in the order they were made, *)
(* so a reader waits behind a writer that asked before it, even while      *)
(* other readers hold the lock.                                            *)
(*                                                                         *)
(* What a task does with the lock is a program, a sequence of these:       *)
(*   "read", "write"   ask for the lock and wait for it                    *)
(*   "query"           await the database while holding it; may fail       *)
(*   "release"         the end of the statement (or scope) that locked     *)
(* A failed query ends the program: `?`, or the handler's error answer.    *)
(***************************************************************************)
EXTENDS Integers, Sequences, SequencesExt

CONSTANTS
    Handlers,   \* the request handlers that may run at a time
    Requests,   \* the programs that requests start
    Warmer      \* the task of spawn_cache_warmer

ASSUME ContextLockAssumption ==
    /\ Warmer \notin Handlers
    /\ Requests \subseteq {"read_once", "read_twice", "query_once", "events",
                          "staking_report", "unstake_hints", "score_upload"}

VARIABLES
    pc,        \* the program of each task and the position in it
    waiting,   \* the queue of the tasks that asked for the lock
    reading,   \* how many read guards each task holds
    writing    \* the tasks that hold the write guard

vars == <<pc, waiting, reading, writing>>

Tasks == Handlers \cup {Warmer}

-----------------------------------------------------------------------------
(* Programs of the handlers *)

ReadOnce == <<"read", "release">>

ReadTwice == ReadOnce \o ReadOnce

QueryOnce == <<"read", "query", "release">>

Events == ReadOnce \o QueryOnce

StakingReport == QueryOnce \o ReadTwice

(* Both guards live to the end of the statement: the second is asked for   *)
(* while the first is held.                                                *)
UnstakeHints == <<"read", "read", "query", "release">>

ScoreUpload == <<"write", "query", "release">>

-----------------------------------------------------------------------------
(* Programs of the warmer *)

Store == <<"write", "release">>

WarmScores == QueryOnce \o QueryOnce \o QueryOnce \o QueryOnce \o QueryOnce \o Store \o Store

(* Faulty variant: the read guard is kept until the new value is written.  *)
WarmTableHoldingGuard == <<"read", "query", "write", "release">>

(* Versions, commissions, uptimes and cluster stats alike                  *)
WarmTable == QueryOnce \o Store

WarmValidators == ReadOnce \o UnstakeHints \o Store

Program(name) ==
    CASE name = "read_once" -> ReadOnce
      [] name = "read_twice" -> ReadTwice
      [] name = "query_once" -> QueryOnce
      [] name = "events" -> Events
      [] name = "staking_report" -> StakingReport
      [] name = "unstake_hints" -> UnstakeHints
      [] name = "score_upload" -> ScoreUpload
      [] name = "warm_scores" -> WarmScores
      [] name \in {"warm_versions", "warm_commissions", "warm_uptimes",
                   "warm_cluster_stats"} -> WarmTable
      [] name = "warm_validators" -> WarmValidators

Round == <<"warm_scores", "warm_versions", "warm_commissions", "warm_uptimes",
           "warm_cluster_stats", "warm_validators">>

Idle == [program |-> "none", at |-> 0]

Beginning(name) == [program |-> name, at |-> 1]

Busy(t) == pc[t] # Idle

Operation(t) == IF Busy(t) THEN Program(pc[t].program)[pc[t].at] ELSE "none"

(* The warmer goes through the round, also past a program that failed, and *)
(* then sleeps; a handler has only one program.                            *)
AfterProgram(t) ==
    IF t # Warmer \/ pc[t].program = Last(Round)
    THEN Idle
    ELSE Beginning(Round[1 + CHOOSE i \in DOMAIN Round : Round[i] = pc[t].program])

AfterOperation(t) ==
    IF pc[t].at < Len(Program(pc[t].program))
    THEN [pc[t] EXCEPT !.at = @ + 1]
    ELSE AfterProgram(t)

-----------------------------------------------------------------------------
Init ==
    /\ pc = [t \in Tasks |-> Idle]
    /\ waiting = <<>>
    /\ reading = [t \in Tasks |-> 0]
    /\ writing = {}

Holds(t) == reading[t] > 0 \/ t \in writing

Waits(t) == t \in Range(waiting)

Arrive(t, request) ==
    /\ pc[t] = Idle
    /\ pc' = [pc EXCEPT ![t] = Beginning(request)]
    /\ UNCHANGED <<waiting, reading, writing>>

(* The sleep to the next ten-minute boundary is over. *)
WakeUp ==
    /\ pc[Warmer] = Idle
    /\ pc' = [pc EXCEPT ![Warmer] = Beginning(Head(Round))]
    /\ UNCHANGED <<waiting, reading, writing>>

Ask(t) ==
    /\ Operation(t) \in {"read", "write"}
    /\ ~Waits(t)
    /\ waiting' = Append(waiting, t)
    /\ UNCHANGED <<pc, reading, writing>>

CanGrant(t) ==
    CASE Operation(t) = "read" -> writing = {}
      [] Operation(t) = "write" -> writing = {} /\ \A u \in Tasks : reading[u] = 0

(* The lock is given to the first task of the queue. *)
Grant ==
    /\ waiting # <<>>
    /\ LET t == Head(waiting)
       IN /\ CanGrant(t)
          /\ IF Operation(t) = "read"
             THEN /\ reading' = [reading EXCEPT ![t] = @ + 1]
                  /\ UNCHANGED writing
             ELSE /\ writing' = writing \cup {t}
                  /\ UNCHANGED reading
          /\ pc' = [pc EXCEPT ![t] = AfterOperation(t)]
    /\ waiting' = Tail(waiting)

DropGuards(t) ==
    /\ reading' = [reading EXCEPT ![t] = 0]
    /\ writing' = writing \ {t}

Release(t) ==
    /\ Operation(t) = "release"
    /\ DropGuards(t)
    /\ pc' = [pc EXCEPT ![t] = AfterOperation(t)]
    /\ UNCHANGED waiting

QuerySucceeds(t) ==
    /\ Operation(t) = "query"
    /\ pc' = [pc EXCEPT ![t] = AfterOperation(t)]
    /\ UNCHANGED <<waiting, reading, writing>>

QueryFails(t) ==
    /\ Operation(t) = "query"
    /\ DropGuards(t)
    /\ pc' = [pc EXCEPT ![t] = AfterProgram(t)]
    /\ UNCHANGED waiting

TaskStep(t) == Ask(t) \/ Release(t) \/ QuerySucceeds(t) \/ QueryFails(t)

Next ==
    \/ \E t \in Handlers, r \in Requests : Arrive(t, r)
    \/ WakeUp
    \/ \E t \in Tasks : TaskStep(t)
    \/ Grant

(* The runtime polls every task that can go on, the database answers every *)
(* query, and the lock serves its queue.                                   *)
Fairness ==
    /\ \A t \in Tasks : WF_vars(TaskStep(t))
    /\ WF_vars(Grant)
    /\ WF_vars(WakeUp)

Spec == Init /\ [][Next]_vars /\ Fairness

-----------------------------------------------------------------------------
(* Properties *)

(* Every variable holds a value of its kind.                               *)
TypeOK ==
    /\ \A t \in Tasks : Busy(t) => pc[t].at \in DOMAIN Program(pc[t].program)
    /\ waiting \in Seq(Tasks) /\ IsInjective(waiting)
    /\ reading \in [Tasks -> 0..2]
    /\ writing \subseteq Tasks

(* A task waits for a second read guard behind a writer that waits for the *)
(* first one.                                                              *)
LockedUp ==
    \E t \in Tasks :
        /\ Holds(t) /\ Waits(t) /\ Operation(t) = "read"
        /\ \E u \in Tasks :
              /\ Waits(u) /\ Operation(u) = "write"
              /\ \E i, j \in DOMAIN waiting : waiting[i] = u /\ waiting[j] = t /\ i < j

(* The only way for the API to lock up: when the queue cannot move, either *)
(* a busy task that holds the lock can go on (no guard has outlived its    *)
(* program, whichever query failed), or a nested read has met a writer.    *)
StuckOnlyByNestedRead ==
    waiting # <<>> /\ ~CanGrant(Head(waiting)) =>
        LockedUp \/ \E t \in Tasks : Holds(t) /\ Busy(t) /\ ~Waits(t)

(* Every request is answered, and the warmer ends every round, whatever    *)
(* queries fail and however many requests come, unless the nested reads of *)
(* the hints, or of the warmer itself, meet a writer.                      *)
EveryTaskEnds == \A t \in Tasks : Busy(t) ~> ~Busy(t) \/ LockedUp

(* The documentation of the unstake-hints handlers promises an answer      *)
(* (status = 200): a request for hints ends.  It does not, when the warmer *)
(* asks for the write lock between the two reads of the handler.           *)
HintsAreAnswered ==
    \A t \in Handlers : pc[t].program = "unstake_hints" ~> ~Busy(t)

=============================================================================
