---------------------------- MODULE ScoresProofs ----------------------------
(***************************************************************************)
(* Proofs about the scores of the API: the lock under which they are       *)
(* loaded and served (ContextLock), the loading of past epochs by tasks    *)
(* (EpochScores), and what the cache holds of uploaded scores              *)
(* (ScoresCache), for any number of handlers, epochs, workers, runs,       *)
(* chunks and failures.                                                    *)
(*                                                                         *)
(* The inductive invariant of the lock says of a task which guards it      *)
(* holds at each position of its program.  That every program lets go of   *)
(* them all is shown of the short programs, and of the others by how they  *)
(* are put together.  Of the cache it says at which moments its parts were *)
(* published.                                                              *)
(***************************************************************************)
EXTENDS EpochScores, ScoresCache, WellFoundedInduction, FiniteSetTheorems, TLAPS

-----------------------------------------------------------------------------
(* What a program holds *)

Operations == {"read", "write", "query", "release"}

WriteGuard == 3

(* g tells, for each position of p, the guards that a task holds there: so *)
(* many to read, or the one to write.  None is held at either end, and the *)
(* write guard is only asked for by those who hold none.                   *)
TellsGuards(g, p) ==
    /\ g \in [1..Len(p) + 1 -> 0..WriteGuard]
    /\ g[1] = 0 /\ g[Len(p) + 1] = 0
    /\ \A i \in 1..Len(p) :
          /\ p[i] = "read" => g[i] \in 0..1 /\ g[i + 1] = g[i] + 1
          /\ p[i] = "write" => g[i] = 0 /\ g[i + 1] = WriteGuard
          /\ p[i] = "query" => g[i + 1] = g[i]
          /\ p[i] = "release" => g[i + 1] = 0

LetsGo(p) == p \in Seq(Operations) /\ Len(p) > 0 /\ \E g : TellsGuards(g, p)

LEMMA OneAfterTheOther ==
    ASSUME NEW p, NEW q, LetsGo(p), LetsGo(q)
    PROVE  LetsGo(p \o q)
<1> DEFINE r == p \o q
<1>1. PICK g : TellsGuards(g, p)
  BY DEF LetsGo
<1>2. PICK h : TellsGuards(h, q)
  BY DEF LetsGo
<1>3. /\ r \in Seq(Operations) /\ Len(r) = Len(p) + Len(q)
      /\ Len(p) \in Nat /\ Len(p) > 0 /\ Len(q) \in Nat /\ Len(q) > 0
      /\ \A i \in 1..Len(p) : r[i] = p[i]
      /\ \A i \in Len(p) + 1..Len(p) + Len(q) : r[i] = q[i - Len(p)]
  BY DEF LetsGo
<1> DEFINE both == [i \in 1..Len(r) + 1 |->
                       IF i <= Len(p) THEN g[i] ELSE h[i - Len(p)]]
<1> HIDE DEF r
<1>4. \A i \in 1..Len(p) + 1 : both[i] = g[i]
  BY <1>1, <1>2, <1>3 DEF TellsGuards
<1>5. \A i \in Len(p) + 1..Len(r) + 1 : both[i] = h[i - Len(p)]
  BY <1>3
<1>6. both \in [1..Len(r) + 1 -> 0..WriteGuard]
  <2> SUFFICES ASSUME NEW i \in 1..Len(r) + 1
               PROVE  both[i] \in 0..WriteGuard
    OBVIOUS
  <2>1. CASE i <= Len(p)
    BY <1>1, <1>3, <1>4, <2>1 DEF TellsGuards
  <2>2. CASE i > Len(p)
    <3>1. i - Len(p) \in 1..Len(q) + 1 /\ i \in Len(p) + 1..Len(r) + 1
      BY <1>3, <2>2
    <3> QED
      BY <1>2, <1>5, <3>1 DEF TellsGuards
  <2> QED
    BY <1>3, <2>1, <2>2
<1> HIDE DEF both
<1>7. ASSUME NEW i \in 1..Len(r)
      PROVE  /\ r[i] = "read" => both[i] \in 0..1 /\ both[i + 1] = both[i] + 1
             /\ r[i] = "write" => both[i] = 0 /\ both[i + 1] = WriteGuard
             /\ r[i] = "query" => both[i + 1] = both[i]
             /\ r[i] = "release" => both[i + 1] = 0
  <2>1. CASE i <= Len(p)
    <3>1. i \in 1..Len(p) /\ i + 1 \in 1..Len(p) + 1 /\ i \in 1..Len(p) + 1
      BY <1>3, <2>1
    <3>2. r[i] = p[i] /\ both[i] = g[i] /\ both[i + 1] = g[i + 1]
      BY <1>3, <1>4, <3>1
    <3> QED
      BY <1>1, <3>1, <3>2 DEF TellsGuards
  <2>2. CASE i > Len(p)
    <3> DEFINE j == i - Len(p)
    <3>1. /\ j \in 1..Len(q) /\ i \in Len(p) + 1..Len(p) + Len(q)
          /\ i \in Len(p) + 1..Len(r) + 1 /\ i + 1 \in Len(p) + 1..Len(r) + 1
          /\ i + 1 - Len(p) = j + 1
      BY <1>3, <2>2
    <3>2. r[i] = q[j] /\ both[i] = h[j] /\ both[i + 1] = h[j + 1]
      BY <1>3, <1>5, <3>1
    <3> HIDE DEF j
    <3> QED
      BY <1>2, <3>1, <3>2 DEF TellsGuards
  <2> QED
    BY <1>3, <2>1, <2>2
<1>8. both[1] = 0 /\ both[Len(r) + 1] = 0
  <2>1. 1 \in 1..Len(p) + 1 /\ Len(r) + 1 \in Len(p) + 1..Len(r) + 1
        /\ Len(r) + 1 - Len(p) = Len(q) + 1
    BY <1>3
  <2> QED
    BY <1>1, <1>2, <1>4, <1>5, <2>1 DEF TellsGuards
<1>9. TellsGuards(both, r)
  BY <1>6, <1>7, <1>8 DEF TellsGuards
<1> QED
  BY <1>3, <1>9 DEF LetsGo, r

LEMMA ShortPrograms ==
    LetsGo(ReadOnce) /\ LetsGo(QueryOnce) /\ LetsGo(UnstakeHints) /\ LetsGo(ScoreUpload)
        /\ LetsGo(Store)
<1>1. LetsGo(ReadOnce)
  <2>1. TellsGuards(<<0, 1, 0>>, ReadOnce)
    BY DEF TellsGuards, ReadOnce, WriteGuard
  <2> QED
    BY <2>1 DEF LetsGo, ReadOnce, Operations
<1>2. LetsGo(QueryOnce)
  <2>1. TellsGuards(<<0, 1, 1, 0>>, QueryOnce)
    BY DEF TellsGuards, QueryOnce, WriteGuard
  <2> QED
    BY <2>1 DEF LetsGo, QueryOnce, Operations
<1>3. LetsGo(UnstakeHints)
  <2>1. TellsGuards(<<0, 1, 2, 2, 0>>, UnstakeHints)
    BY DEF TellsGuards, UnstakeHints, WriteGuard
  <2> QED
    BY <2>1 DEF LetsGo, UnstakeHints, Operations
<1>4. LetsGo(ScoreUpload)
  <2>1. TellsGuards(<<0, WriteGuard, WriteGuard, 0>>, ScoreUpload)
    BY DEF TellsGuards, ScoreUpload, WriteGuard
  <2> QED
    BY <2>1 DEF LetsGo, ScoreUpload, Operations
<1>5. LetsGo(Store)
  <2>1. TellsGuards(<<0, WriteGuard, 0>>, Store)
    BY DEF TellsGuards, Store, WriteGuard
  <2> QED
    BY <2>1 DEF LetsGo, Store, Operations
<1> QED
  BY <1>1, <1>2, <1>3, <1>4, <1>5

RequestPrograms ==
    {"read_once", "read_twice", "query_once", "events", "staking_report", "unstake_hints",
     "score_upload"}

WarmPrograms ==
    {"warm_scores", "warm_versions", "warm_commissions", "warm_uptimes", "warm_cluster_stats",
     "warm_validators"}

Programs == RequestPrograms \cup WarmPrograms

(* Every program lets go of the guards it gets.                            *)
LEMMA ProgramsLetGo ==
    ASSUME NEW name \in Programs
    PROVE  LetsGo(Program(name))
<1> USE ShortPrograms, OneAfterTheOther
<1>1. LetsGo(ReadTwice) /\ LetsGo(Events) /\ LetsGo(WarmTable)
  BY DEF ReadTwice, Events, WarmTable
<1>2. LetsGo(StakingReport)
  BY <1>1 DEF StakingReport
<1>3. LetsGo(WarmValidators)
  <2>1. LetsGo(ReadOnce \o UnstakeHints)
    OBVIOUS
  <2> QED
    BY <2>1 DEF WarmValidators
<1>4. LetsGo(WarmScores)
  <2>1. LetsGo(QueryOnce \o QueryOnce)
    OBVIOUS
  <2>2. LetsGo(QueryOnce \o QueryOnce \o QueryOnce)
    BY <2>1
  <2>3. LetsGo(QueryOnce \o QueryOnce \o QueryOnce \o QueryOnce)
    BY <2>2
  <2>4. LetsGo(QueryOnce \o QueryOnce \o QueryOnce \o QueryOnce \o QueryOnce)
    BY <2>3
  <2>5. LetsGo(QueryOnce \o QueryOnce \o QueryOnce \o QueryOnce \o QueryOnce \o Store)
    BY <2>4
  <2> QED
    BY <2>5 DEF WarmScores
<1>5. CASE name \in RequestPrograms
  BY <1>1, <1>2, <1>5 DEF Program, RequestPrograms
<1>6. CASE name \in WarmPrograms
  BY <1>1, <1>3, <1>4, <1>6 DEF Program, WarmPrograms
<1> QED
  BY <1>5, <1>6 DEF Programs

-----------------------------------------------------------------------------
(* The inductive invariant of the lock *)

ProgramsOf(t) == IF t = Warmer THEN WarmPrograms ELSE RequestPrograms

(* Where the task t may be                                                 *)
IsPlace(t, place) ==
    \/ place = Idle
    \/ /\ place \in [program : ProgramsOf(t), at : Nat]
       /\ place.at \in 1..Len(Program(place.program))

GuardsOf(name) == CHOOSE g : TellsGuards(g, Program(name))

(* The guards of a task that is at a place                                 *)
HeldAt(place) == IF place = Idle THEN 0 ELSE GuardsOf(place.program)[place.at]

HasGuards(t) ==
    /\ reading[t] = IF HeldAt(pc[t]) = WriteGuard THEN 0 ELSE HeldAt(pc[t])
    /\ t \in writing <=> HeldAt(pc[t]) = WriteGuard

LockInv ==
    /\ pc = [t \in Tasks |-> pc[t]]
    /\ \A t \in Tasks : IsPlace(t, pc[t])
    /\ waiting \in Seq(Tasks) /\ IsInjective(waiting)
    /\ \A t \in Tasks : Waits(t) => Operation(t) \in {"read", "write"}
    /\ reading \in [Tasks -> 0..2]
    /\ writing \subseteq Tasks
    /\ \A t \in Tasks : HasGuards(t)

(* The position of a busy task, the guards it holds there, and those that  *)
(* it holds after its operation.                                           *)
LEMMA BusyTask ==
    ASSUME LockInv, NEW t \in Tasks, Busy(t)
    PROVE  LET name == pc[t].program
               i == pc[t].at
           IN  /\ name \in ProgramsOf(t) /\ name \in Programs
               /\ i \in Nat /\ i \in 1..Len(Program(name)) /\ Len(Program(name)) \in Nat
               /\ pc[t] = [program |-> name, at |-> i]
               /\ Operation(t) = Program(name)[i] /\ Operation(t) \in Operations
               /\ TellsGuards(GuardsOf(name), Program(name))
               /\ HeldAt(pc[t]) = GuardsOf(name)[i]
<1> DEFINE name == pc[t].program
           i == pc[t].at
<1>1. /\ pc[t] \in [program : ProgramsOf(t), at : Nat] /\ pc[t] # Idle
      /\ i \in 1..Len(Program(name))
  BY DEF LockInv, IsPlace, Busy
<1>2. name \in ProgramsOf(t) /\ name \in Programs /\ i \in Nat
  BY <1>1 DEF ProgramsOf, Programs
<1>3. LetsGo(Program(name))
  BY <1>2, ProgramsLetGo
<1>4. TellsGuards(GuardsOf(name), Program(name))
  BY <1>3 DEF LetsGo, GuardsOf
<1>5. Program(name) \in Seq(Operations)
  BY <1>3 DEF LetsGo
<1>6. Operation(t) = Program(name)[i] /\ HeldAt(pc[t]) = GuardsOf(name)[i]
  BY <1>1 DEF Operation, Busy, HeldAt
<1>7. pc[t] = [program |-> name, at |-> i]
  BY <1>1
<1> HIDE DEF name, i
<1>8. Len(Program(name)) \in Nat /\ Program(name)[i] \in Operations
  BY <1>1, <1>5 DEF name, i
<1> QED
  BY <1>1, <1>2, <1>4, <1>6, <1>7, <1>8 DEF name, i

LEMMA BeginningOfProgram ==
    ASSUME NEW t \in Tasks, NEW name \in ProgramsOf(t)
    PROVE  IsPlace(t, Beginning(name)) /\ HeldAt(Beginning(name)) = 0
<1>1. name \in Programs
  BY DEF ProgramsOf, Programs
<1>2. LetsGo(Program(name))
  BY <1>1, ProgramsLetGo
<1>3. Program(name) \in Seq(Operations) /\ Len(Program(name)) > 0
      /\ TellsGuards(GuardsOf(name), Program(name))
  BY <1>2 DEF LetsGo, GuardsOf
<1>4. GuardsOf(name)[1] = 0 /\ 1 \in 1..Len(Program(name))
  BY <1>3 DEF TellsGuards
<1> QED
  BY <1>4 DEF IsPlace, HeldAt, Beginning, Idle

(* A program that ends or fails is followed by one of the same task, of    *)
(* which nothing is held yet.                                              *)
LEMMA ProgramEnds ==
    ASSUME LockInv, NEW t \in Tasks, Busy(t)
    PROVE  IsPlace(t, AfterProgram(t)) /\ HeldAt(AfterProgram(t)) = 0
<1>1. CASE AfterProgram(t) = Idle
  BY <1>1 DEF IsPlace, HeldAt
<1>2. CASE AfterProgram(t) # Idle
  <2>1. t = Warmer /\ pc[t].program # Last(Round)
    BY <1>2 DEF AfterProgram
  <2>2. pc[t].program \in WarmPrograms
    BY <2>1, BusyTask DEF ProgramsOf
  <2>3. Last(Round) = "warm_validators" /\ DOMAIN Round = 1..6
    BY DEF Last, Round
  <2>4. PICK i \in 1..5 : Round[i] = pc[t].program
    BY <2>1, <2>2, <2>3 DEF WarmPrograms, Round
  <2>5. \A k \in 1..6 : Round[k] = Round[i] => k = i
    BY DEF Round
  <2>6. (CHOOSE k \in DOMAIN Round : Round[k] = pc[t].program) = i
    BY <2>3, <2>4, <2>5
  <2>7. AfterProgram(t) = Beginning(Round[1 + i])
    BY <2>1, <2>6 DEF AfterProgram
  <2>8. Round[1 + i] \in ProgramsOf(t)
    BY <2>1 DEF Round, ProgramsOf, WarmPrograms
  <2> QED
    BY <2>7, <2>8, BeginningOfProgram
<1> QED
  BY <1>1, <1>2

LEMMA OperationEnds ==
    ASSUME LockInv, NEW t \in Tasks, Busy(t)
    PROVE  /\ IsPlace(t, AfterOperation(t))
           /\ HeldAt(AfterOperation(t)) = GuardsOf(pc[t].program)[pc[t].at + 1]
<1> DEFINE name == pc[t].program
           i == pc[t].at
           p == Program(name)
<1>1. /\ name \in ProgramsOf(t) /\ i \in Nat /\ i \in 1..Len(p) /\ Len(p) \in Nat
      /\ pc[t] = [program |-> name, at |-> i]
      /\ TellsGuards(GuardsOf(name), p)
  BY BusyTask
<1>2. CASE i < Len(p)
  <2>1. AfterOperation(t) = [program |-> name, at |-> i + 1]
    BY <1>1, <1>2 DEF AfterOperation
  <2>2. i + 1 \in 1..Len(p) /\ i + 1 # 0 /\ i + 1 \in Nat
    BY <1>1, <1>2
  <2> QED
    BY <1>1, <2>1, <2>2 DEF IsPlace, HeldAt, Idle
<1>3. CASE ~(i < Len(p))
  <2>1. i = Len(p)
    BY <1>1, <1>3
  <2>2. AfterOperation(t) = AfterProgram(t)
    BY <1>3 DEF AfterOperation
  <2>3. GuardsOf(name)[i + 1] = 0
    BY <1>1, <2>1 DEF TellsGuards
  <2> QED
    BY <2>2, <2>3, ProgramEnds
<1> QED
  BY <1>2, <1>3

(* The next guards of t are as many as held says.                          *)
GuardsBecome(t, held) ==
    /\ held \in 0..WriteGuard
    /\ reading' = [reading EXCEPT ![t] = IF held = WriteGuard THEN 0 ELSE held]
    /\ writing' = IF held = WriteGuard THEN writing \cup {t} ELSE writing \ {t}

(* The others in the queue have been there, and t is not.                  *)
QueueWithout(t) ==
    /\ waiting' \in Seq(Tasks) /\ IsInjective(waiting')
    /\ \A u \in Tasks : u \in Range(waiting') => u # t /\ Waits(u)

(* One task goes to another place, and its guards with it.                 *)
LEMMA TaskMoves ==
    ASSUME LockInv, NEW t \in Tasks, NEW place, IsPlace(t, place),
           pc' = [pc EXCEPT ![t] = place], QueueWithout(t), GuardsBecome(t, HeldAt(place))
    PROVE  LockInv'
<1> DEFINE reads == IF HeldAt(place) = WriteGuard THEN 0 ELSE HeldAt(place)
<1>0. reads \in 0..2
  BY DEF GuardsBecome, WriteGuard
<1>1. /\ pc'[t] = place /\ \A u \in Tasks : u # t => pc'[u] = pc[u]
      /\ pc' = [u \in Tasks |-> pc'[u]]
  BY DEF LockInv
<1>2. /\ reading' \in [Tasks -> 0..2] /\ reading'[t] = reads
      /\ \A u \in Tasks : u # t => reading'[u] = reading[u]
  BY <1>0 DEF LockInv, GuardsBecome
<1>3. /\ writing' \subseteq Tasks /\ (t \in writing' <=> HeldAt(place) = WriteGuard)
      /\ \A u \in Tasks : u # t => (u \in writing' <=> u \in writing)
  BY DEF LockInv, GuardsBecome
<1>4. ASSUME NEW u \in Tasks
      PROVE  IsPlace(u, pc'[u]) /\ HasGuards(u)'
  <2>1. CASE u = t
    BY <1>1, <1>2, <1>3, <2>1 DEF HasGuards
  <2>2. CASE u # t
    BY <1>1, <1>2, <1>3, <2>2 DEF LockInv, HasGuards
  <2> QED
    BY <2>1, <2>2
<1>5. ASSUME NEW u \in Tasks, Waits(u)'
      PROVE  Operation(u)' \in {"read", "write"}
  <2>1. u # t /\ Waits(u)
    BY <1>5 DEF Waits, QueueWithout
  <2>2. Operation(u)' = Operation(u)
    BY <1>1, <2>1 DEF Operation, Busy
  <2> QED
    BY <2>1, <2>2 DEF LockInv
<1> QED
  BY <1>1, <1>2, <1>3, <1>4, <1>5 DEF LockInv, QueueWithout

(* A task that does not wait keeps the queue as it is.                     *)
LEMMA QueueStays ==
    ASSUME LockInv, NEW t \in Tasks, ~Waits(t), UNCHANGED waiting
    PROVE  QueueWithout(t)
  BY DEF LockInv, Waits, QueueWithout

LEMMA NotWaiting ==
    ASSUME LockInv, NEW t \in Tasks, Operation(t) \notin {"read", "write"}
    PROVE  ~Waits(t)
  BY DEF LockInv

LEMMA StartKeeps ==
    ASSUME LockInv, NEW t \in Tasks, NEW name \in ProgramsOf(t), pc[t] = Idle,
           pc' = [pc EXCEPT ![t] = Beginning(name)],
           UNCHANGED <<waiting, reading, writing>>
    PROVE  LockInv'
<1>1. IsPlace(t, Beginning(name)) /\ HeldAt(Beginning(name)) = 0
  BY BeginningOfProgram
<1>2. HeldAt(pc[t]) = 0 /\ Operation(t) = "none"
  BY DEF HeldAt, Operation, Busy
<1>3. ~Waits(t)
  BY <1>2, NotWaiting
<1>4. reading[t] = 0 /\ t \notin writing
  BY <1>2 DEF LockInv, HasGuards, WriteGuard
<1>5. GuardsBecome(t, 0)
  BY <1>4 DEF LockInv, GuardsBecome, WriteGuard
<1>6. QueueWithout(t)
  BY <1>3, QueueStays
<1> QED
  BY <1>1, <1>5, <1>6, TaskMoves

LEMMA ArriveKeeps ==
    ASSUME LockInv, NEW t \in Handlers, NEW r \in Requests, Arrive(t, r)
    PROVE  LockInv'
<1>1. t \in Tasks /\ r \in ProgramsOf(t)
  BY ContextLockAssumption DEF Tasks, ProgramsOf, RequestPrograms
<1> QED
  BY <1>1, StartKeeps DEF Arrive

LEMMA WakeUpKeeps ==
    ASSUME LockInv, WakeUp
    PROVE  LockInv'
<1>1. Warmer \in Tasks /\ Head(Round) \in ProgramsOf(Warmer)
  BY DEF Tasks, ProgramsOf, WarmPrograms, Round
<1> QED
  BY <1>1, StartKeeps DEF WakeUp

LEMMA AskKeeps ==
    ASSUME LockInv, NEW t \in Tasks, Ask(t)
    PROVE  LockInv'
<1>1. /\ Operation(t) \in {"read", "write"} /\ ~Waits(t)
      /\ waiting' = Append(waiting, t) /\ UNCHANGED <<pc, reading, writing>>
  BY DEF Ask
<1>2. /\ waiting \in Seq(Tasks) /\ Len(waiting) \in Nat
      /\ waiting' \in Seq(Tasks) /\ Len(waiting') = Len(waiting) + 1
      /\ waiting'[Len(waiting) + 1] = t
      /\ \A i \in 1..Len(waiting) : waiting'[i] = waiting[i]
  BY <1>1 DEF LockInv
<1>3. \A i \in 1..Len(waiting) : waiting[i] # t
  BY <1>1, <1>2 DEF Waits, Range
<1>4. IsInjective(waiting')
  <2> SUFFICES ASSUME NEW i \in 1..Len(waiting'), NEW j \in 1..Len(waiting'),
                      waiting'[i] = waiting'[j]
               PROVE  i = j
    BY <1>2 DEF IsInjective
  <2>1. CASE i <= Len(waiting) /\ j <= Len(waiting)
    BY <1>2, <2>1 DEF LockInv, IsInjective
  <2>2. CASE i = Len(waiting) + 1
    BY <1>2, <1>3, <2>2
  <2>3. CASE j = Len(waiting) + 1
    BY <1>2, <1>3, <2>3
  <2> QED
    BY <1>2, <2>1, <2>2, <2>3
<1>5. \A u \in Tasks : u \in Range(waiting') => u = t \/ Waits(u)
  BY <1>2 DEF Waits, Range
<1>6. \A u \in Tasks : Waits(u)' => Operation(u)' \in {"read", "write"}
  BY <1>1, <1>5 DEF LockInv, Waits, Operation, Busy
<1>7. \A u \in Tasks : HasGuards(u)' <=> HasGuards(u)
  BY <1>1 DEF HasGuards
<1> QED
  BY <1>1, <1>2, <1>4, <1>6, <1>7 DEF LockInv

LEMMA GrantKeeps ==
    ASSUME LockInv, Grant
    PROVE  LockInv'
<1> DEFINE t == Head(waiting)
           g == GuardsOf(pc[t].program)
           i == pc[t].at
<1>1. /\ waiting # <<>> /\ waiting' = Tail(waiting)
      /\ pc' = [pc EXCEPT ![t] = AfterOperation(t)]
  BY DEF Grant
<1>2. /\ waiting \in Seq(Tasks) /\ Len(waiting) \in Nat /\ Len(waiting) > 0
      /\ t \in Tasks /\ t = waiting[1] /\ waiting' \in Seq(Tasks)
      /\ Len(waiting') = Len(waiting) - 1
      /\ \A k \in 1..Len(waiting') : waiting'[k] = waiting[k + 1]
  BY <1>1 DEF LockInv
<1>3. IsInjective(waiting')
  <2> SUFFICES ASSUME NEW k \in 1..Len(waiting'), NEW l \in 1..Len(waiting'),
                      waiting'[k] = waiting'[l]
               PROVE  k = l
    BY <1>2 DEF IsInjective
  <2>1. k + 1 \in 1..Len(waiting) /\ l + 1 \in 1..Len(waiting)
        /\ waiting[k + 1] = waiting[l + 1]
    BY <1>2
  <2>2. k + 1 = l + 1
    BY <1>2, <2>1 DEF LockInv, IsInjective
  <2> QED
    BY <2>2
<1>4. ASSUME NEW u \in Tasks, u \in Range(waiting')
      PROVE  u # t /\ Waits(u)
  <2>1. PICK k \in 1..Len(waiting') : u = waiting'[k]
    BY <1>2, <1>4 DEF Range
  <2>2. k + 1 \in 1..Len(waiting) /\ u = waiting[k + 1] /\ k + 1 # 1 /\ 1 \in 1..Len(waiting)
    BY <1>2, <2>1
  <2>3. u # waiting[1]
    BY <1>2, <2>2 DEF LockInv, IsInjective
  <2> QED
    BY <1>2, <2>2, <2>3 DEF Waits, Range
<1>13. QueueWithout(t)
  BY <1>2, <1>3, <1>4 DEF QueueWithout
<1>5. Waits(t)
  BY <1>2 DEF Waits, Range
<1>6. Operation(t) \in {"read", "write"}
  BY <1>2, <1>5 DEF LockInv
<1>7. Busy(t)
  BY <1>6 DEF Operation
<1> HIDE DEF t
<1>8. /\ i \in Nat /\ i \in 1..Len(Program(pc[t].program))
      /\ Operation(t) = Program(pc[t].program)[i]
      /\ TellsGuards(g, Program(pc[t].program))
      /\ HeldAt(pc[t]) = g[i]
  BY <1>2, <1>7, BusyTask
<1>9. IsPlace(t, AfterOperation(t)) /\ HeldAt(AfterOperation(t)) = g[i + 1]
  BY <1>2, <1>7, OperationEnds
<1>10. HasGuards(t)
  BY <1>2 DEF LockInv
<1>11. CASE Operation(t) = "read"
  <2>1. g[i] \in 0..1 /\ g[i + 1] = g[i] + 1
    BY <1>8, <1>11 DEF TellsGuards
  <2>2. reading[t] = g[i] /\ t \notin writing
    BY <1>8, <1>10, <2>1 DEF HasGuards, WriteGuard
  <2>3. reading' = [reading EXCEPT ![t] = reading[t] + 1] /\ writing' = writing
    BY <1>11 DEF Grant, t
  <2>4. reading' = [reading EXCEPT ![t] = g[i + 1]] /\ writing' = writing \ {t}
    BY <2>1, <2>2, <2>3
  <2>5. g[i + 1] \in 0..2 /\ g[i + 1] # WriteGuard
    BY <2>1 DEF WriteGuard
  <2> HIDE DEF g, i
  <2>6. GuardsBecome(t, g[i + 1])
    BY <2>4, <2>5 DEF GuardsBecome, WriteGuard
  <2> QED
    BY <1>1, <1>2, <1>9, <1>13, <2>6, TaskMoves DEF t
<1>12. CASE Operation(t) = "write"
  <2>1. g[i] = 0 /\ g[i + 1] = WriteGuard
    BY <1>8, <1>12 DEF TellsGuards
  <2>2. reading[t] = 0
    BY <1>8, <1>10, <2>1 DEF HasGuards, WriteGuard
  <2>3. reading' = reading
    BY <1>12 DEF Grant, t
  <2>4. reading' = [reading EXCEPT ![t] = 0]
    BY <2>2, <2>3 DEF LockInv
  <2>7. writing' = writing \cup {t}
    BY <1>12 DEF Grant, t
  <2> HIDE DEF g, i
  <2>5. GuardsBecome(t, WriteGuard)
    BY <2>4, <2>7 DEF GuardsBecome, WriteGuard
  <2>6. GuardsBecome(t, g[i + 1])
    BY <2>1, <2>5
  <2> QED
    BY <1>1, <1>2, <1>9, <1>13, <2>6, TaskMoves DEF t
<1> QED
  BY <1>6, <1>11, <1>12

LEMMA ReleaseKeeps ==
    ASSUME LockInv, NEW t \in Tasks, Release(t)
    PROVE  LockInv'
<1> DEFINE g == GuardsOf(pc[t].program)
           i == pc[t].at
<1>1. /\ Operation(t) = "release" /\ Busy(t) /\ UNCHANGED waiting
      /\ pc' = [pc EXCEPT ![t] = AfterOperation(t)]
      /\ reading' = [reading EXCEPT ![t] = 0] /\ writing' = writing \ {t}
  BY DEF Release, DropGuards, Operation
<1>2. IsPlace(t, AfterOperation(t)) /\ HeldAt(AfterOperation(t)) = g[i + 1]
  BY <1>1, OperationEnds
<1>3. g[i + 1] = 0
  <2>1. /\ i \in 1..Len(Program(pc[t].program)) /\ Operation(t) = Program(pc[t].program)[i]
        /\ TellsGuards(g, Program(pc[t].program))
    BY <1>1, BusyTask
  <2> QED
    BY <1>1, <2>1 DEF TellsGuards
<1>4. ~Waits(t)
  BY <1>1, NotWaiting
<1>5. QueueWithout(t)
  BY <1>1, <1>4, QueueStays
<1>6. GuardsBecome(t, 0)
  BY <1>1 DEF GuardsBecome, WriteGuard
<1> QED
  BY <1>1, <1>2, <1>3, <1>5, <1>6, TaskMoves

LEMMA QuerySucceedsKeeps ==
    ASSUME LockInv, NEW t \in Tasks, QuerySucceeds(t)
    PROVE  LockInv'
<1> DEFINE g == GuardsOf(pc[t].program)
           i == pc[t].at
<1>1. /\ Operation(t) = "query" /\ Busy(t) /\ UNCHANGED <<waiting, reading, writing>>
      /\ pc' = [pc EXCEPT ![t] = AfterOperation(t)]
  BY DEF QuerySucceeds, Operation
<1>2. IsPlace(t, AfterOperation(t)) /\ HeldAt(AfterOperation(t)) = g[i + 1]
  BY <1>1, OperationEnds
<1>3. g[i + 1] = g[i] /\ HeldAt(pc[t]) = g[i] /\ g[i] \in 0..WriteGuard
  <2>1. /\ i \in 1..Len(Program(pc[t].program)) /\ Len(Program(pc[t].program)) \in Nat
        /\ Operation(t) = Program(pc[t].program)[i]
        /\ TellsGuards(g, Program(pc[t].program)) /\ HeldAt(pc[t]) = g[i]
    BY <1>1, BusyTask
  <2> QED
    BY <1>1, <2>1 DEF TellsGuards
<1>4. ~Waits(t)
  BY <1>1, NotWaiting
<1>5. QueueWithout(t)
  BY <1>1, <1>4, QueueStays
<1>6. /\ HasGuards(t) /\ writing \subseteq Tasks
      /\ reading' = [reading EXCEPT ![t] = reading[t]]
  BY <1>1 DEF LockInv
<1> HIDE DEF g, i
<1>7. GuardsBecome(t, g[i])
  BY <1>1, <1>3, <1>6 DEF HasGuards, GuardsBecome
<1> QED
  BY <1>1, <1>2, <1>3, <1>5, <1>7, TaskMoves

LEMMA QueryFailsKeeps ==
    ASSUME LockInv, NEW t \in Tasks, QueryFails(t)
    PROVE  LockInv'
<1>1. /\ Operation(t) = "query" /\ Busy(t) /\ UNCHANGED waiting
      /\ pc' = [pc EXCEPT ![t] = AfterProgram(t)]
      /\ reading' = [reading EXCEPT ![t] = 0] /\ writing' = writing \ {t}
  BY DEF QueryFails, DropGuards, Operation
<1>2. IsPlace(t, AfterProgram(t)) /\ HeldAt(AfterProgram(t)) = 0
  BY <1>1, ProgramEnds
<1>3. ~Waits(t)
  BY <1>1, NotWaiting
<1>4. QueueWithout(t)
  BY <1>1, <1>3, QueueStays
<1>5. GuardsBecome(t, 0)
  BY <1>1 DEF GuardsBecome, WriteGuard
<1> QED
  BY <1>1, <1>2, <1>4, <1>5, TaskMoves

LEMMA LockInvariance ==
    ASSUME LockInv, [Next]_vars
    PROVE  LockInv'
<1>1. ASSUME NEW t \in Tasks, TaskStep(t)
      PROVE  LockInv'
  BY <1>1, AskKeeps, ReleaseKeeps, QuerySucceedsKeeps, QueryFailsKeeps DEF TaskStep
<1>2. CASE UNCHANGED vars
  BY <1>2 DEF vars, LockInv, IsPlace, HasGuards, Waits, Operation, Busy
<1> QED
  BY <1>1, <1>2, ArriveKeeps, WakeUpKeeps, GrantKeeps DEF Next

LEMMA LockInitially ==
    ASSUME Init
    PROVE  LockInv
<1>1. \A t \in Tasks : pc[t] = Idle /\ IsPlace(t, pc[t]) /\ HeldAt(pc[t]) = 0
  BY DEF Init, IsPlace, HeldAt
<1>2. Range(waiting) = {} /\ waiting \in Seq(Tasks) /\ IsInjective(waiting)
  BY DEF Init, Range, IsInjective
<1>3. pc = [t \in Tasks |-> pc[t]]
  BY DEF Init
<1> QED
  BY <1>1, <1>2, <1>3 DEF Init, LockInv, HasGuards, Waits, WriteGuard

THEOREM LockHolds == Spec => []LockInv
  BY LockInitially, LockInvariance, PTL DEF Spec

LEMMA LockTypes ==
    ASSUME LockInv
    PROVE  TypeOK
<1>1. \A t \in Tasks : Busy(t) => pc[t].at \in DOMAIN Program(pc[t].program)
  <2> SUFFICES ASSUME NEW t \in Tasks, Busy(t)
               PROVE  pc[t].at \in DOMAIN Program(pc[t].program)
    OBVIOUS
  <2>1. pc[t].program \in Programs /\ pc[t].at \in 1..Len(Program(pc[t].program))
    BY BusyTask
  <2>2. Program(pc[t].program) \in Seq(Operations)
    BY <2>1, ProgramsLetGo DEF LetsGo
  <2> QED
    BY <2>1, <2>2
<1> QED
  BY <1>1 DEF LockInv, TypeOK

(* A holder is busy, and can go on unless it waits for a second read guard.*)
LEMMA HoldersGoOn ==
    ASSUME LockInv, NEW t \in Tasks, Holds(t)
    PROVE  /\ Busy(t)
           /\ Waits(t) => Operation(t) = "read" /\ reading[t] > 0 /\ t \notin writing
<1>1. HasGuards(t)
  BY DEF LockInv
<1>2. HeldAt(pc[t]) # 0
  BY <1>1 DEF HasGuards, Holds, WriteGuard
<1>3. Busy(t)
  BY <1>2 DEF HeldAt, Busy
<1> DEFINE g == GuardsOf(pc[t].program)
           i == pc[t].at
<1>4. /\ i \in 1..Len(Program(pc[t].program)) /\ Operation(t) = Program(pc[t].program)[i]
      /\ TellsGuards(g, Program(pc[t].program)) /\ HeldAt(pc[t]) = g[i]
  BY <1>3, BusyTask
<1>5. ASSUME Waits(t)
      PROVE  Operation(t) = "read" /\ reading[t] > 0 /\ t \notin writing
  <2>1. Operation(t) \in {"read", "write"}
    BY <1>5 DEF LockInv
  <2>2. Operation(t) = "read"
    BY <1>2, <1>4, <2>1 DEF TellsGuards
  <2>3. HeldAt(pc[t]) \in 0..1
    BY <1>4, <2>2 DEF TellsGuards
  <2> QED
    BY <1>1, <1>2, <2>2, <2>3 DEF HasGuards, WriteGuard
<1> QED
  BY <1>3, <1>5

LEMMA StuckByNestedRead ==
    ASSUME LockInv
    PROVE  StuckOnlyByNestedRead
<1> SUFFICES ASSUME waiting # <<>>, ~CanGrant(Head(waiting)),
                    ~ \E t \in Tasks : Holds(t) /\ Busy(t) /\ ~Waits(t)
             PROVE  LockedUp
  BY DEF StuckOnlyByNestedRead
<1> DEFINE h == Head(waiting)
<1>1. /\ waiting \in Seq(Tasks) /\ Len(waiting) \in Nat /\ 1 \in 1..Len(waiting)
      /\ h = waiting[1] /\ h \in Tasks
  BY DEF LockInv
<1>2. Waits(h)
  BY <1>1 DEF Waits, Range
<1>3. \A t \in Tasks : Holds(t) => Waits(t) /\ Operation(t) = "read" /\ t \notin writing
  BY HoldersGoOn
<1>4. writing = {}
  BY <1>3 DEF LockInv, Holds
<1>5. Operation(h) = "write"
  BY <1>1, <1>2, <1>4 DEF LockInv, CanGrant
<1>6. PICK t \in Tasks : reading[t] # 0
  BY <1>4, <1>5 DEF CanGrant
<1>7. Holds(t)
  BY <1>6 DEF LockInv, Holds
<1>8. Waits(t) /\ Operation(t) = "read"
  BY <1>3, <1>7
<1>9. PICK j \in 1..Len(waiting) : waiting[j] = t
  BY <1>1, <1>8 DEF Waits, Range
<1>10. 1 < j
  BY <1>1, <1>5, <1>8, <1>9
<1> HIDE DEF h
<1> QED
  BY <1>1, <1>2, <1>5, <1>7, <1>8, <1>9, <1>10 DEF LockedUp

(* Every variable of the lock holds a value of its kind.                   *)
THEOREM LockTypeCorrect == Spec => []TypeOK
  BY LockHolds, LockTypes, PTL

-----------------------------------------------------------------------------
(* The loading of scores *)

LoaderInv ==
    /\ loader \in Loads
    /\ loader.channel \cup loader.result = loader.answered
    /\ loader.step = "query" => loader = NoLoad
    /\ loader.step = "loaded" =>
          /\ loader.fetching = {} /\ loader.channel = {}
          /\ loader.scored = loader.result
          /\ loader.newest = Max(loader.result \cup {0})

(* A nonempty set of natural numbers has a least element.                  *)
LEMMA LeastOfNaturals ==
    ASSUME NEW S \in SUBSET Nat, S # {}
    PROVE  \E x \in S : \A y \in S : x <= y
<1> DEFINE R == OpToRel(<, Nat)
<1>1. IsWellFoundedOn(R, Nat)
  BY NatLessThanWellFounded
<1>2. \A x, y \in Nat : <<y, x>> \in R <=> y < x
  BY DEF OpToRel
<1> HIDE DEF R
<1>3. PICK x \in S : \A y \in S : ~ (<<y, x>> \in R)
  BY <1>1, WFMin
<1>4. ASSUME NEW y \in S PROVE x <= y
  <2>1. x \in Nat /\ y \in Nat /\ ~ (y < x)
    BY <1>2, <1>3
  <2> QED
    BY <2>1
<1> QED
  BY <1>4

(* The greatest of a set of epochs is one of them.                         *)
LEMMA NewestOfEpochs ==
    ASSUME NEW epochs \in SUBSET EpochRange
    PROVE  Max(epochs \cup {0}) \in 0..LastEpoch
<1> DEFINE S == epochs \cup {0}
           T == {LastEpoch - e : e \in S}
<1>1. S \in SUBSET (0..LastEpoch) /\ LastEpoch \in Nat
  BY EpochScoresAssumption DEF EpochRange
<1>2. T \in SUBSET Nat /\ T # {}
  BY <1>1
<1>3. PICK t \in T : \A y \in T : t <= y
  BY <1>2, LeastOfNaturals
<1>4. PICK x \in S : t = LastEpoch - x
  OBVIOUS
<1>5. \A y \in S : x >= y
  <2> SUFFICES ASSUME NEW y \in S
               PROVE  x >= y
    OBVIOUS
  <2>1. LastEpoch - x <= LastEpoch - y
    BY <1>3, <1>4
  <2>2. x \in 0..LastEpoch /\ y \in 0..LastEpoch
    BY <1>1
  <2> HIDE DEF S, T
  <2> QED
    BY <1>1, <2>1, <2>2
<1>6. Max(S) \in S
  BY <1>5 DEF Max
<1> QED
  BY <1>1, <1>6

LEMMA LoaderInvariance ==
    ASSUME LoaderInv, [LoadingNext]_loadingVars
    PROVE  LoaderInv'
<1> USE EpochScoresAssumption
<1>1. CASE BeginScores
  BY <1>1 DEF BeginScores, AtStep, LoaderInv, Loads, NoLoad
<1>2. CASE SpawnFetch
  <2>1. loader' = [loader EXCEPT !.fetching = @ \cup {loader.next}, !.next = @ + 1]
        /\ loader.step = "spawn" /\ loader.next <= LastEpoch
    BY <1>2 DEF SpawnFetch, AtStep
  <2>2. loader.next \in EpochRange /\ loader.next + 1 \in 1..LastEpoch + 1
    BY <2>1 DEF LoaderInv, Loads, EpochRange
  <2> QED
    BY <2>1, <2>2 DEF LoaderInv, Loads
<1>3. CASE DropSender
  BY <1>3 DEF DropSender, AtStep, LoaderInv, Loads
<1>4. ASSUME NEW e \in EpochRange, FetchSucceeds(e)
      PROVE  LoaderInv'
  <2>1. /\ loader' = [loader EXCEPT !.fetching = @ \ {e}, !.channel = @ \cup {e},
                                    !.answered = @ \cup {e}]
        /\ e \in loader.fetching
    BY <1>4 DEF FetchSucceeds
  <2>2. loader.step # "query" /\ loader.step # "loaded"
    BY <2>1 DEF LoaderInv, NoLoad
  <2> QED
    BY <2>1, <2>2 DEF LoaderInv, Loads
<1>5. ASSUME NEW e \in EpochRange, FetchFails(e)
      PROVE  LoaderInv'
  <2>1. loader' = [loader EXCEPT !.fetching = @ \ {e}] /\ e \in loader.fetching
    BY <1>5 DEF FetchFails
  <2>2. loader.step # "query" /\ loader.step # "loaded"
    BY <2>1 DEF LoaderInv, NoLoad
  <2> QED
    BY <2>1, <2>2 DEF LoaderInv, Loads
<1>6. ASSUME NEW e \in EpochRange, Receive(e)
      PROVE  LoaderInv'
  <2>1. /\ loader' = [loader EXCEPT !.channel = @ \ {e}, !.result = @ \cup {e}]
        /\ e \in loader.channel
    BY <1>6 DEF Receive
  <2>2. loader.step # "query" /\ loader.step # "loaded"
    BY <2>1 DEF LoaderInv, NoLoad
  <2> QED
    BY <2>1, <2>2 DEF LoaderInv, Loads
<1>7. CASE JoinReceiver
  <2>1. /\ loader' = [loader EXCEPT !.step = "loaded", !.scored = loader.result,
                                    !.newest = Max(loader.result \cup {0})]
        /\ loader.fetching = {} /\ loader.channel = {}
    BY <1>7 DEF JoinReceiver, AtStep, ChannelEnds, Senders
  <2>2. loader.result \in SUBSET EpochRange
    BY DEF LoaderInv, Loads
  <2>3. Max(loader.result \cup {0}) \in 0..LastEpoch
    BY <2>2, NewestOfEpochs
  <2> QED
    BY <2>1, <2>3 DEF LoaderInv, Loads
<1>8. ASSUME loader' = NoLoad
      PROVE  LoaderInv'
  BY <1>8 DEF LoaderInv, Loads, NoLoad
<1>9. ASSUME UNCHANGED loader
      PROVE  LoaderInv'
  BY <1>9 DEF LoaderInv
<1>10. CASE LoadingFails \/ LoadingSucceeds
  BY <1>8, <1>10 DEF LoadingFails, LoadingSucceeds
<1> QED
  BY <1>1, <1>2, <1>3, <1>4, <1>5, <1>6, <1>7, <1>9, <1>10
     DEF LoadingNext, LoadingStep, Answer, OtherStep, loadingVars

(* The loading of scores is part of what the warmer does with the lock:    *)
(* each of its steps is a step of ContextLock, or none.                    *)
LEMMA LoadingStepIsLockStep ==
    ASSUME [LoadingNext]_loadingVars
    PROVE  [Next]_vars
<1>1. Warmer \in Tasks
  BY DEF Tasks
<1>2. CASE LoadingStep
  BY <1>1, <1>2
     DEF LoadingStep, BeginScores, SpawnFetch, DropSender, Answer, FetchSucceeds, FetchFails,
         Receive, JoinReceiver, LoadingFails, LoadingSucceeds, Next, TaskStep
<1>3. CASE \E t \in Tasks : OtherStep(t)
  BY <1>3 DEF OtherStep, Next
<1>4. CASE UNCHANGED loadingVars
  BY <1>4 DEF loadingVars
<1> QED
  BY <1>2, <1>3, <1>4 DEF LoadingNext, Next

LEMMA LoadingInvariance == LoadingSpec => [](LockInv /\ LoaderInv)
<1>1. LoadingInit => LockInv /\ LoaderInv
  <2>1. ASSUME LoadingInit
        PROVE  LockInv
    BY <2>1, LockInitially DEF LoadingInit
  <2>2. ASSUME LoadingInit
        PROVE  LoaderInv
    BY <2>2, EpochScoresAssumption DEF LoadingInit, LoaderInv, Loads, NoLoad
  <2> QED
    BY <2>1, <2>2
<1>2. LockInv /\ LoaderInv /\ [LoadingNext]_loadingVars => LockInv' /\ LoaderInv'
  BY LoadingStepIsLockStep, LockInvariance, LoaderInvariance
<1> QED
  BY <1>1, <1>2, PTL DEF LoadingSpec

(* Every variable holds a value of its kind, also while scores are loaded. *)
THEOREM LoadingTypeCorrect == LoadingSpec => []LoadingTypeOK
<1>1. LockInv /\ LoaderInv => LoadingTypeOK
  BY LockTypes DEF LoadingTypeOK, LoaderInv
<1> QED
  BY <1>1, LoadingInvariance, PTL

(* With any number of handlers and of queries that fail, the lock is stuck *)
(* only where a second read has met a writer.                              *)
THEOREM LockedUpByNestedRead == LoadingSpec => []StuckOnlyByNestedRead
  BY LoadingInvariance, StuckByNestedRead, PTL

(* The records get the scores of every epoch that the service answered,    *)
(* for any number of epochs and workers, and none of another round.        *)
THEOREM AllAnswersLoaded == LoadingSpec => []AnsweredScoresLoaded
<1>1. LoaderInv => AnsweredScoresLoaded
  BY DEF LoaderInv, AnsweredScoresLoaded
<1> QED
  BY <1>1, LoadingInvariance, PTL

(* The warmer that loads scores keeps to its programs for the lock.        *)
THEOREM LoadingKeepsToLock == LoadingSpec => Init /\ [][Next]_vars
<1>1. LoadingInit => Init
  BY DEF LoadingInit
<1> QED
  BY <1>1, LoadingStepIsLockStep, PTL DEF LoadingSpec

-----------------------------------------------------------------------------
(* What the cache holds of uploaded scores                                 *)

(* The newest run that is not being uploaded.                              *)
LastPublished ==
    IF upload = NoUpload THEN LastScoringRun ELSE LastScoringRun - 1

ScoresUpTo(run) == {s \in scores : s.scoring_run_id <= run}

(* The steps at which the warmer already has the result of a query.        *)
AfterScoringRuns == {"write_single", "write_multi"}
AfterAllScores == AfterScoringRuns \cup {"last_run_again", "scoring_runs"}
AfterScores == AfterAllScores \cup {"all_scores"}

-----------------------------------------------------------------------------
(* The inductive invariant                                                 *)

(* Runs are numbered without gaps.                                         *)
RunsNumbered ==
    /\ LastScoringRun \in 0..MaxRuns
    /\ scoring_runs = 1..LastScoringRun

(* Only the last run can be incomplete, and it has its first chunks.       *)
UploadOfLastRun ==
    upload # NoUpload =>
        /\ upload.run = LastScoringRun
        /\ LastScoringRun > 0
        /\ ScoresOf(upload.run) =
               {[scoring_run_id |-> upload.run, chunk |-> c] : c \in 1..upload.stored}

(* What the cache holds was published, though at four different times.     *)
CachedWhenPublished ==
    \E run, loaded, listed \in 0..LastPublished :
        /\ cache.single.scoring_run \in run..LastPublished
        /\ cache.single.scores = ScoresOf(run)
        /\ loaded <= listed
        /\ cache.multi = [scoring_runs |-> 1..listed, scores |-> ScoresUpTo(loaded)]
        /\ warm.step # "write_multi" =>
               cache.single.scoring_run <= listed /\ run <= loaded

(* What the warmer has loaded was published too, each query sees no less   *)
(* than the one before, and the first no less than what is in the cache.   *)
LoadedInOrder ==
    \E run, loaded, listed \in 0..LastPublished :
        /\ run <= loaded /\ loaded <= listed
        /\ warm.step # "last_run" => warm.loaded.single.scoring_run \in run..LastPublished
        /\ warm.step \notin {"last_run", "write_multi"} => cache.single.scoring_run <= run
        /\ warm.step = "scores" => warm.loaded.single.scoring_run = run
        /\ warm.step \in AfterScores => warm.loaded.single.scores = ScoresOf(run)
        /\ warm.step \in AfterAllScores =>
               /\ warm.loaded.multi.scores = ScoresUpTo(loaded)
               /\ cache.multi.scoring_runs \subseteq 1..loaded
        /\ warm.step \in AfterScoringRuns =>
               /\ warm.loaded.multi.scoring_runs = 1..listed
               /\ warm.loaded.single.scoring_run <= listed
        /\ warm.step = "write_multi" => cache.single = warm.loaded.single

IInv ==
    /\ ScoresTypeOK
    /\ RunsNumbered
    /\ UploadOfLastRun
    /\ CachedWhenPublished
    /\ LoadedInOrder

-----------------------------------------------------------------------------
(* The order of the warmer's steps, and the last of runs without gaps      *)

LEMMA StepsInOrder ==
    /\ StepAfter("last_run") = "scores"
    /\ StepAfter("scores") = "all_scores"
    /\ StepAfter("all_scores") = "last_run_again"
    /\ StepAfter("last_run_again") = "scoring_runs"
    /\ StepAfter("scoring_runs") = "write_single"
    /\ Range(WarmSteps) =
           {"last_run", "scores", "all_scores", "last_run_again", "scoring_runs",
            "write_single", "write_multi"}
<1>1. DOMAIN WarmSteps = 1..7
  BY DEF WarmSteps
<1>2. /\ WarmSteps[1] = "last_run" /\ WarmSteps[2] = "scores"
      /\ WarmSteps[3] = "all_scores" /\ WarmSteps[4] = "last_run_again"
      /\ WarmSteps[5] = "scoring_runs" /\ WarmSteps[6] = "write_single"
      /\ WarmSteps[7] = "write_multi"
  BY DEF WarmSteps
<1>3. 1..7 = {1, 2, 3, 4, 5, 6, 7}
  OBVIOUS
<1>4. ASSUME NEW n \in 1..6
      PROVE  StepAfter(WarmSteps[n]) = WarmSteps[n + 1]
  <2>1. n \in DOMAIN WarmSteps /\ \A i \in DOMAIN WarmSteps : WarmSteps[i] = WarmSteps[n] => i = n
    BY <1>1, <1>2, <1>3
  <2>2. (CHOOSE i \in DOMAIN WarmSteps : WarmSteps[i] = WarmSteps[n]) = n
    BY <2>1
  <2> QED
    BY <2>2, Zenon DEF StepAfter
<1>5. /\ StepAfter(WarmSteps[1]) = WarmSteps[2]
      /\ StepAfter(WarmSteps[2]) = WarmSteps[3]
      /\ StepAfter(WarmSteps[3]) = WarmSteps[4]
      /\ StepAfter(WarmSteps[4]) = WarmSteps[5]
      /\ StepAfter(WarmSteps[5]) = WarmSteps[6]
  <2>1. /\ 1 + 1 = 2 /\ 2 + 1 = 3 /\ 3 + 1 = 4 /\ 4 + 1 = 5 /\ 5 + 1 = 6
        /\ 1 \in 1..6 /\ 2 \in 1..6 /\ 3 \in 1..6 /\ 4 \in 1..6 /\ 5 \in 1..6
    OBVIOUS
  <2>2. /\ StepAfter(WarmSteps[1]) = WarmSteps[1 + 1]
        /\ StepAfter(WarmSteps[2]) = WarmSteps[2 + 1]
        /\ StepAfter(WarmSteps[3]) = WarmSteps[3 + 1]
        /\ StepAfter(WarmSteps[4]) = WarmSteps[4 + 1]
        /\ StepAfter(WarmSteps[5]) = WarmSteps[5 + 1]
    BY <1>4, <2>1, Zenon
  <2> QED
    BY <2>1, <2>2, Zenon
<1>9. Range(WarmSteps) =
          {"last_run", "scores", "all_scores", "last_run_again", "scoring_runs",
           "write_single", "write_multi"}
  BY <1>1, <1>2, <1>3 DEF Range
<1> QED
  BY <1>2, <1>5, <1>9, Zenon

LEMMA LastOfFirst ==
    ASSUME NEW n \in Nat
    PROVE  /\ (IF 1..n = {} THEN NoRun ELSE Max(1..n)) = n
           /\ Max(1..n \cup {NoRun}) = n
           /\ Cardinality(1..n) = n
<1>1. Cardinality(1..n) = n
  BY FS_Interval
<1>2. n > 0 => Max(1..n) = n
  BY DEF Max
<1>3. Max(1..n \cup {NoRun}) = n
  BY DEF Max, NoRun
<1> QED
  BY <1>1, <1>2, <1>3 DEF NoRun

(* What the tables show is kept by what becomes of the last run.           *)
TablesGrow ==
    /\ LastPublished \in Nat /\ LastPublished' \in Nat
    /\ LastPublished <= LastPublished'
    /\ \A run \in 0..LastPublished :
           ScoresOf(run)' = ScoresOf(run) /\ ScoresUpTo(run)' = ScoresUpTo(run)

LEMMA CacheOfGrownTables ==
    ASSUME CachedWhenPublished, LoadedInOrder, TablesGrow, UNCHANGED <<cache, warm>>
    PROVE  CachedWhenPublished' /\ LoadedInOrder'
<1> USE DEF TablesGrow
<1>1. 0..LastPublished \subseteq 0..LastPublished'
  OBVIOUS
<1>2. CachedWhenPublished'
  <2>1. PICK run \in 0..LastPublished, loaded \in 0..LastPublished,
             listed \in 0..LastPublished :
          /\ cache.single.scoring_run \in run..LastPublished
          /\ cache.single.scores = ScoresOf(run)
          /\ loaded <= listed
          /\ cache.multi = [scoring_runs |-> 1..listed, scores |-> ScoresUpTo(loaded)]
          /\ warm.step # "write_multi" =>
                 cache.single.scoring_run <= listed /\ run <= loaded
    BY DEF CachedWhenPublished
  <2>2. /\ ScoresOf(run)' = ScoresOf(run) /\ ScoresUpTo(loaded)' = ScoresUpTo(loaded)
        /\ cache' = cache /\ warm' = warm
    BY <2>1
  <2>3. /\ run \in 0..LastPublished' /\ loaded \in 0..LastPublished'
        /\ listed \in 0..LastPublished'
        /\ cache'.single.scoring_run \in run..LastPublished'
    BY <1>1, <2>1, <2>2
  <2>4. /\ cache'.single.scores = ScoresOf(run)'
        /\ cache'.multi = [scoring_runs |-> 1..listed, scores |-> ScoresUpTo(loaded)']
    BY <2>1, <2>2, Zenon
  <2> QED
    BY <2>1, <2>2, <2>3, <2>4 DEF CachedWhenPublished
<1>3. LoadedInOrder'
  BY <1>1 DEF LoadedInOrder
<1> QED
  BY <1>2, <1>3

-----------------------------------------------------------------------------
(* The upload                                                              *)

LEMMA RunInserted ==
    ASSUME ScoresTypeOK, RunsNumbered, NEW chunks \in 0..MaxChunks, InsertScoringRun(chunks)
    PROVE  /\ LastScoringRun' = LastScoringRun + 1
           /\ scoring_runs' = 1..(LastScoringRun + 1)
           /\ LastScoringRun + 1 \in RunId
           /\ upload' = [run |-> LastScoringRun + 1, chunks |-> chunks, stored |-> 0]
<1>1. LastScoringRun \in Nat /\ Cardinality(scoring_runs) = LastScoringRun
  <2>1. LastScoringRun \in Nat /\ scoring_runs = 1..LastScoringRun
    BY DEF RunsNumbered
  <2>2. Cardinality(1..LastScoringRun) = LastScoringRun
    BY <2>1, LastOfFirst
  <2> QED
    BY <2>1, <2>2, Zenon
<1>2. scoring_runs' = 1..(LastScoringRun + 1)
  BY <1>1 DEF RunsNumbered, InsertScoringRun
<1>3. LastScoringRun' = LastScoringRun + 1
  <2>1. LastScoringRun' = IF scoring_runs' = {} THEN NoRun ELSE Max(scoring_runs')
    BY DEF LastScoringRun
  <2>2. LastScoringRun + 1 \in Nat
    BY <1>1
  <2> QED
    BY <1>2, <2>1, <2>2, LastOfFirst
<1>4. LastScoringRun + 1 \in RunId
  BY <1>1, ScoresCacheAssumption DEF RunsNumbered, InsertScoringRun, RunId
<1> QED
  BY <1>1, <1>2, <1>3, <1>4 DEF InsertScoringRun

(* Whatever leaves the list of runs alone leaves the last run alone.       *)
LEMMA SameLastRun ==
    ASSUME UNCHANGED scoring_runs
    PROVE  LastScoringRun' = LastScoringRun
BY DEF LastScoringRun

LEMMA UploadGrowsTables ==
    ASSUME ScoresTypeOK, RunsNumbered, UploadOfLastRun,
           \/ \E chunks \in 0..MaxChunks : InsertScoringRun(chunks)
           \/ InsertScores
           \/ UNCHANGED <<scoring_runs, scores>> /\ upload' = NoUpload
    PROVE  RunsNumbered' /\ UploadOfLastRun' /\ TablesGrow
<1> USE ScoresCacheAssumption
<1>1. /\ LastScoringRun \in Nat /\ LastPublished \in Nat
      /\ LastPublished <= LastScoringRun
  BY DEF RunsNumbered, UploadOfLastRun, LastPublished
<1>2. \A s \in scores : s.scoring_run_id \in 1..LastScoringRun
  BY DEF ScoresTypeOK, RunsNumbered
<1>3. NoUpload.run = 0
  BY DEF NoUpload, NoRun
<1>4. CASE \E chunks \in 0..MaxChunks : InsertScoringRun(chunks)
  <2>1. PICK chunks \in 0..MaxChunks : InsertScoringRun(chunks)
    BY <1>4
  <2>2. /\ LastScoringRun' = LastScoringRun + 1
        /\ scoring_runs' = 1..(LastScoringRun + 1)
        /\ LastScoringRun + 1 \in RunId
        /\ upload' = [run |-> LastScoringRun + 1, chunks |-> chunks, stored |-> 0]
    BY <2>1, RunInserted
  <2>3. scores' = scores /\ upload = NoUpload
    BY <2>1 DEF InsertScoringRun
  <2>4. upload' # NoUpload
    BY <2>2, <1>1, <1>3
  <2>5. RunsNumbered'
    BY <2>2, <1>1 DEF RunsNumbered, RunId
  <2>6. LastPublished' = LastScoringRun /\ LastPublished = LastScoringRun
    BY <1>1, <2>2, <2>3, <2>4 DEF LastPublished
  <2>7. TablesGrow
    BY <1>1, <2>3, <2>6 DEF TablesGrow, ScoresOf, ScoresUpTo
  <2>8. {s \in scores' : s.scoring_run_id = LastScoringRun + 1} = {}
    BY <1>1, <1>2, <2>3
  <2>9. UploadOfLastRun'
    <3>1. upload'.run = LastScoringRun + 1 /\ upload'.stored = 0
      BY <2>2
    <3>2. {[scoring_run_id |-> upload'.run, chunk |-> c] : c \in 1..upload'.stored} = {}
      BY <3>1
    <3>3. ScoresOf(upload.run)' = {}
      BY <2>8, <3>1 DEF ScoresOf
    <3> QED
      BY <1>1, <2>2, <3>1, <3>2, <3>3 DEF UploadOfLastRun
  <2> QED
    BY <2>5, <2>7, <2>9
<1>5. CASE InsertScores
  <2> DEFINE new == [scoring_run_id |-> upload.run, chunk |-> upload.stored + 1]
  <2>1. /\ scores' = scores \cup {new} /\ UNCHANGED scoring_runs
        /\ upload # NoUpload /\ upload.stored < upload.chunks
        /\ upload' = [upload EXCEPT !.stored = @ + 1]
    BY <1>5 DEF InsertScores
  <2>2. /\ upload'.run = upload.run /\ upload'.stored = upload.stored + 1
        /\ upload.stored \in Nat /\ upload.run = LastScoringRun /\ LastScoringRun > 0
    BY <2>1 DEF ScoresTypeOK, UploadOfLastRun
  <2>3. LastScoringRun' = LastScoringRun /\ upload' # NoUpload
    <3>1. LastScoringRun' = LastScoringRun
      BY <2>1, SameLastRun
    <3> QED
      BY <1>3, <2>2, <3>1
  <2>4. RunsNumbered'
    BY <2>1, <2>3 DEF RunsNumbered
  <2>5. LastPublished' = LastPublished /\ LastPublished = LastScoringRun - 1
    BY <2>1, <2>3 DEF LastPublished
  <2>6. new.scoring_run_id = LastScoringRun
    BY <2>2
  <2>7. TablesGrow
    <3>1. ASSUME NEW run \in 0..LastPublished
          PROVE  ScoresOf(run)' = ScoresOf(run) /\ ScoresUpTo(run)' = ScoresUpTo(run)
      BY <1>1, <2>1, <2>5, <2>6 DEF ScoresOf, ScoresUpTo
    <3> QED
      BY <3>1, <1>1, <2>5 DEF TablesGrow
  <2>8. ScoresOf(upload.run)' = ScoresOf(upload.run) \cup {new}
    BY <2>1, <2>2 DEF ScoresOf
  <2>9. ScoresOf(upload.run) =
            {[scoring_run_id |-> upload.run, chunk |-> c] : c \in 1..upload.stored}
    BY <2>1 DEF UploadOfLastRun
  <2>10. 1..(upload.stored + 1) = 1..upload.stored \cup {upload.stored + 1}
    BY <2>2
  <2>11. ScoresOf(upload.run)' =
             {[scoring_run_id |-> upload.run, chunk |-> c] : c \in 1..(upload.stored + 1)}
    BY <2>8, <2>9, <2>10
  <2>12. UploadOfLastRun'
    BY <2>2, <2>3, <2>11 DEF UploadOfLastRun, ScoresOf
  <2> QED
    BY <2>4, <2>7, <2>12
<1>6. CASE UNCHANGED <<scoring_runs, scores>> /\ upload' = NoUpload
  <2>1. LastScoringRun' = LastScoringRun
    BY <1>6, SameLastRun
  <2>2. LastPublished' = LastScoringRun
    BY <1>6, <2>1 DEF LastPublished
  <2>3. RunsNumbered' /\ UploadOfLastRun'
    BY <1>6, <2>1 DEF RunsNumbered, UploadOfLastRun
  <2>4. TablesGrow
    BY <1>1, <1>6, <2>2 DEF TablesGrow, ScoresOf, ScoresUpTo
  <2> QED
    BY <2>3, <2>4
<1> QED
  BY <1>4, <1>5, <1>6

-----------------------------------------------------------------------------
(* The warmer                                                              *)

(* While no upload is in progress, everything stored is published.         *)
LEMMA AllPublished ==
    ASSUME ScoresTypeOK, RunsNumbered, LockAvailable
    PROVE  /\ LastPublished = LastScoringRun /\ LastPublished \in Nat
           /\ scoring_runs = 1..LastPublished
           /\ scores = ScoresUpTo(LastPublished)
<1>1. LastPublished = LastScoringRun
  BY DEF LockAvailable, LastPublished
<1>2. LastScoringRun \in Nat /\ scoring_runs = 1..LastScoringRun
  BY DEF RunsNumbered
<1>3. \A s \in scores : s.scoring_run_id \in 1..LastScoringRun
  BY <1>2 DEF ScoresTypeOK
<1>4. scores = ScoresUpTo(LastPublished)
  BY <1>1, <1>2, <1>3 DEF ScoresUpTo
<1> QED
  BY <1>1, <1>2, <1>4

(* A query or a write of the warmer leaves the tables as they are.         *)
LEMMA SameTables ==
    ASSUME UNCHANGED <<scoring_runs, scores, upload>>, RunsNumbered, UploadOfLastRun
    PROVE  /\ LastScoringRun' = LastScoringRun /\ LastPublished' = LastPublished
           /\ \A run : ScoresOf(run)' = ScoresOf(run) /\ ScoresUpTo(run)' = ScoresUpTo(run)
           /\ RunsNumbered' /\ UploadOfLastRun'
<1>1. LastScoringRun' = LastScoringRun
  BY SameLastRun
<1>2. LastPublished' = LastPublished
  BY <1>1 DEF LastPublished
<1>3. ASSUME NEW run
      PROVE  ScoresOf(run)' = ScoresOf(run) /\ ScoresUpTo(run)' = ScoresUpTo(run)
  BY DEF ScoresOf, ScoresUpTo
<1>4. RunsNumbered' /\ UploadOfLastRun'
  BY <1>1 DEF RunsNumbered, UploadOfLastRun, ScoresOf
<1> QED
  BY <1>1, <1>2, <1>3, <1>4

(* The cache as a query leaves it.                                         *)
LEMMA CacheOfSameTables ==
    ASSUME IInv, UNCHANGED <<scoring_runs, scores, upload, cache>>,
           warm.step # "write_multi", warm'.step # "write_multi"
    PROVE  CachedWhenPublished'
<1>1. /\ LastPublished' = LastPublished
      /\ \A run : ScoresOf(run)' = ScoresOf(run) /\ ScoresUpTo(run)' = ScoresUpTo(run)
  BY SameTables DEF IInv
<1>2. PICK run \in 0..LastPublished, loaded \in 0..LastPublished,
           listed \in 0..LastPublished :
        /\ cache.single.scoring_run \in run..LastPublished
        /\ cache.single.scores = ScoresOf(run)
        /\ loaded <= listed
        /\ cache.multi = [scoring_runs |-> 1..listed, scores |-> ScoresUpTo(loaded)]
        /\ cache.single.scoring_run <= listed /\ run <= loaded
  BY DEF IInv, CachedWhenPublished
<1>3. ScoresOf(run)' = ScoresOf(run) /\ ScoresUpTo(loaded)' = ScoresUpTo(loaded)
  BY <1>1
<1>4. /\ cache'.single.scores = ScoresOf(run)'
      /\ cache'.multi = [scoring_runs |-> 1..listed, scores |-> ScoresUpTo(loaded)']
  BY <1>2, <1>3, Zenon
<1> QED
  BY <1>1, <1>2, <1>4 DEF CachedWhenPublished

LEMMA LoadedAtStart ==
    ASSUME warm' = StartOfWarming, LastPublished' \in Nat
    PROVE  LoadedInOrder'
<1>1. /\ warm'.step = "last_run"
      /\ warm'.step \notin AfterScores /\ warm'.step \notin AfterAllScores
      /\ warm'.step \notin AfterScoringRuns
  BY DEF StartOfWarming, AfterScores, AfterAllScores, AfterScoringRuns
<1>2. 0 \in 0..LastPublished' /\ 0 <= 0
  OBVIOUS
<1> QED
  BY <1>1, <1>2 DEF LoadedInOrder

(* The fields of what a query leaves behind, and the next step.            *)
LEMMA QueryResult ==
    ASSUME ScoresTypeOK, NEW step, NEW loaded, Query(step, loaded)
    PROVE  /\ warm.step = step /\ warm'.step = StepAfter(step) /\ warm'.loaded = loaded
           /\ LockAvailable
           /\ UNCHANGED <<scoring_runs, scores, upload, cache, failures>>
           /\ warm.loaded \in Cache
BY DEF Query, ScoresTypeOK, Warm

LEMMA LastRunLoaded ==
    ASSUME IInv, LoadLastScoringRun
    PROVE  LoadedInOrder' /\ CachedWhenPublished'
<1> DEFINE load == [warm.loaded EXCEPT !.single.scoring_run = LastScoringRun]
<1>1. PICK step \in {"last_run", "last_run_again"} : Query(step, load)
  BY DEF LoadLastScoringRun
<1>2. /\ warm.step = step /\ warm'.step = StepAfter(step) /\ warm'.loaded = load
      /\ LockAvailable
      /\ UNCHANGED <<scoring_runs, scores, upload, cache, failures>>
      /\ warm.loaded \in Cache
  BY <1>1, QueryResult DEF IInv
<1>3. /\ load.single.scoring_run = LastScoringRun
      /\ load.single.scores = warm.loaded.single.scores
      /\ load.multi = warm.loaded.multi
  BY <1>2 DEF Cache, SingleRunScores, MultiRunScores
<1> HIDE DEF load
<1>4. /\ LastPublished = LastScoringRun /\ LastPublished \in Nat
      /\ LastPublished' = LastPublished
      /\ \A run : ScoresOf(run)' = ScoresOf(run) /\ ScoresUpTo(run)' = ScoresUpTo(run)
  BY <1>2, AllPublished, SameTables DEF IInv
<1>5. warm'.step = IF step = "last_run" THEN "scores" ELSE "scoring_runs"
  BY <1>2, StepsInOrder
<1>6. CachedWhenPublished'
  BY <1>2, <1>5, CacheOfSameTables
<1>7. CASE step = "last_run"
  <2>1. /\ cache.single.scoring_run \in 0..LastPublished
        /\ LastPublished \in 0..LastPublished'
    BY <1>4 DEF IInv, CachedWhenPublished
  <2>2. /\ warm'.step = "scores"
        /\ warm'.step \notin AfterScores /\ warm'.step \notin AfterAllScores
        /\ warm'.step \notin AfterScoringRuns
    BY <1>5, <1>7 DEF AfterScores, AfterAllScores, AfterScoringRuns
  <2>3. PICK last \in 0..LastPublished' : last = LastPublished
    BY <2>1
  <2>4. /\ warm'.loaded.single.scoring_run = last
        /\ last \in last..LastPublished' /\ last <= last
        /\ cache'.single.scoring_run <= last
    BY <1>2, <1>3, <1>4, <2>1, <2>3
  <2> QED
    BY <1>6, <2>2, <2>4 DEF LoadedInOrder
<1>8. CASE step = "last_run_again"
  <2>1. /\ warm.step = "last_run_again" /\ warm'.step = "scoring_runs"
        /\ warm.step \in AfterScores /\ warm.step \in AfterAllScores
        /\ warm'.step \in AfterScores /\ warm'.step \in AfterAllScores
        /\ warm'.step \notin AfterScoringRuns
    BY <1>2, <1>5, <1>8 DEF AfterScores, AfterAllScores, AfterScoringRuns
  <2>2. PICK run \in 0..LastPublished, loaded \in 0..LastPublished,
             listed \in 0..LastPublished :
          /\ run <= loaded /\ loaded <= listed
          /\ cache.single.scoring_run <= run
          /\ warm.loaded.single.scores = ScoresOf(run)
          /\ warm.loaded.multi.scores = ScoresUpTo(loaded)
          /\ cache.multi.scoring_runs \subseteq 1..loaded
    BY <2>1 DEF IInv, LoadedInOrder
  <2>3. /\ warm'.loaded.single.scoring_run \in run..LastPublished
        /\ warm'.loaded.single.scores = ScoresOf(run)'
        /\ warm'.loaded.multi.scores = ScoresUpTo(loaded)'
    BY <1>2, <1>3, <1>4, <2>2
  <2> QED
    BY <1>2, <1>4, <1>6, <2>1, <2>2, <2>3 DEF LoadedInOrder
<1> QED
  BY <1>7, <1>8

LEMMA ScoresLoaded ==
    ASSUME IInv, LoadScores
    PROVE  LoadedInOrder' /\ CachedWhenPublished'
<1> DEFINE load == [warm.loaded EXCEPT
                       !.single.scores = ScoresOf(warm.loaded.single.scoring_run)]
<1>1. Query("scores", load)
  BY DEF LoadScores
<1>2. /\ warm.step = "scores" /\ warm'.step = StepAfter("scores") /\ warm'.loaded = load
      /\ LockAvailable
      /\ UNCHANGED <<scoring_runs, scores, upload, cache, failures>>
      /\ warm.loaded \in Cache
  BY <1>1, QueryResult DEF IInv
<1>3. /\ load.single.scoring_run = warm.loaded.single.scoring_run
      /\ load.single.scores = ScoresOf(warm.loaded.single.scoring_run)
  BY <1>2 DEF Cache, SingleRunScores, MultiRunScores
<1> HIDE DEF load
<1>4. /\ LastPublished \in Nat /\ LastPublished' = LastPublished
      /\ \A run : ScoresOf(run)' = ScoresOf(run)
  BY <1>2, AllPublished, SameTables DEF IInv
<1>5. /\ warm'.step = "all_scores"
      /\ warm'.step \notin AfterAllScores /\ warm'.step \notin AfterScoringRuns
  BY <1>2, StepsInOrder DEF AfterAllScores, AfterScoringRuns
<1>6. PICK run \in 0..LastPublished :
        /\ warm.loaded.single.scoring_run = run
        /\ cache.single.scoring_run <= run
  BY <1>2 DEF IInv, LoadedInOrder
<1>7. /\ warm'.loaded.single.scoring_run = run
      /\ warm'.loaded.single.scores = ScoresOf(run)'
  BY <1>2, <1>3, <1>4, <1>6
<1>8. CachedWhenPublished'
  BY <1>2, <1>5, CacheOfSameTables
<1>9. /\ run \in run..LastPublished' /\ run \in 0..LastPublished' /\ run <= run
      /\ cache'.single.scoring_run <= run
  BY <1>2, <1>4, <1>6
<1> QED
  BY <1>5, <1>7, <1>8, <1>9 DEF LoadedInOrder

LEMMA AllScoresLoaded ==
    ASSUME IInv, LoadAllScores
    PROVE  LoadedInOrder' /\ CachedWhenPublished'
<1> DEFINE load == [warm.loaded EXCEPT !.multi.scores = scores]
<1>1. Query("all_scores", load)
  BY DEF LoadAllScores
<1>2. /\ warm.step = "all_scores" /\ warm'.step = StepAfter("all_scores")
      /\ warm'.loaded = load /\ LockAvailable
      /\ UNCHANGED <<scoring_runs, scores, upload, cache, failures>>
      /\ warm.loaded \in Cache
  BY <1>1, QueryResult DEF IInv
<1>3. load.single = warm.loaded.single /\ load.multi.scores = scores
  BY <1>2 DEF Cache, SingleRunScores, MultiRunScores
<1> HIDE DEF load
<1>4. /\ LastPublished \in Nat /\ LastPublished' = LastPublished
      /\ scores = ScoresUpTo(LastPublished)
      /\ \A run : ScoresOf(run)' = ScoresOf(run) /\ ScoresUpTo(run)' = ScoresUpTo(run)
  BY <1>2, AllPublished, SameTables DEF IInv
<1>5. /\ warm'.step = "last_run_again" /\ warm.step \in AfterScores
      /\ warm'.step \in AfterScores /\ warm'.step \in AfterAllScores
      /\ warm'.step \notin AfterScoringRuns
  BY <1>2, StepsInOrder DEF AfterScores, AfterAllScores, AfterScoringRuns
<1>6. PICK run \in 0..LastPublished :
        /\ warm.loaded.single.scoring_run \in run..LastPublished
        /\ warm.loaded.single.scores = ScoresOf(run)
        /\ cache.single.scoring_run <= run
  BY <1>2, <1>5 DEF IInv, LoadedInOrder
<1>7. cache.multi.scoring_runs \subseteq 1..LastPublished
  BY <1>4 DEF IInv, CachedWhenPublished
<1>8. /\ warm'.loaded.single.scoring_run \in run..LastPublished
      /\ warm'.loaded.single.scores = ScoresOf(run)'
      /\ warm'.loaded.multi.scores = ScoresUpTo(LastPublished)
  BY <1>2, <1>3, <1>4, <1>6
<1>9. CachedWhenPublished'
  BY <1>2, <1>5, CacheOfSameTables
<1>10. PICK last \in 0..LastPublished : last = LastPublished
  BY <1>4
<1>11. warm'.loaded.multi.scores = ScoresUpTo(last)'
  BY <1>4, <1>8, <1>10
<1> QED
  BY <1>2, <1>4, <1>5, <1>6, <1>7, <1>8, <1>9, <1>10, <1>11 DEF LoadedInOrder

LEMMA ScoringRunsLoaded ==
    ASSUME IInv, LoadScoringRuns
    PROVE  LoadedInOrder' /\ CachedWhenPublished'
<1> DEFINE load == [warm.loaded EXCEPT !.multi.scoring_runs = scoring_runs]
<1>1. Query("scoring_runs", load)
  BY DEF LoadScoringRuns
<1>2. /\ warm.step = "scoring_runs" /\ warm'.step = StepAfter("scoring_runs")
      /\ warm'.loaded = load /\ LockAvailable
      /\ UNCHANGED <<scoring_runs, scores, upload, cache, failures>>
      /\ warm.loaded \in Cache
  BY <1>1, QueryResult DEF IInv
<1>3. /\ load.single = warm.loaded.single
      /\ load.multi.scores = warm.loaded.multi.scores
      /\ load.multi.scoring_runs = scoring_runs
  BY <1>2 DEF Cache, SingleRunScores, MultiRunScores
<1> HIDE DEF load
<1>4. /\ LastPublished \in Nat /\ LastPublished' = LastPublished
      /\ scoring_runs = 1..LastPublished
      /\ \A run : ScoresOf(run)' = ScoresOf(run) /\ ScoresUpTo(run)' = ScoresUpTo(run)
  BY <1>2, AllPublished, SameTables DEF IInv
<1>5. /\ warm'.step = "write_single"
      /\ warm.step \in AfterScores /\ warm.step \in AfterAllScores
      /\ warm'.step \in AfterScores /\ warm'.step \in AfterAllScores
  BY <1>2, StepsInOrder DEF AfterScores, AfterAllScores, AfterScoringRuns
<1>6. PICK run \in 0..LastPublished, loaded \in 0..LastPublished :
        /\ run <= loaded
        /\ cache.single.scoring_run <= run
        /\ warm.loaded.single.scoring_run \in run..LastPublished
        /\ warm.loaded.single.scores = ScoresOf(run)
        /\ warm.loaded.multi.scores = ScoresUpTo(loaded)
        /\ cache.multi.scoring_runs \subseteq 1..loaded
  BY <1>2, <1>5 DEF IInv, LoadedInOrder
<1>7. PICK last \in 0..LastPublished : last = LastPublished
  BY <1>4
<1>8. /\ warm'.loaded.single.scoring_run \in run..LastPublished
      /\ warm'.loaded.single.scores = ScoresOf(run)'
      /\ warm'.loaded.multi.scores = ScoresUpTo(loaded)'
      /\ warm'.loaded.multi.scoring_runs = 1..last
  BY <1>2, <1>3, <1>4, <1>6, <1>7
<1>9. CachedWhenPublished'
  BY <1>2, <1>5, CacheOfSameTables
<1> QED
  BY <1>2, <1>4, <1>5, <1>6, <1>7, <1>8, <1>9 DEF LoadedInOrder

LEMMA SingleWritten ==
    ASSUME IInv, WriteSingleRunScores
    PROVE  LoadedInOrder' /\ CachedWhenPublished'
<1>1. /\ warm.step = "write_single" /\ LockAvailable
      /\ UNCHANGED <<scoring_runs, scores, upload>>
      /\ cache' = [cache EXCEPT !.single = warm.loaded.single]
      /\ warm' = [warm EXCEPT !.step = "write_multi"]
  BY DEF WriteSingleRunScores
<1>2. /\ cache'.single = warm.loaded.single /\ cache'.multi = cache.multi
      /\ warm'.step = "write_multi" /\ warm'.loaded = warm.loaded
  BY <1>1 DEF IInv, ScoresTypeOK, Cache, Warm
<1>3. /\ LastPublished \in Nat /\ LastPublished' = LastPublished
      /\ \A run : ScoresOf(run)' = ScoresOf(run) /\ ScoresUpTo(run)' = ScoresUpTo(run)
  BY <1>1, AllPublished, SameTables DEF IInv
<1>4. /\ warm.step \in AfterScores /\ warm.step \in AfterAllScores
      /\ warm.step \in AfterScoringRuns /\ warm'.step \in AfterScores
      /\ warm'.step \in AfterAllScores /\ warm'.step \in AfterScoringRuns
  BY <1>1, <1>2 DEF AfterScores, AfterAllScores, AfterScoringRuns
<1>5. PICK run \in 0..LastPublished, loaded \in 0..LastPublished,
           listed \in 0..LastPublished :
        /\ run <= loaded /\ loaded <= listed
        /\ warm.loaded.single.scoring_run \in run..LastPublished
        /\ warm.loaded.single.scores = ScoresOf(run)
        /\ warm.loaded.multi.scores = ScoresUpTo(loaded)
        /\ cache.multi.scoring_runs \subseteq 1..loaded
        /\ warm.loaded.multi.scoring_runs = 1..listed
        /\ warm.loaded.single.scoring_run <= listed
  BY <1>1, <1>4 DEF IInv, LoadedInOrder
<1>6. LoadedInOrder'
  <2>1. /\ warm'.loaded.single.scoring_run \in run..LastPublished'
        /\ warm'.loaded.single.scores = ScoresOf(run)'
        /\ warm'.loaded.multi.scores = ScoresUpTo(loaded)'
        /\ cache'.multi.scoring_runs \subseteq 1..loaded
        /\ warm'.loaded.multi.scoring_runs = 1..listed
        /\ warm'.loaded.single.scoring_run <= listed
        /\ cache'.single = warm'.loaded.single
        /\ run \in 0..LastPublished' /\ loaded \in 0..LastPublished'
        /\ listed \in 0..LastPublished'
    BY <1>2, <1>3, <1>5
  <2> QED
    BY <1>2, <1>5, <2>1 DEF LoadedInOrder
<1>7. CachedWhenPublished'
  <2>1. PICK all \in 0..LastPublished, runs \in 0..LastPublished :
          /\ all <= runs
          /\ cache.multi = [scoring_runs |-> 1..runs, scores |-> ScoresUpTo(all)]
    BY DEF IInv, CachedWhenPublished
  <2>2. /\ cache'.multi = [scoring_runs |-> 1..runs, scores |-> ScoresUpTo(all)']
        /\ cache'.single.scoring_run \in run..LastPublished'
        /\ cache'.single.scores = ScoresOf(run)'
    BY <1>2, <1>3, <1>5, <2>1
  <2>3. /\ run \in 0..LastPublished' /\ all \in 0..LastPublished'
        /\ runs \in 0..LastPublished'
    BY <1>3
  <2> QED
    BY <1>2, <2>1, <2>2, <2>3 DEF CachedWhenPublished
<1> QED
  BY <1>6, <1>7

LEMMA MultiWritten ==
    ASSUME IInv, WriteMultiRunScores
    PROVE  LoadedInOrder' /\ CachedWhenPublished'
<1>1. /\ warm.step = "write_multi" /\ LockAvailable
      /\ UNCHANGED <<scoring_runs, scores, upload>>
      /\ cache' = [cache EXCEPT !.multi = warm.loaded.multi]
      /\ warm' = StartOfWarming
  BY DEF WriteMultiRunScores
<1>2. /\ cache'.single = cache.single /\ cache'.multi = warm.loaded.multi
      /\ warm.loaded.multi \in MultiRunScores
  BY <1>1 DEF IInv, ScoresTypeOK, Cache, Warm
<1>3. /\ LastPublished \in Nat /\ LastPublished' = LastPublished
      /\ \A run : ScoresOf(run)' = ScoresOf(run) /\ ScoresUpTo(run)' = ScoresUpTo(run)
  BY <1>1, AllPublished, SameTables DEF IInv
<1>4. /\ warm.step \in AfterScores /\ warm.step \in AfterAllScores
      /\ warm.step \in AfterScoringRuns
  BY <1>1 DEF AfterScores, AfterAllScores, AfterScoringRuns
<1>5. PICK run \in 0..LastPublished, loaded \in 0..LastPublished,
           listed \in 0..LastPublished :
        /\ run <= loaded /\ loaded <= listed
        /\ warm.loaded.single.scoring_run \in run..LastPublished
        /\ warm.loaded.single.scores = ScoresOf(run)
        /\ warm.loaded.multi.scores = ScoresUpTo(loaded)
        /\ warm.loaded.multi.scoring_runs = 1..listed
        /\ warm.loaded.single.scoring_run <= listed
        /\ cache.single = warm.loaded.single
  BY <1>1, <1>4 DEF IInv, LoadedInOrder
<1>6. LoadedInOrder'
  BY <1>1, <1>3, LoadedAtStart
<1>7. CachedWhenPublished'
  <2>1. warm.loaded.multi = [scoring_runs |-> 1..listed, scores |-> ScoresUpTo(loaded)]
    BY <1>2, <1>5 DEF MultiRunScores
  <2>2. /\ cache'.multi = [scoring_runs |-> 1..listed, scores |-> ScoresUpTo(loaded)']
        /\ cache'.single.scoring_run \in run..LastPublished'
        /\ cache'.single.scores = ScoresOf(run)'
        /\ cache'.single.scoring_run <= listed
    BY <1>2, <1>3, <1>5, <2>1
  <2>3. /\ run \in 0..LastPublished' /\ loaded \in 0..LastPublished'
        /\ listed \in 0..LastPublished'
    BY <1>3
  <2> QED
    BY <1>5, <2>2, <2>3 DEF CachedWhenPublished
<1> QED
  BY <1>6, <1>7

(* An empty cache and a warmer that starts fit any tables.                 *)
LEMMA EmptyCacheServes ==
    ASSUME cache' = EmptyCache, LastPublished' \in Nat, ScoresTypeOK'
    PROVE  CachedWhenPublished'
<1>1. /\ cache'.single.scoring_run = 0 /\ cache'.single.scores = {}
      /\ cache'.multi = [scoring_runs |-> {}, scores |-> {}]
  BY DEF EmptyCache, NoRun
<1>2. PICK none \in 0..LastPublished' : none = 0
  OBVIOUS
<1>3. \A s \in scores' : s.scoring_run_id \in Nat /\ s.scoring_run_id > 0
  BY DEF ScoresTypeOK, Score, RunId
<1>4. ScoresOf(none)' = {} /\ ScoresUpTo(none)' = {}
  BY <1>2, <1>3 DEF ScoresOf, ScoresUpTo
<1>5. /\ 1..none = {} /\ none <= none /\ none \in none..LastPublished'
  BY <1>2
<1>6. cache'.multi = [scoring_runs |-> 1..none, scores |-> ScoresUpTo(none)']
  BY <1>1, <1>4, <1>5
<1> QED
  BY <1>1, <1>2, <1>4, <1>5, <1>6 DEF CachedWhenPublished

-----------------------------------------------------------------------------
(* The types                                                               *)

LEMMA TypeInitially ==
    ASSUME ScoresInit
    PROVE  ScoresTypeOK
<1> USE ScoresCacheAssumption DEF ScoresInit
<1>1. EmptyCache \in Cache
  BY DEF EmptyCache, Cache, SingleRunScores, MultiRunScores
<1>2. StartOfWarming \in Warm
  BY <1>1, StepsInOrder DEF StartOfWarming, Warm
<1> QED
  BY <1>1, <1>2 DEF ScoresTypeOK, NoUpload

LEMMA TypeKept ==
    ASSUME IInv, ScoresNext
    PROVE  ScoresTypeOK'
<1> USE ScoresCacheAssumption
<1>1. ScoresTypeOK
  BY DEF IInv
<1>2. EmptyCache \in Cache
  BY DEF EmptyCache, Cache, SingleRunScores, MultiRunScores
<1>3. StartOfWarming \in Warm
  BY <1>2, StepsInOrder DEF StartOfWarming, Warm
<1>4. NoUpload \in [run : RunId \cup {NoRun}, chunks : 0..MaxChunks, stored : 0..MaxChunks]
  BY DEF NoUpload
<1>5. ASSUME NEW chunks \in 0..MaxChunks, InsertScoringRun(chunks)
      PROVE  ScoresTypeOK'
  <2>1. /\ scoring_runs' = 1..(LastScoringRun + 1)
        /\ LastScoringRun + 1 \in RunId
        /\ upload' = [run |-> LastScoringRun + 1, chunks |-> chunks, stored |-> 0]
    BY <1>1, <1>5, RunInserted DEF IInv
  <2>2. UNCHANGED <<scores, warm, cache, failures>> /\ scoring_runs \subseteq scoring_runs'
    BY <1>5 DEF InsertScoringRun
  <2>3. scoring_runs' \subseteq RunId
    BY <2>1 DEF RunId
  <2>4. upload' \in [run : RunId \cup {NoRun}, chunks : 0..MaxChunks, stored : 0..MaxChunks]
    BY <2>1
  <2>5. \A s \in scores' : s.scoring_run_id \in scoring_runs'
    BY <1>1, <2>2 DEF ScoresTypeOK
  <2> QED
    BY <1>1, <2>2, <2>3, <2>4, <2>5 DEF ScoresTypeOK
<1>6. CASE InsertScores
  <2> DEFINE new == [scoring_run_id |-> upload.run, chunk |-> upload.stored + 1]
  <2>1. /\ scores' = scores \cup {new} /\ UNCHANGED <<scoring_runs, warm, cache, failures>>
        /\ upload # NoUpload /\ upload.stored < upload.chunks
        /\ upload' = [upload EXCEPT !.stored = @ + 1]
    BY <1>6 DEF InsertScores
  <2>2. upload.run \in scoring_runs /\ upload.run \in RunId
    BY <1>1, <2>1 DEF IInv, UploadOfLastRun, RunsNumbered, RunId
  <2>3. upload.stored + 1 \in 1..MaxChunks
    BY <1>1, <2>1 DEF ScoresTypeOK
  <2>4. upload' \in [run : RunId \cup {NoRun}, chunks : 0..MaxChunks, stored : 0..MaxChunks]
    BY <1>1, <2>1, <2>3 DEF ScoresTypeOK
  <2>5. new \in Score /\ new.scoring_run_id \in scoring_runs
    BY <2>2, <2>3 DEF Score
  <2> HIDE DEF new
  <2> QED
    BY <1>1, <2>1, <2>4, <2>5 DEF ScoresTypeOK
<1>7. CASE FinishUpload
  BY <1>1, <1>4, <1>7 DEF FinishUpload, ScoresTypeOK
<1>8. CASE UploadFails
  BY <1>1, <1>4, <1>8 DEF UploadFails, ScoresTypeOK
<1>9. ASSUME NEW step \in {"last_run", "scores", "all_scores", "last_run_again", "scoring_runs"},
             NEW load \in Cache, Query(step, load)
      PROVE  ScoresTypeOK'
  <2>1. /\ warm' = [step |-> StepAfter(step), loaded |-> load]
        /\ UNCHANGED <<scoring_runs, scores, upload, cache, failures>>
    BY <1>9 DEF Query
  <2>2. StepAfter(step) \in Range(WarmSteps)
    BY StepsInOrder
  <2>3. warm' \in Warm
    BY <2>1, <2>2 DEF Warm
  <2> QED
    BY <1>1, <2>1, <2>3 DEF ScoresTypeOK
<1>10. warm.loaded \in Cache
  BY <1>1 DEF ScoresTypeOK, Warm
<1>11. CASE LoadLastScoringRun
  <2>1. LastScoringRun \in RunId \cup {NoRun}
    BY DEF IInv, RunsNumbered, RunId, NoRun
  <2>2. [warm.loaded EXCEPT !.single.scoring_run = LastScoringRun] \in Cache
    BY <1>10, <2>1 DEF Cache, SingleRunScores
  <2> QED
    BY <1>9, <1>11, <2>2 DEF LoadLastScoringRun
<1>12. CASE LoadScores
  <2>1. ScoresOf(warm.loaded.single.scoring_run) \in SUBSET Score
    BY <1>1 DEF ScoresTypeOK, ScoresOf
  <2>2. [warm.loaded EXCEPT !.single.scores = ScoresOf(warm.loaded.single.scoring_run)]
            \in Cache
    BY <1>10, <2>1 DEF Cache, SingleRunScores
  <2> QED
    BY <1>9, <1>12, <2>2 DEF LoadScores
<1>13. CASE LoadAllScores
  <2>1. [warm.loaded EXCEPT !.multi.scores = scores] \in Cache
    BY <1>1, <1>10 DEF ScoresTypeOK, Cache, MultiRunScores
  <2> QED
    BY <1>9, <1>13, <2>1 DEF LoadAllScores
<1>14. CASE LoadScoringRuns
  <2>1. [warm.loaded EXCEPT !.multi.scoring_runs = scoring_runs] \in Cache
    BY <1>1, <1>10 DEF ScoresTypeOK, Cache, MultiRunScores
  <2> QED
    BY <1>9, <1>14, <2>1 DEF LoadScoringRuns
<1>15. CASE WriteSingleRunScores
  <2>1. cache' \in Cache
    BY <1>1, <1>10, <1>15 DEF WriteSingleRunScores, ScoresTypeOK, Cache
  <2>2. warm' \in Warm
    BY <1>1, <1>15, StepsInOrder DEF WriteSingleRunScores, ScoresTypeOK, Warm
  <2> QED
    BY <1>1, <1>15, <2>1, <2>2 DEF WriteSingleRunScores, ScoresTypeOK
<1>16. CASE WriteMultiRunScores
  <2>1. cache' \in Cache
    BY <1>1, <1>10, <1>16 DEF WriteMultiRunScores, ScoresTypeOK, Cache
  <2> QED
    BY <1>1, <1>3, <1>16, <2>1 DEF WriteMultiRunScores, ScoresTypeOK
<1>17. CASE WarmingFails
  BY <1>1, <1>3, <1>17 DEF WarmingFails, ScoresTypeOK
<1>18. CASE Restart
  BY <1>1, <1>2, <1>3, <1>4, <1>18 DEF Restart, ScoresTypeOK
<1> QED
  BY <1>5, <1>6, <1>7, <1>8, <1>11, <1>12, <1>13, <1>14, <1>15, <1>16, <1>17, <1>18
     DEF ScoresNext, UploadStep, WarmerStep

-----------------------------------------------------------------------------
(* The theorems                                                            *)

LEMMA Initially ==
    ASSUME ScoresInit
    PROVE  IInv
<1>1. ScoresTypeOK
  BY TypeInitially
<1>2. /\ scoring_runs = {} /\ scores = {} /\ upload = NoUpload
      /\ warm = StartOfWarming /\ cache = EmptyCache
  BY DEF ScoresInit
<1>3. LastScoringRun = 0 /\ LastPublished = 0
  BY <1>2 DEF LastScoringRun, LastPublished, NoRun
<1>4. RunsNumbered /\ UploadOfLastRun
  BY <1>2, <1>3, ScoresCacheAssumption DEF RunsNumbered, UploadOfLastRun
<1>5. PICK none \in 0..LastPublished : none = 0
  BY <1>3
<1>6. ScoresOf(none) = {} /\ ScoresUpTo(none) = {} /\ 1..none = {}
  BY <1>2, <1>5 DEF ScoresOf, ScoresUpTo
<1>7. CachedWhenPublished
  <2>1. /\ cache.single.scoring_run = none /\ none \in none..LastPublished
        /\ cache.single.scores = ScoresOf(none) /\ none <= none
        /\ cache.multi = [scoring_runs |-> 1..none, scores |-> ScoresUpTo(none)]
    BY <1>2, <1>3, <1>5, <1>6 DEF EmptyCache, NoRun
  <2> QED
    BY <2>1 DEF CachedWhenPublished
<1>8. LoadedInOrder
  <2>1. /\ warm.step = "last_run" /\ warm.step \notin AfterScores
        /\ warm.step \notin AfterAllScores /\ warm.step \notin AfterScoringRuns
    BY <1>2 DEF StartOfWarming, AfterScores, AfterAllScores, AfterScoringRuns
  <2> QED
    BY <1>3, <2>1 DEF LoadedInOrder
<1> QED
  BY <1>1, <1>4, <1>7, <1>8 DEF IInv

LEMMA Inductive ==
    ASSUME IInv, [ScoresNext]_scoresVars
    PROVE  IInv'
<1>1. /\ ScoresTypeOK /\ RunsNumbered /\ UploadOfLastRun
      /\ CachedWhenPublished /\ LoadedInOrder
  BY DEF IInv
<1>2. CASE ScoresNext
  <2>1. ScoresTypeOK'
    BY <1>2, TypeKept
  <2>2. ASSUME RunsNumbered', UploadOfLastRun', TablesGrow, UNCHANGED <<cache, warm>>
        PROVE  IInv'
    BY <1>1, <2>1, <2>2, CacheOfGrownTables DEF IInv
  <2>3. ASSUME UNCHANGED <<scoring_runs, scores, upload>>
        PROVE  RunsNumbered' /\ UploadOfLastRun' /\ LastPublished' = LastPublished
    BY <1>1, <2>3, SameTables
  <2>4. LastPublished \in Nat
    BY <1>1 DEF RunsNumbered, UploadOfLastRun, LastPublished
  <2>5. ASSUME NEW chunks \in 0..MaxChunks, InsertScoringRun(chunks)
        PROVE  IInv'
    <3>1. UNCHANGED <<cache, warm>>
      BY <2>5 DEF InsertScoringRun
    <3>2. RunsNumbered' /\ UploadOfLastRun' /\ TablesGrow
      BY <1>1, <2>5, UploadGrowsTables
    <3> QED
      BY <2>2, <3>1, <3>2
  <2>6. CASE InsertScores
    <3>1. UNCHANGED <<cache, warm>>
      BY <2>6 DEF InsertScores
    <3>2. RunsNumbered' /\ UploadOfLastRun' /\ TablesGrow
      BY <1>1, <2>6, UploadGrowsTables
    <3> QED
      BY <2>2, <3>1, <3>2
  <2>7. CASE FinishUpload \/ UploadFails
    <3>1. /\ UNCHANGED <<cache, warm>>
          /\ UNCHANGED <<scoring_runs, scores>> /\ upload' = NoUpload
      BY <2>7 DEF FinishUpload, UploadFails
    <3>2. RunsNumbered' /\ UploadOfLastRun' /\ TablesGrow
      BY <1>1, <3>1, UploadGrowsTables
    <3> QED
      BY <2>2, <3>1, <3>2
  <2>8. CASE WarmerStep
    <3>1. UNCHANGED <<scoring_runs, scores, upload>>
      BY <2>8 DEF WarmerStep, LoadLastScoringRun, LoadScores, LoadAllScores,
                  LoadScoringRuns, Query, WriteSingleRunScores, WriteMultiRunScores
    <3>2. LoadedInOrder' /\ CachedWhenPublished'
      BY <2>8, LastRunLoaded, ScoresLoaded, AllScoresLoaded, ScoringRunsLoaded,
         SingleWritten, MultiWritten DEF WarmerStep
    <3> QED
      BY <2>1, <2>3, <3>1, <3>2 DEF IInv
  <2>9. CASE WarmingFails
    <3>1. /\ UNCHANGED <<scoring_runs, scores, upload, cache>>
          /\ warm.step # "write_multi" /\ warm' = StartOfWarming
      BY <2>9 DEF WarmingFails
    <3>2. warm'.step # "write_multi"
      BY <3>1 DEF StartOfWarming
    <3>3. CachedWhenPublished'
      BY <3>1, <3>2, CacheOfSameTables
    <3>4. LoadedInOrder'
      BY <2>3, <2>4, <3>1, LoadedAtStart
    <3> QED
      BY <2>1, <2>3, <3>1, <3>3, <3>4 DEF IInv
  <2>10. CASE Restart
    <3>1. /\ UNCHANGED <<scoring_runs, scores>> /\ upload' = NoUpload
          /\ cache' = EmptyCache /\ warm' = StartOfWarming
      BY <2>10 DEF Restart
    <3>2. RunsNumbered' /\ UploadOfLastRun' /\ LastPublished' \in Nat
      BY <1>1, <3>1, UploadGrowsTables DEF TablesGrow
    <3>3. CachedWhenPublished' /\ LoadedInOrder'
      BY <2>1, <3>1, <3>2, EmptyCacheServes, LoadedAtStart
    <3> QED
      BY <2>1, <3>2, <3>3 DEF IInv
  <2> QED
    BY <1>2, <2>5, <2>6, <2>7, <2>8, <2>9, <2>10 DEF ScoresNext, UploadStep
<1>3. CASE UNCHANGED scoresVars
  <2>1. UNCHANGED <<scoring_runs, scores, upload, cache, warm, failures>>
    BY <1>3 DEF scoresVars
  <2>2. ScoresTypeOK'
    BY <1>1, <2>1 DEF ScoresTypeOK
  <2>3. /\ RunsNumbered' /\ UploadOfLastRun' /\ LastPublished' = LastPublished
        /\ \A run : ScoresOf(run)' = ScoresOf(run) /\ ScoresUpTo(run)' = ScoresUpTo(run)
    BY <1>1, <2>1, SameTables
  <2>4. LastPublished \in Nat
    BY <1>1 DEF RunsNumbered, UploadOfLastRun, LastPublished
  <2>5. TablesGrow
    BY <2>3, <2>4 DEF TablesGrow
  <2> QED
    BY <1>1, <2>1, <2>2, <2>3, <2>5, CacheOfGrownTables DEF IInv
<1> QED
  BY <1>2, <1>3

LEMMA Invariance == ScoresSpec => []IInv
<1>1. ScoresInit => IInv
  BY Initially
<1>2. IInv /\ [ScoresNext]_scoresVars => IInv'
  BY Inductive
<1> QED
  BY <1>1, <1>2, PTL DEF ScoresSpec

(* Every variable always holds a value of its kind.                        *)
THEOREM ScoresTypeCorrect == ScoresSpec => []ScoresTypeOK
<1>1. IInv => ScoresTypeOK
  BY DEF IInv
<1> QED
  BY <1>1, Invariance, PTL

(* compute_score_breakdowns finds the run of every cached score.           *)
THEOREM NoScoreWithoutRun == ScoresSpec => []EveryScoreBrokenDown
<1>1. IInv => EveryScoreBrokenDown
  <2> SUFFICES ASSUME IInv PROVE EveryScoreBrokenDown
    OBVIOUS
  <2>1. PICK loaded \in 0..LastPublished, listed \in 0..LastPublished :
          /\ loaded <= listed
          /\ cache.multi = [scoring_runs |-> 1..listed, scores |-> ScoresUpTo(loaded)]
    BY DEF IInv, CachedWhenPublished
  <2>2. /\ cache.multi.scoring_runs = 1..listed
        /\ cache.multi.scores = ScoresUpTo(loaded)
    BY <2>1
  <2>3. ASSUME NEW s \in cache.multi.scores
        PROVE  s.scoring_run_id \in cache.multi.scoring_runs
    <3>1. s \in scores /\ s.scoring_run_id <= loaded
      BY <2>2 DEF ScoresUpTo
    <3>2. s.scoring_run_id \in 1..LastScoringRun /\ LastScoringRun \in Nat
      BY <3>1 DEF IInv, ScoresTypeOK, RunsNumbered
    <3>3. LastPublished \in Nat
      BY DEF IInv, RunsNumbered, UploadOfLastRun, LastPublished
    <3> QED
      BY <2>1, <2>2, <3>1, <3>2, <3>3
  <2> QED
    BY <2>3 DEF EveryScoreBrokenDown, ScoreBreakdowns
<1> QED
  BY <1>1, Invariance, PTL

(* What the single-run handlers answer from is among what the multi-run    *)
(* handler answers from, outside the gap between the two writes.           *)
THEOREM SingleAmongMulti == ScoresSpec => []SingleRunAmongMulti
<1>1. IInv => SingleRunAmongMulti
  <2> SUFFICES ASSUME IInv, warm.step # "write_multi"
               PROVE  /\ cache.single.scoring_run \in cache.multi.scoring_runs \cup {NoRun}
                      /\ cache.single.scores \subseteq cache.multi.scores
    BY DEF SingleRunAmongMulti
  <2>1. PICK run \in 0..LastPublished, loaded \in 0..LastPublished,
             listed \in 0..LastPublished :
          /\ cache.single.scoring_run \in run..LastPublished
          /\ cache.single.scores = ScoresOf(run)
          /\ cache.multi = [scoring_runs |-> 1..listed, scores |-> ScoresUpTo(loaded)]
          /\ cache.single.scoring_run <= listed /\ run <= loaded
    BY DEF IInv, CachedWhenPublished
  <2>2. /\ cache.multi.scoring_runs = 1..listed
        /\ cache.multi.scores = ScoresUpTo(loaded)
    BY <2>1
  <2>3. LastPublished \in Nat
    BY DEF IInv, RunsNumbered, UploadOfLastRun, LastPublished
  <2>4. cache.single.scoring_run \in 1..listed \cup {NoRun}
    BY <2>1, <2>3 DEF NoRun
  <2>5. ScoresOf(run) \subseteq ScoresUpTo(loaded)
    BY <2>1, <2>3 DEF ScoresOf, ScoresUpTo
  <2> QED
    BY <2>1, <2>2, <2>4, <2>5
<1> QED
  BY <1>1, Invariance, PTL

-----------------------------------------------------------------------------
(* The refinement                                                          *)

(* The published runs and their scores, in the words of this module.       *)
PublishedUpToLast ==
    /\ LastPublished \in Nat
    /\ scoring_runs \ {upload.run} = 1..LastPublished
    /\ {s \in scores : s.scoring_run_id # upload.run} = ScoresUpTo(LastPublished)

LEMMA PublishedTables == IInv => PublishedUpToLast
<1> SUFFICES ASSUME IInv
             PROVE  PublishedUpToLast
  OBVIOUS
<1>1. /\ LastScoringRun \in Nat /\ scoring_runs = 1..LastScoringRun
      /\ \A s \in scores : s.scoring_run_id \in 1..LastScoringRun
  BY DEF IInv, RunsNumbered, ScoresTypeOK
<1>2. CASE upload = NoUpload
  <2>1. upload.run = 0 /\ LastPublished = LastScoringRun
    BY <1>2 DEF NoUpload, NoRun, LastPublished
  <2> QED
    BY <1>1, <2>1 DEF PublishedUpToLast, ScoresUpTo
<1>3. CASE upload # NoUpload
  <2>1. /\ upload.run = LastScoringRun /\ LastScoringRun > 0
        /\ LastPublished = LastScoringRun - 1
    BY <1>3 DEF IInv, UploadOfLastRun, LastPublished
  <2>2. scoring_runs \ {upload.run} = 1..LastPublished
    BY <1>1, <2>1
  <2>3. {s \in scores : s.scoring_run_id # upload.run} = ScoresUpTo(LastPublished)
    BY <1>1, <2>1 DEF ScoresUpTo
  <2> QED
    BY <1>1, <2>1, <2>2, <2>3 DEF PublishedUpToLast
<1> QED
  BY <1>2, <1>3

LEMMA NewestPublished ==
    ASSUME NEW n \in Nat
    PROVE  Published!Newest(1..n) = n
BY DEF Published!Newest, Published!Max, Published!NoRun

(* An upload that ends publishes its run with the chunks that were stored. *)
LEMMA UploadPublishes ==
    ASSUME IInv, upload # NoUpload, upload' = NoUpload, UNCHANGED <<scoring_runs, scores>>
    PROVE  Published!Publish
<1>1. /\ LastPublished \in Nat
      /\ scoring_runs \ {upload.run} = 1..LastPublished
      /\ upload.run = LastPublished + 1
      /\ scoring_runs = 1..(LastPublished + 1)
      /\ ScoresOf(upload.run) =
             {[scoring_run_id |-> upload.run, chunk |-> c] : c \in 1..upload.stored}
  BY PublishedTables
     DEF PublishedUpToLast, IInv, RunsNumbered, UploadOfLastRun, LastPublished
<1>2. upload'.run = 0
  BY DEF NoUpload, NoRun
<1>3. /\ scoring_runs' \ {upload'.run} = 1..(LastPublished + 1)
      /\ {s \in scores' : s.scoring_run_id # upload'.run} = scores
  <2>1. \A s \in scores : s.scoring_run_id \in RunId
    BY DEF IInv, ScoresTypeOK, Score
  <2> QED
    BY <1>1, <1>2, <2>1 DEF RunId
<1>4. PICK run : run = upload.run
  OBVIOUS
<1>5. PICK chunks : chunks = upload.stored
  OBVIOUS
<1>6. run \in (1..MaxRuns) \ (scoring_runs \ {upload.run}) /\ chunks \in 0..MaxChunks
  BY <1>1, <1>4, <1>5 DEF IInv, ScoresTypeOK, RunId, NoRun
<1>7. run > Published!Newest(scoring_runs \ {upload.run})
  <2>1. Published!Newest(scoring_runs \ {upload.run}) = LastPublished
    BY <1>1, NewestPublished
  <2> QED
    BY <1>1, <1>4, <2>1
<1>8. scoring_runs' \ {upload'.run} = (scoring_runs \ {upload.run}) \cup {run}
  BY <1>1, <1>3, <1>4
<1>9. {s \in scores' : s.scoring_run_id # upload'.run} =
          {s \in scores : s.scoring_run_id # upload.run} \cup
              {[scoring_run_id |-> run, chunk |-> c] : c \in 1..chunks}
  <2>1. scores = {s \in scores : s.scoring_run_id # upload.run} \cup ScoresOf(upload.run)
    BY DEF ScoresOf
  <2> QED
    BY <1>1, <1>3, <1>4, <1>5, <2>1
<1> QED
  BY <1>6, <1>7, <1>8, <1>9 DEF Published!Publish

(* The first write serves a run with all of its scores.                    *)
LEMMA WriteRefreshesSingle ==
    ASSUME IInv, WriteSingleRunScores
    PROVE  Published!RefreshSingle
<1>1. /\ warm.step = "write_single" /\ upload = NoUpload
      /\ UNCHANGED <<scoring_runs, scores, upload>>
      /\ cache' = [cache EXCEPT !.single = warm.loaded.single]
  BY DEF WriteSingleRunScores, LockAvailable
<1>2. /\ LastPublished \in Nat
      /\ scoring_runs \ {upload.run} = 1..LastPublished
      /\ {s \in scores : s.scoring_run_id # upload.run} = ScoresUpTo(LastPublished)
  BY PublishedTables DEF PublishedUpToLast
<1>3. warm.step \in AfterScores
  BY <1>1 DEF AfterScores, AfterAllScores, AfterScoringRuns
<1>4. PICK run \in 0..LastPublished :
        /\ warm.loaded.single.scoring_run \in run..LastPublished
        /\ cache.single.scoring_run <= run
        /\ warm.loaded.single.scores = ScoresOf(run)
  BY <1>1, <1>3 DEF IInv, LoadedInOrder
<1>5. PICK shown : shown = warm.loaded.single.scoring_run
  OBVIOUS
<1>6. /\ run \in (scoring_runs \ {upload.run}) \cup {Published!NoRun}
      /\ shown \in (scoring_runs \ {upload.run}) \cup {Published!NoRun}
      /\ cache.single.scoring_run <= run /\ run <= shown
  BY <1>2, <1>4, <1>5 DEF Published!NoRun
<1>7. Published!ScoresOf({run}) = ScoresOf(run)
  <2>1. Published!ScoresOf({run}) = {s \in ScoresUpTo(LastPublished) : s.scoring_run_id \in {run}}
    BY <1>2 DEF Published!ScoresOf
  <2>2. run <= LastPublished
    BY <1>2
  <2>3. {s \in ScoresUpTo(LastPublished) : s.scoring_run_id \in {run}} = ScoresOf(run)
    BY <2>2 DEF ScoresOf, ScoresUpTo
  <2> QED
    BY <2>1, <2>3
<1>8. warm.loaded.single = [scoring_run |-> shown, scores |-> Published!ScoresOf({run})]
  BY <1>4, <1>5, <1>7 DEF IInv, ScoresTypeOK, Warm, Cache, SingleRunScores
<1> QED
  BY <1>1, <1>6, <1>8 DEF Published!RefreshSingle

(* The second serves a list of runs and all scores of those before some.   *)
LEMMA WriteRefreshesMulti ==
    ASSUME IInv, WriteMultiRunScores
    PROVE  Published!RefreshMulti
<1>1. /\ warm.step = "write_multi" /\ upload = NoUpload
      /\ UNCHANGED <<scoring_runs, scores, upload>>
      /\ cache' = [cache EXCEPT !.multi = warm.loaded.multi]
  BY DEF WriteMultiRunScores, LockAvailable
<1>2. /\ LastPublished \in Nat
      /\ scoring_runs \ {upload.run} = 1..LastPublished
      /\ {s \in scores : s.scoring_run_id # upload.run} = ScoresUpTo(LastPublished)
  BY PublishedTables DEF PublishedUpToLast
<1>3. warm.step \in AfterAllScores /\ warm.step \in AfterScoringRuns
  BY <1>1 DEF AfterAllScores, AfterScoringRuns
<1>4. PICK loaded \in 0..LastPublished, listed \in 0..LastPublished :
        /\ loaded <= listed
        /\ warm.loaded.multi.scores = ScoresUpTo(loaded)
        /\ cache.multi.scoring_runs \subseteq 1..loaded
        /\ warm.loaded.multi.scoring_runs = 1..listed
  BY <1>1, <1>3 DEF IInv, LoadedInOrder
<1>5. /\ loaded \in (scoring_runs \ {upload.run}) \cup {Published!NoRun}
      /\ listed \in (scoring_runs \ {upload.run}) \cup {Published!NoRun}
  BY <1>2 DEF Published!NoRun
<1>6. Published!Newest(cache.multi.scoring_runs) <= loaded
  <2>1. PICK runs \in 0..LastPublished : cache.multi.scoring_runs = 1..runs
    BY DEF IInv, CachedWhenPublished
  <2>2. Published!Newest(cache.multi.scoring_runs) = runs
    BY <1>2, <2>1, NewestPublished
  <2>3. runs <= loaded
    BY <1>2, <1>4, <2>1
  <2> QED
    BY <2>2, <2>3
<1>7. \A run \in 0..LastPublished : Published!PublishedUpTo(run) = 1..run
  BY <1>2 DEF Published!PublishedUpTo
<1>8. Published!ScoresOf(Published!PublishedUpTo(loaded)) = ScoresUpTo(loaded)
  <2>1. Published!ScoresOf(Published!PublishedUpTo(loaded)) =
            {s \in ScoresUpTo(LastPublished) : s.scoring_run_id \in 1..loaded}
    BY <1>2, <1>7 DEF Published!ScoresOf
  <2>2. \A s \in scores : s.scoring_run_id \in 1..LastScoringRun /\ LastScoringRun \in Nat
    BY DEF IInv, ScoresTypeOK, RunsNumbered
  <2> QED
    BY <1>2, <2>1, <2>2 DEF ScoresUpTo
<1>9. warm.loaded.multi = [scoring_runs |-> Published!PublishedUpTo(listed),
                           scores |-> Published!ScoresOf(Published!PublishedUpTo(loaded))]
  BY <1>4, <1>7, <1>8 DEF IInv, ScoresTypeOK, Warm, Cache, MultiRunScores
<1> QED
  BY <1>1, <1>4, <1>5, <1>6, <1>9 DEF Published!RefreshMulti

(* The safety of ServesPublished: the system starts as PublishedScores     *)
(* does, and every step is one of its steps or changes nothing of it.      *)
THEOREM StepsServePublished == ScoresSpec => Published!Init /\ [][Published!Next]_(Published!vars)
<1>1. ScoresInit => Published!Init
  <2>1. scoring_runs = {} => scoring_runs \ {upload.run} = {}
    OBVIOUS
  <2>2. scores = {} => {s \in scores : s.scoring_run_id # upload.run} = {}
    OBVIOUS
  <2> QED
    BY <2>1, <2>2 DEF ScoresInit, Published!Init, Published!Nothing, Published!NoRun,
                      EmptyCache, NoRun
<1>2. IInv /\ IInv' /\ [ScoresNext]_scoresVars => [Published!Next]_(Published!vars)
  <2> SUFFICES ASSUME IInv, IInv', [ScoresNext]_scoresVars
               PROVE  Published!Next \/ UNCHANGED Published!vars
    OBVIOUS
  <2>1. PublishedUpToLast /\ PublishedUpToLast'
    BY PublishedTables, PTL
  <2>2. ASSUME UNCHANGED cache, TablesGrow, LastPublished' = LastPublished
        PROVE  UNCHANGED Published!vars
    <3>1. PICK last \in 0..LastPublished : last = LastPublished
      BY <2>1 DEF PublishedUpToLast
    <3>2. ScoresUpTo(last)' = ScoresUpTo(last) /\ last = LastPublished'
      BY <2>2, <3>1 DEF TablesGrow
    <3>3. /\ (scoring_runs \ {upload.run})' = scoring_runs \ {upload.run}
          /\ {s \in scores : s.scoring_run_id # upload.run}' =
                 {s \in scores : s.scoring_run_id # upload.run}
      BY <2>1, <2>2, <3>1, <3>2 DEF PublishedUpToLast
    <3> QED
      BY <2>2, <3>3 DEF Published!vars
  <2>3. ScoresTypeOK /\ RunsNumbered /\ UploadOfLastRun /\ LastPublished \in Nat
    BY <2>1 DEF IInv, PublishedUpToLast
  <2>4. ASSUME UNCHANGED <<scoring_runs, scores, upload, cache>>
        PROVE  UNCHANGED Published!vars
    <3>1. /\ LastPublished' = LastPublished
          /\ \A run : ScoresOf(run)' = ScoresOf(run) /\ ScoresUpTo(run)' = ScoresUpTo(run)
      BY <2>3, <2>4, SameTables
    <3> QED
      BY <2>2, <2>3, <2>4, <3>1 DEF TablesGrow
  <2>5. ASSUME NEW chunks \in 0..MaxChunks, InsertScoringRun(chunks)
        PROVE  UNCHANGED Published!vars
    <3>1. UNCHANGED cache /\ upload = NoUpload
      BY <2>5 DEF InsertScoringRun
    <3>2. TablesGrow
      BY <2>3, <2>5, UploadGrowsTables
    <3>3. /\ LastScoringRun' = LastScoringRun + 1
          /\ upload' = [run |-> LastScoringRun + 1, chunks |-> chunks, stored |-> 0]
          /\ LastScoringRun \in Nat
      BY <2>3, <2>5, RunInserted DEF RunsNumbered
    <3>4. upload' # NoUpload
      BY <3>3 DEF NoUpload, NoRun
    <3>5. LastPublished' = LastPublished
      BY <3>1, <3>3, <3>4 DEF LastPublished
    <3> QED
      BY <2>2, <3>1, <3>2, <3>5
  <2>6. CASE InsertScores
    <3>1. UNCHANGED <<scoring_runs, cache>> /\ upload # NoUpload /\ upload'.run = upload.run
      BY <2>3, <2>6 DEF InsertScores, ScoresTypeOK
    <3>2. TablesGrow
      BY <2>3, <2>6, UploadGrowsTables
    <3>3. upload.run > 0
      BY <2>3, <3>1 DEF UploadOfLastRun
    <3>4. upload' # NoUpload
      BY <3>1, <3>3 DEF NoUpload, NoRun
    <3>5. LastPublished' = LastPublished
      BY <3>1, <3>4, SameLastRun DEF LastPublished
    <3> QED
      BY <2>2, <3>1, <3>2, <3>5
  <2>7. CASE FinishUpload \/ UploadFails
    <3>1. /\ upload # NoUpload /\ upload' = NoUpload
          /\ UNCHANGED <<scoring_runs, scores, cache>>
      BY <2>7 DEF FinishUpload, UploadFails
    <3>2. Published!Publish
      BY <3>1, UploadPublishes
    <3> QED
      BY <3>1, <3>2 DEF Published!Next
  <2>8. CASE LoadLastScoringRun \/ LoadScores \/ LoadAllScores \/ LoadScoringRuns \/ WarmingFails
    <3>1. UNCHANGED <<scoring_runs, scores, upload, cache>>
      BY <2>8 DEF LoadLastScoringRun, LoadScores, LoadAllScores, LoadScoringRuns,
                  Query, WarmingFails
    <3> QED
      BY <2>4, <3>1
  <2>9. CASE WriteSingleRunScores
    BY <2>9, WriteRefreshesSingle DEF Published!Next
  <2>10. CASE WriteMultiRunScores
    BY <2>10, WriteRefreshesMulti DEF Published!Next
  <2>11. CASE Restart
    <3>1. /\ UNCHANGED <<scoring_runs, scores>> /\ upload' = NoUpload
          /\ cache' = EmptyCache
      BY <2>11 DEF Restart
    <3>2. cache' = Published!Nothing
      BY <3>1 DEF EmptyCache, NoRun, Published!Nothing, Published!NoRun
    <3>3. CASE upload = NoUpload
      BY <3>1, <3>2, <3>3 DEF Published!Next, Published!Forget
    <3>4. CASE upload # NoUpload
      <4>1. Published!Publish
        BY <3>1, <3>4, UploadPublishes
      <4> QED
        BY <3>2, <4>1 DEF Published!Next, Published!Forget
    <3> QED
      BY <3>3, <3>4
  <2>12. CASE UNCHANGED scoresVars
    BY <2>4, <2>12 DEF scoresVars
  <2> QED
    BY <2>5, <2>6, <2>7, <2>8, <2>9, <2>10, <2>11, <2>12 DEF ScoresNext, UploadStep, WarmerStep
<1> QED
  BY <1>1, <1>2, Invariance, PTL DEF ScoresSpec

=============================================================================
