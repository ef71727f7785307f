----------------------------- MODULE CloudTasks -----------------------------
(***************************************************************************)
(* The Cloud Tasks emulator: internal/cloudtasks/store.go and the RPC      *)
(* handlers and dispatch loop of internal/cloudtasks/service.go.           *)
(*                                                                         *)
(* Store methods run under one mutex and, but for DueTasks, end by writing *)
(* the whole state to one JSON file: each is one step.  The dispatch loop  *)
(* marks the due tasks and starts one goroutine for each; a goroutine      *)
(* posts a copy of its task and then completes or retries the task by its  *)
(* queue and name, whatever became of them in the meantime.                *)
(*                                                                         *)
(* A schedule time is kept as the seconds left until it.  A task carries a *)
(* serial number, which the code does not have, that tells a task from a   *)
(* later one of the same name.                                             *)
(***************************************************************************)
EXTENDS Integers, FiniteSets, Functions

CONSTANTS
  Queues,        \* queue names
  Names,         \* task names clients choose
  QueueConfigs,  \* the retry configurations CreateQueue is given
  Delays,        \* seconds from now to the schedule times of CreateTask
  NoQueue,       \* a name that is not in the queues map
  DataDir,       \* whether a data directory is configured
  DurationLimit, \* the first value beyond a time.Duration, in seconds here
  MaxAuto,       \* bound: names the store generates
  MaxCreated,    \* bound: tasks ever created
  AttemptCap,    \* bound: the maximum attempts of a queue
  MaxCrashes     \* bound: restarts of the process

\* What a client sends; zero and negative values stand for the defaults.
RetryConfig == [maxAttempts : Int, minBackoff : Int, maxBackoff : Int, maxDoublings : Int]

DefaultMaxAttempts == 3
DefaultMinBackoff == 1
DefaultMaxBackoff == 10

ASSUME BoundsAssumption ==
  /\ {MaxAuto, MaxCreated, MaxCrashes, AttemptCap} \subseteq Nat
  /\ AttemptCap >= DefaultMaxAttempts
  /\ DurationLimit \in Nat \ {0}

ASSUME RequestAssumption ==
  /\ QueueConfigs \subseteq RetryConfig
  /\ \A c \in QueueConfigs : c.maxAttempts <= AttemptCap
  /\ Delays \subseteq Nat
  /\ DataDir \in BOOLEAN

\* A stored queue: every field but maxDoublings has a positive value.
Queue == [maxAttempts : 1..AttemptCap, minBackoff : Nat \ {0},
          maxBackoff : Nat \ {0}, maxDoublings : Int]

TaskNames == Names \cup (1..MaxAuto)

Task == [uid : 1..MaxCreated, wait : Nat, count : 0..AttemptCap,
         state : {"pending", "dispatching"}]

\* A dispatchTask goroutine and what it needs of the copy it was given.
Worker == [queue : Queues, name : TaskNames, uid : 1..MaxCreated, count : 0..AttemptCap]

ASSUME NamesAssumption == NoQueue \notin Queue /\ Names \cap Nat = {}

VARIABLES
  queues,   \* Store.queues: queue name -> retry configuration
  tasks,    \* Store.tasks: queue name -> task name -> task
  counter,  \* Store.counter, for generated names
  disk,     \* what load() would read from state.json
  workers,  \* the dispatchTask goroutines that are waiting for their response
  purges,   \* the queues of PurgeQueue calls between purge and answer
  created,  \* serial numbers given out
  crashes,  \* restarts so far
  event     \* history: what the last step was told from outside

storeVars == <<queues, tasks>>
vars == <<storeVars, counter, disk, workers, purges, created, crashes, event>>

-----------------------------------------------------------------------------
NoTasks == [n \in {} |-> 0]

Has(q, n) == n \in DOMAIN tasks[q]

Put(ts, n, t) == [m \in DOMAIN ts \cup {n} |-> IF m = n THEN t ELSE ts[m]]

Without(ts, n) == Restrict(ts, DOMAIN ts \ {n})

ImageOf(qs, ts) == [queues |-> qs, tasks |-> ts]

NoImage == ImageOf([q \in Queues |-> NoQueue], [q \in Queues |-> NoTasks])

\* What a step may be told: a client has tasks removed, a request is answered,
\* the process ends.
Events == {"none", "removal", "accepted", "refused", "restart", "torn"}

persist == disk' = IF DataDir THEN ImageOf(queues', tasks') ELSE disk

Init ==
  /\ queues = [q \in Queues |-> NoQueue]
  /\ tasks = [q \in Queues |-> NoTasks]
  /\ counter = 0
  /\ disk = NoImage
  /\ workers = {} /\ purges = {}
  /\ created = 0 /\ crashes = 0 /\ event = "none"

-----------------------------------------------------------------------------
(* Queues                                                                  *)

\* Variant: zero is stored as it came.
OrDefaultNot(x, default) == x

OrDefault(x, default) == IF x > 0 THEN x ELSE default

\* The retry configuration a queue is stored with.
Configured(c) ==
  [maxAttempts  |-> OrDefault(c.maxAttempts, DefaultMaxAttempts),
   minBackoff   |-> OrDefault(c.minBackoff, DefaultMinBackoff),
   maxBackoff   |-> OrDefault(c.maxBackoff, DefaultMaxBackoff),
   maxDoublings |-> c.maxDoublings]

CreateQueue(q, c) ==
  /\ queues[q] = NoQueue
  /\ queues' = [queues EXCEPT ![q] = Configured(c)]
  /\ tasks' = [tasks EXCEPT ![q] = NoTasks]
  /\ persist
  /\ UNCHANGED <<counter, workers, purges, created, crashes>>
  /\ event' = "none"

DeleteQueue(q) ==
  /\ queues[q] # NoQueue
  /\ queues' = [queues EXCEPT ![q] = NoQueue]
  /\ tasks' = [tasks EXCEPT ![q] = NoTasks]
  /\ persist
  /\ UNCHANGED <<counter, workers, purges, created, crashes>>
  /\ event' = "removal"

\* The PurgeQueue handler calls the store twice: it purges, and it reads the
\* queue again for its answer.
PurgeQueue(q) ==
  /\ queues[q] # NoQueue
  /\ q \notin purges
  /\ tasks' = [tasks EXCEPT ![q] = NoTasks]
  /\ purges' = purges \cup {q}
  /\ UNCHANGED queues
  /\ persist
  /\ UNCHANGED <<counter, workers, created, crashes>>
  /\ event' = "removal"

PurgeAnswer(q) ==
  /\ q \in purges
  /\ queues[q] # NoQueue
  /\ purges' = purges \ {q}
  /\ UNCHANGED <<storeVars, counter, disk, workers, created, crashes>>
  /\ event' = "none"

-----------------------------------------------------------------------------
(* Tasks                                                                   *)

NewTask(delay) == [uid |-> created + 1, wait |-> delay, count |-> 0, state |-> "pending"]

\* Store.CreateTask once the name is known.
Insert(q, n, delay) ==
  /\ created < MaxCreated
  /\ tasks' = [tasks EXCEPT ![q] = Put(@, n, NewTask(delay))]
  /\ created' = created + 1
  /\ UNCHANGED queues
  /\ persist

CreateTask(q, n, delay) ==
  /\ queues[q] # NoQueue
  /\ ~Has(q, n)
  /\ Insert(q, n, delay)
  /\ UNCHANGED <<counter, workers, purges, crashes>>
  /\ event' = "none"

\* A task without a name.  The counter moves even when the name it gives is
\* taken and the call fails, as it may be after a restart.
CreateUnnamedTask(q, delay) ==
  /\ queues[q] # NoQueue
  /\ counter < MaxAuto
  /\ counter' = counter + 1
  /\ IF Has(q, counter') THEN UNCHANGED <<storeVars, disk, created>>
                         ELSE Insert(q, counter', delay)
  /\ UNCHANGED <<workers, purges, crashes>>
  /\ event' = "none"

DeleteTask(q, n) ==
  /\ Has(q, n)
  /\ tasks' = [tasks EXCEPT ![q] = Without(@, n)]
  /\ UNCHANGED queues
  /\ persist
  /\ UNCHANGED <<counter, workers, purges, created, crashes>>
  /\ event' = "removal"

-----------------------------------------------------------------------------
(* Dispatching                                                             *)

\* Variant: only a task that was never dispatched is due.
IsDueOnce(t) == t.state = "pending" /\ t.wait = 0 /\ t.count = 0

IsDue(t) == t.state = "pending" /\ t.wait = 0

Taken(t) == [t EXCEPT !.state = "dispatching", !.count = @ + 1]

\* One round of dispatchLoop: DueTasks marks every due task and returns
\* copies, a goroutine is started for each.  Nothing is written to disk.
DispatchDue ==
  LET due == {qn \in Queues \X TaskNames : Has(qn[1], qn[2]) /\ IsDue(tasks[qn[1]][qn[2]])}
  IN  /\ due # {}
      /\ tasks' = [q \in Queues |-> [n \in DOMAIN tasks[q] |->
            IF IsDue(tasks[q][n]) THEN Taken(tasks[q][n]) ELSE tasks[q][n]]]
      /\ workers' = workers \cup
           {[queue |-> qn[1], name |-> qn[2], uid |-> tasks[qn[1]][qn[2]].uid,
             count |-> tasks[qn[1]][qn[2]].count + 1] : qn \in due}
      /\ UNCHANGED <<queues, counter, disk, purges, created, crashes>>
      /\ event' = "none"

\* Variant: a completion is not written to disk.
CompleteTaskInMemory(q, n) ==
  /\ tasks' = [tasks EXCEPT ![q] = Without(@, n)]
  /\ UNCHANGED <<queues, disk>>

CompleteTask(q, n) ==
  /\ tasks' = [tasks EXCEPT ![q] = Without(@, n)]
  /\ UNCHANGED queues
  /\ persist

\* The value of a time.Duration computation.
Wrap(x) == ((x + DurationLimit) % (2 * DurationLimit)) - DurationLimit

SmallerOf(a, b) == IF a < b THEN a ELSE b

LargerOf(a, b) == IF a < b THEN b ELSE a

\* One for each attempt after the first, up to maxDoublings.  A goroutine of an
\* older task may retry one that has not been dispatched yet.
Doublings(c, count) ==
  LargerOf(0, SmallerOf(count - 1, c.maxDoublings))

\* Variant: the backoff is not limited.
BackoffUnlimited(c, count) == Wrap(c.minBackoff * 2^Doublings(c, count))

\* The delay of RetryTask after "count" attempts.
Backoff(c, count) ==
  LET backoff == Wrap(c.minBackoff * 2^Doublings(c, count))
  IN  IF backoff > c.maxBackoff THEN c.maxBackoff ELSE backoff

\* Variant: one attempt too many.
ExhaustedLate(c, t) == t.count > c.maxAttempts

\* Variant: one attempt too few.
ExhaustedEarly(c, t) == t.count + 1 >= c.maxAttempts

Exhausted(c, t) == t.count >= c.maxAttempts

\* Variant: the task stays marked as dispatching.
RescheduledOnly(t, delay) == [t EXCEPT !.wait = IF delay > 0 THEN delay ELSE 0]

Rescheduled(t, delay) ==
  [t EXCEPT !.wait = IF delay > 0 THEN delay ELSE 0, !.state = "pending"]

\* RetryTask by the task that has the name now.
RetryTask(q, n) ==
  IF ~Has(q, n) THEN UNCHANGED <<storeVars, disk>>
  ELSE LET c == queues[q]
           t == tasks[q][n]
       IN  /\ tasks' = [tasks EXCEPT ![q] =
                 IF Exhausted(c, t) THEN Without(@, n)
                 ELSE Put(@, n, Rescheduled(t, Backoff(c, t.count)))]
           /\ UNCHANGED queues
           /\ persist

\* A dispatchTask goroutine gets its response, or none.
WorkerEnds(w, ok) ==
  /\ IF ok THEN CompleteTask(w.queue, w.name) ELSE RetryTask(w.queue, w.name)
  /\ workers' = workers \ {w}
  /\ event' = IF ok THEN "accepted" ELSE "refused"
  /\ UNCHANGED <<counter, purges, created, crashes>>

-----------------------------------------------------------------------------
(* The environment                                                         *)

\* A new process loads an image: its counter starts again from zero and the
\* state of each task is the one last written.
Restarts(image) ==
  /\ crashes < MaxCrashes
  /\ crashes' = crashes + 1
  /\ queues' = image.queues
  /\ tasks' = image.tasks
  /\ counter' = 0
  /\ workers' = {} /\ purges' = {}
  /\ UNCHANGED created

Restart == Restarts(disk) /\ UNCHANGED disk /\ event' = "restart"

\* The process ends inside os.WriteFile: the file that is left does not parse.
TornWrite ==
  DataDir /\ Restarts(NoImage) /\ disk' = NoImage /\ event' = "torn"

\* PurgeQueue answers with a queue that was deleted meanwhile: queueToProto
\* dereferences nil, and no interceptor recovers from the panic.
PurgePanic(q) ==
  /\ q \in purges
  /\ queues[q] = NoQueue
  /\ Restart

Aged(ts) == [n \in DOMAIN ts |-> [ts[n] EXCEPT !.wait = IF @ > 0 THEN @ - 1 ELSE 0]]

Tick ==
  /\ \E q \in Queues : \E n \in DOMAIN tasks[q] : tasks[q][n].wait > 0
  /\ tasks' = [q \in Queues |-> Aged(tasks[q])]
  /\ disk' = [disk EXCEPT !.tasks = [q \in Queues |-> Aged(@[q])]]
  /\ UNCHANGED <<queues, counter, workers, purges, created, crashes>>
  /\ event' = "none"

-----------------------------------------------------------------------------
QueueNext ==
  \/ \E q \in Queues, c \in QueueConfigs : CreateQueue(q, c)
  \/ \E q \in Queues : DeleteQueue(q) \/ PurgeQueue(q) \/ PurgeAnswer(q)

TaskNext ==
  \/ \E q \in Queues, n \in Names, d \in Delays : CreateTask(q, n, d)
  \/ \E q \in Queues, d \in Delays : CreateUnnamedTask(q, d)
  \/ \E q \in Queues, n \in TaskNames : DeleteTask(q, n)

DispatchNext ==
  \/ DispatchDue
  \/ \E w \in workers, ok \in BOOLEAN : WorkerEnds(w, ok)

EnvNext ==
  \/ Restart \/ TornWrite \/ Tick
  \/ \E q \in Queues : PurgePanic(q)

Next == QueueNext \/ TaskNext \/ DispatchNext \/ EnvNext

Spec == Init /\ [][Next]_vars

\* The dispatch loop is a goroutine on a ticker, every dispatch ends by the
\* client's timeout, and time passes.
Fairness ==
  /\ WF_vars(DispatchDue)
  /\ \A q \in Queues, n \in TaskNames, u \in 1..MaxCreated :
       WF_vars(\E w \in workers, ok \in BOOLEAN :
                 w.queue = q /\ w.name = n /\ w.uid = u /\ WorkerEnds(w, ok))
  /\ WF_vars(Tick)

FairSpec == Spec /\ Fairness

-----------------------------------------------------------------------------
(* Properties                                                              *)

IsTaskMap(ts) == DOMAIN ts \subseteq TaskNames /\ ts \in [DOMAIN ts -> Task]

AreTaskMaps(f) ==
  /\ f = [q \in Queues |-> f[q]]
  /\ \A q \in Queues : IsTaskMap(f[q])

IsImage(d) ==
  /\ d = [queues |-> d.queues, tasks |-> d.tasks]
  /\ d.queues \in [Queues -> Queue \cup {NoQueue}]
  /\ AreTaskMaps(d.tasks)

\* The type invariant: stored queues have positive limits and backoffs, no
\* task is past the attempts any queue allows, no delay is negative.
TypeOK ==
  /\ queues \in [Queues -> Queue \cup {NoQueue}]
  /\ AreTaskMaps(tasks)
  /\ counter \in 0..MaxAuto
  /\ IsImage(disk)
  /\ workers \subseteq Worker
  /\ purges \subseteq Queues
  /\ created \in 0..MaxCreated
  /\ crashes \in 0..MaxCrashes
  /\ event \in Events

\* Tasks exist only under existing queues, in memory and on disk.  RetryTask
\* relies on it: it tests the queue for nil in one place and dereferences it
\* in the next, and the tasks it finds may be those of a restart.
TasksHaveQueues ==
  \A q \in Queues :
    /\ queues[q] = NoQueue => tasks[q] = NoTasks
    /\ disk.queues[q] = NoQueue => disk.tasks[q] = NoTasks

\* A task that waits has an attempt left, and one that is being dispatched has
\* not been dispatched more often than its queue allows.
WithinAttempts(c, t) ==
  IF t.state = "pending" THEN t.count < c.maxAttempts ELSE t.count <= c.maxAttempts

\* The limit of the queue holds for every task, with goroutines of deleted
\* tasks retrying the tasks that took their names, and queues that come back
\* with other limits.
AttemptsBounded ==
  \A q \in Queues : \A n \in DOMAIN tasks[q] : WithinAttempts(queues[q], tasks[q][n])

\* With a data directory, a crash between two store calls neither loses a
\* task nor brings a completed, dropped or deleted one back.
CrashLosesNoTask ==
  DataDir =>
    /\ disk.queues = queues
    /\ \A q \in Queues :
         /\ DOMAIN disk.tasks[q] = DOMAIN tasks[q]
         /\ \A n \in DOMAIN tasks[q] : disk.tasks[q][n].uid = tasks[q][n].uid

\* In a process that has not been restarted a task marked as dispatching has
\* a goroutine that will complete or retry it: nothing else ever looks at it.
DispatchingHasWorker ==
  crashes = 0 =>
    \A q \in Queues : \A n \in DOMAIN tasks[q] :
      tasks[q][n].state = "dispatching" =>
        \E w \in workers : w.queue = q /\ w.name = n /\ w.uid = tasks[q][n].uid

\* No backoff of the queues clients ask for is doubled out of a time.Duration.
BackoffsFit ==
  \A c \in QueueConfigs, count \in 0..AttemptCap :
    LET doubled == Configured(c).minBackoff * 2^Doublings(Configured(c), count)
    IN  Configured(c).minBackoff <= doubled /\ doubled < DurationLimit

\* A retried task, and one that the goroutine of an older task retries, waits
\* at least the smaller and at most the larger of the queue's two backoffs,
\* if BackoffsFit.
RetryWaitsInRange ==
  [][\A q \in Queues : \A n \in DOMAIN tasks[q] \cap DOMAIN tasks'[q] :
       LET old == tasks[q][n]
           new == tasks'[q][n]
       IN  /\ new.uid = old.uid /\ crashes' = crashes
           /\ old.state = "dispatching" \/ new.wait > old.wait
           /\ new.state = "pending"
           => /\ new.wait <= queues[q].maxBackoff
              /\ new.wait >= SmallerOf(queues[q].minBackoff, queues[q].maxBackoff)]_vars

\* What is kept of the tasks of a queue.
Kept(ts) == [n \in DOMAIN ts |-> [uid |-> ts[n].uid, count |-> ts[n].count]]

\* The store is a set of task queues: the dispatch loop, stale goroutines, purges
\* beside deletions and restarts take no task away but as they promise.
Promise == INSTANCE TaskQueues
             WITH held <- [q \in Queues |-> Kept(tasks[q])],
                  requests <- workers, last <- created

ImplementsTaskQueues == Promise!Spec

Exists(u) == \E q \in Queues : \E n \in DOMAIN tasks[q] : tasks[q][n].uid = u

\* A task marked as dispatching with no goroutine: what a restart leaves.
Orphan(u) ==
  /\ \E q \in Queues : \E n \in DOMAIN tasks[q] :
       tasks[q][n].uid = u /\ tasks[q][n].state = "dispatching"
  /\ \A w \in workers : w.uid # u

\* Every task, also one that a restart found pending, is eventually completed,
\* dropped or deleted, or it is left over from a restart that came between its
\* dispatch and its answer.  Goroutines of its predecessors may retry and
\* complete it on the way.
TaskSettles ==
  \A u \in 1..MaxCreated : Exists(u) ~> (~Exists(u) \/ Orphan(u))

-----------------------------------------------------------------------------
(* A comment that the code does not keep                                   *)

\* "CompleteTask removes a successfully dispatched task." (store.go:252): the
\* task a goroutine removes is the one it dispatched.
CompletesOwnTask ==
  [][\A w \in workers :
       (/\ workers' = workers \ {w} /\ crashes' = crashes
        /\ Has(w.queue, w.name) /\ w.name \notin DOMAIN tasks'[w.queue])
       => tasks[w.queue][w.name].uid = w.uid]_vars

=============================================================================
