-------------------------- MODULE CloudTasksProofs --------------------------
(***************************************************************************)
(* Proofs about CloudTasks, for every value of its constants.              *)
(***************************************************************************)
EXTENDS CloudTasks, TLAPS

-----------------------------------------------------------------------------
(* Stores                                                                  *)

\* What holds of the store in memory and, because load trusts the file, of the
\* image on disk: well-typed tables, tasks only under existing queues, and
\* every task within the attempts of its queue.
Sound(qs, ts) ==
  /\ qs \in [Queues -> Queue \cup {NoQueue}]
  /\ AreTaskMaps(ts)
  /\ \A q \in Queues : qs[q] = NoQueue => ts[q] = NoTasks
  /\ \A q \in Queues : \A n \in DOMAIN ts[q] : WithinAttempts(qs[q], ts[q][n])

DiskSound ==
  /\ disk = ImageOf(disk.queues, disk.tasks)
  /\ Sound(disk.queues, disk.tasks)

\* A store without queues is sound.
LEMMA EmptySound ==
  Sound([q \in Queues |-> NoQueue], [q \in Queues |-> NoTasks])
BY DEF Sound, AreTaskMaps, IsTaskMap, NoTasks

\* Replacing the tasks of a queue keeps the store sound if the new ones are
\* well typed and within the attempts.
LEMMA ReplaceSound ==
  ASSUME NEW qs, NEW ts, Sound(qs, ts), NEW q \in Queues, NEW map,
         IsTaskMap(map),
         qs[q] = NoQueue => map = NoTasks,
         \A n \in DOMAIN map : WithinAttempts(qs[q], map[n])
  PROVE  Sound(qs, [ts EXCEPT ![q] = map])
BY DEF Sound, AreTaskMaps

\* Adding a task, or storing another state of it.
LEMMA PutSound ==
  ASSUME NEW qs, NEW ts, Sound(qs, ts), NEW q \in Queues, qs[q] # NoQueue,
         NEW n \in TaskNames, NEW t \in Task, WithinAttempts(qs[q], t)
  PROVE  Sound(qs, [ts EXCEPT ![q] = Put(@, n, t)])
<1>1. IsTaskMap(ts[q])
  BY DEF Sound, AreTaskMaps
<1>2. IsTaskMap(Put(ts[q], n, t))
  BY <1>1 DEF IsTaskMap, Put
<1>3. \A m \in DOMAIN Put(ts[q], n, t) : WithinAttempts(qs[q], Put(ts[q], n, t)[m])
  BY DEF Sound, Put
<1>. QED  BY <1>2, <1>3, ReplaceSound

\* Removing a task.
LEMMA WithoutSound ==
  ASSUME NEW qs, NEW ts, Sound(qs, ts), NEW q \in Queues, NEW n
  PROVE  Sound(qs, [ts EXCEPT ![q] = Without(@, n)])
<1>1. IsTaskMap(Without(ts[q], n))
  BY DEF Sound, AreTaskMaps, IsTaskMap, Without, Restrict
<1>2. qs[q] = NoQueue => Without(ts[q], n) = NoTasks
  BY DEF Sound, NoTasks, Without, Restrict
<1>3. \A m \in DOMAIN Without(ts[q], n) : WithinAttempts(qs[q], Without(ts[q], n)[m])
  BY DEF Sound, Without, Restrict
<1>. QED  BY <1>1, <1>2, <1>3, ReplaceSound

\* Removing all tasks of a queue.
LEMMA PurgeSound ==
  ASSUME NEW qs, NEW ts, Sound(qs, ts), NEW q \in Queues
  PROVE  Sound(qs, [ts EXCEPT ![q] = NoTasks])
<1>1. IsTaskMap(NoTasks)
  BY DEF IsTaskMap, NoTasks
<1>2. DOMAIN NoTasks = {}
  BY DEF NoTasks
<1>. QED  BY <1>1, <1>2, ReplaceSound

\* A queue comes, goes, or changes with no task in it.
LEMMA QueueSound ==
  ASSUME NEW qs, NEW ts, Sound(qs, ts), NEW q \in Queues,
         NEW c \in Queue \cup {NoQueue}
  PROVE  Sound([qs EXCEPT ![q] = c], [ts EXCEPT ![q] = NoTasks])
BY DEF Sound, AreTaskMaps, IsTaskMap, NoTasks

\* Time passes for the tasks of every queue.
LEMMA AgedSound ==
  ASSUME NEW qs, NEW ts, Sound(qs, ts)
  PROVE  Sound(qs, [q \in Queues |-> Aged(ts[q])])
<1>1. ASSUME NEW q \in Queues
      PROVE  /\ IsTaskMap(Aged(ts[q]))
             /\ qs[q] = NoQueue => Aged(ts[q]) = NoTasks
             /\ \A n \in DOMAIN Aged(ts[q]) : WithinAttempts(qs[q], Aged(ts[q])[n])
  <2>1. IsTaskMap(ts[q])
    BY DEF Sound, AreTaskMaps
  <2>2. ASSUME NEW n \in DOMAIN ts[q]
        PROVE  /\ Aged(ts[q])[n] \in Task
               /\ WithinAttempts(qs[q], Aged(ts[q])[n])
    <3>1. ts[q][n] \in Task /\ WithinAttempts(qs[q], ts[q][n])
      BY <2>1 DEF IsTaskMap, Sound
    <3>. QED  BY <3>1 DEF Aged, Task, WithinAttempts
  <2>3. DOMAIN Aged(ts[q]) = DOMAIN ts[q]
    BY DEF Aged
  <2>4. IsTaskMap(Aged(ts[q]))
    BY <2>1, <2>2, <2>3 DEF IsTaskMap, Aged
  <2>5. qs[q] = NoQueue => Aged(ts[q]) = NoTasks
    BY DEF Sound, NoTasks, Aged
  <2>. QED  BY <2>2, <2>3, <2>4, <2>5
<1>. QED  BY <1>1 DEF Sound, AreTaskMaps

\* A round of the dispatch loop: a task that is due has an attempt left.
LEMMA TakenType ==
  ASSUME NEW c \in Queue, NEW t \in Task, IsDue(t), WithinAttempts(c, t)
  PROVE  /\ Taken(t) \in Task
         /\ WithinAttempts(c, Taken(t))
         /\ t.count + 1 \in 0..AttemptCap
<1>1. t.count < c.maxAttempts /\ c.maxAttempts \in 1..AttemptCap /\ t.count \in Nat
  BY BoundsAssumption DEF IsDue, WithinAttempts, Queue, Task
<1>2. t.count + 1 \in 0..AttemptCap
  BY <1>1, BoundsAssumption
<1>3. Taken(t) \in Task
  BY <1>2 DEF Taken, Task
<1>4. Taken(t).state = "dispatching" /\ Taken(t).count = t.count + 1
  BY DEF Taken, Task
<1>. QED  BY <1>1, <1>2, <1>3, <1>4 DEF WithinAttempts

-----------------------------------------------------------------------------
(* The delay of a retry                                                    *)

\* The delay is a number of seconds, also when the computation wraps around.
LEMMA BackoffType ==
  ASSUME NEW c \in Queue, NEW n \in 0..AttemptCap
  PROVE  Backoff(c, n) \in Int
<1>1. Doublings(c, n) \in Nat
  BY BoundsAssumption DEF Doublings, SmallerOf, LargerOf, Queue
<1>2. 2^Doublings(c, n) \in Int
  BY <1>1
<1>3. c.minBackoff \in Int /\ c.maxBackoff \in Int
  BY DEF Queue
<1>4. c.minBackoff * 2^Doublings(c, n) \in Int
  BY <1>2, <1>3
<1>5. Wrap(c.minBackoff * 2^Doublings(c, n)) \in Int
  BY <1>4, BoundsAssumption DEF Wrap
<1>. QED  BY <1>3, <1>5 DEF Backoff

\* A rescheduled task is a task, and within its attempts if it was not
\* exhausted.
LEMMA RescheduledType ==
  ASSUME NEW c \in Queue, NEW t \in Task, ~Exhausted(c, t), NEW delay \in Int
  PROVE  /\ Rescheduled(t, delay) \in Task
         /\ WithinAttempts(c, Rescheduled(t, delay))
<1>1. (IF delay > 0 THEN delay ELSE 0) \in Nat
  OBVIOUS
<1>2. ASSUME NEW w \in Nat
      PROVE  /\ [t EXCEPT !.wait = w, !.state = "pending"] \in Task
             /\ WithinAttempts(c, [t EXCEPT !.wait = w, !.state = "pending"])
  <2>1. [t EXCEPT !.wait = w, !.state = "pending"] \in Task
    BY DEF Task
  <2>2. /\ [t EXCEPT !.wait = w, !.state = "pending"].state = "pending"
        /\ [t EXCEPT !.wait = w, !.state = "pending"].count = t.count
    BY DEF Task
  <2>3. t.count < c.maxAttempts
    BY BoundsAssumption DEF Exhausted, Task, Queue
  <2>. QED  BY <2>1, <2>2, <2>3 DEF WithinAttempts
<1>. QED  BY <1>1, <1>2 DEF Rescheduled

-----------------------------------------------------------------------------
(* Type correctness, tasks and queues, attempts                            *)

\* The inductive invariant.  A task that waits has an attempt left, so the
\* count of the next dispatch is in range; that a task has a queue makes the
\* queue RetryTask reads one; and both must hold of the file, which a restart
\* puts in their place.
TInv ==
  /\ Sound(queues, tasks)
  /\ DiskSound
  /\ counter \in 0..MaxAuto
  /\ workers \subseteq Worker
  /\ purges \subseteq Queues
  /\ created \in 0..MaxCreated
  /\ crashes \in 0..MaxCrashes
  /\ event \in Events

\* What the properties of the runs need of it.
LEMMA TInvImplies ==
  TInv => TypeOK /\ TasksHaveQueues /\ AttemptsBounded
<1>. SUFFICES ASSUME TInv PROVE TypeOK /\ TasksHaveQueues /\ AttemptsBounded
  OBVIOUS
<1>1. IsImage(disk)
  BY DEF TInv, DiskSound, Sound, ImageOf, IsImage
<1>2. TypeOK
  BY <1>1 DEF TInv, Sound, TypeOK
<1>3. TasksHaveQueues
  BY DEF TInv, DiskSound, Sound, TasksHaveQueues
<1>4. AttemptsBounded
  BY DEF TInv, Sound, AttemptsBounded
<1>. QED  BY <1>2, <1>3, <1>4

\* Writing a sound store leaves a sound file.
LEMMA PersistSound ==
  ASSUME DiskSound, Sound(queues', tasks'), persist
  PROVE  DiskSound'
<1>1. CASE DataDir
  <2>1. disk' = ImageOf(queues', tasks')
    BY <1>1 DEF persist
  <2>2. disk'.queues = queues' /\ disk'.tasks = tasks'
    BY <2>1 DEF ImageOf
  <2>. QED  BY <2>1, <2>2 DEF DiskSound
<1>2. CASE ~DataDir
  BY <1>2 DEF persist, DiskSound
<1>. QED  BY <1>1, <1>2

\* The invariant holds at the start.
LEMMA InitSound == Init => TInv
<1>. SUFFICES ASSUME Init PROVE TInv
  OBVIOUS
<1>1. DiskSound
  BY EmptySound DEF Init, NoImage, ImageOf, DiskSound
<1>2. event \in Events
  BY DEF Init, Events
<1>. QED  BY <1>1, <1>2, EmptySound, BoundsAssumption DEF Init, TInv

\* CreateQueue, DeleteQueue and PurgeQueue keep it.
LEMMA QueueNextSound == TInv /\ QueueNext => TInv'
<1>. SUFFICES ASSUME TInv, QueueNext PROVE TInv'
  OBVIOUS
<1>. USE DEF Events
<1>1. ASSUME NEW q \in Queues, NEW c \in QueueConfigs, CreateQueue(q, c)
      PROVE  TInv'
  <2>1. Configured(c) \in Queue
    BY BoundsAssumption, RequestAssumption
    DEF Configured, Queue, RetryConfig, OrDefault, DefaultMaxAttempts, DefaultMinBackoff,
        DefaultMaxBackoff
  <2>2. Sound(queues', tasks')
    BY <1>1, <2>1, QueueSound DEF CreateQueue, TInv
  <2>3. DiskSound'
    BY <1>1, <2>2, PersistSound DEF CreateQueue, TInv
  <2>. QED  BY <1>1, <2>2, <2>3 DEF CreateQueue, TInv
<1>2. ASSUME NEW q \in Queues, DeleteQueue(q)
      PROVE  TInv'
  <2>1. Sound(queues', tasks')
    BY <1>2, QueueSound DEF DeleteQueue, TInv
  <2>2. DiskSound'
    BY <1>2, <2>1, PersistSound DEF DeleteQueue, TInv
  <2>. QED  BY <1>2, <2>1, <2>2 DEF DeleteQueue, TInv
<1>3. ASSUME NEW q \in Queues, PurgeQueue(q)
      PROVE  TInv'
  <2>1. Sound(queues', tasks')
    BY <1>3, PurgeSound DEF PurgeQueue, TInv
  <2>2. DiskSound'
    BY <1>3, <2>1, PersistSound DEF PurgeQueue, TInv
  <2>. QED  BY <1>3, <2>1, <2>2 DEF PurgeQueue, TInv
<1>4. ASSUME NEW q \in Queues, PurgeAnswer(q)
      PROVE  TInv'
  BY <1>4 DEF PurgeAnswer, storeVars, TInv, DiskSound
<1>. QED  BY <1>1, <1>2, <1>3, <1>4 DEF QueueNext

\* A new task has all its attempts.
LEMMA InsertSound ==
  ASSUME TInv, NEW q \in Queues, queues[q] # NoQueue, NEW n \in TaskNames,
         NEW d \in Delays, Insert(q, n, d)
  PROVE  /\ Sound(queues', tasks')
         /\ DiskSound'
         /\ created' \in 0..MaxCreated
<1>1. NewTask(d) \in Task
  BY BoundsAssumption, RequestAssumption DEF NewTask, Task, Insert, TInv
<1>2. WithinAttempts(queues[q], NewTask(d))
  <2>1. queues[q] \in Queue
    BY DEF TInv, Sound
  <2>2. NewTask(d).state = "pending" /\ NewTask(d).count = 0
    BY DEF NewTask
  <2>. QED  BY <2>1, <2>2, BoundsAssumption DEF Queue, WithinAttempts
<1>3. Sound(queues', tasks')
  BY <1>1, <1>2, PutSound DEF Insert, TInv
<1>4. DiskSound'
  BY <1>3, PersistSound DEF Insert, TInv
<1>5. created' \in 0..MaxCreated
  BY BoundsAssumption DEF Insert, TInv
<1>. QED  BY <1>3, <1>4, <1>5

\* CreateTask, with and without a name, and DeleteTask keep it.
LEMMA TaskNextSound == TInv /\ TaskNext => TInv'
<1>. SUFFICES ASSUME TInv, TaskNext PROVE TInv'
  OBVIOUS
<1>. USE DEF Events
<1>1. ASSUME NEW q \in Queues, NEW n \in Names, NEW d \in Delays, CreateTask(q, n, d)
      PROVE  TInv'
  BY <1>1, InsertSound DEF CreateTask, TaskNames, TInv
<1>2. ASSUME NEW q \in Queues, NEW d \in Delays, CreateUnnamedTask(q, d)
      PROVE  TInv'
  <2>1. counter' \in 0..MaxAuto /\ counter' \in TaskNames
    BY <1>2, BoundsAssumption DEF CreateUnnamedTask, TInv, TaskNames
  <2>2. CASE Has(q, counter')
    BY <1>2, <2>1, <2>2 DEF CreateUnnamedTask, storeVars, TInv, DiskSound
  <2>3. CASE ~Has(q, counter')
    <3>1. Insert(q, counter', d) /\ queues[q] # NoQueue
      BY <1>2, <2>3 DEF CreateUnnamedTask
    <3>2. /\ Sound(queues', tasks')
          /\ DiskSound'
          /\ created' \in 0..MaxCreated
      BY <2>1, <3>1, InsertSound
    <3>. QED  BY <1>2, <2>1, <3>2 DEF CreateUnnamedTask, TInv
  <2>. QED  BY <2>2, <2>3
<1>3. ASSUME NEW q \in Queues, NEW n \in TaskNames, DeleteTask(q, n)
      PROVE  TInv'
  <2>1. Sound(queues', tasks')
    BY <1>3, WithoutSound DEF DeleteTask, TInv
  <2>2. DiskSound'
    BY <1>3, <2>1, PersistSound DEF DeleteTask, TInv
  <2>. QED  BY <1>3, <2>1, <2>2 DEF DeleteTask, TInv
<1>. QED  BY <1>1, <1>2, <1>3 DEF TaskNext

\* A round of the dispatch loop keeps it.
LEMMA DispatchDueSound == TInv /\ DispatchDue => TInv'
<1>. SUFFICES ASSUME TInv, DispatchDue PROVE TInv'
  OBVIOUS
<1>1. ASSUME NEW q \in Queues, NEW n \in DOMAIN tasks[q], IsDue(tasks[q][n])
      PROVE  /\ Taken(tasks[q][n]) \in Task
             /\ WithinAttempts(queues[q], Taken(tasks[q][n]))
             /\ tasks[q][n].count + 1 \in 0..AttemptCap
             /\ tasks[q][n] \in Task
  <2>1. queues[q] \in Queue
    BY DEF TInv, Sound, NoTasks
  <2>2. tasks[q][n] \in Task /\ WithinAttempts(queues[q], tasks[q][n])
    BY DEF TInv, Sound, AreTaskMaps, IsTaskMap
  <2>. QED  BY <1>1, <2>1, <2>2, TakenType
<1>2. Sound(queues', tasks')
  <2>. DEFINE round(q) == [n \in DOMAIN tasks[q] |->
                IF IsDue(tasks[q][n]) THEN Taken(tasks[q][n]) ELSE tasks[q][n]]
  <2>1. tasks' = [q \in Queues |-> round(q)] /\ queues' = queues
    BY DEF DispatchDue
  <2>2. ASSUME NEW q \in Queues
        PROVE  /\ IsTaskMap(round(q))
               /\ queues[q] = NoQueue => round(q) = NoTasks
               /\ \A n \in DOMAIN round(q) : WithinAttempts(queues[q], round(q)[n])
    <3>1. ASSUME NEW n \in DOMAIN tasks[q]
          PROVE  round(q)[n] \in Task /\ WithinAttempts(queues[q], round(q)[n])
      BY <1>1 DEF TInv, Sound, AreTaskMaps, IsTaskMap
    <3>2. DOMAIN round(q) \subseteq TaskNames
      BY DEF TInv, Sound, AreTaskMaps, IsTaskMap
    <3>3. queues[q] = NoQueue => round(q) = NoTasks
      BY DEF TInv, Sound, NoTasks
    <3>. QED  BY <3>1, <3>2, <3>3 DEF IsTaskMap
  <2>. HIDE DEF round
  <2>. QED  BY <2>1, <2>2 DEF TInv, Sound, AreTaskMaps
<1>3. workers' \subseteq Worker
  <2>. DEFINE due == {qn \in Queues \X TaskNames :
                        Has(qn[1], qn[2]) /\ IsDue(tasks[qn[1]][qn[2]])}
              worker(qn) == [queue |-> qn[1], name |-> qn[2],
                             uid |-> tasks[qn[1]][qn[2]].uid,
                             count |-> tasks[qn[1]][qn[2]].count + 1]
  <2>1. workers' = workers \cup {worker(qn) : qn \in due}
    BY DEF DispatchDue
  <2>2. ASSUME NEW qn \in due
        PROVE  worker(qn) \in Worker
    <3>1. /\ qn[1] \in Queues /\ qn[2] \in TaskNames
          /\ qn[2] \in DOMAIN tasks[qn[1]] /\ IsDue(tasks[qn[1]][qn[2]])
      BY DEF Has
    <3>2. /\ tasks[qn[1]][qn[2]].count + 1 \in 0..AttemptCap
          /\ tasks[qn[1]][qn[2]] \in Task
      BY <1>1, <3>1
    <3>3. tasks[qn[1]][qn[2]].uid \in 1..MaxCreated
      BY <3>2 DEF Task
    <3>. QED  BY <3>1, <3>2, <3>3 DEF Worker
  <2>. QED  BY <2>1, <2>2 DEF TInv
<1>. QED  BY <1>2, <1>3 DEF DispatchDue, TInv, DiskSound, Events

\* A goroutine that completes, retries or drops the task of its name keeps it.
LEMMA WorkerEndsSound ==
  ASSUME TInv, NEW w \in workers, NEW ok \in BOOLEAN, WorkerEnds(w, ok)
  PROVE  TInv'
<1>1. w.queue \in Queues /\ w.name \in TaskNames
  BY DEF TInv, Worker
<1>2. Sound(queues', tasks') /\ DiskSound'
  <2>1. CASE ok
    <3>1. Sound(queues', tasks')
      BY <1>1, <2>1, WithoutSound DEF WorkerEnds, CompleteTask, TInv
    <3>. QED  BY <2>1, <3>1, PersistSound DEF WorkerEnds, CompleteTask, TInv
  <2>2. CASE ~ok /\ ~Has(w.queue, w.name)
    BY <2>2 DEF WorkerEnds, RetryTask, storeVars, TInv, DiskSound
  <2>3. CASE ~ok /\ Has(w.queue, w.name)
    <3>. DEFINE c == queues[w.queue]
                t == tasks[w.queue][w.name]
    <3>1. /\ queues' = queues /\ persist
          /\ tasks' = [tasks EXCEPT ![w.queue] =
                IF Exhausted(c, t) THEN Without(@, w.name)
                ELSE Put(@, w.name, Rescheduled(t, Backoff(c, t.count)))]
      BY <2>3 DEF WorkerEnds, RetryTask
    <3>2. c \in Queue /\ c # NoQueue /\ t \in Task /\ t.count \in 0..AttemptCap
      <4>1. c # NoQueue
        BY <1>1, <2>3 DEF TInv, Sound, Has, NoTasks
      <4>2. t \in Task
        BY <1>1, <2>3 DEF TInv, Sound, AreTaskMaps, IsTaskMap, Has
      <4>. QED  BY <1>1, <4>1, <4>2 DEF TInv, Sound, Task
    <3>3. CASE Exhausted(c, t)
      <4>1. Sound(queues', tasks')
        BY <1>1, <3>1, <3>3, WithoutSound DEF TInv
      <4>. QED  BY <3>1, <4>1, PersistSound DEF TInv
    <3>4. CASE ~Exhausted(c, t)
      <4>1. /\ Rescheduled(t, Backoff(c, t.count)) \in Task
            /\ WithinAttempts(c, Rescheduled(t, Backoff(c, t.count)))
        BY <3>2, <3>4, BackoffType, RescheduledType
      <4>2. Sound(queues', tasks')
        BY <1>1, <3>1, <3>2, <3>4, <4>1, PutSound DEF TInv
      <4>. QED  BY <3>1, <4>2, PersistSound DEF TInv
    <3>. QED  BY <3>3, <3>4
  <2>. QED  BY <2>1, <2>2, <2>3
<1>. QED  BY <1>2 DEF WorkerEnds, TInv, Events

\* Restarts and the passing of time keep it.
LEMMA EnvNextSound == TInv /\ EnvNext => TInv'
<1>. SUFFICES ASSUME TInv, EnvNext PROVE TInv'
  OBVIOUS
<1>. USE DEF Events
<1>1. ASSUME NEW d, Restarts(d), Sound(d.queues, d.tasks), DiskSound', event' \in Events
      PROVE  TInv'
  BY <1>1, BoundsAssumption DEF Restarts, TInv
<1>2. CASE Restart
  BY <1>1, <1>2 DEF Restart, TInv, DiskSound
<1>3. CASE TornWrite
  <2>1. Sound(NoImage.queues, NoImage.tasks) /\ NoImage = ImageOf(NoImage.queues, NoImage.tasks)
    BY EmptySound DEF NoImage, ImageOf
  <2>2. DiskSound'
    BY <1>3, <2>1 DEF TornWrite, DiskSound
  <2>. QED  BY <1>1, <1>3, <2>1, <2>2 DEF TornWrite
<1>4. ASSUME NEW q \in Queues, PurgePanic(q)
      PROVE  TInv'
  BY <1>1, <1>4 DEF PurgePanic, Restart, TInv, DiskSound
<1>5. CASE Tick
  <2>1. Sound(queues', tasks')
    BY <1>5, AgedSound DEF Tick, TInv
  <2>2. DiskSound'
    <3>1. /\ disk' = ImageOf(disk.queues, [q \in Queues |-> Aged(disk.tasks[q])])
      BY <1>5 DEF Tick, TInv, DiskSound, ImageOf
    <3>2. disk'.queues = disk.queues /\ disk'.tasks = [q \in Queues |-> Aged(disk.tasks[q])]
      BY <3>1 DEF ImageOf
    <3>. QED  BY <3>1, <3>2, AgedSound DEF TInv, DiskSound
  <2>. QED  BY <1>5, <2>1, <2>2 DEF Tick, TInv
<1>. QED  BY <1>2, <1>3, <1>4, <1>5 DEF EnvNext

\* Every step keeps the invariant.
LEMMA NextSound == TInv /\ [Next]_vars => TInv'
<1>. SUFFICES ASSUME TInv, [Next]_vars PROVE TInv'
  OBVIOUS
<1>1. CASE DispatchNext
  BY <1>1, DispatchDueSound, WorkerEndsSound DEF DispatchNext
<1>2. CASE UNCHANGED vars
  BY <1>2 DEF vars, storeVars, TInv, DiskSound
<1>. QED
  BY <1>1, <1>2, QueueNextSound, TaskNextSound, EnvNextSound DEF Next

\* The state is well typed: no count passes the limits, no delay is negative,
\* and no step reads the configuration of a queue that is gone.
THEOREM TypeCorrect == Spec => []TypeOK
<1>1. Spec => []TInv
  BY InitSound, NextSound, PTL DEF Spec
<1>. QED  BY <1>1, TInvImplies, PTL

\* Tasks exist only under existing queues, in memory and on disk (DeleteQueue,
\* PurgeQueue and load): RetryTask never dereferences a missing queue.
THEOREM NoTaskWithoutQueue == Spec => []TasksHaveQueues
<1>1. Spec => []TInv
  BY InitSound, NextSound, PTL DEF Spec
<1>. QED  BY <1>1, TInvImplies, PTL

\* No task is dispatched more often than its queue allows, as far as the store
\* has counted (DueTasks and RetryTask).
THEOREM AttemptLimit == Spec => []AttemptsBounded
<1>1. Spec => []TInv
  BY InitSound, NextSound, PTL DEF Spec
<1>. QED  BY <1>1, TInvImplies, PTL

-----------------------------------------------------------------------------
(* Durability                                                              *)

\* A step that ends in persist leaves the tasks of the store on disk.
LEMMA PersistKeepsTasks ==
  ASSUME persist
  PROVE  CrashLosesNoTask'
BY DEF persist, CrashLosesNoTask, ImageOf

\* A step that writes nothing and changes nothing keeps them there.
LEMMA UnchangedKeepsTasks ==
  ASSUME CrashLosesNoTask, UNCHANGED <<storeVars, disk>>
  PROVE  CrashLosesNoTask'
BY DEF CrashLosesNoTask, storeVars

\* DueTasks and the passing of time write nothing, and change neither which
\* tasks there are nor their serial numbers.
LEMMA SilentStepKeepsTasks ==
  ASSUME TInv, CrashLosesNoTask, DispatchDue \/ Tick
  PROVE  CrashLosesNoTask'
<1>. SUFFICES ASSUME DataDir PROVE CrashLosesNoTask'
  BY DEF CrashLosesNoTask
<1>1. /\ disk.queues = queues
      /\ \A q \in Queues :
           /\ DOMAIN disk.tasks[q] = DOMAIN tasks[q]
           /\ \A n \in DOMAIN tasks[q] : disk.tasks[q][n].uid = tasks[q][n].uid
  BY DEF CrashLosesNoTask
<1>2. \A q \in Queues : IsTaskMap(tasks[q]) /\ IsTaskMap(disk.tasks[q])
  BY DEF TInv, DiskSound, Sound, AreTaskMaps
<1>3. CASE DispatchDue
  <2>1. ASSUME NEW q \in Queues
        PROVE  /\ DOMAIN tasks'[q] = DOMAIN tasks[q]
               /\ \A n \in DOMAIN tasks[q] : tasks'[q][n].uid = tasks[q][n].uid
    <3>1. tasks'[q] = [n \in DOMAIN tasks[q] |->
                         IF IsDue(tasks[q][n]) THEN Taken(tasks[q][n]) ELSE tasks[q][n]]
      BY <1>3 DEF DispatchDue
    <3>2. ASSUME NEW n \in DOMAIN tasks[q]
          PROVE  Taken(tasks[q][n]).uid = tasks[q][n].uid
      BY <1>2 DEF IsTaskMap, Task, Taken
    <3>. QED  BY <3>1, <3>2
  <2>2. disk' = disk /\ queues' = queues
    BY <1>3 DEF DispatchDue
  <2>. QED  BY <1>1, <2>1, <2>2 DEF CrashLosesNoTask
<1>4. CASE Tick
  <2>1. ASSUME NEW q \in Queues
        PROVE  /\ DOMAIN tasks'[q] = DOMAIN tasks[q]
               /\ DOMAIN disk'.tasks[q] = DOMAIN disk.tasks[q]
               /\ \A n \in DOMAIN tasks[q] : tasks'[q][n].uid = tasks[q][n].uid
               /\ \A n \in DOMAIN disk.tasks[q] :
                     disk'.tasks[q][n].uid = disk.tasks[q][n].uid
    <3>1. ASSUME NEW map, IsTaskMap(map)
          PROVE  /\ DOMAIN Aged(map) = DOMAIN map
                 /\ \A n \in DOMAIN map : Aged(map)[n].uid = map[n].uid
      <4>1. DOMAIN Aged(map) = DOMAIN map
        BY DEF Aged
      <4>2. ASSUME NEW n \in DOMAIN map
            PROVE  Aged(map)[n].uid = map[n].uid
        <5>1. map[n] \in Task
          BY <3>1 DEF IsTaskMap
        <5>. QED  BY <5>1 DEF Aged, Task
      <4>. QED  BY <4>1, <4>2
    <3>2. tasks'[q] = Aged(tasks[q]) /\ disk'.tasks[q] = Aged(disk.tasks[q])
      BY <1>4 DEF Tick, TInv, DiskSound, ImageOf
    <3>. QED  BY <1>2, <3>1, <3>2
  <2>2. disk'.queues = disk.queues /\ queues' = queues
    BY <1>4 DEF Tick, TInv, DiskSound, ImageOf
  <2>. QED  BY <1>1, <2>1, <2>2 DEF CrashLosesNoTask
<1>. QED  BY <1>3, <1>4

\* A restart loads what is on disk.
LEMMA RestartKeepsTasks ==
  ASSUME CrashLosesNoTask, EnvNext, ~Tick
  PROVE  CrashLosesNoTask'
<1>1. ASSUME NEW d, Restarts(d), disk' = d
      PROVE  CrashLosesNoTask'
  BY <1>1 DEF Restarts, CrashLosesNoTask
<1>2. CASE Restart
  BY <1>1, <1>2 DEF Restart
<1>3. CASE TornWrite
  BY <1>1, <1>3 DEF TornWrite
<1>. QED  BY <1>2, <1>3 DEF EnvNext, PurgePanic

\* Every step keeps the tasks of the store on disk.
LEMMA NextKeepsTasks ==
  TInv /\ CrashLosesNoTask /\ [Next]_vars => CrashLosesNoTask'
<1>. SUFFICES ASSUME TInv, CrashLosesNoTask, [Next]_vars PROVE CrashLosesNoTask'
  OBVIOUS
<1>1. CASE QueueNext
  BY <1>1, PersistKeepsTasks, UnchangedKeepsTasks
  DEF QueueNext, CreateQueue, DeleteQueue, PurgeQueue, PurgeAnswer
<1>2. CASE TaskNext
  BY <1>2, PersistKeepsTasks, UnchangedKeepsTasks
  DEF TaskNext, CreateTask, CreateUnnamedTask, Insert, DeleteTask
<1>3. CASE DispatchNext
  BY <1>3, SilentStepKeepsTasks, PersistKeepsTasks, UnchangedKeepsTasks
  DEF DispatchNext, WorkerEnds, CompleteTask, RetryTask
<1>4. CASE EnvNext
  BY <1>4, SilentStepKeepsTasks, RestartKeepsTasks
<1>5. CASE UNCHANGED vars
  BY <1>5, UnchangedKeepsTasks DEF vars
<1>. QED  BY <1>1, <1>2, <1>3, <1>4, <1>5 DEF Next

\* A crash between two store calls neither loses a task nor brings one back:
\* every call that adds or removes a task ends in persist, and DueTasks, which
\* does not, changes no task's existence.
THEOREM Durability == Spec => []CrashLosesNoTask
<1>1. Init => CrashLosesNoTask
  BY DEF Init, CrashLosesNoTask, NoImage, ImageOf
<1>2. Spec => [](TInv /\ CrashLosesNoTask)
  BY <1>1, InitSound, NextSound, NextKeepsTasks, PTL DEF Spec
<1>. QED  BY <1>2, PTL

-----------------------------------------------------------------------------
(* Goroutines                                                              *)

\* A step that only adds goroutines, and marks no task for which it does not
\* add one.
LEMMA WorkersKept ==
  ASSUME DispatchingHasWorker, workers \subseteq workers', crashes' = 0 => crashes = 0,
         \A q \in Queues : \A n \in DOMAIN tasks'[q] :
           tasks'[q][n].state = "dispatching" =>
             n \in DOMAIN tasks[q] /\ tasks[q][n] = tasks'[q][n]
  PROVE  DispatchingHasWorker'
BY DEF DispatchingHasWorker

\* The queue calls mark no task.
LEMMA QueueKeepsWorkers ==
  ASSUME TInv, DispatchingHasWorker, QueueNext
  PROVE  DispatchingHasWorker'
<1>1. /\ workers' = workers /\ crashes' = crashes
      /\ \/ tasks' = tasks
         \/ \E q \in Queues : tasks' = [tasks EXCEPT ![q] = NoTasks]
  BY DEF QueueNext, CreateQueue, DeleteQueue, PurgeQueue, PurgeAnswer, storeVars
<1>2. CASE tasks' = tasks
  BY <1>1, <1>2, WorkersKept
<1>3. ASSUME NEW q \in Queues, tasks' = [tasks EXCEPT ![q] = NoTasks]
      PROVE  DispatchingHasWorker'
  BY <1>1, <1>3, WorkersKept DEF NoTasks, TInv, Sound, AreTaskMaps
<1>. QED  BY <1>1, <1>2, <1>3

\* A created task is pending.
LEMMA TaskKeepsWorkers ==
  ASSUME TInv, DispatchingHasWorker, TaskNext
  PROVE  DispatchingHasWorker'
<1>1. workers' = workers /\ crashes' = crashes
  BY DEF TaskNext, CreateTask, CreateUnnamedTask, DeleteTask
<1>2. ASSUME NEW q \in Queues, NEW n, NEW d, Insert(q, n, d)
      PROVE  DispatchingHasWorker'
  <2>1. tasks' = [tasks EXCEPT ![q] = Put(@, n, NewTask(d))]
    BY <1>2 DEF Insert
  <2>2. NewTask(d).state = "pending"
    BY DEF NewTask
  <2>. QED  BY <1>1, <2>1, <2>2, WorkersKept DEF Put, TInv, Sound, AreTaskMaps
<1>3. ASSUME NEW q \in Queues, NEW n, DeleteTask(q, n)
      PROVE  DispatchingHasWorker'
  BY <1>1, <1>3, WorkersKept DEF DeleteTask, Without, Restrict, TInv, Sound, AreTaskMaps
<1>4. CASE UNCHANGED storeVars
  BY <1>1, <1>4, WorkersKept DEF storeVars
<1>. QED  BY <1>2, <1>3, <1>4 DEF TaskNext, CreateTask, CreateUnnamedTask

\* DueTasks marks a task and a goroutine is started for it.
LEMMA DispatchKeepsWorkers ==
  ASSUME TInv, DispatchingHasWorker, DispatchDue
  PROVE  DispatchingHasWorker'
<1>. SUFFICES ASSUME crashes = 0, NEW q \in Queues, NEW n \in DOMAIN tasks'[q],
                     tasks'[q][n].state = "dispatching"
              PROVE  \E w \in workers' :
                       w.queue = q /\ w.name = n /\ w.uid = tasks'[q][n].uid
  BY DEF DispatchingHasWorker, DispatchDue
<1>. DEFINE due == {qn \in Queues \X TaskNames :
                      Has(qn[1], qn[2]) /\ IsDue(tasks[qn[1]][qn[2]])}
            worker(qn) == [queue |-> qn[1], name |-> qn[2],
                           uid |-> tasks[qn[1]][qn[2]].uid,
                           count |-> tasks[qn[1]][qn[2]].count + 1]
<1>1. workers' = workers \cup {worker(qn) : qn \in due}
  BY DEF DispatchDue
<1>2. /\ n \in DOMAIN tasks[q]
      /\ tasks'[q][n] = IF IsDue(tasks[q][n]) THEN Taken(tasks[q][n]) ELSE tasks[q][n]
  BY DEF DispatchDue
<1>3. tasks[q][n] \in Task /\ n \in TaskNames
  BY <1>2 DEF TInv, Sound, AreTaskMaps, IsTaskMap
<1>4. CASE IsDue(tasks[q][n])
  <2>1. <<q, n>> \in due
    BY <1>2, <1>3, <1>4 DEF Has
  <2>2. worker(<<q, n>>) \in workers'
    BY <1>1, <2>1
  <2>3. tasks'[q][n].uid = tasks[q][n].uid
    BY <1>2, <1>3, <1>4 DEF Taken, Task
  <2>. QED  BY <2>2, <2>3
<1>5. CASE ~IsDue(tasks[q][n])
  BY <1>1, <1>2, <1>5 DEF DispatchingHasWorker
<1>. QED  BY <1>4, <1>5

\* A goroutine that ends leaves no task marked under its name, whichever task
\* that is.
LEMMA EndKeepsWorkers ==
  ASSUME TInv, DispatchingHasWorker,
         NEW w \in workers, NEW ok \in BOOLEAN, WorkerEnds(w, ok)
  PROVE  DispatchingHasWorker'
<1>. SUFFICES ASSUME crashes = 0, NEW q \in Queues, NEW n \in DOMAIN tasks'[q],
                     tasks'[q][n].state = "dispatching"
              PROVE  \E v \in workers' :
                       v.queue = q /\ v.name = n /\ v.uid = tasks'[q][n].uid
  BY DEF DispatchingHasWorker, WorkerEnds
<1>1. w.queue \in Queues
  BY DEF TInv, Worker
<1>2. tasks = [p \in Queues |-> tasks[p]]
  BY DEF TInv, Sound, AreTaskMaps
<1>3. ASSUME w.queue = q, w.name = n
      PROVE  FALSE
  <2>1. CASE ok \/ Exhausted(queues[q], tasks[q][n]) \/ ~Has(q, n)
    BY <1>1, <1>2, <1>3, <2>1
    DEF WorkerEnds, CompleteTask, RetryTask, Without, Restrict, Has, storeVars
  <2>2. CASE ~ok /\ Has(q, n) /\ ~Exhausted(queues[q], tasks[q][n])
    <3>. DEFINE delay == Backoff(queues[q], tasks[q][n].count)
    <3>1. tasks'[q][n] = Rescheduled(tasks[q][n], delay)
      BY <1>1, <1>2, <1>3, <2>2 DEF WorkerEnds, RetryTask, Put
    <3>2. tasks[q][n] \in Task
      BY <2>2 DEF TInv, Sound, AreTaskMaps, IsTaskMap, Has
    <3>3. Rescheduled(tasks[q][n], delay).state = "pending"
      BY <3>2 DEF Rescheduled, Task
    <3>. QED  BY <3>1, <3>3
  <2>. QED  BY <2>1, <2>2
<1>4. ASSUME ~(w.queue = q /\ w.name = n)
      PROVE  n \in DOMAIN tasks[q] /\ tasks'[q][n] = tasks[q][n]
  BY <1>1, <1>2, <1>4
  DEF WorkerEnds, CompleteTask, RetryTask, Without, Restrict, Put, storeVars
<1>. QED  BY <1>3, <1>4 DEF DispatchingHasWorker, WorkerEnds

\* The next one counts restarts, and time marks no task.
LEMMA EnvKeepsWorkers ==
  ASSUME TInv, DispatchingHasWorker, EnvNext
  PROVE  DispatchingHasWorker'
<1>1. CASE Tick
  <2>1. ASSUME NEW q \in Queues, NEW n \in DOMAIN tasks'[q]
        PROVE  /\ n \in DOMAIN tasks[q]
               /\ tasks'[q][n].uid = tasks[q][n].uid
               /\ tasks'[q][n].state = tasks[q][n].state
    <3>1. tasks'[q] = Aged(tasks[q])
      BY <1>1 DEF Tick
    <3>2. n \in DOMAIN tasks[q]
      BY <3>1 DEF Aged
    <3>3. tasks[q][n] \in Task
      BY <3>2 DEF TInv, Sound, AreTaskMaps, IsTaskMap
    <3>. QED  BY <3>1, <3>2, <3>3 DEF Aged, Task
  <2>. QED  BY <1>1, <2>1 DEF Tick, DispatchingHasWorker
<1>2. CASE ~Tick
  <2>1. crashes' # 0
    BY <1>2 DEF EnvNext, Restart, TornWrite, PurgePanic, Restarts, TInv
  <2>. QED  BY <2>1 DEF DispatchingHasWorker
<1>. QED  BY <1>1, <1>2

\* Every step keeps a goroutine for every task that is marked.
LEMMA NextKeepsWorkers ==
  TInv /\ DispatchingHasWorker /\ [Next]_vars => DispatchingHasWorker'
<1>. SUFFICES ASSUME TInv, DispatchingHasWorker, [Next]_vars
              PROVE  DispatchingHasWorker'
  OBVIOUS
<1>1. CASE UNCHANGED vars
  BY <1>1, WorkersKept DEF vars, storeVars
<1>2. CASE DispatchNext
  BY <1>2, DispatchKeepsWorkers, EndKeepsWorkers DEF DispatchNext
<1>. QED
  BY <1>1, <1>2, QueueKeepsWorkers, TaskKeepsWorkers, EnvKeepsWorkers DEF Next

\* Until the process restarts, a task that DueTasks marked has a goroutine that
\* will complete or retry it (dispatchLoop and dispatchTask).
THEOREM MarkedTasksHaveWorkers == Spec => []DispatchingHasWorker
<1>1. Init => DispatchingHasWorker
  BY DEF Init, DispatchingHasWorker, NoTasks
<1>2. Spec => [](TInv /\ DispatchingHasWorker)
  BY <1>1, InitSound, NextSound, NextKeepsWorkers, PTL DEF Spec
<1>. QED  BY <1>2, PTL

-----------------------------------------------------------------------------
(* The delays of retries                                                   *)

\* A queue has a configuration that a client asked for, in memory and in the
\* file, which a restart puts in its place.
AskedFor(qs) ==
  \A q \in Queues : qs[q] = NoQueue \/ \E c \in QueueConfigs : qs[q] = Configured(c)

ConfInv == AskedFor(queues) /\ AskedFor(disk.queues)

\* What is computed within a time.Duration does not wrap.
LEMMA FitsIsExact ==
  ASSUME NEW x \in Nat, x < DurationLimit
  PROVE  Wrap(x) = x
<1>. DEFINE m == 2 * DurationLimit
            y == x + DurationLimit
<1>1. m \in Nat \ {0} /\ y \in Nat /\ y < m
  BY BoundsAssumption
<1>2. y % m = y
  <2>. HIDE DEF m, y
  <2>. QED  BY <1>1
<1>. QED  BY <1>2, BoundsAssumption DEF Wrap

\* Between the two backoffs of the queue.
InRange(c, wait) ==
  wait <= c.maxBackoff /\ wait >= SmallerOf(c.minBackoff, c.maxBackoff)

LEMMA BackoffInRange ==
  ASSUME BackoffsFit, NEW c \in QueueConfigs, Configured(c) \in Queue,
         NEW count \in 0..AttemptCap
  PROVE  /\ Backoff(Configured(c), count) \in Nat \ {0}
         /\ InRange(Configured(c), Backoff(Configured(c), count))
<1>. DEFINE q == Configured(c)
            doubled == q.minBackoff * 2^Doublings(q, count)
<1>1. q.minBackoff \in Nat \ {0} /\ q.maxBackoff \in Nat \ {0}
  BY DEF Queue
<1>2. doubled \in Int
  <2>1. Doublings(q, count) \in Nat
    BY BoundsAssumption DEF Doublings, SmallerOf, LargerOf, Queue
  <2>. HIDE DEF q
  <2>2. 2^Doublings(q, count) \in Int
    BY <2>1
  <2>. QED  BY <1>1, <2>2
<1>3. q.minBackoff <= doubled /\ doubled < DurationLimit
  BY DEF BackoffsFit
<1>. HIDE DEF doubled
<1>4. Wrap(doubled) = doubled
  BY <1>1, <1>2, <1>3, FitsIsExact
<1>5. Backoff(q, count) = IF doubled > q.maxBackoff THEN q.maxBackoff ELSE doubled
  BY <1>4 DEF Backoff, doubled
<1>. HIDE DEF q
<1>6. Backoff(q, count) \in Nat \ {0} /\ InRange(q, Backoff(q, count))
  BY <1>1, <1>2, <1>3, <1>5 DEF InRange, SmallerOf
<1>. QED  BY <1>6 DEF q

\* Queues are configured by CreateQueue only.
LEMMA ConfNext == TInv /\ ConfInv /\ [Next]_vars => ConfInv'
<1>. SUFFICES ASSUME TInv, ConfInv, [Next]_vars PROVE ConfInv'
  OBVIOUS
<1>1. ASSUME AskedFor(queues'), persist PROVE ConfInv'
  BY <1>1 DEF ConfInv, persist, ImageOf
<1>2. ASSUME UNCHANGED queues, persist \/ disk'.queues = disk.queues
      PROVE  ConfInv'
  BY <1>1, <1>2 DEF ConfInv, AskedFor
<1>3. queues \in [Queues -> Queue \cup {NoQueue}]
  BY DEF TInv, Sound
<1>4. CASE QueueNext
  <2>1. ASSUME NEW q \in Queues, NEW c \in QueueConfigs, CreateQueue(q, c)
        PROVE  ConfInv'
    BY <1>1, <1>3, <2>1 DEF CreateQueue, ConfInv, AskedFor
  <2>2. ASSUME NEW q \in Queues, DeleteQueue(q)
        PROVE  ConfInv'
    BY <1>1, <1>3, <2>2 DEF DeleteQueue, ConfInv, AskedFor
  <2>3. ASSUME NEW q \in Queues, PurgeQueue(q) \/ PurgeAnswer(q)
        PROVE  ConfInv'
    BY <1>2, <2>3 DEF PurgeQueue, PurgeAnswer, storeVars
  <2>. QED  BY <1>4, <2>1, <2>2, <2>3 DEF QueueNext
<1>5. CASE TaskNext
  BY <1>2, <1>5 DEF TaskNext, CreateTask, CreateUnnamedTask, Insert, DeleteTask, storeVars
<1>6. CASE DispatchNext
  BY <1>2, <1>6
  DEF DispatchNext, DispatchDue, WorkerEnds, CompleteTask, RetryTask, storeVars
<1>7. CASE EnvNext
  <2>1. AskedFor(NoImage.queues)
    BY DEF AskedFor, NoImage, ImageOf
  <2>2. ASSUME Tick PROVE ConfInv'
    <3>1. disk'.queues = disk.queues
      BY <2>2 DEF Tick, TInv, DiskSound, ImageOf
    <3>. QED  BY <1>2, <2>2, <3>1 DEF Tick
  <2>. QED
    BY <1>7, <2>1, <2>2 DEF EnvNext, Restart, TornWrite, PurgePanic, Restarts, ConfInv
<1>8. CASE UNCHANGED vars
  BY <1>2, <1>8 DEF vars, storeVars
<1>. QED  BY <1>4, <1>5, <1>6, <1>7, <1>8 DEF Next

\* A task that was retried in the step from one state of its queue to the next.
Retried(t, u) ==
  /\ u.state = "pending"
  /\ t.state = "dispatching" \/ u.wait > t.wait

\* A task that stays as it was, or is marked as dispatching, is not retried,
\* nor is one that waits less long.
LEMMA StaysUnretried ==
  ASSUME NEW t \in Task, NEW u \in Task,
         u.state = "dispatching" \/ (u.state = t.state /\ u.wait <= t.wait)
  PROVE  ~Retried(t, u)
BY DEF Retried, Task

\* Only a goroutine that ends retries a task, and it waits as long as RetryTask
\* computes.
LEMMA RetriesWaitBackoff ==
  ASSUME TInv, TInv', [Next]_vars, crashes' = crashes, NEW q \in Queues,
         NEW n \in DOMAIN tasks[q] \cap DOMAIN tasks'[q],
         Retried(tasks[q][n], tasks'[q][n])
  PROVE  /\ queues[q] \in Queue /\ tasks[q][n].count \in 0..AttemptCap
         /\ tasks'[q][n] = Rescheduled(tasks[q][n], Backoff(queues[q], tasks[q][n].count))
<1>1. /\ tasks = [p \in Queues |-> tasks[p]]
      /\ tasks[q][n] \in Task /\ tasks'[q][n] \in Task
      /\ tasks[q][n].count \in 0..AttemptCap
  BY DEF TInv, Sound, AreTaskMaps, IsTaskMap, Task
<1>2. queues[q] \in Queue
  BY DEF TInv, Sound, NoTasks
<1>3. tasks'[q][n] # tasks[q][n]
  BY <1>1, StaysUnretried DEF Task
<1>4. ASSUME NEW w \in workers, NEW ok \in BOOLEAN, WorkerEnds(w, ok)
      PROVE  tasks'[q][n] = Rescheduled(tasks[q][n], Backoff(queues[q], tasks[q][n].count))
  <2>1. w.queue \in Queues
    BY DEF TInv, Worker
  <2>2. w.queue = q /\ w.name = n
    BY <1>1, <1>3, <1>4, <2>1
    DEF WorkerEnds, CompleteTask, RetryTask, Without, Restrict, Put, storeVars
  <2>. QED
    BY <1>1, <1>3, <1>4, <2>1, <2>2
    DEF WorkerEnds, CompleteTask, RetryTask, Without, Restrict, Put, Has, storeVars
<1>5. ~QueueNext
  <2>. SUFFICES ASSUME QueueNext PROVE FALSE
    OBVIOUS
  <2>1. tasks' = tasks \/ \E p \in Queues : tasks' = [tasks EXCEPT ![p] = NoTasks]
    BY DEF QueueNext, CreateQueue, DeleteQueue, PurgeQueue, PurgeAnswer, storeVars
  <2>. QED  BY <1>1, <1>3, <2>1 DEF NoTasks
<1>6. ~TaskNext
  <2>1. ASSUME NEW p \in Queues, NEW m, NEW t, ~Has(p, m),
               tasks' = [tasks EXCEPT ![p] = Put(@, m, t)]
        PROVE  FALSE
    <3>1. CASE p = q
      <4>1. tasks'[q] = Put(tasks[q], m, t) /\ n # m
        BY <1>1, <2>1, <3>1 DEF Has
      <4>. QED  BY <1>3, <4>1 DEF Put
    <3>. QED  BY <1>1, <1>3, <2>1, <3>1
  <2>2. ASSUME NEW p \in Queues, NEW m, tasks' = [tasks EXCEPT ![p] = Without(@, m)]
        PROVE  FALSE
    <3>1. CASE p = q
      <4>1. tasks'[q] = Without(tasks[q], m)
        BY <1>1, <2>2, <3>1
      <4>. QED  BY <1>3, <4>1 DEF Without, Restrict
    <3>. QED  BY <1>1, <1>3, <2>2, <3>1
  <2>3. tasks' # tasks
    BY <1>3
  <2>. QED
    BY <2>1, <2>2, <2>3
    DEF TaskNext, CreateTask, CreateUnnamedTask, Insert, DeleteTask, Has, storeVars
<1>7. ~DispatchDue
  <2>. SUFFICES ASSUME DispatchDue PROVE FALSE
    OBVIOUS
  <2>1. tasks'[q][n] = Taken(tasks[q][n])
    BY <1>3 DEF DispatchDue
  <2>. QED  BY <1>1, <2>1, StaysUnretried DEF Taken, Task
<1>8. ~EnvNext
  <2>1. ~Tick
    <3>. SUFFICES ASSUME Tick PROVE FALSE
      OBVIOUS
    <3>1. tasks'[q][n] =
            [tasks[q][n] EXCEPT !.wait = IF @ > 0 THEN @ - 1 ELSE 0]
      BY DEF Tick, Aged
    <3>. QED  BY <1>1, <3>1, StaysUnretried DEF Task
  <2>. QED  BY <2>1 DEF EnvNext, Restart, TornWrite, PurgePanic, Restarts, TInv
<1>. QED  BY <1>1, <1>2, <1>3, <1>4, <1>5, <1>6, <1>7, <1>8 DEF Next, DispatchNext, vars, storeVars

\* If no backoff a client asks for is doubled out of a time.Duration, every
\* task that RetryTask puts back waits between the two backoffs of its queue,
\* also one that it finds under the name of another.
THEOREM RetriesWait == BackoffsFit => (Spec => RetryWaitsInRange)
<1>. SUFFICES ASSUME BackoffsFit PROVE Spec => RetryWaitsInRange
  OBVIOUS
<1>1. Init => ConfInv
  BY DEF Init, ConfInv, AskedFor, NoImage, ImageOf
<1>2. ASSUME TInv, TInv', ConfInv, [Next]_vars, crashes' = crashes,
             NEW q \in Queues, NEW n \in DOMAIN tasks[q] \cap DOMAIN tasks'[q],
             Retried(tasks[q][n], tasks'[q][n])
      PROVE  InRange(queues[q], tasks'[q][n].wait)
  <2>. DEFINE delay == Backoff(queues[q], tasks[q][n].count)
  <2>1. /\ queues[q] \in Queue /\ tasks[q][n].count \in 0..AttemptCap
        /\ tasks'[q][n] = Rescheduled(tasks[q][n], delay)
    BY <1>2, RetriesWaitBackoff
  <2>2. PICK c \in QueueConfigs : queues[q] = Configured(c)
    BY <1>2, <2>1, NamesAssumption DEF ConfInv, AskedFor
  <2>3. delay \in Nat \ {0} /\ InRange(queues[q], delay)
    BY <2>1, <2>2, BackoffInRange
  <2>. HIDE DEF delay
  <2>4. tasks[q][n] \in Task
    BY <1>2 DEF TInv, Sound, AreTaskMaps, IsTaskMap
  <2>5. tasks'[q][n].wait = delay
    BY <2>1, <2>3, <2>4 DEF Rescheduled, Task
  <2>. QED  BY <2>3, <2>5
<1>3. TInv /\ TInv' /\ ConfInv /\ [Next]_vars =>
        \A q \in Queues : \A n \in DOMAIN tasks[q] \cap DOMAIN tasks'[q] :
          LET old == tasks[q][n]
              new == tasks'[q][n]
          IN  /\ new.uid = old.uid /\ crashes' = crashes
              /\ old.state = "dispatching" \/ new.wait > old.wait
              /\ new.state = "pending"
              => /\ new.wait <= queues[q].maxBackoff
                 /\ new.wait >= SmallerOf(queues[q].minBackoff, queues[q].maxBackoff)
  BY <1>2 DEF Retried, InRange
<1>. QED
  BY <1>1, <1>3, InitSound, NextSound, ConfNext, PTL DEF Spec, RetryWaitsInRange

-----------------------------------------------------------------------------
(* The refinement: the store is a set of task queues                       *)

\* A count on disk lags behind, by a dispatch that no call has written yet.
CountsLag ==
  DataDir => \A q \in Queues : \A n \in DOMAIN tasks[q] :
               disk.tasks[q][n].count <= tasks[q][n].count

\* Without a data directory the file stays as it was at the start.
NothingSaved == ~DataDir => disk = NoImage

LEMMA TasksOf ==
  ASSUME TInv, NEW q \in Queues, NEW n \in DOMAIN tasks[q]
  PROVE  /\ tasks[q][n] \in Task /\ tasks[q][n].count \in Nat /\ n \in TaskNames
         /\ queues[q] \in Queue /\ queues[q].maxAttempts \in Nat
         /\ WithinAttempts(queues[q], tasks[q][n])
<1>1. tasks[q][n] \in Task /\ n \in TaskNames /\ WithinAttempts(queues[q], tasks[q][n])
  BY DEF TInv, Sound, AreTaskMaps, IsTaskMap
<1>2. queues[q] \in Queue
  BY DEF TInv, Sound, NoTasks
<1>3. tasks[q][n].count \in Nat /\ queues[q].maxAttempts \in Nat
  BY <1>1, <1>2, BoundsAssumption DEF Task, Queue
<1>. QED  BY <1>1, <1>2, <1>3

\* Time changes no count.
LEMMA AgedCounts ==
  ASSUME NEW map, IsTaskMap(map)
  PROVE  /\ DOMAIN Aged(map) = DOMAIN map
         /\ \A n \in DOMAIN map : Aged(map)[n].uid = map[n].uid /\ Aged(map)[n].count = map[n].count
<1>1. ASSUME NEW n \in DOMAIN map
      PROVE  Aged(map)[n].uid = map[n].uid /\ Aged(map)[n].count = map[n].count
  <2>1. map[n] \in Task
    BY DEF IsTaskMap
  <2>. QED  BY <2>1 DEF Aged, Task
<1>. QED  BY <1>1 DEF Aged

\* A round of the dispatch loop counts one more.
LEMMA TakenCounts ==
  ASSUME NEW t \in Task
  PROVE  Taken(t).uid = t.uid /\ Taken(t).count = t.count + 1
BY DEF Taken, Task

LEMMA CountsNext ==
  TInv /\ TInv' /\ CrashLosesNoTask /\ CountsLag /\ [Next]_vars => CountsLag'
<1>. SUFFICES ASSUME TInv, TInv', CrashLosesNoTask, CountsLag, [Next]_vars, DataDir
              PROVE  CountsLag'
  BY DEF CountsLag
<1>1. ASSUME disk'.tasks = tasks' PROVE CountsLag'
  <2>1. ASSUME NEW q \in Queues, NEW n \in DOMAIN tasks'[q]
        PROVE  tasks'[q][n].count \in Nat
    BY BoundsAssumption DEF TInv, Sound, AreTaskMaps, IsTaskMap, Task
  <2>. QED  BY <1>1, <2>1 DEF CountsLag
<1>2. persist => CountsLag'
  BY <1>1 DEF persist, ImageOf
<1>3. UNCHANGED <<tasks, disk>> => CountsLag'
  BY DEF CountsLag
<1>4. CASE QueueNext
  BY <1>2, <1>3, <1>4
  DEF QueueNext, CreateQueue, DeleteQueue, PurgeQueue, PurgeAnswer, storeVars
<1>5. CASE TaskNext
  BY <1>2, <1>3, <1>5 DEF TaskNext, CreateTask, CreateUnnamedTask, Insert, DeleteTask, storeVars
<1>6. CASE DispatchDue
  <2>1. ASSUME NEW q \in Queues, NEW n \in DOMAIN tasks'[q]
        PROVE  disk'.tasks[q][n].count <= tasks'[q][n].count
    <3>1. /\ n \in DOMAIN tasks[q] /\ disk' = disk
          /\ tasks'[q][n] = IF IsDue(tasks[q][n]) THEN Taken(tasks[q][n]) ELSE tasks[q][n]
      BY <1>6 DEF DispatchDue
    <3>2. tasks[q][n] \in Task /\ tasks[q][n].count \in Nat
      BY <3>1, TasksOf
    <3>3. disk.tasks[q][n].count <= tasks[q][n].count /\ disk.tasks[q][n].count \in Nat
      <4>1. n \in DOMAIN disk.tasks[q]
        BY <3>1 DEF CrashLosesNoTask
      <4>2. disk.tasks[q][n] \in Task
        BY <4>1 DEF TInv, DiskSound, Sound, AreTaskMaps, IsTaskMap
      <4>. QED  BY <3>1, <4>2, BoundsAssumption DEF CountsLag, Task
    <3>. QED  BY <3>1, <3>2, <3>3, TakenCounts
  <2>. QED  BY <2>1 DEF CountsLag
<1>7. ASSUME NEW w \in workers, NEW ok \in BOOLEAN, WorkerEnds(w, ok)
      PROVE  CountsLag'
  BY <1>2, <1>3, <1>7 DEF WorkerEnds, CompleteTask, RetryTask, storeVars
<1>8. CASE Tick
  <2>1. ASSUME NEW q \in Queues, NEW n \in DOMAIN tasks'[q]
        PROVE  disk'.tasks[q][n].count <= tasks'[q][n].count
    <3>1. tasks'[q] = Aged(tasks[q]) /\ disk'.tasks[q] = Aged(disk.tasks[q])
      BY <1>8 DEF Tick, TInv, DiskSound, ImageOf
    <3>2. IsTaskMap(tasks[q]) /\ IsTaskMap(disk.tasks[q])
      BY DEF TInv, DiskSound, Sound, AreTaskMaps
    <3>3. n \in DOMAIN tasks[q] /\ n \in DOMAIN disk.tasks[q]
      BY <3>1, <3>2, AgedCounts DEF CrashLosesNoTask
    <3>. QED  BY <3>1, <3>2, <3>3, AgedCounts DEF CountsLag
  <2>. QED  BY <2>1 DEF CountsLag
<1>9. CASE EnvNext /\ ~Tick
  BY <1>1, <1>9 DEF EnvNext, Restart, TornWrite, PurgePanic, Restarts
<1>10. CASE UNCHANGED vars
  BY <1>3, <1>10 DEF vars, storeVars
<1>. QED
  BY <1>4, <1>5, <1>6, <1>7, <1>8, <1>9, <1>10 DEF Next, DispatchNext

LEMMA SavedNext == TInv /\ NothingSaved /\ [Next]_vars => NothingSaved'
<1>. SUFFICES ASSUME TInv, disk = NoImage, [Next]_vars, ~DataDir PROVE disk' = NoImage
  BY DEF NothingSaved
<1>1. persist \/ UNCHANGED disk => disk' = NoImage
  BY DEF persist
<1>2. CASE Tick
  <2>1. Aged(NoTasks) = NoTasks
    BY DEF Aged, NoTasks
  <2>2. /\ disk = [queues |-> [q \in Queues |-> NoQueue], tasks |-> [q \in Queues |-> NoTasks]]
        /\ disk' = [disk EXCEPT !.tasks = [q \in Queues |-> Aged(disk.tasks[q])]]
    BY <1>2 DEF Tick, NoImage, ImageOf
  <2>3. [q \in Queues |-> Aged(disk.tasks[q])] = disk.tasks
    BY <2>1, <2>2
  <2>. QED  BY <2>2, <2>3
<1>3. CASE QueueNext \/ TaskNext
  BY <1>1, <1>3
  DEF QueueNext, CreateQueue, DeleteQueue, PurgeQueue, PurgeAnswer,
      TaskNext, CreateTask, CreateUnnamedTask, Insert, DeleteTask
<1>4. CASE DispatchNext
  BY <1>1, <1>4 DEF DispatchNext, DispatchDue, WorkerEnds, CompleteTask, RetryTask
<1>5. CASE EnvNext /\ ~Tick
  BY <1>1, <1>5 DEF EnvNext, Restart, TornWrite, PurgePanic
<1>. QED  BY <1>1, <1>2, <1>3, <1>4, <1>5 DEF Next, vars

Held == [q \in Queues |-> Kept(tasks[q])]

\* A store method replaces the tasks of one queue.
LEMMA HeldReplace ==
  ASSUME TInv, NEW q \in Queues, NEW map, tasks' = [tasks EXCEPT ![q] = map]
  PROVE  Held' = [Held EXCEPT ![q] = Kept(map)]
BY DEF TInv, Sound, AreTaskMaps, Held

\* A step that is told nothing and keeps what is held is work.
LEMMA HeldStays ==
  ASSUME UNCHANGED <<queues, workers, created>>, event' = "none",
         \A q \in Queues : Kept(tasks'[q]) = Kept(tasks[q])
  PROVE  Promise!Work
BY DEF Promise!Work

LEMMA KeptNothing == Kept(NoTasks) = Promise!Nothing
BY DEF Kept, NoTasks, Promise!Nothing

LEMMA KeptWithout ==
  ASSUME NEW ts, NEW n
  PROVE  Kept(Without(ts, n)) = Promise!Restrict(Kept(ts), DOMAIN Kept(ts) \ {n})
BY DEF Kept, Without, Restrict, Promise!Restrict

\* Putting a task back changes neither its number nor its count.
LEMMA KeptPutBack ==
  ASSUME NEW ts, NEW n \in DOMAIN ts, ts[n] \in Task, NEW delay
  PROVE  Kept(Put(ts, n, Rescheduled(ts[n], delay))) = Kept(ts)
<1>. DEFINE t == Rescheduled(ts[n], delay)
<1>1. t.uid = ts[n].uid /\ t.count = ts[n].count
  BY DEF Rescheduled, Task
<1>. HIDE DEF t
<1>2. Put(ts, n, t) = [m \in DOMAIN ts |-> IF m = n THEN t ELSE ts[m]]
  BY DEF Put
<1>. QED  BY <1>1, <1>2 DEF Kept, t

LEMMA KeptAged ==
  ASSUME NEW ts, IsTaskMap(ts)
  PROVE  Kept(Aged(ts)) = Kept(ts)
BY AgedCounts DEF Kept

\* CreateQueue, DeleteQueue and PurgeQueue; the answer of a purge is work.
LEMMA QueueRefines ==
  ASSUME TInv, QueueNext
  PROVE  Promise!Next
<1>1. ASSUME NEW q \in Queues, NEW c \in QueueConfigs, CreateQueue(q, c)
      PROVE  Promise!OpenQueue(q)
  <2>1. Configured(c) \in Queue
    BY BoundsAssumption, RequestAssumption
    DEF Configured, Queue, RetryConfig, OrDefault, DefaultMaxAttempts, DefaultMinBackoff,
        DefaultMaxBackoff
  <2>2. queues'[q] # NoQueue /\ queues' = [queues EXCEPT ![q] = queues'[q]] /\ queues[q] = NoQueue
    BY <1>1, <2>1, NamesAssumption DEF CreateQueue, TInv, Sound
  <2>3. tasks[q] = NoTasks /\ tasks' = tasks
    BY <1>1 DEF CreateQueue, TInv, Sound, AreTaskMaps
  <2>. QED
    BY <1>1, <2>2, <2>3, KeptNothing DEF CreateQueue, Promise!OpenQueue, Promise!Open
<1>2. ASSUME NEW q \in Queues, DeleteQueue(q) \/ PurgeQueue(q)
      PROVE  Promise!CloseQueue(q) \/ Promise!Purge(q)
  <2>1. Held' = [Held EXCEPT ![q] = Promise!Nothing]
    BY <1>2, HeldReplace, KeptNothing DEF DeleteQueue, PurgeQueue
  <2>. QED
    BY <1>2, <2>1
    DEF DeleteQueue, PurgeQueue, Held, Promise!CloseQueue, Promise!Purge, Promise!Open
<1>3. ASSUME NEW q \in Queues, PurgeAnswer(q)
      PROVE  Promise!Work
  BY <1>3, HeldStays DEF PurgeAnswer, storeVars
<1>. QED  BY <1>1, <1>2, <1>3 DEF QueueNext, Promise!Next

LEMMA InsertIsAdd ==
  ASSUME TInv, NEW q \in Queues, NEW n, NEW d, queues[q] # NoQueue, ~Has(q, n),
         Insert(q, n, d), UNCHANGED workers, event' = "none"
  PROVE  Promise!Add(q, n)
<1>. DEFINE t == NewTask(d)
            new == [uid |-> created', count |-> 0]
<1>1. [uid |-> t.uid, count |-> t.count] = new
  BY DEF NewTask, Insert
<1>. HIDE DEF t
<1>2. Kept(Put(tasks[q], n, t)) =
        [m \in DOMAIN Kept(tasks[q]) \cup {n} |-> IF m = n THEN new ELSE Kept(tasks[q])[m]]
  BY <1>1 DEF Kept, Put
<1>3. Held' = [Held EXCEPT ![q] = [m \in DOMAIN @ \cup {n} |-> IF m = n THEN new ELSE @[m]]]
  <2>1. Held' = [Held EXCEPT ![q] = Kept(Put(tasks[q], n, t))]
    <3>1. tasks' = [tasks EXCEPT ![q] = Put(tasks[q], n, t)]
      BY DEF Insert, t
    <3>. QED  BY <3>1, HeldReplace
  <2>. QED  BY <1>2, <2>1 DEF Held
<1>4. n \notin DOMAIN Held[q]
  BY DEF Has, Held, Kept
<1>. QED
  BY <1>3, <1>4 DEF Insert, Held, Promise!Add, Promise!Open

\* CreateTask and DeleteTask; a generated name that is taken is work.
LEMMA TaskRefines ==
  ASSUME TInv, TInv', TaskNext
  PROVE  Promise!Next
<1>1. ASSUME NEW q \in Queues, NEW n \in Names, NEW d \in Delays, CreateTask(q, n, d)
      PROVE  \E m \in TaskNames : Promise!Add(q, m)
  BY <1>1, InsertIsAdd DEF CreateTask, TaskNames
<1>2. ASSUME NEW q \in Queues, NEW d \in Delays, CreateUnnamedTask(q, d)
      PROVE  (\E m \in TaskNames : Promise!Add(q, m)) \/ Promise!Work
  <2>1. CASE Has(q, counter')
    BY <1>2, <2>1, HeldStays DEF CreateUnnamedTask, storeVars
  <2>2. CASE ~Has(q, counter')
    <3>1. counter' \in TaskNames
      BY <1>2, BoundsAssumption DEF CreateUnnamedTask, TInv, TaskNames
    <3>. QED  BY <1>2, <2>2, <3>1, InsertIsAdd DEF CreateUnnamedTask
  <2>. QED  BY <2>1, <2>2
<1>3. ASSUME NEW q \in Queues, NEW n \in TaskNames, DeleteTask(q, n)
      PROVE  Promise!Delete(q, n)
  <2>1. Held' = [Held EXCEPT ![q] = Kept(Without(tasks[q], n))]
    <3>1. tasks' = [tasks EXCEPT ![q] = Without(tasks[q], n)]
      BY <1>3 DEF DeleteTask
    <3>. QED  BY <3>1, HeldReplace
  <2>2. Held' = [Held EXCEPT ![q] = Promise!Restrict(@, DOMAIN @ \ {n})] /\ n \in DOMAIN Held[q]
    <3>1. Held[q] = Kept(tasks[q]) /\ DOMAIN Kept(tasks[q]) = DOMAIN tasks[q]
      BY DEF Held, Kept
    <3>2. Kept(Without(tasks[q], n)) = Promise!Restrict(Held[q], DOMAIN Held[q] \ {n})
      BY <3>1, KeptWithout
    <3>3. n \in DOMAIN Held[q]
      BY <1>3, <3>1 DEF DeleteTask, Has
    <3>. QED  BY <2>1, <3>2, <3>3
  <2>. QED
    BY <1>3, <2>2 DEF DeleteTask, Held, Promise!Delete, Promise!Left
<1>. QED  BY <1>1, <1>2, <1>3 DEF TaskNext, Promise!Next

\* A round of the dispatch loop makes requests for the tasks that are due, which
\* have an attempt left.
LEMMA DispatchRefines ==
  ASSUME TInv, DispatchDue
  PROVE  Promise!Next
<1>. DEFINE due == {qn \in Queues \X TaskNames : Has(qn[1], qn[2]) /\ IsDue(tasks[qn[1]][qn[2]])}
            Next2(q, n) == [Held[q][n] EXCEPT !.count = @ + 1]
<1>1. ASSUME NEW q \in Queues, NEW n \in DOMAIN tasks[q]
      PROVE  /\ <<q, n>> \in due <=> IsDue(tasks[q][n])
             /\ Held[q][n] = [uid |-> tasks[q][n].uid, count |-> tasks[q][n].count]
             /\ Held'[q][n] = IF IsDue(tasks[q][n]) THEN Next2(q, n) ELSE Held[q][n]
  <2>1. n \in TaskNames /\ tasks[q][n] \in Task
    BY TasksOf
  <2>2. <<q, n>> \in due <=> IsDue(tasks[q][n])
    BY <2>1 DEF Has
  <2>3. Held[q][n] = [uid |-> tasks[q][n].uid, count |-> tasks[q][n].count]
    BY DEF Held, Kept
  <2>4. /\ n \in DOMAIN tasks'[q]
        /\ tasks'[q][n] = IF IsDue(tasks[q][n]) THEN Taken(tasks[q][n]) ELSE tasks[q][n]
    BY DEF DispatchDue
  <2>5. Held'[q][n] = [uid |-> tasks'[q][n].uid, count |-> tasks'[q][n].count]
    BY <2>4 DEF Held, Kept
  <2>6. Next2(q, n) = [uid |-> tasks[q][n].uid, count |-> tasks[q][n].count + 1]
    BY <2>3
  <2>. HIDE DEF Next2
  <2>7. CASE IsDue(tasks[q][n])
    <3>1. tasks'[q][n] = Taken(tasks[q][n])
      BY <2>4, <2>7
    <3>. QED  BY <2>1, <2>2, <2>3, <2>5, <2>6, <2>7, <3>1, TakenCounts
  <2>. QED  BY <2>2, <2>3, <2>4, <2>5, <2>7
<1>2. Held' = [q \in Queues |-> [n \in DOMAIN Held[q] |->
                 IF <<q, n>> \in due THEN Next2(q, n) ELSE Held[q][n]]]
  <2>1. \A q \in Queues : DOMAIN Held[q] = DOMAIN tasks[q] /\ DOMAIN Held'[q] = DOMAIN tasks[q]
    BY DEF Held, Kept, DispatchDue
  <2>2. Held' = [q \in Queues |-> [n \in DOMAIN Held'[q] |-> Held'[q][n]]]
    BY DEF Held, Kept
  <2>3. ASSUME NEW q \in Queues
        PROVE  [n \in DOMAIN Held'[q] |-> Held'[q][n]] =
               [n \in DOMAIN Held[q] |-> IF <<q, n>> \in due THEN Next2(q, n) ELSE Held[q][n]]
    <3>1. \A n \in DOMAIN Held[q] :
            Held'[q][n] = IF <<q, n>> \in due THEN Next2(q, n) ELSE Held[q][n]
      <4>. HIDE DEF due, Next2
      <4>. QED  BY <1>1, <2>1
    <3>2. DOMAIN Held'[q] = DOMAIN Held[q]
      BY <2>1
    <3>. HIDE DEF due, Next2
    <3>. QED  BY <3>1, <3>2
  <2>. HIDE DEF due, Next2
  <2>. QED  BY <2>2, <2>3
<1>3. ASSUME NEW qn \in due
      PROVE  /\ qn[1] \in Queues /\ qn[2] \in DOMAIN tasks[qn[1]] /\ <<qn[1], qn[2]>> = qn
             /\ qn[2] \in DOMAIN Held[qn[1]]
             /\ Held[qn[1]][qn[2]].count < queues[qn[1]].maxAttempts
             /\ Held'[qn[1]][qn[2]].uid = tasks[qn[1]][qn[2]].uid
             /\ Held'[qn[1]][qn[2]].count = tasks[qn[1]][qn[2]].count + 1
  <2>1. /\ qn[1] \in Queues /\ qn[2] \in DOMAIN tasks[qn[1]] /\ <<qn[1], qn[2]>> = qn
        /\ IsDue(tasks[qn[1]][qn[2]])
    BY DEF Has
  <2>2. tasks[qn[1]][qn[2]].count < queues[qn[1]].maxAttempts
    BY <2>1, TasksOf DEF WithinAttempts, IsDue
  <2>3. qn[2] \in DOMAIN Held[qn[1]]
    BY <2>1 DEF Held, Kept
  <2>4. Held[qn[1]][qn[2]] = [uid |-> tasks[qn[1]][qn[2]].uid, count |-> tasks[qn[1]][qn[2]].count]
    BY <1>1, <2>1
  <2>5. Held'[qn[1]][qn[2]] = Next2(qn[1], qn[2])
    <3>. HIDE DEF due, Next2
    <3>. QED  BY <1>1, <2>1
  <2>6. Held'[qn[1]][qn[2]] = [uid |-> tasks[qn[1]][qn[2]].uid, count |-> tasks[qn[1]][qn[2]].count + 1]
    BY <2>4, <2>5
  <2>. QED  BY <2>1, <2>2, <2>3, <2>4, <2>6
<1>4. workers' = workers \cup
        {[queue |-> qn[1], name |-> qn[2], uid |-> Held'[qn[1]][qn[2]].uid,
          count |-> Held'[qn[1]][qn[2]].count] : qn \in due}
  <2>1. workers' = workers \cup
           {[queue |-> qn[1], name |-> qn[2], uid |-> tasks[qn[1]][qn[2]].uid,
             count |-> tasks[qn[1]][qn[2]].count + 1] : qn \in due}
    BY DEF DispatchDue
  <2>. HIDE DEF due
  <2>. QED  BY <1>3, <2>1
<1>5. due \in SUBSET {qn \in Queues \X TaskNames : qn[2] \in DOMAIN Held[qn[1]]}
  BY <1>3
<1>6. UNCHANGED <<queues, created>> /\ event' = "none"
  BY DEF DispatchDue
<1>. HIDE DEF due
<1>7. Promise!Sends(due)
  BY <1>2, <1>3, <1>4, <1>6 DEF Promise!Sends, Held
<1>. QED  BY <1>5, <1>7 DEF Promise!Next, Held

\* A goroutine's answer: the task of its name goes, unless the request was
\* refused and the task has one left.
LEMMA WorkerRefines ==
  ASSUME TInv, NEW w \in workers, NEW ok \in BOOLEAN, WorkerEnds(w, ok)
  PROVE  IF ok THEN Promise!Accepted(w) ELSE Promise!Refused(w)
<1>. DEFINE q == w.queue
            n == w.name
            Spent == {m \in DOMAIN Held[q] \cap {n} : Held[q][m].count >= queues[q].maxAttempts}
<1>1. q \in Queues
  BY DEF TInv, Worker
<1>2. UNCHANGED <<queues, created>> /\ workers' = workers \ {w}
      /\ event' = IF ok THEN "accepted" ELSE "refused"
  BY DEF WorkerEnds, CompleteTask, RetryTask, storeVars
<1>3. Held[q] = Kept(tasks[q]) /\ DOMAIN Kept(tasks[q]) = DOMAIN tasks[q]
  BY <1>1 DEF Held, Kept
<1>4. ASSUME tasks' = [tasks EXCEPT ![q] = Without(@, n)]
      PROVE  Held' = [Held EXCEPT ![q] = Promise!Restrict(@, DOMAIN @ \ {n})]
  <2>1. tasks' = [tasks EXCEPT ![q] = Without(tasks[q], n)]
    BY <1>4
  <2>2. Held' = [Held EXCEPT ![q] = Kept(Without(tasks[q], n))]
    BY <1>1, <2>1, HeldReplace
  <2>3. Kept(Without(tasks[q], n)) = Promise!Restrict(Held[q], DOMAIN Held[q] \ {n})
    BY <1>3, KeptWithout
  <2>. QED  BY <2>2, <2>3
<1>5. CASE ok
  <2>1. tasks' = [tasks EXCEPT ![q] = Without(@, n)]
    BY <1>5 DEF WorkerEnds, CompleteTask
  <2>. QED  BY <1>2, <1>4, <1>5, <2>1 DEF Held, Promise!Accepted, Promise!Left
<1>6. ASSUME ~ok, Held' = Held, Spent = {}
      PROVE  Promise!Refused(w)
  <2>1. Promise!Restrict(Held[q], DOMAIN Held[q] \ {}) = Held[q]
    BY <1>1 DEF Promise!Restrict, Held, Kept
  <2>2. Held' = [Held EXCEPT ![q] = Promise!Restrict(@, DOMAIN @ \ Spent)]
    <3>1. [Held EXCEPT ![q] = Held[q]] = Held
      BY <1>1 DEF Held
    <3>. HIDE DEF Spent
    <3>. QED  BY <1>6, <2>1, <3>1
  <2>. QED  BY <1>2, <1>6, <2>2 DEF Held, Promise!Refused, Promise!Left
<1>7. CASE ~ok /\ ~Has(q, n)
  <2>1. tasks' = tasks
    BY <1>7 DEF WorkerEnds, RetryTask, storeVars
  <2>2. Spent = {}
    BY <1>3, <1>7 DEF Has
  <2>. QED  BY <1>6, <1>7, <2>1, <2>2 DEF Held
<1>8. CASE ~ok /\ Has(q, n)
  <2>1. /\ n \in DOMAIN tasks[q] /\ tasks[q][n] \in Task
        /\ tasks[q][n].count \in Nat /\ queues[q].maxAttempts \in Nat
    BY <1>1, <1>8, TasksOf DEF Has
  <2>2. Held[q][n].count = tasks[q][n].count /\ n \in DOMAIN Held[q]
    BY <1>3, <2>1 DEF Kept
  <2>3. CASE Exhausted(queues[q], tasks[q][n])
    <3>1. tasks' = [tasks EXCEPT ![q] = Without(@, n)]
      BY <1>8, <2>3 DEF WorkerEnds, RetryTask
    <3>2. Spent = {n}
      BY <2>2, <2>3 DEF Exhausted
    <3>3. Held' = [Held EXCEPT ![q] = Promise!Restrict(@, DOMAIN @ \ Spent)]
      BY <1>4, <3>1, <3>2
    <3>. QED  BY <1>2, <1>8, <3>3 DEF Held, Promise!Refused, Promise!Left
  <2>4. CASE ~Exhausted(queues[q], tasks[q][n])
    <3>. DEFINE back == Put(tasks[q], n,
                            Rescheduled(tasks[q][n], Backoff(queues[q], tasks[q][n].count)))
    <3>1. tasks' = [tasks EXCEPT ![q] = back]
      BY <1>8, <2>4 DEF WorkerEnds, RetryTask
    <3>2. Kept(back) = Held[q]
      BY <1>3, <2>1, KeptPutBack
    <3>. HIDE DEF back
    <3>3. Held' = [Held EXCEPT ![q] = Kept(back)]
      BY <1>1, <3>1, HeldReplace
    <3>4. Held' = Held
      BY <1>1, <3>2, <3>3 DEF Held
    <3>5. Spent = {}
      BY <2>2, <2>4 DEF Exhausted
    <3>. QED  BY <1>6, <1>8, <3>4, <3>5
  <2>. QED  BY <2>3, <2>4
<1>. QED  BY <1>5, <1>7, <1>8

\* A restart keeps every task with a data directory, and none without; a crash
\* inside the writing of the file keeps none.  The passing of time is work.
LEMMA EnvRefines ==
  ASSUME TInv, CrashLosesNoTask, CountsLag, NothingSaved, EnvNext
  PROVE  Promise!Next
<1>1. ASSUME Restarts(NoImage)
      PROVE  Promise!Lost /\ workers' = {} /\ UNCHANGED created
  <2>1. queues' = [q \in Queues |-> NoQueue] /\ tasks' = [q \in Queues |-> NoTasks]
    BY <1>1 DEF Restarts, NoImage, ImageOf
  <2>2. [q \in Queues |-> Kept(tasks'[q])] = [q \in Queues |-> Promise!Nothing]
    BY <2>1, KeptNothing
  <2>. QED  BY <1>1, <2>1, <2>2 DEF Restarts, Promise!Lost
<1>2. ASSUME Restarts(disk), DataDir
      PROVE  Promise!Remembered /\ workers' = {} /\ UNCHANGED created
  <2>1. /\ tasks' = disk.tasks /\ UNCHANGED <<queues, created>> /\ workers' = {}
        /\ \A q \in Queues :
             /\ DOMAIN tasks'[q] = DOMAIN tasks[q]
             /\ \A n \in DOMAIN tasks[q] : /\ tasks'[q][n].uid = tasks[q][n].uid
                                           /\ tasks'[q][n].count <= tasks[q][n].count
    BY <1>2 DEF Restarts, CrashLosesNoTask, CountsLag
  <2>2. ASSUME NEW q \in Queues
        PROVE  DOMAIN Held'[q] = DOMAIN Held[q] /\ DOMAIN Held[q] = DOMAIN tasks[q]
    BY <2>1 DEF Held, Kept
  <2>3. ASSUME NEW q \in Queues, NEW n \in DOMAIN Held[q]
        PROVE  /\ Held'[q][n].count <= Held[q][n].count
               /\ Held'[q][n] = [Held[q][n] EXCEPT !.count = Held'[q][n].count]
    <3>1. n \in DOMAIN tasks[q] /\ n \in DOMAIN tasks'[q]
      BY <2>1, <2>2
    <3>2. Held[q][n] = [uid |-> tasks[q][n].uid, count |-> tasks[q][n].count]
      BY <3>1 DEF Held, Kept
    <3>3. Held'[q][n] = [uid |-> tasks[q][n].uid, count |-> tasks'[q][n].count]
      BY <2>1, <3>1 DEF Held, Kept
    <3>. QED  BY <2>1, <3>1, <3>2, <3>3
  <2>4. Held' = [q \in Queues |-> [n \in DOMAIN Held[q] |->
                   [Held[q][n] EXCEPT !.count = Held'[q][n].count]]]
    <3>1. Held' = [q \in Queues |-> [n \in DOMAIN Held[q] |-> Held'[q][n]]]
      BY <2>2 DEF Held, Kept
    <3>2. ASSUME NEW q \in Queues
          PROVE  [n \in DOMAIN Held[q] |-> Held'[q][n]] =
                 [n \in DOMAIN Held[q] |-> [Held[q][n] EXCEPT !.count = Held'[q][n].count]]
      BY <2>3
    <3>. QED  BY <3>1, <3>2
  <2>. QED  BY <2>1, <2>2, <2>3, <2>4 DEF Held, Promise!Remembered
<1>3. CASE Restart \/ \E q \in Queues : PurgePanic(q)
  <2>1. Restarts(disk) /\ event' = "restart"
    BY <1>3 DEF Restart, PurgePanic
  <2>2. CASE DataDir
    BY <1>2, <2>1, <2>2 DEF Promise!Restart, Promise!Next
  <2>3. CASE ~DataDir
    BY <1>1, <2>1, <2>3 DEF NothingSaved, Promise!Restart, Promise!Next
  <2>. QED  BY <2>2, <2>3
<1>4. CASE TornWrite
  BY <1>1, <1>4 DEF TornWrite, Promise!Torn, Promise!Next
<1>5. CASE Tick
  <2>1. \A q \in Queues : Kept(tasks'[q]) = Kept(tasks[q])
    BY <1>5, KeptAged DEF Tick, TInv, Sound, AreTaskMaps
  <2>. QED  BY <1>5, <2>1, HeldStays DEF Tick, Promise!Next
<1>. QED  BY <1>3, <1>4, <1>5 DEF EnvNext

\* What store.go and the dispatch loop of service.go do to a task is what the
\* task queues promise: it goes in a call that removes it, by an answer to a
\* request made under its name, or in a crash that loses the file, and in no
\* other way.
THEOREM CloudTasksKeepsItsPromise == Spec => ImplementsTaskQueues
<1>1. Init => CrashLosesNoTask /\ CountsLag /\ NothingSaved
  BY DEF Init, CrashLosesNoTask, CountsLag, NothingSaved, NoImage, ImageOf, NoTasks
<1>2. Init => Promise!Init
  BY KeptNothing DEF Init, Promise!Init
<1>3. TInv /\ TInv' /\ CrashLosesNoTask /\ CountsLag /\ NothingSaved /\ [Next]_vars
        => [Promise!Next]_(Promise!vars)
  <2>. SUFFICES ASSUME TInv, TInv', CrashLosesNoTask, CountsLag, NothingSaved, [Next]_vars
                PROVE  Promise!Next \/ UNCHANGED Promise!vars
    OBVIOUS
  <2>1. CASE DispatchNext
    <3>1. ASSUME NEW w \in workers, NEW ok \in BOOLEAN, WorkerEnds(w, ok)
          PROVE  Promise!Next
      BY <3>1, WorkerRefines DEF Promise!Next
    <3>. QED  BY <2>1, <3>1, DispatchRefines DEF DispatchNext
  <2>2. CASE UNCHANGED vars
    BY <2>2 DEF vars, storeVars, Promise!vars
  <2>. QED  BY <2>1, <2>2, QueueRefines, TaskRefines, EnvRefines DEF Next
<1>. QED
  BY <1>1, <1>2, <1>3, InitSound, NextSound, NextKeepsTasks, CountsNext, SavedNext, PTL
  DEF Spec, ImplementsTaskQueues, Promise!Spec

=============================================================================
