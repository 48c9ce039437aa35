------------------------- MODULE KeyPersistenceProofs -------------------------
(***************************************************************************)
(* Proofs about KeyPersistence: TypeOK and DiskAgrees hold of Spec for all *)
(* sets of keys and generations, queues, kills and failures.               *)
(*                                                                         *)
(* DiskAgrees speaks of the moments without tasks.  IInv says what leads   *)
(* there: for a key that is not stale the newest task on it, late before   *)
(* queued, carries what the map holds, and without one the file does.      *)
(* Before that, what loadPersistedKeys has in hand is what the file holds. *)
(***************************************************************************)
EXTENDS KeyPersistence, TLAPS

\* Tasks have the shapes that saveKey, deleteKey and clearAll give them.
Shaped(task) ==
    \/ task.op = "save" /\ task.key \in Keys /\ task.id \in Ids
    \/ task.op = "delete" /\ task.key \in Keys /\ task.id = None
    \/ task.op = "clear" /\ task.key = None /\ task.id = None

Shapes ==
    /\ \A task \in late : Shaped(task)
    /\ \A i \in DOMAIN queue : Shaped(queue[i])

\* The directory is cleared only by a daemon that is ready.
ClearsLate ==
    phase # "ready" => /\ \A task \in late : task.key # None
                       /\ \A i \in DOMAIN queue : queue[i].key # None

Affects(task, k) == task.key \in {k, None}

NoLate(k) == \A task \in late : ~Affects(task, k)

\* The only call on k between map and queue is the newest.
LateNewest(k) ==
    \A task \in late : Affects(task, k) =>
        task.id = keys[k] /\ \A other \in late : Affects(other, k) => other = task

\* Without one the last task in the queue is.
QueueNewest(k) ==
    NoLate(k) =>
        \A i \in DOMAIN queue :
            Affects(queue[i], k) /\ (\A j \in DOMAIN queue : j > i => ~Affects(queue[j], k))
                => queue[i].id = keys[k]

\* Without tasks the file is.
FileNewest(k) ==
    NoLate(k) /\ (\A i \in DOMAIN queue : ~Affects(queue[i], k)) =>
        IF keys[k] = None THEN Unreadable(k) ELSE file[k] = keys[k]

Agreed(k) == LateNewest(k) /\ QueueNewest(k) /\ FileNewest(k)

\* The map speaks for k: loadPersistedKeys is done with it.
Live(k) ==
    \/ phase \in {"loaded", "ready"}
    \/ phase = "restoring" /\ k \notin walk

Agreement == \A k \in Keys \ stale : Live(k) => Agreed(k)

\* Until then no key is in the map, for only a daemon that is ready generates.
NotYet ==
    \A k \in Keys :
        phase \in {"down", "registered"} \/ (phase = "restoring" /\ k \in walk) => keys[k] = None

\* What loadPersistedKeys has in hand is what the file holds, and stays so:
\* no task on the key is on its way.
Faithful(k) ==
    /\ NoLate(k)
    /\ \A i \in DOMAIN queue : ~Affects(queue[i], k)
    /\ IF read[k] = None THEN Unreadable(k) ELSE file[k] = read[k]

HandAgreement == \A k \in Keys \ stale : InHand(k) => Faithful(k)

IInv == TypeOK /\ Shapes /\ ClearsLate /\ NotYet /\ Agreement /\ HandAgreement

-----------------------------------------------------------------------------
(* The tasks on one key *)

\* The first task and the rest of the queue.
LEMMA QueueTail ==
    ASSUME queue \in Seq(Tasks), queue # <<>>
    PROVE  /\ Len(queue) \in Nat /\ DOMAIN queue = 1..Len(queue) /\ 1 \in DOMAIN queue
           /\ Head(queue) = queue[1] /\ Head(queue) \in Tasks
           /\ Tail(queue) \in Seq(Tasks) /\ DOMAIN Tail(queue) = 1..(Len(queue) - 1)
           /\ \A i \in 1..(Len(queue) - 1) : Tail(queue)[i] = queue[i + 1]
<1>1. /\ Len(queue) \in Nat /\ Len(queue) >= 1 /\ DOMAIN queue = 1..Len(queue)
      /\ Head(queue) = queue[1] /\ Head(queue) \in Tasks
      /\ Tail(queue) \in Seq(Tasks) /\ Len(Tail(queue)) = Len(queue) - 1
      /\ DOMAIN Tail(queue) = 1..(Len(queue) - 1)
      /\ \A i \in 1..(Len(queue) - 1) : Tail(queue)[i] = queue[i + 1]
  OBVIOUS
<1> QED
  BY <1>1

\* The queue with a task more.
LEMMA QueueAppend ==
    ASSUME queue \in Seq(Tasks), NEW task \in Tasks
    PROVE  /\ Len(queue) \in Nat /\ DOMAIN queue = 1..Len(queue)
           /\ Append(queue, task) \in Seq(Tasks)
           /\ DOMAIN Append(queue, task) = 1..(Len(queue) + 1)
           /\ \A i \in 1..Len(queue) : Append(queue, task)[i] = queue[i]
           /\ Append(queue, task)[Len(queue) + 1] = task
  OBVIOUS

\* A call on k adds the newest task on it; one on another key does not matter.
LEMMA TaskAdded ==
    ASSUME NEW k \in Keys, NEW task, late' = late \cup {task}, UNCHANGED <<queue, file>>,
           \/ Affects(task, k) /\ NoLate(k) /\ keys'[k] = task.id
           \/ ~Affects(task, k) /\ keys'[k] = keys[k] /\ Agreed(k)
    PROVE  Agreed(k)'
<1>1. CASE Affects(task, k) /\ NoLate(k) /\ keys'[k] = task.id
  BY <1>1 DEF Agreed, LateNewest, QueueNewest, FileNewest, NoLate, Affects
<1>2. CASE ~Affects(task, k) /\ keys'[k] = keys[k] /\ Agreed(k)
  <2>1. NoLate(k)' <=> NoLate(k)
    BY <1>2 DEF NoLate, Affects
  <2>2. LateNewest(k)'
    BY <1>2 DEF Agreed, LateNewest, Affects
  <2>3. QueueNewest(k)'
    BY <1>2, <2>1 DEF Agreed, QueueNewest, Affects
  <2>4. FileNewest(k)'
    BY <1>2, <2>1 DEF Agreed, FileNewest, Affects, Unreadable
  <2> QED
    BY <2>2, <2>3, <2>4 DEF Agreed
<1> QED
  BY <1>1, <1>2

\* While a task on k is queued its file may be anything.
LEMMA FileTouched ==
    ASSUME NEW k \in Keys, Agreed(k), keys'[k] = keys[k], UNCHANGED <<late, queue>>,
           file'[k] = file[k] \/ \E i \in DOMAIN queue : Affects(queue[i], k)
    PROVE  Agreed(k)'
<1>1. LateNewest(k)'
  BY DEF Agreed, LateNewest, Affects
<1>2. QueueNewest(k)'
  BY DEF Agreed, QueueNewest, NoLate, Affects
<1>3. FileNewest(k)'
  BY DEF Agreed, FileNewest, NoLate, Affects, Unreadable
<1> QED
  BY <1>1, <1>2, <1>3 DEF Agreed

\* The first task is done and has left in the file what it carries.
LEMMA TaskDone ==
    ASSUME NEW k \in Keys, Agreed(k), queue \in Seq(Tasks), queue # <<>>,
           queue' = Tail(queue), UNCHANGED <<keys, late>>,
           IF Affects(Head(queue), k)
           THEN IF Head(queue).id = None THEN Unreadable(k)' ELSE file'[k] = Head(queue).id
           ELSE file'[k] = file[k]
    PROVE  Agreed(k)'
<1>1. /\ Len(queue) \in Nat /\ DOMAIN queue = 1..Len(queue) /\ 1 \in DOMAIN queue
      /\ Head(queue) = queue[1]
      /\ DOMAIN queue' = 1..(Len(queue) - 1)
      /\ \A i \in 1..(Len(queue) - 1) : queue'[i] = queue[i + 1]
  BY QueueTail
<1>2. NoLate(k)' <=> NoLate(k)
  BY DEF NoLate, Affects
<1>3. LateNewest(k)'
  BY DEF Agreed, LateNewest, Affects
<1>4. QueueNewest(k)'
  <2> SUFFICES ASSUME NoLate(k), NEW i \in DOMAIN queue', Affects(queue'[i], k),
                      \A j \in DOMAIN queue' : j > i => ~Affects(queue'[j], k)
               PROVE  queue'[i].id = keys[k]
    BY <1>2 DEF QueueNewest, Affects
  <2>1. i + 1 \in DOMAIN queue /\ queue'[i] = queue[i + 1]
    BY <1>1
  <2>2. ASSUME NEW j \in DOMAIN queue, j > i + 1 PROVE ~Affects(queue[j], k)
    <3>1. j - 1 \in DOMAIN queue' /\ j - 1 > i /\ (j - 1) + 1 = j
      BY <2>2, <1>1
    <3>2. queue'[j - 1] = queue[(j - 1) + 1]
      BY <3>1, <1>1
    <3> QED
      BY <3>1, <3>2
  <2> QED
    BY <2>1, <2>2 DEF Agreed, QueueNewest
<1>5. FileNewest(k)'
  <2> SUFFICES ASSUME NoLate(k), \A i \in DOMAIN queue' : ~Affects(queue'[i], k)
               PROVE  IF keys[k] = None THEN Unreadable(k)' ELSE file'[k] = keys[k]
    BY <1>2 DEF FileNewest, Affects, Unreadable
  <2>1. ASSUME NEW j \in DOMAIN queue, j > 1 PROVE ~Affects(queue[j], k)
    <3>1. j - 1 \in DOMAIN queue' /\ (j - 1) + 1 = j
      BY <2>1, <1>1
    <3>2. queue'[j - 1] = queue[(j - 1) + 1]
      BY <3>1, <1>1
    <3> QED
      BY <3>1, <3>2
  <2>2. CASE Affects(queue[1], k)
    <3>1. queue[1].id = keys[k]
      BY <2>1, <2>2, <1>1 DEF Agreed, QueueNewest
    <3> QED
      BY <3>1, <2>2, <1>1
  <2>3. CASE ~Affects(queue[1], k)
    <3>1. \A j \in DOMAIN queue : j = 1 \/ j > 1
      BY <1>1
    <3>2. \A j \in DOMAIN queue : ~Affects(queue[j], k)
      BY <2>1, <2>3, <3>1
    <3>3. IF keys[k] = None THEN Unreadable(k) ELSE file[k] = keys[k]
      BY <3>2 DEF Agreed, FileNewest
    <3> QED
      BY <3>3, <2>3, <1>1 DEF Unreadable
  <2> QED
    BY <2>2, <2>3
<1> QED
  BY <1>3, <1>4, <1>5 DEF Agreed

\* A late task is queued.
LEMMA TaskQueued ==
    ASSUME NEW k \in Keys, Agreed(k), queue \in Seq(Tasks), NEW task \in late, task \in Tasks,
           late' = late \ {task}, queue' = Append(queue, task), UNCHANGED <<keys, file>>
    PROVE  Agreed(k)'
<1> DEFINE n == Len(queue) + 1
<1>1. /\ Len(queue) \in Nat /\ DOMAIN queue = 1..Len(queue)
      /\ DOMAIN queue' = 1..(Len(queue) + 1)
      /\ \A i \in 1..Len(queue) : queue'[i] = queue[i]
      /\ queue'[Len(queue) + 1] = task
  BY QueueAppend
<1>2. n \in DOMAIN queue' /\ queue'[n] = task /\ \A i \in DOMAIN queue' : i = n \/ (i \in DOMAIN queue /\ i < n /\ queue'[i] = queue[i])
  BY <1>1
<1>3. DOMAIN queue \subseteq DOMAIN queue' /\ \A i \in DOMAIN queue : queue'[i] = queue[i]
  BY <1>1
<1> HIDE DEF n
<1>4. LateNewest(k)'
  BY DEF Agreed, LateNewest, Affects
<1>5. CASE Affects(task, k)
  <2>1. task.id = keys[k] /\ NoLate(k)'
    BY <1>5 DEF Agreed, LateNewest, NoLate, Affects
  <2>2. QueueNewest(k)'
    <3> SUFFICES ASSUME NEW i \in DOMAIN queue', Affects(queue'[i], k),
                        \A j \in DOMAIN queue' : j > i => ~Affects(queue'[j], k)
                 PROVE  queue'[i].id = keys[k]
      BY DEF QueueNewest, Affects
    <3>1. ~(n > i)
      BY <1>2, <1>5
    <3>2. i = n
      BY <3>1, <1>1, <1>2
    <3> QED
      BY <3>2, <2>1, <1>2
  <2>3. FileNewest(k)'
    BY <1>2, <1>5 DEF FileNewest, Affects
  <2> QED
    BY <1>4, <2>2, <2>3 DEF Agreed
<1>6. CASE ~Affects(task, k)
  <2>1. NoLate(k)' <=> NoLate(k)
    BY <1>6 DEF NoLate, Affects
  <2>2. QueueNewest(k)'
    <3> SUFFICES ASSUME NoLate(k), NEW i \in DOMAIN queue', Affects(queue'[i], k),
                        \A j \in DOMAIN queue' : j > i => ~Affects(queue'[j], k)
                 PROVE  queue'[i].id = keys[k]
      BY <2>1 DEF QueueNewest, Affects
    <3>1. i \in DOMAIN queue /\ queue'[i] = queue[i]
      BY <1>2, <1>6
    <3>2. \A j \in DOMAIN queue : j > i => ~Affects(queue[j], k)
      BY <1>3
    <3> QED
      BY <3>1, <3>2 DEF Agreed, QueueNewest
  <2>3. FileNewest(k)'
    BY <2>1, <1>3 DEF Agreed, FileNewest, Affects, Unreadable
  <2> QED
    BY <1>4, <2>2, <2>3 DEF Agreed
<1> QED
  BY <1>5, <1>6
\* A key in hand is faithful while the files and tasks that change are others'.
LEMMA FaithfulKept ==
    ASSUME NEW k \in Keys, Faithful(k), read'[k] = read[k], file'[k] = file[k],
           \A task \in late' : task \in late \/ ~Affects(task, k),
           \A i \in DOMAIN queue' : (\E j \in DOMAIN queue : queue'[i] = queue[j]) \/ ~Affects(queue'[i], k)
    PROVE  Faithful(k)'
<1>1. NoLate(k)'
  BY DEF Faithful, NoLate, Affects
<1>2. \A i \in DOMAIN queue' : ~Affects(queue'[i], k)
  BY DEF Faithful
<1>3. IF read'[k] = None THEN Unreadable(k)' ELSE file'[k] = read'[k]
  BY DEF Faithful, Unreadable
<1> QED
  BY <1>1, <1>2, <1>3 DEF Faithful, Affects
-----------------------------------------------------------------------------
(* The steps *)

\* A task of one of the three shapes is a task.
LEMMA TaskShapes ==
    /\ \A k \in Keys, id \in Ids :
          Save(k, id) \in Tasks /\ Shaped(Save(k, id)) /\ Save(k, id).key = k /\ Save(k, id).id = id
    /\ \A k \in Keys :
          Delete(k) \in Tasks /\ Shaped(Delete(k)) /\ Delete(k).key = k /\ Delete(k).id = None
    /\ ClearAll \in Tasks /\ Shaped(ClearAll) /\ ClearAll.key = None /\ ClearAll.id = None
  BY DEF Save, Delete, ClearAll, Tasks, Shaped

\* The invariant holds when the program starts for the first time.
LEMMA InitIInv == Init => IInv
<1> SUFFICES ASSUME Init PROVE IInv
  OBVIOUS
<1>1. TypeOK
  <2>1. /\ keys \in [Keys -> Ids \cup {None}] /\ late \subseteq Tasks /\ queue \in Seq(Tasks)
        /\ file \in [Keys -> Ids \cup {None, Torn}]
        /\ phase \in {"down", "registered", "restoring", "loaded", "ready"} /\ starts \in 0..MaxStarts
        /\ walk \subseteq Keys /\ read \in [Keys -> Ids \cup {None}]
        /\ unused \subseteq Ids /\ stale \subseteq Keys /\ kept \in [Keys -> Ids \cup {None}]
    BY PersistenceAssumption DEF Init
  <2>2. copying \in BOOLEAN /\ keybox \in BOOLEAN
    BY Zenon DEF Init
  <2> QED
    BY <2>1, <2>2 DEF TypeOK
<1>2. Shapes /\ ClearsLate /\ NotYet /\ Agreement /\ HandAgreement
  BY DEF Init, Shapes, ClearsLate, NotYet, Agreement, Live, HandAgreement, InHand
<1> QED
  BY <1>1, <1>2 DEF IInv

\* A key is generated: its save is the newest task on it.
LEMMA StoreStep ==
    ASSUME IInv, NEW k \in Keys, NEW id \in Ids, StoreGeneratedKey(k, id)
    PROVE  IInv'
<1>1. TypeOK'
  BY TaskShapes DEF IInv, TypeOK, loading, StoreGeneratedKey
<1>2. Shapes' /\ ClearsLate'
  BY TaskShapes DEF IInv, Shapes, ClearsLate, Shaped, StoreGeneratedKey
<1>3. ASSUME NEW l \in Keys \ stale', Live(l)' PROVE Agreed(l)'
  <2>0. Save(k, id).key = k /\ Save(k, id).id = id /\ k # None /\ keys \in [Keys -> Ids \cup {None}]
    BY TaskShapes, PersistenceAssumption DEF IInv, TypeOK
  <2>1. CASE l = k
    <3>1. NoLate(l)
      BY <2>1, <1>3 DEF StoreGeneratedKey, Overlapped, NoLate, Affects
    <3> QED
      BY <2>0, <2>1, <3>1, TaskAdded DEF StoreGeneratedKey, Affects
  <2>2. CASE l # k
    <3>1. Agreed(l)
      BY <2>2, <1>3 DEF IInv, Agreement, Live, loading, StoreGeneratedKey
    <3> QED
      BY <2>0, <2>2, <3>1, TaskAdded DEF StoreGeneratedKey, Affects
  <2> QED
    BY <2>1, <2>2
<1>7. NotYet' /\ HandAgreement'
  BY DEF NotYet, HandAgreement, InHand, StoreGeneratedKey
<1> QED
  BY <1>1, <1>2, <1>3, <1>7 DEF IInv, Agreement, HandAgreement

\* A key is cleaned up: its deletion is the newest task on it.
LEMMA CleanupStep ==
    ASSUME IInv, NEW k \in Keys, CleanupKey(k)
    PROVE  IInv'
<1>1. TypeOK'
  BY TaskShapes DEF IInv, TypeOK, loading, CleanupKey
<1>2. Shapes' /\ ClearsLate'
  BY TaskShapes, PersistenceAssumption DEF IInv, Shapes, ClearsLate, Shaped, CleanupKey
<1>3. ASSUME NEW l \in Keys \ stale', Live(l)' PROVE Agreed(l)'
  <2>0. Delete(k).key = k /\ Delete(k).id = None /\ k # None /\ keys \in [Keys -> Ids \cup {None}]
    BY TaskShapes, PersistenceAssumption DEF IInv, TypeOK
  <2>1. CASE l = k
    <3>1. NoLate(l)
      BY <2>1, <1>3 DEF CleanupKey, Overlapped, NoLate, Affects
    <3> QED
      BY <2>0, <2>1, <3>1, TaskAdded DEF CleanupKey, Affects
  <2>2. CASE l # k
    <3>1. Agreed(l)
      BY <2>2, <1>3 DEF IInv, Agreement, Live, loading, CleanupKey
    <3> QED
      BY <2>0, <2>2, <3>1, TaskAdded DEF CleanupKey, Affects
  <2> QED
    BY <2>1, <2>2
<1>7. NotYet'
  BY DEF IInv, TypeOK, NotYet, loading, CleanupKey
<1>8. ASSUME NEW l \in Keys \ stale', InHand(l)' PROVE Faithful(l)'
  <2>1. l # k /\ Faithful(l)
    BY <1>8 DEF IInv, HandAgreement, InHand, loading, CleanupKey
  <2>2. ~Affects(Delete(k), l)
    BY <2>1, TaskShapes, PersistenceAssumption DEF Affects
  <2> QED
    BY <2>1, <2>2, FaithfulKept DEF loading, CleanupKey
<1> QED
  BY <1>1, <1>2, <1>3, <1>7, <1>8 DEF IInv, Agreement, HandAgreement

\* A key that is cleared in memory only is stale.
LEMMA ClearInMemoryStep ==
    ASSUME IInv, NEW k \in Keys, ClearInMemory(k)
    PROVE  IInv'
<1>1. TypeOK'
  BY DEF IInv, TypeOK, loading, ClearInMemory
<1>2. Shapes' /\ ClearsLate'
  BY DEF IInv, Shapes, ClearsLate, Shaped, ClearInMemory
<1>3. ASSUME NEW l \in Keys \ stale', Live(l)' PROVE Agreed(l)'
  <2>1. l # k /\ Agreed(l) /\ keys'[l] = keys[l]
    BY <1>3 DEF IInv, TypeOK, Agreement, Live, loading, ClearInMemory
  <2> QED
    BY <2>1, FileTouched DEF ClearInMemory
<1>7. NotYet'
  BY DEF IInv, TypeOK, NotYet, loading, ClearInMemory
<1>8. ASSUME NEW l \in Keys \ stale', InHand(l)' PROVE Faithful(l)'
  <2>1. Faithful(l)
    BY <1>8 DEF IInv, HandAgreement, InHand, loading, ClearInMemory
  <2> QED
    BY <2>1, FaithfulKept DEF loading, ClearInMemory
<1> QED
  BY <1>1, <1>2, <1>3, <1>7, <1>8 DEF IInv, Agreement, HandAgreement

\* The keybox changes: the clearing is the newest task on every key that no
\* other call is working on.
LEMMA UpdateKeyBoxStep ==
    ASSUME IInv, NEW parsed \in BOOLEAN, UpdateKeyBox(parsed)
    PROVE  IInv'
<1>1. TypeOK'
  <2>1. keybox' \in BOOLEAN /\ copying' \in BOOLEAN
    BY Zenon DEF IInv, TypeOK, loading, UpdateKeyBox
  <2> QED
    BY <2>1, TaskShapes DEF IInv, TypeOK, loading, UpdateKeyBox
<1>2. Shapes' /\ ClearsLate'
  BY TaskShapes DEF IInv, Shapes, ClearsLate, Shaped, UpdateKeyBox
<1>3. ASSUME NEW l \in Keys \ stale', Live(l)' PROVE Agreed(l)'
  <2>1. NoLate(l)
    BY <1>3 DEF UpdateKeyBox, Overlapped, NoLate, Affects
  <2> QED
    BY <2>1, TaskAdded, TaskShapes DEF UpdateKeyBox, Affects
<1>7. NotYet' /\ HandAgreement'
  BY DEF NotYet, HandAgreement, InHand, UpdateKeyBox
<1> QED
  BY <1>1, <1>2, <1>3, <1>7 DEF IInv, Agreement, HandAgreement

\* A call hands its task over.
LEMMA ExecuteStep ==
    ASSUME IInv, NEW task \in late, Execute(task)
    PROVE  IInv'
<1>1. task \in Tasks /\ queue \in Seq(Tasks)
  BY DEF IInv, TypeOK
<1>2. /\ Append(queue, task) \in Seq(Tasks)
      /\ \A i \in DOMAIN Append(queue, task) :
            Append(queue, task)[i] = task \/ (i \in DOMAIN queue /\ Append(queue, task)[i] = queue[i])
  <2>1. \A i \in 1..(Len(queue) + 1) : i = Len(queue) + 1 \/ i \in 1..Len(queue)
    BY <1>1, QueueAppend
  <2> QED
    BY <1>1, <2>1, QueueAppend
<1>3. TypeOK'
  BY <1>2 DEF IInv, TypeOK, loading, Execute
<1>4. Shapes' /\ ClearsLate'
  BY <1>2 DEF IInv, Shapes, ClearsLate, Shaped, Execute
<1>5. ASSUME NEW l \in Keys \ stale', Live(l)' PROVE Agreed(l)'
  BY <1>5, <1>1, TaskQueued DEF IInv, Agreement, Live, loading, Execute
<1>7. NotYet'
  BY DEF IInv, NotYet, loading, Execute
<1>8. ASSUME NEW l \in Keys \ stale', InHand(l)' PROVE Faithful(l)'
  <2>1. Faithful(l)
    BY <1>8 DEF IInv, HandAgreement, InHand, loading, Execute
  <2>2. ~Affects(task, l)
    BY <2>1 DEF Faithful, NoLate
  <2> QED
    BY <1>2, <2>1, <2>2, FaithfulKept DEF loading, Execute
<1> QED
  BY <1>3, <1>4, <1>5, <1>7, <1>8 DEF IInv, Agreement, HandAgreement

\* What is left of the queue when its first task is done.
LEMMA DoneStep ==
    ASSUME IInv, queue # <<>>, Done, UNCHANGED <<late, phase>>
    PROVE  /\ queue' \in Seq(Tasks) /\ copying' \in BOOLEAN /\ Shapes' /\ ClearsLate'
           /\ queue \in Seq(Tasks) /\ Head(queue) \in Tasks /\ Shaped(Head(queue))
<1>1. queue \in Seq(Tasks)
  BY DEF IInv, TypeOK
<1>2. copying' \in BOOLEAN
  BY Zenon DEF Done
<1>3. \A i \in DOMAIN Tail(queue) : i + 1 \in DOMAIN queue /\ Tail(queue)[i] = queue[i + 1]
  BY <1>1, QueueTail
<1>4. Shapes' /\ ClearsLate'
  BY <1>3 DEF IInv, Shapes, ClearsLate, Shaped, Done
<1> QED
  BY <1>1, <1>2, <1>4, QueueTail DEF IInv, Shapes, Done

\* The key is written.
LEMMA SaveStep == ASSUME IInv, SaveKey PROVE IInv'
<1>0. queue # <<>> /\ Done /\ Head(queue).op = "save" /\ UNCHANGED <<keys, late, phase, loading, stale>>
  BY DEF SaveKey, Running
<1>1. /\ queue' \in Seq(Tasks) /\ copying' \in BOOLEAN /\ Shapes' /\ ClearsLate'
      /\ queue \in Seq(Tasks) /\ Head(queue).key \in Keys /\ Head(queue).id \in Ids
  BY <1>0, DoneStep DEF Shaped
<1>2. TypeOK'
  BY <1>1 DEF IInv, TypeOK, loading, SaveKey, Written
<1>3. ASSUME NEW l \in Keys \ stale', Live(l)' PROVE Agreed(l)'
  <2>1. Agreed(l)
    BY <1>0, <1>3 DEF IInv, Agreement, Live, loading
  <2>2. Head(queue).key # None /\ Head(queue).id # None
    BY <1>1, PersistenceAssumption
  <2>3. IF Head(queue).key = l THEN file'[l] = Head(queue).id ELSE file'[l] = file[l]
    BY <1>1 DEF IInv, TypeOK, SaveKey, Written
  <2> QED
    BY <1>0, <1>1, <2>1, <2>2, <2>3, TaskDone DEF Done, Affects
<1>7. NotYet'
  BY <1>0 DEF IInv, NotYet, loading
<1>8. ASSUME NEW l \in Keys \ stale', InHand(l)' PROVE Faithful(l)'
  <2>1. Faithful(l)
    BY <1>0, <1>8 DEF IInv, HandAgreement, InHand, loading, SaveKey
  <2>2. ~Affects(Head(queue), l) /\ \A i \in DOMAIN queue' : \E j \in DOMAIN queue : queue'[i] = queue[j]
    BY <1>0, <1>1, <2>1, QueueTail DEF Faithful, Done
  <2>3. file'[l] = file[l]
    BY <1>1, <2>2 DEF IInv, TypeOK, Affects, SaveKey, Written
  <2> QED
    BY <1>0, <2>1, <2>2, <2>3, FaithfulKept DEF loading
<1> QED
  BY <1>1, <1>2, <1>3, <1>7, <1>8 DEF IInv, Agreement, HandAgreement

\* The rename failed and the copy has begun: the save is still the first task.
LEMMA RenameFailsStep == ASSUME IInv, RenameFails PROVE IInv'
<1>1. /\ queue \in Seq(Tasks) /\ 1 \in DOMAIN queue /\ Head(queue) = queue[1]
      /\ Head(queue).key \in Keys
  BY QueueTail DEF IInv, TypeOK, Shapes, Shaped, RenameFails, Running
<1>2. TypeOK'
  <2>1. copying' \in BOOLEAN /\ keybox' \in BOOLEAN
    BY Zenon DEF IInv, TypeOK, loading, RenameFails
  <2> QED
    BY <1>1, <2>1 DEF IInv, TypeOK, loading, RenameFails
<1>3. Shapes' /\ ClearsLate'
  BY DEF IInv, Shapes, ClearsLate, Shaped, RenameFails
<1>4. ASSUME NEW l \in Keys \ stale', Live(l)' PROVE Agreed(l)'
  <2>1. Agreed(l)
    BY <1>4 DEF IInv, Agreement, Live, loading, RenameFails
  <2>2. file'[l] = file[l] \/ Affects(queue[1], l)
    BY <1>1 DEF IInv, TypeOK, RenameFails, Affects
  <2> QED
    BY <1>1, <2>1, <2>2, FileTouched DEF RenameFails
<1>7. NotYet'
  BY DEF IInv, NotYet, loading, RenameFails
<1>8. ASSUME NEW l \in Keys \ stale', InHand(l)' PROVE Faithful(l)'
  <2>1. Faithful(l)
    BY <1>8 DEF IInv, HandAgreement, InHand, loading, RenameFails
  <2>2. file'[l] = file[l]
    BY <1>1, <2>1 DEF IInv, TypeOK, Faithful, Affects, RenameFails
  <2> QED
    BY <2>1, <2>2, FaithfulKept DEF loading, RenameFails
<1> QED
  BY <1>2, <1>3, <1>4, <1>7, <1>8 DEF IInv, Agreement, HandAgreement

\* The save failed: the key is stale.
LEMMA SaveFailsStep == ASSUME IInv, SaveFails PROVE IInv'
<1>0. queue # <<>> /\ Done /\ Head(queue).op = "save" /\ UNCHANGED <<keys, late, phase, loading>>
  BY DEF SaveFails, Running
<1>1. /\ queue' \in Seq(Tasks) /\ copying' \in BOOLEAN /\ Shapes' /\ ClearsLate'
      /\ queue \in Seq(Tasks) /\ Head(queue).key \in Keys
  BY <1>0, DoneStep DEF Shaped
<1>2. TypeOK'
  BY <1>1 DEF IInv, TypeOK, loading, SaveFails
<1>3. ASSUME NEW l \in Keys \ stale', Live(l)' PROVE Agreed(l)'
  <2>1. Agreed(l) /\ Head(queue).key # l /\ file'[l] = file[l]
    BY <1>0, <1>3 DEF IInv, Agreement, Live, loading, SaveFails
  <2> QED
    BY <1>0, <1>1, <2>1, TaskDone, PersistenceAssumption DEF Done, Affects
<1>7. NotYet'
  BY <1>0 DEF IInv, NotYet, loading
<1>8. ASSUME NEW l \in Keys \ stale', InHand(l)' PROVE Faithful(l)'
  <2>1. Faithful(l)
    BY <1>0, <1>8 DEF IInv, HandAgreement, InHand, loading, SaveFails
  <2>2. ~Affects(Head(queue), l) /\ \A i \in DOMAIN queue' : \E j \in DOMAIN queue : queue'[i] = queue[j]
    BY <1>0, <1>1, <2>1, QueueTail DEF Faithful, Done
  <2>3. file'[l] = file[l]
    BY <1>1, <2>2 DEF IInv, TypeOK, Affects, SaveFails
  <2> QED
    BY <1>0, <2>1, <2>2, <2>3, FaithfulKept DEF loading
<1> QED
  BY <1>1, <1>2, <1>3, <1>7, <1>8 DEF IInv, Agreement, HandAgreement

\* The file of the key is deleted.
LEMMA DeleteStep == ASSUME IInv, DeleteKey PROVE IInv'
<1>0. queue # <<>> /\ Done /\ Head(queue).op = "delete" /\ UNCHANGED <<keys, late, phase, loading, stale>>
  BY DEF DeleteKey, Running
<1>1. /\ queue' \in Seq(Tasks) /\ copying' \in BOOLEAN /\ Shapes' /\ ClearsLate'
      /\ queue \in Seq(Tasks) /\ Head(queue).key \in Keys /\ Head(queue).id = None
  BY <1>0, DoneStep DEF Shaped
<1>2. TypeOK'
  BY <1>1 DEF IInv, TypeOK, loading, DeleteKey
<1>3. ASSUME NEW l \in Keys \ stale', Live(l)' PROVE Agreed(l)'
  <2>1. Agreed(l)
    BY <1>0, <1>3 DEF IInv, Agreement, Live, loading
  <2>2. IF Head(queue).key = l THEN Unreadable(l)' ELSE file'[l] = file[l]
    BY <1>1 DEF IInv, TypeOK, DeleteKey, Unreadable
  <2> QED
    BY <1>0, <1>1, <2>1, <2>2, TaskDone, PersistenceAssumption DEF Done, Affects
<1>7. NotYet'
  BY <1>0 DEF IInv, NotYet, loading
<1>8. ASSUME NEW l \in Keys \ stale', InHand(l)' PROVE Faithful(l)'
  <2>1. Faithful(l)
    BY <1>0, <1>8 DEF IInv, HandAgreement, InHand, loading, DeleteKey
  <2>2. ~Affects(Head(queue), l) /\ \A i \in DOMAIN queue' : \E j \in DOMAIN queue : queue'[i] = queue[j]
    BY <1>0, <1>1, <2>1, QueueTail DEF Faithful, Done
  <2>3. file'[l] = file[l]
    BY <1>1, <2>2 DEF IInv, TypeOK, Affects, DeleteKey
  <2> QED
    BY <1>0, <2>1, <2>2, <2>3, FaithfulKept DEF loading
<1> QED
  BY <1>1, <1>2, <1>3, <1>7, <1>8 DEF IInv, Agreement, HandAgreement

\* The deletion failed: the key is stale.
LEMMA DeleteFailsStep == ASSUME IInv, DeleteFails PROVE IInv'
<1>0. queue # <<>> /\ Done /\ Head(queue).op = "delete" /\ UNCHANGED <<keys, late, phase, loading>>
  BY DEF DeleteFails, Running
<1>1. /\ queue' \in Seq(Tasks) /\ copying' \in BOOLEAN /\ Shapes' /\ ClearsLate'
      /\ queue \in Seq(Tasks) /\ Head(queue).key \in Keys
  BY <1>0, DoneStep DEF Shaped
<1>2. TypeOK'
  BY <1>1 DEF IInv, TypeOK, loading, DeleteFails
<1>3. ASSUME NEW l \in Keys \ stale', Live(l)' PROVE Agreed(l)'
  <2>1. Agreed(l) /\ Head(queue).key # l /\ file'[l] = file[l]
    BY <1>0, <1>3 DEF IInv, Agreement, Live, loading, DeleteFails
  <2> QED
    BY <1>0, <1>1, <2>1, TaskDone, PersistenceAssumption DEF Done, Affects
<1>7. NotYet'
  BY <1>0 DEF IInv, NotYet, loading
<1>8. ASSUME NEW l \in Keys \ stale', InHand(l)' PROVE Faithful(l)'
  <2>1. Faithful(l)
    BY <1>0, <1>8 DEF IInv, HandAgreement, InHand, loading, DeleteFails
  <2>2. ~Affects(Head(queue), l) /\ \A i \in DOMAIN queue' : \E j \in DOMAIN queue : queue'[i] = queue[j]
    BY <1>0, <1>1, <2>1, QueueTail DEF Faithful, Done
  <2>3. file'[l] = file[l]
    BY <1>1, <2>2 DEF IInv, TypeOK, Affects, DeleteFails
  <2> QED
    BY <1>0, <2>1, <2>2, <2>3, FaithfulKept DEF loading
<1> QED
  BY <1>1, <1>2, <1>3, <1>7, <1>8 DEF IInv, Agreement, HandAgreement

\* One file of the directory is gone: the clearing is still the first task.
LEMMA ClearOneStep == ASSUME IInv, NEW k \in Keys, ClearOne(k) PROVE IInv'
<1>1. 1 \in DOMAIN queue /\ queue[1].key = None
  BY QueueTail DEF IInv, TypeOK, Shapes, Shaped, ClearOne, Running
<1>2. TypeOK'
  BY DEF IInv, TypeOK, loading, ClearOne
<1>3. Shapes' /\ ClearsLate'
  BY DEF IInv, Shapes, ClearsLate, Shaped, ClearOne
<1>4. ASSUME NEW l \in Keys \ stale', Live(l)' PROVE Agreed(l)'
  <2>1. Agreed(l)
    BY <1>4 DEF IInv, Agreement, Live, loading, ClearOne
  <2>2. Affects(queue[1], l)
    BY <1>1 DEF Affects
  <2> QED
    BY <1>1, <2>1, <2>2, FileTouched DEF ClearOne
<1>7. NotYet'
  BY DEF IInv, NotYet, loading, ClearOne
<1>8. ASSUME NEW l \in Keys \ stale', InHand(l)' PROVE Faithful(l)'
  <2>1. Faithful(l)
    BY <1>8 DEF IInv, HandAgreement, InHand, loading, ClearOne
  <2>2. file'[l] = file[l]
    BY <1>1, <2>1 DEF IInv, TypeOK, Faithful, Affects, ClearOne
  <2> QED
    BY <2>1, <2>2, FaithfulKept DEF loading, ClearOne
<1> QED
  BY <1>2, <1>3, <1>4, <1>7, <1>8 DEF IInv, Agreement, HandAgreement

\* The directory is gone.
LEMMA ClearDoneStep == ASSUME IInv, ClearDone PROVE IInv'
<1>0. queue # <<>> /\ Done /\ Head(queue).op = "clear" /\ UNCHANGED <<keys, late, file, phase, loading>>
  BY DEF ClearDone, Running
<1>1. /\ queue' \in Seq(Tasks) /\ copying' \in BOOLEAN /\ Shapes' /\ ClearsLate'
      /\ queue \in Seq(Tasks) /\ Head(queue).id = None
  BY <1>0, DoneStep DEF Shaped
<1>2. TypeOK'
  BY <1>1 DEF IInv, TypeOK, loading, ClearDone
<1>3. ASSUME NEW l \in Keys \ stale', Live(l)' PROVE Agreed(l)'
  <2>1. Agreed(l)
    BY <1>0, <1>3 DEF IInv, Agreement, Live, loading, ClearDone
  <2>2. file'[l] = file[l] /\ Unreadable(l)'
    BY <1>3 DEF ClearDone, Unreadable
  <2> QED
    BY <1>0, <1>1, <2>1, <2>2, TaskDone DEF Done
<1>7. NotYet'
  BY <1>0 DEF IInv, NotYet, loading
<1>8. ASSUME NEW l \in Keys \ stale', InHand(l)' PROVE Faithful(l)'
  <2>1. Faithful(l)
    BY <1>0, <1>8 DEF IInv, HandAgreement, InHand, loading, ClearDone
  <2>2. ~Affects(Head(queue), l) /\ \A i \in DOMAIN queue' : \E j \in DOMAIN queue : queue'[i] = queue[j]
    BY <1>0, <1>1, <2>1, QueueTail DEF Faithful, Done
  <2>3. file'[l] = file[l]
    BY <1>1, <2>2 DEF IInv, TypeOK, Affects, ClearDone
  <2> QED
    BY <1>0, <2>1, <2>2, <2>3, FaithfulKept DEF loading
<1> QED
  BY <1>1, <1>2, <1>3, <1>7, <1>8 DEF IInv, Agreement, HandAgreement

\* The daemon is killed, with its map and its tasks.
LEMMA KilledStep == ASSUME IInv, Killed PROVE IInv'
<1>1. TypeOK'
  <2>1. copying' \in BOOLEAN /\ keybox' \in BOOLEAN
    BY Zenon DEF Killed
  <2> QED
    BY <2>1 DEF IInv, TypeOK, Killed
<1>2. Shapes' /\ ClearsLate' /\ NotYet' /\ Agreement' /\ HandAgreement'
  BY DEF Killed, Shapes, ClearsLate, NotYet, Agreement, Live, HandAgreement, InHand
<1> QED
  BY <1>1, <1>2 DEF IInv

\* The hooks run again; nothing is read.
LEMMA RegisteredStep == ASSUME IInv, Registered PROVE IInv'
<1>1. TypeOK'
  BY PersistenceAssumption DEF IInv, TypeOK, Registered
<1>2. Shapes' /\ ClearsLate' /\ NotYet' /\ Agreement' /\ HandAgreement'
  BY DEF IInv, Registered, Shapes, Shaped, ClearsLate, NotYet, Agreement, Live, HandAgreement, InHand
<1> QED
  BY <1>1, <1>2 DEF IInv

\* A file is read: with no task on its way it cannot change before the put.
LEMMA ReadStep == ASSUME IInv, NEW k \in Keys, ReadFile(k) PROVE IInv'
<1>1. TypeOK'
  BY DEF IInv, TypeOK, ReadFile
<1>2. Shapes' /\ ClearsLate' /\ NotYet'
  BY DEF IInv, Shapes, ClearsLate, Shaped, NotYet, ReadFile
<1>3. Agreement'
  BY DEF Agreement, Live, ReadFile
<1>4. ASSUME NEW l \in Keys \ stale', InHand(l)' PROVE Faithful(l)'
  <2>1. CASE l = k
    <3>1. \A task \in Pending : task.key # k
      BY <2>1, <1>4 DEF ReadFile, ReadRaces
    <3>2. NoLate(k) /\ \A i \in DOMAIN queue : ~Affects(queue[i], k)
      BY <3>1 DEF IInv, ClearsLate, ReadFile, Pending, NoLate, Affects
    <3>3. IF read'[k] = None THEN Unreadable(k)' ELSE file'[k] = read'[k]
      BY PersistenceAssumption DEF IInv, TypeOK, ReadFile, Unreadable
    <3> QED
      BY <2>1, <3>2, <3>3 DEF Faithful, NoLate, Affects, ReadFile
  <2>2. CASE l # k
    <3>1. Faithful(l) /\ read'[l] = read[l]
      BY <2>2, <1>4 DEF IInv, TypeOK, HandAgreement, InHand, ReadFile
    <3> QED
      BY <3>1, FaithfulKept DEF ReadFile
  <2> QED
    BY <2>1, <2>2
<1> QED
  BY <1>1, <1>2, <1>3, <1>4 DEF IInv, HandAgreement

\* loadAll has read every file: every key is in hand.
LEMMA LoadAllStep == ASSUME IInv, LoadAllReturns PROVE IInv'
<1>1. TypeOK'
  BY DEF IInv, TypeOK, LoadAllReturns
<1>2. Shapes' /\ ClearsLate' /\ NotYet'
  BY DEF IInv, Shapes, ClearsLate, Shaped, NotYet, LoadAllReturns
<1>3. Agreement'
  BY DEF Agreement, Live, LoadAllReturns
<1>4. ASSUME NEW l \in Keys \ stale' PROVE Faithful(l)'
  <2>1. Faithful(l)
    BY <1>4 DEF IInv, HandAgreement, InHand, LoadAllReturns
  <2> QED
    BY <2>1, FaithfulKept DEF LoadAllReturns
<1> QED
  BY <1>1, <1>2, <1>3, <1>4 DEF IInv, HandAgreement

\* What was read is put: the map holds what the file does.
LEMMA RestoreStep == ASSUME IInv, NEW k \in Keys, RestoreKey(k) PROVE IInv'
<1>1. TypeOK'
  BY DEF IInv, TypeOK, RestoreKey
<1>2. Shapes' /\ ClearsLate' /\ NotYet'
  BY DEF IInv, TypeOK, Shapes, ClearsLate, Shaped, NotYet, RestoreKey
<1>3. ASSUME NEW l \in Keys \ stale', Live(l)' PROVE Agreed(l)'
  <2>1. CASE l = k
    <3>1. Faithful(k) /\ keys[k] = None
      BY <2>1, <1>3 DEF IInv, HandAgreement, InHand, NotYet, RestoreKey
    <3>2. keys'[k] = read[k]
      BY <3>1 DEF IInv, TypeOK, RestoreKey
    <3> QED
      BY <2>1, <3>1, <3>2
         DEF Faithful, Agreed, LateNewest, QueueNewest, FileNewest, NoLate, Affects, Unreadable, RestoreKey
  <2>2. CASE l # k
    <3>1. Agreed(l) /\ keys'[l] = keys[l]
      BY <2>2, <1>3 DEF IInv, TypeOK, Agreement, Live, RestoreKey
    <3> QED
      BY <3>1, FileTouched DEF RestoreKey
  <2> QED
    BY <2>1, <2>2
<1>4. ASSUME NEW l \in Keys \ stale', InHand(l)' PROVE Faithful(l)'
  <2>1. Faithful(l)
    BY <1>4 DEF IInv, HandAgreement, InHand, RestoreKey
  <2> QED
    BY <2>1, FaithfulKept DEF RestoreKey
<1> QED
  BY <1>1, <1>2, <1>3, <1>4 DEF IInv, Agreement, HandAgreement

\* Every key that was read is in the map.
LEMMA LoadedStep == ASSUME IInv, LoadPersistedKeysReturns PROVE IInv'
<1>1. TypeOK'
  BY DEF IInv, TypeOK, loading, LoadPersistedKeysReturns
<1>2. Shapes' /\ ClearsLate' /\ NotYet' /\ HandAgreement'
  BY DEF IInv, Shapes, ClearsLate, Shaped, NotYet, HandAgreement, InHand, loading, LoadPersistedKeysReturns
<1>3. ASSUME NEW l \in Keys \ stale', Live(l)' PROVE Agreed(l)'
  <2>1. Agreed(l)
    BY <1>3 DEF IInv, Agreement, Live, LoadPersistedKeysReturns
  <2> QED
    BY <2>1, FileTouched DEF LoadPersistedKeysReturns
<1> QED
  BY <1>1, <1>2, <1>3 DEF IInv, Agreement

\* The configuration is read, and a keybox clears as UpdateKeyBox does.
LEMMA InitializeStep ==
    ASSUME IInv, NEW exists \in BOOLEAN, NEW parsed \in BOOLEAN, Initialize(exists, parsed)
    PROVE  IInv'
<1>1. TypeOK'
  <2>1. copying' \in BOOLEAN /\ keybox' \in BOOLEAN
    BY Zenon DEF IInv, TypeOK, loading, Initialize
  <2>2. CASE exists
    BY <2>1, <2>2, TaskShapes DEF IInv, TypeOK, loading, Initialize
  <2>3. CASE ~exists
    BY <2>1, <2>3 DEF IInv, TypeOK, loading, Initialize
  <2> QED
    BY <2>2, <2>3
<1>2. Shapes' /\ ClearsLate'
  <2>1. CASE exists
    BY <2>1, TaskShapes DEF IInv, Shapes, ClearsLate, Shaped, Initialize
  <2>2. CASE ~exists
    BY <2>2 DEF IInv, Shapes, ClearsLate, Shaped, Initialize
  <2> QED
    BY <2>1, <2>2
<1>3. ASSUME NEW l \in Keys \ stale', Live(l)' PROVE Agreed(l)'
  <2>1. CASE exists
    <3>1. NoLate(l)
      BY <1>3, <2>1 DEF Initialize, Overlapped, NoLate, Affects
    <3> QED
      BY <2>1, <3>1, TaskAdded, TaskShapes DEF Initialize, Affects
  <2>2. CASE ~exists
    <3>1. Agreed(l)
      BY <1>3, <2>2 DEF IInv, Agreement, Live, loading, Initialize
    <3> QED
      BY <2>2, <3>1, FileTouched DEF Initialize
  <2> QED
    BY <2>1, <2>2
<1>7. NotYet' /\ HandAgreement'
  BY DEF NotYet, HandAgreement, InHand, Initialize
<1> QED
  BY <1>1, <1>2, <1>3, <1>7 DEF IInv, Agreement, HandAgreement

\* Nothing happens.
LEMMA StutterStep == ASSUME IInv, UNCHANGED vars PROVE IInv'
<1>1. TypeOK' /\ Shapes' /\ ClearsLate' /\ NotYet'
  BY DEF IInv, TypeOK, Shapes, Shaped, ClearsLate, NotYet, vars, loading
<1>2. Agreement'
  BY DEF IInv, Agreement, Live, Agreed, LateNewest, QueueNewest, FileNewest, NoLate, Affects, Unreadable,
         vars, loading
<1>3. HandAgreement'
  BY DEF IInv, HandAgreement, InHand, Faithful, NoLate, Affects, Unreadable, vars, loading
<1> QED
  BY <1>1, <1>2, <1>3 DEF IInv

LEMMA NextIInv == IInv /\ [Next]_vars => IInv'
<1> SUFFICES ASSUME IInv, [Next]_vars PROVE IInv'
  OBVIOUS
<1>1. ASSUME NEW k \in Keys, NEW id \in Ids, StoreGeneratedKey(k, id) PROVE IInv'
  BY <1>1, StoreStep
<1>2. ASSUME NEW k \in Keys, CleanupKey(k) PROVE IInv'
  BY <1>2, CleanupStep
<1>3. ASSUME NEW k \in Keys, ClearInMemory(k) PROVE IInv'
  BY <1>3, ClearInMemoryStep
<1>4. ASSUME NEW parsed \in BOOLEAN, UpdateKeyBox(parsed) PROVE IInv'
  BY <1>4, UpdateKeyBoxStep
<1>5. ASSUME NEW task \in late, Execute(task) PROVE IInv'
  BY <1>5, ExecuteStep
<1>6. CASE PersistThread
  BY <1>6, SaveStep, RenameFailsStep, SaveFailsStep, DeleteStep, DeleteFailsStep, ClearOneStep, ClearDoneStep
     DEF PersistThread
<1>7. CASE Killed \/ Registered \/ LoadAllReturns \/ LoadPersistedKeysReturns
  BY <1>7, KilledStep, RegisteredStep, LoadAllStep, LoadedStep
<1>10. ASSUME NEW k \in Keys, ReadFile(k) \/ RestoreKey(k) PROVE IInv'
  BY <1>10, ReadStep, RestoreStep
<1>8. ASSUME NEW exists \in BOOLEAN, NEW parsed \in BOOLEAN, Initialize(exists, parsed) PROVE IInv'
  BY <1>8, InitializeStep
<1>9. CASE UNCHANGED vars
  BY <1>9, StutterStep
<1> QED
  BY <1>1, <1>2, <1>3, <1>4, <1>5, <1>6, <1>7, <1>8, <1>9, <1>10 DEF Next

LEMMA IInvHolds == Spec => []IInv
  BY InitIInv, NextIInv, PTL DEF Spec

-----------------------------------------------------------------------------
(* The results *)

\* TypeOK holds always: whatever is loaded after a kill in the middle of a
\* write, the map holds generations of keys and never a torn file.
THEOREM TypeCorrect == Spec => []TypeOK
<1>1. IInv => TypeOK
  BY DEF IInv
<1> QED
  BY <1>1, IInvHolds, PTL

\* DiskAgrees holds always: once the tasks of saveKey, deleteKey and clearAll
\* are done, the files are the keys of the map, except for the stale ones.
THEOREM DiskAgreesTheorem == Spec => []DiskAgrees
<1>1. IInv => DiskAgrees
  <2> SUFFICES ASSUME IInv, phase = "ready", Pending = {}, NEW k \in Keys \ stale
               PROVE  IF keys[k] = None THEN Unreadable(k) ELSE file[k] = keys[k]
    BY DEF DiskAgrees
  <2>1. Agreed(k)
    BY DEF IInv, Agreement, Live
  <2>2. NoLate(k) /\ DOMAIN queue = {}
    BY DEF Pending, NoLate
  <2> QED
    BY <2>1, <2>2 DEF Agreed, FileNewest
<1> QED
  BY <1>1, IInvHolds, PTL
=============================================================================
