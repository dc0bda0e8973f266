-------------------------- MODULE MetaHandlerProof --------------------------
(***************************************************************************)
(* Proofs about MetaHandler, for any number of executors, shuffles and      *)
(* devices.                                                                *)
(***************************************************************************)
EXTENDS MetaHandler, DataLemmas

\* The labels at which an executor has the file lock.
Locked == Calls \cup {"update", "release"}
Labels == Locked \cup {"idle", "lock", "return", "dead"}

Job == [pc : Labels, op : Calls \cup {"none"}, id : ShuffleIds \cup {"none"},
        dev : Devices \cup {NoDevice}, snap : [Devices -> Nat],
        res : Devices \cup {NoDevice}, calls : Nat]

MetaType ==
  /\ metastore \in [ShuffleIds -> Devices \cup {NoDevice}]
  /\ mount_count \in [Devices -> Nat]
  /\ flock \in Executors \cup {NoOwner}
  /\ job \in [Executors -> Job]

\* A call that has not reached the database has its arguments.
HasArguments ==
  \A e \in Executors :
    job[e].pc \in Calls \cup {"lock"} => /\ job[e].op \in Calls
                                         /\ job[e].id \in ShuffleIds
                                         /\ job[e].dev \in Devices

\* Only the owner of the file lock is between lock() and release().
LockHeld == \A e \in Executors : job[e].pc \in Locked => flock = e

\* What getUnusedDevice has read is still what the table holds when it writes.
SnapFresh ==
  \A e \in Executors : job[e].pc = "update" => job[e].snap = mount_count

MetaInv == MetaType /\ HasArguments /\ LockHeld /\ SnapFresh /\ Balanced

\* The first state has the invariant.
LEMMA InitMeta == MetaInit => MetaInv
BY MetaAssumption
   DEF MetaInit, MetaInv, MetaType, HasArguments, LockHeld, SnapFresh, Balanced, IdleJob,
       NoCounts, Job, Labels, Locked, Calls

\* One executor's call goes on, from a label to a label: what has to be shown
\* of a step that leaves the devices table alone.
LEMMA OneJob ==
  ASSUME MetaInv, NEW e \in Executors, NEW r \in Job,
         job' = [job EXCEPT ![e] = r],
         metastore' \in [ShuffleIds -> Devices \cup {NoDevice}],
         UNCHANGED mount_count,
         flock' \in Executors \cup {NoOwner},
         r.pc \in Calls \cup {"lock"} => /\ r.op \in Calls
                                        /\ r.id \in ShuffleIds
                                        /\ r.dev \in Devices,
         r.pc \in Locked => flock' = e,
         flock' = flock \/ flock = NoOwner \/ flock = e,
         r.pc = "update" => r.snap = mount_count
  PROVE  MetaInv'
<1> job \in [Executors -> Job]
  BY DEF MetaInv, MetaType
<1>1. /\ job'[e] = r
      /\ \A x \in Executors : x # e => job'[x] = job[x]
  OBVIOUS
<1>2. MetaType'
  BY DEF MetaInv, MetaType
<1>3. HasArguments'
  BY <1>1 DEF MetaInv, HasArguments
<1>4. LockHeld'
  BY <1>1, MetaAssumption DEF MetaInv, LockHeld
<1>5. SnapFresh'
  BY <1>1 DEF MetaInv, SnapFresh
<1>6. Balanced'
  BY DEF MetaInv, Balanced
<1>7. QED
  BY <1>2, <1>3, <1>4, <1>5, <1>6 DEF MetaInv

\* FirstUnused and MinCount name devices of the list.
LEMMA ChoicesAreDevices ==
  ASSUME NEW snap
  PROVE  FirstUnused(snap) \subseteq Devices /\ MinCount(snap) \subseteq Devices
BY DEF FirstUnused, MinCount, Devices

\* A call that moves to another label is still a call.
LEMMA JobMoves ==
  ASSUME NEW j \in Job, NEW l \in Labels
  PROVE  [j EXCEPT !.pc = l] \in Job
BY DEF Job

\* So is one that also has its result.
LEMMA JobResult ==
  ASSUME NEW j \in Job, NEW l \in Labels, NEW d \in Devices \cup {NoDevice}
  PROVE  [j EXCEPT !.pc = l, !.res = d] \in Job
BY DEF Job

\* So is one that has read the devices table.
LEMMA JobSnap ==
  ASSUME NEW j \in Job, NEW l \in Labels, NEW m \in [Devices -> Nat]
  PROVE  [j EXCEPT !.pc = l, !.snap = m] \in Job
BY DEF Job

\* The labels of a call.
LEMMA LabelNames ==
  /\ Calls \subseteq Labels
  /\ "update" \in Labels /\ "release" \in Labels /\ "return" \in Labels
  /\ "return" \notin Locked \cup Calls \cup {"lock", "update"}
  /\ "release" \notin Calls \cup {"lock", "update"}
  /\ "update" \notin Calls \cup {"lock"}
BY DEF Labels, Locked, Calls

\* Every step of the program keeps the invariant.
LEMMA NextMeta ==
  ASSUME MetaInv, [MetaNext]_mvars
  PROVE  MetaInv'
<1> USE MetaAssumption DEF MetaInv
<1>1. ASSUME NEW e \in Executors, NEW op \in Calls, NEW s \in ShuffleIds,
             NEW d \in Devices, Call(e, op, s, d)
      PROVE  MetaInv'
  <2> DEFINE r == NewJob(op, s, d, job[e].calls + 1)
  <2>1. r \in Job
    <3>1. job[e].calls + 1 \in Nat /\ NoCounts \in [Devices -> Nat]
      BY DEF MetaType, Job, NoCounts
    <3>2. "lock" \in Labels
      BY DEF Labels
    <3>3. QED
      BY <3>1, <3>2 DEF NewJob, Job
  <2>2. job' = [job EXCEPT ![e] = r]
    BY <1>1 DEF Call
  <2>3. QED
    BY <1>1, <2>1, <2>2, OneJob
       DEF MetaType, Call, NewJob, Locked, Calls
<1>2. ASSUME NEW e \in Executors, Acquire(e)
      PROVE  MetaInv'
  <2> DEFINE r == [job[e] EXCEPT !.pc = job[e].op]
  <2>1. r \in Job
    <3>1. job[e] \in Job /\ job[e].op \in Calls
      BY <1>2 DEF MetaType, HasArguments, Acquire
    <3>2. job[e].op \in Labels
      BY <3>1, LabelNames
    <3> QED  BY <3>1, <3>2, JobMoves
  <2>2. job' = [job EXCEPT ![e] = r]
    BY <1>2 DEF MetaType, Job, Acquire, IdleJob
  <2>3. /\ r.pc \in Calls /\ r.op \in Calls
        /\ r.id \in ShuffleIds /\ r.dev \in Devices
        /\ r.pc # "update"
    BY <1>2 DEF MetaType, HasArguments, Acquire, Job, Calls
  <2>4. QED
    BY <1>2, <2>1, <2>2, <2>3, OneJob DEF MetaType, Acquire
<1>3. ASSUME NEW e \in Executors, LockFails(e)
      PROVE  MetaInv'
  <2> DEFINE r == [job[e] EXCEPT !.pc = "return"]
  <2>1. r \in Job
    BY JobMoves, LabelNames DEF MetaType
  <2>2. job' = [job EXCEPT ![e] = r]
    BY <1>3 DEF MetaType, Job, LockFails, IdleJob
  <2>3. r.pc = "return"
    BY DEF MetaType, Job
  <2>4. /\ metastore' \in [ShuffleIds -> Devices \cup {NoDevice}]
        /\ mount_count' = mount_count
        /\ flock' \in Executors \cup {NoOwner} /\ flock' = flock
    BY <1>3 DEF MetaType, LockFails
  <2> HIDE DEF r
  <2> QED  BY <2>1, <2>2, <2>3, <2>4, OneJob, LabelNames
<1>4. ASSUME NEW e \in Executors, InsertRecord(e)
      PROVE  MetaInv'
  <2> DEFINE r == [job[e] EXCEPT !.pc = "release"]
  <2>1. r \in Job
    BY JobMoves, LabelNames DEF MetaType
  <2>2. job' = [job EXCEPT ![e] = r]
    BY <1>4 DEF MetaType, Job, InsertRecord, IdleJob
  <2>3. metastore' \in [ShuffleIds -> Devices \cup {NoDevice}]
    BY <1>4 DEF MetaType, HasArguments, InsertRecord, Inserted, Calls
  <2>4. r.pc = "release" /\ flock = e
    BY <1>4 DEF MetaType, Job, LockHeld, InsertRecord, Locked, Calls
  <2>5. QED
    BY <1>4, <2>1, <2>2, <2>3, <2>4, OneJob DEF MetaType, InsertRecord, Calls
<1>5. ASSUME NEW e \in Executors, GetShuffleDevice(e)
      PROVE  MetaInv'
  <2> DEFINE r == [job[e] EXCEPT !.pc = "release", !.res = metastore[job[e].id]]
  <2>1. r \in Job
    <3>1. job[e] \in Job /\ job[e].id \in ShuffleIds
      BY <1>5 DEF MetaType, HasArguments, GetShuffleDevice, Calls
    <3>2. metastore[job[e].id] \in Devices \cup {NoDevice}
      BY <3>1 DEF MetaType
    <3> QED  BY <3>1, <3>2, JobResult, LabelNames
  <2>2. job' = [job EXCEPT ![e] = r]
    BY <1>5 DEF MetaType, Job, GetShuffleDevice, IdleJob
  <2>3. r.pc = "release" /\ flock = e
    BY <1>5 DEF MetaType, Job, LockHeld, GetShuffleDevice, Locked, Calls
  <2>4. /\ metastore' \in [ShuffleIds -> Devices \cup {NoDevice}]
        /\ mount_count' = mount_count
        /\ flock' \in Executors \cup {NoOwner} /\ flock' = flock
    BY <1>5 DEF MetaType, GetShuffleDevice
  <2> HIDE DEF r
  <2> QED  BY <2>1, <2>2, <2>3, <2>4, OneJob, LabelNames
<1>6. ASSUME NEW e \in Executors, SelectDevices(e)
      PROVE  MetaInv'
  <2> DEFINE r == [job[e] EXCEPT !.pc = "update", !.snap = mount_count]
  <2>1. r \in Job
    <3>1. job[e] \in Job /\ mount_count \in [Devices -> Nat]
      BY DEF MetaType
    <3> QED  BY <3>1, JobSnap, LabelNames
  <2>2. job' = [job EXCEPT ![e] = r]
    BY <1>6 DEF MetaType, Job, SelectDevices, IdleJob
  <2>3. r.pc = "update" /\ r.snap = mount_count /\ flock = e
    BY <1>6 DEF MetaType, Job, LockHeld, SelectDevices, Locked, Calls
  <2>4. /\ metastore' \in [ShuffleIds -> Devices \cup {NoDevice}]
        /\ mount_count' = mount_count
        /\ flock' \in Executors \cup {NoOwner} /\ flock' = flock
    BY <1>6 DEF MetaType, SelectDevices
  <2> HIDE DEF r
  <2> QED  BY <2>1, <2>2, <2>3, <2>4, OneJob, LabelNames
<1>7. ASSUME NEW e \in Executors, UpdateDevices(e)
      PROVE  MetaInv'
  <2>1. job[e].snap = mount_count /\ flock = e
    BY <1>7 DEF UpdateDevices, SnapFresh, LockHeld, Locked
  <2>2. PICK d \in Devices :
          /\ \/ /\ mount_count[d] = 0
                /\ mount_count' = [mount_count EXCEPT ![d] = 1]
             \/ /\ \A x \in Devices : mount_count[d] <= mount_count[x]
                /\ mount_count' = [mount_count EXCEPT ![d] = @ + 1]
          /\ job' = [job EXCEPT ![e].pc = "release", ![e].res = d]
    <3>1. CASE \E d \in FirstUnused(job[e].snap) :
                 /\ mount_count' = [mount_count EXCEPT ![d] = IF @ = 0 THEN 1 ELSE @]
                 /\ job' = [job EXCEPT ![e].pc = "release", ![e].res = d]
      <4>1. PICK d \in FirstUnused(job[e].snap) :
                 /\ mount_count' = [mount_count EXCEPT ![d] = IF @ = 0 THEN 1 ELSE @]
                 /\ job' = [job EXCEPT ![e].pc = "release", ![e].res = d]
        BY <3>1
      <4>2. d \in Devices /\ mount_count[d] = 0
        BY <2>1, ChoicesAreDevices DEF FirstUnused
      <4>3. QED
        BY <4>1, <4>2
    <3>2. CASE \E d \in MinCount(job[e].snap) :
                 /\ mount_count' = [mount_count EXCEPT ![d] = job[e].snap[d] + 1]
                 /\ job' = [job EXCEPT ![e].pc = "release", ![e].res = d]
      BY <3>2, <2>1 DEF MinCount
    <3>3. QED
      BY <1>7, <3>1, <3>2 DEF UpdateDevices
  <2> DEFINE r == [job[e] EXCEPT !.pc = "release", !.res = d]
  <2>3. r \in Job
    <3>1. job[e] \in Job /\ d \in Devices \cup {NoDevice}
      BY DEF MetaType
    <3> QED  BY <3>1, JobResult, LabelNames
  <2>4. /\ job' = [job EXCEPT ![e] = r]
        /\ job'[e].pc = "release"
        /\ \A x \in Executors : x # e => job'[x] = job[x]
    <3>1. job \in [Executors -> Job] /\ DOMAIN job = Executors
      BY DEF MetaType
    <3>2. job[e] \in Job
      BY <3>1
    <3>3. job' = [job EXCEPT ![e] = r]
      BY <2>2, <3>1
    <3>4. r.pc = "release"
      BY <3>2 DEF Job
    <3> QED  BY <3>1, <3>3, <3>4
  <2>5. MetaType'
    <3>1. mount_count' \in [Devices -> Nat]
      BY <2>2 DEF MetaType
    <3>2. job' \in [Executors -> Job]
      BY <2>3, <2>4 DEF MetaType
    <3>3. QED
      BY <1>7, <3>1, <3>2 DEF MetaType, UpdateDevices
  <2>6. HasArguments'
    BY <2>4 DEF HasArguments, Calls
  <2>7. LockHeld'
    BY <1>7, <2>1, <2>4 DEF LockHeld, UpdateDevices
  <2>8. SnapFresh'
    BY <1>7, <2>1, <2>4 DEF LockHeld, SnapFresh, Locked
  <2>9. Balanced'
    <3>1. mount_count \in [Devices -> Nat] /\ Balanced
      BY DEF MetaType
    <3>2. CASE mount_count[d] = 0 /\ mount_count' = [mount_count EXCEPT ![d] = 1]
      BY <3>1, <3>2 DEF Balanced
    <3>3. CASE /\ \A x \in Devices : mount_count[d] <= mount_count[x]
               /\ mount_count' = [mount_count EXCEPT ![d] = @ + 1]
      BY <3>1, <3>3 DEF Balanced
    <3>4. QED
      BY <2>2, <3>2, <3>3
  <2>10. QED
    BY <2>5, <2>6, <2>7, <2>8, <2>9
<1>8. ASSUME NEW e \in Executors, Release(e)
      PROVE  MetaInv'
  <2> DEFINE r == [job[e] EXCEPT !.pc = "return"]
  <2>1. r \in Job
    BY <1>8 DEF MetaType, Job, Labels, Locked, Calls
  <2>2. job' = [job EXCEPT ![e] = r]
    BY <1>8 DEF MetaType, Job, Release, IdleJob
  <2>3. flock = e /\ flock' = NoOwner
    BY <1>8 DEF LockHeld, Release, Locked
  <2>4. /\ metastore' \in [ShuffleIds -> Devices \cup {NoDevice}]
        /\ UNCHANGED mount_count
    BY <1>8 DEF MetaType, Release
  <2>5. r.pc = "return"
    BY <1>8 DEF MetaType, Job
  <2>6. r.pc \notin Locked /\ r.pc \notin Calls \cup {"lock"} /\ r.pc # "update"
    BY <2>5 DEF Locked, Calls
  <2> HIDE DEF r
  <2>7. QED
    BY <2>1, <2>2, <2>3, <2>4, <2>6, OneJob
<1>9. ASSUME NEW e \in Executors, Return(e)
      PROVE  MetaInv'
  <2> DEFINE r == IdleJob(job[e].calls)
  <2>1. r \in Job
    BY <1>9 DEF MetaType, IdleJob, NoCounts, Job, Labels, Locked, Calls
  <2>2. job' = [job EXCEPT ![e] = r]
    BY <1>9 DEF MetaType, Job, Return, IdleJob
  <2>3. QED
    BY <1>9, <2>1, <2>2, OneJob
       DEF MetaType, Return, IdleJob, Locked, Calls
<1>10. ASSUME NEW e \in Executors, Exit(e)
      PROVE  MetaInv'
  <2> DEFINE r == [IdleJob(job[e].calls) EXCEPT !.pc = "dead"]
  <2>1. r \in Job
    BY <1>10 DEF MetaType, IdleJob, NoCounts, Job, Labels, Locked, Calls
  <2>2. job' = [job EXCEPT ![e] = r]
    BY <1>10 DEF MetaType, Job, Exit, IdleJob
  <2>3. QED
    BY <1>10, <2>1, <2>2, OneJob
       DEF MetaType, Exit, IdleJob, Locked, Calls
<1>11. CASE UNCHANGED mvars
  BY <1>11 DEF mvars, MetaType, HasArguments, LockHeld, SnapFresh, Balanced
<1>12. QED
  BY <1>1, <1>2, <1>3, <1>4, <1>5, <1>6, <1>7, <1>8, <1>9, <1>10, <1>11
     DEF MetaNext, Proceed

\* The devices are handed out evenly, whatever the number of executors and
\* devices: the file lock keeps the counts that getUnusedDevice has read valid
\* until it writes.
THEOREM DevicesBalanced == MetaSpec => []Balanced
<1>1. MetaInv => Balanced
  BY DEF MetaInv
<1>2. QED
  BY InitMeta, NextMeta, <1>1, PTL DEF MetaSpec

-----------------------------------------------------------------------------
(***************************************************************************)
(* Executors agree on the device of a shuffle.                             *)
(***************************************************************************)
\* A call j has the answer that the table m gives: what getShuffleDevice has
\* read is still the row of its shuffle, also after the lock was released.
Answer(j, m) ==
  /\ j.pc \in Calls => j.op = j.pc
  /\ j.pc = "update" => j.op = "getUnusedDevice"
  /\ j.op = "getShuffleDevice" /\ j.res # NoDevice =>
       j.id \in ShuffleIds /\ m[j.id] = j.res

\* What executors were told are rows of the table m.
Rows(t, m) ==
  \A x \in t : x[1] \in ShuffleIds /\ x[2] # NoDevice /\ m[x[1]] = x[2]

AnswerInv == /\ \A e \in Executors : Answer(job[e], metastore)
             /\ Rows(told, metastore)

\* The row of a shuffle never changes, whoever inserts what.
LEMMA RowsStay ==
  ASSUME MetaInv, [MetaNext]_mvars, NEW s \in ShuffleIds,
         metastore[s] # NoDevice
  PROVE  metastore'[s] = metastore[s]
<1>1. metastore \in [ShuffleIds -> Devices \cup {NoDevice}]
  BY DEF MetaInv, MetaType
<1>2. CASE \E e \in Executors : InsertRecord(e)
  BY <1>1, <1>2 DEF InsertRecord, Inserted
<1>3. CASE UNCHANGED metastore
  BY <1>3
<1> QED
  BY <1>2, <1>3
     DEF MetaNext, Proceed, mvars, Call, Acquire, LockFails, GetShuffleDevice,
         SelectDevices, UpdateDevices, Release, Return, Exit

\* So an answer stays true while the others go on.
LEMMA AnswerStays ==
  ASSUME MetaInv, [MetaNext]_mvars
  PROVE  /\ \A j : Answer(j, metastore) => Answer(j, metastore')
         /\ Rows(told, metastore) => Rows(told, metastore')
  BY RowsStay DEF Answer, Rows

\* What one step does to the calls: all others are as before, and the call
\* of e has a true answer again.
LEMMA OneAnswer ==
  ASSUME MetaInv, [MetaNext]_mvars, AnswerInv, NEW e \in Executors, NEW r,
         job' = [job EXCEPT ![e] = r], Answer(r, metastore), UNCHANGED told
  PROVE  AnswerInv'
<1>1. job \in [Executors -> Job]  BY DEF MetaInv, MetaType
<1>2. job'[e] = r /\ \A x \in Executors : x # e => job'[x] = job[x]
  BY <1>1
<1>3. Answer(r, metastore')  BY AnswerStays
<1>4. ASSUME NEW x \in Executors PROVE Answer(job'[x], metastore')
  <2>1. CASE x = e  BY <1>2, <1>3, <2>1
  <2>2. CASE x # e
    <3>1. job'[x] = job[x] /\ Answer(job[x], metastore)
      BY <1>2, <2>2 DEF AnswerInv
    <3>2. Answer(job[x], metastore')  BY <3>1, AnswerStays
    <3> QED  BY <3>1, <3>2
  <2> QED  BY <2>1, <2>2
<1>5. Rows(told', metastore')  BY AnswerStays DEF AnswerInv
<1> QED  BY <1>4, <1>5 DEF AnswerInv

\* Every step keeps the answers true.
LEMMA NextAnswer ==
  ASSUME MetaInv, AnswerInv, [MetaNext]_mvars
  PROVE  AnswerInv'
<1>0. /\ job \in [Executors -> Job]
      /\ metastore \in [ShuffleIds -> Devices \cup {NoDevice}]
      /\ \A e \in Executors : job[e] \in Job /\ Answer(job[e], metastore)
  BY DEF MetaInv, MetaType, AnswerInv
<1>1. ASSUME NEW e \in Executors, NEW op \in Calls, NEW s \in ShuffleIds,
             NEW d \in Devices, Call(e, op, s, d)
      PROVE  AnswerInv'
  <2> DEFINE r == NewJob(op, s, d, job[e].calls + 1)
  <2>1. Answer(r, metastore)  BY DEF Answer, NewJob, Calls
  <2>2. job' = [job EXCEPT ![e] = r] /\ UNCHANGED told  BY <1>1 DEF Call
  <2> QED  BY <2>1, <2>2, OneAnswer
<1>2. ASSUME NEW e \in Executors,
             Acquire(e) \/ LockFails(e) \/ InsertRecord(e) \/ Release(e)
      PROVE  AnswerInv'
  <2>1. PICK l : /\ job' = [job EXCEPT ![e].pc = l] /\ UNCHANGED told
                 /\ l = job[e].op \/ l \notin Calls \cup {"update"}
    BY <1>2, LabelNames DEF Acquire, LockFails, InsertRecord, Release
  <2>2. l = "update" => l \in Calls
    <3>1. CASE Acquire(e)
      BY <1>2, <2>1, <3>1 DEF MetaInv, HasArguments, Acquire
    <3>2. CASE LockFails(e) \/ InsertRecord(e) \/ Release(e)
      <4>1. job'[e].pc = l /\ job'[e].pc \in {"return", "release"}
        BY <1>0, <2>1, <3>2 DEF LockFails, InsertRecord, Release, Job
      <4> QED  BY <4>1
    <3> QED  BY <1>2, <3>1, <3>2
  <2> DEFINE r == [job[e] EXCEPT !.pc = l]
  <2>3. job' = [job EXCEPT ![e] = r]  BY <1>0, <2>1
  <2>4. /\ r.pc = l /\ r.op = job[e].op /\ r.res = job[e].res
        /\ r.id = job[e].id
    BY <1>0 DEF Job
  <2> HIDE DEF r
  <2>5. Answer(r, metastore)
    BY <1>0, <2>1, <2>2, <2>4, LabelNames DEF Answer
  <2> QED  BY <2>1, <2>3, <2>5, OneAnswer
<1>3. ASSUME NEW e \in Executors, GetShuffleDevice(e)
      PROVE  AnswerInv'
  <2> DEFINE v == metastore[job[e].id]
             r == [job[e] EXCEPT !.pc = "release", !.res = v]
  <2>1. job' = [job EXCEPT ![e] = r] /\ UNCHANGED told
    BY <1>0, <1>3 DEF GetShuffleDevice
  <2>2. job[e].id \in ShuffleIds
    BY <1>3 DEF MetaInv, HasArguments, GetShuffleDevice, Calls
  <2>3. r.pc = "release" /\ r.res = v /\ r.id = job[e].id
    BY <1>0 DEF Job
  <2> HIDE DEF r
  <2>4. Answer(r, metastore)  BY <2>2, <2>3, LabelNames DEF Answer
  <2> QED  BY <2>1, <2>4, OneAnswer
<1>4. ASSUME NEW e \in Executors, SelectDevices(e)
      PROVE  AnswerInv'
  <2> DEFINE r == [job[e] EXCEPT !.pc = "update", !.snap = mount_count]
  <2>1. job' = [job EXCEPT ![e] = r] /\ UNCHANGED told
    BY <1>0, <1>4 DEF SelectDevices
  <2>2. job[e].op = "getUnusedDevice"
    BY <1>0, <1>4 DEF SelectDevices, Answer, Calls
  <2>3. /\ r.pc = "update" /\ r.op = job[e].op
    BY <1>0 DEF Job
  <2> HIDE DEF r
  <2>4. Answer(r, metastore)  BY <2>2, <2>3, LabelNames DEF Answer
  <2> QED  BY <2>1, <2>4, OneAnswer
<1>5. ASSUME NEW e \in Executors, UpdateDevices(e)
      PROVE  AnswerInv'
  <2>1. PICK d : job' = [job EXCEPT ![e].pc = "release", ![e].res = d]
    BY <1>5 DEF UpdateDevices
  <2> DEFINE r == [job[e] EXCEPT !.pc = "release", !.res = d]
  <2>2. job' = [job EXCEPT ![e] = r] /\ UNCHANGED told
    BY <1>0, <1>5, <2>1 DEF UpdateDevices
  <2>3. job[e].op = "getUnusedDevice"
    BY <1>0, <1>5 DEF UpdateDevices, Answer
  <2>4. r.pc = "release" /\ r.op = job[e].op
    BY <1>0 DEF Job
  <2> HIDE DEF r
  <2>5. Answer(r, metastore)  BY <2>3, <2>4, LabelNames DEF Answer
  <2> QED  BY <2>2, <2>5, OneAnswer
<1>6. ASSUME NEW e \in Executors, Exit(e)
      PROVE  AnswerInv'
  <2> DEFINE r == [IdleJob(job[e].calls) EXCEPT !.pc = "dead"]
  <2>1. job' = [job EXCEPT ![e] = r] /\ UNCHANGED told
    BY <1>0, <1>6 DEF Exit
  <2>2. r.pc = "dead" /\ r.op = "none"  BY DEF IdleJob
  <2> HIDE DEF r
  <2>3. Answer(r, metastore)  BY <2>2 DEF Answer, Calls
  <2> QED  BY <2>1, <2>3, OneAnswer
<1>7. ASSUME NEW e \in Executors, Return(e)
      PROVE  AnswerInv'
  <2> DEFINE j == job[e]
             r == IdleJob(j.calls)
  <2>1. /\ job' = [job EXCEPT ![e] = r] /\ metastore' = metastore
        /\ told' = IF j.op = "getShuffleDevice" /\ j.res # NoDevice
                     THEN told \cup {<<j.id, j.res>>} ELSE told
    BY <1>0, <1>7 DEF Return
  <2>2. Answer(r, metastore)  BY DEF Answer, IdleJob, Calls
  <2>3. Answer(j, metastore)  BY <1>0
  <2> HIDE DEF j, r
  <2>4. \A x \in Executors : Answer(job'[x], metastore)
    BY <1>0, <2>1, <2>2
  <2>5. Rows(told', metastore)
    <3>1. Rows(told, metastore)  BY DEF AnswerInv
    <3>2. CASE j.op = "getShuffleDevice" /\ j.res # NoDevice
      <4>1. j.id \in ShuffleIds /\ metastore[j.id] = j.res
        BY <2>3, <3>2 DEF Answer
      <4>2. ASSUME NEW x \in told'
            PROVE  x[1] \in ShuffleIds /\ x[2] # NoDevice
                   /\ metastore[x[1]] = x[2]
        <5>1. CASE x \in told  BY <3>1, <5>1 DEF Rows
        <5>2. CASE x = <<j.id, j.res>>  BY <3>2, <4>1, <5>2
        <5> QED  BY <2>1, <3>2, <5>1, <5>2
      <4> QED  BY <4>2 DEF Rows
    <3>3. CASE ~(j.op = "getShuffleDevice" /\ j.res # NoDevice)
      <4>1. told' = told  BY <2>1, <3>3
      <4> QED  BY <3>1, <4>1
    <3> QED  BY <3>2, <3>3
  <2> QED  BY <2>1, <2>4, <2>5 DEF AnswerInv
<1>8. CASE UNCHANGED mvars  BY <1>8 DEF mvars, AnswerInv
<1> QED
  BY <1>1, <1>2, <1>3, <1>4, <1>5, <1>6, <1>7, <1>8 DEF MetaNext, Proceed

\* No two executors are ever told different devices for a shuffle, whatever
\* the number of executors that race to record one, fail or die.
THEOREM ExecutorsAgree == MetaSpec => []DevicesAgreed
<1>1. MetaInit => AnswerInv
  BY DEF MetaInit, AnswerInv, Answer, Rows, IdleJob, Calls
<1>2. AnswerInv => DevicesAgreed
  BY DEF AnswerInv, Rows, DevicesAgreed
<1>3. MetaInv /\ AnswerInv /\ [MetaNext]_mvars => MetaInv' /\ AnswerInv'
  BY NextMeta, NextAnswer
<1> QED
  BY <1>1, <1>2, <1>3, InitMeta, PTL DEF MetaSpec

-----------------------------------------------------------------------------
(***************************************************************************)
(* Every committed choice is counted.                                      *)
(***************************************************************************)
\* What place i of the list adds: a device that is listed twice adds its
\* count at its first place.
Share(mc, i) == IF \E m \in 1 .. i - 1 : PathList[m] = PathList[i] THEN 0
                ELSE mc[PathList[i]]

\* The recursive function inside MountsCounted, for the counts mc.
Mounts(mc) ==
  CHOOSE f : f = [i \in 0 .. Len(PathList) |->
                    IF i = 0 THEN 0
                    ELSE f[i - 1] +
                           (IF \E m \in 1 .. i - 1 : PathList[m] = PathList[i]
                            THEN 0 ELSE mc[PathList[i]])]

\* It satisfies its equation, and its values are naturals.
LEMMA MountsStep ==
  ASSUME NEW mc \in [Devices -> Nat]
  PROVE  /\ Mounts(mc)[0] = 0
         /\ \A i \in 1 .. Len(PathList) :
              Mounts(mc)[i] = Mounts(mc)[i - 1] + Share(mc, i)
         /\ \A i \in 0 .. Len(PathList) : Mounts(mc)[i] \in Nat
<1> DEFINE n == Len(PathList)
           step == [i \in 1 .. n |-> [x \in Nat |-> x + Share(mc, i)]]
<1>1. n \in Nat  BY MetaAssumption
<1>2. ASSUME NEW i \in 1 .. n PROVE Share(mc, i) \in Nat
  <2>1. PathList[i] \in Devices  BY MetaAssumption
  <2> QED  BY <2>1 DEF Share
<1> HIDE DEF n
<1>3. step \in [1 .. n -> [Nat -> Nat]]  BY <1>2
<1>4. \A i \in 1 .. n, x \in Nat : step[i][x] = x + Share(mc, i)  OBVIOUS
<1> HIDE DEF step
<1>5. PICK f \in [0 .. n -> Nat] : IsRec(f, n, 0, step)
  BY <1>1, <1>3, RecExists
<1>6. ASSUME NEW i \in 1 .. n PROVE f[i] = f[i - 1] + Share(mc, i)
  <2>1. i - 1 \in 0 .. n  BY <1>1
  <2>2. f[i - 1] \in Nat  BY <2>1
  <2> QED  BY <1>4, <1>5, <2>2 DEF IsRec
<1>7. f[0] = 0  BY <1>5 DEF IsRec
<1>8. ASSUME NEW i \in 0 .. n
      PROVE  f[i] = IF i = 0 THEN 0 ELSE f[i - 1] +
                           (IF \E m \in 1 .. i - 1 : PathList[m] = PathList[i]
                            THEN 0 ELSE mc[PathList[i]])
  <2>1. CASE i = 0  BY <1>7, <2>1
  <2>2. CASE i # 0
    <3>1. i \in 1 .. n  BY <1>1, <2>2
    <3>2. f[i] = f[i - 1] + Share(mc, i)  BY <1>6, <3>1
    <3> QED  BY <2>2, <3>2 DEF Share
  <2> QED  BY <2>1, <2>2
<1>9. f = [i \in 0 .. n |->
             IF i = 0 THEN 0 ELSE f[i - 1] +
                           (IF \E m \in 1 .. i - 1 : PathList[m] = PathList[i]
                            THEN 0 ELSE mc[PathList[i]])]
  BY <1>8
<1> DEFINE F == Mounts(mc)
<1>10. F = [i \in 0 .. n |->
             IF i = 0 THEN 0 ELSE F[i - 1] +
                           (IF \E m \in 1 .. i - 1 : PathList[m] = PathList[i]
                            THEN 0 ELSE mc[PathList[i]])]
  BY <1>9 DEF Mounts, n
<1> HIDE DEF F
<1>11. F[0] = 0  BY <1>1, <1>10
<1>12. ASSUME NEW i \in 1 .. n PROVE F[i] = F[i - 1] + Share(mc, i)
  <2>1. i \in 0 .. n /\ i # 0  BY <1>1
  <2> QED  BY <1>10, <2>1 DEF Share
<1>13. SameSteps(F, f, 0, n)
  <2>1. ASSUME NEW i \in 0 + 1 .. n, F[i - 1] = f[i - 1] PROVE F[i] = f[i]
    <3>1. i \in 1 .. n  OBVIOUS
    <3>2. F[i] = F[i - 1] + Share(mc, i) /\ f[i] = f[i - 1] + Share(mc, i)
      BY <1>6, <1>12, <3>1
    <3> QED  BY <2>1, <3>2
  <2>2. F[0] = f[0]  BY <1>7, <1>11
  <2> QED  BY <2>1, <2>2 DEF SameSteps
<1>14. Agree(F, f, 0, n)
  <2>1. 0 \in Nat /\ n \in Nat  BY <1>1
  <2> QED  BY <1>13, <2>1, RecUnique
<1>15. \A i \in 0 .. n : F[i] \in Nat  BY <1>14 DEF Agree
<1> QED  BY <1>11, <1>12, <1>15 DEF F, n

\* One more mount of one device makes the sum one larger.
LEMMA MountsPlus ==
  ASSUME NEW mc \in [Devices -> Nat], NEW nc \in [Devices -> Nat],
         NEW d \in Devices, nc[d] = mc[d] + 1,
         \A x \in Devices : x # d => nc[x] = mc[x]
  PROVE  Mounts(nc)[Len(PathList)] = Mounts(mc)[Len(PathList)] + 1
<1> DEFINE n == Len(PathList)
           f == Mounts(mc)
           g == Mounts(nc)
           Seen(k) == \E m \in 1 .. k : PathList[m] = d
           G == {k \in 0 .. n : g[k] = f[k] + IF Seen(k) THEN 1 ELSE 0}
<1>1. n \in Nat /\ \A i \in 1 .. n : PathList[i] \in Devices
  BY MetaAssumption
<1>2. /\ f[0] = 0 /\ \A i \in 1 .. n : f[i] = f[i - 1] + Share(mc, i)
      /\ \A i \in 0 .. n : f[i] \in Nat
  BY MountsStep
<1>3. /\ g[0] = 0 /\ \A i \in 1 .. n : g[i] = g[i - 1] + Share(nc, i)
      /\ \A i \in 0 .. n : g[i] \in Nat
  BY MountsStep
<1> HIDE DEF n, f, g
<1>4. 0 \in G
  <2>1. ~Seen(0)  OBVIOUS
  <2> QED  BY <1>1, <1>2, <1>3, <2>1
<1>5. ASSUME NEW k \in 0 .. n, k \in G, k < n PROVE k + 1 \in G
  <2> DEFINE i == k + 1
             y == PathList[i]
  <2>1. i \in 1 .. n /\ i \in 0 .. n /\ i - 1 = k /\ y \in Devices
    BY <1>1, <1>5
  <2>2. f[i] = f[k] + Share(mc, i) /\ g[i] = g[k] + Share(nc, i)
    BY <1>2, <1>3, <2>1
  <2>3. g[k] = f[k] + IF Seen(k) THEN 1 ELSE 0  BY <1>5
  <2>4. f[k] \in Nat /\ mc[y] \in Nat  BY <1>2, <2>1
  <2>5. Seen(i) <=> Seen(k) \/ y = d
    <3>1. \A m : m \in 1 .. i <=> m \in 1 .. k \/ m = i  BY <2>1
    <3> QED  BY <3>1
  <2>6. Share(mc, i) = IF \E m \in 1 .. k : PathList[m] = y THEN 0 ELSE mc[y]
    BY <2>1 DEF Share
  <2>7. Share(nc, i) = IF \E m \in 1 .. k : PathList[m] = y THEN 0 ELSE nc[y]
    BY <2>1 DEF Share
  <2> HIDE DEF i, y
  <2>8. g[i] = f[i] + IF Seen(i) THEN 1 ELSE 0
    <3>1. CASE y # d
      <4>1. nc[y] = mc[y]  BY <2>1, <3>1
      <4>2. Share(nc, i) = Share(mc, i) /\ Share(mc, i) \in Nat
        BY <2>4, <2>6, <2>7, <4>1
      <4>3. Seen(i) <=> Seen(k)  BY <2>5, <3>1
      <4> HIDE DEF Seen
      <4> QED  BY <2>2, <2>3, <2>4, <4>2, <4>3
    <3>2. CASE y = d /\ Seen(k)
      <4>1. Share(nc, i) = 0 /\ Share(mc, i) = 0  BY <2>6, <2>7, <3>2
      <4>2. Seen(i)  BY <2>5, <3>2
      <4>3. Seen(k)  BY <3>2
      <4> HIDE DEF Seen
      <4> QED  BY <2>2, <2>3, <2>4, <4>1, <4>2, <4>3
    <3>3. CASE y = d /\ ~Seen(k)
      <4>1. Share(nc, i) = mc[d] + 1 /\ Share(mc, i) = mc[d]
        BY <2>6, <2>7, <3>3
      <4>2. Seen(i)  BY <2>5, <3>3
      <4>3. ~Seen(k) /\ mc[d] \in Nat  BY <2>4, <3>3
      <4> HIDE DEF Seen
      <4> QED  BY <2>2, <2>3, <2>4, <4>1, <4>2, <4>3
    <3> QED  BY <3>1, <3>2, <3>3
  <2> QED  BY <2>1, <2>8 DEF i
<1> HIDE DEF G
<1>6. 0 .. n \subseteq G  BY <1>1, <1>4, <1>5, UpTo
<1>7. n \in G  BY <1>1, <1>6
<1>8. Seen(n)  BY DEF Devices, n
<1>9. g[n] = f[n] + 1  BY <1>7, <1>8 DEF G
<1> QED  BY <1>9 DEF f, g, n

\* MountsCounted in terms of Mounts.
LEMMA MountsCountedIs ==
  MountsCounted <=> Mounts(mount_count)[Len(PathList)] = chosen
  BY DEF MountsCounted, Mounts

\* UpdateDevices counts one mount of one device: what it has read is still
\* what the table holds.
LEMMA UpdateCounts ==
  ASSUME MetaInv, NEW e \in Executors, UpdateDevices(e)
  PROVE  \E d \in Devices :
           /\ mount_count'[d] = mount_count[d] + 1
           /\ \A x \in Devices : x # d => mount_count'[x] = mount_count[x]
<1>1. mount_count \in [Devices -> Nat]  BY DEF MetaInv, MetaType
<1>2. job[e].snap = mount_count
  BY DEF UpdateDevices, MetaInv, SnapFresh
<1>3. CASE \E d \in FirstUnused(job[e].snap) :
             mount_count' = [mount_count EXCEPT ![d] = IF @ = 0 THEN 1 ELSE @]
  <2>1. PICK d \in FirstUnused(job[e].snap) :
             mount_count' = [mount_count EXCEPT ![d] = IF @ = 0 THEN 1 ELSE @]
    BY <1>3
  <2>2. d \in Devices /\ mount_count[d] = 0
    BY <1>2, ChoicesAreDevices DEF FirstUnused
  <2> QED  BY <1>1, <2>1, <2>2
<1>4. CASE \E d \in MinCount(job[e].snap) :
             mount_count' = [mount_count EXCEPT ![d] = job[e].snap[d] + 1]
  <2>1. PICK d \in MinCount(job[e].snap) :
             mount_count' = [mount_count EXCEPT ![d] = job[e].snap[d] + 1]
    BY <1>4
  <2>2. d \in Devices  BY ChoicesAreDevices
  <2> QED  BY <1>1, <1>2, <2>1, <2>2
<1> QED  BY <1>3, <1>4 DEF UpdateDevices

\* No executor overwrites what another one has just counted, whatever the
\* number of executors and devices, and devices that are listed twice.
THEOREM EveryMountCounted == MetaSpec => []MountsCounted
<1> DEFINE Sum == Mounts(mount_count)[Len(PathList)]
<1>1. MetaInit => MountsCounted
  <2> SUFFICES ASSUME MetaInit PROVE Sum = chosen  BY MountsCountedIs
  <2> DEFINE n == Len(PathList)
             f == Mounts(mount_count)
             G == {k \in 0 .. n : f[k] = 0}
  <2>1. mount_count \in [Devices -> Nat] /\ chosen = 0 /\ n \in Nat
        /\ \A d \in Devices : mount_count[d] = 0
    BY MetaAssumption DEF MetaInit, NoCounts
  <2>2. f[0] = 0 /\ \A i \in 1 .. n : f[i] = f[i - 1] + Share(mount_count, i)
    BY <2>1, MountsStep
  <2>3. \A i \in 1 .. n : Share(mount_count, i) = 0
    <3>1. \A i \in 1 .. n : PathList[i] \in Devices  BY MetaAssumption
    <3> QED  BY <2>1, <3>1 DEF Share
  <2> HIDE DEF f, n
  <2>4. 0 \in G  BY <2>1, <2>2
  <2>5. ASSUME NEW k \in 0 .. n, k \in G, k < n PROVE k + 1 \in G
    <3>1. k + 1 \in 1 .. n /\ k + 1 \in 0 .. n /\ (k + 1) - 1 = k
      BY <2>1, <2>5
    <3>2. f[k + 1] = f[k] + Share(mount_count, k + 1)  BY <2>2, <3>1
    <3>3. f[k] = 0 /\ Share(mount_count, k + 1) = 0  BY <2>3, <2>5, <3>1
    <3> QED  BY <3>1, <3>2, <3>3
  <2> HIDE DEF G
  <2>6. 0 .. n \subseteq G  BY <2>1, <2>4, <2>5, UpTo
  <2>7. n \in G  BY <2>1, <2>6
  <2>8. f[n] = 0  BY <2>7 DEF G
  <2> QED  BY <2>1, <2>8 DEF f, n
<1>2. MetaInv /\ MountsCounted /\ [MetaNext]_mvars => MountsCounted'
  <2> SUFFICES ASSUME MetaInv, MountsCounted, [MetaNext]_mvars
               PROVE  MountsCounted'
    OBVIOUS
  <2>1. Sum = chosen  BY MountsCountedIs
  <2>2. CASE UNCHANGED <<mount_count, chosen>>
    BY <2>2 DEF MountsCounted
  <2>3. ASSUME NEW e \in Executors, UpdateDevices(e) PROVE MountsCounted'
    <3>1. mount_count \in [Devices -> Nat] /\ mount_count' \in [Devices -> Nat]
      <4>1. MetaInv'  BY NextMeta
      <4> QED  BY <4>1 DEF MetaInv, MetaType
    <3>2. PICK d \in Devices :
             /\ mount_count'[d] = mount_count[d] + 1
             /\ \A x \in Devices : x # d => mount_count'[x] = mount_count[x]
      BY <2>3, UpdateCounts
    <3>3. Mounts(mount_count')[Len(PathList)] = Sum + 1
      BY <3>1, <3>2, MountsPlus
    <3>4. chosen' = chosen + 1  BY <2>3 DEF UpdateDevices
    <3>5. (MountsCounted <=> Mounts(mount_count)[Len(PathList)] = chosen)'
      BY MountsCountedIs, PTL
    <3> QED  BY <2>1, <3>3, <3>4, <3>5
  <2> QED
    BY <2>2, <2>3
    DEF MetaNext, Proceed, mvars, Call, Acquire, InsertRecord,
        GetShuffleDevice, SelectDevices, Release, Return, LockFails, Exit
<1> QED  BY <1>1, <1>2, InitMeta, NextMeta, PTL DEF MetaSpec
=============================================================================
