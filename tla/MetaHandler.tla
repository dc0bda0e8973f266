---------------------------- MODULE MetaHandler ----------------------------
(***************************************************************************)
(* PersistentMemoryMetaHandler: the executors of a node agree on the device *)
(* of a shuffle through two tables of an SQLite database, metastore and     *)
(* devices, under a lock on a file.  Each statement commits on its own, but *)
(* getUnusedDevice needs two of them.                                       *)
(*                                                                         *)
(* An executor calls one operation at a time: the monitors of the handler   *)
(* object and of its singleton see to that.  All executors have the same    *)
(* list of devices (spark.shuffle.nvm.pmem_list).  Linux drops the lock of  *)
(* a process that exits.                                                    *)
(***************************************************************************)
EXTENDS Integers, Sequences, FiniteSets

CONSTANTS Executors,
          ShuffleIds,
          PathList,      \* full_device_list, a sequence of devices
          NoDevice,      \* the empty string
          NoOwner,       \* nobody holds the file lock
          Failures,      \* TRUE: SQL and I/O exceptions and kills happen
          MaxCalls       \* bound: calls of each executor

Devices == {PathList[i] : i \in 1 .. Len(PathList)}
Calls == {"insertRecord", "getShuffleDevice", "getUnusedDevice"}

ASSUME MetaAssumption ==
  /\ PathList \in Seq(Devices)
  /\ Len(PathList) > 0
  /\ NoDevice \notin Devices
  /\ NoOwner \notin Executors
  /\ Failures \in BOOLEAN
  /\ MaxCalls \in Nat

VARIABLES metastore,    \* device of each shuffleId, NoDevice without a row
          mount_count,  \* of each device, 0 without a row in devices
          flock,        \* the executor that holds the file lock
          job,          \* the running call of each executor
          chosen,       \* observer: getUnusedDevice calls that committed
          told          \* observer: <<shuffleId, device>> that getShuffleDevice
                        \* has returned to some executor

mvars == <<metastore, mount_count, flock, job, chosen, told>>

NoCounts == [d \in Devices |-> 0]

\* snap is device_count, the copy of the devices table; res the return value.
IdleJob(n) == [pc |-> "idle", op |-> "none", id |-> "none", dev |-> NoDevice,
               snap |-> NoCounts, res |-> NoDevice, calls |-> n]

NewJob(op, s, d, n) ==
  [pc |-> "lock", op |-> op, id |-> s, dev |-> d, snap |-> NoCounts,
   res |-> NoDevice, calls |-> n]

\* createTable has run; the tables are new.
MetaInit ==
  /\ metastore = [s \in ShuffleIds |-> NoDevice]
  /\ mount_count = NoCounts
  /\ flock = NoOwner
  /\ job = [e \in Executors |-> IdleJob(0)]
  /\ chosen = 0
  /\ told = {}

\* An operation is called; insertRecord gets a device as well.
Call(e, op, s, d) ==
  /\ job[e].pc = "idle"
  /\ job[e].calls < MaxCalls
  /\ job' = [job EXCEPT ![e] = NewJob(op, s, d, @.calls + 1)]
  /\ UNCHANGED <<metastore, mount_count, flock, chosen, told>>

\* getChannel().lock() blocks while another process has the lock.
AcquireAlways(e) ==     \* mutant: the lock is not waited for
  /\ job[e].pc = "lock"
  /\ flock' = e
  /\ job' = [job EXCEPT ![e].pc = job[e].op]
  /\ UNCHANGED <<metastore, mount_count, chosen, told>>
Acquire(e) ==
  /\ job[e].pc = "lock"
  /\ flock = NoOwner
  /\ flock' = e
  /\ job' = [job EXCEPT ![e].pc = job[e].op]
  /\ UNCHANGED <<metastore, mount_count, chosen, told>>

\* The lock file cannot be opened or locked: the IOException is printed, and
\* the call returns with nothing done.
LockFails(e) ==
  /\ Failures
  /\ job[e].pc = "lock"
  /\ job' = [job EXCEPT ![e].pc = "return"]
  /\ UNCHANGED <<metastore, mount_count, flock, chosen, told>>

\* INSERT OR IGNORE INTO metastore
InsertedReplace(s, d) == [metastore EXCEPT ![s] = d]     \* mutant: OR REPLACE
Inserted(s, d) == [metastore EXCEPT ![s] = IF @ = NoDevice THEN d ELSE @]

InsertRecord(e) ==
  /\ job[e].pc = "insertRecord"
  /\ metastore' = Inserted(job[e].id, job[e].dev)
  /\ job' = [job EXCEPT ![e].pc = "release"]
  /\ UNCHANGED <<mount_count, flock, chosen, told>>

\* SELECT device FROM metastore where shuffleId = ?
GetShuffleDevice(e) ==
  /\ job[e].pc = "getShuffleDevice"
  /\ job' = [job EXCEPT ![e].pc = "release", ![e].res = metastore[job[e].id]]
  /\ UNCHANGED <<metastore, mount_count, flock, chosen, told>>

\* getUnusedDevice: SELECT device, mount_count FROM devices ...
SelectDevices(e) ==
  /\ job[e].pc = "getUnusedDevice"
  /\ job' = [job EXCEPT ![e].pc = "update", ![e].snap = mount_count]
  /\ UNCHANGED <<metastore, mount_count, flock, chosen, told>>

\* getDeviceWithMinCount: a device with the smallest count; which one, if
\* there are several, depends on the hash map.
MinCountMax(snap) ==     \* mutant: the comparison is the wrong way round
  {d \in Devices : \A x \in Devices : snap[x] <= snap[d]}
MinCount(snap) == {d \in Devices : \A x \in Devices : snap[d] <= snap[x]}

\* The first device of the list that has no row.
FirstUnused(snap) ==
  {PathList[i] : i \in {n \in 1 .. Len(PathList) :
                          /\ snap[PathList[n]] = 0
                          /\ \A m \in 1 .. n - 1 : snap[PathList[m]] # 0}}

\* ... then INSERT OR IGNORE of a first row, or UPDATE to the count read
\* before plus one.
UpdateDevices(e) ==
  LET snap == job[e].snap
  IN  /\ job[e].pc = "update"
      /\ \/ \E d \in FirstUnused(snap) :
              /\ mount_count' = [mount_count EXCEPT ![d] = IF @ = 0 THEN 1 ELSE @]
              /\ job' = [job EXCEPT ![e].pc = "release", ![e].res = d]
         \/ /\ FirstUnused(snap) = {}
            /\ \E d \in MinCount(snap) :
                 /\ mount_count' = [mount_count EXCEPT ![d] = snap[d] + 1]
                 /\ job' = [job EXCEPT ![e].pc = "release", ![e].res = d]
      /\ chosen' = chosen + 1
      /\ UNCHANGED <<metastore, flock, told>>

\* The finally block: fl.release() and fos.close().
ReleaseNever(e) ==     \* mutant: the finally block is missing
  /\ job[e].pc = "release"
  /\ job' = [job EXCEPT ![e].pc = "return"]
  /\ UNCHANGED <<metastore, mount_count, flock, chosen, told>>
Release(e) ==
  /\ job[e].pc = "release"
  /\ flock' = NoOwner
  /\ job' = [job EXCEPT ![e].pc = "return"]
  /\ UNCHANGED <<metastore, mount_count, chosen, told>>

Return(e) ==
  LET r == job[e]
  IN  /\ r.pc = "return"
      /\ job' = [job EXCEPT ![e] = IdleJob(@.calls)]
      /\ told' = IF r.op = "getShuffleDevice" /\ r.res # NoDevice
                   THEN told \cup {<<r.id, r.res>>} ELSE told
      /\ UNCHANGED <<metastore, mount_count, flock, chosen>>

\* System.exit(-1) after an SQLException, or a kill: the process is gone, its
\* lock with it, and what it has committed stays.
Exit(e) ==
  /\ Failures
  /\ job[e].pc \notin {"idle", "dead"}
  /\ job' = [job EXCEPT ![e] = [IdleJob(@.calls) EXCEPT !.pc = "dead"]]
  /\ flock' = IF flock = e THEN NoOwner ELSE flock
  /\ UNCHANGED <<metastore, mount_count, chosen, told>>

Proceed(e) ==
  \/ Acquire(e) \/ InsertRecord(e) \/ GetShuffleDevice(e)
  \/ SelectDevices(e) \/ UpdateDevices(e) \/ Release(e) \/ Return(e)

MetaNext ==
  \E e \in Executors :
    \/ \E op \in Calls, s \in ShuffleIds, d \in Devices : Call(e, op, s, d)
    \/ Proceed(e)
    \/ LockFails(e)
    \/ Exit(e)

MetaSpec == MetaInit /\ [][MetaNext]_mvars

\* A call that can go on goes on; nothing has to fail.  Weak fairness is enough
\* for lock() because the other executors make finitely many calls.
FairMetaSpec == MetaSpec /\ \A e \in Executors : WF_mvars(Proceed(e))

-----------------------------------------------------------------------------
\* Devices are handed out evenly: no device is ever two mounts ahead of
\* another one of the list, although the counts are read by one statement and
\* written by the next, and executors die in between.
Balanced == \A d, x \in Devices : mount_count[d] <= mount_count[x] + 1

\* Every choice that was committed is counted once: no executor overwrites
\* what another one has just counted.
MountsCounted ==
  LET upTo[i \in 0 .. Len(PathList)] ==
        IF i = 0 THEN 0
        ELSE upTo[i - 1] +
               (IF \E m \in 1 .. i - 1 : PathList[m] = PathList[i] THEN 0
                ELSE mount_count[PathList[i]])
  IN  upTo[Len(PathList)] = chosen

\* Executors that ask for the device of a shuffle are never told different
\* ones: not when they have recorded different devices in a race, not when the
\* answer is used long after the lock was released, and not after deaths.
DevicesAgreed == \A x, y \in told : x[1] = y[1] => x[2] = y[2]

\* Every call returns or its process ends: no executor keeps the lock.
CallsReturn ==
  \A e \in Executors : job[e].pc # "idle" ~> job[e].pc \in {"idle", "dead"}
=============================================================================
