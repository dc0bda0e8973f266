------------------------ MODULE ShuffleExecutorProof ------------------------
(***************************************************************************)
(* For any number of attempts, partitions, handlers, stops and records:    *)
(* the executor never has two native stores open at the end of a           *)
(* synchronized method and closes none twice; a fetch that ends holds no   *)
(* native memory; the accepted MapStatus agrees with the store; and a      *)
(* fetch serves the content of its key from the start, with every block of *)
(* the committed attempt.                                                  *)
(***************************************************************************)
EXTENDS ShuffleExecutor, PmemBufferProof

PerPartition == [Partitions -> Nat]
WriterPC == {"new", "open", "create", "write", "put", "total", "spill",
             "written", "done", "failed"}
WriterType ==
  [pc : WriterPC, p : Nat \ {0}, hnd : PerPartition, buf : PerPartition,
   size : PerPartition, out : PerPartition, partitionLengths : PerPartition,
   at : Partitions, ret : {"write", "spill"}]

ObjectType ==
  /\ made \in 0 .. MaxHandlers /\ handler \in 0 .. made
  /\ closes \in [Handlers -> 0 .. 1]
  /\ wr \in [Attempts -> WriterType]
  /\ sp \in [pc : {"idle", "close", "leave"}, stops : Nat]

\* The stores that are open are those in s.
OpenAre(s) == \A h \in Handlers : (h <= made /\ closes[h] = 0) <=> h \in s

\* Whoever is inside a synchronized method holds the monitor, and at each of
\* its points the stores that are open are known; outside, the open store is
\* the one of the handler.
MonitorInv ==
  /\ \A a \in Attempts : Writing(a, "create") =>
       monitor = a /\ made > 0 /\ OpenAre({made})
  /\ sp.pc = "close" => monitor = Stopper /\ handler # 0 /\ OpenAre({handler})
  /\ sp.pc = "leave" => monitor = Stopper /\ OpenAre({})
  /\ monitor = Nobody => OpenAre({handler} \ {0})
  /\ \A h \in Handlers : h > made => closes[h] = 0

ExecutorInv == ObjectType /\ MonitorInv

\* A fresh executor has no store, no device and no buffer.
LEMMA ExecutorInit == EInit => ExecutorInv
<1> SUFFICES ASSUME EInit PROVE ExecutorInv
  OBVIOUS
<1> USE ExecutorAssumption
<1>1. Zeros \in PerPartition /\ 1 \in Partitions
  BY DEF Zeros, PerPartition, Partitions
<1>2. NewWriter \in WriterType
  BY <1>1 DEF NewWriter, WriterType, WriterPC
<1>3. ObjectType
  BY <1>2 DEF EInit, ObjectType, Handlers
<1>4. MonitorInv
  BY DEF EInit, MonitorInv, OpenAre, Handlers, NewWriter, Writing, Nobody,
     Stopper
<1> QED  BY <1>3, <1>4 DEF ExecutorInv

\* A step that leaves the object alone and in which no writer gets to, or
\* leaves, the inside of getPersistentMemoryHandler.
LEMMA OutsideStep ==
  ASSUME ExecutorInv, UNCHANGED <<objVars, sp>>,
         wr' \in [Attempts -> WriterType],
         \A a \in Attempts : wr'[a].pc = "create" => wr[a].pc = "create"
  PROVE  ExecutorInv'
BY DEF ExecutorInv, ObjectType, MonitorInv, OpenAre, Writing, objVars,
   Handlers, Nobody, Stopper

\* Construction of a stream keeps the types of the writer.
LEMMA StreamMadeType ==
  ASSUME wr \in [Attempts -> WriterType], NEW a \in Attempts,
         NEW h \in Nat
  PROVE  /\ StreamMade(a, h) \in [Attempts -> WriterType]
         /\ StreamMade(a, h)[a].pc \in {"write", "open"}
         /\ \A b \in Attempts \ {a} : StreamMade(a, h)[b] = wr[b]
<1> USE ExecutorAssumption
<1> DEFINE w == wr[a]
<1>1. w \in WriterType
  OBVIOUS
<1>2. [w.hnd EXCEPT ![w.p] = h] \in PerPartition
  BY <1>1 DEF WriterType, PerPartition
<1>3. w.p + 1 \in Nat \ {0}
  BY <1>1 DEF WriterType
<1> DEFINE v == [w EXCEPT !.hnd = [w.hnd EXCEPT ![w.p] = h],
                   !.pc = IF w.p = NumPartitions THEN "write" ELSE "open",
                   !.p = w.p + 1]
<1>4. v \in WriterType /\ v.pc \in {"write", "open"}
  BY <1>1, <1>2, <1>3 DEF WriterType, WriterPC
<1>5. StreamMade(a, h) = [wr EXCEPT ![a] = v]
  BY <1>1 DEF StreamMade, WriterType
<1> HIDE DEF v
<1> QED  BY <1>4, <1>5

\* So does the accounting after a flush.
LEMMA AccountedType ==
  ASSUME wr \in [Attempts -> WriterType], NEW a \in Attempts
  PROVE  /\ Accounted(a) \in [Attempts -> WriterType]
         /\ Accounted(a)[a].pc # "create"
         /\ \A b \in Attempts \ {a} : Accounted(a)[b] = wr[b]
<1> USE ExecutorAssumption
<1> DEFINE w == wr[a]
           n == w.buf[w.at]
           v == [w EXCEPT !.pc = w.ret, !.at = 1,
                   !.buf = [w.buf EXCEPT ![w.at] = 0],
                   !.size = [w.size EXCEPT ![w.at] = w.size[w.at] + n]]
<1>1. w \in WriterType
  OBVIOUS
<1>2. /\ w.buf \in PerPartition /\ w.size \in PerPartition
      /\ w.at \in Partitions /\ w.ret \in {"write", "spill"}
  BY <1>1 DEF WriterType
<1>3. n \in Nat /\ w.size[w.at] + n \in Nat
  BY <1>2 DEF PerPartition
<1>4. /\ [w.buf EXCEPT ![w.at] = 0] \in PerPartition
      /\ [w.size EXCEPT ![w.at] = w.size[w.at] + n] \in PerPartition
  BY <1>2, <1>3 DEF PerPartition
<1>5. 1 \in Partitions
  BY DEF Partitions
<1>6. v \in WriterType /\ v.pc # "create"
  BY <1>1, <1>2, <1>4, <1>5 DEF WriterType, WriterPC
<1>7. Accounted(a) = [wr EXCEPT ![a] = v]
  BY <1>1 DEF Accounted, WriterType
<1> HIDE DEF v
<1> QED  BY <1>6, <1>7

\* So do the steps of an attempt outside getPersistentMemoryHandler.
LEMMA WriterOutside ==
  ASSUME ExecutorInv, NEW a \in Attempts,
         \/ StartTask(a) \/ GetHandler(a)
         \/ \E p \in Partitions : WriteRecordTo(a, p)
         \/ EndRecords(a) \/ SpillPartition(a) \/ PutBlock(a) \/ PutTotal(a)
         \/ ReportLengths(a) \/ StopWriter(a) \/ FailTask(a)
  PROVE  ExecutorInv'
<1> USE ExecutorAssumption
<1> DEFINE w == wr[a]
           Ends(v) == v \in WriterType /\ v.pc # "create"
                        /\ wr' = [wr EXCEPT ![a] = v]
<1>1. wr \in [Attempts -> WriterType] /\ w \in WriterType
  BY DEF ExecutorInv, ObjectType
<1>2. ASSUME NEW v, Ends(v), UNCHANGED <<objVars, sp>> PROVE ExecutorInv'
  <2>1. wr' \in [Attempts -> WriterType]
    BY <1>1, <1>2
  <2>2. \A b \in Attempts : wr'[b].pc = "create" => wr[b].pc = "create"
    BY <1>1, <1>2
  <2> QED  BY <1>2, <2>1, <2>2, OutsideStep
<1> HIDE DEF Ends
<1>3. CASE StartTask(a)
  <2>1. Ends([w EXCEPT !.pc = "open"])
    BY <1>1, <1>3 DEF StartTask, WriterType, WriterPC, Ends
  <2> QED  BY <1>2, <1>3, <2>1 DEF StartTask
<1>4. CASE GetHandler(a)
  <2>1. handler \in Nat
    BY DEF ExecutorInv, ObjectType
  <2>2. wr' = StreamMade(a, handler) /\ UNCHANGED <<objVars, sp>>
    BY <1>4 DEF GetHandler
  <2> QED  BY <1>1, <2>1, <2>2, StreamMadeType, OutsideStep
<1>5. ASSUME NEW p \in Partitions, WriteRecordTo(a, p) PROVE ExecutorInv'
  <2> DEFINE u == [w EXCEPT !.buf = [w.buf EXCEPT ![p] = w.buf[p] + 1],
                            !.out = [w.out EXCEPT ![p] = w.out[p] + 1]]
             v == [u EXCEPT !.pc = "put", !.at = p]
  <2>1. /\ [w.buf EXCEPT ![p] = w.buf[p] + 1] \in PerPartition
        /\ [w.out EXCEPT ![p] = w.out[p] + 1] \in PerPartition
    BY <1>1 DEF WriterType, PerPartition
  <2>2. u \in WriterType /\ u.pc = "write"
    BY <1>1, <1>5, <2>1 DEF WriterType, WriteRecordTo, Writing
  <2>3. v \in WriterType /\ v.pc = "put"
    BY <2>2 DEF WriterType, WriterPC
  <2>4. wr' = [wr EXCEPT ![a] = u] \/ wr' = [wr EXCEPT ![a] = v]
    BY <1>1, <1>5 DEF WriteRecordTo, Flushing, WriterType, PerPartition
  <2>5. Ends(u) \/ Ends(v)
    BY <2>2, <2>3, <2>4 DEF Ends
  <2> QED  BY <1>2, <1>5, <2>5 DEF WriteRecordTo
<1>6. CASE EndRecords(a)
  <2> DEFINE v == [w EXCEPT !.pc = "spill", !.ret = "spill", !.p = 1]
  <2>a. 1 \in Nat \ {0} /\ "spill" \in WriterPC /\ "spill" \in {"write", "spill"}
    BY DEF WriterPC
  <2>1. v \in WriterType /\ v.pc = "spill"
    BY <1>1, <2>a DEF WriterType
  <2>2. wr' = [wr EXCEPT ![a] = v]
    BY <1>1, <1>6 DEF EndRecords, WriterType
  <2>3. Ends(v)
    BY <2>1, <2>2 DEF Ends
  <2> QED  BY <1>2, <1>6, <2>3 DEF EndRecords
<1>7. CASE SpillPartition(a)
  <2> DEFINE u == [w EXCEPT !.p = w.p + 1]
             v == [u EXCEPT !.pc = "put", !.at = w.p]
  <2>1. w.p \in Partitions
    BY <1>1, <1>7 DEF WriterType, SpillPartition, LastPartition, Partitions
  <2>2. u \in WriterType /\ u.pc = "spill"
    BY <1>1, <1>7 DEF WriterType, SpillPartition, Writing
  <2>3. v \in WriterType /\ v.pc = "put"
    BY <2>1, <2>2 DEF WriterType, WriterPC
  <2>4. wr' = [wr EXCEPT ![a] = u] \/ wr' = [wr EXCEPT ![a] = v]
    BY <1>1, <1>7 DEF SpillPartition, Flushing, WriterType
  <2>5. Ends(u) \/ Ends(v)
    BY <2>2, <2>3, <2>4 DEF Ends
  <2> QED  BY <1>2, <1>7, <2>5 DEF SpillPartition
<1>8. CASE PutBlock(a)
  <2>1. CASE CallDeleted(w.hnd[w.at])
    <3>1. UNCHANGED <<objVars, sp, wr>>
      BY <2>1 DEF CallDeleted
    <3> QED  BY <1>1, <3>1, OutsideStep
  <2>2. CASE UNCHANGED <<objVars, sp>> /\ wr' = Accounted(a)
    BY <1>1, <2>2, AccountedType, OutsideStep
  <2>3. CASE UNCHANGED <<objVars, sp>> /\ wr' = [wr EXCEPT ![a].pc = "total"]
    <3>1. Ends([w EXCEPT !.pc = "total"])
      BY <1>1, <2>3 DEF WriterType, WriterPC, Ends
    <3> QED  BY <1>2, <2>3, <3>1
  <2> QED  BY <1>8, <2>1, <2>2, <2>3 DEF PutBlock
<1>9. CASE PutTotal(a)
  BY <1>1, <1>9, AccountedType, OutsideStep DEF PutTotal
<1>10. CASE ReportLengths(a)
  <2>1. Ends([w EXCEPT !.pc = "written", !.partitionLengths = w.size])
    BY <1>1, <1>10 DEF ReportLengths, WriterType, WriterPC, Ends
  <2> QED  BY <1>2, <1>10, <2>1 DEF ReportLengths
<1>11. CASE StopWriter(a)
  <2>1. Ends([w EXCEPT !.pc = "done"])
    BY <1>1, <1>11 DEF StopWriter, WriterType, WriterPC, Ends
  <2> QED  BY <1>2, <1>11, <2>1 DEF StopWriter
<1>12. CASE FailTask(a)
  <2>1. NewWriter \in WriterType
    BY DEF NewWriter, WriterType, WriterPC, Zeros, PerPartition, Partitions
  <2>2. Ends([NewWriter EXCEPT !.pc = "failed"])
    BY <1>12, <2>1 DEF FailTask, WriterType, WriterPC, Ends
  <2> QED  BY <1>2, <1>12, <2>2 DEF FailTask
<1> QED  BY <1>3, <1>4, <1>5, <1>6, <1>7, <1>8, <1>9, <1>10, <1>11, <1>12

\* The two steps inside getPersistentMemoryHandler.
LEMMA HandlerMade ==
  ASSUME ExecutorInv, NEW a \in Attempts,
         CreateHandler(a) \/ AssignHandler(a)
  PROVE  ExecutorInv'
<1> USE ExecutorAssumption
<1>1. wr \in [Attempts -> WriterType] /\ wr[a] \in WriterType
  BY DEF ExecutorInv, ObjectType
<1>2. CASE CreateHandler(a)
  <2> DEFINE v == [wr[a] EXCEPT !.pc = "create"]
  <2>1. v \in WriterType /\ v.pc = "create" /\ wr' = [wr EXCEPT ![a] = v]
    BY <1>1, <1>2 DEF CreateHandler, WriterType, WriterPC
  <2> HIDE DEF v
  <2>2. ObjectType'
    BY <1>1, <1>2, <2>1 DEF CreateHandler, ExecutorInv, ObjectType
  <2>3. OpenAre({}) /\ monitor = Nobody
    BY <1>2 DEF CreateHandler, MonitorFree, ExecutorInv, MonitorInv, OpenAre
  <2>4. OpenAre({made})'
    BY <1>2, <2>3 DEF CreateHandler, OpenAre, ExecutorInv, ObjectType,
       MonitorInv, Handlers
  <2>5. sp.pc = "idle"
    BY <2>3 DEF ExecutorInv, MonitorInv, ObjectType, Nobody, Stopper
  <2>6. \A b \in Attempts : wr'[b].pc = "create" => b = a
    BY <1>1, <2>1, <2>3 DEF ExecutorInv, MonitorInv, Writing, Nobody
  <2>7. monitor' = a /\ a # Nobody /\ made' > 0 /\ sp' = sp
    BY <1>2 DEF CreateHandler, ExecutorInv, ObjectType, Nobody
  <2>8. \A h \in Handlers : h > made' => closes'[h] = 0
    BY <1>2 DEF CreateHandler, ExecutorInv, ObjectType, MonitorInv, Handlers
  <2>9. MonitorInv'
    BY <2>4, <2>5, <2>6, <2>7, <2>8 DEF MonitorInv, Writing
  <2> QED  BY <2>2, <2>9 DEF ExecutorInv
<1>3. CASE AssignHandler(a)
  <2>1. monitor = a /\ made > 0 /\ made \in Nat /\ OpenAre({made})
    BY <1>3 DEF AssignHandler, ExecutorInv, MonitorInv, ObjectType
  <2>2. wr' = StreamMade(a, made)
    BY <1>3 DEF AssignHandler
  <2>3. ObjectType'
    BY <1>1, <1>3, <2>1, <2>2, StreamMadeType
    DEF AssignHandler, ExecutorInv, ObjectType
  <2>4. OpenAre({handler} \ {0})'
    BY <1>3, <2>1 DEF AssignHandler, OpenAre, Handlers
  <2>5. sp.pc = "idle"
    BY <2>1 DEF ExecutorInv, MonitorInv, ObjectType, Stopper
  <2>6. \A b \in Attempts : wr'[b].pc # "create"
    BY <1>1, <2>1, <2>2, StreamMadeType DEF ExecutorInv, MonitorInv, Writing
  <2>7. MonitorInv'
    BY <1>3, <2>4, <2>5, <2>6
    DEF AssignHandler, ExecutorInv, MonitorInv, Writing
  <2> QED  BY <2>3, <2>7 DEF ExecutorInv
<1> QED  BY <1>2, <1>3

\* stop().
LEMMA StopSteps ==
  ASSUME ExecutorInv, EnterStop \/ CloseDevice \/ LeaveStop
  PROVE  ExecutorInv'
<1> USE ExecutorAssumption
<1>0. \A b \in Attempts : b # Stopper /\ b # Nobody
  BY DEF Stopper, Nobody
<1>1. sp \in [pc : {"idle", "close", "leave"}, stops : Nat]
  BY DEF ExecutorInv, ObjectType
<1>2. CASE EnterStop
  <2>1. monitor = Nobody /\ OpenAre({handler} \ {0})
    BY <1>2 DEF EnterStop, MonitorFree, ExecutorInv, MonitorInv
  <2>2. \A b \in Attempts : wr[b].pc # "create"
    BY <1>0, <2>1 DEF ExecutorInv, MonitorInv, Writing
  <2>3. UNCHANGED <<handler, made, closes, wr>>
    BY <1>2 DEF EnterStop
  <2>4. sp' \in [pc : {"idle", "close", "leave"}, stops : Nat]
    BY <1>1, <1>2 DEF EnterStop
  <2>5. ObjectType'
    BY <2>3, <2>4 DEF ExecutorInv, ObjectType
  <2>6. CASE monitor' = Stopper /\ handler # 0
             /\ sp' = [pc |-> "close", stops |-> sp.stops + 1]
    BY <2>1, <2>2, <2>3, <2>5, <2>6
    DEF ExecutorInv, MonitorInv, OpenAre, Writing, Nobody, Stopper
  <2>7. CASE monitor' = monitor /\ sp' = [sp EXCEPT !.stops = @ + 1]
    BY <1>1, <2>1, <2>2, <2>3, <2>5, <2>7
    DEF ExecutorInv, MonitorInv, OpenAre, Writing, Nobody, Stopper
  <2> QED  BY <1>2, <2>5, <2>6, <2>7 DEF EnterStop, ExecutorInv
<1>3. CASE CloseDevice
  <2>1. /\ sp.pc = "close" /\ monitor = Stopper /\ handler # 0
        /\ OpenAre({handler})
    BY <1>3 DEF CloseDevice, ExecutorInv, MonitorInv
  <2>2. handler \in Handlers /\ handler <= made /\ closes[handler] = 0
    BY <2>1 DEF ExecutorInv, ObjectType, OpenAre, Handlers
  <2>3. closes' = [closes EXCEPT ![handler] = 1]
    BY <1>3, <2>2 DEF CloseDevice
  <2>4. /\ UNCHANGED <<monitor, handler, made, wr>>
        /\ sp' \in [pc : {"idle", "close", "leave"}, stops : Nat]
        /\ sp'.pc = "leave"
    BY <1>1, <1>3 DEF CloseDevice
  <2>a. closes \in [Handlers -> 0 .. 1] /\ 1 \in 0 .. 1
    BY DEF ExecutorInv, ObjectType
  <2>b. closes' \in [Handlers -> 0 .. 1]
    BY <2>3, <2>a
  <2>5. ObjectType'
    BY <2>4, <2>b DEF ExecutorInv, ObjectType
  <2>6. OpenAre({})'
    BY <2>1, <2>3, <2>4 DEF OpenAre, ExecutorInv, ObjectType
  <2>7. \A b \in Attempts : wr[b].pc # "create"
    BY <1>0, <2>1 DEF ExecutorInv, MonitorInv, Writing
  <2>8. MonitorInv'
    BY <2>1, <2>2, <2>3, <2>4, <2>6, <2>7
    DEF ExecutorInv, ObjectType, MonitorInv, Writing, Stopper, Nobody, Handlers
  <2> QED  BY <2>5, <2>8 DEF ExecutorInv
<1>4. CASE LeaveStop
  <2>1. sp.pc = "leave" /\ monitor = Stopper /\ OpenAre({})
    BY <1>4 DEF LeaveStop, ExecutorInv, MonitorInv
  <2>2. /\ UNCHANGED <<made, closes, wr>> /\ handler' = 0
        /\ sp' \in [pc : {"idle", "close", "leave"}, stops : Nat]
        /\ sp'.pc = "idle"
    BY <1>1, <1>4 DEF LeaveStop
  <2>3. ObjectType'
    BY <2>2 DEF ExecutorInv, ObjectType
  <2>4. OpenAre({handler} \ {0})'
    BY <2>1, <2>2 DEF OpenAre
  <2>5. \A b \in Attempts : wr[b].pc # "create"
    BY <1>0, <2>1 DEF ExecutorInv, MonitorInv, Writing
  <2>6. MonitorInv'
    BY <2>2, <2>4, <2>5 DEF ExecutorInv, MonitorInv, Writing
  <2> QED  BY <2>3, <2>6 DEF ExecutorInv
<1> QED  BY <1>2, <1>3, <1>4

\* Fetching only reads the object and its stores.
LEMMA FetchSteps ==
  ASSUME ExecutorInv,
         \/ \E p \in Partitions, kind \in {"remote", "nio", "local"} :
              AskBlock(p, kind)
         \/ FetchStep \/ AbortFetch
  PROVE  ExecutorInv'
<1>1. UNCHANGED <<objVars, sp, wr>>
  BY DEF AskBlock, FetchStep, AbortFetch, GetBlockData, GetSize, GetBlockInfo,
     GetAvailable, LoadBlocks, ReadOne, ReadLoaded, ReadArray, TakeBytes,
     SendNetty, CopyNio, FinishFetch, FetchOnly, CallDeleted
<1> QED  BY <1>1, OutsideStep DEF ExecutorInv, ObjectType

\* Every step of the executor keeps the invariant.
LEMMA ExecutorStep ==
  ASSUME ExecutorInv, [ENext]_evars
  PROVE  ExecutorInv'
<1>1. CASE \E a \in Attempts : WriterStep(a)
  BY <1>1, WriterOutside, HandlerMade DEF WriterStep
<1>2. CASE EnterStop \/ StopStep
  BY <1>2, StopSteps DEF StopStep
<1>3. CASE \/ \E p \in Partitions, kind \in {"remote", "nio", "local"} :
                AskBlock(p, kind)
           \/ FetchStep \/ AbortFetch
  BY <1>3, FetchSteps
<1>4. CASE UNCHANGED evars
  BY <1>4, OutsideStep DEF evars, ExecutorInv, ObjectType
<1> QED  BY <1>1, <1>2, <1>3, <1>4 DEF ENext

\* Between synchronized methods the executor has exactly the store of its
\* handler open, and no store is closed twice: however many tasks race to
\* create the handler while stop() closes it.
THEOREM SingleStore == ESpec => []OneStore
<1>1. EInit => ExecutorInv
  BY ExecutorInit
<1>2. ExecutorInv /\ [ENext]_evars => ExecutorInv'
  BY ExecutorStep
<1>3. ExecutorInv => OneStore
  <2> SUFFICES ASSUME ExecutorInv PROVE OneStore
    OBVIOUS
  <2>1. \A h \in Handlers : closes[h] <= 1
    BY DEF ExecutorInv, ObjectType
  <2>2. ASSUME MonitorFree
        PROVE  {h \in 1 .. made : ~Deleted(h)} = {handler} \ {0}
    BY <2>2, ExecutorAssumption
    DEF ExecutorInv, ObjectType, MonitorInv, OpenAre, MonitorFree, Deleted,
        Handlers
  <2> QED  BY <2>1, <2>2 DEF OneStore
<1> QED  BY <1>1, <1>2, <1>3, PTL DEF ESpec
-----------------------------------------------------------------------------
(***************************************************************************)
(* The native buffer of a fetch.                                           *)
(***************************************************************************)
FetchFields == {"pc", "kind", "h", "p", "total_size", "refCount",
                "byteBuffer", "inputStream", "blockInfo", "index",
                "remaining", "available", "closed", "served"}

\* A fetch, as a function of its fields.
IsFetch(x) == DOMAIN x = FetchFields

\* Before size() nobody has retained the buffer.
Unsized == {"idle", "ask", "got"}

\* createInputStream is under way, or the block is served.
Streaming == {"load", "open", "loaded", "eof", "ready", "served"}

\* The references to the buffer of fetch x: a local fetch holds one of its own.
References(x) == IF x.kind = "local" THEN 2 ELSE 1

\* How many references there are, and who has a stream and a direct buffer.
Referenced(x) ==
  /\ IsFetch(x)
  /\ x.pc \in Unsized => x.refCount = 1
  /\ x.pc \in {"sized", "listed"} \cup Streaming => x.refCount = References(x)
  /\ x.pc \in Unsized \cup {"sized", "listed"} => x.inputStream = FALSE
  /\ x.pc \in Streaming => x.inputStream = TRUE
  /\ x.pc \in {"open", "loaded", "eof"} => x.kind = "local"
  /\ x.pc \in {"ready", "served"} => x.kind # "local"
  /\ x.kind = "local" => x.byteBuffer # "held"
  /\ x.pc = "idle" => x.byteBuffer = "null"

\* BufferReleased, of fetch x.
FreedAtEnd(x) ==
  /\ x.pc = "done" => x.closed /\ x.byteBuffer # "held"
  /\ x.pc = "aborted" /\ x.kind # "local" => x.closed = x.inputStream

FetchInv == Referenced(fe) /\ FreedAtEnd(fe)

\* Nothing is fetched at first.
LEMMA FetchInit == EInit => FetchInv
  BY DEF EInit, NewFetch, FetchInv, Referenced, FreedAtEnd, IsFetch, FetchFields,
     Unsized, Streaming, References

\* Steps before the stream exists.
LEMMA EarlySteps ==
  ASSUME FetchInv,
         \/ \E p \in Partitions, kind \in {"remote", "nio", "local"} :
              AskBlock(p, kind)
         \/ GetBlockData \/ GetSize \/ GetBlockInfo \/ GetAvailable
  PROVE  FetchInv'
<1> USE DEF FetchInv, Referenced, FreedAtEnd, IsFetch, Unsized, Streaming,
    References, Fetching
<1>0. DOMAIN fe = FetchFields  OBVIOUS
<1>1. CASE UNCHANGED fe  BY <1>1
<1>2. ASSUME NEW p \in Partitions, NEW kind \in {"remote", "nio", "local"},
             AskBlock(p, kind)
      PROVE  FetchInv'
  BY <1>0, <1>2 DEF AskBlock, FetchFields
<1>3. CASE GetBlockData  BY <1>0, <1>3 DEF GetBlockData, FetchFields
<1>4. CASE GetSize
  <2>1. CASE CallDeleted(fe.h)  BY <1>1, <2>1 DEF CallDeleted
  <2>2. CASE ~CallDeleted(fe.h)
    <3> DEFINE n == kv[fe.h][fe.p].total
    <3>1. /\ fe.pc = "got"
          /\ fe' = [fe EXCEPT !.pc = "sized", !.total_size = n,
                      !.refCount = IF fe.kind = "local" THEN @ + 1 ELSE @]
      BY <1>4, <2>2 DEF GetSize
    <3> HIDE DEF n
    <3> QED  BY <1>0, <3>1 DEF FetchFields
  <2> QED  BY <2>1, <2>2
<1>5. CASE GetBlockInfo
  <2>1. CASE CallDeleted(fe.h)  BY <1>1, <2>1 DEF CallDeleted
  <2>2. CASE ~CallDeleted(fe.h)
    <3> DEFINE l == kv[fe.h][fe.p].list
               i == Sizes(l)
    <3>1. /\ fe.pc = "sized"
          /\ fe' = [fe EXCEPT !.pc = IF l = <<>> THEN "absent" ELSE "listed",
                              !.blockInfo = i]
      BY <1>5, <2>2 DEF GetBlockInfo
    <3> HIDE DEF l, i
    <3> QED  BY <1>0, <3>1 DEF FetchFields
  <2> QED  BY <2>1, <2>2
<1>6. CASE GetAvailable
  <2>1. CASE CallDeleted(fe.h)  BY <1>1, <2>1 DEF CallDeleted
  <2>2. CASE ~CallDeleted(fe.h)
    <3> DEFINE n == kv[fe.h][fe.p].total
    <3>1. /\ fe.pc = "listed"
          /\ fe' = [fe EXCEPT !.pc = "load", !.available = n,
                              !.inputStream = TRUE]
      BY <1>6, <2>2 DEF GetAvailable
    <3> HIDE DEF n
    <3> QED  BY <1>0, <3>1 DEF FetchFields
  <2> QED  BY <2>1, <2>2
<1> QED  BY <1>2, <1>3, <1>4, <1>5, <1>6

\* Steps that move bytes.
LEMMA DataSteps ==
  ASSUME FetchInv,
         \/ LoadBlocks \/ ReadOne \/ ReadLoaded
         \/ \E len \in 1 .. MaxLen : ReadArray(len)
         \/ SendNetty \/ CopyNio
  PROVE  FetchInv'
<1> USE DEF FetchInv, Referenced, FreedAtEnd, IsFetch, Unsized, Streaming,
    References, Fetching
<1>0. DOMAIN fe = FetchFields  OBVIOUS
<1>1. ASSUME NEW n, TakeBytes(n), fe.pc \in {"open", "loaded"} PROVE FetchInv'
  <2> DEFINE r == fe.remaining - n
             v == fe.available - n
             s == fe.served \o got'
  <2>1. fe' = [fe EXCEPT !.pc = "open", !.remaining = r, !.available = v,
                         !.served = s]
    BY <1>1 DEF TakeBytes
  <2> HIDE DEF r, v, s
  <2> QED  BY <1>0, <1>1, <2>1 DEF FetchFields
<1>2. ASSUME NEW x, x = Loaded(fe)
      PROVE  /\ DOMAIN x = FetchFields /\ x.pc = fe.pc /\ x.kind = fe.kind
             /\ x.refCount = fe.refCount /\ x.inputStream = fe.inputStream
             /\ x.byteBuffer = fe.byteBuffer /\ x.closed = fe.closed
  <2> DEFINE i == fe.index + 1
             r == fe.remaining + NextBlock(fe)
  <2>1. x = [fe EXCEPT !.index = i, !.remaining = r]  BY <1>2 DEF Loaded
  <2> HIDE DEF i, r
  <2> QED  BY <1>0, <2>1 DEF FetchFields
<1>3. CASE LoadBlocks
  <2>1. CASE fe' = Loaded(fe)  BY <1>2, <1>3, <2>1 DEF LoadBlocks
  <2>2. CASE fe' = [fe EXCEPT !.pc = IF fe.kind = "local" THEN "open"
                                                          ELSE "ready"]
    BY <1>0, <1>3, <2>2 DEF LoadBlocks, FetchFields
  <2> QED  BY <1>3, <2>1, <2>2 DEF LoadBlocks
<1>4. CASE ReadOne
  <2>0. fe.pc = "open"  BY <1>4 DEF ReadOne
  <2>1. CASE TakeBytes(1)  BY <1>1, <2>0, <2>1
  <2>2. CASE fe' = [Loaded(fe) EXCEPT !.pc = "loaded"]
    <3> DEFINE x == Loaded(fe)
    <3>1. /\ DOMAIN x = FetchFields /\ x.pc = fe.pc /\ x.kind = fe.kind
          /\ x.refCount = fe.refCount /\ x.inputStream = fe.inputStream
          /\ x.byteBuffer = fe.byteBuffer /\ x.closed = fe.closed
      BY <1>2
    <3>2. fe' = [x EXCEPT !.pc = "loaded"]  BY <2>2
    <3> HIDE DEF x
    <3> QED  BY <2>0, <3>1, <3>2 DEF FetchFields
  <2>3. CASE fe' = [fe EXCEPT !.pc = "eof"]
    BY <1>0, <2>0, <2>3 DEF FetchFields
  <2> QED  BY <1>4, <2>1, <2>2, <2>3 DEF ReadOne
<1>5. CASE ReadLoaded  BY <1>1, <1>5 DEF ReadLoaded
<1>6. ASSUME NEW len \in 1 .. MaxLen, ReadArray(len) PROVE FetchInv'
  <2>0. fe.pc = "open"  BY <1>6 DEF ReadArray
  <2>1. CASE TakeBytes(LesserOf(len, fe.remaining))  BY <1>1, <2>0, <2>1
  <2>2. CASE fe' = [fe EXCEPT !.pc = "eof"]
    BY <1>0, <2>0, <2>2 DEF FetchFields
  <2> QED  BY <1>6, <2>1, <2>2 DEF ReadArray
<1>7. CASE SendNetty
  <2> DEFINE s == [i \in 1 .. fe.total_size |->
                            IF i <= cap THEN data[i - 1] ELSE 0]
  <2>1. fe.pc = "ready" /\ fe' = [fe EXCEPT !.pc = "served", !.served = s]
    BY <1>7 DEF SendNetty
  <2> HIDE DEF s
  <2> QED  BY <1>0, <2>1 DEF FetchFields
<1>8. CASE CopyNio
  <2> DEFINE n == LesserOf(fe.total_size, fe.remaining)
             r == fe.remaining - n
             v == fe.available - n
             s == got'
  <2>1. /\ fe.pc = "ready" /\ fe.kind = "nio"
        /\ fe' = [fe EXCEPT !.pc = "served", !.byteBuffer = "held",
                    !.remaining = r, !.available = v, !.served = s]
    BY <1>8 DEF CopyNio
  <2> HIDE DEF r, v, s
  <2> QED  BY <1>0, <2>1 DEF FetchFields
<1> QED  BY <1>3, <1>4, <1>5, <1>6, <1>7, <1>8

\* The end of a fetch: the last release closes the stream.
LEMMA EndSteps ==
  ASSUME FetchInv, FinishFetch \/ AbortFetch
  PROVE  FetchInv'
<1> USE DEF FetchInv, Referenced, FreedAtEnd, IsFetch, Unsized, Streaming,
    References, Fetching
<1>0. DOMAIN fe = FetchFields  OBVIOUS
<1>1. CASE fe.pc = "served" /\ fe' = [Released(fe) EXCEPT !.pc = "done"]
  <2>1. fe.refCount = 1 /\ fe.inputStream = TRUE  BY <1>1
  <2> DEFINE x == [fe EXCEPT !.refCount = 0,
                     !.byteBuffer = IF @ = "held" THEN "cleaned" ELSE @]
  <2>2. /\ DOMAIN x = FetchFields /\ x.inputStream = TRUE
        /\ x.kind = fe.kind /\ x.byteBuffer # "held"
    BY <1>0, <2>1 DEF FetchFields
  <2>3. Released(fe) = Closed(x)  BY <2>1 DEF Released
  <2> HIDE DEF x
  <2>4. fe' = [[x EXCEPT !.closed = TRUE] EXCEPT !.pc = "done"]
    BY <1>1, <2>2, <2>3 DEF Closed
  <2> QED  BY <2>2, <2>4 DEF FetchFields
<1>2. CASE fe.pc = "eof" /\ fe' = [Released(Closed(fe)) EXCEPT !.pc = "done"]
  <2>1. /\ fe.refCount = 2 /\ fe.inputStream = TRUE /\ fe.kind = "local"
        /\ fe.byteBuffer # "held"
    BY <1>2
  <2> DEFINE x == [fe EXCEPT !.closed = TRUE]
  <2>2. Closed(fe) = x  BY <2>1 DEF Closed
  <2>3. /\ DOMAIN x = FetchFields /\ x.refCount = 2 /\ x.kind = "local"
        /\ x.closed = TRUE /\ x.byteBuffer # "held" /\ x.inputStream = TRUE
    BY <1>0, <2>1 DEF FetchFields
  <2> HIDE DEF x
  <2>4. Released(x) = [x EXCEPT !.refCount = 1]  BY <2>3 DEF Released
  <2>5. fe' = [[x EXCEPT !.refCount = 1] EXCEPT !.pc = "done"]
    BY <1>2, <2>2, <2>4
  <2> QED  BY <2>3, <2>5 DEF FetchFields
<1>3. CASE AbortFetch
  <2>1. /\ fe.pc \in {"sized", "open", "ready", "got"}
        /\ fe.pc = "got" => fe.kind # "local"
        /\ fe' = [Released(fe) EXCEPT !.pc = "aborted"]
    BY <1>3 DEF AbortFetch
  <2>2. CASE fe.kind = "local"
    <3>1. fe.refCount = 2  BY <2>1, <2>2
    <3>2. Released(fe) = [fe EXCEPT !.refCount = 1]  BY <3>1 DEF Released
    <3>3. fe' = [[fe EXCEPT !.refCount = 1] EXCEPT !.pc = "aborted"]
      BY <2>1, <3>2
    <3> QED  BY <1>0, <2>2, <3>3 DEF FetchFields
  <2>3. CASE fe.kind # "local"
    <3>1. fe.refCount = 1  BY <2>1, <2>3
    <3> DEFINE x == [fe EXCEPT !.refCount = 0,
                       !.byteBuffer = IF @ = "held" THEN "cleaned" ELSE @]
    <3>2. /\ DOMAIN x = FetchFields /\ x.inputStream = fe.inputStream
          /\ x.kind = fe.kind
      BY <1>0 DEF FetchFields
    <3>3. Released(fe) = Closed(x)  BY <3>1 DEF Released
    <3> HIDE DEF x
    <3>4. fe' = [[x EXCEPT !.closed = x.inputStream] EXCEPT !.pc = "aborted"]
      BY <2>1, <3>3 DEF Closed
    <3> QED  BY <2>3, <3>2, <3>4 DEF FetchFields
  <2> QED  BY <2>2, <2>3
<1> QED  BY <1>1, <1>2, <1>3 DEF FinishFetch

\* Every step of the executor keeps the references right.
LEMMA FetchInvStep ==
  ASSUME FetchInv, [ENext]_evars
  PROVE  FetchInv'
<1>1. CASE UNCHANGED fe  BY <1>1 DEF FetchInv
<1>2. ASSUME NEW a \in Attempts, WriterStep(a) PROVE UNCHANGED fe
  BY <1>2
  DEF WriterStep, StartTask, GetHandler, CreateHandler, AssignHandler,
      WriteRecordTo, EndRecords, SpillPartition, PutBlock, PutTotal,
      ReportLengths, StopWriter, FailTask, CallDeleted
<1>3. CASE EnterStop \/ StopStep
  BY <1>1, <1>3 DEF EnterStop, StopStep, CloseDevice, LeaveStop
<1>4. CASE \/ \E p \in Partitions, kind \in {"remote", "nio", "local"} :
                AskBlock(p, kind)
           \/ FetchStep \/ AbortFetch
  BY <1>4, EarlySteps, DataSteps, EndSteps DEF FetchStep
<1> QED  BY <1>1, <1>2, <1>3, <1>4 DEF ENext, evars

\* A fetch that has ended holds no native memory, and one that was given up
\* none that a release can free, whatever point it was given up at and
\* whatever the writers and stop() did meanwhile.
THEOREM BuffersFreed == ESpec => []BufferReleased
<1>1. FetchInv /\ [ENext]_evars => FetchInv'  BY FetchInvStep
<1>2. FetchInv => BufferReleased
  BY DEF FetchInv, FreedAtEnd, BufferReleased, Fetching
<1> QED  BY <1>1, <1>2, FetchInit, PTL DEF ESpec

-----------------------------------------------------------------------------
(***************************************************************************)
(* What the writers have stored.                                           *)
(***************************************************************************)
Block == [by : Attempts, size : Nat \ {0}]
Key == [list : Seq(Block), total : Nat]

\* The stages of nvmShuffleWriter: streams are being made; they exist; the
\* lengths have been reported.
Opening == {"new", "open", "create"}
Opened == {"write", "put", "total", "spill", "written", "done"}
Reported == {"written", "done"}

\* The fields of one writer; m handlers have been made.
WriterFits(x, m) ==
  /\ \A q \in Partitions : x.size[q] + x.buf[q] = x.out[q]
  /\ x.pc \in Opening \cup {"failed"} => \A q \in Partitions : x.out[q] = 0
  /\ x.pc \in Opening =>
       x.p \in Partitions /\ \A q \in Partitions : q < x.p => x.hnd[q] \in 1 .. m
  /\ x.pc \in Opened => \A q \in Partitions : x.hnd[q] \in 1 .. m
  /\ x.pc \in {"put", "total"} => x.buf[x.at] > 0
  /\ x.pc \in Opening \cup {"write"} => x.ret = "write"
  /\ x.pc = "spill" => x.ret = "spill"
  /\ x.pc \in {"spill", "put", "total"} /\ x.ret = "spill" =>
       \A q \in Partitions :
         q < x.p => x.buf[q] = 0 \/ (x.pc # "spill" /\ x.at = q)
  /\ x.pc \in Reported =>
       \A q \in Partitions : /\ x.partitionLengths[q] = x.out[q]
                             /\ x.size[q] = x.out[q]

\* Writer x has linked a block under partition q of store h and not yet
\* counted it.
Lags(x, h, q) == x.pc = "total" /\ x.at = q /\ x.hnd[q] = h

\* What attempt a has under partition q of store h.
Share(x, h, q) ==
  IF x.hnd[q] # h THEN 0
  ELSE IF Lags(x, h, q) THEN x.size[q] + x.buf[q] ELSE x.size[q]

\* The store holds what writer x of attempt a has flushed.
Flushed(a, x) ==
  x.pc # "failed" =>
    \A h \in Handlers, q \in Partitions :
      BytesBy(a, kv[h][q].list) = Share(x, h, q)

\* total_size of list k is behind by the block that is being appended.
Total(k, h, q) ==
  /\ (\A a \in Attempts : ~Lags(wr[a], h, q)) =>
       k.total = EndOf(k.list, Len(k.list))
  /\ \A a \in Attempts : Lags(wr[a], h, q) =>
       /\ Len(k.list) > 0 /\ k.list[Len(k.list)] = [by |-> a, size |-> wr[a].buf[q]]
       /\ k.total = EndOf(k.list, Len(k.list) - 1)

OneAppends ==
  \A a, b \in Attempts :
    Writing(a, "total") /\ Writing(b, "total")
      /\ wr[a].hnd[wr[a].at] = wr[b].hnd[wr[b].at] => a = b

StoreInv ==
  /\ kv \in [Handlers -> [Partitions -> Key]]
  /\ \A a \in Attempts : WriterFits(wr[a], made) /\ Flushed(a, wr[a])
  /\ \A h \in Handlers, q \in Partitions : Total(kv[h][q], h, q)
  /\ OneAppends
  /\ commit \in Attempts \cup {0}
  /\ commit # 0 => Writing(commit, "done")

\* A list of blocks as a list of numbers.
LEMMA SizesType ==
  ASSUME NEW l \in Seq(Block)
  PROVE  /\ Sizes(l) \in Seq(Nat) /\ Len(Sizes(l)) = Len(l)
         /\ Sizes(l) \in Seq(Nat \ {0})
         /\ Len(l) \in Nat /\ DOMAIN l = 1 .. Len(l)
         /\ \A i \in 1 .. Len(l) : Sizes(l)[i] = l[i].size
<1>1. Len(l) \in Nat /\ DOMAIN l = 1 .. Len(l)  OBVIOUS
<1>2. \A i \in 1 .. Len(l) : l[i] \in Block  OBVIOUS
<1>3. \A i \in 1 .. Len(l) : l[i].size \in Nat \ {0}  BY <1>2 DEF Block
<1>4. Sizes(l) = [i \in 1 .. Len(l) |-> l[i].size]  BY <1>1 DEF Sizes
<1> QED  BY <1>1, <1>3, <1>4

\* The sizes of the blocks of attempt a, 0 for the others.
SizesOf(a, l) == [i \in DOMAIN l |-> IF l[i].by = a THEN l[i].size ELSE 0]

\* They are numbers.
LEMMA SizesOfType ==
  ASSUME NEW l \in Seq(Block), NEW a
  PROVE  /\ SizesOf(a, l) \in Seq(Nat) /\ Len(SizesOf(a, l)) = Len(l)
         /\ \A i \in 1 .. Len(l) :
              SizesOf(a, l)[i] = IF l[i].by = a THEN l[i].size ELSE 0
         /\ BytesBy(a, l) = SumFirst(SizesOf(a, l), Len(l))
<1>1. Len(l) \in Nat /\ DOMAIN l = 1 .. Len(l)  OBVIOUS
<1>2. \A i \in 1 .. Len(l) : l[i] \in Block  OBVIOUS
<1>3. \A i \in 1 .. Len(l) :
        (IF l[i].by = a THEN l[i].size ELSE 0) \in Nat
  BY <1>2 DEF Block
<1>4. SizesOf(a, l) = [i \in 1 .. Len(l) |-> IF l[i].by = a THEN l[i].size ELSE 0]
  BY <1>1 DEF SizesOf
<1>5. BytesBy(a, l) = SumFirst(SizesOf(a, l), Len(l))
  BY DEF BytesBy, SizesOf
<1> QED  BY <1>1, <1>3, <1>4, <1>5

\* List u is list l with one block more.
Extends(l, u, b) ==
  /\ u \in Seq(Block) /\ Len(u) = Len(l) + 1 /\ u[Len(l) + 1] = b
  /\ \A i \in 1 .. Len(l) : u[i] = l[i]

\* What one block more does to the sums.
LEMMA ExtendSums ==
  ASSUME NEW l \in Seq(Block), NEW b \in Block, NEW u, Extends(l, u, b)
  PROVE  /\ \A i \in 0 .. Len(l) : EndOf(u, i) = EndOf(l, i)
         /\ EndOf(u, Len(u)) = EndOf(l, Len(l)) + b.size
         /\ EndOf(l, Len(l)) \in Nat
         /\ \A a : BytesBy(a, u) = BytesBy(a, l) + (IF b.by = a THEN b.size ELSE 0)
         /\ \A a : BytesBy(a, l) \in Nat
<1> DEFINE n == Len(l)
<1>1. /\ n \in Nat /\ u \in Seq(Block) /\ Len(u) = n + 1 /\ u[n + 1] = b
      /\ \A i \in 1 .. n : u[i] = l[i]
  BY DEF Extends
<1>2. n + 1 \in 1 .. Len(u) /\ (n + 1) - 1 = n /\ n \in 0 .. n
      /\ 1 .. n \subseteq 1 .. n + 1 /\ n <= Len(u)
  BY <1>1
<1>3. b.size \in Nat  BY DEF Block
<1>4. ASSUME NEW s \in Seq(Nat), NEW v \in Seq(Nat), NEW e,
             Len(s) = n, Len(v) = n + 1, v[n + 1] = e,
             \A i \in 1 .. n : v[i] = s[i]
      PROVE  /\ \A i \in 0 .. n : SumFirst(v, i) = SumFirst(s, i)
             /\ SumFirst(v, n + 1) = SumFirst(s, n) + e
             /\ SumFirst(s, n) \in Nat
  <2>1. n \in Nat /\ n <= Len(s) /\ n <= Len(v)  BY <1>1, <1>4
  <2> HIDE DEF n
  <2>2. \A i \in 0 .. n : SumFirst(v, i) = SumFirst(s, i)
    BY <1>4, <2>1, SumPrefix
  <2>3. SumFirst(v, n + 1) = SumFirst(v, (n + 1) - 1) + v[n + 1]
    <3>1. n + 1 \in 1 .. Len(v)  BY <1>4, <2>1
    <3> QED  BY <3>1, SumStep
  <2>4. SumFirst(s, n) \in Nat
    <3>1. n \in 0 .. Len(s)  BY <1>4, <2>1
    <3> QED  BY <3>1, SumStep
  <2> QED  BY <1>2, <1>4, <2>2, <2>3, <2>4
<1>5. /\ \A i \in 0 .. n : EndOf(u, i) = EndOf(l, i)
      /\ EndOf(u, n + 1) = EndOf(l, n) + b.size
      /\ EndOf(l, n) \in Nat
  <2> DEFINE s == Sizes(l)
             v == Sizes(u)
  <2>1. /\ s \in Seq(Nat) /\ Len(s) = n /\ v \in Seq(Nat) /\ Len(v) = n + 1
        /\ \A i \in 1 .. n : s[i] = l[i].size
        /\ \A i \in 1 .. n + 1 : v[i] = u[i].size
    BY <1>1, SizesType
  <2>2. v[n + 1] = b.size /\ \A i \in 1 .. n : v[i] = s[i]
    BY <1>1, <1>2, <2>1
  <2>3. \A i : EndOf(u, i) = SumFirst(v, i) /\ EndOf(l, i) = SumFirst(s, i)
    BY DEF EndOf
  <2> HIDE DEF s, v, n
  <2>4. /\ \A i \in 0 .. n : SumFirst(v, i) = SumFirst(s, i)
        /\ SumFirst(v, n + 1) = SumFirst(s, n) + b.size
        /\ SumFirst(s, n) \in Nat
    BY <1>4, <2>1, <2>2
  <2> QED  BY <2>3, <2>4
<1>6. ASSUME NEW a
      PROVE  /\ BytesBy(a, u) = BytesBy(a, l) + (IF b.by = a THEN b.size ELSE 0)
             /\ BytesBy(a, l) \in Nat
  <2> DEFINE s == SizesOf(a, l)
             v == SizesOf(a, u)
             e == IF b.by = a THEN b.size ELSE 0
  <2>1. /\ s \in Seq(Nat) /\ Len(s) = n /\ v \in Seq(Nat) /\ Len(v) = n + 1
        /\ \A i \in 1 .. n : s[i] = IF l[i].by = a THEN l[i].size ELSE 0
        /\ \A i \in 1 .. n + 1 : v[i] = IF u[i].by = a THEN u[i].size ELSE 0
        /\ BytesBy(a, l) = SumFirst(s, n) /\ BytesBy(a, u) = SumFirst(v, n + 1)
    BY <1>1, SizesOfType
  <2>2. v[n + 1] = e /\ \A i \in 1 .. n : v[i] = s[i]
    BY <1>1, <1>2, <2>1
  <2> HIDE DEF s, v, n, e
  <2>3. SumFirst(v, n + 1) = SumFirst(s, n) + e /\ SumFirst(s, n) \in Nat
    BY <1>4, <2>1, <2>2
  <2> QED  BY <2>1, <2>3 DEF e
<1> QED  BY <1>1, <1>5, <1>6

\* Append extends a list.
LEMMA AppendExtends ==
  ASSUME NEW l \in Seq(Block), NEW b \in Block
  PROVE  Extends(l, Append(l, b), b)
  BY DEF Extends

\* An empty list has no bytes.
LEMMA NoBlocks ==
  /\ <<>> \in Seq(Block) /\ EndOf(<<>>, 0) = 0
  /\ \A a : BytesBy(a, <<>>) = 0
<1>1. <<>> \in Seq(Block) /\ Len(<<>>) = 0  OBVIOUS
<1> DEFINE e == <<>>
<1> HIDE DEF e
<1>2. e \in Seq(Block) /\ Len(e) = 0  BY <1>1 DEF e
<1>3. EndOf(e, 0) = 0
  <2>1. Sizes(e) \in Seq(Nat)  BY <1>2, SizesType
  <2> QED  BY <2>1, SumStep DEF EndOf
<1>4. ASSUME NEW a PROVE BytesBy(a, e) = 0
  <2>1. SizesOf(a, e) \in Seq(Nat) /\ BytesBy(a, e) = SumFirst(SizesOf(a, e), 0)
    BY <1>2, SizesOfType
  <2> QED  BY <2>1, SumStep
<1> QED  BY <1>2, <1>3, <1>4 DEF e

-----------------------------------------------------------------------------
\* Nothing is stored at first.
LEMMA StoreInit == EInit => StoreInv
<1> SUFFICES ASSUME EInit PROVE StoreInv  OBVIOUS
<1> USE ExecutorAssumption
<1> DEFINE k == [list |-> <<>>, total |-> 0]
<1>0. 1 \in Partitions /\ \A q \in Partitions : q \in Nat /\ q >= 1
  BY DEF Partitions
<1>1. \A a \in Attempts : wr[a] = NewWriter  BY DEF EInit
<1>2. \A h \in Handlers, q \in Partitions : kv[h][q] = k  BY DEF EInit
<1>3. k \in Key  BY NoBlocks DEF Key
<1>4. kv \in [Handlers -> [Partitions -> Key]]
  BY <1>3 DEF EInit
<1>5. WriterFits(NewWriter, made)
  BY <1>0 DEF WriterFits, NewWriter, Zeros, Opening, Opened, Reported
<1>6. \A h, q : ~Lags(NewWriter, h, q)  BY DEF Lags, NewWriter
<1>7. \A h \in Handlers, q \in Partitions : Share(NewWriter, h, q) = 0
  BY <1>6 DEF Share, NewWriter, Zeros
<1>8. k.list = <<>> /\ k.total = 0  OBVIOUS
<1>a. Len(<<>>) = 0  OBVIOUS
<1> HIDE DEF k
<1>9. \A a \in Attempts : Flushed(a, wr[a])
  BY <1>1, <1>2, <1>7, <1>8, NoBlocks DEF Flushed
<1>10. \A h \in Handlers, q \in Partitions : Total(kv[h][q], h, q)
  BY <1>1, <1>2, <1>6, <1>8, <1>a, NoBlocks DEF Total
<1>11. OneAppends
  BY <1>1 DEF OneAppends, Writing, NewWriter
<1>12. commit = 0  BY DEF EInit
<1> QED  BY <1>1, <1>4, <1>5, <1>9, <1>10, <1>11, <1>12 DEF StoreInv

\* More handlers do not disturb a writer.
LEMMA MoreHandlers ==
  ASSUME NEW x, NEW m \in Nat, NEW n \in Nat, m <= n, WriterFits(x, m)
  PROVE  WriterFits(x, n)
<1>1. \A i : i \in 1 .. m => i \in 1 .. n  OBVIOUS
<1> QED  BY <1>1 DEF WriterFits

\* Writer x becomes y, and has the same bytes in the stores.
KeepsShare(x, y) ==
  \/ y.pc = "failed"
  \/ /\ x.pc # "failed"
     /\ \A q \in Partitions : /\ y.size[q] = x.size[q]
                              /\ y.hnd[q] = x.hnd[q] \/ x.size[q] = 0

\* A step of attempt a that leaves the stores alone.
LEMMA QuietMove ==
  ASSUME StoreInv, NEW a \in Attempts, kv' = kv,
         made \in Nat, made' \in Nat, made <= made',
         \A b \in Attempts : b # a => wr'[b] = wr[b],
         wr[a].pc # "total", wr'[a].pc # "total",
         WriterFits(wr'[a], made'), KeepsShare(wr[a], wr'[a]),
         commit' \in Attempts \cup {0},
         commit' # 0 => wr'[commit'].pc = "done"
  PROVE  StoreInv'
<1>1. \A b \in Attempts : \A h, q : Lags(wr'[b], h, q) <=> Lags(wr[b], h, q)
  BY DEF Lags
<1>2. ASSUME NEW b \in Attempts PROVE WriterFits(wr'[b], made')
  <2>1. CASE b = a  BY <2>1
  <2>2. CASE b # a
    <3>1. WriterFits(wr[b], made)  BY DEF StoreInv
    <3>2. WriterFits(wr[b], made')  BY <3>1, MoreHandlers
    <3> QED  BY <2>2, <3>2
  <2> QED  BY <2>1, <2>2
<1>3. ASSUME NEW b \in Attempts PROVE Flushed(b, wr[b])'
  <2>0. Flushed(b, wr[b])  BY DEF StoreInv
  <2>1. CASE b # a  BY <2>0, <2>1 DEF Flushed
  <2>2. CASE b = a
    <3> DEFINE x == wr[a]
               y == wr'[a]
    <3>1. CASE y.pc = "failed"  BY <2>2, <3>1 DEF Flushed
    <3>2. CASE y.pc # "failed"
      <4>1. /\ x.pc # "failed"
            /\ \A q \in Partitions : /\ y.size[q] = x.size[q]
                                     /\ y.hnd[q] = x.hnd[q] \/ x.size[q] = 0
        BY <3>2 DEF KeepsShare
      <4>2. \A h, q : ~Lags(x, h, q) /\ ~Lags(y, h, q)  BY DEF Lags
      <4>3. \A h \in Handlers, q \in Partitions : Share(y, h, q) = Share(x, h, q)
        BY <4>1, <4>2 DEF Share
      <4> HIDE DEF x, y
      <4>4. \A h \in Handlers, q \in Partitions :
              BytesBy(a, kv[h][q].list) = Share(y, h, q)
        BY <2>0, <2>2, <4>1, <4>3 DEF Flushed, x
      <4> QED  BY <2>2, <4>4 DEF Flushed, y
    <3> QED  BY <3>1, <3>2
  <2> QED  BY <2>1, <2>2
<1>4. ASSUME NEW h \in Handlers, NEW q \in Partitions
      PROVE  Total(kv[h][q], h, q)'
  <2>1. Total(kv[h][q], h, q)  BY DEF StoreInv
  <2>2. \A b \in Attempts : Lags(wr[b], h, q) => wr'[b] = wr[b]
    BY DEF Lags
  <2> QED  BY <1>1, <2>1, <2>2 DEF Total
<1>5. OneAppends'
  BY DEF StoreInv, OneAppends, Writing
<1>6. (commit # 0 => Writing(commit, "done"))'  BY DEF Writing
<1>7. kv' \in [Handlers -> [Partitions -> Key]]  BY DEF StoreInv
<1> QED  BY <1>2, <1>3, <1>4, <1>5, <1>6, <1>7 DEF StoreInv

\* Who has what, of one writer in a state with both invariants.
LEMMA WriterFacts ==
  ASSUME ExecutorInv, StoreInv, NEW a \in Attempts
  PROVE  /\ wr \in [Attempts -> WriterType] /\ wr[a] \in WriterType
         /\ DOMAIN wr = Attempts
         /\ WriterFits(wr[a], made) /\ made \in Nat /\ handler \in 0 .. made
         /\ wr[a].pc # "done" => commit # a
         /\ commit \in Attempts \cup {0}
         /\ commit # 0 => wr[commit].pc = "done"
  BY ExecutorAssumption DEF ExecutorInv, ObjectType, StoreInv, Writing

\* A stream is made for partition x.p of writer x, which becomes y.
LEMMA StreamMadeFits ==
  ASSUME NEW a \in Attempts, NEW m \in Nat, NEW h \in 1 .. m,
         wr \in [Attempts -> WriterType], WriterFits(wr[a], m),
         wr[a].pc \in {"open", "create"}
  PROVE  /\ WriterFits(StreamMade(a, h)[a], m)
         /\ KeepsShare(wr[a], StreamMade(a, h)[a])
         /\ StreamMade(a, h)[a].pc \in {"write", "open"}
         /\ \A b \in Attempts : b # a => StreamMade(a, h)[b] = wr[b]
<1> USE ExecutorAssumption
<1> DEFINE x == wr[a]
           y == StreamMade(a, h)[a]
<1>0. x \in WriterType /\ DOMAIN wr = Attempts  OBVIOUS
<1>1. /\ x.hnd \in [Partitions -> Nat] /\ x.size \in [Partitions -> Nat]
      /\ x.buf \in [Partitions -> Nat] /\ x.out \in [Partitions -> Nat]
      /\ x.p \in Nat
  BY <1>0 DEF WriterType, PerPartition
<1>2. /\ x.p \in Partitions
      /\ \A q \in Partitions : q < x.p => x.hnd[q] \in 1 .. m
      /\ \A q \in Partitions : x.out[q] = 0
      /\ \A q \in Partitions : x.size[q] + x.buf[q] = x.out[q]
      /\ x.ret = "write"
  BY DEF WriterFits, Opening
<1>3. \A q \in Partitions : x.size[q] = 0 /\ x.buf[q] = 0  BY <1>1, <1>2
<1>4. /\ y.size = x.size /\ y.buf = x.buf /\ y.out = x.out
      /\ y.hnd = [x.hnd EXCEPT ![x.p] = h] /\ y.p = x.p + 1 /\ y.ret = x.ret
      /\ y.pc = IF x.p = NumPartitions THEN "write" ELSE "open"
      /\ \A b \in Attempts : b # a => StreamMade(a, h)[b] = wr[b]
  BY <1>0 DEF StreamMade, WriterType
<1> HIDE DEF x, y
<1>5. \A q \in Partitions : y.hnd[q] = IF q = x.p THEN h ELSE x.hnd[q]
  BY <1>1, <1>4
<1>6. \A q \in Partitions : q \in Nat /\ q <= NumPartitions /\ 1 <= q
  BY DEF Partitions
<1>7. \A q \in Partitions : q < x.p + 1 => q = x.p \/ q < x.p
  BY <1>1, <1>6
<1>8. \A q \in Partitions : q < x.p + 1 => y.hnd[q] \in 1 .. m
  BY <1>2, <1>5, <1>7
<1>9. CASE x.p = NumPartitions
  <2>1. \A q \in Partitions : q < x.p + 1  BY <1>6, <1>9
  <2>2. y.pc = "write"  BY <1>4, <1>9
  <2>3. WriterFits(y, m)
    BY <1>2, <1>4, <1>8, <2>1, <2>2 DEF WriterFits, Opening, Reported
  <2> QED  BY <1>3, <1>4, <2>2, <2>3 DEF KeepsShare, x, y
<1>10. CASE x.p # NumPartitions
  <2>1. x.p + 1 \in Partitions  BY <1>2, <1>10 DEF Partitions
  <2>2. y.pc = "open"  BY <1>4, <1>10
  <2>3. WriterFits(y, m)
    BY <1>2, <1>4, <1>8, <2>1, <2>2 DEF WriterFits, Opened, Reported
  <2> QED  BY <1>3, <1>4, <2>2, <2>3 DEF KeepsShare, x, y
<1> QED  BY <1>9, <1>10

\* Steps in which streams are made.
LEMMA OpenSteps ==
  ASSUME ExecutorInv, StoreInv, NEW a \in Attempts,
         \/ StartTask(a) \/ GetHandler(a) \/ CreateHandler(a)
         \/ AssignHandler(a)
  PROVE  StoreInv'
<1>1. /\ wr \in [Attempts -> WriterType] /\ wr[a] \in WriterType
      /\ DOMAIN wr = Attempts
      /\ WriterFits(wr[a], made) /\ made \in Nat /\ handler \in 0 .. made
      /\ wr[a].pc # "done" => commit # a
      /\ commit \in Attempts \cup {0}
      /\ commit # 0 => wr[commit].pc = "done"
  BY WriterFacts
<1> DEFINE x == wr[a]
           y == wr'[a]
<1>2. ASSUME NEW pc \in Opening, x.pc \in Opening, wr' = [wr EXCEPT ![a].pc = pc]
      PROVE  /\ WriterFits(y, made) /\ y.pc = pc /\ KeepsShare(x, y)
             /\ \A b \in Attempts : b # a => wr'[b] = wr[b]
  <2>1. y = [x EXCEPT !.pc = pc] /\ \A b \in Attempts : b # a => wr'[b] = wr[b]
    BY <1>1, <1>2
  <2>2. /\ y.pc = pc /\ y.size = x.size /\ y.buf = x.buf /\ y.out = x.out
        /\ y.hnd = x.hnd /\ y.p = x.p /\ y.ret = x.ret
    BY <1>1, <2>1 DEF WriterType
  <2> HIDE DEF x, y
  <2>3. WriterFits(y, made)
    BY <1>1, <1>2, <2>2 DEF WriterFits, Opening, Opened, Reported, x
  <2>4. KeepsShare(x, y)  BY <1>2, <2>2 DEF KeepsShare, Opening
  <2> QED  BY <2>1, <2>2, <2>3, <2>4
<1>3. CASE StartTask(a)
  <2>1. /\ x.pc = "new" /\ wr' = [wr EXCEPT ![a].pc = "open"]
        /\ UNCHANGED <<kv, made, commit>>
    BY <1>3 DEF StartTask, Writing, objVars
  <2>2. /\ WriterFits(y, made) /\ y.pc = "open" /\ KeepsShare(x, y)
        /\ \A b \in Attempts : b # a => wr'[b] = wr[b]
    BY <1>2, <2>1 DEF Opening
  <2> QED  BY <1>1, <2>1, <2>2, QuietMove
<1>4. CASE CreateHandler(a)
  <2>1. /\ x.pc = "open" /\ wr' = [wr EXCEPT ![a].pc = "create"]
        /\ UNCHANGED <<kv, commit>> /\ made' = made + 1
    BY <1>4 DEF CreateHandler, Writing
  <2>2. /\ WriterFits(y, made) /\ y.pc = "create" /\ KeepsShare(x, y)
        /\ \A b \in Attempts : b # a => wr'[b] = wr[b]
    BY <1>2, <2>1 DEF Opening
  <2>3. made' \in Nat /\ made <= made'  BY <1>1, <2>1
  <2>4. WriterFits(y, made')  BY <1>1, <2>2, <2>3, MoreHandlers
  <2> QED  BY <1>1, <2>1, <2>2, <2>3, <2>4, QuietMove
<1>5. ASSUME NEW h \in 1 .. made, wr' = StreamMade(a, h),
             x.pc \in {"open", "create"}, UNCHANGED <<kv, made, commit>>
      PROVE  StoreInv'
  <2>1. /\ WriterFits(y, made) /\ y.pc \in {"write", "open"}
        /\ KeepsShare(x, y) /\ \A b \in Attempts : b # a => wr'[b] = wr[b]
    BY <1>1, <1>5, StreamMadeFits
  <2> QED  BY <1>1, <1>5, <2>1, QuietMove
<1>6. CASE GetHandler(a)
  BY <1>1, <1>5, <1>6 DEF GetHandler, Writing, objVars
<1>7. CASE AssignHandler(a)
  <2>1. made > 0
    BY <1>7 DEF AssignHandler, ExecutorInv, MonitorInv
  <2>2. made \in 1 .. made  BY <1>1, <2>1
  <2> QED  BY <1>5, <1>7, <2>2 DEF AssignHandler, Writing
<1> QED  BY <1>3, <1>4, <1>6, <1>7

\* Steps that write records and go through the partitions.
LEMMA RecordSteps ==
  ASSUME ExecutorInv, StoreInv, NEW a \in Attempts,
         \/ \E p \in Partitions : WriteRecordTo(a, p)
         \/ EndRecords(a) \/ SpillPartition(a)
  PROVE  StoreInv'
<1> USE ExecutorAssumption
<1>1. /\ wr \in [Attempts -> WriterType] /\ wr[a] \in WriterType
      /\ DOMAIN wr = Attempts
      /\ WriterFits(wr[a], made) /\ made \in Nat
      /\ wr[a].pc # "done" => commit # a
      /\ commit \in Attempts \cup {0}
      /\ commit # 0 => wr[commit].pc = "done"
  BY WriterFacts
<1> DEFINE x == wr[a]
           y == wr'[a]
<1>2. /\ x.hnd \in [Partitions -> Nat] /\ x.size \in [Partitions -> Nat]
      /\ x.buf \in [Partitions -> Nat] /\ x.out \in [Partitions -> Nat]
      /\ x.p \in Nat \ {0} /\ x.at \in Partitions
  BY <1>1 DEF WriterType, PerPartition
<1>3. ASSUME x.pc \in {"write", "spill"}, y.pc \in {"write", "put", "spill"},
             WriterFits(y, made), y.size = x.size, y.hnd = x.hnd,
             \A b \in Attempts : b # a => wr'[b] = wr[b],
             UNCHANGED <<kv, made, commit>>
      PROVE  StoreInv'
  <2>1. KeepsShare(x, y)  BY <1>3 DEF KeepsShare
  <2> QED  BY <1>1, <1>3, <2>1, QuietMove
<1>4. ASSUME NEW p \in Partitions, WriteRecordTo(a, p) PROVE StoreInv'
  <2>1. x.pc = "write" /\ UNCHANGED <<kv, made, commit>>
    BY <1>4 DEF WriteRecordTo, Writing, objVars
  <2> DEFINE w == [wr EXCEPT ![a].buf[p] = @ + 1, ![a].out[p] = @ + 1]
             z == w[a]
  <2>2. wr' = IF w[a].buf[p] >= Throttle THEN Flushing(w, a, p) ELSE w
    BY <1>4 DEF WriteRecordTo
  <2>3. /\ z.pc = x.pc /\ z.p = x.p /\ z.hnd = x.hnd /\ z.size = x.size
        /\ z.partitionLengths = x.partitionLengths /\ z.at = x.at /\ z.ret = x.ret
        /\ z.buf = [x.buf EXCEPT ![p] = x.buf[p] + 1]
        /\ z.out = [x.out EXCEPT ![p] = x.out[p] + 1]
        /\ z \in WriterType
        /\ DOMAIN w = Attempts /\ \A b \in Attempts : b # a => w[b] = wr[b]
    <3>1. w = [wr EXCEPT ![a] = [x EXCEPT !.buf = [x.buf EXCEPT ![p] = x.buf[p] + 1],
                                         !.out = [x.out EXCEPT ![p] = x.out[p] + 1]]]
      BY <1>1 DEF WriterType
    <3>2. /\ [x.buf EXCEPT ![p] = x.buf[p] + 1] \in PerPartition
          /\ [x.out EXCEPT ![p] = x.out[p] + 1] \in PerPartition
      BY <1>2 DEF PerPartition
    <3> QED  BY <1>1, <3>1, <3>2 DEF WriterType
  <2> HIDE DEF w, z
  <2>4. /\ \/ y = z
           \/ y = [z EXCEPT !.pc = "put", !.at = p] /\ z.buf[p] >= Throttle
        /\ \A b \in Attempts : b # a => wr'[b] = wr[b]
    BY <2>2, <2>3 DEF Flushing, z
  <2>5. /\ y.p = x.p /\ y.hnd = x.hnd /\ y.size = x.size /\ y.ret = x.ret
        /\ y.buf = z.buf /\ y.out = z.out
        /\ \/ y.pc = "write"
           \/ y.pc = "put" /\ y.at = p /\ y.buf[p] >= Throttle
    <3> HIDE DEF x, y
    <3>1. CASE y = z  BY <2>1, <2>3, <3>1
    <3>2. CASE y = [z EXCEPT !.pc = "put", !.at = p] /\ z.buf[p] >= Throttle
      BY <2>1, <2>3, <3>2 DEF WriterType
    <3> QED  BY <2>4, <3>1, <3>2
  <2>6. x.ret = "write"
    BY <1>1, <2>1 DEF WriterFits
  <2> HIDE DEF x, y
  <2>7. \A q \in Partitions : y.size[q] + y.buf[q] = y.out[q]
    <3>1. \A q \in Partitions : x.size[q] + x.buf[q] = x.out[q]
      BY <1>1 DEF WriterFits, x
    <3> QED  BY <1>2, <2>3, <2>5, <3>1
  <2>8. \A q \in Partitions : y.hnd[q] \in 1 .. made
    BY <1>1, <2>1, <2>5 DEF WriterFits, Opened, x
  <2>9. WriterFits(y, made)
    <3>1. Throttle \in Nat /\ Throttle > 0 /\ (y.pc = "put" => y.buf[p] \in Nat)
      BY <1>2, <2>3, <2>5
    <3> QED  BY <2>5, <2>6, <2>7, <2>8, <3>1
        DEF WriterFits, Opening, Opened, Reported
  <2> QED  BY <1>3, <2>1, <2>4, <2>5, <2>9 DEF x, y
<1>5. CASE EndRecords(a)
  <2>1. /\ x.pc = "write" /\ UNCHANGED <<kv, made, commit>>
        /\ wr' = [wr EXCEPT ![a].pc = "spill", ![a].ret = "spill", ![a].p = 1]
    BY <1>5 DEF EndRecords, Writing, objVars
  <2>2. /\ y.p = 1 /\ y.hnd = x.hnd /\ y.size = x.size /\ y.ret = "spill"
        /\ y.buf = x.buf /\ y.out = x.out /\ y.pc = "spill"
        /\ \A b \in Attempts : b # a => wr'[b] = wr[b]
    BY <1>1, <2>1 DEF WriterType
  <2>3. \A q \in Partitions : ~(q < 1)  BY DEF Partitions
  <2> HIDE DEF x, y
  <2>4. WriterFits(y, made)
    BY <1>1, <2>1, <2>2, <2>3 DEF WriterFits, Opening, Opened, Reported, x
  <2> QED  BY <1>3, <2>1, <2>2, <2>4 DEF x, y
<1>6. CASE SpillPartition(a)
  <2> DEFINE p == x.p
             w == [wr EXCEPT ![a].p = @ + 1]
             z == w[a]
  <2>1. /\ x.pc = "spill" /\ p <= NumPartitions
        /\ UNCHANGED <<kv, made, commit>>
        /\ wr' = IF w[a].buf[p] > 0 THEN Flushing(w, a, p) ELSE w
    BY <1>6 DEF SpillPartition, Writing, objVars, LastPartition
  <2>2. p \in Partitions  BY <1>2, <2>1 DEF Partitions
  <2>3. /\ z.pc = "spill" /\ z.p = p + 1 /\ z.hnd = x.hnd /\ z.size = x.size
        /\ z.at = x.at /\ z.ret = x.ret /\ z.buf = x.buf /\ z.out = x.out
        /\ z \in WriterType
        /\ DOMAIN w = Attempts /\ \A b \in Attempts : b # a => w[b] = wr[b]
    BY <1>1, <1>2, <2>1 DEF WriterType
  <2> HIDE DEF w, z
  <2>4. /\ \/ y = z /\ ~(z.buf[p] > 0)
           \/ y = [z EXCEPT !.pc = "put", !.at = p] /\ z.buf[p] > 0
        /\ \A b \in Attempts : b # a => wr'[b] = wr[b]
    BY <2>1, <2>3 DEF Flushing, z
  <2>5. /\ y.p = p + 1 /\ y.hnd = x.hnd /\ y.size = x.size /\ y.ret = x.ret
        /\ y.buf = x.buf /\ y.out = x.out
        /\ \/ y.pc = "spill" /\ ~(x.buf[p] > 0)
           \/ y.pc = "put" /\ y.at = p /\ x.buf[p] > 0
    <3> HIDE DEF x, y, p
    <3>1. CASE y = z /\ ~(z.buf[p] > 0)  BY <2>1, <2>3, <3>1
    <3>2. CASE y = [z EXCEPT !.pc = "put", !.at = p] /\ z.buf[p] > 0
      BY <2>1, <2>3, <3>2 DEF WriterType
    <3> QED  BY <2>4, <3>1, <3>2
  <2>6. x.ret = "spill" /\ \A q \in Partitions : q < p => x.buf[q] = 0
    BY <1>1, <2>1 DEF WriterFits
  <2>7. x.buf[p] \in Nat  BY <1>2, <2>2
  <2>8. \A q \in Partitions : q < p + 1 => q < p \/ q = p
    BY <2>2 DEF Partitions
  <2>9. \A q \in Partitions :
          q < y.p => y.buf[q] = 0 \/ (y.pc # "spill" /\ y.at = q)
    BY <2>5, <2>6, <2>7, <2>8
  <2> HIDE DEF x, y, p
  <2>10. WriterFits(y, made)
    BY <1>1, <2>1, <2>5, <2>9 DEF WriterFits, Opening, Opened, Reported, x
  <2> QED  BY <1>3, <2>1, <2>4, <2>5, <2>10 DEF x, y
<1> QED  BY <1>4, <1>5, <1>6

\* Steps at the end of a task: the report, its acceptance, a failure.
LEMMA ReportSteps ==
  ASSUME ExecutorInv, StoreInv, NEW a \in Attempts,
         ReportLengths(a) \/ StopWriter(a) \/ FailTask(a)
  PROVE  StoreInv'
<1> USE ExecutorAssumption
<1>1. /\ wr \in [Attempts -> WriterType] /\ wr[a] \in WriterType
      /\ DOMAIN wr = Attempts
      /\ WriterFits(wr[a], made) /\ made \in Nat
      /\ wr[a].pc # "done" => commit # a
      /\ commit \in Attempts \cup {0}
      /\ commit # 0 => wr[commit].pc = "done"
  BY WriterFacts
<1> DEFINE x == wr[a]
           y == wr'[a]
<1>2. /\ x.hnd \in [Partitions -> Nat] /\ x.size \in [Partitions -> Nat]
      /\ x.buf \in [Partitions -> Nat] /\ x.out \in [Partitions -> Nat]
      /\ x.p \in Nat \ {0} /\ x.at \in Partitions
  BY <1>1 DEF WriterType, PerPartition
<1>3. CASE ReportLengths(a)
  <2>1. /\ x.pc = "spill" /\ x.p > NumPartitions
        /\ wr' = [wr EXCEPT ![a].pc = "written", ![a].partitionLengths = x.size]
        /\ UNCHANGED <<kv, made, commit>>
    BY <1>3 DEF ReportLengths, Writing, objVars, LastPartition
  <2>2. /\ y.pc = "written" /\ y.hnd = x.hnd /\ y.size = x.size /\ y.buf = x.buf
        /\ y.out = x.out /\ y.partitionLengths = x.size
        /\ \A b \in Attempts : b # a => wr'[b] = wr[b]
    BY <1>1, <2>1 DEF WriterType
  <2>3. \A q \in Partitions : q < x.p  BY <1>2, <2>1 DEF Partitions
  <2>4. \A q \in Partitions : x.buf[q] = 0 /\ x.size[q] + x.buf[q] = x.out[q]
    BY <1>1, <2>1, <2>3 DEF WriterFits
  <2>5. \A q \in Partitions : x.size[q] = x.out[q]
    BY <1>2, <2>4
  <2> HIDE DEF x, y
  <2>6. WriterFits(y, made)
    BY <1>1, <2>1, <2>2, <2>5 DEF WriterFits, Opening, Opened, Reported, x
  <2>7. KeepsShare(x, y)  BY <2>1, <2>2 DEF KeepsShare
  <2> QED  BY <1>1, <2>1, <2>2, <2>6, <2>7, QuietMove DEF x, y
<1>4. CASE StopWriter(a)
  <2>1. /\ x.pc = "written" /\ wr' = [wr EXCEPT ![a].pc = "done"]
        /\ UNCHANGED <<kv, made>> /\ commit' = IF commit = 0 THEN a ELSE commit
    BY <1>4 DEF StopWriter, Writing, objVars
  <2>2. /\ y.pc = "done" /\ y.hnd = x.hnd /\ y.size = x.size /\ y.buf = x.buf
        /\ y.out = x.out /\ y.partitionLengths = x.partitionLengths
        /\ \A b \in Attempts : b # a => wr'[b] = wr[b]
    BY <1>1, <2>1 DEF WriterType
  <2>3. commit' \in Attempts \cup {0} /\ (commit' # 0 => wr'[commit'].pc = "done")
    BY <1>1, <2>1, <2>2
  <2> HIDE DEF x, y
  <2>6. WriterFits(y, made)
    BY <1>1, <2>1, <2>2 DEF WriterFits, Opening, Opened, Reported, x
  <2>7. KeepsShare(x, y)  BY <2>1, <2>2 DEF KeepsShare
  <2> QED  BY <1>1, <2>1, <2>2, <2>3, <2>6, <2>7, QuietMove DEF x, y
<1>5. CASE FailTask(a)
  <2>1. /\ x.pc \in {"open", "write", "spill", "put", "written"}
        /\ wr' = [wr EXCEPT ![a] = [NewWriter EXCEPT !.pc = "failed"]]
        /\ UNCHANGED <<kv, made, commit>>
    BY <1>5 DEF FailTask, objVars
  <2>2. /\ y.pc = "failed" /\ y.size = Zeros /\ y.buf = Zeros /\ y.out = Zeros
        /\ \A b \in Attempts : b # a => wr'[b] = wr[b]
    BY <1>1, <2>1 DEF NewWriter
  <2> HIDE DEF x, y
  <2>6. WriterFits(y, made)
    BY <2>2 DEF WriterFits, Opening, Opened, Reported, Zeros
  <2>7. KeepsShare(x, y)  BY <2>2 DEF KeepsShare
  <2> QED  BY <1>1, <2>1, <2>2, <2>6, <2>7, QuietMove DEF x, y
<1> QED  BY <1>3, <1>4, <1>5

\* A step of attempt a in a call of put, for partition p of store h: what has
\* to be shown of that list.
LEMMA PutMove ==
  ASSUME StoreInv, NEW a \in Attempts, NEW h \in Handlers, NEW p \in Partitions,
         kv' \in [Handlers -> [Partitions -> Key]],
         \A g \in Handlers, q \in Partitions :
           g # h \/ q # p => kv'[g][q] = kv[g][q],
         made' = made, commit' = commit, commit # a,
         \A b \in Attempts : b # a => wr'[b] = wr[b],
         WriterFits(wr'[a], made),
         wr[a].pc # "failed", wr[a].at = p, wr[a].hnd[p] = h,
         wr'[a].pc = "total" => wr'[a].at = p, wr'[a].hnd = wr[a].hnd,
         \A q \in Partitions : q # p => wr'[a].size[q] = wr[a].size[q],
         BytesBy(a, kv'[h][p].list) = Share(wr'[a], h, p),
         \A b \in Attempts : b # a =>
           BytesBy(b, kv'[h][p].list) = BytesBy(b, kv[h][p].list),
         Total(kv[h][p], h, p)', OneAppends'
  PROVE  StoreInv'
<1>1. \A b \in Attempts : WriterFits(wr'[b], made')  BY DEF StoreInv
<1>2. ASSUME NEW g \in Handlers, NEW q \in Partitions, g # h \/ q # p
      PROVE  /\ ~Lags(wr[a], g, q) /\ ~Lags(wr'[a], g, q)
             /\ Share(wr'[a], g, q) = Share(wr[a], g, q)
  <2>1. ~Lags(wr[a], g, q) /\ ~Lags(wr'[a], g, q)  BY <1>2 DEF Lags
  <2> QED  BY <1>2, <2>1 DEF Share
<1>3. ASSUME NEW b \in Attempts PROVE Flushed(b, wr[b])'
  <2>1. Flushed(b, wr[b])  BY DEF StoreInv
  <2>2. CASE b = a
    <3>1. ASSUME NEW g \in Handlers, NEW q \in Partitions
          PROVE  BytesBy(a, kv'[g][q].list) = Share(wr'[a], g, q)
      <4>1. CASE g = h /\ q = p  BY <4>1
      <4>2. CASE g # h \/ q # p
        BY <1>2, <2>1, <2>2, <4>2 DEF Flushed
      <4> QED  BY <4>1, <4>2
    <3> QED  BY <2>2, <3>1 DEF Flushed
  <2>3. CASE b # a
    <3>1. ASSUME NEW g \in Handlers, NEW q \in Partitions, wr[b].pc # "failed"
          PROVE  BytesBy(b, kv'[g][q].list) = Share(wr[b], g, q)
      <4>1. BytesBy(b, kv[g][q].list) = Share(wr[b], g, q)
        BY <2>1, <3>1 DEF Flushed
      <4>2. CASE g = h /\ q = p  BY <2>3, <4>1, <4>2
      <4>3. CASE g # h \/ q # p  BY <4>1, <4>3
      <4> QED  BY <4>2, <4>3
    <3>2. wr'[b] = wr[b]  BY <2>3
    <3> QED  BY <3>1, <3>2 DEF Flushed
  <2> QED  BY <2>2, <2>3
<1>4. ASSUME NEW g \in Handlers, NEW q \in Partitions
      PROVE  Total(kv[g][q], g, q)'
  <2>1. CASE g = h /\ q = p  BY <2>1
  <2>2. CASE g # h \/ q # p
    <3>1. Total(kv[g][q], g, q) /\ kv'[g][q] = kv[g][q]
      BY <2>2 DEF StoreInv
    <3>2. \A b \in Attempts : /\ Lags(wr'[b], g, q) <=> Lags(wr[b], g, q)
                              /\ Lags(wr[b], g, q) => wr'[b] = wr[b]
      BY <1>2, <2>2
    <3> QED  BY <3>1, <3>2 DEF Total
  <2> QED  BY <2>1, <2>2
<1>5. commit' \in Attempts \cup {0} /\ (commit # 0 => Writing(commit, "done"))'
  BY DEF StoreInv, Writing
<1> QED  BY <1>1, <1>3, <1>4, <1>5 DEF StoreInv

\* The fields of the writer when maybeSpill has accounted for a flush.
LEMMA AccountedFits ==
  ASSUME wr \in [Attempts -> WriterType], NEW a \in Attempts, NEW m \in Nat,
         WriterFits(wr[a], m), wr[a].pc \in {"put", "total"}
  PROVE  LET x == wr[a]
             y == Accounted(a)[a]
         IN  /\ WriterFits(y, m) /\ y.hnd = x.hnd /\ y.pc \in {"write", "spill"}
             /\ \A q \in Partitions : q # x.at => y.size[q] = x.size[q]
             /\ y.size[x.at] = x.size[x.at] + x.buf[x.at]
             /\ \A b \in Attempts : b # a => Accounted(a)[b] = wr[b]
<1> DEFINE x == wr[a]
           y == Accounted(a)[a]
           p == x.at
<1>0. x \in WriterType /\ DOMAIN wr = Attempts  OBVIOUS
<1>1. /\ x.hnd \in [Partitions -> Nat] /\ x.size \in [Partitions -> Nat]
      /\ x.buf \in [Partitions -> Nat] /\ x.out \in [Partitions -> Nat]
      /\ x.at \in Partitions /\ x.ret \in {"write", "spill"}
  BY <1>0 DEF WriterType, PerPartition
<1>2. /\ y.pc = x.ret /\ y.ret = x.ret /\ y.hnd = x.hnd /\ y.out = x.out
      /\ y.p = x.p
      /\ y.buf = [x.buf EXCEPT ![p] = 0]
      /\ y.size = [x.size EXCEPT ![p] = x.size[p] + x.buf[p]]
      /\ \A b \in Attempts : b # a => Accounted(a)[b] = wr[b]
  BY <1>0 DEF Accounted, WriterType
<1> HIDE DEF x, y, p
<1>3. /\ \A q \in Partitions : y.buf[q] = IF q = p THEN 0 ELSE x.buf[q]
      /\ \A q \in Partitions :
           y.size[q] = IF q = p THEN x.size[p] + x.buf[p] ELSE x.size[q]
      /\ p \in Partitions
  BY <1>1, <1>2 DEF p
<1>4. \A q \in Partitions : y.size[q] + y.buf[q] = y.out[q]
  <2>1. \A q \in Partitions : x.size[q] + x.buf[q] = x.out[q]
    BY DEF WriterFits, x
  <2> QED  BY <1>1, <1>2, <1>3, <2>1
<1>5. /\ \A q \in Partitions : x.hnd[q] \in 1 .. m
      /\ x.ret = "spill" => \A q \in Partitions :
           q < x.p => x.buf[q] = 0 \/ p = q
  BY DEF WriterFits, Opened, x, p
<1>6. WriterFits(y, m)
  BY <1>1, <1>2, <1>3, <1>4, <1>5 DEF WriterFits, Opening, Opened, Reported
<1> QED  BY <1>1, <1>2, <1>3, <1>6 DEF x, y, p

\* put appends the block, and counts it at once when it is the first.
LEMMA PutSteps ==
  ASSUME ExecutorInv, StoreInv, NEW a \in Attempts, PutBlock(a) \/ PutTotal(a)
  PROVE  StoreInv'
<1> USE ExecutorAssumption
<1> DEFINE x == wr[a]
           y == wr'[a]
<1>1. /\ wr \in [Attempts -> WriterType] /\ x \in WriterType
      /\ DOMAIN wr = Attempts
      /\ WriterFits(x, made) /\ made \in Nat
      /\ x.pc # "done" => commit # a
  BY WriterFacts
<1>2. /\ x.hnd \in [Partitions -> Nat] /\ x.size \in [Partitions -> Nat]
      /\ x.buf \in [Partitions -> Nat] /\ x.at \in Partitions
  BY <1>1 DEF WriterType, PerPartition
<1>3. x.pc \in {"put", "total"}  BY DEF PutBlock, PutTotal, Writing
<1>4. x.hnd[x.at] \in Handlers /\ x.buf[x.at] \in Nat \ {0}
  <2>1. /\ x.hnd[x.at] \in 1 .. made
        /\ x.buf[x.at] > 0 /\ x.buf[x.at] \in Nat
    BY <1>1, <1>2, <1>3 DEF WriterFits, Opened
  <2> QED  BY <2>1 DEF Handlers, ExecutorInv, ObjectType
<1>p. PICK p \in Partitions : p = x.at  BY <1>2
<1>h. PICK h \in Handlers : h = x.hnd[p]  BY <1>4, <1>p
<1>n. PICK n \in Nat \ {0} : n = x.buf[p]  BY <1>4, <1>p
<1> DEFINE k == kv[h][p]
           l == k.list
           kk == kv'[h][p]
<1>5. /\ kv \in [Handlers -> [Partitions -> Key]] /\ k \in Key
      /\ l \in Seq(Block) /\ k.total \in Nat
  BY <1>2, <1>4 DEF StoreInv, Key
<1>6. BytesBy(a, l) = Share(x, h, p) /\ Total(k, h, p)
  BY <1>2, <1>3, <1>4 DEF StoreInv, Flushed
<1>a. LET z == Accounted(a)[a]
      IN  /\ WriterFits(z, made) /\ z.hnd = x.hnd /\ z.pc \in {"write", "spill"}
          /\ \A q \in Partitions : q # p => z.size[q] = x.size[q]
          /\ z.size[p] = x.size[p] + n
          /\ \A b \in Attempts : b # a => Accounted(a)[b] = wr[b]
  BY <1>1, <1>3, <1>p, <1>n, AccountedFits
<1>7. CASE PutBlock(a)
  <2>1. CASE CallDeleted(h)
    <3>1. UNCHANGED <<kv, wr, made, commit>>
      BY <2>1 DEF CallDeleted, objVars
    <3> QED  BY <3>1 DEF StoreInv, WriterFits, Flushed, Total, OneAppends, Writing
  <2>2. CASE ~CallDeleted(h)
    <3> DEFINE b == [by |-> a, size |-> n]
               first == l = <<>>
               u == Append(l, b)
               t == IF first THEN n ELSE k.total
    <3>1. /\ x.pc = "put" /\ IndexFree(h)
          /\ kv' = [kv EXCEPT ![h][p].list = Append(@, b),
                              ![h][p].total = IF first THEN n ELSE @]
          /\ wr' = IF first THEN Accounted(a) ELSE [wr EXCEPT ![a].pc = "total"]
          /\ UNCHANGED <<made, commit>>
      BY <1>7, <2>2, <1>p, <1>h, <1>n DEF PutBlock, Writing, objVars
    <3>2. b \in Block /\ b.by = a /\ b.size = n  BY <1>4 DEF Block
    <3>3. u \in Seq(Block) /\ t \in Nat /\ Extends(l, u, b)
      BY <1>4, <1>5, <3>2, AppendExtends DEF Extends
    <3>b. b = [by |-> a, size |-> n]  OBVIOUS
    <3> HIDE DEF b, first, u, t
    <3>4. /\ kk.list = u /\ kk.total = t
          /\ kv' \in [Handlers -> [Partitions -> Key]]
          /\ \A g \in Handlers, q \in Partitions :
               g # h \/ q # p => kv'[g][q] = kv[g][q]
      <4> DEFINE r == [k EXCEPT !.list = u, !.total = t]
      <4>1. kv' = [kv EXCEPT ![h] = [kv[h] EXCEPT ![p] = r]]
        BY <1>2, <1>4, <1>5, <3>1 DEF u, t, Key
      <4>3. r \in Key /\ r.list = u /\ r.total = t  BY <1>5, <3>3 DEF Key
      <4> HIDE DEF r
      <4> QED  BY <1>5, <4>1, <4>3
    <3>5. /\ \A i \in 0 .. Len(l) : EndOf(u, i) = EndOf(l, i)
          /\ EndOf(u, Len(u)) = EndOf(l, Len(l)) + n
          /\ EndOf(l, Len(l)) \in Nat
          /\ BytesBy(a, u) = BytesBy(a, l) + n
          /\ \A c \in Attempts : c # a => BytesBy(c, u) = BytesBy(c, l) + 0
          /\ \A c \in Attempts : BytesBy(c, l) \in Nat
      BY <1>5, <3>2, <3>3, ExtendSums
    <3>6. \A c \in Attempts : ~(wr[c].pc = "total" /\ wr[c].hnd[wr[c].at] = h)
      BY <3>1 DEF IndexFree, Writing
    <3>7. \A c \in Attempts : ~Lags(wr[c], h, p)  BY <3>6 DEF Lags
    <3>8. k.total = EndOf(l, Len(l))  BY <1>6, <3>7 DEF Total
    <3>9. Share(x, h, p) = x.size[p]  BY <3>7, <1>h DEF Share
    <3>c. \A c \in Attempts : c # a => BytesBy(c, kk.list) = BytesBy(c, l)
      BY <3>4, <3>5
    <3>10. CASE first
      <4>1. /\ wr' = Accounted(a) /\ y = Accounted(a)[a] /\ t = n
        BY <3>1, <3>10 DEF t
      <4>2. /\ WriterFits(y, made) /\ y.hnd = x.hnd /\ y.pc \in {"write", "spill"}
            /\ \A q \in Partitions : q # p => y.size[q] = x.size[q]
            /\ y.size[p] = x.size[p] + n
            /\ \A c \in Attempts : c # a => wr'[c] = wr[c]
        BY <1>a, <4>1
      <4>3. ~Lags(y, h, p) /\ y.hnd[p] = h  BY <4>2, <1>h DEF Lags
      <4>4. Share(y, h, p) = x.size[p] + n  BY <4>2, <4>3 DEF Share
      <4>5. EndOf(l, Len(l)) = 0
        <5>1. l = <<>> /\ Len(<<>>) = 0  BY <3>10 DEF first
        <5> QED  BY <5>1, NoBlocks
      <4>6. Total(kv[h][p], h, p)'
        <5>1. \A c \in Attempts : ~Lags(wr'[c], h, p)  BY <3>7, <4>2, <4>3
        <5>2. kk.total = EndOf(kk.list, Len(kk.list))
          BY <1>4, <3>4, <3>5, <4>1, <4>5
        <5> QED  BY <5>1, <5>2 DEF Total
      <4>7. OneAppends'
        <5>1. \A c \in Attempts : wr'[c].pc = "total" => wr'[c] = wr[c]
          BY <4>2
        <5> QED  BY <5>1 DEF StoreInv, OneAppends, Writing
      <4>8. BytesBy(a, kk.list) = Share(y, h, p)
        BY <1>6, <3>4, <3>5, <3>9, <4>4
      <4>9. /\ kv' \in [Handlers -> [Partitions -> Key]]
            /\ \A g \in Handlers, q \in Partitions :
                 g # h \/ q # p => kv'[g][q] = kv[g][q]
            /\ made' = made /\ commit' = commit /\ commit # a
            /\ \A c \in Attempts : c # a => wr'[c] = wr[c]
            /\ WriterFits(wr'[a], made)
            /\ wr[a].pc # "failed" /\ wr[a].at = p /\ wr[a].hnd[p] = h
            /\ wr'[a].pc = "total" => wr'[a].at = p
            /\ wr'[a].hnd = wr[a].hnd
            /\ \A q \in Partitions : q # p => wr'[a].size[q] = wr[a].size[q]
            /\ BytesBy(a, kv'[h][p].list) = Share(wr'[a], h, p)
            /\ \A c \in Attempts : c # a =>
                 BytesBy(c, kv'[h][p].list) = BytesBy(c, kv[h][p].list)
            /\ Total(kv[h][p], h, p)' /\ OneAppends'
        BY <1>1, <1>h, <1>p, <3>1, <3>4, <3>c, <4>2, <4>6, <4>7, <4>8
      <4> HIDE DEF x, y, k, l, kk
      <4> QED  BY <4>9, PutMove
    <3>11. CASE ~first
      <4>1. wr' = [wr EXCEPT ![a].pc = "total"] /\ t = k.total
        BY <3>1, <3>11 DEF t
      <4>2. /\ y = [x EXCEPT !.pc = "total"]
            /\ \A c \in Attempts : c # a => wr'[c] = wr[c]
        BY <1>1, <4>1
      <4>3. /\ y.pc = "total" /\ y.p = x.p /\ y.hnd = x.hnd /\ y.buf = x.buf
            /\ y.size = x.size /\ y.out = x.out /\ y.at = x.at /\ y.ret = x.ret
            /\ y.partitionLengths = x.partitionLengths
        BY <1>1, <4>2 DEF WriterType
      <4>4. WriterFits(y, made)
        BY <1>1, <3>1, <4>3 DEF WriterFits, Opening, Opened, Reported
      <4>5. Lags(y, h, p)  BY <1>p, <1>h, <4>3 DEF Lags
      <4>6. Share(y, h, p) = x.size[p] + n
        BY <1>h, <1>n, <4>3, <4>5 DEF Share
      <4>7. BytesBy(a, kk.list) = Share(y, h, p)
        BY <1>6, <3>4, <3>5, <3>9, <4>6
      <4>8. Total(kv[h][p], h, p)'
        <5>1. \A c \in Attempts : Lags(wr'[c], h, p) => c = a
          BY <3>7, <4>2
        <5>2. /\ Len(u) = Len(l) + 1 /\ u[Len(l) + 1] = b /\ Len(l) \in Nat
          BY <1>5, <3>3 DEF Extends
        <5>3. Len(u) > 0 /\ u[Len(u)] = b /\ Len(u) - 1 = Len(l)
              /\ Len(l) \in 0 .. Len(l)
          BY <5>2
        <5>4. kk.total = EndOf(u, Len(u) - 1)
          BY <3>4, <3>5, <3>8, <4>1, <5>3
        <5>5. b = [by |-> a, size |-> y.buf[p]]  BY <1>n, <3>b, <4>3
        <5> QED  BY <3>4, <4>5, <5>1, <5>3, <5>4, <5>5 DEF Total
      <4>9. OneAppends'
        <5>1. \A c \in Attempts : wr'[c].pc = "total" =>
                c = a \/ (wr'[c] = wr[c] /\ wr'[c].hnd[wr'[c].at] # h)
          BY <3>6, <4>2
        <5>2. y.hnd[y.at] = h  BY <1>p, <1>h, <4>3
        <5> QED  BY <5>1, <5>2 DEF StoreInv, OneAppends, Writing
      <4>10. /\ kv' \in [Handlers -> [Partitions -> Key]]
             /\ \A g \in Handlers, q \in Partitions :
                  g # h \/ q # p => kv'[g][q] = kv[g][q]
             /\ made' = made /\ commit' = commit /\ commit # a
             /\ \A c \in Attempts : c # a => wr'[c] = wr[c]
             /\ WriterFits(wr'[a], made)
             /\ wr[a].pc # "failed" /\ wr[a].at = p /\ wr[a].hnd[p] = h
             /\ wr'[a].pc = "total" => wr'[a].at = p
             /\ wr'[a].hnd = wr[a].hnd
             /\ \A q \in Partitions : q # p => wr'[a].size[q] = wr[a].size[q]
             /\ BytesBy(a, kv'[h][p].list) = Share(wr'[a], h, p)
             /\ \A c \in Attempts : c # a =>
                  BytesBy(c, kv'[h][p].list) = BytesBy(c, kv[h][p].list)
             /\ Total(kv[h][p], h, p)' /\ OneAppends'
        BY <1>1, <1>h, <1>p, <3>1, <3>4, <3>c, <4>2, <4>3, <4>4, <4>7, <4>8,
           <4>9
      <4> HIDE DEF x, y, k, l, kk
      <4> QED  BY <4>10, PutMove
    <3> QED  BY <3>10, <3>11
  <2> QED  BY <2>1, <2>2
<1>8. CASE PutTotal(a)
  <2> DEFINE t == k.total + n
             r == [k EXCEPT !.total = t]
  <2>1. /\ x.pc = "total" /\ wr' = Accounted(a) /\ UNCHANGED <<made, commit>>
        /\ kv' = [kv EXCEPT ![h][p].total = @ + n]
    BY <1>8, <1>p, <1>h, <1>n DEF PutTotal, Writing, objVars
  <2>2. kv' = [kv EXCEPT ![h] = [kv[h] EXCEPT ![p] = r]]
    BY <1>5, <2>1 DEF Key
  <2>a. t \in Nat  BY <1>5
  <2> HIDE DEF t
  <2>3. r \in Key /\ r.list = l /\ r.total = t  BY <1>5, <2>a DEF Key
  <2> HIDE DEF r
  <2>4. /\ kk.list = l /\ kk.total = t
        /\ kv' \in [Handlers -> [Partitions -> Key]]
        /\ \A g \in Handlers, q \in Partitions :
             g # h \/ q # p => kv'[g][q] = kv[g][q]
    BY <1>5, <2>2, <2>3
  <2>5. /\ WriterFits(y, made) /\ y.hnd = x.hnd /\ y.pc \in {"write", "spill"}
        /\ \A q \in Partitions : q # p => y.size[q] = x.size[q]
        /\ y.size[p] = x.size[p] + n
        /\ \A c \in Attempts : c # a => wr'[c] = wr[c]
    BY <1>a, <2>1
  <2>6. Lags(x, h, p) /\ ~Lags(y, h, p) /\ y.hnd[p] = h
    BY <1>p, <1>h, <2>1, <2>5 DEF Lags
  <2>7. Share(y, h, p) = x.size[p] + n /\ Share(x, h, p) = x.size[p] + n
    BY <1>h, <1>n, <2>5, <2>6 DEF Share
  <2>8. BytesBy(a, kk.list) = Share(y, h, p)  BY <1>6, <2>4, <2>7
  <2>9. \A c \in Attempts : c # a => ~Lags(wr[c], h, p)
    <3>1. OneAppends  BY DEF StoreInv
    <3> QED  BY <2>6, <3>1 DEF OneAppends, Lags, Writing
  <2>10. t = EndOf(l, Len(l))
    <3>1. /\ Len(l) > 0 /\ l[Len(l)] = [by |-> a, size |-> n]
          /\ k.total = EndOf(l, Len(l) - 1)
      BY <1>6, <1>n, <2>6 DEF Total
    <3>2. /\ Sizes(l) \in Seq(Nat) /\ Len(Sizes(l)) = Len(l) /\ Len(l) \in Nat
          /\ \A i \in 1 .. Len(l) : Sizes(l)[i] = l[i].size
      BY <1>5, SizesType
    <3>3. Len(l) \in 1 .. Len(l)  BY <3>1, <3>2
    <3>4. Sizes(l)[Len(l)] = n  BY <3>1, <3>2, <3>3
    <3> QED  BY <3>1, <3>2, <3>3, <3>4, SumStep DEF EndOf, t
  <2>11. Total(kv[h][p], h, p)'
    <3>1. \A c \in Attempts : ~Lags(wr'[c], h, p)  BY <2>5, <2>6, <2>9
    <3> QED  BY <2>4, <2>10, <3>1 DEF Total
  <2>12. OneAppends'
    <3>1. \A c \in Attempts : wr'[c].pc = "total" => wr'[c] = wr[c]
      BY <2>5
    <3> QED  BY <3>1 DEF StoreInv, OneAppends, Writing
  <2>13. \A c \in Attempts : c # a => BytesBy(c, kk.list) = BytesBy(c, l)
    BY <2>4
  <2>14. /\ kv' \in [Handlers -> [Partitions -> Key]]
         /\ \A g \in Handlers, q \in Partitions :
              g # h \/ q # p => kv'[g][q] = kv[g][q]
         /\ made' = made /\ commit' = commit /\ commit # a
         /\ \A b \in Attempts : b # a => wr'[b] = wr[b]
         /\ WriterFits(wr'[a], made)
         /\ wr[a].pc # "failed" /\ wr[a].at = p /\ wr[a].hnd[p] = h
         /\ wr'[a].pc = "total" => wr'[a].at = p
         /\ wr'[a].hnd = wr[a].hnd
         /\ \A q \in Partitions : q # p => wr'[a].size[q] = wr[a].size[q]
         /\ BytesBy(a, kv'[h][p].list) = Share(wr'[a], h, p)
         /\ \A b \in Attempts : b # a =>
              BytesBy(b, kv'[h][p].list) = BytesBy(b, kv[h][p].list)
         /\ Total(kv[h][p], h, p)' /\ OneAppends'
    BY <1>1, <1>h, <1>p, <2>1, <2>4, <2>5, <2>8, <2>11, <2>12, <2>13
  <2> HIDE DEF x, y, k, l, kk
  <2> QED  BY <2>14, PutMove
<1> QED  BY <1>7, <1>8

\* A step that no writer takes.
LEMMA OthersQuiet ==
  ASSUME \/ EnterStop \/ StopStep
         \/ \E p \in Partitions, kind \in {"remote", "nio", "local"} :
              AskBlock(p, kind)
         \/ FetchStep \/ AbortFetch \/ UNCHANGED evars
  PROVE  UNCHANGED <<kv, wr, made, commit>>
  BY DEF EnterStop, StopStep, CloseDevice, LeaveStop, AskBlock, FetchStep,
     AbortFetch, GetBlockData, GetSize, GetBlockInfo, GetAvailable, LoadBlocks,
     ReadOne, ReadLoaded, ReadArray, TakeBytes, SendNetty, CopyNio, FinishFetch,
     FetchOnly, CallDeleted, objVars, evars

\* Every step keeps what the writers have stored.
LEMMA StoreStep ==
  ASSUME ExecutorInv, StoreInv, [ENext]_evars
  PROVE  StoreInv'
<1>1. ASSUME NEW a \in Attempts, WriterStep(a) PROVE StoreInv'
  BY <1>1, OpenSteps, RecordSteps, PutSteps, ReportSteps DEF WriterStep
<1>2. CASE UNCHANGED <<kv, wr, made, commit>>
  BY <1>2 DEF StoreInv, WriterFits, Flushed, Total, OneAppends, Writing
<1> QED  BY <1>1, <1>2, OthersQuiet DEF ENext

-----------------------------------------------------------------------------
(***************************************************************************)
(* What the fetch has read.                                                *)
(***************************************************************************)
\* The stages of a fetch: the buffer has a window on the blocks; size() has
\* been called; the handler has been found; nothing has been served; the
\* stream does not exist.
Buffered == {"load", "open", "loaded", "eof", "ready"}
AfterSize == {"sized", "listed", "served", "done"} \cup Buffered
WithStore == {"got", "absent"} \cup AfterSize
Unread == {"idle", "ask", "got", "sized", "listed", "load", "ready"}
Streamless == {"idle", "ask", "got", "sized", "listed"}

\* The bytes s are the content of a key from its start.
Ordered(s) == s \in Seq(Nat) /\ \A i \in 1 .. Len(s) : s[i] = i

\* The committed blocks of list l end at n or before.
CommittedWithin(l, n) ==
  \A i \in DOMAIN l : l[i].by = commit => EndOf(l, i) <= n

\* The buffer holds what follows the bytes s.
Follows(s) ==
  /\ Len(s) + remaining = sent
  /\ \A i \in 0 .. remaining - 1 : data[pos + i] = Len(s) + i + 1

\* Fetch x asks for a block of the committed attempt ...
Asked(x) ==
  x.pc # "idle" =>
    /\ commit # 0 /\ x.p \in Partitions
    /\ wr[commit].partitionLengths[x.p] > 0

\* ... in the store it was written to, unless that one was closed ...
Found(x) ==
  /\ x.pc \in WithStore =>
       /\ x.h \in Handlers
       /\ x.h = wr[commit].hnd[x.p] \/ Deleted(wr[commit].hnd[x.p])
  /\ x.pc = "absent" => x.h # wr[commit].hnd[x.p]

\* ... with a size that covers the committed blocks ...
Sized(x) ==
  x.pc \in AfterSize =>
    /\ x.total_size \in Nat
    /\ x.total_size <= kv[x.h][x.p].total
    /\ CommittedWithin(kv[x.h][x.p].list, x.total_size)

\* ... and block sizes that cover the size.
Listed(x) ==
  x.pc \in {"listed"} \cup Buffered =>
    /\ x.blockInfo \in Seq(Nat \ {0})
    /\ x.total_size <= SumFirst(x.blockInfo, Len(x.blockInfo))

\* What has been served.
ServedSoFar(x) ==
  /\ Ordered(x.served)
  /\ x.pc \in Unread => x.served = <<>>
  /\ x.pc \in {"served", "done"} => x.total_size <= Len(x.served)

\* The counters of the stream agree with those of its buffer, and the buffer
\* goes on where the bytes served end.
Aligned(x) ==
  /\ x.index \in 0 .. Len(x.blockInfo)
  /\ sent = SumFirst(x.blockInfo, x.index)
  /\ remaining = x.remaining
  /\ Follows(x.served)
  /\ WindowInv /\ data \in [0 .. cap - 1 -> Nat]

\* What is loaded, at each point of the stream.
LoadedSoFar(x) ==
  /\ x.pc \in Streamless => x.index = 0 /\ x.remaining = 0
  /\ x.pc \in Buffered => Aligned(x)
  /\ x.pc = "load" => x.available \in Nat /\ x.total_size <= x.available
  /\ x.pc \in Buffered \ {"load"} => x.total_size <= sent
  /\ x.pc \in {"load", "ready"} => pos = 0
  /\ x.pc = "loaded" => remaining > 0
  /\ x.pc = "eof" => remaining = 0

ServingInv ==
  /\ Asked(fe) /\ Found(fe) /\ Sized(fe) /\ Listed(fe)
  /\ ServedSoFar(fe) /\ LoadedSoFar(fe)

\* A key grows: its total, and its list by blocks of attempts other than c.
Grows(k, m, c) ==
  /\ k.total <= m.total
  /\ \A n : (\A i \in DOMAIN k.list : k.list[i].by = c => EndOf(k.list, i) <= n)
         => (\A i \in DOMAIN m.list : m.list[i].by = c => EndOf(m.list, i) <= n)

\* A key that does not change.
LEMMA GrowsNot ==
  ASSUME NEW k \in Key, NEW c
  PROVE  Grows(k, k, c)
  BY DEF Grows, Key

\* Writer steps change one writer.
LEMMA OneWriter ==
  ASSUME ExecutorInv, NEW a \in Attempts, WriterStep(a)
  PROVE  /\ \A b \in Attempts : b # a => wr'[b] = wr[b]
         /\ UNCHANGED <<closes, sp, fe, bvars>>
         /\ wr[a].pc # "done"
         /\ commit # 0 => commit' = commit
<1> USE DEF Writing, objVars, bvars
<1>0. wr \in [Attempts -> WriterType] /\ DOMAIN wr = Attempts
      /\ handler \in Nat /\ made \in Nat
  BY ExecutorAssumption DEF ExecutorInv, ObjectType
<1>1. CASE StartTask(a) \/ CreateHandler(a) \/ EndRecords(a) \/ ReportLengths(a)
           \/ StopWriter(a) \/ FailTask(a)
  BY <1>0, <1>1 DEF StartTask, CreateHandler, EndRecords, ReportLengths,
     StopWriter, FailTask
<1>2. CASE GetHandler(a)
  BY <1>0, <1>2, StreamMadeType DEF GetHandler
<1>3. CASE AssignHandler(a)
  BY <1>0, <1>3, StreamMadeType DEF AssignHandler
<1>4. ASSUME NEW p \in Partitions, WriteRecordTo(a, p)
      PROVE  /\ \A b \in Attempts : b # a => wr'[b] = wr[b]
             /\ UNCHANGED <<closes, sp, fe, bvars, commit>>
             /\ wr[a].pc # "done"
  BY <1>0, <1>4 DEF WriteRecordTo, Flushing
<1>5. CASE SpillPartition(a)
  BY <1>0, <1>5 DEF SpillPartition, Flushing
<1>6. CASE PutBlock(a)
  <2>1. \/ wr' = wr \/ wr' = Accounted(a) \/ wr' = [wr EXCEPT ![a].pc = "total"]
    BY <1>6 DEF PutBlock, CallDeleted
  <2>2. \A b \in Attempts : b # a => wr'[b] = wr[b]
    BY <1>0, <2>1, AccountedType
  <2> QED  BY <1>6, <2>2 DEF PutBlock, CallDeleted
<1>7. CASE PutTotal(a)
  BY <1>0, <1>7, AccountedType DEF PutTotal
<1> QED  BY <1>1, <1>2, <1>3, <1>4, <1>5, <1>6, <1>7 DEF WriterStep

\* One block more, of another attempt, leaves the committed ones in place.
LEMMA BlockMore ==
  ASSUME NEW l \in Seq(Block), NEW b \in Block, NEW u, Extends(l, u, b), NEW c,
         b.by # c, NEW n,
         \A i \in DOMAIN l : l[i].by = c => EndOf(l, i) <= n
  PROVE  \A i \in DOMAIN u : u[i].by = c => EndOf(u, i) <= n
<1>1. /\ Len(l) \in Nat /\ DOMAIN l = 1 .. Len(l) /\ DOMAIN u = 1 .. Len(l) + 1
      /\ u[Len(l) + 1] = b /\ \A i \in 1 .. Len(l) : u[i] = l[i]
  BY DEF Extends
<1>2. \A i \in 0 .. Len(l) : EndOf(u, i) = EndOf(l, i)
  BY ExtendSums
<1> DEFINE m == Len(l)
<1> HIDE DEF m
<1>3. SUFFICES ASSUME NEW i \in 1 .. m + 1, u[i].by = c PROVE EndOf(u, i) <= n
  BY <1>1 DEF m
<1>4. m \in Nat /\ u[m + 1] = b  BY <1>1 DEF m
<1>5. i # m + 1  BY <1>3, <1>4
<1>6. i \in 1 .. m /\ i \in 0 .. m  BY <1>4, <1>5
<1> QED  BY <1>1, <1>2, <1>3, <1>6 DEF m

\* The keys grow while an attempt that is not the committed one runs.
LEMMA KeysGrow ==
  ASSUME ExecutorInv, StoreInv, NEW a \in Attempts, WriterStep(a),
         NEW c, c # a, NEW h \in Handlers, NEW p \in Partitions
  PROVE  Grows(kv[h][p], kv'[h][p], c)
<1> USE ExecutorAssumption
<1> DEFINE x == wr[a]
           k == kv[h][p]
<1>1. /\ kv \in [Handlers -> [Partitions -> Key]] /\ k \in Key
      /\ k.list \in Seq(Block) /\ k.total \in Nat /\ Total(k, h, p)
  BY DEF StoreInv, Key
<1>2. CASE kv'[h][p] = k
  <2> HIDE DEF k
  <2> QED  BY <1>1, <1>2, GrowsNot DEF k
<1>3. x \in WriterType /\ WriterFits(x, made) /\ made \in Nat
  BY WriterFacts
<1>4. CASE PutBlock(a) /\ kv'[h][p] # k
  <2> DEFINE q == x.at
             n == x.buf[q]
             b == [by |-> a, size |-> n]
             l == k.list
             u == Append(l, b)
             t == IF l = <<>> THEN n ELSE k.total
             r == [k EXCEPT !.list = u, !.total = t]
  <2>0. /\ x.pc = "put" /\ ~CallDeleted(x.hnd[q])
        /\ kv' = [kv EXCEPT ![x.hnd[q]][q].list = Append(@, b),
                   ![x.hnd[q]][q].total =
                      IF kv[x.hnd[q]][q].list = <<>> THEN n ELSE @]
    BY <1>4 DEF PutBlock, Writing, CallDeleted
  <2>a. x.buf \in [Partitions -> Nat] /\ x.at \in Partitions
    BY <1>3 DEF WriterType, PerPartition
  <2>b. x.buf[x.at] > 0  BY <1>3, <2>0 DEF WriterFits
  <2>1. q \in Partitions /\ n \in Nat \ {0}
    BY <2>a, <2>b
  <2>2. h = x.hnd[q] /\ p = q
    BY <1>1, <1>4, <2>0
  <2>3. kv'[h][p] = r
    BY <1>1, <2>0, <2>2 DEF Key
  <2>4. b \in Block /\ b.by = a /\ b.size = n  BY <2>1 DEF Block
  <2>5. Extends(l, u, b)  BY <1>1, <2>4, AppendExtends
  <2>6. r.list = u /\ r.total = t  BY <1>1 DEF Key
  <2>7. k.total <= t
    <3>1. CASE l = <<>>
      <4>1. Len(l) = 0  BY <3>1
      <4>2. \A d \in Attempts : ~Lags(wr[d], h, p)  BY <1>1, <4>1 DEF Total
      <4>3. k.total = EndOf(<<>>, 0)  BY <1>1, <3>1, <4>1, <4>2 DEF Total
      <4>4. t = n /\ n >= 0  BY <2>1, <3>1
      <4> HIDE DEF n, t, k
      <4> QED  BY <4>3, <4>4, NoBlocks
    <3>2. CASE l # <<>>
      <4>1. t = k.total  BY <3>2
      <4> QED  BY <1>1, <4>1
    <3> QED  BY <3>1, <3>2
  <2> HIDE DEF b, u, t, r, l
  <2>8. ASSUME NEW m, \A i \in DOMAIN l : l[i].by = c => EndOf(l, i) <= m
        PROVE  \A i \in DOMAIN u : u[i].by = c => EndOf(u, i) <= m
    <3>1. l \in Seq(Block)  BY <1>1 DEF l
    <3> QED  BY <2>4, <2>5, <2>8, <3>1, BlockMore
  <2>9. k.list = l  BY DEF l
  <2> HIDE DEF k
  <2>10. Grows(k, r, c)  BY <2>6, <2>7, <2>8, <2>9 DEF Grows
  <2> QED  BY <2>3, <2>10 DEF k
<1>5. CASE PutTotal(a) /\ kv'[h][p] # k
  <2> DEFINE q == x.at
             n == x.buf[q]
             t == k.total + n
             r == [k EXCEPT !.total = t]
  <2>0. kv' = [kv EXCEPT ![x.hnd[q]][q].total = @ + n]
    BY <1>5 DEF PutTotal
  <2>1. q \in Partitions /\ n \in Nat
    BY <1>3 DEF WriterType, PerPartition
  <2>2. h = x.hnd[q] /\ p = q
    BY <1>1, <1>5, <2>0
  <2>3. kv'[h][p] = r
    BY <1>1, <2>0, <2>2 DEF Key
  <2>4. k.total <= t  BY <1>1, <2>1
  <2> HIDE DEF t
  <2>5. r.list = k.list /\ r.total = t  BY <1>1 DEF Key
  <2> HIDE DEF r, k
  <2>6. Grows(k, r, c)  BY <2>4, <2>5 DEF Grows
  <2> QED  BY <2>3, <2>6 DEF k
<1>6. ASSUME ~PutBlock(a), ~PutTotal(a) PROVE kv' = kv
  BY <1>6 DEF WriterStep, StartTask, GetHandler, CreateHandler, AssignHandler,
     WriteRecordTo, EndRecords, SpillPartition, ReportLengths, StopWriter,
     FailTask
<1> QED  BY <1>2, <1>4, <1>5, <1>6

\* The handlers of the committed attempt.
LEMMA CommittedFacts ==
  ASSUME ExecutorInv, StoreInv, commit # 0
  PROVE  /\ commit \in Attempts /\ wr[commit].pc = "done"
         /\ WriterFits(wr[commit], made) /\ Flushed(commit, wr[commit])
         /\ \A p \in Partitions : wr[commit].hnd[p] \in 1 .. made
         /\ \A p \in Partitions : wr[commit].hnd[p] \in Handlers
<1>1. commit \in Attempts /\ wr[commit].pc = "done"
  BY DEF StoreInv, Writing
<1>2. WriterFits(wr[commit], made) /\ Flushed(commit, wr[commit])
  BY <1>1 DEF StoreInv
<1>3. \A p \in Partitions : wr[commit].hnd[p] \in 1 .. made
  BY <1>1, <1>2 DEF WriterFits, Opened
<1>4. \A p \in Partitions : wr[commit].hnd[p] \in Handlers
  BY <1>3, ExecutorAssumption DEF ExecutorInv, ObjectType, Handlers
<1> QED  BY <1>1, <1>2, <1>3, <1>4

\* What the fetch relies on, while it waits.
Undisturbed ==
  /\ commit' = commit /\ wr'[commit] = wr[commit]
  /\ \A h \in Handlers : Deleted(h) => closes'[h] > 0
  /\ \A h \in Handlers, p \in Partitions : Grows(kv[h][p], kv'[h][p], commit)

\* Then nothing it knows becomes false.
LEMMA ServingWaits ==
  ASSUME ExecutorInv, StoreInv, StoreInv', ServingInv, UNCHANGED <<fe, bvars>>,
         commit # 0 => Undisturbed
  PROVE  ServingInv'
<1>1. LoadedSoFar(fe)' /\ ServedSoFar(fe)' /\ Listed(fe)'
  <2>1. LoadedSoFar(fe) /\ ServedSoFar(fe) /\ Listed(fe)  BY DEF ServingInv
  <2> QED
    BY <2>1 DEF LoadedSoFar, ServedSoFar, Listed, Aligned, Follows, bvars,
       WindowInv, CounterType, WindowsInside
<1>2. CASE fe.pc = "idle"
  <2>1. Asked(fe)' /\ Found(fe)' /\ Sized(fe)'
    BY <1>2 DEF Asked, Found, Sized, WithStore, AfterSize, Buffered
  <2> QED  BY <1>1, <2>1 DEF ServingInv
<1>3. CASE fe.pc # "idle"
  <2>1. commit # 0 /\ fe.p \in Partitions  BY <1>3 DEF ServingInv, Asked
  <2>2. Undisturbed /\ fe' = fe  BY <2>1
  <2>3. Asked(fe)'  BY <2>2 DEF ServingInv, Asked, Undisturbed
  <2>4. Found(fe)'
    <3>1. wr[commit].hnd[fe.p] \in Handlers  BY <2>1, CommittedFacts
    <3>2. Found(fe)  BY DEF ServingInv
    <3> QED  BY <2>2, <3>1, <3>2 DEF Found, Undisturbed, Deleted
  <2>5. Sized(fe)'
    <3> SUFFICES ASSUME fe.pc \in AfterSize
                 PROVE  /\ fe.total_size \in Nat
                        /\ fe.total_size <= kv'[fe.h][fe.p].total
                        /\ CommittedWithin(kv[fe.h][fe.p].list, fe.total_size)'
      BY <2>2 DEF Sized
    <3>1. /\ fe.total_size \in Nat
          /\ fe.total_size <= kv[fe.h][fe.p].total
          /\ CommittedWithin(kv[fe.h][fe.p].list, fe.total_size)
      BY DEF ServingInv, Sized
    <3>2. fe.h \in Handlers  BY DEF ServingInv, Found, WithStore
    <3> DEFINE k == kv[fe.h][fe.p]
               m == kv'[fe.h][fe.p]
    <3>3. k \in Key /\ m \in Key  BY <2>1, <3>2 DEF StoreInv
    <3>4. Grows(k, m, commit)  BY <2>1, <2>2, <3>2 DEF Undisturbed
    <3>5. k.total \in Nat /\ m.total \in Nat  BY <3>3 DEF Key
    <3>6. fe.total_size <= m.total
      <4>1. k.total <= m.total  BY <3>4 DEF Grows
      <4> HIDE DEF k, m
      <4> QED  BY <3>1, <3>5, <4>1 DEF k
    <3>7. \A i \in DOMAIN m.list :
            m.list[i].by = commit => EndOf(m.list, i) <= fe.total_size
      BY <3>1, <3>4 DEF Grows, CommittedWithin
    <3>8. CommittedWithin(kv[fe.h][fe.p].list, fe.total_size)'
      BY <2>2, <3>7 DEF CommittedWithin, Undisturbed
    <3> QED  BY <3>1, <3>6, <3>8
  <2> QED  BY <1>1, <2>3, <2>4, <2>5 DEF ServingInv
<1> QED  BY <1>2, <1>3

\* Writers and stop() do not disturb a fetch that waits.
LEMMA OthersServe ==
  ASSUME ExecutorInv, StoreInv, StoreInv', ServingInv,
         \/ \E a \in Attempts : WriterStep(a)
         \/ EnterStop \/ StopStep \/ UNCHANGED evars
  PROVE  ServingInv'
<1>1. ASSUME NEW a \in Attempts, WriterStep(a) PROVE ServingInv'
  <2>1. /\ \A b \in Attempts : b # a => wr'[b] = wr[b]
        /\ UNCHANGED <<closes, sp, fe, bvars>>
        /\ wr[a].pc # "done"
        /\ commit # 0 => commit' = commit
    BY <1>1, OneWriter
  <2>2. ASSUME commit # 0 PROVE Undisturbed
    <3>1. commit \in Attempts /\ commit # a /\ commit' = commit
      BY <2>1, <2>2, CommittedFacts
    <3>2. \A h \in Handlers, p \in Partitions :
            Grows(kv[h][p], kv'[h][p], commit)
      BY <1>1, <3>1, KeysGrow
    <3>3. wr'[commit] = wr[commit] /\ closes' = closes  BY <2>1, <3>1
    <3> QED  BY <3>1, <3>2, <3>3 DEF Undisturbed, Deleted
  <2> QED  BY <2>1, <2>2, ServingWaits
<1>2. CASE EnterStop \/ StopStep \/ UNCHANGED evars
  <2>1. UNCHANGED <<kv, wr, commit, fe, bvars>>
    BY <1>2 DEF EnterStop, StopStep, CloseDevice, LeaveStop, evars
  <2>2. \A h \in Handlers : Deleted(h) => closes'[h] > 0
    <3>1. closes \in [Handlers -> 0 .. 1]  BY DEF ExecutorInv, ObjectType
    <3>2. closes' = closes \/ closes' = [closes EXCEPT ![handler] = @ + 1]
      BY <1>2 DEF EnterStop, StopStep, CloseDevice, LeaveStop, evars, objVars
    <3> QED  BY <3>1, <3>2 DEF Deleted
  <2>3. \A h \in Handlers, p \in Partitions :
          Grows(kv[h][p], kv'[h][p], commit)
    <3>1. \A h \in Handlers, p \in Partitions : kv[h][p] \in Key
      BY DEF StoreInv
    <3> QED  BY <2>1, <3>1, GrowsNot
  <2> QED  BY <2>1, <2>2, <2>3, ServingWaits DEF Undisturbed
<1> QED  BY <1>1, <1>2

\* Before the first fetch.
LEMMA ServingInit == EInit => ServingInv
<1> SUFFICES ASSUME EInit PROVE ServingInv  OBVIOUS
<1>1. fe = NewFetch  BY DEF EInit
<1>2. /\ fe.pc = "idle" /\ fe.served = <<>> /\ fe.index = 0 /\ fe.remaining = 0
  BY <1>1 DEF NewFetch
<1>3. Asked(fe) /\ Found(fe) /\ Sized(fe) /\ Listed(fe)
  BY <1>2 DEF Asked, Found, Sized, Listed, WithStore, AfterSize, Buffered
<1>4. Ordered(<<>>)  BY DEF Ordered
<1>5. ServedSoFar(fe)  BY <1>2, <1>4 DEF ServedSoFar
<1>6. LoadedSoFar(fe)  BY <1>2 DEF LoadedSoFar, Buffered
<1> QED  BY <1>3, <1>5, <1>6 DEF ServingInv

\* A step of the fetch leaves the stores alone.
LEMMA FetchMove ==
  ASSUME UNCHANGED <<kv, wr, commit, closes>>,
         Asked(fe'), Found(fe'), Sized(fe'), Listed(fe'), ServedSoFar(fe'),
         LoadedSoFar(fe)'
  PROVE  ServingInv'
  BY DEF ServingInv, Asked, Found, Sized, Listed, ServedSoFar, CommittedWithin,
     Deleted

\* A fetch that finds its store deleted stops there.
LEMMA DeletedServes ==
  ASSUME ServingInv, CallDeleted(fe.h)
  PROVE  ServingInv'
<1>1. UNCHANGED <<kv, wr, commit, closes, fe, bvars>>
  BY DEF CallDeleted, objVars
<1>2. LoadedSoFar(fe)'
  BY <1>1 DEF ServingInv, LoadedSoFar, Aligned, Follows, bvars, WindowInv,
     CounterType, WindowsInside
<1> QED  BY <1>1, <1>2, FetchMove DEF ServingInv

\* total_size covers the blocks of the committed attempt, although it may be
\* one block of another attempt behind the list.
LEMMA CommittedCounted ==
  ASSUME ExecutorInv, StoreInv, commit # 0,
         NEW h \in Handlers, NEW p \in Partitions
  PROVE  /\ CommittedWithin(kv[h][p].list, kv[h][p].total)
         /\ kv[h][p].total \in Nat /\ kv[h][p].list \in Seq(Block)
         /\ LET s == Sizes(kv[h][p].list)
            IN  kv[h][p].total <= SumFirst(s, Len(s))
<1> DEFINE k == kv[h][p]
           l == k.list
           n == Len(l)
           s == Sizes(l)
<1>1. k \in Key /\ l \in Seq(Block) /\ k.total \in Nat /\ Total(k, h, p)
  BY DEF StoreInv, Key
<1>2. /\ s \in Seq(Nat) /\ Len(s) = n /\ n \in Nat /\ DOMAIN l = 1 .. n
  BY <1>1, SizesType
<1>3. \A i : EndOf(l, i) = SumFirst(s, i)  BY DEF EndOf
<1>4. commit \in Attempts /\ wr[commit].pc = "done"  BY CommittedFacts
<1>5. ASSUME NEW m \in 0 .. n, k.total = EndOf(l, m),
             \A i \in 1 .. n : l[i].by = commit => i <= m
      PROVE  /\ CommittedWithin(l, k.total)
             /\ k.total <= SumFirst(s, n)
  <2>1. ASSUME NEW i \in 1 .. n, l[i].by = commit PROVE EndOf(l, i) <= k.total
    <3>1. i \in 0 .. m /\ m \in 0 .. Len(s)  BY <1>2, <1>5, <2>1
    <3>2. SumFirst(s, i) <= SumFirst(s, m)  BY <1>2, <3>1, SumMonotone
    <3> QED  BY <1>3, <1>5, <3>2
  <2>2. SumFirst(s, m) <= SumFirst(s, n)
    <3>1. m \in 0 .. n /\ n \in 0 .. Len(s)  BY <1>2
    <3> QED  BY <1>2, <3>1, SumMonotone
  <2> QED  BY <1>2, <1>3, <1>5, <2>1, <2>2 DEF CommittedWithin
<1>6. CASE \A a \in Attempts : ~Lags(wr[a], h, p)
  <2>1. k.total = EndOf(l, n)  BY <1>1, <1>6 DEF Total
  <2>2. n \in 0 .. n /\ \A i \in 1 .. n : i <= n  BY <1>2
  <2> QED  BY <1>1, <1>2, <1>5, <2>1, <2>2
<1>7. ASSUME NEW a \in Attempts, Lags(wr[a], h, p)
      PROVE  CommittedWithin(l, k.total) /\ k.total <= SumFirst(s, n)
  <2>1. /\ n > 0 /\ l[n] = [by |-> a, size |-> wr[a].buf[p]]
        /\ k.total = EndOf(l, n - 1)
    BY <1>1, <1>7 DEF Total
  <2>2. a # commit  BY <1>4, <1>7 DEF Lags
  <2>3. l[n].by # commit  BY <2>1, <2>2
  <2> HIDE DEF n, l, k
  <2>4. n - 1 \in 0 .. n /\ \A i \in 1 .. n : i # n => i <= n - 1
    BY <1>2, <2>1
  <2>5. \A i \in 1 .. n : l[i].by = commit => i <= n - 1
    BY <2>3, <2>4
  <2> QED  BY <1>5, <2>1, <2>4, <2>5
<1> QED  BY <1>1, <1>2, <1>6, <1>7

\* The calls before the stream exists, up to the size.
LEMMA ServingAsks ==
  ASSUME ExecutorInv, StoreInv, FetchInv, ServingInv,
         \/ \E p \in Partitions, kind \in {"remote", "nio", "local"} :
              AskBlock(p, kind)
         \/ GetBlockData \/ GetSize
  PROVE  ServingInv'
<1> DEFINE x == fe
           y == fe'
<1>0. DOMAIN fe = FetchFields  BY DEF FetchInv, Referenced, IsFetch
<1>s. /\ Asked(x) /\ Found(x) /\ Sized(x) /\ Listed(x) /\ ServedSoFar(x)
      /\ LoadedSoFar(x)
  BY DEF ServingInv
<1>1. ASSUME NEW p \in Partitions, NEW kind \in {"remote", "nio", "local"},
             AskBlock(p, kind)
      PROVE  ServingInv'
  <2>1. /\ x.pc = "idle" /\ commit # 0 /\ wr[commit].partitionLengths[p] > 0
        /\ y = [x EXCEPT !.pc = "ask", !.p = p, !.kind = kind]
        /\ UNCHANGED <<kv, wr, commit, closes>>
    BY <1>1 DEF AskBlock, Fetching, FetchOnly, objVars
  <2>2. /\ y.pc = "ask" /\ y.p = p /\ y.served = x.served /\ y.index = x.index
        /\ y.remaining = x.remaining
    BY <1>0, <2>1 DEF FetchFields
  <2> HIDE DEF x, y
  <2>3. Asked(y) /\ Found(y) /\ Sized(y) /\ Listed(y)
    BY <2>1, <2>2 DEF Asked, Found, Sized, Listed, WithStore, AfterSize, Buffered
  <2>4. ServedSoFar(y)  BY <1>s, <2>1, <2>2 DEF ServedSoFar, Unread
  <2>5. LoadedSoFar(fe)'
    BY <1>s, <2>1, <2>2 DEF LoadedSoFar, Buffered, Streamless, y
  <2> QED  BY <2>1, <2>3, <2>4, <2>5, FetchMove DEF y
<1>2. CASE GetBlockData
  <2> DEFINE q == IF handler = 0 THEN "failed" ELSE "got"
  <2>1. /\ x.pc = "ask" /\ monitor = Nobody
        /\ y = [x EXCEPT !.pc = q, !.h = handler]
        /\ UNCHANGED <<kv, wr, commit, closes>>
    BY <1>2 DEF GetBlockData, Fetching, FetchOnly, objVars, MonitorFree
  <2> HIDE DEF q
  <2>2. /\ y.pc = q /\ y.p = x.p /\ y.served = x.served /\ y.index = x.index
        /\ y.remaining = x.remaining /\ y.h = handler
    BY <1>0, <2>1 DEF FetchFields
  <2>3. q \in {"failed", "got"} /\ (q = "got" => handler # 0)  BY DEF q
  <2>4. commit # 0 /\ x.p \in Partitions /\ wr[commit].partitionLengths[x.p] > 0
    BY <1>s, <2>1 DEF Asked
  <2>5. Asked(y)  BY <2>2, <2>4 DEF Asked
  <2>6. Found(y)
    <3> DEFINE g == wr[commit].hnd[x.p]
    <3>1. g \in Handlers /\ g \in 1 .. made  BY <2>4, CommittedFacts
    <3>2. OpenAre({handler} \ {0})  BY <2>1 DEF ExecutorInv, MonitorInv
    <3>3. /\ handler \in 0 .. made /\ made \in 0 .. MaxHandlers
          /\ closes \in [Handlers -> 0 .. 1]
      BY DEF ExecutorInv, ObjectType
    <3>4. handler # 0 => handler \in Handlers
      BY <3>3, ExecutorAssumption DEF Handlers
    <3> HIDE DEF g
    <3>5. handler = g \/ closes[g] # 0
      BY <3>1, <3>2, <3>3, ExecutorAssumption DEF OpenAre
    <3>6. handler = g \/ Deleted(g)
      BY <3>1, <3>3, <3>5 DEF Deleted
    <3> HIDE DEF x, y
    <3> QED  BY <2>2, <2>3, <3>4, <3>6
      DEF Found, WithStore, AfterSize, Buffered, g
  <2> HIDE DEF x, y
  <2>7. Sized(y) /\ Listed(y)
    BY <2>2, <2>3 DEF Sized, Listed, AfterSize, Buffered
  <2>8. ServedSoFar(y)  BY <1>s, <2>1, <2>2, <2>3 DEF ServedSoFar, Unread
  <2>9. LoadedSoFar(fe)'
    BY <1>s, <2>1, <2>2, <2>3 DEF LoadedSoFar, Buffered, Streamless, y
  <2> QED  BY <2>1, <2>5, <2>6, <2>7, <2>8, <2>9, FetchMove DEF y
<1>3. CASE GetSize /\ ~CallDeleted(x.h)
  <2> DEFINE n == kv[x.h][x.p].total
  <2>1. /\ x.pc = "got" /\ UNCHANGED <<kv, wr, commit, closes>>
        /\ y = [x EXCEPT !.pc = "sized", !.total_size = n,
                  !.refCount = IF x.kind = "local" THEN @ + 1 ELSE @]
    BY <1>3 DEF GetSize, Fetching, FetchOnly, objVars
  <2> HIDE DEF n
  <2>2. /\ y.pc = "sized" /\ y.p = x.p /\ y.served = x.served
        /\ y.index = x.index /\ y.remaining = x.remaining /\ y.h = x.h
        /\ y.total_size = n
    BY <1>0, <2>1 DEF FetchFields
  <2> HIDE DEF x, y
  <2>3. commit # 0 /\ x.p \in Partitions /\ x.h \in Handlers
    BY <1>s, <2>1 DEF Asked, Found, WithStore
  <2>4. Asked(y) /\ Found(y) /\ Listed(y)
    BY <1>s, <2>1, <2>2
    DEF Asked, Found, Listed, WithStore, AfterSize, Buffered
  <2>5. Sized(y)
    <3>1. CommittedWithin(kv[x.h][x.p].list, n) /\ n \in Nat
      BY <2>3, CommittedCounted DEF n
    <3>2. n <= n  BY <3>1
    <3> QED  BY <2>2, <3>1, <3>2 DEF Sized, n
  <2>8. ServedSoFar(y)  BY <1>s, <2>1, <2>2 DEF ServedSoFar, Unread
  <2>9. LoadedSoFar(fe)'
    BY <1>s, <2>1, <2>2 DEF LoadedSoFar, Buffered, Streamless, y
  <2> QED  BY <2>1, <2>4, <2>5, <2>8, <2>9, FetchMove DEF y
<1> QED  BY <1>1, <1>2, <1>3, DeletedServes DEF GetSize

\* The block list, and the new buffer.
LEMMA ServingLists ==
  ASSUME ExecutorInv, StoreInv, FetchInv, ServingInv,
         GetBlockInfo \/ GetAvailable
  PROVE  ServingInv'
<1> DEFINE x == fe
           y == fe'
           k == kv[x.h][x.p]
<1>0. DOMAIN fe = FetchFields  BY DEF FetchInv, Referenced, IsFetch
<1>s. /\ Asked(x) /\ Found(x) /\ Sized(x) /\ Listed(x) /\ ServedSoFar(x)
      /\ LoadedSoFar(x)
  BY DEF ServingInv
<1>1. CASE GetBlockInfo /\ ~CallDeleted(x.h)
  <2> DEFINE l == k.list
             s == Sizes(l)
             q == IF l = <<>> THEN "absent" ELSE "listed"
  <2>1. /\ x.pc = "sized" /\ UNCHANGED <<kv, wr, commit, closes>>
        /\ y = [x EXCEPT !.pc = q, !.blockInfo = s]
    BY <1>1 DEF GetBlockInfo, Fetching, FetchOnly, objVars
  <2>q. (q = "absent" /\ l = <<>>) \/ q = "listed"  OBVIOUS
  <2> HIDE DEF q, s
  <2>2. /\ y.pc = q /\ y.p = x.p /\ y.served = x.served /\ y.blockInfo = s
        /\ y.index = x.index /\ y.remaining = x.remaining /\ y.h = x.h
        /\ y.total_size = x.total_size
    BY <1>0, <2>1 DEF FetchFields
  <2>3. /\ commit # 0 /\ x.p \in Partitions /\ x.h \in Handlers
        /\ wr[commit].partitionLengths[x.p] > 0
    BY <1>s, <2>1 DEF Asked, Found, WithStore, AfterSize
  <2>4. /\ l \in Seq(Block) /\ k.total \in Nat /\ k.total <= SumFirst(s, Len(s))
    BY <2>3, CommittedCounted DEF s
  <2>5. s \in Seq(Nat) /\ s \in Seq(Nat \ {0}) /\ Len(s) \in Nat
    BY <2>4, SizesType DEF s
  <2>6. x.total_size \in Nat /\ x.total_size <= k.total
        /\ CommittedWithin(l, x.total_size)
    BY <1>s, <2>1 DEF Sized, AfterSize
  <2>7. x.total_size <= SumFirst(s, Len(s))
    <3>1. Len(s) \in 0 .. Len(s)  BY <2>5
    <3>2. SumFirst(s, Len(s)) \in Nat  BY <2>5, <3>1, SumStep
    <3> HIDE DEF k, x
    <3> QED  BY <2>4, <2>6, <3>2
  <2>8. l = <<>> => x.h # wr[commit].hnd[x.p]
    <3> SUFFICES ASSUME l = <<>>, x.h = wr[commit].hnd[x.p] PROVE FALSE
      OBVIOUS
    <3> DEFINE w == wr[commit]
               p == x.p
    <3>1. /\ w.pc = "done" /\ WriterFits(w, made) /\ Flushed(commit, w)
      BY <2>3, CommittedFacts
    <3>2. BytesBy(commit, l) = Share(w, x.h, p)
      BY <2>3, <3>1 DEF Flushed
    <3>3. Share(w, x.h, p) = w.size[p]  BY <3>1 DEF Share, Lags
    <3>4. w.partitionLengths[p] = w.out[p] /\ w.size[p] = w.out[p]
      BY <2>3, <3>1 DEF WriterFits, Reported
    <3>5. BytesBy(commit, l) = 0  BY NoBlocks
    <3> HIDE DEF w, p, l, x
    <3> QED  BY <2>3, <3>2, <3>3, <3>4, <3>5 DEF w, p
  <2> HIDE DEF x, y, k, l
  <2>9. Asked(y)  BY <2>2, <2>3 DEF Asked
  <2>10. Found(y)
    BY <1>s, <2>1, <2>2, <2>3, <2>8, <2>q
    DEF Found, WithStore, AfterSize
  <2>11. Sized(y)
    BY <2>2, <2>6, <2>q DEF Sized, k, l
  <2>12. Listed(y)
    BY <2>2, <2>5, <2>7, <2>q DEF Listed, Buffered
  <2>13. ServedSoFar(y)  BY <1>s, <2>1, <2>2, <2>q DEF ServedSoFar, Unread
  <2>14. LoadedSoFar(fe)'
    BY <1>s, <2>1, <2>2, <2>q DEF LoadedSoFar, Buffered, Streamless, y
  <2> QED
    BY <2>1, <2>9, <2>10, <2>11, <2>12, <2>13, <2>14, FetchMove DEF y
<1>2. CASE GetAvailable /\ ~CallDeleted(x.h)
  <2> DEFINE n == k.total
             s == x.blockInfo
  <2>1. /\ x.pc = "listed" /\ UNCHANGED <<kv, wr, commit, closes>>
        /\ NewPmemBuffer(n)
        /\ y = [x EXCEPT !.pc = "load", !.available = n, !.inputStream = TRUE]
    BY <1>2 DEF GetAvailable, Fetching, FetchOnly, objVars
  <2> HIDE DEF n
  <2>2. /\ y.pc = "load" /\ y.p = x.p /\ y.served = x.served /\ y.blockInfo = s
        /\ y.index = x.index /\ y.remaining = x.remaining /\ y.h = x.h
        /\ y.total_size = x.total_size /\ y.available = n
    BY <1>0, <2>1 DEF FetchFields
  <2> HIDE DEF y
  <2>3. commit # 0 /\ x.p \in Partitions /\ x.h \in Handlers
    BY <1>s, <2>1 DEF Asked, Found, WithStore, AfterSize
  <2>4. n \in Nat  BY <2>3, CommittedCounted DEF n
  <2>5. x.total_size <= n /\ x.served = <<>> /\ x.index = 0 /\ x.remaining = 0
        /\ s \in Seq(Nat \ {0})
    BY <1>s, <2>1
    DEF Sized, ServedSoFar, LoadedSoFar, Listed, AfterSize, Unread, Streamless, n
  <2> HIDE DEF x, k
  <2>6. Asked(y) /\ Found(y) /\ Sized(y) /\ Listed(y) /\ ServedSoFar(y)
    BY <1>s, <2>1, <2>2
    DEF Asked, Found, Sized, Listed, ServedSoFar, WithStore, AfterSize, Buffered,
        Unread
  <2>7. /\ cap' = n /\ data' = Malloc(n) /\ pos' = 0 /\ remaining' = 0
        /\ pos_dirty' = 0 /\ remaining_dirty' = 0 /\ sent' = 0
    BY <2>1 DEF NewPmemBuffer
  <2>8. data' \in [0 .. cap' - 1 -> Nat]  BY <2>4, <2>7, MallocType
  <2>9. WindowInv'
    BY <2>4, <2>7 DEF WindowInv, CounterType, WindowsInside
  <2>10. s \in Seq(Nat) /\ Len(s) \in Nat
    <3> HIDE DEF s
    <3> QED  BY <2>5
  <2>11. SumFirst(s, 0) = 0  BY <2>10, SumStep
  <2>12. Len(y.served) = 0  BY <2>2, <2>5
  <2>13. Follows(fe.served)'
    BY <2>7, <2>12 DEF Follows, y
  <2> HIDE DEF s
  <2>14. Aligned(fe)'
    BY <2>2, <2>5, <2>7, <2>8, <2>9, <2>10, <2>11, <2>13 DEF Aligned, y
  <2>15. LoadedSoFar(fe)'
    BY <2>2, <2>4, <2>5, <2>7, <2>14 DEF LoadedSoFar, Streamless, y
  <2> QED  BY <2>1, <2>6, <2>15, FetchMove DEF y
<1> QED  BY <1>1, <1>2, DeletedServes DEF GetBlockInfo, GetAvailable

\* loadNextStream, when the unread bytes start at 0 or there are none.
LEMMA LoadAligns ==
  ASSUME Aligned(fe), fe.blockInfo \in Seq(Nat \ {0}), Ordered(fe.served),
         HasNext(fe), pos = 0 \/ remaining = 0, LoadBytes(NextBlock(fe)),
         fe'.index = fe.index + 1,
         fe'.remaining = fe.remaining + NextBlock(fe),
         fe'.blockInfo = fe.blockInfo, fe'.served = fe.served
  PROVE  /\ Aligned(fe)' /\ pos' = 0 /\ remaining' > 0 /\ sent <= sent'
         /\ sent' \in Nat
<1> DEFINE b == fe.blockInfo
           i == fe.index
           n == b[i + 1]
           s == fe.served
           m == Len(s)
<1>1. /\ i \in 0 .. Len(b) /\ sent = SumFirst(b, i) /\ remaining = fe.remaining
      /\ m + remaining = sent
      /\ \A j \in 0 .. remaining - 1 : data[pos + j] = m + j + 1
      /\ WindowInv /\ data \in [0 .. cap - 1 -> Nat]
  BY DEF Aligned, Follows
<1>2. remaining \in Nat /\ sent \in Nat /\ pos \in Nat /\ m \in Nat
  BY <1>1 DEF WindowInv, CounterType, Ordered
<1>3. /\ b \in Seq(Nat) /\ Len(b) \in Nat /\ i + 1 \in 1 .. Len(b)
      /\ i + 1 \in 0 .. Len(b) /\ (i + 1) - 1 = i
      /\ n \in Nat /\ n > 0 /\ NextBlock(fe) = n
  <2>1. Len(b) \in Nat /\ i < Len(b) /\ i \in Nat  BY <1>1 DEF HasNext
  <2>2. i + 1 \in 1 .. Len(b)  BY <2>1
  <2>3. n \in Nat \ {0}  BY <2>2
  <2>4. b \in Seq(Nat)  OBVIOUS
  <2>5. NextBlock(fe) = n  BY DEF NextBlock
  <2> HIDE DEF b, i, n
  <2>6. i + 1 \in 0 .. Len(b) /\ (i + 1) - 1 = i  BY <2>1, <2>2
  <2>7. n \in Nat /\ n > 0  BY <2>3
  <2> QED  BY <2>1, <2>2, <2>4, <2>5, <2>6, <2>7
<1>4. WindowInv'  BY <1>1, <1>3, WindowLoad
<1>5. Load(n)  BY <1>3 DEF Load
<1>6. Arrived(n, 0)  BY <1>1, <1>3, <1>5, LoadArrives
<1>7. /\ data' \in [0 .. cap' - 1 -> Nat] /\ pos' = 0
      /\ remaining' = remaining + n /\ sent' = sent + n
      /\ \A j \in 0 .. remaining - 1 : data'[0 + j] = data[pos + j]
      /\ \A j \in 0 .. n - 1 : data'[0 + remaining + j] = sent + j + 1
  BY <1>6 DEF Arrived
<1>8. sent' = SumFirst(b, i + 1)
  <2> HIDE DEF b, i
  <2> QED  BY <1>1, <1>3, <1>7, SumStep
<1>9. ASSUME NEW j \in 0 .. (remaining + n) - 1 PROVE data'[j] = m + j + 1
  <2> HIDE DEF m, n
  <2>1. CASE j < remaining
    <3>1. j \in 0 .. remaining - 1 /\ 0 + j = j  BY <1>2, <1>3, <2>1
    <3> QED  BY <1>1, <1>7, <3>1
  <2>2. CASE ~(j < remaining)
    <3> DEFINE e == j - remaining
    <3>1. e \in 0 .. n - 1 /\ j = 0 + remaining + e /\ e \in Nat
      BY <1>2, <1>3, <2>2
    <3> HIDE DEF e
    <3>a. \A q \in 0 .. n - 1 : data'[0 + remaining + q] = sent + q + 1
      BY <1>7
    <3>b. data'[0 + remaining + e] = sent + e + 1  BY <3>1, <3>a
    <3>2. data'[j] = sent + e + 1  BY <3>1, <3>b
    <3>c. m + remaining = sent  BY <1>1
    <3>3. sent + e + 1 = m + j + 1  BY <1>2, <3>1, <3>c
    <3> QED  BY <3>2, <3>3
  <2> QED  BY <2>1, <2>2
<1>10. Follows(fe.served)'
  <2>1. m + remaining' = sent'
    <3> HIDE DEF m, n
    <3> QED  BY <1>1, <1>2, <1>3, <1>7
  <2>2. \A j \in 0 .. remaining' - 1 : data'[pos' + j] = m + j + 1
    <3> SUFFICES ASSUME NEW j \in 0 .. (remaining + n) - 1
                 PROVE  data'[0 + j] = m + j + 1
      BY <1>7
    <3>1. 0 + j = j  OBVIOUS
    <3> QED  BY <1>9, <3>1
  <2> QED  BY <2>1, <2>2 DEF Follows
<1>11. Aligned(fe)'
  <2> HIDE DEF i, b, n
  <2>1. remaining' = fe'.remaining  BY <1>1, <1>3, <1>7
  <2>2. fe'.index = i + 1 /\ fe'.blockInfo = b  BY DEF i, b
  <2> QED  BY <1>3, <1>4, <1>7, <1>8, <1>10, <2>1, <2>2 DEF Aligned
<1> HIDE DEF n
<1> QED  BY <1>2, <1>3, <1>7, <1>11

\* What a read of n loaded bytes returns.
LEMMA ReadFollows ==
  ASSUME Aligned(fe), Ordered(fe.served), NEW n \in Nat, n <= remaining, Read(n)
  PROVE  /\ got' \in Seq(Nat) /\ Len(got') = n
         /\ \A i \in 1 .. n : got'[i] = Len(fe.served) + i
         /\ pos' = pos + n /\ remaining' = remaining - n
         /\ UNCHANGED <<data, cap, sent>>
         /\ pos \in Nat /\ remaining \in Nat /\ sent \in Nat
         /\ Len(fe.served) \in Nat
<1> DEFINE m == Len(fe.served)
<1>1. /\ \A j \in 0 .. remaining - 1 : data[pos + j] = m + j + 1
      /\ WindowInv /\ data \in [0 .. cap - 1 -> Nat]
  BY DEF Aligned, Follows
<1>2. /\ remaining \in Nat /\ sent \in Nat /\ pos \in Nat /\ m \in Nat
      /\ cap \in Nat /\ pos + remaining <= cap
  BY <1>1 DEF WindowInv, CounterType, WindowsInside, Ordered
<1>3. /\ got' = BytesAt(data, pos, n) /\ pos' = pos + n
      /\ remaining' = remaining - n /\ UNCHANGED <<data, cap, sent>>
  BY <1>2 DEF Read
<1> HIDE DEF m
<1>4. \A j \in pos .. pos + n - 1 : data[j] \in Nat
  BY <1>1, <1>2
<1>5. /\ got' \in Seq(Nat) /\ Len(got') = n
      /\ \A i \in 1 .. n : got'[i] = data[pos + i - 1]
  BY <1>2, <1>3, <1>4, BytesAtType
<1>6. ASSUME NEW i \in 1 .. n PROVE got'[i] = m + i
  <2>1. /\ i - 1 \in 0 .. remaining - 1 /\ pos + i - 1 = pos + (i - 1)
        /\ m + (i - 1) + 1 = m + i
    BY <1>2
  <2>2. data[pos + (i - 1)] = m + (i - 1) + 1  BY <1>1, <2>1
  <2>3. got'[i] = data[pos + i - 1]  BY <1>5
  <2> QED  BY <2>1, <2>2, <2>3
<1> QED  BY <1>2, <1>3, <1>5, <1>6 DEF m

\* Bytes that follow those served, behind them.
LEMMA ServeMore ==
  ASSUME NEW s, Ordered(s), NEW g \in Seq(Nat),
         \A i \in 1 .. Len(g) : g[i] = Len(s) + i
  PROVE  Ordered(s \o g) /\ Len(s \o g) = Len(s) + Len(g)
<1>1. s \in Seq(Nat) /\ \A i \in 1 .. Len(s) : s[i] = i  BY DEF Ordered
<1>2. s \o g \in Seq(Nat) /\ Len(s \o g) = Len(s) + Len(g)  BY <1>1
<1>3. Len(s) \in Nat /\ Len(g) \in Nat  BY <1>1
<1>4. ASSUME NEW i \in 1 .. Len(s) + Len(g) PROVE (s \o g)[i] = i
  <2>1. CASE i <= Len(s)
    <3>1. i \in 1 .. Len(s)  BY <1>3, <2>1
    <3>2. (s \o g)[i] = s[i]  BY <1>1, <3>1
    <3> QED  BY <1>1, <3>1, <3>2
  <2>2. CASE ~(i <= Len(s))
    <3>1. i - Len(s) \in 1 .. Len(g)  BY <1>3, <2>2
    <3>2. (s \o g)[i] = g[i - Len(s)]  BY <1>1, <2>2
    <3>3. g[i - Len(s)] = Len(s) + (i - Len(s))  BY <3>1
    <3> QED  BY <1>3, <3>2, <3>3
  <2> QED  BY <2>1, <2>2
<1> QED  BY <1>2, <1>4 DEF Ordered

\* n bytes are taken out of the stream.
LEMMA TakeAligns ==
  ASSUME Aligned(fe), Ordered(fe.served), NEW n \in Nat, n <= remaining, Read(n),
         fe'.served = fe.served \o got', fe'.remaining = fe.remaining - n,
         fe'.index = fe.index, fe'.blockInfo = fe.blockInfo
  PROVE  Aligned(fe)' /\ Ordered(fe'.served) /\ sent' = sent
<1> DEFINE s == fe.served
           m == Len(s)
           g == got'
<1>1. /\ g \in Seq(Nat) /\ Len(g) = n
      /\ \A i \in 1 .. n : g[i] = m + i
      /\ pos' = pos + n /\ remaining' = remaining - n
      /\ UNCHANGED <<data, cap, sent>>
      /\ pos \in Nat /\ remaining \in Nat /\ sent \in Nat /\ m \in Nat
  BY ReadFollows
<1>2. /\ fe.index \in 0 .. Len(fe.blockInfo)
      /\ sent = SumFirst(fe.blockInfo, fe.index) /\ remaining = fe.remaining
      /\ m + remaining = sent
      /\ \A j \in 0 .. remaining - 1 : data[pos + j] = m + j + 1
      /\ WindowInv /\ data \in [0 .. cap - 1 -> Nat]
  BY DEF Aligned, Follows
<1>3. WindowInv'  BY <1>2, WindowRead
<1> HIDE DEF g, s
<1>4. Ordered(s \o g) /\ Len(s \o g) = m + n
  BY <1>1, ServeMore DEF s
<1>5. fe'.served = s \o g  BY DEF s, g
<1>6. Follows(fe.served)'
  <2> HIDE DEF m
  <2>1. Len(fe'.served) = m + n  BY <1>4, <1>5
  <2>2. (m + n) + (remaining - n) = sent  BY <1>1, <1>2
  <2>3. ASSUME NEW j \in 0 .. (remaining - n) - 1
        PROVE  data[(pos + n) + j] = (m + n) + j + 1
    <3>1. n + j \in 0 .. remaining - 1 /\ (pos + n) + j = pos + (n + j)
          /\ m + (n + j) + 1 = (m + n) + j + 1
      BY <1>1
    <3>2. data[pos + (n + j)] = m + (n + j) + 1  BY <1>2, <3>1
    <3> QED  BY <3>1, <3>2
  <2> QED  BY <1>1, <2>1, <2>2, <2>3 DEF Follows
<1>7. Aligned(fe)'
  BY <1>1, <1>2, <1>3, <1>6 DEF Aligned
<1> QED  BY <1>1, <1>4, <1>5, <1>7

\* The loads of createInputStream.
LEMMA ServingLoads ==
  ASSUME FetchInv, ServingInv, LoadBlocks
  PROVE  ServingInv'
<1> DEFINE x == fe
           y == fe'
<1>0. DOMAIN fe = FetchFields  BY DEF FetchInv, Referenced, IsFetch
<1>s. /\ Asked(x) /\ Found(x) /\ Sized(x) /\ Listed(x) /\ ServedSoFar(x)
      /\ LoadedSoFar(x)
  BY DEF ServingInv
<1>1. x.pc = "load" /\ UNCHANGED <<kv, wr, commit, closes>>
  BY DEF LoadBlocks, Fetching, FetchOnly, objVars
<1>2. /\ Aligned(fe) /\ x.available \in Nat /\ x.total_size <= x.available
      /\ pos = 0 /\ x.served = <<>> /\ Ordered(fe.served)
      /\ fe.blockInfo \in Seq(Nat \ {0}) /\ x.total_size \in Nat
      /\ x.total_size <= SumFirst(x.blockInfo, Len(x.blockInfo))
  BY <1>1, <1>s
  DEF LoadedSoFar, ServedSoFar, Listed, Sized, AfterSize, Buffered, Unread
<1>3. CASE LoadBytes(NextBlock(fe)) /\ fe' = Loaded(fe) /\ HasNext(fe)
  <2> DEFINE i == x.index + 1
             r == x.remaining + NextBlock(x)
  <2>1. y = [x EXCEPT !.index = i, !.remaining = r]  BY <1>3 DEF Loaded
  <2> HIDE DEF i, r
  <2>2. /\ y.pc = "load" /\ y.p = x.p /\ y.h = x.h /\ y.served = x.served
        /\ y.blockInfo = x.blockInfo /\ y.total_size = x.total_size
        /\ y.available = x.available /\ y.index = i /\ y.remaining = r
    BY <1>0, <1>1, <2>1 DEF FetchFields
  <2>3. Aligned(fe)' /\ pos' = 0
    BY <1>2, <1>3, <2>2, LoadAligns DEF i, r
  <2> HIDE DEF x, y
  <2>4. Asked(y) /\ Found(y) /\ Sized(y) /\ Listed(y) /\ ServedSoFar(y)
    BY <1>s, <1>1, <2>2
    DEF Asked, Found, Sized, Listed, ServedSoFar, WithStore, AfterSize, Buffered,
        Unread
  <2>5. LoadedSoFar(fe)'
    BY <1>2, <2>2, <2>3 DEF LoadedSoFar, Streamless, y
  <2> QED  BY <1>1, <2>4, <2>5, FetchMove DEF y
<1>4. CASE ~(LoadMore(fe) /\ HasNext(fe)) /\ UNCHANGED bvars
           /\ fe' = [fe EXCEPT !.pc = IF fe.kind = "local" THEN "open"
                                                           ELSE "ready"]
  <2> DEFINE q == IF x.kind = "local" THEN "open" ELSE "ready"
  <2>1. y = [x EXCEPT !.pc = q] /\ q \in {"open", "ready"}  BY <1>4
  <2> HIDE DEF q
  <2>2. /\ y.pc = q /\ y.p = x.p /\ y.h = x.h /\ y.served = x.served
        /\ y.blockInfo = x.blockInfo /\ y.total_size = x.total_size
        /\ y.index = x.index /\ y.remaining = x.remaining
    BY <1>0, <2>1 DEF FetchFields
  <2>3. /\ sent = SumFirst(x.blockInfo, x.index) /\ remaining = x.remaining
        /\ x.index \in 0 .. Len(x.blockInfo) /\ remaining = sent
        /\ remaining \in Nat
    <3>1. Len(x.served) + remaining = sent /\ remaining \in Nat
      BY <1>2 DEF Aligned, Follows, WindowInv, CounterType
    <3>2. Len(x.served) = 0  BY <1>2
    <3>3. remaining = sent
      <4> HIDE DEF x
      <4> QED  BY <3>1, <3>2
    <3> QED  BY <1>2, <3>1, <3>3 DEF Aligned
  <2>4. x.total_size <= sent
    <3>0. Len(x.blockInfo) \in Nat  BY <1>2
    <3>1. CASE ~HasNext(x)
      <4> DEFINE n == Len(x.blockInfo)
      <4>0. n \in Nat /\ x.index \in 0 .. n /\ ~(x.index < n)
        BY <2>3, <3>0, <3>1 DEF HasNext
      <4> HIDE DEF n
      <4>1. x.index = n  BY <4>0
      <4> QED  BY <1>2, <2>3, <4>1 DEF n
    <3>2. CASE ~LoadMore(x)
      <4>1. /\ ~(x.remaining = 0)
            /\ ~(x.remaining > 0 /\ x.remaining < x.available)
        BY <3>2 DEF LoadMore
      <4> HIDE DEF x
      <4> QED  BY <1>2, <2>3, <4>1
    <3> QED  BY <1>4, <3>1, <3>2
  <2>5. Aligned(fe)'
    BY <1>2, <1>4, <2>2
    DEF Aligned, Follows, bvars, WindowInv, CounterType, WindowsInside
  <2> HIDE DEF x, y
  <2>6. Asked(y) /\ Found(y) /\ Sized(y) /\ Listed(y) /\ ServedSoFar(y)
    BY <1>s, <1>1, <2>1, <2>2
    DEF Asked, Found, Sized, Listed, ServedSoFar, WithStore, AfterSize, Buffered,
        Unread
  <2>7. sent' = sent /\ pos' = pos  BY <1>4 DEF bvars
  <2>8. LoadedSoFar(fe)'
    BY <1>2, <2>1, <2>2, <2>4, <2>5, <2>7 DEF LoadedSoFar, Streamless, y
  <2> QED  BY <1>1, <2>6, <2>8, FetchMove DEF y
<1> QED  BY <1>3, <1>4 DEF LoadBlocks

\* The reads of a local fetch.
LEMMA ServingReads ==
  ASSUME FetchInv, ServingInv,
         \/ ReadOne \/ ReadLoaded \/ \E len \in 1 .. MaxLen : ReadArray(len)
  PROVE  ServingInv'
<1> DEFINE x == fe
           y == fe'
<1>0. DOMAIN fe = FetchFields  BY DEF FetchInv, Referenced, IsFetch
<1>s. /\ Asked(x) /\ Found(x) /\ Sized(x) /\ Listed(x) /\ ServedSoFar(x)
      /\ LoadedSoFar(x)
  BY DEF ServingInv
<1>1. x.pc \in {"open", "loaded"} /\ UNCHANGED <<kv, wr, commit, closes>>
  BY DEF ReadOne, ReadLoaded, ReadArray, TakeBytes, Fetching, FetchOnly, objVars
<1>2. /\ Aligned(fe) /\ Ordered(fe.served) /\ x.total_size <= sent
      /\ fe.blockInfo \in Seq(Nat \ {0}) /\ x.total_size \in Nat
  BY <1>1, <1>s
  DEF LoadedSoFar, ServedSoFar, Listed, Sized, AfterSize, Buffered
<1>3. remaining \in Nat /\ sent \in Nat /\ remaining = x.remaining
  BY <1>2 DEF Aligned, WindowInv, CounterType
<1>4. ASSUME NEW n \in Nat, n <= remaining, TakeBytes(n) PROVE ServingInv'
  <2> DEFINE r == x.remaining - n
             v == x.available - n
             s == x.served \o got'
  <2>1. Read(n) /\ y = [x EXCEPT !.pc = "open", !.remaining = r,
                                 !.available = v, !.served = s]
    BY <1>4 DEF TakeBytes
  <2> HIDE DEF r, v, s
  <2>2. /\ y.pc = "open" /\ y.p = x.p /\ y.h = x.h /\ y.served = s
        /\ y.blockInfo = x.blockInfo /\ y.total_size = x.total_size
        /\ y.index = x.index /\ y.remaining = r
    BY <1>0, <2>1 DEF FetchFields
  <2>3. Aligned(fe)' /\ Ordered(fe'.served) /\ sent' = sent
    BY <1>2, <1>4, <2>1, <2>2, TakeAligns DEF r, s
  <2>4. Ordered(y.served)  BY <2>3
  <2> HIDE DEF x, y
  <2>5. Asked(y) /\ Found(y) /\ Sized(y) /\ Listed(y) /\ ServedSoFar(y)
    BY <1>s, <1>1, <2>2, <2>4
    DEF Asked, Found, Sized, Listed, ServedSoFar, WithStore, AfterSize, Buffered,
        Unread
  <2>6. LoadedSoFar(fe)'
    BY <1>2, <2>2, <2>3 DEF LoadedSoFar, Streamless, y
  <2> QED  BY <1>1, <2>5, <2>6, FetchMove DEF y
<1>5. ASSUME fe' = [fe EXCEPT !.pc = "eof"], remaining = 0, UNCHANGED bvars
      PROVE  ServingInv'
  <2>2. /\ y.pc = "eof" /\ y.p = x.p /\ y.h = x.h /\ y.served = x.served
        /\ y.blockInfo = x.blockInfo /\ y.total_size = x.total_size
        /\ y.index = x.index /\ y.remaining = x.remaining
    BY <1>0, <1>5 DEF FetchFields
  <2>3. Aligned(fe)'
    BY <1>2, <1>5, <2>2
    DEF Aligned, Follows, bvars, WindowInv, CounterType, WindowsInside
  <2> HIDE DEF x, y
  <2>5. Asked(y) /\ Found(y) /\ Sized(y) /\ Listed(y) /\ ServedSoFar(y)
    BY <1>s, <1>1, <2>2
    DEF Asked, Found, Sized, Listed, ServedSoFar, WithStore, AfterSize, Buffered,
        Unread
  <2>6. LoadedSoFar(fe)'
    BY <1>2, <1>5, <2>2, <2>3 DEF LoadedSoFar, Streamless, y, bvars
  <2> QED  BY <1>1, <2>5, <2>6, FetchMove DEF y
<1>6. ASSUME x.remaining = 0, HasNext(fe), LoadBytes(NextBlock(fe)),
             fe' = [Loaded(fe) EXCEPT !.pc = "loaded"]
      PROVE  ServingInv'
  <2> DEFINE i == x.index + 1
             r == x.remaining + NextBlock(x)
  <2>1. y = [x EXCEPT !.index = i, !.remaining = r, !.pc = "loaded"]
    BY <1>6 DEF Loaded
  <2> HIDE DEF i, r
  <2>2. /\ y.pc = "loaded" /\ y.p = x.p /\ y.h = x.h /\ y.served = x.served
        /\ y.blockInfo = x.blockInfo /\ y.total_size = x.total_size
        /\ y.index = i /\ y.remaining = r
    BY <1>0, <2>1 DEF FetchFields
  <2>3. Aligned(fe)' /\ remaining' > 0 /\ sent <= sent' /\ sent' \in Nat
    BY <1>2, <1>3, <1>6, <2>2, LoadAligns DEF i, r
  <2> HIDE DEF x, y
  <2>4. x.total_size <= sent'  BY <1>2, <1>3, <2>3
  <2>5. Asked(y) /\ Found(y) /\ Sized(y) /\ Listed(y) /\ ServedSoFar(y)
    BY <1>s, <1>1, <2>2
    DEF Asked, Found, Sized, Listed, ServedSoFar, WithStore, AfterSize, Buffered,
        Unread
  <2>6. LoadedSoFar(fe)'
    BY <2>2, <2>3, <2>4 DEF LoadedSoFar, Streamless, y
  <2> QED  BY <1>1, <2>5, <2>6, FetchMove DEF y
<1>7. CASE ReadOne
  <2>1. CASE ~AllRead(fe) /\ TakeBytes(1)
    <3>1. ~(x.remaining = 0)  BY <2>1 DEF AllRead
    <3> HIDE DEF x
    <3>2. 1 \in Nat /\ 1 <= remaining  BY <1>3, <3>1
    <3> QED  BY <1>4, <2>1, <3>2
  <2>2. CASE AllRead(fe) /\ HasNext(fe) /\ LoadBytes(NextBlock(fe))
             /\ fe' = [Loaded(fe) EXCEPT !.pc = "loaded"]
    BY <1>6, <2>2 DEF AllRead
  <2>3. CASE AllRead(fe) /\ fe' = [fe EXCEPT !.pc = "eof"] /\ UNCHANGED bvars
    BY <1>3, <1>5, <2>3 DEF AllRead
  <2> QED  BY <1>7, <2>1, <2>2, <2>3 DEF ReadOne
<1>8. CASE ReadLoaded
  <2>1. x.pc = "loaded" /\ TakeBytes(1)  BY <1>8 DEF ReadLoaded, Fetching
  <2>2. remaining > 0  BY <1>s, <2>1 DEF LoadedSoFar
  <2>3. 1 \in Nat /\ 1 <= remaining  BY <1>3, <2>2
  <2> QED  BY <1>4, <2>1, <2>3
<1>9. ASSUME NEW len \in 1 .. MaxLen, ReadArray(len) PROVE ServingInv'
  <2>0. len \in Nat  OBVIOUS
  <2>1. CASE TakeBytes(LesserOf(len, fe.remaining))
    <3> DEFINE n == LesserOf(len, remaining)
    <3>1. n \in Nat /\ n <= remaining  BY <1>3, <2>0 DEF LesserOf
    <3>2. TakeBytes(n)  BY <1>3, <2>1
    <3> HIDE DEF n
    <3> QED  BY <1>4, <3>1, <3>2
  <2>2. CASE fe.remaining = 0 /\ fe' = [fe EXCEPT !.pc = "eof"]
             /\ UNCHANGED bvars
    BY <1>3, <1>5, <2>2
  <2> QED  BY <1>9, <2>1, <2>2 DEF ReadArray
<1> QED  BY <1>7, <1>8, <1>9

\* The block is sent, or copied.
LEMMA ServingSends ==
  ASSUME FetchInv, ServingInv, SendNetty \/ CopyNio
  PROVE  ServingInv'
<1> DEFINE x == fe
           y == fe'
           n == x.total_size
<1>0. DOMAIN fe = FetchFields  BY DEF FetchInv, Referenced, IsFetch
<1>s. /\ Asked(x) /\ Found(x) /\ Sized(x) /\ Listed(x) /\ ServedSoFar(x)
      /\ LoadedSoFar(x)
  BY DEF ServingInv
<1>1. x.pc = "ready" /\ UNCHANGED <<kv, wr, commit, closes>>
  BY DEF SendNetty, CopyNio, Fetching, FetchOnly, objVars
<1>2. /\ Aligned(fe) /\ Ordered(fe.served) /\ n <= sent /\ n \in Nat
      /\ pos = 0 /\ x.served = <<>>
  BY <1>1, <1>s
  DEF LoadedSoFar, ServedSoFar, Listed, Sized, AfterSize, Buffered, Unread
<1>3. /\ remaining \in Nat /\ sent \in Nat /\ cap \in Nat
      /\ pos + remaining <= cap /\ remaining = x.remaining
      /\ Len(x.served) + remaining = sent
      /\ \A i \in 0 .. remaining - 1 : data[pos + i] = Len(x.served) + i + 1
  BY <1>2 DEF Aligned, Follows, WindowInv, CounterType, WindowsInside
<1>4. Len(x.served) = 0  BY <1>2
<1>5. /\ n <= remaining /\ remaining <= cap
      /\ \A i \in 0 .. remaining - 1 : data[i] = i + 1
  <2> HIDE DEF n, x
  <2>1. n <= remaining /\ remaining <= cap  BY <1>2, <1>3, <1>4
  <2>2. ASSUME NEW i \in 0 .. remaining - 1 PROVE data[i] = i + 1
    <3>1. pos + i = i /\ 0 + i + 1 = i + 1  BY <1>2
    <3>2. data[pos + i] = Len(x.served) + i + 1  BY <1>3
    <3> QED  BY <1>4, <3>1, <3>2
  <2> QED  BY <2>1, <2>2
<1>6. ASSUME y.pc = "served", y.p = x.p, y.h = x.h, y.total_size = n,
             Ordered(y.served), Len(y.served) = n
      PROVE  ServingInv'
  <2> HIDE DEF x, y
  <2>1. Asked(y) /\ Found(y) /\ Sized(y) /\ Listed(y) /\ ServedSoFar(y)
    BY <1>s, <1>1, <1>2, <1>6
    DEF Asked, Found, Sized, Listed, ServedSoFar, WithStore, AfterSize, Buffered,
        Unread, n
  <2>2. LoadedSoFar(fe)'
    BY <1>6 DEF LoadedSoFar, Streamless, Buffered, y
  <2> QED  BY <1>1, <2>1, <2>2, FetchMove DEF y
<1>7. CASE SendNetty
  <2> DEFINE s == [i \in 1 .. n |-> IF i <= cap THEN data[i - 1] ELSE 0]
  <2>1. y = [x EXCEPT !.pc = "served", !.served = s]
    BY <1>7 DEF SendNetty
  <2>2. Ordered(s) /\ Len(s) = n
    <3> HIDE DEF n, x
    <3>1. ASSUME NEW i \in 1 .. n
          PROVE  (IF i <= cap THEN data[i - 1] ELSE 0) = i
      <4>1. i - 1 \in 0 .. remaining - 1 /\ i <= cap /\ (i - 1) + 1 = i
        BY <1>2, <1>3, <1>5
      <4>2. data[i - 1] = (i - 1) + 1  BY <1>5, <4>1
      <4> QED  BY <4>1, <4>2
    <3>2. s = [i \in 1 .. n |-> i]  BY <3>1
    <3> HIDE DEF s
    <3> QED  BY <1>2, <3>2 DEF Ordered
  <2> HIDE DEF s
  <2>3. /\ y.pc = "served" /\ y.p = x.p /\ y.h = x.h /\ y.total_size = n
        /\ y.served = s
    BY <1>0, <2>1 DEF FetchFields
  <2> QED  BY <1>6, <2>2, <2>3
<1>8. CASE CopyNio
  <2> DEFINE e == LesserOf(n, x.remaining)
             r == x.remaining - e
             v == x.available - e
             g == got'
  <2>1. /\ Read(e)
        /\ y = [x EXCEPT !.pc = "served", !.byteBuffer = "held",
                  !.remaining = r, !.available = v, !.served = g]
    BY <1>8 DEF CopyNio
  <2>2. e = n
    <3> HIDE DEF n, x
    <3> QED  BY <1>2, <1>3, <1>5 DEF LesserOf
  <2>3. Read(n)  BY <2>1, <2>2
  <2>4. /\ g \in Seq(Nat) /\ Len(g) = n
        /\ \A i \in 1 .. n : g[i] = Len(fe.served) + i
    BY <1>2, <1>5, <2>3, ReadFollows
  <2> HIDE DEF r, v, g
  <2>5. /\ y.pc = "served" /\ y.p = x.p /\ y.h = x.h /\ y.total_size = n
        /\ y.served = g
    BY <1>0, <2>1 DEF FetchFields
  <2>6. Ordered(g)
    <3> HIDE DEF n
    <3>1. \A i \in 1 .. n : 0 + i = i  BY <1>2
    <3> QED  BY <1>4, <2>4, <3>1 DEF Ordered
  <2> QED  BY <1>6, <2>4, <2>5, <2>6
<1> QED  BY <1>7, <1>8

\* The end of a fetch.
LEMMA ServingEnds ==
  ASSUME FetchInv, ServingInv, FinishFetch \/ AbortFetch
  PROVE  ServingInv'
<1> DEFINE x == fe
           y == fe'
<1>0. DOMAIN fe = FetchFields  BY DEF FetchInv, Referenced, IsFetch
<1>s. /\ Asked(x) /\ Found(x) /\ Sized(x) /\ Listed(x) /\ ServedSoFar(x)
      /\ LoadedSoFar(x)
  BY DEF ServingInv
<1>1. /\ UNCHANGED <<kv, wr, commit, closes>>
      /\ x.pc \in {"served", "eof", "sized", "open", "ready", "got"}
      /\ \/ y = [Released(x) EXCEPT !.pc = "done"] /\ x.pc = "served"
         \/ y = [Released(Closed(x)) EXCEPT !.pc = "done"] /\ x.pc = "eof"
         \/ y = [Released(x) EXCEPT !.pc = "aborted"]
  BY DEF FinishFetch, AbortFetch, Fetching, FetchOnly, objVars
<1>2. ASSUME NEW z, DOMAIN z = FetchFields
      PROVE  /\ DOMAIN Released(z) = FetchFields /\ DOMAIN Closed(z) = FetchFields
             /\ \A f \in {"p", "h", "total_size", "served"} :
                  Released(z)[f] = z[f] /\ Closed(z)[f] = z[f]
  BY <1>2 DEF Released, Closed, FetchFields
<1>3. /\ y.p = x.p /\ y.h = x.h /\ y.total_size = x.total_size
      /\ y.served = x.served
      /\ \/ y.pc = "done" /\ x.pc \in {"served", "eof"}
         \/ y.pc = "aborted"
  <2> DEFINE c == Closed(x)
             r == Released(x)
             d == Released(c)
  <2>1. /\ DOMAIN c = FetchFields /\ DOMAIN r = FetchFields
        /\ \A f \in {"p", "h", "total_size", "served"} : c[f] = x[f] /\ r[f] = x[f]
    BY <1>0, <1>2
  <2>2. /\ DOMAIN d = FetchFields
        /\ \A f \in {"p", "h", "total_size", "served"} : d[f] = c[f]
    <3> HIDE DEF c
    <3> QED  BY <1>2, <2>1
  <2>3. \/ y = [r EXCEPT !.pc = "done"] /\ x.pc = "served"
        \/ y = [d EXCEPT !.pc = "done"] /\ x.pc = "eof"
        \/ y = [r EXCEPT !.pc = "aborted"]
    BY <1>1
  <2> HIDE DEF c, r, d
  <2> QED  BY <2>1, <2>2, <2>3 DEF FetchFields
<1> HIDE DEF x, y
<1>4. Asked(y) /\ Found(y) /\ Sized(y) /\ Listed(y)
  BY <1>s, <1>1, <1>3
  DEF Asked, Found, Sized, Listed, WithStore, AfterSize, Buffered
<1>5. ServedSoFar(y)
  <2>1. Ordered(x.served)  BY <1>s DEF ServedSoFar
  <2>2. CASE x.pc = "eof"
    <3>1. /\ x.total_size <= sent /\ remaining = 0
          /\ Len(x.served) + remaining = sent
      BY <1>s, <2>2 DEF LoadedSoFar, Buffered, Aligned, Follows
    <3>2. Len(x.served) \in Nat  BY <2>1 DEF Ordered
    <3>3. x.total_size <= Len(x.served)  BY <3>1, <3>2
    <3> QED  BY <1>3, <2>1, <3>3 DEF ServedSoFar, Unread
  <2>3. CASE x.pc # "eof"
    BY <1>s, <1>3, <2>3 DEF ServedSoFar, Unread
  <2> QED  BY <2>2, <2>3
<1>6. LoadedSoFar(fe)'
  BY <1>3 DEF LoadedSoFar, Streamless, Buffered, y
<1> QED  BY <1>1, <1>4, <1>5, <1>6, FetchMove DEF y

\* The invariants of the executor together.
StoredAndServed == ExecutorInv /\ FetchInv /\ StoreInv /\ ServingInv

\* Every step keeps them.
LEMMA ServingStep ==
  ASSUME StoredAndServed, [ENext]_evars
  PROVE  StoredAndServed'
<1> USE DEF StoredAndServed
<1>1. ExecutorInv' /\ StoreInv'  BY ExecutorStep, StoreStep
<1>2. FetchInv'  BY FetchInvStep
<1>3. CASE \/ \E a \in Attempts : WriterStep(a)
           \/ EnterStop \/ StopStep \/ UNCHANGED evars
  BY <1>1, <1>2, <1>3, OthersServe
<1>4. CASE \/ \E p \in Partitions, kind \in {"remote", "nio", "local"} :
                AskBlock(p, kind)
           \/ FetchStep \/ AbortFetch
  BY <1>1, <1>2, <1>4, ServingAsks, ServingLists, ServingLoads, ServingReads,
     ServingSends, ServingEnds DEF FetchStep
<1> QED  BY <1>3, <1>4 DEF ENext

\* Whatever the attempts, the stops and the fetch do in turn, the stores hold
\* what the writers flushed and the fetch goes through them from the start.
THEOREM ExecutorInvariant == ESpec => []StoredAndServed
<1>1. EInit => StoredAndServed
  BY ExecutorInit, FetchInit, StoreInit, ServingInit DEF StoredAndServed
<1>2. StoredAndServed /\ [ENext]_evars => StoredAndServed'  BY ServingStep
<1> QED  BY <1>1, <1>2, PTL DEF ESpec

\* The accepted MapStatus has the lengths of what the attempt wrote, all of it
\* is in the store that is open, and the key is missing only from a store
\* opened later.
THEOREM CommitStored == ESpec => []CommittedStored
<1>1. StoredAndServed => CommittedStored
  <2> SUFFICES ASSUME StoredAndServed, commit # 0
               PROVE  /\ \A p \in Partitions :
                           LET h == wr[commit].hnd[p]
                           IN  /\ wr[commit].partitionLengths[p] = wr[commit].out[p]
                               /\ ~Deleted(h) =>
                                    BytesBy(commit, kv[h][p].list) = wr[commit].out[p]
                      /\ Fetching("absent") => Deleted(wr[commit].hnd[fe.p])
    BY DEF CommittedStored
  <2> USE DEF StoredAndServed
  <2> DEFINE w == wr[commit]
  <2>1. /\ w.pc = "done" /\ WriterFits(w, made) /\ Flushed(commit, w)
        /\ \A p \in Partitions : w.hnd[p] \in Handlers
    BY CommittedFacts
  <2>2. ASSUME NEW p \in Partitions
        PROVE  /\ w.partitionLengths[p] = w.out[p]
               /\ BytesBy(commit, kv[w.hnd[p]][p].list) = w.out[p]
    <3>1. w.partitionLengths[p] = w.out[p] /\ w.size[p] = w.out[p]
      BY <2>1 DEF WriterFits, Reported
    <3>2. BytesBy(commit, kv[w.hnd[p]][p].list) = Share(w, w.hnd[p], p)
      BY <2>1 DEF Flushed
    <3>3. Share(w, w.hnd[p], p) = w.size[p]  BY <2>1 DEF Share, Lags
    <3> QED  BY <3>1, <3>2, <3>3
  <2>3. Fetching("absent") => Deleted(w.hnd[fe.p])
    BY DEF ServingInv, Found, Fetching, WithStore
  <2> QED  BY <2>2, <2>3
<1> QED  BY <1>1, ExecutorInvariant, PTL

\* What a fetch has served is the content of its key from the start, byte by
\* byte, whatever part of it is loaded, read, sent or copied, and however the
\* buffer grows and moves.
THEOREM FetchInOrder == ESpec => []ServedInOrder
<1>1. StoredAndServed => ServedInOrder
  <2> SUFFICES ASSUME StoredAndServed PROVE ServedInOrder  OBVIOUS
  <2> DEFINE s == fe.served
  <2>1. Ordered(s)  BY DEF StoredAndServed, ServingInv, ServedSoFar
  <2> HIDE DEF s
  <2>2. \A i \in DOMAIN s : s[i] = i  BY <2>1 DEF Ordered
  <2> QED  BY <2>2 DEF ServedInOrder, s
<1> QED  BY <1>1, ExecutorInvariant, PTL

\* A fetch that ends has served every block of the committed attempt, although
\* other attempts append to the key between its calls.
THEOREM FetchComplete == ESpec => []ServedComplete
<1>1. StoredAndServed => ServedComplete
  <2> SUFFICES ASSUME StoredAndServed, fe.pc \in {"served", "eof", "done"},
                      fe.h = wr[commit].hnd[fe.p]
               PROVE  LET l == kv[fe.h][fe.p].list
                      IN  \A i \in DOMAIN l :
                            l[i].by = commit => EndOf(l, i) <= Len(fe.served)
    BY DEF ServedComplete
  <2> USE DEF StoredAndServed
  <2> DEFINE l == kv[fe.h][fe.p].list
             n == fe.total_size
             m == Len(fe.served)
  <2>1. /\ commit # 0 /\ fe.p \in Partitions /\ fe.h \in Handlers
        /\ n \in Nat /\ CommittedWithin(l, n) /\ Ordered(fe.served)
    BY DEF ServingInv, Asked, Found, Sized, ServedSoFar, WithStore, AfterSize,
       Buffered
  <2>2. m \in Nat  BY <2>1 DEF Ordered
  <2>3. n <= m
    <3>1. CASE fe.pc = "eof"
      <4>1. n <= sent /\ remaining = 0 /\ m + remaining = sent
        BY <3>1 DEF ServingInv, LoadedSoFar, Aligned, Follows, Buffered
      <4> HIDE DEF m
      <4> QED  BY <2>2, <4>1
    <3>2. CASE fe.pc # "eof"
      BY <3>2 DEF ServingInv, ServedSoFar
    <3> QED  BY <3>1, <3>2
  <2>4. ASSUME NEW i \in DOMAIN l PROVE EndOf(l, i) \in Nat
    <3>1. l \in Seq(Block)  BY <2>1, CommittedCounted
    <3>2. /\ Sizes(l) \in Seq(Nat) /\ Len(Sizes(l)) = Len(l) /\ Len(l) \in Nat
          /\ DOMAIN l = 1 .. Len(l)
      BY <3>1, SizesType
    <3>3. i \in 0 .. Len(Sizes(l))  BY <2>4, <3>2
    <3> QED  BY <3>2, <3>3, SumStep DEF EndOf
  <2> HIDE DEF l, n, m
  <2>5. \A i \in DOMAIN l : l[i].by = commit => EndOf(l, i) <= m
    BY <2>1, <2>2, <2>3, <2>4 DEF CommittedWithin
  <2> QED  BY <2>5 DEF l, m
<1> QED  BY <1>1, ExecutorInvariant, PTL
=============================================================================
