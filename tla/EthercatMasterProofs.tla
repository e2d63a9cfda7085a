------------------------ MODULE EthercatMasterProofs ------------------------
(***************************************************************************)
(* Proofs about EthercatMaster, for every ring, every number of retries    *)
(* and every number of process images.                                     *)
(***************************************************************************)
EXTENDS EthercatMaster, TLAPS, FiniteSetTheorems, WellFoundedInduction

(***************************************************************************)
(* Type correctness.                                                       *)
(***************************************************************************)

(* The empty message has no slave.                                         *)
LEMMA EmptyJsonFacts == /\ DOMAIN EmptyJson = {}
                        /\ EmptyJson \in [{} -> Versions]
BY DEF EmptyJson

(* num_retries stays an unsigned int, also when it is decremented at zero. *)
LEMMA DecrementType ==
  ASSUME NEW n \in 0 .. (UIntMod - 1)
  PROVE  Decrement(n) \in 0 .. (UIntMod - 1)
<1>1. UIntMod \in Nat /\ UIntMod > 0
  BY RetriesAssumption
<1>2. n - 1 \in Int
  OBVIOUS
<1>. QED
  BY <1>1, <1>2 DEF Decrement

(* An exchange never goes back to an older process image.                  *)
LEMMA ExchangeType ==
  ASSUME image \in Versions, Exchange
  PROVE  image' \in Versions /\ image' >= image
BY ImageAssumption DEF Exchange, Versions

(* The initial state is well typed.                                        *)
LEMMA TypeInit == Init => TypeOK
<1>. SUFFICES ASSUME Init PROVE TypeOK
  OBVIOUS
<1>1. NumRetries \in 0 .. (UIntMod - 1) /\ Indeterminate \in Versions
  BY RetriesAssumption, ImageAssumption DEF Indeterminate, Versions
<1>. QED
  BY <1>1, EmptyJsonFacts DEF Init, TypeOK

(* The calls of the UI thread keep the types.                              *)
LEMMA TypeUI ==
  ASSUME TypeOK,
         getSlaves \/ setZMQPublish \/ start \/ stop \/ delete \/ join
  PROVE  TypeOK'
<1>. USE DEF uiVars, threadVars, dataVars, soemVars
<1>1. CASE GetSlavesNoSocket
  BY <1>1 DEF GetSlavesNoSocket, TypeOK, vars
<1>2. CASE GetSlavesError
  BY <1>2 DEF GetSlavesError, TypeOK
<1>3. CASE GetSlavesFound
  <2>1. Listed \in SUBSET (DOMAIN Bus)
    BY DEF Listed
  <2>2. [s \in Listed |-> Indeterminate] \in [Listed -> Versions]
    BY ImageAssumption DEF Indeterminate, Versions
  <2>. QED
    BY <1>3, <2>1, <2>2, EmptyJsonFacts DEF GetSlavesFound, TypeOK
<1>4. CASE setZMQPublish
  BY <1>4 DEF setZMQPublish, TypeOK
<1>5. CASE StartError
  BY <1>5 DEF StartError, TypeOK
<1>6. CASE StartRequest
  <2>1. image' \in Versions
    BY <1>6, ExchangeType DEF StartRequest, TypeOK
  <2>2. NumRetries \in 0 .. (UIntMod - 1)
    BY RetriesAssumption
  <2>. QED
    BY <1>6, <2>1, <2>2 DEF StartRequest, TypeOK
<1>7. ASSUME Retry, ui' \in {"starting", "started"},
             \/ UNCHANGED threadVars
             \/ /\ ethercat_running' = TRUE
                /\ ethercat_thread' = "check"
                /\ data_copy_thread' = "check"
      PROVE  TypeOK'
  <2>1. image' \in Versions
    BY <1>7, ExchangeType DEF Retry, TypeOK
  <2>2. num_retries' \in 0 .. (UIntMod - 1)
    BY <1>7, DecrementType DEF Retry, TypeOK
  <2>. QED
    BY <1>7, <2>1, <2>2 DEF Retry, TypeOK
<1>8. CASE RetryAgain \/ StartGivesUp \/ StartThreads
  BY <1>8, <1>7 DEF RetryAgain, StartGivesUp, StartThreads, Retry
<1>9. CASE StopIdle \/ StopThreads \/ DeleteThreads
  BY <1>9 DEF StopIdle, StopThreads, DeleteThreads, TypeOK
<1>10. CASE DeleteIdle
  BY <1>10, EmptyJsonFacts DEF DeleteIdle, Dropped, TypeOK
<1>11. CASE JoinEthercatThread
  BY <1>11 DEF JoinEthercatThread, TypeOK
<1>12. CASE JoinDataCopyThread
  BY <1>12, EmptyJsonFacts DEF JoinDataCopyThread, Dropped, TypeOK
<1>. QED
  BY <1>1, <1>2, <1>3, <1>4, <1>5, <1>6, <1>8, <1>9, <1>10, <1>11, <1>12
  DEF getSlaves, start, stop, delete, join

(* The exchange thread keeps the types.                                    *)
LEMMA TypeEthercatLoop == ASSUME TypeOK, ethercatLoop PROVE TypeOK'
<1>. USE DEF uiVars, threadVars, dataVars, soemVars, EthercatGoto
<1>1. CASE EthercatCheck
  BY <1>1 DEF EthercatCheck, TypeOK
<1>2. CASE EthercatExchange
  <2>1. image' \in Versions
    BY <1>2, ExchangeType DEF EthercatExchange, TypeOK
  <2>. QED
    BY <1>2, <2>1 DEF EthercatExchange, TypeOK
<1>3. CASE TryLockFails \/ TryLockSucceeds
  BY <1>3 DEF TryLockFails, TryLockSucceeds, TypeOK
<1>4. CASE CopySlave
  <2>1. data' \in [slaves -> Versions] /\ copying' \in SUBSET (DOMAIN Bus)
    BY <1>4 DEF CopySlave, TypeOK
  <2>. QED
    BY <1>4, <2>1 DEF CopySlave, TypeOK
<1>5. CASE CopyEnds \/ EthercatClose
  BY <1>5 DEF CopyEnds, EthercatClose, TypeOK
<1>. QED
  BY <1>1, <1>2, <1>3, <1>4, <1>5 DEF ethercatLoop

(* The data copy thread keeps the types.                                   *)
LEMMA TypeDataCopyLoop == ASSUME TypeOK, dataCopyLoop PROVE TypeOK'
<1>. USE DEF uiVars, threadVars, dataVars, soemVars, DataCopyGoto
<1>1. CASE DataCopyCheck \/ DataCopyLock
  BY <1>1 DEF DataCopyCheck, DataCopyLock, TypeOK
<1>2. CASE DataCopyCallback
  BY <1>2, EmptyJsonFacts DEF DataCopyCallback, TypeOK
<1>3. CASE ConvertSlave
  <2>1. PICK s \in slaves \ DOMAIN json :
          json' = [t \in DOMAIN json \cup {s} |-> IF t = s THEN data[s] ELSE json[t]]
    BY <1>3 DEF ConvertSlave
  <2>2. /\ DOMAIN json' \in SUBSET (DOMAIN Bus)
        /\ json' \in [DOMAIN json' -> Versions]
    BY <2>1 DEF TypeOK
  <2>. QED
    BY <1>3, <2>2 DEF ConvertSlave, TypeOK
<1>4. CASE publishMsg
  BY <1>4 DEF publishMsg, TypeOK
<1>5. CASE DataCopyUnlock \/ DataCopyClose
  BY <1>5 DEF DataCopyUnlock, DataCopyClose, TypeOK
<1>. QED
  BY <1>1, <1>2, <1>3, <1>4, <1>5 DEF dataCopyLoop

(* Type correctness: whatever the user, the slaves and the scheduler do,   *)
(* every variable of the source keeps its type, num_retries included.      *)
THEOREM TypeCorrect == Spec => []TypeOK
<1>1. TypeOK /\ [Next]_vars => TypeOK'
  <2>. SUFFICES ASSUME TypeOK, [Next]_vars PROVE TypeOK'
    OBVIOUS
  <2>1. CASE UNCHANGED vars
    BY <2>1 DEF vars, uiVars, threadVars, dataVars, soemVars, TypeOK
  <2>. QED
    BY <2>1, TypeUI, TypeEthercatLoop, TypeDataCopyLoop DEF Next
<1>. QED
  BY TypeInit, <1>1, PTL DEF Spec

(***************************************************************************)
(* The inductive invariant. Its control part relates the UI thread, the    *)
(* two threads, the mutex and the socket; its data part says that the      *)
(* slaves hold one process image whenever the mutex is not held by the     *)
(* exchange thread.                                                        *)
(***************************************************************************)

Control == ThreadsMatchUI /\ SocketMatchesThreads /\ MutexMatchesThreads

(* The calls of the UI thread keep the control part: threads are created   *)
(* only where none is left, and the joins leave none.                      *)
LEMMA ControlUI ==
  ASSUME TypeOK, Control,
         getSlaves \/ setZMQPublish \/ start \/ stop \/ delete \/ join
  PROVE  Control'
<1>. USE DEF uiVars, threadVars, dataVars, soemVars, Control, ThreadsMatchUI,
             SocketMatchesThreads, MutexMatchesThreads
<1>1. CASE getSlaves
  BY <1>1 DEF getSlaves, GetSlavesNoSocket, GetSlavesError, GetSlavesFound, vars
<1>2. CASE setZMQPublish
  BY <1>2 DEF setZMQPublish
<1>3. CASE StartError \/ StartRequest
  BY <1>3 DEF StartError, StartRequest
<1>4. CASE RetryAgain \/ StartGivesUp
  BY <1>4 DEF RetryAgain, StartGivesUp, Retry
<1>5. CASE StartThreads
  BY <1>5 DEF StartThreads, Retry
<1>6. CASE stop
  BY <1>6 DEF stop, StopIdle, StopThreads
<1>7. CASE delete
  BY <1>7 DEF delete, DeleteIdle, DeleteThreads, Dropped
<1>8. CASE JoinEthercatThread
  BY <1>8 DEF JoinEthercatThread
<1>9. CASE JoinDataCopyThread
  BY <1>9 DEF JoinDataCopyThread, Dropped
<1>. QED
  BY <1>1, <1>2, <1>3, <1>4, <1>5, <1>6, <1>7, <1>8, <1>9 DEF start, join

(* The exchange thread keeps the control part: it copies only as the owner *)
(* of the mutex, and closes the socket only after the flag was cleared.    *)
LEMMA ControlEthercatLoop ==
  ASSUME TypeOK, Control, ethercatLoop
  PROVE  Control'
<1>. USE DEF uiVars, threadVars, dataVars, soemVars, Control, ThreadsMatchUI,
             SocketMatchesThreads, MutexMatchesThreads, EthercatGoto
<1>1. CASE EthercatCheck \/ EthercatExchange
  BY <1>1 DEF EthercatCheck, EthercatExchange
<1>2. CASE TryLockFails \/ TryLockSucceeds
  BY <1>2 DEF TryLockFails, TryLockSucceeds
<1>3. CASE CopySlave \/ CopyEnds
  BY <1>3 DEF CopySlave, CopyEnds
<1>4. CASE EthercatClose
  <2>1. ~ethercat_running /\ ui # "starting"
    BY <1>4 DEF EthercatClose, TypeOK
  <2>. QED
    BY <1>4, <2>1 DEF EthercatClose
<1>. QED
  BY <1>1, <1>2, <1>3, <1>4 DEF ethercatLoop

(* The data copy thread keeps the control part, for the same reasons.      *)
LEMMA ControlDataCopyLoop ==
  ASSUME TypeOK, Control, dataCopyLoop
  PROVE  Control'
<1>. USE DEF uiVars, threadVars, dataVars, soemVars, Control, ThreadsMatchUI,
             SocketMatchesThreads, MutexMatchesThreads, DataCopyGoto
<1>1. CASE DataCopyCheck
  BY <1>1 DEF DataCopyCheck
<1>2. CASE DataCopyLock
  BY <1>2 DEF DataCopyLock
<1>3. CASE DataCopyCallback \/ ConvertSlave \/ publishMsg
  BY <1>3 DEF DataCopyCallback, ConvertSlave, publishMsg
<1>4. CASE DataCopyUnlock
  BY <1>4 DEF DataCopyUnlock
<1>5. CASE DataCopyClose
  <2>1. ~ethercat_running /\ ui # "starting"
    BY <1>5 DEF DataCopyClose, TypeOK
  <2>. QED
    BY <1>5, <2>1 DEF DataCopyClose
<1>. QED
  BY <1>1, <1>2, <1>3, <1>4, <1>5 DEF dataCopyLoop

Data == DataWhole /\ JsonMatchesData /\ PublishedWhole

(* A call of the UI thread changes the slaves, or what they hold, only     *)
(* when no thread is left that copies or reads them.                       *)
LEMMA DataUI ==
  ASSUME IInv,
         getSlaves \/ setZMQPublish \/ start \/ stop \/ delete \/ join
  PROVE  Data'
<1>. USE DEF uiVars, threadVars, dataVars, soemVars, IInv, Data, DataWhole,
             JsonMatchesData, PublishedWhole
<1>1. CASE GetSlavesNoSocket \/ GetSlavesError
  BY <1>1 DEF GetSlavesNoSocket, GetSlavesError, vars
<1>2. CASE GetSlavesFound
  <2>1. ethercat_thread = "none" /\ data_copy_thread = "none" /\ copying = {}
    BY <1>2 DEF GetSlavesFound, ThreadsMatchUI
  <2>2. Indeterminate <= image
    BY ImageAssumption DEF TypeOK, Versions, Indeterminate
  <2>. QED
    BY <1>2, <2>1, <2>2, EmptyJsonFacts DEF GetSlavesFound
<1>3. CASE setZMQPublish \/ StartError
  BY <1>3 DEF setZMQPublish, StartError
<1>4. ASSUME Exchange, UNCHANGED <<slaves, dataVars>>, ui \in {"ready", "starting"},
             data_copy_thread' \in {"none", "check"}, ethercat_thread' \in {"none", "check"}
      PROVE  Data'
  <2>1. image' >= image /\ image \in Int /\ image' \in Int
    BY <1>4, ExchangeType, ImageAssumption DEF TypeOK, Versions
  <2>2. \A s \in slaves : data[s] \in Int /\ data[s] <= image'
    BY <2>1, ImageAssumption DEF TypeOK, Versions
  <2>. QED
    BY <1>4, <2>2 DEF ThreadsMatchUI
<1>5. CASE StartRequest
  BY <1>5, <1>4 DEF StartRequest, ThreadsMatchUI
<1>6. CASE RetryAgain \/ StartGivesUp \/ StartThreads
  BY <1>6, <1>4 DEF RetryAgain, StartGivesUp, StartThreads, Retry, ThreadsMatchUI
<1>7. CASE StopIdle \/ StopThreads \/ DeleteThreads
  BY <1>7 DEF StopIdle, StopThreads, DeleteThreads
<1>8. CASE DeleteIdle
  BY <1>8, EmptyJsonFacts DEF DeleteIdle, Dropped, ThreadsMatchUI
<1>9. CASE JoinEthercatThread
  BY <1>9 DEF JoinEthercatThread
<1>10. CASE JoinDataCopyThread
  BY <1>10, EmptyJsonFacts DEF JoinDataCopyThread, Dropped
<1>. QED
  BY <1>1, <1>2, <1>3, <1>5, <1>6, <1>7, <1>8, <1>9, <1>10
  DEF getSlaves, start, stop, delete, join

(* copyData changes the slaves only while the mutex keeps the other thread *)
(* out of convertToJson, and leaves each slave with the current image.     *)
LEMMA DataEthercatLoop == ASSUME IInv, ethercatLoop PROVE Data'
<1>. USE DEF uiVars, threadVars, dataVars, soemVars, EthercatGoto, IInv, Data,
             DataWhole, JsonMatchesData, PublishedWhole
<1>1. CASE EthercatCheck \/ TryLockFails \/ CopyEnds \/ EthercatClose
  BY <1>1 DEF EthercatCheck, TryLockFails, CopyEnds, EthercatClose
<1>2. CASE EthercatExchange
  <2>1. image' >= image /\ image \in Int /\ image' \in Int
    BY <1>2, ExchangeType, ImageAssumption DEF EthercatExchange, TypeOK, Versions
  <2>2. \A s \in slaves : data[s] \in Int /\ data[s] <= image'
    BY <2>1, ImageAssumption DEF TypeOK, Versions
  <2>. QED
    BY <1>2, <2>2 DEF EthercatExchange
<1>3. CASE TryLockSucceeds
  BY <1>3 DEF TryLockSucceeds
<1>4. CASE CopySlave
  <2>1. PICK s \in copying : /\ data' = [data EXCEPT ![s] = image]
                             /\ copying' = copying \ {s}
    BY <1>4 DEF CopySlave
  <2>2. /\ data_copy_thread # "json"
        /\ UNCHANGED <<slaves, image, published, data_copy_thread>>
        /\ ethercat_thread = "copy" /\ ethercat_thread' = "copy"
    BY <1>4 DEF CopySlave, MutexMatchesThreads
  <2>3. /\ data'[s] = image
        /\ \A t \in slaves \ {s} : data'[t] = data[t]
    BY <2>1 DEF TypeOK
  <2>4. image <= image
    BY ImageAssumption DEF TypeOK, Versions
  <2>. QED
    BY <2>1, <2>2, <2>3, <2>4
<1>. QED
  BY <1>1, <1>2, <1>3, <1>4 DEF ethercatLoop

(* convertToJson reads slaves that nobody changes, and what it has read    *)
(* of one image it publishes.                                              *)
LEMMA DataDataCopyLoop == ASSUME IInv, dataCopyLoop PROVE Data'
<1>. USE DEF uiVars, threadVars, dataVars, soemVars, DataCopyGoto, IInv, Data,
             DataWhole, JsonMatchesData, PublishedWhole
<1>1. CASE DataCopyCheck \/ DataCopyLock \/ DataCopyUnlock \/ DataCopyClose
  BY <1>1 DEF DataCopyCheck, DataCopyLock, DataCopyUnlock, DataCopyClose
<1>2. CASE DataCopyCallback
  BY <1>2, EmptyJsonFacts DEF DataCopyCallback
<1>3. CASE ConvertSlave
  <2>1. PICK s \in slaves \ DOMAIN json :
          json' = [t \in DOMAIN json \cup {s} |-> IF t = s THEN data[s] ELSE json[t]]
    BY <1>3 DEF ConvertSlave
  <2>2. /\ DOMAIN json' \subseteq slaves
        /\ \A t \in DOMAIN json' : json'[t] = data[t]
    BY <1>3, <2>1 DEF ConvertSlave
  <2>. QED
    BY <1>3, <2>2 DEF ConvertSlave
<1>4. CASE publishMsg
  <2>1. copying = {}
    BY <1>4 DEF publishMsg, MutexMatchesThreads
  <2>2. \A s, t \in DOMAIN json : json[s] = json[t]
    BY <1>4, <2>1 DEF publishMsg
  <2>. QED
    BY <1>4, <2>2 DEF publishMsg
<1>. QED
  BY <1>1, <1>2, <1>3, <1>4 DEF dataCopyLoop

(* The invariant holds in the initial state.                               *)
LEMMA InvInit == Init => IInv
<1>. SUFFICES ASSUME Init PROVE IInv
  OBVIOUS
<1>1. TypeOK
  BY TypeInit
<1>2. ThreadsMatchUI /\ SocketMatchesThreads /\ MutexMatchesThreads
  BY DEF Init, ThreadsMatchUI, SocketMatchesThreads, MutexMatchesThreads
<1>3. DataWhole /\ JsonMatchesData /\ PublishedWhole
  BY EmptyJsonFacts DEF Init, DataWhole, JsonMatchesData, PublishedWhole
<1>. QED
  BY <1>1, <1>2, <1>3 DEF IInv

(* Every step of every thread keeps the invariant.                         *)
LEMMA InvNext == IInv /\ [Next]_vars => IInv'
<1>. SUFFICES ASSUME IInv, [Next]_vars PROVE IInv'
  OBVIOUS
<1>1. CASE UNCHANGED vars
  BY <1>1 DEF vars, uiVars, threadVars, dataVars, soemVars, IInv, TypeOK,
     ThreadsMatchUI, SocketMatchesThreads, MutexMatchesThreads, DataWhole,
     JsonMatchesData, PublishedWhole
<1>2. CASE Next
  <2>1. TypeOK /\ Control
    BY DEF IInv, Control
  <2>2. TypeOK'
    BY <1>2, <2>1, TypeUI, TypeEthercatLoop, TypeDataCopyLoop DEF Next
  <2>3. Control'
    BY <1>2, <2>1, ControlUI, ControlEthercatLoop, ControlDataCopyLoop DEF Next
  <2>4. Data'
    BY <1>2, DataUI, DataEthercatLoop, DataDataCopyLoop DEF Next
  <2>. QED
    BY <2>2, <2>3, <2>4 DEF IInv, Control, Data
<1>. QED
  BY <1>1, <1>2

(* The inductive invariant holds throughout.                               *)
THEOREM Invariant == Spec => []IInv
BY InvInit, InvNext, PTL DEF Spec

(* A ZMQ message never mixes two process images, for any number of slaves  *)
(* and any interleaving of ethercatLoop and dataCopyLoop.                  *)
THEOREM MessagesAreWhole == Spec => []PublishedWhole
<1>1. IInv => PublishedWhole
  BY DEF IInv
<1>. QED
  BY <1>1, Invariant, PTL

(* No thread closes the socket under a running exchange, over any number   *)
(* of starts and stops.                                                    *)
THEOREM SocketStaysOpen == Spec => []LiveSocket
<1>1. IInv => LiveSocket
  BY DEF IInv, SocketMatchesThreads, LiveSocket
<1>. QED
  BY <1>1, Invariant, PTL

(* No thread outlives the stop or the destructor that has to join it, and  *)
(* start never replaces a thread that is still joinable.                   *)
THEOREM ThreadsAreJoined == Spec => []NoThreadLeftBehind
<1>1. IInv => NoThreadLeftBehind
  BY DEF IInv, ThreadsMatchUI, NoThreadLeftBehind
<1>. QED
  BY <1>1, Invariant, PTL

(* A stop, or a destructor, that had threads to join returns with the      *)
(* socket closed and the mutex free.                                       *)
THEOREM StopReleasesAll == Spec => StopReleases
<1>1. IInv /\ [Next]_vars =>
        [(ui \in {"stopping", "deleting"} /\ ui' # ui) =>
           (sock' = "closed" /\ data_mutex' = "free")]_vars
  <2>. SUFFICES ASSUME IInv, Next, ui \in {"stopping", "deleting"}, ui' # ui
                PROVE  sock' = "closed" /\ data_mutex' = "free"
    OBVIOUS
  <2>1. JoinDataCopyThread
    BY DEF Next, getSlaves, GetSlavesNoSocket, GetSlavesError, GetSlavesFound,
       setZMQPublish, start, StartError, StartRequest, RetryAgain, StartGivesUp,
       StartThreads, Retry, stop, StopIdle, StopThreads, delete, DeleteIdle,
       DeleteThreads, join, JoinEthercatThread, ethercatLoop, EthercatCheck,
       EthercatExchange, TryLockFails, TryLockSucceeds, CopySlave, CopyEnds,
       EthercatClose, dataCopyLoop, DataCopyCheck, DataCopyLock, DataCopyCallback,
       ConvertSlave, publishMsg, DataCopyUnlock, DataCopyClose, EthercatGoto,
       DataCopyGoto, uiVars, vars
  <2>2. sock = "closed"
    BY <2>1 DEF JoinDataCopyThread, IInv, SocketMatchesThreads
  <2>3. data_mutex = "free"
    BY <2>1 DEF JoinDataCopyThread, IInv, MutexMatchesThreads, TypeOK
  <2>. QED
    BY <2>1, <2>2, <2>3 DEF JoinDataCopyThread, soemVars
<1>. QED
  BY <1>1, Invariant, PTL DEF Spec, StopReleases

(***************************************************************************)
(* How start and stop come to their end. Liveness itself is left to the    *)
(* model checker; what is proved is that the steps are bounded and that    *)
(* one of them is always possible.                                         *)
(***************************************************************************)

(* The steps that are left to each thread when the flag is cleared, from   *)
(* where it is: the rest of its cycle, ec_close and the join.              *)
EthercatLeft ==
  CASE ethercat_thread = "exchange" -> 6 + Cardinality(slaves)
    [] ethercat_thread = "try_lock" -> 5 + Cardinality(slaves)
    [] ethercat_thread = "copy"     -> 4 + Cardinality(copying)
    [] ethercat_thread = "check"    -> 3
    [] ethercat_thread = "close"    -> 2
    [] ethercat_thread = "done"     -> 1
    [] ethercat_thread = "none"     -> 0

DataCopyLeft ==
  CASE data_copy_thread = "lock"     -> 7 + Cardinality(slaves)
    [] data_copy_thread = "callback" -> 6 + Cardinality(slaves)
    [] data_copy_thread = "json"     -> 5 + Cardinality(slaves \ DOMAIN json)
    [] data_copy_thread = "unlock"   -> 4
    [] data_copy_thread = "check"    -> 3
    [] data_copy_thread = "close"    -> 2
    [] data_copy_thread = "done"     -> 1
    [] data_copy_thread = "none"     -> 0

StepsLeft == EthercatLeft + DataCopyLeft

Joining == ui \in {"stopping", "deleting"}

(* stop and the destructor have at most two rounds of the threads to wait  *)
(* for, and each step brings them closer: no thread can begin a new cycle. *)
StopComesCloser ==
  /\ [](StepsLeft \in 0 .. (13 + 2 * Cardinality(slaves)))
  /\ [][Joining /\ ui' = ui => StepsLeft' < StepsLeft]_vars

(* The first of the slaves that are still to be copied or converted.       *)
HasFirst(S) == \E s \in S : \A t \in S : s <= t

(* What the actions of the two threads and of the joins wait for.          *)
EthercatCanStep ==
  \/ ethercat_thread \in {"check", "exchange", "try_lock", "close"}
  \/ ethercat_thread = "copy" /\ (copying = {} \/ HasFirst(copying))

DataCopyCanStep ==
  \/ data_copy_thread \in {"check", "callback", "unlock", "close"}
  \/ data_copy_thread = "lock" /\ data_mutex = "free"
  \/ data_copy_thread = "json" /\ (DOMAIN json = slaves \/ HasFirst(slaves \ DOMAIN json))

JoinCanStep ==
  \/ ethercat_thread = "done"
  \/ ethercat_thread = "none" /\ data_copy_thread = "done"

(* While stop waits somebody can go on: nobody holds the mutex for ever,   *)
(* and the thread that is joined first does not need the other one.        *)
StopHasAStep == Joining => EthercatCanStep \/ DataCopyCanStep \/ JoinCanStep

(* Every retry of start leaves one less.                                   *)
StartComesCloser == [][ui = "starting" /\ ui' = ui => num_retries' < num_retries]_vars

(* The numbers of slaves that are left to copy and to convert.             *)
LEMMA SlavesAreFinite ==
  ASSUME IInv
  PROVE  /\ IsFiniteSet(slaves) /\ Cardinality(slaves) \in Nat
         /\ IsFiniteSet(copying) /\ Cardinality(copying) \in 0 .. Cardinality(slaves)
         /\ IsFiniteSet(slaves \ DOMAIN json)
         /\ Cardinality(slaves \ DOMAIN json) \in 0 .. Cardinality(slaves)
<1>1. IsFiniteSet(DOMAIN Bus)
  <2>1. DOMAIN Bus = 1 .. Len(Bus) /\ Len(Bus) \in Nat
    BY BusAssumption
  <2>. QED
    BY <2>1, FS_Interval
<1>2. slaves \in SUBSET DOMAIN Bus /\ copying \in SUBSET slaves
  BY DEF IInv, TypeOK, DataWhole
<1>3. IsFiniteSet(slaves)
  BY <1>1, <1>2, FS_Subset
<1>4. \A S \in SUBSET slaves : /\ IsFiniteSet(S) /\ Cardinality(S) \in Nat
                               /\ Cardinality(S) <= Cardinality(slaves)
  BY <1>3, FS_Subset, FS_CardinalityType
<1>5. Cardinality(slaves) \in Nat
  BY <1>3, FS_CardinalityType
<1>6. (slaves \ DOMAIN json) \in SUBSET slaves
  OBVIOUS
<1>. QED
  BY <1>2, <1>3, <1>4, <1>5, <1>6

(* What is left is a number, and has its bound.                            *)
LEMMA LeftIsBounded ==
  ASSUME IInv
  PROVE  /\ EthercatLeft \in 0 .. (6 + Cardinality(slaves))
         /\ DataCopyLeft \in 0 .. (7 + Cardinality(slaves))
<1>. DEFINE c == Cardinality(slaves)
            d == Cardinality(copying)
            e == Cardinality(slaves \ DOMAIN json)
<1>1. c \in Nat /\ d \in 0 .. c /\ e \in 0 .. c
  BY SlavesAreFinite
<1>2. /\ ethercat_thread \in {"none", "check", "exchange", "try_lock", "copy",
                              "close", "done"}
      /\ data_copy_thread \in {"none", "check", "lock", "callback", "json",
                               "unlock", "close", "done"}
  BY DEF IInv, TypeOK
<1>. HIDE DEF c, d, e
<1>3. EthercatLeft \in 0 .. (6 + c)
  BY <1>1, <1>2 DEF EthercatLeft, c, d
<1>4. DataCopyLeft \in 0 .. (7 + c)
  BY <1>1, <1>2 DEF DataCopyLeft, c, e
<1>. QED
  BY <1>3, <1>4 DEF c

LeftIsNumber == EthercatLeft \in Int /\ DataCopyLeft \in Int

(* The exchange thread takes one of its steps and none of the other's.     *)
LEMMA EthercatCloser ==
  ASSUME IInv, Joining, ethercatLoop
  PROVE  EthercatLeft' < EthercatLeft /\ DataCopyLeft' = DataCopyLeft
<1>. USE DEF uiVars, threadVars, dataVars, soemVars, EthercatGoto
<1>1. /\ Cardinality(slaves) \in Nat
      /\ IsFiniteSet(copying) /\ Cardinality(copying) \in Nat
      /\ ~ethercat_running
  BY SlavesAreFinite DEF IInv, ThreadsMatchUI, Joining
<1>2. UNCHANGED <<slaves, data_copy_thread, json>>
  BY DEF ethercatLoop, EthercatCheck, EthercatExchange, TryLockFails, TryLockSucceeds,
     CopySlave, CopyEnds, EthercatClose
<1>3. DataCopyLeft' = DataCopyLeft
  BY <1>2 DEF DataCopyLeft
<1>4. CASE EthercatCheck
  BY <1>1, <1>3, <1>4 DEF EthercatCheck, EthercatLeft
<1>5. CASE EthercatExchange \/ TryLockFails \/ EthercatClose
  BY <1>1, <1>2, <1>3, <1>5 DEF EthercatExchange, TryLockFails, EthercatClose, EthercatLeft
<1>6. CASE TryLockSucceeds
  BY <1>1, <1>2, <1>3, <1>6 DEF TryLockSucceeds, EthercatLeft
<1>7. CASE CopySlave
  <2>1. PICK s \in copying : copying' = copying \ {s}
    BY <1>7 DEF CopySlave
  <2>2. Cardinality(copying') = Cardinality(copying) - 1
    BY <1>1, <2>1, FS_RemoveElement
  <2>3. ethercat_thread = "copy" /\ ethercat_thread' = "copy"
    BY <1>7 DEF CopySlave
  <2>. QED
    BY <1>1, <1>3, <2>2, <2>3 DEF EthercatLeft
<1>8. CASE CopyEnds
  BY <1>1, <1>3, <1>8 DEF CopyEnds, EthercatLeft
<1>. QED
  BY <1>3, <1>4, <1>5, <1>6, <1>7, <1>8 DEF ethercatLoop

(* The same of the data copy thread.                                       *)
LEMMA DataCopyCloser ==
  ASSUME IInv, Joining, dataCopyLoop
  PROVE  DataCopyLeft' < DataCopyLeft /\ EthercatLeft' = EthercatLeft
<1>. USE DEF uiVars, threadVars, dataVars, soemVars, DataCopyGoto
<1>1. /\ Cardinality(slaves) \in Nat
      /\ IsFiniteSet(slaves \ DOMAIN json) /\ Cardinality(slaves \ DOMAIN json) \in Nat
      /\ ~ethercat_running
  BY SlavesAreFinite DEF IInv, ThreadsMatchUI, Joining
<1>2. UNCHANGED <<slaves, ethercat_thread, copying>>
  BY DEF dataCopyLoop, DataCopyCheck, DataCopyLock, DataCopyCallback, ConvertSlave,
     publishMsg, DataCopyUnlock, DataCopyClose
<1>3. EthercatLeft' = EthercatLeft
  BY <1>2 DEF EthercatLeft
<1>4. CASE DataCopyCheck \/ DataCopyClose
  BY <1>1, <1>3, <1>4 DEF DataCopyCheck, DataCopyClose, DataCopyLeft
<1>5. CASE DataCopyLock \/ DataCopyUnlock
  BY <1>1, <1>2, <1>3, <1>5 DEF DataCopyLock, DataCopyUnlock, DataCopyLeft
<1>6. CASE DataCopyCallback
  <2>1. slaves' \ DOMAIN json' = slaves
    BY <1>2, <1>6, EmptyJsonFacts DEF DataCopyCallback
  <2>. QED
    BY <1>1, <1>3, <1>6, <2>1 DEF DataCopyCallback, DataCopyLeft
<1>7. CASE ConvertSlave
  <2>1. PICK s \in slaves \ DOMAIN json :
          json' = [t \in DOMAIN json \cup {s} |-> IF t = s THEN data[s] ELSE json[t]]
    BY <1>7 DEF ConvertSlave
  <2>2. slaves' \ DOMAIN json' = (slaves \ DOMAIN json) \ {s}
    BY <1>2, <2>1
  <2>3. Cardinality(slaves' \ DOMAIN json') = Cardinality(slaves \ DOMAIN json) - 1
    BY <1>1, <2>1, <2>2, FS_RemoveElement
  <2>4. data_copy_thread = "json" /\ data_copy_thread' = "json"
    BY <1>7 DEF ConvertSlave
  <2>. QED
    BY <1>1, <1>3, <2>3, <2>4 DEF DataCopyLeft
<1>8. CASE publishMsg
  BY <1>1, <1>3, <1>8 DEF publishMsg, DataCopyLeft
<1>. QED
  BY <1>3, <1>4, <1>5, <1>6, <1>7, <1>8 DEF dataCopyLoop

(* A sum is less when one of its terms is, and the other is the same.      *)
LEMMA SumIsLess ==
  \A a, b, c, d \in Int : (c < a /\ d = b) \/ (c = a /\ d < b) => c + d < a + b
OBVIOUS

(* stop and the destructor return after a number of steps that depends on  *)
(* the number of slaves only, whoever wins the mutex.                      *)
THEOREM StopIsBounded == Spec => StopComesCloser
<1>1. IInv => StepsLeft \in 0 .. (13 + 2 * Cardinality(slaves))
  <2>. SUFFICES ASSUME IInv PROVE StepsLeft \in 0 .. (13 + 2 * Cardinality(slaves))
    OBVIOUS
  <2>. QED
    BY LeftIsBounded, SlavesAreFinite DEF StepsLeft
<1>2. IInv => LeftIsNumber
  BY LeftIsBounded, SlavesAreFinite DEF LeftIsNumber
<1>3. ASSUME IInv, LeftIsNumber, LeftIsNumber', [Next]_vars
      PROVE  [Joining /\ ui' = ui => StepsLeft' < StepsLeft]_vars
  <2>. SUFFICES ASSUME Next, Joining, ui' = ui PROVE StepsLeft' < StepsLeft
    BY <1>3
  <2>1. /\ EthercatLeft \in Int /\ DataCopyLeft \in Int
        /\ EthercatLeft' \in Int /\ DataCopyLeft' \in Int
    BY <1>3 DEF LeftIsNumber
  <2>2. JoinEthercatThread \/ ethercatLoop \/ dataCopyLoop
    BY DEF Next, getSlaves, GetSlavesNoSocket, GetSlavesError, GetSlavesFound,
       setZMQPublish, start, StartError, StartRequest, RetryAgain, StartGivesUp,
       StartThreads, Retry, stop, StopIdle, StopThreads, delete, DeleteIdle,
       DeleteThreads, join, JoinDataCopyThread, Dropped, Joining
  <2>3. CASE JoinEthercatThread
    <3>1. /\ ethercat_thread = "done" /\ ethercat_thread' = "none"
          /\ UNCHANGED <<slaves, data_copy_thread, json>>
      BY <2>3 DEF JoinEthercatThread, uiVars, dataVars
    <3>2. EthercatLeft = 1 /\ EthercatLeft' = 0 /\ DataCopyLeft' = DataCopyLeft
      BY <3>1 DEF EthercatLeft, DataCopyLeft
    <3>. QED
      BY <2>1, <3>2 DEF StepsLeft
  <2>4. CASE ethercatLoop
    <3>1. EthercatLeft' < EthercatLeft /\ DataCopyLeft' = DataCopyLeft
      BY <1>3, <2>4, EthercatCloser
    <3>2. EthercatLeft' + DataCopyLeft' < EthercatLeft + DataCopyLeft
      BY <2>1, <3>1, SumIsLess
    <3>. QED
      BY <3>2 DEF StepsLeft
  <2>5. CASE dataCopyLoop
    <3>1. DataCopyLeft' < DataCopyLeft /\ EthercatLeft' = EthercatLeft
      BY <1>3, <2>5, DataCopyCloser
    <3>2. EthercatLeft' + DataCopyLeft' < EthercatLeft + DataCopyLeft
      BY <2>1, <3>1, SumIsLess
    <3>. QED
      BY <3>2 DEF StepsLeft
  <2>. QED
    BY <2>2, <2>3, <2>4, <2>5
<1>. QED
  BY <1>1, <1>2, <1>3, Invariant, PTL DEF Spec, StopComesCloser

(* A set of numbers that is not empty has a least element.                 *)
LEMMA LeastNumber ==
  ASSUME NEW S, S \subseteq Nat, S # {}
  PROVE  HasFirst(S)
<1>1. IsWellFoundedOn(OpToRel(<, Nat), Nat)
  BY NatLessThanWellFounded, Zenon
<1>2. PICK s \in S : \A t \in S : ~ (<<t, s>> \in OpToRel(<, Nat))
  BY <1>1, WFMin, Zenon
<1>3. \A t \in S : <<t, s>> \in OpToRel(<, Nat) <=> t < s
  BY <1>2 DEF OpToRel
<1>4. \A t \in S : ~ (t < s)
  BY <1>2, <1>3, Zenon
<1>. QED
  BY <1>4 DEF HasFirst

(* stop is never stuck: at every moment one of the threads, or the join,   *)
(* can take its next step.                                                 *)
THEOREM StopIsNeverStuck == Spec => []StopHasAStep
<1>1. ASSUME IInv, Joining PROVE EthercatCanStep \/ DataCopyCanStep \/ JoinCanStep
  <2>1. copying \subseteq Nat /\ slaves \ DOMAIN json \subseteq Nat
    BY <1>1, BusAssumption DEF IInv, TypeOK
  <2>2. CASE ethercat_thread \notin {"none", "done"}
    <3>1. copying = {} \/ HasFirst(copying)
      BY <2>1, LeastNumber
    <3>. QED
      BY <1>1, <2>2, <3>1 DEF EthercatCanStep, IInv, TypeOK
  <2>3. CASE ethercat_thread = "done"
    BY <2>3 DEF JoinCanStep
  <2>4. CASE ethercat_thread = "none"
    <3>1. data_copy_thread # "none"
      BY <1>1 DEF IInv, ThreadsMatchUI, Joining
    <3>2. data_copy_thread = "lock" => data_mutex = "free"
      BY <1>1, <2>4 DEF IInv, TypeOK, MutexMatchesThreads
    <3>3. data_copy_thread = "json" => DOMAIN json = slaves \/ HasFirst(slaves \ DOMAIN json)
      BY <1>1, <2>1, LeastNumber DEF IInv, JsonMatchesData
    <3>. QED
      BY <1>1, <2>4, <3>1, <3>2, <3>3 DEF DataCopyCanStep, JoinCanStep, IInv, TypeOK
  <2>. QED
    BY <2>2, <2>3, <2>4
<1>. QED
  BY <1>1, Invariant, PTL DEF StopHasAStep

(* start gives up after NumRetries further attempts: the unsigned counter  *)
(* does not wrap around before the loop has ended.                         *)
THEOREM StartIsBounded == Spec => StartComesCloser
<1>1. ASSUME IInv, [Next]_vars
      PROVE  [ui = "starting" /\ ui' = ui => num_retries' < num_retries]_vars
  <2>. SUFFICES ASSUME Next, ui = "starting", ui' = ui PROVE num_retries' < num_retries
    BY <1>1
  <2>0. ~ethercatLoop /\ ~dataCopyLoop
    BY <1>1 DEF IInv, ThreadsMatchUI, ethercatLoop, EthercatCheck, EthercatExchange,
       TryLockFails, TryLockSucceeds, CopySlave, CopyEnds, EthercatClose, EthercatGoto,
       dataCopyLoop, DataCopyCheck, DataCopyLock, DataCopyCallback, ConvertSlave,
       publishMsg, DataCopyUnlock, DataCopyClose, DataCopyGoto
  <2>1. RetryAgain
    BY <2>0 DEF Next, getSlaves, GetSlavesNoSocket, GetSlavesError, GetSlavesFound,
       setZMQPublish, start, StartError, StartRequest, StartGivesUp, StartThreads,
       stop, StopIdle, StopThreads, delete, DeleteIdle, DeleteThreads, join,
       JoinEthercatThread, JoinDataCopyThread, Dropped
  <2>2. num_retries \in 1 .. (UIntMod - 1) /\ num_retries' = (num_retries - 1) % UIntMod
    BY <1>1, <2>1 DEF RetryAgain, Retry, Decrement, IInv, TypeOK
  <2>3. num_retries' = num_retries - 1
    BY <2>2, RetriesAssumption
  <2>. QED
    BY <2>2, <2>3
<1>. QED
  BY <1>1, Invariant, PTL DEF Spec, StartComesCloser

(***************************************************************************)
(* The refinement: the two threads, the mutex and the slave objects behave *)
(* like the one cell of DataSource.                                        *)
(***************************************************************************)

(* Whichever owner is looked at, the cell is what it holds.                *)
LEMMA CellIsShared == IInv => \A s \in CellOwners : Cell = data[s]
<1>. SUFFICES ASSUME IInv, NEW s \in CellOwners PROVE Cell = data[s]
  OBVIOUS
<1>1. CellOwners \subseteq slaves /\ slaves # {}
  BY DEF CellOwners, IInv, DataWhole
<1>2. (CHOOSE t \in CellOwners : TRUE) \in CellOwners
  OBVIOUS
<1>3. \A t, u \in CellOwners : data[t] = data[u]
  BY DEF CellOwners, IInv, DataWhole
<1>. QED
  BY <1>1, <1>2, <1>3 DEF Cell

(* The same in the next state.                                             *)
LEMMA CellIsSharedNext == IInv' => \A s \in CellOwners' : Cell' = data'[s]
<1>1. (IInv => \A s \in CellOwners : Cell = data[s])'
  BY CellIsShared, PTL
<1>. QED
  BY <1>1

(* A cell that no thread writes is unchanged.                              *)
LEMMA CellUnchanged ==
  ASSUME UNCHANGED <<slaves, data, copying>>
  PROVE  Cell' = Cell
BY DEF Cell, CellOwners

(* The initial state is the initial state of the abstract source.          *)
LEMMA SourceInit == Init => Source!Init
BY DEF Init, Source!Init, Source!Nothing, Phase, Cell, EmptyJson, Indeterminate

(* What the UI thread does is a step of the abstract source or invisible.  *)
LEMMA SourceUI ==
  ASSUME IInv,
         getSlaves \/ setZMQPublish \/ start \/ stop \/ delete \/ join
  PROVE  [Source!Next]_(Source!vars)
<1>. USE DEF uiVars, dataVars, Phase, Source!vars
<1>0. ASSUME ui' = ui, UNCHANGED <<slaves, data, copying, published>>
      PROVE  UNCHANGED Source!vars
  BY <1>0, CellUnchanged
<1>1. CASE GetSlavesNoSocket \/ GetSlavesError \/ setZMQPublish
  BY <1>1, <1>0 DEF GetSlavesNoSocket, GetSlavesError, setZMQPublish, vars
<1>2. CASE GetSlavesFound
  <2>1. copying' = {}
    BY <1>2 DEF GetSlavesFound, IInv, ThreadsMatchUI, DataWhole
  <2>2. Cell' = 0
    <3>1. CASE slaves' = {}
      BY <3>1 DEF Cell, Indeterminate
    <3>2. CASE slaves' # {}
      <4>1. (CHOOSE t \in slaves' : TRUE) \in slaves'
        BY <3>2
      <4>2. \A t \in slaves' : data'[t] = 0
        BY <1>2 DEF GetSlavesFound, Indeterminate
      <4>. QED
        BY <2>1, <3>2, <4>1, <4>2 DEF Cell, CellOwners
    <3>. QED
      BY <3>1, <3>2
  <2>3. Source!Discover
    BY <1>2, <2>2 DEF GetSlavesFound, Source!Discover, Source!Nothing, EmptyJson,
       Indeterminate, Listed
  <2>. QED
    BY <2>3 DEF Source!Next
<1>3. CASE StartError \/ StartRequest \/ RetryAgain
  <2>1. UNCHANGED <<slaves, data, copying, published, Phase>>
    BY <1>3 DEF StartError, StartRequest, RetryAgain, Retry
  <2>. QED
    BY <2>1, CellUnchanged
<1>4. CASE StartGivesUp \/ StartThreads
  <2>1. Source!Start
    BY <1>4, CellUnchanged DEF StartGivesUp, StartThreads, Retry, Source!Start
  <2>. QED
    BY <2>1 DEF Source!Next
<1>5. CASE StopThreads \/ DeleteThreads
  <2>1. UNCHANGED <<slaves, data, copying, published, Phase>>
    BY <1>5 DEF StopThreads, DeleteThreads
  <2>. QED
    BY <2>1, CellUnchanged
<1>6. CASE JoinEthercatThread
  BY <1>6, <1>0 DEF JoinEthercatThread
<1>7. ASSUME ui \in {"ready", "started", "deleting"}, Dropped
      PROVE  Source!Next
  <2>1. Source!Delete
    BY <1>7 DEF Dropped, Source!Delete, Source!Nothing, EmptyJson, Indeterminate, Cell
  <2>. QED
    BY <2>1 DEF Source!Next
<1>8. ASSUME ui \in {"started", "stopping"}, ui' = "ready",
             UNCHANGED <<slaves, data, copying, published>>
      PROVE  Source!Next
  <2>1. Source!Stop
    BY <1>8, CellUnchanged DEF Source!Stop
  <2>. QED
    BY <2>1 DEF Source!Next
<1>9. CASE StopIdle \/ DeleteIdle \/ JoinDataCopyThread
  BY <1>9, <1>7, <1>8 DEF StopIdle, DeleteIdle, JoinDataCopyThread
<1>. QED
  BY <1>1, <1>2, <1>3, <1>4, <1>5, <1>6, <1>9
  DEF getSlaves, start, stop, delete, join

(* The last slave of a copyData refreshes the cell; nothing else that the  *)
(* exchange thread does can be seen.                                       *)
LEMMA SourceEthercatLoop ==
  ASSUME IInv, IInv', ethercatLoop
  PROVE  [Source!Next]_(Source!vars)
<1>. USE DEF uiVars, dataVars, Phase, Source!vars, EthercatGoto
<1>1. CASE \/ EthercatCheck \/ EthercatExchange \/ TryLockFails
           \/ CopyEnds \/ EthercatClose
  <2>1. UNCHANGED <<ui, slaves, data, copying, published>>
    BY <1>1 DEF EthercatCheck, EthercatExchange, TryLockFails, CopyEnds, EthercatClose
  <2>. QED
    BY <2>1, CellUnchanged
<1>2. CASE TryLockSucceeds
  <2>1. copying = {} /\ copying' = slaves
    BY <1>2 DEF TryLockSucceeds, IInv, DataWhole
  <2>2. UNCHANGED <<ui, slaves, data, published>>
    BY <1>2 DEF TryLockSucceeds
  <2>3. CellOwners' = CellOwners
    BY <2>1, <2>2 DEF CellOwners
  <2>. QED
    BY <2>2, <2>3 DEF Cell
<1>3. CASE CopySlave
  <2>1. PICK s \in copying : /\ data' = [data EXCEPT ![s] = image]
                             /\ copying' = copying \ {s}
    BY <1>3 DEF CopySlave
  <2>2. UNCHANGED <<ui, slaves, published>> /\ Phase = "active"
    BY <1>3 DEF CopySlave, IInv, ThreadsMatchUI, TypeOK
  <2>3. copying \subseteq slaves /\ s \in CellOwners /\ Cell = data[s]
    BY <2>1, CellIsShared DEF CellOwners, IInv, DataWhole
  <2>4. /\ data'[s] = image
        /\ \A t \in slaves \ {s} : data'[t] = data[t]
    BY <2>1, <2>3 DEF IInv, TypeOK
  <2>5. CASE copying' = {}
    <3>1. Cell' = image
      <4>1. s \in CellOwners'
        BY <2>2, <2>3, <2>5 DEF CellOwners
      <4>2. Cell' = data'[s]
        BY <4>1, CellIsSharedNext
      <4>. QED
        BY <4>2, <2>4
    <3>2. image \in Nat /\ image >= data[s]
      BY <2>3, ImageAssumption DEF IInv, TypeOK, Versions, DataWhole
    <3>3. Source!Refresh
      BY <2>2, <2>3, <3>1, <3>2 DEF Source!Refresh
    <3>. QED
      BY <3>3 DEF Source!Next
  <2>6. CASE copying' # {}
    <3>1. PICK t \in copying' : TRUE
      BY <2>6
    <3>2. t \in CellOwners /\ t \in CellOwners' /\ t # s /\ t \in slaves
      BY <2>1, <2>3, <3>1 DEF CellOwners
    <3>3. Cell' = data'[t]
      BY <3>2, CellIsSharedNext
    <3>4. Cell = data[t]
      BY <3>2, CellIsShared
    <3>. QED
      BY <2>2, <2>4, <3>2, <3>3, <3>4
  <2>. QED
    BY <2>5, <2>6
<1>. QED
  BY <1>1, <1>2, <1>3 DEF ethercatLoop

(* Of the data copy thread only the message is seen, and it shows the cell.*)
LEMMA SourceDataCopyLoop ==
  ASSUME IInv, dataCopyLoop
  PROVE  [Source!Next]_(Source!vars)
<1>. USE DEF uiVars, dataVars, Phase, Source!vars, DataCopyGoto
<1>1. CASE \/ DataCopyCheck \/ DataCopyLock \/ DataCopyCallback
           \/ ConvertSlave \/ DataCopyUnlock \/ DataCopyClose
  <2>1. UNCHANGED <<ui, slaves, data, copying, published>>
    BY <1>1 DEF DataCopyCheck, DataCopyLock, DataCopyCallback, ConvertSlave,
       DataCopyUnlock, DataCopyClose
  <2>. QED
    BY <2>1, CellUnchanged
<1>2. CASE publishMsg
  <2>1. copying = {} /\ Phase = "active"
    BY <1>2 DEF publishMsg, IInv, MutexMatchesThreads, ThreadsMatchUI, TypeOK, DataWhole
  <2>2. \A s \in slaves : json[s] = Cell
    BY <1>2, <2>1, CellIsShared DEF publishMsg, CellOwners, IInv, JsonMatchesData
  <2>3. json = [s \in slaves |-> Cell]
    BY <1>2, <2>2 DEF publishMsg, IInv, TypeOK
  <2>4. Source!Publish
    BY <1>2, <2>1, <2>3, CellUnchanged DEF publishMsg, Source!Publish
  <2>. QED
    BY <2>4 DEF Source!Next
<1>. QED
  BY <1>1, <1>2 DEF dataCopyLoop

(* The EtherCAT master implements the abstract data source: its slaves are *)
(* refreshed as a whole and never by older data, its messages show one     *)
(* image, and nothing moves once stop has returned.                        *)
THEOREM MasterIsDataSource == Spec => ImplementsDataSource
<1>1. IInv /\ IInv' /\ [Next]_vars => [Source!Next]_(Source!vars)
  <2>. SUFFICES ASSUME IInv, IInv', [Next]_vars
                PROVE  [Source!Next]_(Source!vars)
    OBVIOUS
  <2>1. CASE UNCHANGED vars
    BY <2>1, CellUnchanged DEF vars, uiVars, dataVars, Source!vars, Phase
  <2>. QED
    BY <2>1, SourceUI, SourceEthercatLoop, SourceDataCopyLoop DEF Next
<1>. QED
  BY <1>1, SourceInit, Invariant, PTL DEF Spec, ImplementsDataSource, Source!Spec
=============================================================================
