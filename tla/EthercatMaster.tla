--------------------------- MODULE EthercatMaster ---------------------------
(***************************************************************************)
(* The EtherCAT master data source: the UI thread that discovers, starts,  *)
(* stops and deletes the source, the thread that exchanges process data    *)
(* (ethercatLoop) and the thread that hands the data on (dataCopyLoop).    *)
(*                                                                         *)
(* Process data are abstracted to the number of the process image they     *)
(* come from: a frame that returns makes image image + 1, and a slave      *)
(* object whose rx and tx were copied from image v has data[s] = v.        *)
(* Indeterminate stands for the members rx and tx of a slave object that   *)
(* nothing was copied to: their constructors leave them uninitialized.     *)
(*                                                                         *)
(* SOEM and the slaves are not part of the repository; they appear         *)
(* as the socket, the state of the ring and the process image.             *)
(***************************************************************************)
EXTENDS SlaveTypes, Sequences

CONSTANTS
  Bus,        \* the names of the slaves on the ring, ec_slave[1..ec_slavecount]
  NumRetries, \* initial value of num_retries (200 in the code)
  UIntMod,    \* 2^width of an unsigned int
  MaxImage    \* bound: number of frames that return with new data

ASSUME BusAssumption     == Bus \in Seq(STRING)
ASSUME RetriesAssumption == /\ NumRetries \in Nat
                            /\ UIntMod \in Nat
                            /\ NumRetries < UIntMod
ASSUME ImageAssumption   == MaxImage \in Nat

VARIABLES
  ui,                  \* what the UI thread does with the source
  slaves,              \* numbers of the slaves in the vector "slaves"
  data,                \* slave -> image its rx and tx were copied from
  zmq_publish_enabled,
  ethercat_running,    \* atomic_bool
  ethercat_thread,     \* control point of ethercatLoop, "none" = not joinable
  data_copy_thread,    \* control point of dataCopyLoop, "none" = not joinable
  data_mutex,          \* "free", "ethercat" or "data_copy": the owner
  copying,             \* slaves that the copyData in progress still has to copy
  json,                \* the message convertToJson has built so far
  published,           \* the last message this source has published
  num_retries,         \* local variable of start()
  sock,                \* SOEM's raw socket
  busState,            \* the state of the ring, as ec_statecheck reports it
  image                \* number of the process image in IOmap

uiVars     == <<ui, slaves, zmq_publish_enabled, num_retries>>
threadVars == <<ethercat_thread, data_copy_thread, ethercat_running>>
dataVars   == <<data_mutex, copying, data, json, published>>
soemVars   == <<sock, busState, image>>
vars       == <<uiVars, threadVars, dataVars, soemVars>>

Indeterminate == 0
EmptyJson     == [s \in {} |-> Indeterminate]

(***************************************************************************)
(* SOEM, as the master uses it.                                            *)
(***************************************************************************)

(* ec_send_processdata and ec_receive_processdata: the frame comes back    *)
(* with the next image, or is lost and the image stays. The master prints  *)
(* a wrong working counter and does nothing else with it.                  *)
Exchange ==
  \/ image' = image
  \/ image < MaxImage /\ image' = image + 1

(***************************************************************************)
(* getSlaves, called once on a new source by both UIs. If it reports an    *)
(* error the UI drops the source at once, so that ui stays "none".         *)
(***************************************************************************)

(* The types that getSlaves lets through to the vector.                    *)
Listed == {cnt \in DOMAIN Bus :
             getSlaveType(Bus[cnt]) \in {KELO_DRIVE_SLAVE, ROBILE_BATTERY_SLAVE}}

(* ec_init fails: nothing was opened.                                      *)
GetSlavesNoSocket ==
  /\ ui = "none"
  /\ UNCHANGED vars

(* ec_config finds no slave, or the slaves do not reach SAFE_OP: the error *)
(* returns leave the socket open.                                          *)
GetSlavesError ==
  /\ ui = "none"
  /\ sock' = "open"
  /\ busState' = "INIT"
  /\ UNCHANGED <<uiVars, threadVars, dataVars, image>>

(* The source exists with a fresh, uninitialized object for each listed    *)
(* slave; the UI has passed it the state of its ZMQ option. image counts   *)
(* across sources, so that no two process images are ever confused.        *)
GetSlavesFound ==
  /\ ui = "none"
  /\ Bus # << >>
  /\ sock' = "closed"
  /\ busState' = "SAFE_OP"
  /\ slaves' = Listed
  /\ data' = [s \in Listed |-> Indeterminate]
  /\ published' = EmptyJson
  /\ zmq_publish_enabled' \in BOOLEAN
  /\ ui' = "ready"
  /\ UNCHANGED <<num_retries, threadVars, data_mutex, copying, json, image>>

getSlaves == GetSlavesNoSocket \/ GetSlavesError \/ GetSlavesFound

(* setZMQPublish, from the checkbox of the GUI.                            *)
setZMQPublish ==
  /\ ui \in {"ready", "started"}
  /\ zmq_publish_enabled' = ~zmq_publish_enabled
  /\ UNCHANGED <<ui, slaves, num_retries, threadVars, dataVars, soemVars>>

(***************************************************************************)
(* start: initialize the ring again, ask for OPERATIONAL and retry until   *)
(* the ring is OPERATIONAL or the retries are used up. Only then are the   *)
(* two threads created.                                                    *)
(***************************************************************************)

(* "No socket connection" or "No slaves found": start reports an error.    *)
(* Without a slave, ec_init has opened the socket.                         *)
StartError ==
  /\ ui = "ready"
  /\ \/ UNCHANGED soemVars
     \/ sock' = "open" /\ busState' = "INIT" /\ UNCHANGED image
  /\ UNCHANGED <<uiVars, threadVars, dataVars>>

(* Mutant: start relies on the ec_init of getSlaves.                       *)
MutStartRequest ==
  /\ ui = "ready"
  /\ Bus # << >>
  /\ busState' \in {"INIT", "SAFE_OP"}
  /\ Exchange
  /\ num_retries' = NumRetries
  /\ ui' = "starting"
  /\ UNCHANGED <<slaves, zmq_publish_enabled, threadVars, dataVars, sock>>

(* Up to the first ec_receive_processdata and ec_writestate. The result of *)
(* the check for SAFE_OP is not looked at.                                 *)
StartRequest ==
  /\ ui = "ready"
  /\ Bus # << >>
  /\ sock' = "open"
  /\ busState' \in {"INIT", "SAFE_OP"}
  /\ Exchange
  /\ num_retries' = NumRetries
  /\ ui' = "starting"
  /\ UNCHANGED <<slaves, zmq_publish_enabled, threadVars, dataVars>>

(* Mutant: a signed counter.                                               *)
MutDecrement(n) == n - 1

Decrement(n) == (n - 1) % UIntMod

(* One pass of the do-while loop whose test ends it:                       *)
(* num_retries-- && (ec_slave[0].state != EC_STATE_OPERATIONAL).           *)
Retry ==
  /\ ui = "starting"
  /\ Exchange
  /\ busState' \in {busState, "OPERATIONAL"}
  /\ num_retries' = Decrement(num_retries)
  /\ UNCHANGED <<slaves, zmq_publish_enabled, dataVars, sock>>

(* Mutant: the test num_retries-- >= 0, which an unsigned always passes.   *)
MutRetryAgain ==
  /\ Retry
  /\ busState' # "OPERATIONAL"
  /\ UNCHANGED <<ui, threadVars>>

RetryAgain ==
  /\ Retry
  /\ num_retries # 0 /\ busState' # "OPERATIONAL"
  /\ UNCHANGED <<ui, threadVars>>

(* Without OPERATIONAL there is no thread and no error either: the UI      *)
(* believes that the source runs.                                          *)
StartGivesUp ==
  /\ Retry
  /\ num_retries = 0 /\ busState' # "OPERATIONAL"
  /\ ui' = "started"
  /\ UNCHANGED threadVars

StartThreads ==
  /\ Retry
  /\ busState' = "OPERATIONAL"
  /\ ui' = "started"
  /\ ethercat_running' = TRUE
  /\ ethercat_thread' = "check"
  /\ data_copy_thread' = "check"

start == StartError \/ StartRequest \/ RetryAgain \/ StartGivesUp \/ StartThreads

(***************************************************************************)
(* stop and the destructor, which have the same body: clear the flag, join *)
(* ethercat_thread, then data_copy_thread. ui is "stopping" or "deleting"  *)
(* while the UI thread waits in a join.                                    *)
(***************************************************************************)

StopIdle ==
  /\ ui = "started" /\ ~ethercat_running
  /\ ui' = "ready"
  /\ UNCHANGED <<slaves, zmq_publish_enabled, num_retries, threadVars, dataVars, soemVars>>

StopThreads ==
  /\ ui = "started" /\ ethercat_running
  /\ ethercat_running' = FALSE
  /\ ui' = "stopping"
  /\ UNCHANGED <<slaves, zmq_publish_enabled, num_retries, ethercat_thread,
                 data_copy_thread, dataVars, soemVars>>

(* The object is gone: no slave, no data.                                  *)
Dropped ==
  /\ ui' = "none"
  /\ slaves' = {}
  /\ data' = EmptyJson
  /\ published' = EmptyJson

DeleteIdle ==
  /\ ui \in {"ready", "started"} /\ ~ethercat_running
  /\ Dropped
  /\ UNCHANGED <<zmq_publish_enabled, num_retries, threadVars, data_mutex,
                 copying, json, soemVars>>

DeleteThreads ==
  /\ ui = "started" /\ ethercat_running
  /\ ethercat_running' = FALSE
  /\ ui' = "deleting"
  /\ UNCHANGED <<slaves, zmq_publish_enabled, num_retries, ethercat_thread,
                 data_copy_thread, dataVars, soemVars>>

JoinEthercatThread ==
  /\ ui \in {"stopping", "deleting"}
  /\ ethercat_thread = "done"
  /\ ethercat_thread' = "none"
  /\ UNCHANGED <<uiVars, data_copy_thread, ethercat_running, dataVars, soemVars>>

(* Mutant: stop returns without the second join.                           *)
MutJoinDataCopyThread ==
  /\ ui \in {"stopping", "deleting"}
  /\ ethercat_thread = "none"
  /\ \/ ui = "stopping" /\ ui' = "ready" /\ UNCHANGED <<slaves, data, published>>
     \/ ui = "deleting" /\ Dropped
  /\ UNCHANGED <<zmq_publish_enabled, num_retries, threadVars, data_mutex,
                 copying, json, soemVars>>

(* The second join, after which stop or the destructor returns.            *)
JoinDataCopyThread ==
  /\ ui \in {"stopping", "deleting"}
  /\ ethercat_thread = "none"
  /\ data_copy_thread = "done"
  /\ data_copy_thread' = "none"
  /\ \/ ui = "stopping" /\ ui' = "ready" /\ UNCHANGED <<slaves, data, published>>
     \/ ui = "deleting" /\ Dropped
  /\ UNCHANGED <<zmq_publish_enabled, num_retries, ethercat_thread,
                 ethercat_running, data_mutex, copying, json, soemVars>>

stop   == StopIdle \/ StopThreads
delete == DeleteIdle \/ DeleteThreads
join   == JoinEthercatThread \/ JoinDataCopyThread

(***************************************************************************)
(* ethercatLoop.                                                           *)
(***************************************************************************)

EthercatGoto(from, to) ==
  /\ ethercat_thread = from
  /\ ethercat_thread' = to
  /\ UNCHANGED <<uiVars, data_copy_thread, ethercat_running>>

EthercatCheck ==
  /\ EthercatGoto("check", IF ethercat_running THEN "exchange" ELSE "close")
  /\ UNCHANGED <<dataVars, soemVars>>

(* On a closed socket nothing is sent and nothing comes back.              *)
EthercatExchange ==
  /\ EthercatGoto("exchange", "try_lock")
  /\ IF sock = "open" THEN Exchange ELSE UNCHANGED image
  /\ UNCHANGED <<dataVars, sock, busState>>

(* std::try_to_lock: without the lock nothing is copied in this cycle.     *)
TryLockFails ==
  /\ EthercatGoto("try_lock", "check")
  /\ UNCHANGED <<dataVars, soemVars>>

(* Mutant: the result of the try_lock is not looked at.                    *)
MutTryLockSucceeds ==
  /\ EthercatGoto("try_lock", "copy")
  /\ data_mutex' = "ethercat"
  /\ copying' = slaves
  /\ UNCHANGED <<data, json, published, soemVars>>

TryLockSucceeds ==
  /\ EthercatGoto("try_lock", "copy")
  /\ data_mutex = "free"
  /\ data_mutex' = "ethercat"
  /\ copying' = slaves
  /\ UNCHANGED <<data, json, published, soemVars>>

(* slaves[i]->copyData: the slaves are in the order of their numbers.      *)
CopySlave ==
  /\ EthercatGoto("copy", "copy")
  /\ \E s \in copying :
       /\ \A t \in copying : s <= t
       /\ data' = [data EXCEPT ![s] = image]
       /\ copying' = copying \ {s}
  /\ UNCHANGED <<data_mutex, json, published, soemVars>>

(* Mutant: a lock that is not released at the end of the scope.            *)
MutCopyEnds ==
  /\ EthercatGoto("copy", "check")
  /\ copying = {}
  /\ UNCHANGED <<dataVars, soemVars>>

CopyEnds ==
  /\ EthercatGoto("copy", "check")
  /\ copying = {}
  /\ data_mutex' = "free"
  /\ UNCHANGED <<copying, data, json, published, soemVars>>

EthercatClose ==
  /\ EthercatGoto("close", "done")
  /\ sock' = "closed"
  /\ UNCHANGED <<dataVars, busState, image>>

ethercatLoop == \/ EthercatCheck \/ EthercatExchange \/ TryLockFails
                \/ TryLockSucceeds \/ CopySlave \/ CopyEnds \/ EthercatClose

(***************************************************************************)
(* dataCopyLoop.                                                           *)
(***************************************************************************)

DataCopyGoto(from, to) ==
  /\ data_copy_thread = from
  /\ data_copy_thread' = to
  /\ UNCHANGED <<uiVars, ethercat_thread, ethercat_running>>

DataCopyCheck ==
  /\ DataCopyGoto("check", IF ethercat_running THEN "lock" ELSE "close")
  /\ UNCHANGED <<dataVars, soemVars>>

DataCopyLock ==
  /\ DataCopyGoto("lock", "callback")
  /\ data_mutex = "free"
  /\ data_mutex' = "data_copy"
  /\ UNCHANGED <<copying, data, json, published, soemVars>>

(* (ui->*callback_fn)(slaves), then the test of zmq_publish_enabled. What  *)
(* the callbacks of the UIs do with the slaves is the matter of their own  *)
(* modules; here the callback is a step of the thread.                     *)
DataCopyCallback ==
  /\ DataCopyGoto("callback", IF zmq_publish_enabled THEN "json" ELSE "unlock")
  /\ json' = EmptyJson
  /\ UNCHANGED <<data_mutex, copying, data, published, soemVars>>

(* convertToJson adds one slave after the other to the message.            *)
ConvertSlave ==
  /\ DataCopyGoto("json", "json")
  /\ \E s \in slaves \ DOMAIN json :
       /\ \A t \in slaves \ DOMAIN json : s <= t
       /\ json' = [t \in DOMAIN json \cup {s} |->
                     IF t = s THEN data[s] ELSE json[t]]
  /\ UNCHANGED <<data_mutex, copying, data, published, soemVars>>

(* Mutant: a loop that ends too early, so that slaves are missing.         *)
MutPublishMsg ==
  /\ DataCopyGoto("json", "unlock")
  /\ published' = json
  /\ UNCHANGED <<data_mutex, copying, data, json, soemVars>>

publishMsg ==
  /\ DataCopyGoto("json", "unlock")
  /\ DOMAIN json = slaves
  /\ published' = json
  /\ UNCHANGED <<data_mutex, copying, data, json, soemVars>>

DataCopyUnlock ==
  /\ DataCopyGoto("unlock", "check")
  /\ data_mutex' = "free"
  /\ UNCHANGED <<copying, data, json, published, soemVars>>

DataCopyClose ==
  /\ DataCopyGoto("close", "done")
  /\ sock' = "closed"
  /\ UNCHANGED <<dataVars, busState, image>>

dataCopyLoop == \/ DataCopyCheck \/ DataCopyLock \/ DataCopyCallback
                \/ ConvertSlave \/ publishMsg \/ DataCopyUnlock \/ DataCopyClose

-----------------------------------------------------------------------------
Init ==
  /\ ui = "none"
  /\ slaves = {}
  /\ data = EmptyJson
  /\ zmq_publish_enabled = FALSE
  /\ ethercat_running = FALSE
  /\ ethercat_thread = "none"
  /\ data_copy_thread = "none"
  /\ data_mutex = "free"
  /\ copying = {}
  /\ json = EmptyJson
  /\ published = EmptyJson
  /\ num_retries = NumRetries
  /\ sock = "closed"
  /\ busState = "INIT"
  /\ image = Indeterminate

Next == getSlaves \/ setZMQPublish \/ start \/ stop \/ delete \/ join
        \/ ethercatLoop \/ dataCopyLoop

Spec == Init /\ [][Next]_vars

(* The operating system schedules every thread that can run, the UI thread *)
(* included once it is inside start, stop or the destructor. Nothing is    *)
(* assumed about what the user does, nor about who wins the mutex.         *)
Fairness ==
  /\ WF_vars(ethercatLoop)
  /\ WF_vars(dataCopyLoop)
  /\ WF_vars(RetryAgain \/ StartGivesUp \/ StartThreads)
  /\ WF_vars(join)

FairSpec == Spec /\ Fairness

(***************************************************************************)
(* Properties.                                                             *)
(***************************************************************************)

Versions == 0 .. MaxImage

(* Every variable has its type.                                            *)
TypeOK ==
  /\ ui \in {"none", "ready", "starting", "started", "stopping", "deleting"}
  /\ slaves \in SUBSET (DOMAIN Bus)
  /\ data \in [slaves -> Versions]
  /\ zmq_publish_enabled \in BOOLEAN
  /\ ethercat_running \in BOOLEAN
  /\ ethercat_thread \in {"none", "check", "exchange", "try_lock", "copy",
                          "close", "done"}
  /\ data_copy_thread \in {"none", "check", "lock", "callback", "json",
                           "unlock", "close", "done"}
  /\ data_mutex \in {"free", "ethercat", "data_copy"}
  /\ copying \in SUBSET (DOMAIN Bus)
  /\ DOMAIN json \in SUBSET (DOMAIN Bus)
  /\ json \in [DOMAIN json -> Versions]
  /\ DOMAIN published \in SUBSET (DOMAIN Bus)
  /\ published \in [DOMAIN published -> Versions]
  /\ num_retries \in 0 .. (UIntMod - 1)
  /\ sock \in {"closed", "open"}
  /\ busState \in {"INIT", "SAFE_OP", "OPERATIONAL"}
  /\ image \in Versions

(* A message published over ZMQ shows all slaves in the same process image:*)
(* the exchange thread never copies between two slaves of one              *)
(* convertToJson. This is what data_mutex is for.                          *)
PublishedWhole ==
  \A s, t \in DOMAIN published : published[s] = published[t]

(* While the source is meant to run, the socket under the exchange thread  *)
(* is open: neither the ec_close of the other thread nor the one of a      *)
(* thread of an earlier session can close it, and a restart never runs     *)
(* into a late ec_close.                                                   *)
LiveSocket ==
  ethercat_thread = "exchange" /\ ethercat_running => sock = "open"

(* start never assigns to a std::thread that is still joinable, which      *)
(* would terminate the program, and no thread of a source that is at rest  *)
(* or deleted still runs and touches the slaves.                           *)
NoThreadLeftBehind ==
  ui \in {"none", "ready", "starting"} =>
    ethercat_thread = "none" /\ data_copy_thread = "none"

(* When the stop (or the destructor) of a source with threads returns,     *)
(* nobody owns the mutex and SOEM's socket is closed.                      *)
StopReleases ==
  [][(ui \in {"stopping", "deleting"} /\ ui' # ui) =>
        (sock' = "closed" /\ data_mutex' = "free")]_vars

(***************************************************************************)
(* The invariant that the proofs rest on.                                  *)
(***************************************************************************)

(* Which threads exist is a function of what the UI thread is doing and of *)
(* ethercat_running.                                                       *)
ThreadsMatchUI ==
  /\ ui \in {"none", "ready", "starting"} =>
       ~ethercat_running /\ ethercat_thread = "none" /\ data_copy_thread = "none"
  /\ ui = "started" /\ ~ethercat_running =>
       ethercat_thread = "none" /\ data_copy_thread = "none"
  /\ ui = "started" /\ ethercat_running =>
       /\ ethercat_thread \notin {"none", "close", "done"}
       /\ data_copy_thread \notin {"none", "close", "done"}
  /\ ui \in {"stopping", "deleting"} =>
       ~ethercat_running /\ data_copy_thread # "none"

(* The socket is open from ec_init for as long as the source is meant to   *)
(* run, and closed once a thread has ended.                                *)
SocketMatchesThreads ==
  /\ ui = "starting" => sock = "open"
  /\ ethercat_running => sock = "open"
  /\ ethercat_thread = "done" \/ data_copy_thread = "done" => sock = "closed"

(* The owner of data_mutex is the thread inside its critical section.      *)
MutexMatchesThreads ==
  /\ data_mutex = "ethercat" <=> ethercat_thread = "copy"
  /\ data_mutex = "data_copy" <=> data_copy_thread \in {"callback", "json", "unlock"}

(* The slaves that were copied hold the current image, those that were not *)
(* hold one common, older image.                                           *)
DataWhole ==
  /\ copying \subseteq slaves
  /\ ethercat_thread # "copy" => copying = {}
  /\ ethercat_thread = "copy" => \A s \in slaves \ copying : data[s] = image
  /\ \A s, t \in copying : data[s] = data[t]
  /\ \A s, t \in slaves \ copying : data[s] = data[t]
  /\ \A s \in slaves : data[s] <= image

(* The message under construction shows the slaves as they are.            *)
JsonMatchesData ==
  data_copy_thread = "json" =>
    DOMAIN json \subseteq slaves /\ \A s \in DOMAIN json : json[s] = data[s]

IInv ==
  /\ TypeOK
  /\ ThreadsMatchUI
  /\ SocketMatchesThreads
  /\ MutexMatchesThreads
  /\ DataWhole
  /\ JsonMatchesData
  /\ PublishedWhole

(* The source implements the abstract data source. The cell is the image   *)
(* that the slaves hold; while copyData is under way it is the image of    *)
(* the slaves that are still to be copied.                                 *)
CellOwners == IF copying = {} THEN slaves ELSE copying
Cell == IF slaves = {} THEN Indeterminate ELSE data[CHOOSE s \in CellOwners : TRUE]

Phase == IF ui = "none" THEN "absent"
         ELSE IF ui \in {"ready", "starting"} THEN "rest" ELSE "active"

Source == INSTANCE DataSource WITH
  Slaves  <- DOMAIN Bus,
  phase   <- Phase,
  listed  <- slaves,
  cell    <- Cell,
  message <- published

ImplementsDataSource == Source!Spec

(* stop and the destructor return: both threads see the cleared flag and   *)
(* end, whatever they were doing, and each can be joined.                  *)
StopReturns == ui \in {"stopping", "deleting"} ~> ui \in {"ready", "none"}

(* start returns even if the ring never becomes OPERATIONAL: the unsigned  *)
(* num_retries ends the loop before it can wrap around.                    *)
StartReturns == ui = "starting" ~> ui = "started"

(* README: the PDOs that the slaves sent are parsed and displayed.         *)
(* dataCopyLoop does not wait for a first copyData.                        *)
OnlyReceivedDataPublished ==
  \A s \in DOMAIN published : published[s] # Indeterminate
=============================================================================
