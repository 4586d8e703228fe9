---------------------------- MODULE FSIOThreads ----------------------------
(***************************************************************************)
(* The request path of the module: application threads enter patched       *)
(* functions, wrap the call in heap objects, post it to the IO thread of    *)
(* the core they run on, and that thread dispatches it to the layers under  *)
(* fsLayerMutex and answers: through a one-slot queue in the message (sync  *)
(* FSA calls), or through the application's IO queue (async FS calls).      *)
(* The main thread starts and stops the IO threads around the application.  *)
(*                                                                         *)
(* A request is named by the slot its caller may use for one call at a     *)
(* time: the thread itself for a sync call, the command block for an async  *)
(* one.  What the layers compute is abstracted to the decision "layer"     *)
(* (a layer answered) or "real" (FS_ERROR_FORCE_REAL_FUNCTION); which layer *)
(* and which result is the subject of module LayerStack.                   *)
(***************************************************************************)
EXTENDS Naturals, Sequences, FiniteSets

CONSTANTS
  NCores,       \* the cores, and IO threads: gThreadData[3]
  App,          \* application threads
  Block,        \* FSCmdBlocks of async requests
  Ptr,          \* bound: heap addresses of a message and the param it points to
  Malloc(_),    \* the addresses malloc may choose among the unused ones
  QueueCap,     \* FSIOThreadData.messages[0x10]
  AppQueueCap,  \* capacity of the OSMessageQueue that takes completions
  MaxNest,      \* bound: calls an IO thread makes from inside a layer
  MaxLives,     \* bound: applications started
  QuietEnd,     \* TRUE: application threads make no call while it ends
  EagerIO,      \* TRUE: a resumed IO thread (priority 0, the highest) reaches
                \* its receive loop before the main thread goes on
  AllocFails,   \* TRUE: memalign and OSCreateThread may fail
  Fragile,      \* blocks whose errorMask does not cover the layer's error
  Careless,     \* blocks whose FSAsyncData may name neither a callback nor a
                \* queue, or both
  Drainer,      \* the application thread that empties the IO queue, or Nil
                \* when a thread of its own (the default app IO thread) does
  STOP,         \* FS_IO_QUEUE_COMMAND_STOP
  Nil

Core    == 0 .. NCores - 1
Request == App \cup Block
Objects == {"param", "message"}

ASSUME CoreAssumption  == NCores \in Nat \ {0}
ASSUME BoundAssumption == /\ QueueCap \in Nat \ {0}
                          /\ AppQueueCap \in Nat \ {0}
                          /\ MaxNest \in Nat
                          /\ MaxLives \in Nat
                          /\ {QuietEnd, EagerIO, AllocFails} \subseteq BOOLEAN
ASSUME MallocAssumption == \A S \in SUBSET Ptr : Malloc(S) \subseteq S
ASSUME SlotAssumption  == /\ App \cap Block = {}
                          /\ STOP \notin Ptr
                          /\ Nil \notin Request \cup Ptr \cup Nat
                          /\ Nil \notin {"layer", "real"}
                          /\ Fragile \subseteq Block /\ Careless \subseteq Block
                          /\ Drainer \in App \cup {Nil}

VARIABLES
  phase,            \* where the main thread is in the two WUMS hooks
  coreId,           \* its loop variable over gThreadData
  lives,            \* applications started so far (bounded by MaxLives)
  gThreadsRunning,
  setup,            \* [Core -> BOOLEAN]  FSIOThreadData.setup
  inited,           \* [Core -> BOOLEAN]  OSInitMessageQueue has run
  queue,            \* [Core -> Seq(Ptr \cup {STOP})]
  io,               \* [Core -> where the IO thread is]
  cur,              \* [Core -> Ptr \cup {Nil}]  the message it processes
  nest,             \* [Core -> Nat]  calls made from inside its layer
  holder, depth,    \* fsLayerMutex: owning core and recursion count
  layers,           \* TRUE when fsLayers holds an active layer
  pc, sub, msg,     \* [App -> where it is], the request it is submitting, and
                    \* the message it points to
  block,            \* [Block -> who owns the command block]
  appq,             \* completions waiting in the application's IO queue
  heap,             \* allocated <<address, object>> pairs
  shim,             \* threads whose FSAShimBuffer is allocated
  of,               \* [Ptr -> Request \cup {Nil}]  the request in the param
  reply,            \* [Ptr -> Nil or decision]  message->messageQueue
  outcome,          \* [Request -> Nil, "layer" or "real"]  decision taken
  halted            \* "no", or why OSFatal or the FS error screen was reached

mainVars  == <<phase, coreId, lives, gThreadsRunning, setup, inited>>
lockVars  == <<holder, depth, layers>>
appVars   == <<pc, sub, msg>>
heapVars  == <<heap, shim, of, reply>>
asyncVars == <<block, appq>>
ioVars    == <<io, cur, nest>>
vars == <<mainVars, lockVars, appVars, asyncVars, ioVars, heapVars, queue, outcome, halted>>

Init ==
  /\ phase = "off" /\ coreId = 0 /\ lives = 0
  /\ gThreadsRunning = FALSE
  /\ setup = [c \in Core |-> FALSE]
  /\ inited = [c \in Core |-> FALSE]
  /\ queue = [c \in Core |-> <<>>]
  /\ io = [c \in Core |-> "none"]
  /\ cur = [c \in Core |-> Nil]
  /\ nest = [c \in Core |-> 0]
  /\ holder = Nil /\ depth = 0 /\ layers = FALSE
  /\ pc = [t \in App |-> "idle"]
  /\ sub = [t \in App |-> Nil]
  /\ msg = [t \in App |-> Nil]
  /\ block = [b \in Block |-> "app"]
  /\ appq = <<>>
  /\ heap = {} /\ shim = {}
  /\ of = [p \in Ptr |-> Nil]
  /\ reply = [p \in Ptr |-> Nil]
  /\ outcome = [r \in Request |-> Nil]
  /\ halted = "no"

Alive == halted = "no"

-----------------------------------------------------------------------------
(* Coreinit, as the code uses it.                                           *)

(* OSSendMessage without OS_MESSAGE_FLAGS_BLOCKING succeeds when the queue   *)
(* has room; a queue that is still zeroed memory has none.                   *)
messageSizeButOne == QueueCap - 1   \* mutant
messageSize == QueueCap
HasRoom(c) == inited[c] /\ Len(queue[c]) < messageSize
AppHasRoom == Len(appq) < AppQueueCap

(* std::mutex of this toolchain is an OSMutex, which its owner may lock      *)
(* again: a layer that calls a patched function relies on it.                *)
CanLock(c) == holder \in {Nil, c}
LockBy(c) == /\ CanLock(c)
             /\ holder' = c /\ depth' = depth + 1
UnlockOnce == /\ depth' = depth - 1
              /\ holder' = IF depth = 1 THEN Nil ELSE holder

OSFatal(why) ==
  /\ halted' = why
  /\ UNCHANGED <<mainVars, lockVars, appVars, asyncVars, ioVars, queue, heapVars, outcome>>

-----------------------------------------------------------------------------
(* Main thread: WUMS_APPLICATION_STARTS and startFSIOThreads.                *)

ApplicationStarts ==
  /\ Alive /\ phase = "off" /\ lives < MaxLives
  /\ phase' = "create" /\ coreId' = 0 /\ lives' = lives + 1
  /\ UNCHANGED <<gThreadsRunning, setup, inited, lockVars, appVars, asyncVars,
                 ioVars, queue, heapVars, outcome, halted>>

(* memset, OSCreateThread, OSResumeThread of one core's IO thread.           *)
CreateThread ==
  /\ Alive /\ phase = "create" /\ coreId \in Core
  /\ phase' = "resumed"
  /\ setup' = [setup EXCEPT ![coreId] = FALSE]
  /\ inited' = [inited EXCEPT ![coreId] = FALSE]
  /\ queue' = [queue EXCEPT ![coreId] = <<>>]
  /\ io' = [io EXCEPT ![coreId] = "init"]
  /\ UNCHANGED <<coreId, lives, gThreadsRunning, lockVars, appVars, asyncVars,
                 cur, nest, heapVars, outcome, halted>>

CreateThreadFails ==
  /\ Alive /\ AllocFails /\ phase = "create" /\ coreId \in Core
  /\ OSFatal("noMemory")

ThreadIsSetup ==
  /\ Alive /\ phase = "resumed"
  /\ EagerIO => inited[coreId]
  /\ setup' = [setup EXCEPT ![coreId] = TRUE]
  /\ coreId' = coreId + 1 /\ phase' = "create"
  /\ UNCHANGED <<lives, gThreadsRunning, inited, lockVars, appVars, asyncVars,
                 ioVars, queue, heapVars, outcome, halted>>

ThreadsStarted ==
  /\ Alive /\ phase = "create" /\ coreId = NCores
  /\ gThreadsRunning' = TRUE /\ phase' = "run"
  /\ UNCHANGED <<coreId, lives, setup, inited, lockVars, appVars, asyncVars,
                 ioVars, queue, heapVars, outcome, halted>>

(* WUMS_APPLICATION_ENDS, clearFSLayer and stopFSIOThreads.                  *)
ApplicationEnds ==
  /\ Alive /\ phase = "run"
  /\ QuietEnd => \A t \in App : pc[t] = "idle"
  /\ phase' = "clear"
  /\ UNCHANGED <<coreId, lives, gThreadsRunning, setup, inited, lockVars, appVars,
                 asyncVars, ioVars, queue, heapVars, outcome, halted>>

ClearFSLayer ==
  /\ Alive /\ phase = "clear" /\ holder = Nil
  /\ layers' = FALSE
  /\ phase' = "stop" /\ coreId' = 0
  /\ UNCHANGED <<lives, gThreadsRunning, setup, inited, holder, depth, appVars,
                 asyncVars, ioVars, queue, heapVars, outcome, halted>>

(* The result of OSSendMessage is not looked at: a full queue, or one that   *)
(* its thread has not initialised yet, swallows the STOP.                    *)
PutStopFirst(c) == queue' = IF HasRoom(c)   \* mutant: high priority
                            THEN [queue EXCEPT ![c] = <<STOP>> \o @] ELSE queue
PutStop(c) == queue' = IF HasRoom(c)
                       THEN [queue EXCEPT ![c] = Append(@, STOP)] ELSE queue

SendStop ==
  /\ Alive /\ phase = "stop" /\ coreId \in Core /\ setup[coreId]
  /\ PutStop(coreId)
  /\ phase' = "join"
  /\ UNCHANGED <<coreId, lives, gThreadsRunning, setup, inited, lockVars, appVars,
                 asyncVars, ioVars, heapVars, outcome, halted>>

JoinThread ==
  /\ Alive /\ phase = "join" /\ io[coreId] = "exited"
  /\ io' = [io EXCEPT ![coreId] = "none"]
  /\ coreId' = coreId + 1 /\ phase' = "stop"
  /\ UNCHANGED <<lives, gThreadsRunning, setup, inited, lockVars, appVars,
                 asyncVars, cur, nest, queue, heapVars, outcome, halted>>

ThreadsStopped ==
  /\ Alive /\ phase = "stop" /\ coreId = NCores
  /\ gThreadsRunning' = FALSE /\ phase' = "off"
  /\ UNCHANGED <<coreId, lives, setup, inited, lockVars, appVars, asyncVars,
                 ioVars, queue, heapVars, outcome, halted>>

(* CRAddFSLayer, CRRemoveFSLayer, CRSetActive of a plugin, seen from here:   *)
(* plugins may call them at any time.                                        *)
CRApi ==
  /\ Alive /\ holder = Nil
  /\ layers' = ~layers
  /\ UNCHANGED <<mainVars, holder, depth, appVars, asyncVars, ioVars, queue,
                 heapVars, outcome, halted>>

-----------------------------------------------------------------------------
(* Application threads.                                                      *)

MayCall(t) == pc[t] = "idle" /\ (QuietEnd => phase \in {"off", "run"})

(* malloc of the param and the message.                                      *)
Unused == {p \in Ptr : heap \cap ({p} \X Objects) = {}}

(* A sync FSA call (r = t) or an async FS call on one of the caller's        *)
(* blocks, with its shim buffer prepared (a sync caller allocates it, an      *)
(* async one has it in the command block).  processFSAShimInThread finds     *)
(* gThreadsRunning set and wraps the request ...                             *)
Wrap(t, r) ==
  /\ Alive /\ MayCall(t) /\ gThreadsRunning
  /\ r \in Block => block[r] = "app"
  /\ \E p \in Malloc(Unused) :
       /\ heap' = heap \cup ({p} \X Objects)
       /\ of' = [of EXCEPT ![p] = r]
       /\ msg' = [msg EXCEPT ![t] = p]
  /\ shim' = shim \cup ({r} \cap App)
  /\ sub' = [sub EXCEPT ![t] = r]
  /\ pc' = [pc EXCEPT ![t] = "post"]
  /\ outcome' = [outcome EXCEPT ![r] = Nil]
  /\ block' = IF r \in Block THEN [block EXCEPT ![r] = "module"] ELSE block
  /\ UNCHANGED <<mainVars, lockVars, reply, appq, ioVars, queue, halted>>

WrapFails(t) ==
  /\ Alive /\ MayCall(t) /\ gThreadsRunning /\ Unused = {}
  /\ OSFatal("noMemory")

(* ... or finds it clear: the real function runs instead.                    *)
Skip(t, r) ==
  /\ Alive /\ MayCall(t) /\ ~gThreadsRunning
  /\ r \in Block => block[r] = "app"
  /\ sub' = [sub EXCEPT ![t] = r]
  /\ pc' = [pc EXCEPT ![t] = "real"]
  /\ outcome' = [outcome EXCEPT ![r] = "real"]
  /\ block' = IF r \in Block THEN [block EXCEPT ![r] = "module"] ELSE block
  /\ UNCHANGED <<mainVars, lockVars, msg, heapVars, appq, ioVars, queue, halted>>

(* sendMessageToThread on the core the caller happens to run on.  A sync      *)
(* caller waits for the reply; an async one keeps no pointer.                *)
Post(t, c) ==
  /\ Alive /\ pc[t] = "post" /\ setup[c] /\ HasRoom(c)
  /\ queue' = [queue EXCEPT ![c] = Append(@, msg[t])]
  /\ IF sub[t] \in App
     THEN pc' = [pc EXCEPT ![t] = "wait"] /\ UNCHANGED <<sub, msg>>
     ELSE /\ pc' = [pc EXCEPT ![t] = "idle"]
          /\ sub' = [sub EXCEPT ![t] = Nil]
          /\ msg' = [msg EXCEPT ![t] = Nil]
  /\ UNCHANGED <<mainVars, lockVars, asyncVars, ioVars, heapVars, outcome, halted>>

PostFails(t, c) ==
  /\ Alive /\ pc[t] = "post" /\ ~(setup[c] /\ HasRoom(c))
  /\ OSFatal(IF setup[c] THEN "queueFull" ELSE "notSetup")

(* OSReceiveMessage blocks until the IO thread has answered.                 *)
HasReply(t) == reply[msg[t]] # Nil

(* The sync caller receives the result, frees message and shim buffer and    *)
(* calls the real function when no layer answered.                           *)
ReceiveReply(t) ==
  /\ Alive /\ pc[t] = "wait" /\ HasReply(t)
  /\ reply' = [reply EXCEPT ![msg[t]] = Nil]
  /\ heap' = heap \ {<<msg[t], "message">>}
  /\ of' = [of EXCEPT ![msg[t]] = Nil]
  /\ shim' = shim \ {t}
  /\ msg' = [msg EXCEPT ![t] = Nil]
  /\ IF reply[msg[t]] = "real"
     THEN /\ pc' = [pc EXCEPT ![t] = "real"]
          /\ outcome' = [outcome EXCEPT ![t] = "real"]
          /\ UNCHANGED sub
     ELSE /\ pc' = [pc EXCEPT ![t] = "idle"]
          /\ sub' = [sub EXCEPT ![t] = Nil]
          /\ outcome' = [outcome EXCEPT ![t] = Nil]
  /\ UNCHANGED <<mainVars, lockVars, asyncVars, ioVars, queue, halted>>

(* The caller runs the real function itself; an async one is submitted to    *)
(* the console or refused with an error code.                                *)
CallReal(t) ==
  /\ Alive /\ pc[t] = "real"
  /\ pc' = [pc EXCEPT ![t] = "idle"]
  /\ sub' = [sub EXCEPT ![t] = Nil]
  /\ IF sub[t] \in Block
     THEN \E o \in {"os", "app"} :
            /\ block' = [block EXCEPT ![sub[t]] = o]
            /\ outcome' = [outcome EXCEPT ![sub[t]] = IF o = "os" THEN "real" ELSE Nil]
     ELSE block' = block /\ outcome' = [outcome EXCEPT ![t] = Nil]
  /\ UNCHANGED <<mainVars, lockVars, msg, appq, ioVars, queue, heapVars, halted>>

(* The console completes an async request it was given.                      *)
OSCompletes(b) ==
  /\ Alive /\ block[b] = "os" /\ AppHasRoom
  /\ appq' = Append(appq, b)
  /\ block' = [block EXCEPT ![b] = "done"]
  /\ UNCHANGED <<mainVars, lockVars, appVars, ioVars, queue, heapVars, outcome, halted>>

(* The application takes a completion; the block is its own again.           *)
AppReceives ==
  /\ Alive /\ appq # <<>>
  /\ Drainer \in App => pc[Drainer] = "idle"
  /\ appq' = Tail(appq)
  /\ block' = [block EXCEPT ![Head(appq)] = "app"]
  /\ outcome' = [outcome EXCEPT ![Head(appq)] = Nil]
  /\ UNCHANGED <<mainVars, lockVars, appVars, ioVars, queue, heapVars, halted>>

-----------------------------------------------------------------------------
(* IO threads: fsIOthreadCallback, doForLayer, processShimBufferForFS/FSA.   *)

(* The request the IO thread works on: param->shim and param->asyncFS.       *)
Req(c)  == of[cur[c]]
Sync(c) == Req(c) \in App

InitQueue(c) ==
  /\ Alive /\ io[c] = "init"
  /\ inited' = [inited EXCEPT ![c] = TRUE]
  /\ queue' = [queue EXCEPT ![c] = <<>>]
  /\ io' = [io EXCEPT ![c] = "recv"]
  /\ UNCHANGED <<phase, coreId, lives, gThreadsRunning, setup, lockVars, appVars,
                 asyncVars, cur, nest, heapVars, outcome, halted>>

PeekStop(c) ==   \* mutant: OS_MESSAGE_FLAGS_PEEK, and never out of the loop
  /\ Alive /\ io[c] = "recv" /\ queue[c] # <<>> /\ Head(queue[c]) = STOP
  /\ UNCHANGED vars
ReceiveStop(c) ==
  /\ Alive /\ io[c] = "recv" /\ queue[c] # <<>> /\ Head(queue[c]) = STOP
  /\ queue' = [queue EXCEPT ![c] = Tail(@)]
  /\ io' = [io EXCEPT ![c] = "exited"]
  /\ UNCHANGED <<mainVars, lockVars, appVars, asyncVars, cur, nest, heapVars, outcome, halted>>

ReceiveCommand(c) ==
  /\ Alive /\ io[c] = "recv" /\ queue[c] # <<>> /\ Head(queue[c]) # STOP
  /\ queue' = [queue EXCEPT ![c] = Tail(@)]
  /\ cur' = [cur EXCEPT ![c] = Head(queue[c])]
  /\ io' = [io EXCEPT ![c] = "lock"]
  /\ UNCHANGED <<mainVars, lockVars, appVars, asyncVars, nest, heapVars, outcome, halted>>

LockLayers(c) ==
  /\ Alive /\ io[c] = "lock"
  /\ LockBy(c)
  /\ io' = [io EXCEPT ![c] = "layer"]
  /\ UNCHANGED <<mainVars, layers, appVars, asyncVars, cur, nest, queue, heapVars, outcome, halted>>

(* A layer calls a patched function (FSAOpenDir of the parent, or POSIX on    *)
(* the replacement directory).  processFSAShimInThread sees that it runs on  *)
(* the IO thread and processes the request in place instead of posting it.   *)
NestedCallUnlocked(c) ==   \* mutant: the nested doForLayer does not lock
  /\ Alive /\ io[c] = "layer" /\ layers /\ nest[c] < MaxNest
  /\ nest' = [nest EXCEPT ![c] = @ + 1]
  /\ UNCHANGED <<mainVars, lockVars, appVars, asyncVars, io, cur, queue, heapVars, outcome, halted>>
NestedCall(c) ==
  /\ Alive /\ io[c] = "layer" /\ layers /\ nest[c] < MaxNest
  /\ nest' = [nest EXCEPT ![c] = @ + 1]
  /\ io' = [io EXCEPT ![c] = "lock"]
  /\ UNCHANGED <<mainVars, lockVars, appVars, asyncVars, cur, queue, heapVars, outcome, halted>>

NestedReturn(c) ==
  /\ Alive /\ io[c] = "layer" /\ nest[c] > 0
  /\ nest' = [nest EXCEPT ![c] = @ - 1]
  /\ UnlockOnce
  /\ UNCHANGED <<mainVars, layers, appVars, asyncVars, io, cur, queue, heapVars, outcome, halted>>

(* A layer's answer is the result of a sync request: leave doForLayer.       *)
AnswerSync(c) ==
  /\ Alive /\ io[c] = "layer" /\ nest[c] = 0 /\ Sync(c) /\ layers
  /\ outcome' = [outcome EXCEPT ![Req(c)] = "layer"]
  /\ UnlockOnce
  /\ io' = [io EXCEPT ![c] = "freeParam"]
  /\ UNCHANGED <<mainVars, layers, appVars, asyncVars, cur, nest, queue, heapVars, halted>>

(* An async request is answered by the callback, called under the lock.      *)
AnswerAsync(c) ==
  /\ Alive /\ io[c] = "layer" /\ nest[c] = 0 /\ ~Sync(c) /\ layers
  /\ outcome' = [outcome EXCEPT ![Req(c)] = "layer"]
  /\ io' = [io EXCEPT ![c] = "complete"]
  /\ UNCHANGED <<mainVars, lockVars, appVars, asyncVars, cur, nest, queue, heapVars, halted>>

(* processFSError: an error outside the caller's errorMask is fatal.         *)
AnswerFatal(c) ==
  /\ Alive /\ io[c] = "layer" /\ nest[c] = 0 /\ Req(c) \in Fragile /\ layers
  /\ OSFatal("fsError")

(* No layer answers: FS_ERROR_FORCE_REAL_FUNCTION.                           *)
AllPass(c) ==
  /\ Alive /\ io[c] = "layer" /\ nest[c] = 0
  /\ outcome' = [outcome EXCEPT ![Req(c)] = "real"]
  /\ UnlockOnce
  /\ io' = [io EXCEPT ![c] = IF Sync(c) THEN "freeParam" ELSE "real"]
  /\ UNCHANGED <<mainVars, layers, appVars, asyncVars, cur, nest, queue, heapVars, halted>>

(* handleAsyncResult: while (!OSSendMessage(...)).  While the application's  *)
(* queue is full the thread spins: the action waits.                         *)
SendCompletion(c) ==
  /\ AppHasRoom
  /\ appq' = Append(appq, Req(c))
  /\ block' = [block EXCEPT ![Req(c)] = "done"]

(* Without a queue nobody is told, and the block does not come back ...       *)
TellNobody(c) == Req(c) \in Careless /\ UNCHANGED asyncVars

(* ... and a callback beside a queue is fatal.                               *)
BothSet(c) ==
  /\ Alive /\ io[c] \in {"complete", "fake"} /\ Req(c) \in Careless
  /\ OSFatal("bothSet")

(* The callback has run: doForLayer returns FS_ERROR_OK.                     *)
AfterCallbackReal == "real"     \* mutant: FS_ERROR_FORCE_REAL_FUNCTION
AfterCallback     == "freeParam"

CompleteAsync(c) ==
  /\ Alive /\ io[c] = "complete"
  /\ SendCompletion(c) \/ TellNobody(c)
  /\ UnlockOnce
  /\ io' = [io EXCEPT ![c] = AfterCallback]
  /\ UNCHANGED <<mainVars, layers, appVars, cur, nest, queue, heapVars, outcome, halted>>

(* processShimBufferForFS submits the request to the real function: it has a  *)
(* case for each command that the FS functions prepare ...                   *)
AfterSubmitInverted(ok) == IF ok THEN "fake" ELSE "freeParam"   \* mutant
AfterSubmit(ok)         == IF ok THEN "freeParam" ELSE "fake"

SubmitReal(c) ==
  /\ Alive /\ io[c] = "real"
  /\ \E ok \in BOOLEAN :
       /\ io' = [io EXCEPT ![c] = AfterSubmit(ok)]
       /\ IF ok THEN /\ block' = [block EXCEPT ![Req(c)] = "os"]
                     /\ outcome' = [outcome EXCEPT ![Req(c)] = "real"]
                ELSE UNCHANGED <<block, outcome>>
  /\ UNCHANGED <<mainVars, lockVars, appVars, appq, cur, nest, queue, heapVars, halted>>

(* ... and when that fails completes it itself with FS_STATUS_MEDIA_ERROR.   *)
CompleteFake(c) ==
  /\ Alive /\ io[c] = "fake"
  /\ SendCompletion(c) \/ TellNobody(c)
  /\ io' = [io EXCEPT ![c] = "freeParam"]
  /\ UNCHANGED <<mainVars, lockVars, appVars, cur, nest, queue, heapVars, outcome, halted>>

(* free(param)                                                               *)
ParamAndMessage(c) == {cur[c]} \X Objects   \* mutant: frees the message too
ParamOf(c)         == {<<cur[c], "param">>}

FreeParam(c) ==
  /\ Alive /\ io[c] = "freeParam"
  /\ heap' = heap \ ParamOf(c)
  /\ io' = [io EXCEPT ![c] = IF Sync(c) THEN "reply" ELSE "freeMessage"]
  /\ UNCHANGED <<mainVars, lockVars, appVars, asyncVars, shim, of, reply, cur, nest,
                 queue, outcome, halted>>

SendReply(c) ==
  /\ Alive /\ io[c] = "reply"
  /\ reply' = [reply EXCEPT ![cur[c]] = outcome[Req(c)]]
  /\ cur' = [cur EXCEPT ![c] = Nil]
  /\ io' = [io EXCEPT ![c] = "recv"]
  /\ UNCHANGED <<mainVars, lockVars, appVars, asyncVars, heap, shim, of, nest,
                 queue, outcome, halted>>

FreeMessage(c) ==
  /\ Alive /\ io[c] = "freeMessage"
  /\ heap' = heap \ {<<cur[c], "message">>}
  /\ of' = [of EXCEPT ![cur[c]] = Nil]
  /\ cur' = [cur EXCEPT ![c] = Nil]
  /\ io' = [io EXCEPT ![c] = "recv"]
  /\ UNCHANGED <<mainVars, lockVars, appVars, asyncVars, shim, reply, nest,
                 queue, outcome, halted>>

-----------------------------------------------------------------------------
Main == \/ ApplicationStarts \/ CreateThread \/ CreateThreadFails
        \/ ThreadIsSetup \/ ThreadsStarted
        \/ ApplicationEnds \/ ClearFSLayer \/ SendStop \/ JoinThread
        \/ ThreadsStopped

AppThread(t) == \/ \E r \in {t} \cup Block : Wrap(t, r) \/ Skip(t, r)
                \/ WrapFails(t) \/ ReceiveReply(t) \/ CallReal(t)
                \/ \E c \in Core : Post(t, c) \/ PostFails(t, c)

IOThread(c) == \/ InitQueue(c) \/ ReceiveStop(c) \/ ReceiveCommand(c)
               \/ LockLayers(c) \/ NestedCall(c) \/ NestedReturn(c)
               \/ AnswerSync(c) \/ AnswerAsync(c) \/ AnswerFatal(c) \/ AllPass(c)
               \/ CompleteAsync(c) \/ SubmitReal(c) \/ CompleteFake(c) \/ BothSet(c)
               \/ FreeParam(c) \/ SendReply(c) \/ FreeMessage(c)

Next == \/ Main \/ CRApi \/ AppReceives
        \/ \E t \in App : AppThread(t)
        \/ \E b \in Block : OSCompletes(b)
        \/ \E c \in Core : IOThread(c)

Spec == Init /\ [][Next]_vars

(* Main, application and IO threads run when they can.  OSMutex hands over   *)
(* to the thread of highest priority that waits, in order of arrival, and    *)
(* all IO threads have priority 0, so none is passed over for ever (SF on     *)
(* LockLayers); a layer's handler makes finitely many calls of its own and   *)
(* then answers (SF on the answers); an application that takes completions   *)
(* between its own calls takes them again and again (SF on AppReceives).     *)
Fairness ==
  /\ WF_vars(CreateThread) /\ WF_vars(ThreadIsSetup) /\ WF_vars(ThreadsStarted)
  /\ WF_vars(ClearFSLayer) /\ WF_vars(SendStop) /\ WF_vars(JoinThread)
  /\ WF_vars(ThreadsStopped)
  /\ SF_vars(AppReceives)
  /\ \A t \in App : /\ WF_vars(\E c \in Core : Post(t, c))
                    /\ WF_vars(ReceiveReply(t)) /\ WF_vars(CallReal(t))
  /\ \A b \in Block : WF_vars(OSCompletes(b))
  /\ \A c \in Core : /\ WF_vars(IOThread(c)) /\ SF_vars(LockLayers(c))
                     /\ SF_vars(AnswerSync(c) \/ AnswerAsync(c) \/ AllPass(c))

FairSpec == Spec /\ Fairness

-----------------------------------------------------------------------------
(* The types: threads are at a point of their code, queues hold messages.    *)
TypeOK ==
  /\ phase \in {"off", "create", "resumed", "run", "clear", "stop", "join"}
  /\ coreId \in 0 .. NCores /\ lives \in 0 .. MaxLives
  /\ gThreadsRunning \in BOOLEAN
  /\ setup \in [Core -> BOOLEAN] /\ inited \in [Core -> BOOLEAN]
  /\ queue \in [Core -> Seq(Ptr \cup {STOP})]
  /\ io \in [Core -> {"none", "init", "recv", "lock", "layer", "complete", "real",
                      "fake", "freeParam", "reply", "freeMessage", "exited"}]
  /\ cur \in [Core -> Ptr \cup {Nil}]
  /\ nest \in [Core -> 0 .. MaxNest]
  /\ holder \in Core \cup {Nil} /\ depth \in 0 .. MaxNest + 1 /\ layers \in BOOLEAN
  /\ pc \in [App -> {"idle", "post", "wait", "real"}]
  /\ sub \in [App -> Request \cup {Nil}] /\ msg \in [App -> Ptr \cup {Nil}]
  /\ block \in [Block -> {"app", "module", "os", "done"}]
  /\ appq \in Seq(Block)
  /\ heap \subseteq Ptr \X Objects /\ shim \subseteq App
  /\ of \in [Ptr -> Request \cup {Nil}]
  /\ reply \in [Ptr -> {Nil, "layer", "real"}]
  /\ outcome \in [Request -> {Nil, "layer", "real"}]
  /\ halted \in {"no", "noMemory", "notSetup", "queueFull", "fsError", "bothSet"}

(* Where a message can be: held by the thread that posts it, in a queue, at   *)
(* an IO thread.                                                             *)
Posting(t, p) == pc[t] = "post" /\ msg[t] = p
Queued(c, p)  == \E i \in 1 .. Len(queue[c]) : queue[c][i] = p
Serving(c, p) == cur[c] = p

(* The objects an IO thread still uses, by the point it has reached.         *)
Uses(c) == IF io[c] \in {"reply", "freeMessage"} THEN {"message"} ELSE Objects

(* No use after free and no double free: whoever is going to dereference or  *)
(* free a param, a message or a shim buffer finds it allocated.  ("param is  *)
(* free'd at this point", "param has already been free'd by the other        *)
(* thread", "If it's async we need to clean up message".)                    *)
NoUseAfterFree ==
  /\ \A t \in App : /\ pc[t] = "post" => {msg[t]} \X Objects \subseteq heap
                    /\ pc[t] = "wait" => <<msg[t], "message">> \in heap /\ t \in shim
  /\ \A c \in Core :
       /\ \A i \in 1 .. Len(queue[c]) :
            queue[c][i] # STOP => {queue[c][i]} \X Objects \subseteq heap
       /\ cur[c] # Nil => /\ {cur[c]} \X Uses(c) \subseteq heap
                          /\ Sync(c) => Req(c) \in shim

(* A message is in one place only: no two IO threads process it, and it is   *)
(* not posted again, or handed out by malloc again, while queued or served.  *)
SingleOwner ==
  \A p \in Ptr :
    /\ \A t, u \in App : msg[t] = p /\ msg[u] = p => t = u
    /\ \A c, d \in Core :
         /\ Serving(c, p) /\ Serving(d, p) => c = d
         /\ ~(Serving(c, p) /\ Queued(d, p))
         /\ \A i \in 1 .. Len(queue[c]), j \in 1 .. Len(queue[d]) :
              queue[c][i] = p /\ queue[d][j] = p => c = d /\ i = j
    /\ \A t \in App, c \in Core : Posting(t, p) => ~Serving(c, p) /\ ~Queued(c, p)

(* The application may reuse a command block once it has its completion: the *)
(* IO thread touches the block (the request, the async result) only while    *)
(* the module owns it, no two messages are about a block it owns, and a      *)
(* completion is queued exactly once.                                        *)
BlockOwnership ==
  /\ \A c \in Core :
       /\ cur[c] # Nil /\ Req(c) \in Block
       /\ io[c] \in {"lock", "layer", "complete", "real", "fake"}
       => /\ block[Req(c)] = "module"
          /\ \A d \in Core \ {c} : cur[d] # Nil /\ Req(d) = Req(c)
                                   => io[d] \in {"freeParam", "freeMessage"}
  /\ \A b \in Block :
       Cardinality({i \in 1 .. Len(appq) : appq[i] = b}) = IF block[b] = "done" THEN 1 ELSE 0

(* fsLayerMutex is held exactly while a request is inside doForLayer, as     *)
(* often as calls are nested, and never across a wait for the next message,  *)
(* the real function or the exit of the thread.                              *)
InLayers(c) == io[c] \in {"layer", "complete"}
LockDiscipline ==
  \A c \in Core :
    /\ InLayers(c) => holder = c /\ depth = nest[c] + 1
    /\ io[c] = "lock" => (nest[c] > 0 <=> holder = c) /\ (holder = c => depth = nest[c])
    /\ ~InLayers(c) /\ io[c] # "lock" => holder # c /\ nest[c] = 0

(* The answer a sync caller receives is the decision about its own request,  *)
(* and it still waits for it: a late answer never reaches a later call.      *)
ReplyIsMine ==
  \A p \in Ptr : reply[p] # Nil =>
    \E t \in App : /\ pc[t] = "wait" /\ msg[t] = p /\ reply[p] = outcome[t]
                   /\ \A c \in Core : ~Serving(c, p) /\ ~Queued(c, p)

(* The inductive invariant behind the theorems of FSIOThreads_proofs.  Its      *)
(* first part: a core has an IO thread only where the two loops of the main    *)
(* thread say so; the mutex is free when nobody holds it.                      *)
NoThread(c) == \/ phase = "off"
               \/ phase = "create" /\ c >= coreId
               \/ phase = "resumed" /\ c > coreId
               \/ phase \in {"stop", "join"} /\ c < coreId
Phases == /\ phase \in {"resumed", "join"} => coreId \in Core
          /\ \A c \in Core : NoThread(c) => io[c] = "none"
MutexFree == /\ holder = Nil => depth = 0
             /\ \A c \in Core : io[c] = "complete" => nest[c] = 0

(* Its second part: a message names the request it was made for as long as it  *)
(* is on its way, and the caller of a sync one waits with that very message.   *)
Awaited(p) == of[p] \in App => pc[of[p]] = "wait" /\ msg[of[p]] = p
InFlight(p) == of[p] # Nil /\ Awaited(p)

CallerOwns ==
  \A t \in App :
    /\ pc[t] \in {"post", "wait"} <=> msg[t] # Nil
    /\ pc[t] = "post" => /\ sub[t] \in {t} \cup Block /\ of[msg[t]] = sub[t]
                         /\ sub[t] = t => t \in shim
                         /\ {msg[t]} \X Objects \subseteq heap
    /\ pc[t] = "wait" => /\ of[msg[t]] = t /\ t \in shim
                         /\ <<msg[t], "message">> \in heap
QueueOwns ==
  \A c \in Core : \A i \in 1 .. Len(queue[c]) :
    queue[c][i] # STOP => /\ InFlight(queue[c][i])
                          /\ {queue[c][i]} \X Objects \subseteq heap
IOThreadOwns ==
  \A c \in Core :
    /\ cur[c] = Nil <=> io[c] \in {"none", "init", "recv", "exited"}
    /\ cur[c] # Nil => InFlight(cur[c]) /\ {cur[c]} \X Uses(c) \subseteq heap
    /\ io[c] \in {"complete", "real", "fake", "freeMessage"} => Req(c) \in Block
    /\ io[c] = "reply" => Req(c) \in App

MessageInv == /\ TypeOK /\ Phases /\ MutexFree /\ LockDiscipline
              /\ CallerOwns /\ QueueOwns /\ IOThreadOwns /\ SingleOwner /\ ReplyIsMine

(* Its third part: a request that is not decided or not handed over yet has     *)
(* one carrier, a message on its way or the thread that calls the real function. *)
Undecided(c) == io[c] \in {"lock", "layer"}
Carries(c)   == io[c] \in {"lock", "layer", "complete", "real", "fake"}
Waiting(p)   == (\E t \in App : Posting(t, p)) \/ (\E c \in Core : Queued(c, p))
Fresh(p)     == Waiting(p) \/ \E c \in Core : Serving(c, p) /\ Undecided(c)
Carried(p)   == Waiting(p) \/ \E c \in Core : Serving(c, p) /\ Carries(c)

OneCarrier ==
  \A p \in Ptr : Carried(p) =>
    /\ of[p] \in Block => block[of[p]] = "module"
    /\ \A q \in Ptr : Carried(q) /\ of[q] = of[p] => q = p
    /\ \A t \in App : pc[t] = "real" => sub[t] # of[p]
RealOwns ==
  \A t \in App :
    /\ pc[t] = "wait" => sub[t] = t
    /\ pc[t] = "real" =>
         /\ sub[t] \in {t} \cup Block /\ outcome[sub[t]] = "real"
         /\ sub[t] \in Block => block[sub[t]] = "module"
         /\ \A u \in App : pc[u] = "real" /\ sub[u] = sub[t] => u = t
Stages ==
  /\ \A p \in Ptr : Fresh(p) => outcome[of[p]] = Nil
  /\ \A c \in Core : /\ io[c] = "complete" => outcome[Req(c)] = "layer"
                     /\ io[c] \in {"real", "fake"} => outcome[Req(c)] = "real"
  /\ \A b \in Block : block[b] \in {"os", "done"} => outcome[b] # Nil
Completions ==
  /\ \A i, j \in 1 .. Len(appq) : appq[i] = appq[j] => i = j
  /\ \A b \in Block : block[b] = "done" <=> \E i \in 1 .. Len(appq) : appq[i] = b

SlotInv == OneCarrier /\ RealOwns /\ Stages /\ Completions

IInv == MessageInv /\ SlotInv

(* The STOP is queued behind every request, so a thread that has been        *)
(* joined leaves none behind, when the application is quiet as it ends.      *)
DrainedAtExit ==
  \A c \in Core : io[c] \in {"exited", "none"} => queue[c] = <<>> /\ cur[c] = Nil

(* Neither a full nor a missing IO queue is met (sendMessageToThread ends in *)
(* OSFatal for both) as long as the slots of all callers fit one queue.      *)
NoQueueFatal == halted \notin {"queueFull", "notSetup"}

(* The IO thread never spins on the application's queue while it owns the     *)
(* lock everyone else needs, when the queue has room for every block.        *)
NoSpinUnderLock == \A c \in Core : io[c] = "complete" => AppHasRoom

(* "the other thread is call free for us, so we can return early!": a message *)
(* that was posted, and its param, are freed some day.                       *)
OtherThreadFrees ==
  \A p \in Ptr : (\E c \in Core : Queued(c, p)) ~> <<p, "param">> \notin heap

(* stopFSIOThreads returns: each STOP is received and each thread joined.    *)
StopTerminates == (phase = "clear") ~> (phase = "off")

(* What a caller sees of its request: a slot is idle before and after a call. *)
Decided(r) == IF outcome[r] = Nil THEN "pending" ELSE outcome[r]
Status(r) ==
  IF r \in Block
  THEN IF block[r] = "app" THEN "idle" ELSE Decided(r)
  ELSE IF pc[r] = "idle" \/ (pc[r] \in {"post", "real"} /\ sub[r] # r)
       THEN "idle" ELSE Decided(r)
ServiceState == [r \in Request |-> Status(r)]

Service == INSTANCE RequestService WITH st <- ServiceState

(* The threads, queues and replies implement the service they promise: a       *)
(* request is decided once and returned once.                                *)
ImplementsService == Service!Spec

(* ... and no request that was submitted is forgotten.                        *)
ServiceProgress == Service!LiveSpec

=============================================================================
