------------------------ MODULE FSIOThreads_proofs ------------------------
(***************************************************************************)
(* Proofs about FSIOThreads for any number of cores, threads, blocks and    *)
(* addresses, any queue capacity and any allocator.  MessageInv is          *)
(* inductive: the type invariant, the lock discipline and the ownership of   *)
(* messages follow.  SlotInv is inductive beside it: a command block is used *)
(* by its owner only, and the threads implement RequestService.  Last, the   *)
(* queues of an application that ends after its requests: what is left in    *)
(* them and when they are long enough.                                      *)
(***************************************************************************)
EXTENDS FSIOThreads, SequenceTheorems, FiniteSetTheorems, TLAPS

(* Append, as sendMessageToThread and stopFSIOThreads use it.               *)
LEMMA AppendFacts ==
  ASSUME NEW S, NEW s \in Seq(S), NEW e \in S
  PROVE  /\ Append(s, e) \in Seq(S)
         /\ Len(s) \in Nat
         /\ Len(Append(s, e)) = Len(s) + 1
         /\ \A i \in 1 .. Len(s) : Append(s, e)[i] = s[i]
         /\ Append(s, e)[Len(s) + 1] = e
BY AppendProperties

(* OSReceiveMessage takes the first message and moves the others up.        *)
LEMMA TakeFacts ==
  ASSUME NEW S, NEW s \in Seq(S), s # <<>>
  PROVE  /\ Tail(s) \in Seq(S)
         /\ Len(s) \in Nat /\ Len(s) > 0
         /\ Head(s) \in S /\ Head(s) = s[1]
         /\ Len(Tail(s)) = Len(s) - 1
         /\ \A i \in 1 .. Len(Tail(s)) : Tail(s)[i] = s[i + 1]
BY HeadTailProperties, EmptySeq

(* MessageInv in the parts that the steps disturb separately; what is Boolean *)
(* is kept apart from the rest of the types.                                 *)
TypeBool ==
  /\ gThreadsRunning \in BOOLEAN /\ layers \in BOOLEAN
  /\ setup \in [Core -> BOOLEAN] /\ inited \in [Core -> BOOLEAN]
TypeMain ==
  /\ phase \in {"off", "create", "resumed", "run", "clear", "stop", "join"}
  /\ coreId \in 0 .. NCores /\ lives \in 0 .. MaxLives
  /\ io \in [Core -> {"none", "init", "recv", "lock", "layer", "complete", "real",
                      "fake", "freeParam", "reply", "freeMessage", "exited"}]
  /\ cur \in [Core -> Ptr \cup {Nil}]
  /\ nest \in [Core -> 0 .. MaxNest]
  /\ holder \in Core \cup {Nil} /\ depth \in 0 .. MaxNest + 1
TypeCaller ==
  /\ pc \in [App -> {"idle", "post", "wait", "real"}]
  /\ sub \in [App -> Request \cup {Nil}] /\ msg \in [App -> Ptr \cup {Nil}]
  /\ heap \subseteq Ptr \X Objects /\ shim \subseteq App
  /\ of \in [Ptr -> Request \cup {Nil}]
  /\ reply \in [Ptr -> {Nil, "layer", "real"}]
  /\ outcome \in [Request -> {Nil, "layer", "real"}]
TypeQueue == queue \in [Core -> Seq(Ptr \cup {STOP})]
TypeAsync ==
  /\ block \in [Block -> {"app", "module", "os", "done"}]
  /\ appq \in Seq(Block)
  /\ halted \in {"no", "noMemory", "notSetup", "queueFull", "fsError", "bothSet"}
Locks == MutexFree /\ LockDiscipline

Parts == /\ TypeBool /\ TypeMain /\ TypeCaller /\ TypeQueue /\ TypeAsync
         /\ Phases /\ Locks
         /\ CallerOwns /\ QueueOwns /\ IOThreadOwns /\ SingleOwner /\ ReplyIsMine

(* MessageInv is the conjunction of these parts.                             *)
LEMMA MessageParts == MessageInv <=> Parts
BY DEF MessageInv, Parts, TypeOK, TypeBool, TypeMain, TypeCaller, TypeQueue, TypeAsync, Locks

USE DEF mainVars, lockVars, appVars, asyncVars, heapVars, ioVars, Parts

(* A part is kept by every step that leaves its variables alone.              *)
LEMMA Frame ==
  /\ TypeBool /\ UNCHANGED <<gThreadsRunning, setup, inited, layers>> => TypeBool'
  /\ TypeMain /\ UNCHANGED <<phase, coreId, lives, io, cur, nest, holder, depth>> => TypeMain'
  /\ TypeCaller /\ UNCHANGED <<pc, sub, msg, heap, shim, of, reply, outcome>> => TypeCaller'
  /\ TypeQueue /\ UNCHANGED <<queue>> => TypeQueue'
  /\ TypeAsync /\ UNCHANGED <<block, appq, halted>> => TypeAsync'
  /\ Phases /\ UNCHANGED <<phase, coreId, io>> => Phases'
  /\ Locks /\ UNCHANGED <<holder, depth, io, nest>> => Locks'
  /\ CallerOwns /\ UNCHANGED <<pc, msg, sub, of, shim, heap>> => CallerOwns'
  /\ QueueOwns /\ UNCHANGED <<queue, of, pc, msg, heap>> => QueueOwns'
  /\ IOThreadOwns /\ UNCHANGED <<cur, io, of, pc, msg, heap>> => IOThreadOwns'
  /\ SingleOwner /\ UNCHANGED <<msg, cur, queue, pc>> => SingleOwner'
  /\ ReplyIsMine /\ UNCHANGED <<reply, pc, msg, outcome, cur, queue>> => ReplyIsMine'
<1>1. TypeBool /\ UNCHANGED <<gThreadsRunning, setup, inited, layers>> => TypeBool'
  BY DEF TypeBool
<1>2. TypeMain /\ UNCHANGED <<phase, coreId, lives, io, cur, nest, holder, depth>> => TypeMain'
  BY DEF TypeMain
<1>3. TypeCaller /\ UNCHANGED <<pc, sub, msg, heap, shim, of, reply, outcome>> => TypeCaller'
  BY DEF TypeCaller
<1>4. TypeQueue /\ UNCHANGED <<queue>> => TypeQueue'
  BY DEF TypeQueue
<1>5. TypeAsync /\ UNCHANGED <<block, appq, halted>> => TypeAsync'
  BY DEF TypeAsync
<1>6. Phases /\ UNCHANGED <<phase, coreId, io>> => Phases'
  BY DEF Phases, NoThread
<1>7. Locks /\ UNCHANGED <<holder, depth, io, nest>> => Locks'
  BY DEF Locks, MutexFree, LockDiscipline, InLayers
<1>8. CallerOwns /\ UNCHANGED <<pc, msg, sub, of, shim, heap>> => CallerOwns'
  BY DEF CallerOwns
<1>9. QueueOwns /\ UNCHANGED <<queue, of, pc, msg, heap>> => QueueOwns'
  BY DEF QueueOwns, InFlight, Awaited
<1>10. IOThreadOwns /\ UNCHANGED <<cur, io, of, pc, msg, heap>> => IOThreadOwns'
  BY DEF IOThreadOwns, InFlight, Awaited, Uses, Req
<1>11. SingleOwner /\ UNCHANGED <<msg, cur, queue, pc>> => SingleOwner'
  BY DEF SingleOwner, Serving, Queued, Posting
<1>12. ReplyIsMine /\ UNCHANGED <<reply, pc, msg, outcome, cur, queue>> => ReplyIsMine'
  BY DEF ReplyIsMine, Serving, Queued
<1> QED
  BY <1>1, <1>2, <1>3, <1>4, <1>5, <1>6, <1>7, <1>8, <1>9, <1>10, <1>11, <1>12

(* An answer on its way stays right while its caller waits and the decision   *)
(* about its request stands.                                                 *)
LEMMA ReplyFrame ==
  ASSUME ReplyIsMine, UNCHANGED <<reply, msg, cur, queue>>,
         \A u \in App : pc[u] = "wait" => pc'[u] = "wait" /\ outcome'[u] = outcome[u]
  PROVE  ReplyIsMine'
BY DEF ReplyIsMine, Serving, Queued

(* ... also when a decision is taken about another request: the one of the     *)
(* message that IO thread c processes, which is not answered yet.            *)
LEMMA DecideFrame ==
  ASSUME Parts, NEW c \in Core, cur[c] # Nil, NEW d,
         outcome' = [outcome EXCEPT ![Req(c)] = d],
         UNCHANGED <<reply, pc, msg, cur, queue>>
  PROVE  ReplyIsMine'
<1>1. SUFFICES ASSUME NEW p \in Ptr, reply[p] # Nil,
                      NEW t \in App, pc[t] = "wait", msg[t] = p, reply[p] = outcome[t],
                      \A e \in Core : ~Serving(e, p) /\ ~Queued(e, p)
               PROVE  outcome'[t] = outcome[t]
  BY DEF ReplyIsMine, Serving, Queued
<1>2. Req(c) # t
  BY <1>1 DEF IOThreadOwns, InFlight, Awaited, Req, Serving
<1> QED
  BY <1>2, SlotAssumption DEF TypeCaller, Request

(* An IO thread goes on with its message, whose objects it finds allocated.    *)
LEMMA IOMove ==
  ASSUME Parts, NEW c \in Core, cur[c] # Nil, NEW x,
         io' = [io EXCEPT ![c] = x],
         x \notin {"none", "init", "recv", "exited"},
         io[c] \in {"reply", "freeMessage"} => x \in {"reply", "freeMessage"},
         x \in {"complete", "real", "fake", "freeMessage"} => Req(c) \in Block,
         x = "reply" => Req(c) \in App,
         UNCHANGED <<cur, of, pc, msg, heap>>
  PROVE  IOThreadOwns'
<1>1. \A e \in Core : io'[e] = IF e = c THEN x ELSE io[e]
  BY DEF TypeMain
<1>2. \A e \in Core : Uses(e)' \subseteq Uses(e)
  BY <1>1 DEF Uses, Objects
<1> QED
  BY <1>1, <1>2 DEF IOThreadOwns, InFlight, Awaited, Req

(* Leaving doForLayer: the lock_guard of an outermost call frees the mutex.    *)
LEMMA LeaveLayers ==
  ASSUME Parts, NEW c \in Core, InLayers(c), nest[c] = 0, UnlockOnce,
         NEW x, x \notin {"lock", "layer", "complete"},
         io' = [io EXCEPT ![c] = x], nest' = nest
  PROVE  holder' = Nil /\ depth' = 0 /\ Locks'
<1>1. holder = c /\ depth = 1
  BY DEF Locks, LockDiscipline, TypeMain
<1>2. holder' = Nil /\ depth' = 0
  BY <1>1 DEF UnlockOnce
<1>3. \A e \in Core : io'[e] = IF e = c THEN x ELSE io[e]
  BY DEF TypeMain
<1> QED
  BY <1>1, <1>2, <1>3, CoreAssumption, SlotAssumption
     DEF Locks, MutexFree, LockDiscipline, InLayers, TypeMain, Core

(* A message that is put into a queue is its last, and changes no other.      *)
Put(c, e) == queue' = [queue EXCEPT ![c] = Append(@, e)]

(* A put appends one element to one queue, which stays a queue of messages.  *)
LEMMA PutFacts ==
  ASSUME TypeQueue, NEW c \in Core, NEW e \in Ptr \cup {STOP}, Put(c, e)
  PROVE  /\ TypeQueue'
         /\ \A d \in Core : Len(queue[d]) \in Nat
         /\ \A d \in Core \ {c} : queue'[d] = queue[d]
         /\ Len(queue'[c]) = Len(queue[c]) + 1
         /\ \A i \in 1 .. Len(queue[c]) : queue'[c][i] = queue[c][i]
         /\ queue'[c][Len(queue[c]) + 1] = e
<1>1. queue[c] \in Seq(Ptr \cup {STOP})
  BY DEF TypeQueue
<1>2. Append(queue[c], e) \in Seq(Ptr \cup {STOP})
  BY <1>1, AppendFacts
<1>3. /\ queue'[c] = Append(queue[c], e)
      /\ \A d \in Core \ {c} : queue'[d] = queue[d]
  BY DEF TypeQueue, Put
<1>4. TypeQueue'
  BY <1>2 DEF TypeQueue, Put
<1>5. \A d \in Core : Len(queue[d]) \in Nat
  BY LenProperties DEF TypeQueue
<1> QED
  BY <1>1, <1>3, <1>4, <1>5, AppendFacts

(* After a put, what is queued was queued before or is the new element.      *)
LEMMA PutPlaces ==
  ASSUME TypeQueue, NEW c \in Core, NEW e \in Ptr \cup {STOP}, Put(c, e)
  PROVE  /\ \A d \in Core : \A i \in 1 .. Len(queue'[d]) :
              \/ i \in 1 .. Len(queue[d]) /\ queue'[d][i] = queue[d][i]
              \/ d = c /\ i = Len(queue[c]) + 1 /\ queue'[d][i] = e
         /\ \A d \in Core, p \in Ptr : Queued(d, p)' => Queued(d, p) \/ (d = c /\ p = e)
<1>1. \A d \in Core : \A i \in 1 .. Len(queue'[d]) :
        \/ i \in 1 .. Len(queue[d]) /\ queue'[d][i] = queue[d][i]
        \/ d = c /\ i = Len(queue[c]) + 1 /\ queue'[d][i] = e
  <2>1. \A d \in Core \ {c} : queue'[d] = queue[d]
    BY PutFacts
  <2>2. \A i \in 1 .. Len(queue'[c]) : \/ i \in 1 .. Len(queue[c]) 
                                       \/ i = Len(queue[c]) + 1
    BY PutFacts
  <2> QED
    BY <2>1, <2>2, PutFacts
<1>2. ASSUME NEW d \in Core, NEW p \in Ptr, Queued(d, p)'
      PROVE  Queued(d, p) \/ (d = c /\ p = e)
  <2>1. PICK i \in 1 .. Len(queue'[d]) : queue'[d][i] = p
    BY <1>2 DEF Queued
  <2> QED
    BY <1>1, <2>1 DEF Queued
<1> QED
  BY <1>1, <1>2

(* The first message is taken from a queue, and no other.                     *)
Take(c) == queue[c] # <<>> /\ queue' = [queue EXCEPT ![c] = Tail(@)]

(* A take removes the first element of one queue and moves the others up.    *)
LEMMA TakenFacts ==
  ASSUME TypeQueue, NEW c \in Core, Take(c)
  PROVE  /\ TypeQueue'
         /\ Head(queue[c]) \in Ptr \cup {STOP}
         /\ 1 \in 1 .. Len(queue[c]) /\ queue[c][1] = Head(queue[c])
         /\ \A d \in Core : Len(queue[d]) \in Nat
         /\ \A d \in Core \ {c} : queue'[d] = queue[d]
         /\ Len(queue'[c]) = Len(queue[c]) - 1
         /\ \A i \in 1 .. Len(queue'[c]) : queue'[c][i] = queue[c][i + 1]
<1>1. queue[c] \in Seq(Ptr \cup {STOP}) /\ queue[c] # <<>>
  BY DEF TypeQueue, Take
<1>2. Tail(queue[c]) \in Seq(Ptr \cup {STOP})
  BY <1>1, TakeFacts
<1>3. /\ queue'[c] = Tail(queue[c])
      /\ \A d \in Core \ {c} : queue'[d] = queue[d]
  BY DEF TypeQueue, Take
<1>4. TypeQueue'
  BY <1>2 DEF TypeQueue, Take
<1>5. \A d \in Core : Len(queue[d]) \in Nat
  BY LenProperties DEF TypeQueue
<1> QED
  BY <1>1, <1>3, <1>4, <1>5, TakeFacts

(* After a take, what is queued was queued before.                           *)
LEMMA TakenPlaces ==
  ASSUME TypeQueue, NEW c \in Core, Take(c)
  PROVE  /\ \A d \in Core : \A i \in 1 .. Len(queue'[d]) :
              \/ d # c /\ i \in 1 .. Len(queue[d]) /\ queue'[d][i] = queue[d][i]
              \/ d = c /\ i + 1 \in 1 .. Len(queue[c]) /\ i + 1 # 1
                 /\ queue'[d][i] = queue[d][i + 1]
         /\ \A d \in Core, p \in Ptr : Queued(d, p)' => Queued(d, p)
<1>1. \A d \in Core : \A i \in 1 .. Len(queue'[d]) :
        \/ d # c /\ i \in 1 .. Len(queue[d]) /\ queue'[d][i] = queue[d][i]
        \/ d = c /\ i + 1 \in 1 .. Len(queue[c]) /\ i + 1 # 1
           /\ queue'[d][i] = queue[d][i + 1]
  BY SMTT(30), TakenFacts
<1> QED
  BY <1>1 DEF Queued

(* Initially no message exists and nobody owns anything.                     *)
LEMMA InitMessages == Init => MessageInv
<1> SUFFICES ASSUME Init PROVE Parts
  BY MessageParts
<1> USE CoreAssumption, BoundAssumption, SlotAssumption DEF Core
<1>1. TypeBool
  BY Zenon DEF Init, TypeBool
<1>2. TypeMain
  BY DEF Init, TypeMain
<1>3. TypeCaller
  BY DEF Init, TypeCaller, Request
<1>4. TypeQueue /\ TypeAsync
  BY EmptySeq DEF Init, TypeQueue, TypeAsync
<1>5. Phases /\ Locks
  BY DEF Init, Phases, NoThread, Locks, MutexFree, LockDiscipline, InLayers
<1>6. CallerOwns /\ QueueOwns
  BY DEF Init, CallerOwns, QueueOwns
<1>7. IOThreadOwns
  BY DEF Init, IOThreadOwns, Req
<1>8. SingleOwner
  BY DEF Init, SingleOwner, Serving, Queued, Posting
<1>9. ReplyIsMine
  BY DEF Init, ReplyIsMine
<1> QED
  BY <1>1, <1>2, <1>3, <1>4, <1>5, <1>6, <1>7, <1>8, <1>9

-----------------------------------------------------------------------------
(* The main thread's steps.                                                   *)

LEMMA FatalStep ==
  ASSUME Parts, NEW why \in {"noMemory", "notSetup", "queueFull", "fsError", "bothSet"}, OSFatal(why)
  PROVE  Parts'
<1>1. TypeAsync'
  BY DEF OSFatal, TypeAsync
<1>2. /\ TypeBool' /\ TypeMain' /\ TypeCaller' /\ TypeQueue' /\ Phases' /\ Locks'
      /\ CallerOwns' /\ QueueOwns' /\ IOThreadOwns' /\ SingleOwner' /\ ReplyIsMine'
  BY Frame DEF OSFatal
<1> QED
  BY <1>1, <1>2

(* The start of an application only moves the main thread.                   *)
LEMMA ApplicationStartsStep ==
  ASSUME Parts, ApplicationStarts
  PROVE  Parts'
<1>1. TypeMain' /\ Phases'
  BY CoreAssumption, BoundAssumption DEF ApplicationStarts, TypeMain, Phases, NoThread, Core
<1>2. /\ TypeBool' /\ TypeCaller' /\ TypeQueue' /\ TypeAsync' /\ Locks' /\ CallerOwns'
      /\ QueueOwns' /\ IOThreadOwns' /\ SingleOwner' /\ ReplyIsMine'
  BY Frame DEF ApplicationStarts
<1> QED
  BY <1>1, <1>2

(* A core gets its thread, with an empty queue, where it had none.           *)
LEMMA CreateThreadStep ==
  ASSUME Parts, CreateThread
  PROVE  Parts'
<1>1. io[coreId] = "none" /\ coreId \in Nat
  BY CoreAssumption DEF CreateThread, Phases, NoThread, Core
<1>2. TypeBool'
  BY DEF CreateThread, TypeBool
<1>3. TypeMain' /\ Locks'
  BY <1>1, CoreAssumption, SlotAssumption
     DEF CreateThread, TypeMain, Locks, MutexFree, LockDiscipline, InLayers, Core
<1>4. TypeQueue'
  BY EmptySeq DEF CreateThread, TypeQueue
<1>5. Phases'
  BY CoreAssumption DEF CreateThread, TypeMain, Phases, NoThread, Core
<1>6. \A c \in Core : queue'[c] = IF c = coreId THEN <<>> ELSE queue[c]
  BY DEF CreateThread, TypeQueue
<1>7. QueueOwns'
  BY <1>6, EmptySeq DEF CreateThread, QueueOwns, InFlight, Awaited
<1>8. IOThreadOwns'
  BY <1>1 DEF CreateThread, TypeMain, IOThreadOwns, InFlight, Awaited, Uses, Req
<1>9. SingleOwner'
  BY <1>6, EmptySeq DEF CreateThread, SingleOwner, Serving, Queued, Posting
<1>10. ReplyIsMine'
  BY <1>6, EmptySeq DEF CreateThread, ReplyIsMine, Serving, Queued
<1>11. TypeCaller' /\ TypeAsync' /\ CallerOwns'
  BY Frame DEF CreateThread
<1> QED
  BY <1>1, <1>2, <1>3, <1>4, <1>5, <1>6, <1>7, <1>8, <1>9, <1>10, <1>11

(* startFSIOThreads goes on to the next core.                                *)
LEMMA ThreadIsSetupStep ==
  ASSUME Parts, ThreadIsSetup
  PROVE  Parts'
<1>1. TypeBool'
  BY DEF ThreadIsSetup, TypeBool
<1>2. TypeMain' /\ Phases'
  BY CoreAssumption DEF ThreadIsSetup, TypeMain, Phases, NoThread, Core
<1>3. /\ TypeCaller' /\ TypeQueue' /\ TypeAsync' /\ Locks' /\ CallerOwns' /\ QueueOwns'
      /\ IOThreadOwns' /\ SingleOwner' /\ ReplyIsMine'
  BY Frame DEF ThreadIsSetup
<1> QED
  BY <1>1, <1>2, <1>3

(* All threads exist: gThreadsRunning is set.                                *)
LEMMA ThreadsStartedStep ==
  ASSUME Parts, ThreadsStarted
  PROVE  Parts'
<1>1. TypeBool'
  BY DEF ThreadsStarted, TypeBool
<1>2. TypeMain' /\ Phases'
  BY DEF ThreadsStarted, TypeMain, Phases, NoThread
<1>3. /\ TypeCaller' /\ TypeQueue' /\ TypeAsync' /\ Locks' /\ CallerOwns' /\ QueueOwns'
      /\ IOThreadOwns' /\ SingleOwner' /\ ReplyIsMine'
  BY Frame DEF ThreadsStarted
<1> QED
  BY <1>1, <1>2, <1>3

(* The end of an application only moves the main thread.                     *)
LEMMA ApplicationEndsStep ==
  ASSUME Parts, ApplicationEnds
  PROVE  Parts'
<1>1. TypeMain' /\ Phases'
  BY DEF ApplicationEnds, TypeMain, Phases, NoThread
<1>2. /\ TypeBool' /\ TypeCaller' /\ TypeQueue' /\ TypeAsync' /\ Locks' /\ CallerOwns'
      /\ QueueOwns' /\ IOThreadOwns' /\ SingleOwner' /\ ReplyIsMine'
  BY Frame DEF ApplicationEnds
<1> QED
  BY <1>1, <1>2

(* clearFSLayer empties fsLayers while nobody holds the lock.                *)
LEMMA ClearFSLayerStep ==
  ASSUME Parts, ClearFSLayer
  PROVE  Parts'
<1>1. TypeBool'
  BY DEF ClearFSLayer, TypeBool
<1>2. TypeMain' /\ Phases'
  BY CoreAssumption DEF ClearFSLayer, TypeMain, Phases, NoThread, Core
<1>3. /\ TypeCaller' /\ TypeQueue' /\ TypeAsync' /\ Locks' /\ CallerOwns' /\ QueueOwns'
      /\ IOThreadOwns' /\ SingleOwner' /\ ReplyIsMine'
  BY Frame DEF ClearFSLayer
<1> QED
  BY <1>1, <1>2, <1>3

(* A joined thread had exited and owned no message.                          *)
LEMMA JoinThreadStep ==
  ASSUME Parts, JoinThread
  PROVE  Parts'
<1>1. TypeMain' /\ Locks'
  BY CoreAssumption, SlotAssumption
     DEF JoinThread, TypeMain, Phases, Locks, MutexFree, LockDiscipline, InLayers, Core
<1>2. Phases'
  BY CoreAssumption DEF JoinThread, TypeMain, Phases, NoThread, Core
<1>3. IOThreadOwns'
  BY DEF JoinThread, Phases, TypeMain, IOThreadOwns, InFlight, Awaited, Uses, Req
<1>4. /\ TypeBool' /\ TypeCaller' /\ TypeQueue' /\ TypeAsync' /\ CallerOwns' /\ QueueOwns'
      /\ SingleOwner' /\ ReplyIsMine'
  BY Frame DEF JoinThread
<1> QED
  BY <1>1, <1>2, <1>3, <1>4

(* Every thread has been joined: gThreadsRunning is cleared.                 *)
LEMMA ThreadsStoppedStep ==
  ASSUME Parts, ThreadsStopped
  PROVE  Parts'
<1>1. TypeBool'
  BY DEF ThreadsStopped, TypeBool
<1>2. TypeMain' /\ Phases'
  BY CoreAssumption DEF ThreadsStopped, TypeMain, Phases, NoThread, Core
<1>3. /\ TypeCaller' /\ TypeQueue' /\ TypeAsync' /\ Locks' /\ CallerOwns' /\ QueueOwns'
      /\ IOThreadOwns' /\ SingleOwner' /\ ReplyIsMine'
  BY Frame DEF ThreadsStopped
<1> QED
  BY <1>1, <1>2, <1>3

(* A plugin changes fsLayers while nobody holds the lock.                    *)
LEMMA CRApiStep ==
  ASSUME Parts, CRApi
  PROVE  Parts'
<1>1. TypeBool'
  BY DEF CRApi, TypeBool
<1>2. /\ TypeMain' /\ TypeCaller' /\ TypeQueue' /\ TypeAsync' /\ Phases' /\ Locks'
      /\ CallerOwns' /\ QueueOwns' /\ IOThreadOwns' /\ SingleOwner' /\ ReplyIsMine'
  BY Frame DEF CRApi
<1> QED
  BY <1>1, <1>2

-----------------------------------------------------------------------------
(* Calls that reach the real function at once, completions, and the queue of   *)
(* an IO thread that starts.                                                  *)

LEMMA SkipStep ==
  ASSUME NEW t \in App, NEW r \in {t} \cup Block, Parts, Skip(t, r)
  PROVE  Parts'
<1>1. TypeCaller' /\ TypeAsync'
  BY DEF Skip, TypeCaller, TypeAsync, Request
<1>2. \A u \in App : pc[u] = "wait" => pc'[u] = "wait" /\ outcome'[u] = outcome[u]
  BY SlotAssumption DEF Skip, MayCall, TypeCaller, Request
<1>3. CallerOwns'
  BY DEF Skip, MayCall, CallerOwns, TypeCaller
<1>4. QueueOwns'
  BY DEF Skip, MayCall, QueueOwns, InFlight, Awaited, TypeCaller
<1>5. IOThreadOwns'
  BY DEF Skip, MayCall, IOThreadOwns, InFlight, Awaited, Uses, Req, TypeCaller
<1>6. SingleOwner'
  BY DEF Skip, SingleOwner, Serving, Queued, Posting, TypeCaller
<1>7. ReplyIsMine'
  BY <1>2, ReplyFrame DEF Skip
<1>8. TypeBool' /\ TypeMain' /\ TypeQueue' /\ Phases' /\ Locks'
  BY Frame DEF Skip
<1> QED
  BY <1>1, <1>2, <1>3, <1>4, <1>5, <1>6, <1>7, <1>8

(* The console completes a block: no message is touched.                     *)
LEMMA OSCompletesStep ==
  ASSUME NEW b \in Block, Parts, OSCompletes(b)
  PROVE  Parts'
<1>1. TypeAsync'
  BY AppendFacts DEF OSCompletes, TypeAsync
<1>2. /\ TypeBool' /\ TypeMain' /\ TypeCaller' /\ TypeQueue' /\ Phases' /\ Locks'
      /\ CallerOwns' /\ QueueOwns' /\ IOThreadOwns' /\ SingleOwner' /\ ReplyIsMine'
  BY Frame DEF OSCompletes
<1> QED
  BY <1>1, <1>2

(* OSInitMessageQueue empties the queue of a thread that has none yet.       *)
LEMMA InitQueueStep ==
  ASSUME NEW c \in Core, Parts, InitQueue(c)
  PROVE  Parts'
<1>1. TypeBool'
  BY DEF InitQueue, TypeBool
<1>2. TypeMain' /\ Locks'
  BY CoreAssumption, SlotAssumption
     DEF InitQueue, TypeMain, Locks, MutexFree, LockDiscipline, InLayers, Core
<1>3. TypeQueue'
  BY EmptySeq DEF InitQueue, TypeQueue
<1>4. Phases'
  BY DEF InitQueue, TypeMain, Phases, NoThread
<1>5. \A d \in Core : queue'[d] = IF d = c THEN <<>> ELSE queue[d]
  BY DEF InitQueue, TypeQueue
<1>6. QueueOwns'
  BY <1>5, EmptySeq DEF InitQueue, QueueOwns, InFlight, Awaited
<1>7. IOThreadOwns'
  BY DEF InitQueue, TypeMain, IOThreadOwns, InFlight, Awaited, Uses, Req
<1>8. SingleOwner'
  BY <1>5, EmptySeq DEF InitQueue, SingleOwner, Serving, Queued, Posting
<1>9. ReplyIsMine'
  BY <1>5, EmptySeq DEF InitQueue, ReplyIsMine, Serving, Queued
<1>10. TypeCaller' /\ TypeAsync' /\ CallerOwns'
  BY Frame DEF InitQueue
<1> QED
  BY <1>1, <1>2, <1>3, <1>4, <1>5, <1>6, <1>7, <1>8, <1>9, <1>10

(* The caller of a real function owns no message any more.                   *)
LEMMA CallRealStep ==
  ASSUME NEW t \in App, Parts, CallReal(t)
  PROVE  Parts'
<1>1. TypeCaller' /\ TypeAsync'
  <2>1. CASE sub[t] \in Block
    BY <2>1 DEF CallReal, TypeCaller, TypeAsync, Request
  <2>2. CASE sub[t] \notin Block
    BY <2>2 DEF CallReal, TypeCaller, TypeAsync, Request
  <2> QED
    BY <2>1, <2>2
<1>2. CallerOwns'
  BY SlotAssumption DEF CallReal, CallerOwns, TypeCaller
<1>3. QueueOwns'
  BY DEF CallReal, QueueOwns, InFlight, Awaited, TypeCaller
<1>4. IOThreadOwns'
  BY DEF CallReal, IOThreadOwns, InFlight, Awaited, Uses, Req, TypeCaller
<1>5. SingleOwner'
  BY DEF CallReal, SingleOwner, Serving, Queued, Posting, TypeCaller
<1>6. ReplyIsMine'
  <2>1. \A u \in App : pc[u] = "wait" => pc'[u] = "wait" /\ outcome'[u] = outcome[u]
    BY SlotAssumption DEF CallReal, TypeCaller, Request
  <2> QED
    BY <2>1, ReplyFrame DEF CallReal
<1>7. TypeBool' /\ TypeMain' /\ TypeQueue' /\ Phases' /\ Locks'
  BY Frame DEF CallReal
<1> QED
  BY <1>1, <1>2, <1>3, <1>4, <1>5, <1>6, <1>7

(* The application takes its block back; the decision of a sync caller stays. *)
LEMMA AppReceivesStep ==
  ASSUME Parts, AppReceives
  PROVE  Parts'
<1>1. /\ Head(appq) \in Block /\ Tail(appq) \in Seq(Block)
      /\ appq' = Tail(appq)
      /\ block' = [block EXCEPT ![Head(appq)] = "app"]
      /\ outcome' = [outcome EXCEPT ![Head(appq)] = Nil]
  BY TakeFacts DEF AppReceives, TypeAsync
<1>2. TypeCaller' /\ TypeAsync'
  BY <1>1 DEF AppReceives, TypeCaller, TypeAsync
<1>3. ReplyIsMine'
  <2>1. \A u \in App : outcome'[u] = outcome[u]
    BY <1>1, SlotAssumption DEF TypeCaller, Request
  <2> QED
    BY <2>1, ReplyFrame DEF AppReceives
<1>4. /\ TypeBool' /\ TypeMain' /\ TypeQueue' /\ Phases' /\ Locks'
      /\ CallerOwns' /\ QueueOwns' /\ IOThreadOwns' /\ SingleOwner'
  BY Frame DEF AppReceives
<1> QED
  BY <1>1, <1>2, <1>3, <1>4

(* The lock is taken, for the first time or once more by its owner.          *)
LEMMA LockLayersStep ==
  ASSUME NEW c \in Core, Parts, LockLayers(c)
  PROVE  Parts'
<1>1. cur[c] # Nil
  BY DEF LockLayers, IOThreadOwns
<1>2. TypeMain' /\ Locks'
  BY SMTT(30), CoreAssumption, BoundAssumption, SlotAssumption
     DEF LockLayers, LockBy, CanLock, TypeMain, Locks, MutexFree, LockDiscipline, InLayers, Core
<1>3. Phases'
  BY DEF LockLayers, Phases, NoThread, TypeMain
<1>4. IOThreadOwns'
  BY <1>1, IOMove DEF LockLayers
<1>5. /\ TypeBool' /\ TypeCaller' /\ TypeQueue' /\ TypeAsync' /\ CallerOwns'
      /\ QueueOwns' /\ SingleOwner' /\ ReplyIsMine'
  BY Frame DEF LockLayers, LockBy
<1> QED
  BY <1>1, <1>2, <1>3, <1>4, <1>5

(* A call from inside a layer waits for the lock its thread owns.            *)
LEMMA NestedCallStep ==
  ASSUME NEW c \in Core, Parts, NestedCall(c)
  PROVE  Parts'
<1>1. cur[c] # Nil
  BY DEF NestedCall, IOThreadOwns
<1>2. TypeMain' /\ Locks'
  BY CoreAssumption, BoundAssumption, SlotAssumption
     DEF NestedCall, TypeMain, Locks, MutexFree, LockDiscipline, InLayers, Core
<1>3. Phases'
  BY DEF NestedCall, Phases, NoThread, TypeMain
<1>4. IOThreadOwns'
  BY <1>1, IOMove DEF NestedCall
<1>5. /\ TypeBool' /\ TypeCaller' /\ TypeQueue' /\ TypeAsync' /\ CallerOwns'
      /\ QueueOwns' /\ SingleOwner' /\ ReplyIsMine'
  BY Frame DEF NestedCall
<1> QED
  BY <1>1, <1>2, <1>3, <1>4, <1>5

(* A nested call releases the lock once; the outer one still holds it.       *)
LEMMA NestedReturnStep ==
  ASSUME NEW c \in Core, Parts, NestedReturn(c)
  PROVE  Parts'
<1>1. TypeMain' /\ Locks'
  BY CoreAssumption, BoundAssumption, SlotAssumption
     DEF NestedReturn, UnlockOnce, TypeMain, Locks, MutexFree, LockDiscipline, InLayers, Core
<1>2. /\ TypeBool' /\ TypeCaller' /\ TypeQueue' /\ TypeAsync' /\ Phases'
      /\ CallerOwns' /\ QueueOwns' /\ IOThreadOwns' /\ SingleOwner' /\ ReplyIsMine'
  BY Frame DEF NestedReturn, UnlockOnce
<1> QED
  BY <1>1, <1>2

(* A layer's answer ends doForLayer: the lock is free.                       *)
LEMMA AnswerSyncStep ==
  ASSUME NEW c \in Core, Parts, AnswerSync(c)
  PROVE  Parts'
<1>1. cur[c] # Nil
  BY DEF AnswerSync, IOThreadOwns
<1>2. holder' = Nil /\ depth' = 0 /\ Locks'
  BY LeaveLayers DEF AnswerSync, InLayers
<1>3. TypeMain'
  BY <1>2, BoundAssumption DEF AnswerSync, TypeMain
<1>4. TypeCaller'
  BY DEF AnswerSync, TypeCaller
<1>5. Phases'
  BY DEF AnswerSync, Phases, NoThread, TypeMain
<1>6. IOThreadOwns'
  BY <1>1, IOMove DEF AnswerSync
<1>7. ReplyIsMine'
  BY <1>1, DecideFrame DEF AnswerSync
<1>8. /\ TypeBool' /\ TypeQueue' /\ TypeAsync' /\ CallerOwns' /\ QueueOwns'
      /\ SingleOwner'
  BY Frame DEF AnswerSync
<1> QED
  BY <1>1, <1>2, <1>3, <1>4, <1>5, <1>6, <1>7, <1>8

(* An async answer is about a block and keeps the lock for the callback.     *)
LEMMA AnswerAsyncStep ==
  ASSUME NEW c \in Core, Parts, AnswerAsync(c)
  PROVE  Parts'
<1>1. cur[c] # Nil
  BY DEF AnswerAsync, IOThreadOwns
<1>2. TypeMain' /\ Locks'
  BY CoreAssumption, SlotAssumption
     DEF AnswerAsync, TypeMain, Locks, MutexFree, LockDiscipline, InLayers, Core
<1>3. TypeCaller'
  BY DEF AnswerAsync, TypeCaller
<1>4. Phases'
  BY DEF AnswerAsync, Phases, NoThread, TypeMain
<1>5. Req(c) \in Block
  BY <1>1 DEF AnswerAsync, Sync, Req, IOThreadOwns, InFlight, TypeCaller, TypeMain, Request
<1>6. IOThreadOwns'
  BY <1>1, <1>5, IOMove DEF AnswerAsync
<1>7. ReplyIsMine'
  BY <1>1, DecideFrame DEF AnswerAsync
<1>8. /\ TypeBool' /\ TypeQueue' /\ TypeAsync' /\ CallerOwns' /\ QueueOwns'
      /\ SingleOwner'
  BY Frame DEF AnswerAsync
<1> QED
  BY <1>1, <1>2, <1>3, <1>4, <1>5, <1>6, <1>7, <1>8

(* No layer answers: the lock is free, the request as it was.                *)
LEMMA AllPassStep ==
  ASSUME NEW c \in Core, Parts, AllPass(c)
  PROVE  Parts'
<1>1. cur[c] # Nil
  BY DEF AllPass, IOThreadOwns
<1>2. holder' = Nil /\ depth' = 0 /\ Locks'
  <2>1. CASE Sync(c)
    BY <2>1, LeaveLayers DEF AllPass, InLayers
  <2>2. CASE ~Sync(c)
    BY <2>2, LeaveLayers DEF AllPass, InLayers
  <2> QED
    BY <2>1, <2>2
<1>3. TypeMain'
  BY <1>2, BoundAssumption DEF AllPass, TypeMain
<1>4. TypeCaller'
  BY DEF AllPass, TypeCaller
<1>5. Phases'
  BY DEF AllPass, Phases, NoThread, TypeMain
<1>6. Sync(c) \/ Req(c) \in Block
  BY <1>1 DEF AllPass, Sync, Req, IOThreadOwns, InFlight, TypeCaller, TypeMain, Request
<1>7. IOThreadOwns'
  <2>1. CASE Sync(c)
    BY <1>1, <2>1, IOMove DEF AllPass
  <2>2. CASE ~Sync(c)
    BY <1>1, <1>6, <2>2, IOMove DEF AllPass
  <2> QED
    BY <2>1, <2>2
<1>8. ReplyIsMine'
  BY <1>1, DecideFrame DEF AllPass
<1>9. /\ TypeBool' /\ TypeQueue' /\ TypeAsync' /\ CallerOwns' /\ QueueOwns'
      /\ SingleOwner'
  BY Frame DEF AllPass
<1> QED
  BY <1>1, <1>2, <1>3, <1>4, <1>5, <1>6, <1>7, <1>8, <1>9

(* After the callback the lock is free and param is still allocated.         *)
LEMMA CompleteAsyncStep ==
  ASSUME NEW c \in Core, Parts, CompleteAsync(c)
  PROVE  Parts'
<1>1. cur[c] # Nil /\ Req(c) \in Block /\ nest[c] = 0
  BY DEF CompleteAsync, IOThreadOwns, Locks, MutexFree
<1>2. holder' = Nil /\ depth' = 0 /\ Locks'
  BY <1>1, LeaveLayers DEF CompleteAsync, InLayers, AfterCallback
<1>3. TypeMain'
  BY <1>2, BoundAssumption DEF CompleteAsync, AfterCallback, TypeMain
<1>4. TypeAsync'
  <2>1. UNCHANGED halted /\ (SendCompletion(c) \/ UNCHANGED asyncVars)
    BY DEF CompleteAsync, TellNobody
  <2> QED
    BY <1>1, <2>1, AppendFacts DEF SendCompletion, asyncVars, TypeAsync
<1>5. Phases'
  BY DEF CompleteAsync, AfterCallback, Phases, NoThread, TypeMain
<1>6. IOThreadOwns'
  BY <1>1, IOMove DEF CompleteAsync, AfterCallback
<1>7. /\ TypeBool' /\ TypeCaller' /\ TypeQueue' /\ CallerOwns' /\ QueueOwns'
      /\ SingleOwner' /\ ReplyIsMine'
  BY Frame DEF CompleteAsync
<1> QED
  BY <1>1, <1>2, <1>3, <1>4, <1>5, <1>6, <1>7

(* The real function takes the block or refuses it; no message moves.        *)
LEMMA SubmitRealStep ==
  ASSUME NEW c \in Core, Parts, SubmitReal(c)
  PROVE  Parts'
<1>1. cur[c] # Nil /\ Req(c) \in Block
  BY DEF SubmitReal, IOThreadOwns
<1>2. PICK ok \in BOOLEAN :
        /\ io' = [io EXCEPT ![c] = AfterSubmit(ok)]
        /\ IF ok THEN /\ block' = [block EXCEPT ![Req(c)] = "os"]
                      /\ outcome' = [outcome EXCEPT ![Req(c)] = "real"]
                 ELSE UNCHANGED <<block, outcome>>
  BY DEF SubmitReal
<1>3. AfterSubmit(ok) \in {"freeParam", "fake"}
  BY DEF AfterSubmit
<1>4. TypeMain' /\ Locks'
  BY <1>2, <1>3, CoreAssumption, SlotAssumption
     DEF SubmitReal, TypeMain, Locks, MutexFree, LockDiscipline, InLayers, Core
<1>5. TypeCaller' /\ TypeAsync'
  BY <1>2 DEF SubmitReal, TypeCaller, TypeAsync
<1>6. Phases'
  BY <1>2, <1>3 DEF SubmitReal, Phases, NoThread, TypeMain
<1>7. IOThreadOwns'
  BY <1>1, <1>2, <1>3, IOMove DEF SubmitReal
<1>8. ReplyIsMine'
  <2>1. CASE ok
    BY <1>1, <1>2, <2>1, DecideFrame DEF SubmitReal
  <2>2. CASE ~ok
    BY <1>2, <2>2, Frame DEF SubmitReal
  <2> QED
    BY <2>1, <2>2
<1>9. TypeBool' /\ TypeQueue' /\ CallerOwns' /\ QueueOwns' /\ SingleOwner'
  BY Frame DEF SubmitReal
<1> QED
  BY <1>1, <1>2, <1>3, <1>4, <1>5, <1>6, <1>7, <1>8, <1>9

(* The faked completion hands the block back; no message moves.              *)
LEMMA CompleteFakeStep ==
  ASSUME NEW c \in Core, Parts, CompleteFake(c)
  PROVE  Parts'
<1>1. cur[c] # Nil /\ Req(c) \in Block
  BY DEF CompleteFake, IOThreadOwns
<1>2. TypeMain' /\ Locks'
  BY CoreAssumption, SlotAssumption
     DEF CompleteFake, TypeMain, Locks, MutexFree, LockDiscipline, InLayers, Core
<1>3. TypeAsync'
  <2>1. UNCHANGED halted /\ (SendCompletion(c) \/ UNCHANGED asyncVars)
    BY DEF CompleteFake, TellNobody
  <2> QED
    BY <1>1, <2>1, AppendFacts DEF SendCompletion, asyncVars, TypeAsync
<1>4. Phases'
  BY DEF CompleteFake, Phases, NoThread, TypeMain
<1>5. IOThreadOwns'
  BY <1>1, IOMove DEF CompleteFake
<1>6. /\ TypeBool' /\ TypeCaller' /\ TypeQueue' /\ CallerOwns' /\ QueueOwns'
      /\ SingleOwner' /\ ReplyIsMine'
  BY Frame DEF CompleteFake
<1> QED
  BY <1>1, <1>2, <1>3, <1>4, <1>5, <1>6

(* free(param): its IO thread was the only one to use it.                    *)
LEMMA FreeParamStep ==
  ASSUME NEW c \in Core, Parts, FreeParam(c)
  PROVE  Parts'
<1>1. /\ cur[c] \in Ptr
      /\ heap' = heap \ {<<cur[c], "param">>}
      /\ \A e \in Core : io'[e] = IF e # c THEN io[e]
                                  ELSE IF Sync(c) THEN "reply" ELSE "freeMessage"
  BY DEF FreeParam, ParamOf, IOThreadOwns, TypeMain
<1>2. Sync(c) \/ Req(c) \in Block
  BY <1>1, SlotAssumption
     DEF Sync, Req, IOThreadOwns, InFlight, TypeCaller, TypeMain, Request
<1>3. TypeMain' /\ Locks'
  BY CoreAssumption, SlotAssumption
     DEF FreeParam, TypeMain, Locks, MutexFree, LockDiscipline, InLayers, Core
<1>4. TypeCaller'
  BY <1>1 DEF FreeParam, TypeCaller
<1>5. Phases'
  BY <1>1, SlotAssumption DEF FreeParam, Phases, NoThread, TypeMain
<1>6. CallerOwns'
  BY <1>1 DEF FreeParam, CallerOwns, SingleOwner, Posting, Serving, TypeCaller
<1>7. QueueOwns'
  BY <1>1 DEF FreeParam, QueueOwns, InFlight, Awaited, SingleOwner, Serving, Queued
<1>8. IOThreadOwns'
  <2>1. SUFFICES ASSUME NEW e \in Core
                 PROVE  /\ cur[e] = Nil <=> io'[e] \in {"none", "init", "recv", "exited"}
                        /\ cur[e] # Nil => InFlight(cur[e]) /\ {cur[e]} \X Uses(e)' \subseteq heap'
                        /\ io'[e] \in {"complete", "real", "fake", "freeMessage"} => Req(e) \in Block
                        /\ io'[e] = "reply" => Req(e) \in App
    BY DEF FreeParam, IOThreadOwns, InFlight, Awaited, Req
  <2>2. CASE e = c
    BY <1>1, <1>2, <2>2 DEF FreeParam, IOThreadOwns, Uses, Objects, Sync
  <2>3. CASE e # c
    <3>1. io'[e] = io[e] /\ Uses(e)' = Uses(e)
      BY <1>1, <2>3 DEF Uses
    <3>2. cur[e] # cur[c]
      BY <1>1, <2>3 DEF SingleOwner, Serving
    <3> QED
      BY <1>1, <3>1, <3>2 DEF IOThreadOwns
  <2> QED
    BY <2>2, <2>3
<1>9. /\ TypeBool' /\ TypeQueue' /\ TypeAsync' /\ SingleOwner' /\ ReplyIsMine'
  BY Frame DEF FreeParam
<1> QED
  BY <1>3, <1>4, <1>5, <1>6, <1>7, <1>8, <1>9

(* The reply passes the message to the caller, who waits for it.             *)
LEMMA SendReplyStep ==
  ASSUME NEW c \in Core, Parts, SendReply(c)
  PROVE  Parts'
<1>1. PICK p \in Ptr : cur[c] = p
  BY DEF SendReply, IOThreadOwns, TypeMain
<1>2. of[p] \in App /\ pc[of[p]] = "wait" /\ msg[of[p]] = p
  BY <1>1, SlotAssumption DEF SendReply, IOThreadOwns, InFlight, Awaited, Req
<1>3. /\ \A e \in Core : cur'[e] = IF e = c THEN Nil ELSE cur[e]
      /\ \A e \in Core : io'[e] = IF e = c THEN "recv" ELSE io[e]
      /\ \A q \in Ptr : reply'[q] = IF q = p THEN outcome[of[p]] ELSE reply[q]
  BY <1>1 DEF SendReply, Req, TypeMain, TypeCaller
<1>4. TypeMain' /\ Locks'
  BY CoreAssumption, SlotAssumption
     DEF SendReply, TypeMain, Locks, MutexFree, LockDiscipline, InLayers, Core
<1>5. TypeCaller'
  <2>1. outcome[of[p]] \in {Nil, "layer", "real"}
    BY <1>2 DEF TypeCaller, Request
  <2> QED
    BY <1>1, <2>1 DEF SendReply, Req, TypeCaller
<1>6. Phases'
  BY <1>3 DEF SendReply, Phases, NoThread
<1>7. IOThreadOwns'
  BY <1>3, SlotAssumption DEF SendReply, IOThreadOwns, InFlight, Awaited, Uses, Req
<1>8. SingleOwner'
  BY <1>3, SlotAssumption DEF SendReply, SingleOwner, Serving, Queued, Posting
<1>9. ReplyIsMine'
  <2>1. SUFFICES ASSUME NEW q \in Ptr, reply'[q] # Nil
                 PROVE  \E t \in App :
                          /\ pc[t] = "wait" /\ msg[t] = q /\ reply'[q] = outcome[t]
                          /\ \A e \in Core : ~Serving(e, q)' /\ ~Queued(e, q)
    BY DEF SendReply, ReplyIsMine, Serving, Queued
  <2>2. CASE q = p
    BY <1>1, <1>2, <1>3, <2>2, SlotAssumption DEF SingleOwner, Serving
  <2>3. CASE q # p
    BY <1>1, <1>3, <2>1, <2>3, SlotAssumption DEF ReplyIsMine, Serving
  <2> QED
    BY <2>2, <2>3
<1>10. TypeBool' /\ TypeQueue' /\ TypeAsync' /\ CallerOwns' /\ QueueOwns'
  BY Frame DEF SendReply
<1> QED
  BY <1>4, <1>5, <1>6, <1>7, <1>8, <1>9, <1>10

(* free(message) of an async request: nobody else points to it.              *)
LEMMA FreeMessageStep ==
  ASSUME NEW c \in Core, Parts, FreeMessage(c)
  PROVE  Parts'
<1>1. PICK p \in Ptr : cur[c] = p
  BY DEF FreeMessage, IOThreadOwns, TypeMain
<1>2. of[p] \in Block /\ of[p] \notin App
  BY <1>1, SlotAssumption DEF FreeMessage, IOThreadOwns, Req
<1>3. /\ \A e \in Core : cur'[e] = IF e = c THEN Nil ELSE cur[e]
      /\ \A e \in Core : io'[e] = IF e = c THEN "recv" ELSE io[e]
      /\ \A q \in Ptr : of'[q] = IF q = p THEN Nil ELSE of[q]
      /\ heap' = heap \ {<<p, "message">>}
  BY <1>1 DEF FreeMessage, TypeMain, TypeCaller
<1>4. TypeMain' /\ Locks'
  BY CoreAssumption, SlotAssumption
     DEF FreeMessage, TypeMain, Locks, MutexFree, LockDiscipline, InLayers, Core
<1>5. TypeCaller'
  BY <1>1, <1>3 DEF FreeMessage, TypeCaller
<1>6. Phases'
  BY <1>3 DEF FreeMessage, Phases, NoThread
<1>7. CallerOwns'
  <2>1. ASSUME NEW t \in App, pc[t] \in {"post", "wait"}
        PROVE  msg[t] \in Ptr
    <3>1. msg[t] # Nil
      BY <2>1 DEF CallerOwns
    <3> QED
      BY <3>1 DEF TypeCaller
  <2>2. \A t \in App : pc[t] = "post" => msg[t] # p
    BY <1>1 DEF SingleOwner, Posting, Serving
  <2>3. \A t \in App : pc[t] = "wait" => msg[t] # p
    BY <1>2 DEF CallerOwns
  <2> QED
    BY <1>3, <2>1, <2>2, <2>3 DEF FreeMessage, CallerOwns
<1>8. QueueOwns'
  <2>1. \A e \in Core : \A i \in 1 .. Len(queue[e]) :
          queue[e][i] # p /\ (queue[e][i] # STOP => queue[e][i] \in Ptr)
    BY <1>1, LenProperties DEF SingleOwner, Serving, Queued, TypeQueue
  <2> QED
    BY <1>3, <2>1 DEF FreeMessage, QueueOwns, InFlight, Awaited
<1>9. IOThreadOwns'
  <2>1. \A e \in Core \ {c} : cur[e] # p
    BY <1>1 DEF SingleOwner, Serving
  <2> QED
    BY <1>3, <2>1, SlotAssumption
       DEF FreeMessage, IOThreadOwns, InFlight, Awaited, Uses, Req, TypeMain
<1>10. SingleOwner'
  BY <1>3, SlotAssumption DEF FreeMessage, SingleOwner, Serving, Queued, Posting
<1>11. ReplyIsMine'
  BY <1>3, SlotAssumption DEF FreeMessage, ReplyIsMine, Serving, Queued
<1>12. TypeBool' /\ TypeQueue' /\ TypeAsync'
  BY Frame DEF FreeMessage
<1> QED
  BY <1>4, <1>5, <1>6, <1>7, <1>8, <1>9, <1>10, <1>11, <1>12

(* Taking the first message leaves the others in one place each; the one that  *)
(* was taken is in no queue any more.                                         *)
LEMMA TakenOwns ==
  ASSUME Parts, NEW c \in Core, Take(c), UNCHANGED <<of, pc, msg, heap>>
  PROVE  /\ QueueOwns'
         /\ \A p \in Ptr : p = Head(queue[c]) => \A d \in Core : ~Queued(d, p)'
         /\ \A p \in Ptr : \A d, e \in Core :
              \A i \in 1 .. Len(queue'[d]), j \in 1 .. Len(queue'[e]) :
                queue'[d][i] = p /\ queue'[e][j] = p => d = e /\ i = j
<1>1. \A d \in Core : \A i \in 1 .. Len(queue'[d]) :
        \/ d # c /\ i \in 1 .. Len(queue[d]) /\ queue'[d][i] = queue[d][i]
        \/ d = c /\ i + 1 \in 1 .. Len(queue[c]) /\ i + 1 # 1
           /\ queue'[d][i] = queue[d][i + 1]
  BY TakenPlaces
<1>2. QueueOwns'
  BY SMTT(30), <1>1 DEF QueueOwns, InFlight, Awaited
<1>3. ASSUME NEW p \in Ptr, p = Head(queue[c]), NEW d \in Core
      PROVE  ~Queued(d, p)'
  <2>1. SUFFICES ASSUME NEW i \in 1 .. Len(queue'[d]), queue'[d][i] = p
                 PROVE  FALSE
    BY DEF Queued
  <2>2. 1 \in 1 .. Len(queue[c]) /\ queue[c][1] = p
    BY <1>3, TakenFacts
  <2>3. PICK k \in 1 .. Len(queue[d]) : queue[d][k] = p /\ ~(d = c /\ k = 1)
    BY <1>1, <2>1
  <2> QED
    BY <2>2, <2>3 DEF SingleOwner
<1>4. ASSUME NEW p \in Ptr, NEW d \in Core, NEW e \in Core,
             NEW i \in 1 .. Len(queue'[d]), NEW j \in 1 .. Len(queue'[e]),
             queue'[d][i] = p, queue'[e][j] = p
      PROVE  d = e /\ i = j
  <2>1. PICK k \in 1 .. Len(queue[d]) : queue[d][k] = p /\ k = IF d = c THEN i + 1 ELSE i
    BY <1>1, <1>4
  <2>2. PICK l \in 1 .. Len(queue[e]) : queue[e][l] = p /\ l = IF e = c THEN j + 1 ELSE j
    BY <1>1, <1>4
  <2>3. d = e /\ k = l
    BY <2>1, <2>2 DEF SingleOwner
  <2> QED
    BY <2>1, <2>2, <2>3
<1> QED
  BY <1>2, <1>3, <1>4

(* STOP is no message: the thread exits without one.                         *)
LEMMA ReceiveStopStep ==
  ASSUME NEW c \in Core, Parts, ReceiveStop(c)
  PROVE  Parts'
<1>1. Take(c)
  BY DEF ReceiveStop, Take
<1>2. \A e \in Core : io'[e] = IF e = c THEN "exited" ELSE io[e]
  BY DEF ReceiveStop, TypeMain
<1>3. TypeMain' /\ Locks'
  BY CoreAssumption, SlotAssumption
     DEF ReceiveStop, TypeMain, Locks, MutexFree, LockDiscipline, InLayers, Core
<1>4. TypeQueue'
  BY <1>1, TakenFacts
<1>5. Phases'
  BY <1>2 DEF ReceiveStop, Phases, NoThread
<1>6. QueueOwns'
  BY <1>1, TakenOwns DEF ReceiveStop
<1>7. IOThreadOwns'
  BY <1>2 DEF ReceiveStop, IOThreadOwns, InFlight, Awaited, Uses, Req
<1>8. SingleOwner'
  <2>1. \A d \in Core, p \in Ptr : Queued(d, p)' => Queued(d, p)
    BY <1>1, TakenPlaces
  <2>2. \A p \in Ptr : \A d, e \in Core :
          \A i \in 1 .. Len(queue'[d]), j \in 1 .. Len(queue'[e]) :
            queue'[d][i] = p /\ queue'[e][j] = p => d = e /\ i = j
    BY <1>1, TakenOwns DEF ReceiveStop
  <2> QED
    BY <2>1, <2>2 DEF ReceiveStop, SingleOwner, Serving, Posting
<1>9. ReplyIsMine'
  <2>1. \A d \in Core, p \in Ptr : Queued(d, p)' => Queued(d, p)
    BY <1>1, TakenPlaces
  <2> QED
    BY <2>1 DEF ReceiveStop, ReplyIsMine, Serving
<1>10. TypeBool' /\ TypeCaller' /\ TypeAsync' /\ CallerOwns'
  BY Frame DEF ReceiveStop
<1> QED
  BY <1>3, <1>4, <1>5, <1>6, <1>7, <1>8, <1>9, <1>10

(* A message moves from a queue to the thread that serves it.                *)
LEMMA ReceiveCommandStep ==
  ASSUME NEW c \in Core, Parts, ReceiveCommand(c)
  PROVE  Parts'
<1>1. Take(c) /\ Head(queue[c]) \in Ptr
  BY TakenFacts DEF ReceiveCommand, Take
<1>2. PICK m \in Ptr : m = Head(queue[c])
  BY <1>1
<1>3. /\ \A e \in Core : io'[e] = IF e = c THEN "lock" ELSE io[e]
      /\ \A e \in Core : cur'[e] = IF e = c THEN m ELSE cur[e]
  BY <1>2 DEF ReceiveCommand, TypeMain
<1>4. Queued(c, m)
  BY <1>1, <1>2, TakenFacts DEF Queued
<1>5. InFlight(m) /\ {m} \X Objects \subseteq heap
  BY <1>4, SlotAssumption DEF Queued, QueueOwns
<1>6. TypeMain' /\ Locks'
  BY <1>2, CoreAssumption, SlotAssumption
     DEF ReceiveCommand, TypeMain, Locks, MutexFree, LockDiscipline, InLayers, Core
<1>7. TypeQueue'
  BY <1>1, TakenFacts
<1>8. Phases'
  BY <1>3 DEF ReceiveCommand, Phases, NoThread
<1>9. QueueOwns'
  BY <1>1, TakenOwns DEF ReceiveCommand
<1>10. IOThreadOwns'
  BY <1>3, <1>5, SlotAssumption
     DEF ReceiveCommand, IOThreadOwns, InFlight, Awaited, Uses, Req
<1>11. SingleOwner'
  <2>1. \A d \in Core, p \in Ptr : Queued(d, p)' => Queued(d, p)
    BY <1>1, TakenPlaces
  <2>2. /\ \A d \in Core : ~Queued(d, m)'
        /\ \A p \in Ptr : \A d, e \in Core :
             \A i \in 1 .. Len(queue'[d]), j \in 1 .. Len(queue'[e]) :
               queue'[d][i] = p /\ queue'[e][j] = p => d = e /\ i = j
    BY <1>1, <1>2, TakenOwns DEF ReceiveCommand
  <2>3. \A t \in App : ~Posting(t, m)
    BY <1>4 DEF SingleOwner
  <2>4. \A d \in Core : ~Serving(d, m)
    BY <1>4 DEF SingleOwner
  <2> QED
    BY <1>3, <2>1, <2>2, <2>3, <2>4 DEF ReceiveCommand, SingleOwner, Serving, Posting
<1>12. ReplyIsMine'
  <2>1. \A d \in Core, p \in Ptr : Queued(d, p)' => Queued(d, p)
    BY <1>1, TakenPlaces
  <2>2. reply[m] = Nil
    BY <1>4 DEF ReplyIsMine
  <2> QED
    BY <1>3, <2>1, <2>2 DEF ReceiveCommand, ReplyIsMine, Serving
<1>13. TypeBool' /\ TypeCaller' /\ TypeAsync' /\ CallerOwns'
  BY Frame DEF ReceiveCommand
<1> QED
  BY <1>6, <1>7, <1>8, <1>9, <1>10, <1>11, <1>12, <1>13

(* A STOP that is put into a queue, or is dropped, disturbs no message.        *)
LEMMA SendStopStep ==
  ASSUME Parts, SendStop
  PROVE  Parts'
<1>1. coreId \in Core /\ (Put(coreId, STOP) \/ UNCHANGED queue)
  BY DEF SendStop, PutStop, Put
<1>2. TypeQueue'
  BY <1>1, PutFacts DEF TypeQueue
<1>3. \A d \in Core : \A i \in 1 .. Len(queue'[d]) :
        \/ i \in 1 .. Len(queue[d]) /\ queue'[d][i] = queue[d][i]
        \/ queue'[d][i] = STOP
  BY <1>1, PutPlaces
<1>4. \A d \in Core, p \in Ptr : Queued(d, p)' => Queued(d, p)
  BY <1>3, SlotAssumption DEF Queued
<1>5. TypeMain' /\ Phases'
  BY <1>1 DEF SendStop, TypeMain, Phases, NoThread
<1>6. QueueOwns'
  BY SMTT(30), <1>3 DEF SendStop, QueueOwns, InFlight, Awaited
<1>7. SingleOwner'
  BY SMTT(30), <1>3, <1>4, SlotAssumption DEF SendStop, SingleOwner, Serving, Posting
<1>8. ReplyIsMine'
  BY <1>4 DEF SendStop, ReplyIsMine, Serving
<1>9. TypeBool' /\ TypeCaller' /\ TypeAsync' /\ Locks' /\ CallerOwns' /\ IOThreadOwns'
  BY Frame DEF SendStop
<1> QED
  BY <1>2, <1>5, <1>6, <1>7, <1>8, <1>9

(* A message moves from its caller to one queue.                             *)
LEMMA PostStep ==
  ASSUME NEW t \in App, NEW c \in Core, Parts, Post(t, c)
  PROVE  Parts'
<1>1. PICK m \in Ptr : msg[t] = m
  <2>1. msg[t] # Nil
    BY DEF Post, CallerOwns
  <2> QED
    BY <2>1 DEF TypeCaller
<1>2. Put(c, m)
  BY <1>1 DEF Post, Put
<1>3. /\ pc[t] = "post" /\ of[m] = sub[t] /\ sub[t] \in {t} \cup Block
      /\ sub[t] = t => t \in shim
      /\ {m} \X Objects \subseteq heap
  BY <1>1 DEF Post, CallerOwns
<1>4. /\ \A u \in App : pc'[u] = IF u = t THEN IF sub[t] \in App THEN "wait" ELSE "idle"
                                 ELSE pc[u]
      /\ \A u \in App : msg'[u] = IF u = t /\ sub[t] \notin App THEN Nil ELSE msg[u]
      /\ \A u \in App \ {t} : sub'[u] = sub[u]
  BY DEF Post, TypeCaller
<1>5. \A d \in Core, p \in Ptr : Queued(d, p)' => Queued(d, p) \/ (d = c /\ p = m)
  BY <1>2, PutPlaces
<1>6. \A d \in Core : ~Queued(d, m) /\ ~Serving(d, m)
  BY <1>1, <1>3 DEF SingleOwner, Posting
<1>7. reply[m] = Nil
  BY <1>1, <1>3 DEF ReplyIsMine, SingleOwner
<1>8. TypeCaller'
  BY DEF Post, TypeCaller
<1>9. TypeQueue'
  BY <1>2, PutFacts
<1>10. CallerOwns'
  <2>1. SUFFICES ASSUME NEW u \in App
                 PROVE  /\ pc'[u] \in {"post", "wait"} <=> msg'[u] # Nil
                        /\ pc'[u] = "post" => /\ sub'[u] \in {u} \cup Block
                                              /\ of[msg'[u]] = sub'[u]
                                              /\ sub'[u] = u => u \in shim
                                              /\ {msg'[u]} \X Objects \subseteq heap
                        /\ pc'[u] = "wait" => /\ of[msg'[u]] = u /\ u \in shim
                                              /\ <<msg'[u], "message">> \in heap
    BY DEF Post, CallerOwns
  <2>2. CASE u # t
    BY <1>4, <2>2 DEF CallerOwns
  <2>3. CASE u = t /\ sub[t] \in App
    BY <1>1, <1>3, <1>4, <2>3, SlotAssumption DEF Objects
  <2>4. CASE u = t /\ sub[t] \notin App
    BY <1>4, <2>4
  <2> QED
    BY <2>2, <2>3, <2>4
<1>11. InFlight(m)'
  BY <1>1, <1>3, <1>4, SlotAssumption DEF Post, InFlight, Awaited, Request
<1>12. \A p \in Ptr : InFlight(p) => InFlight(p)'
  BY <1>3, <1>4 DEF Post, InFlight, Awaited
<1>13. QueueOwns'
  <2>1. ASSUME NEW d \in Core, NEW i \in 1 .. Len(queue'[d]), queue'[d][i] # STOP
        PROVE  \E p \in Ptr : /\ queue'[d][i] = p /\ InFlight(p)'
                             /\ {p} \X Objects \subseteq heap
    <3>1. CASE i \in 1 .. Len(queue[d]) /\ queue'[d][i] = queue[d][i]
      <4>1. PICK p \in Ptr : queue[d][i] = p
        BY <2>1, <3>1, LenProperties DEF TypeQueue
      <4>2. InFlight(p) /\ {p} \X Objects \subseteq heap
        BY <2>1, <3>1, <4>1 DEF QueueOwns
      <4> QED
        BY <1>12, <3>1, <4>1, <4>2
    <3>2. CASE queue'[d][i] = m
      BY <1>3, <1>11, <3>2
    <3> QED
      BY <1>2, <3>1, <3>2, PutPlaces
  <2>2. ASSUME NEW d \in Core, NEW i \in 1 .. Len(queue'[d]), queue'[d][i] # STOP
        PROVE  /\ of'[queue'[d][i]] # Nil
               /\ of'[queue'[d][i]] \in App => /\ pc'[of'[queue'[d][i]]] = "wait"
                                              /\ msg'[of'[queue'[d][i]]] = queue'[d][i]
               /\ {queue'[d][i]} \X Objects \subseteq heap
    <3>1. PICK p \in Ptr : /\ queue'[d][i] = p /\ InFlight(p)'
                           /\ {p} \X Objects \subseteq heap
      BY <2>1, <2>2
    <3> QED
      BY <3>1 DEF InFlight, Awaited
  <2>3. heap' = heap
    BY DEF Post
  <2> QED
    BY <2>2, <2>3 DEF QueueOwns, InFlight, Awaited
<1>14. IOThreadOwns'
  <2>1. ASSUME NEW d \in Core, cur[d] # Nil
        PROVE  \E p \in Ptr : cur[d] = p /\ InFlight(p)'
    BY <1>12, <2>1 DEF TypeMain, IOThreadOwns
  <2> QED
    BY <2>1 DEF Post, IOThreadOwns, InFlight, Awaited, Uses, Req
<1>15. SingleOwner'
  <2>1. \A t1, u1 \in App, p \in Ptr : msg'[t1] = p /\ msg'[u1] = p => t1 = u1
    BY <1>4, SlotAssumption DEF SingleOwner
  <2>2. \A t1 \in App, p \in Ptr : Posting(t1, p)' => Posting(t1, p) /\ p # m
    BY <1>1, <1>3, <1>4, SlotAssumption DEF Posting, SingleOwner
  <2>3. ASSUME NEW p \in Ptr, NEW d \in Core, NEW e \in Core,
               NEW i \in 1 .. Len(queue'[d]), NEW j \in 1 .. Len(queue'[e]),
               queue'[d][i] = p, queue'[e][j] = p
        PROVE  d = e /\ i = j
    <3>1. CASE p = m
      <4>1. ~(i \in 1 .. Len(queue[d]) /\ queue[d][i] = m)
        BY <1>6, Zenon DEF Queued
      <4>2. ~(j \in 1 .. Len(queue[e]) /\ queue[e][j] = m)
        BY <1>6, Zenon DEF Queued
      <4>3. d = c /\ i = Len(queue[c]) + 1
        BY <1>2, <2>3, <3>1, <4>1, PutPlaces
      <4>4. e = c /\ j = Len(queue[c]) + 1
        BY <1>2, <2>3, <3>1, <4>2, PutPlaces
      <4> QED
        BY <4>3, <4>4
    <3>2. CASE p # m
      <4>1. i \in 1 .. Len(queue[d]) /\ queue[d][i] = p
        BY <1>2, <2>3, <3>2, PutPlaces
      <4>2. j \in 1 .. Len(queue[e]) /\ queue[e][j] = p
        BY <1>2, <2>3, <3>2, PutPlaces
      <4> QED
        BY <4>1, <4>2 DEF SingleOwner
    <3> QED
      BY <3>1, <3>2
  <2>4. \A d, e \in Core, p \in Ptr : ~(Serving(d, p) /\ Queued(e, p)')
    BY <1>5, <1>6 DEF SingleOwner
  <2>5. \A u \in App, d \in Core, p \in Ptr : Posting(u, p)' => ~Serving(d, p) /\ ~Queued(d, p)'
    BY <1>5, <2>2 DEF SingleOwner
  <2> QED
    BY <2>1, <2>3, <2>4, <2>5 DEF Post, SingleOwner, Serving
<1>16. ReplyIsMine'
  BY <1>1, <1>3, <1>4, <1>5, <1>7 DEF Post, ReplyIsMine, Serving
<1>17. TypeBool' /\ TypeMain' /\ TypeAsync' /\ Phases' /\ Locks'
  BY Frame DEF Post
<1> QED
  BY <1>8, <1>9, <1>10, <1>13, <1>14, <1>15, <1>16, <1>17

(* New objects are at an address nobody refers to.                           *)
LEMMA WrapStep ==
  ASSUME NEW t \in App, NEW r \in {t} \cup Block, Parts, Wrap(t, r)
  PROVE  Parts'
<1>1. PICK m \in Malloc(Unused) : /\ heap' = heap \cup ({m} \X Objects)
                                  /\ of' = [of EXCEPT ![m] = r]
                                  /\ msg' = [msg EXCEPT ![t] = m]
  BY DEF Wrap
<1>2. m \in Ptr /\ heap \cap ({m} \X Objects) = {}
  <2>1. m \in Unused
    BY MallocAssumption DEF Unused
  <2> QED
    BY <2>1 DEF Unused
<1>3. pc[t] = "idle" /\ r \in Request
  BY DEF Wrap, MayCall, Request
<1>4. /\ \A u \in App : pc'[u] = IF u = t THEN "post" ELSE pc[u]
      /\ \A u \in App : msg'[u] = IF u = t THEN m ELSE msg[u]
      /\ \A u \in App : sub'[u] = IF u = t THEN r ELSE sub[u]
      /\ \A p \in Ptr : of'[p] = IF p = m THEN r ELSE of[p]
      /\ shim \subseteq shim' /\ (r = t => t \in shim')
  BY <1>1, <1>2 DEF Wrap, TypeCaller
<1>5. /\ \A u \in App : msg[u] # m
      /\ \A c \in Core : ~Queued(c, m) /\ ~Serving(c, m)
  <2>1. <<m, "message">> \notin heap
    BY <1>2 DEF Objects
  <2>2. \A u \in App : msg[u] # m
    BY <1>2, <2>1, SlotAssumption DEF CallerOwns, Objects
  <2>3. \A c \in Core : ~Queued(c, m)
    BY <1>2, <2>1, SlotAssumption DEF Queued, QueueOwns, Objects
  <2>4. \A c \in Core : ~Serving(c, m)
    BY <1>2, <2>1, SlotAssumption DEF Serving, IOThreadOwns, Uses, Objects
  <2> QED
    BY <2>2, <2>3, <2>4
<1>6. reply[m] = Nil
  BY <1>2, <1>5 DEF ReplyIsMine
<1>7. TypeCaller'
  BY <1>1, <1>2, <1>3 DEF Wrap, TypeCaller, Request
<1>8. TypeAsync'
  BY DEF Wrap, TypeAsync
<1>9. CallerOwns'
  <2>1. SUFFICES ASSUME NEW u \in App
                 PROVE  /\ pc'[u] \in {"post", "wait"} <=> msg'[u] # Nil
                        /\ pc'[u] = "post" => /\ sub'[u] \in {u} \cup Block
                                              /\ of'[msg'[u]] = sub'[u]
                                              /\ sub'[u] = u => u \in shim'
                                              /\ {msg'[u]} \X Objects \subseteq heap'
                        /\ pc'[u] = "wait" => /\ of'[msg'[u]] = u /\ u \in shim'
                                              /\ <<msg'[u], "message">> \in heap'
    BY DEF CallerOwns
  <2>2. CASE u = t
    BY <1>1, <1>2, <1>4, <2>2, SlotAssumption
  <2>3. CASE u # t
    <3>1. msg[u] # Nil => msg[u] \in Ptr \ {m}
      BY <1>5 DEF TypeCaller
    <3>2. pc'[u] = pc[u] /\ msg'[u] = msg[u] /\ sub'[u] = sub[u]
      BY <1>4, <2>3
    <3>3. msg[u] # Nil => of'[msg[u]] = of[msg[u]]
      BY <1>4, <3>1
    <3> QED
      BY <1>1, <1>4, <3>2, <3>3 DEF CallerOwns
  <2> QED
    BY <2>2, <2>3
<1>10. \A p \in Ptr \ {m} : InFlight(p) => InFlight(p)'
  BY <1>3, <1>4 DEF InFlight, Awaited
<1>11. QueueOwns'
  <2>1. ASSUME NEW d \in Core, NEW i \in 1 .. Len(queue[d]), queue[d][i] # STOP
        PROVE  \E p \in Ptr \ {m} : queue[d][i] = p
    BY <1>5, <2>1, LenProperties DEF TypeQueue, Queued
  <2>2. ASSUME NEW d \in Core, NEW i \in 1 .. Len(queue[d]), queue[d][i] # STOP
        PROVE  InFlight(queue[d][i])' /\ {queue[d][i]} \X Objects \subseteq heap'
    <3>1. PICK p \in Ptr \ {m} : queue[d][i] = p
      BY <2>1, <2>2
    <3>2. InFlight(p)'
      BY <1>10, <2>2, <3>1 DEF QueueOwns
    <3> QED
      BY <1>1, <2>2, <3>1, <3>2 DEF Wrap, QueueOwns, InFlight, Awaited
  <2>3. queue' = queue
    BY DEF Wrap
  <2> QED
    BY <2>2, <2>3 DEF QueueOwns
<1>12. IOThreadOwns'
  <2>1. ASSUME NEW d \in Core, cur[d] # Nil
        PROVE  \E p \in Ptr \ {m} : cur[d] = p /\ InFlight(p)' /\ of'[p] = of[p]
    BY <1>4, <1>5, <1>10, <2>1 DEF TypeMain, IOThreadOwns, Serving
  <2>2. ASSUME NEW d \in Core
        PROVE  /\ cur[d] # Nil => InFlight(cur[d])' /\ {cur[d]} \X Uses(d) \subseteq heap'
               /\ cur[d] # Nil => of'[cur[d]] = of[cur[d]]
    BY <1>1, <2>1 DEF Wrap, IOThreadOwns, InFlight, Awaited
  <2>3. cur' = cur /\ io' = io
    BY DEF Wrap
  <2> QED
    BY <2>2, <2>3 DEF IOThreadOwns, Uses, Req
<1>13. SingleOwner'
  BY <1>4, <1>5 DEF Wrap, SingleOwner, Posting, Serving, Queued
<1>14. ReplyIsMine'
  <2>1. SUFFICES ASSUME NEW p \in Ptr, reply[p] # Nil
                 PROVE  \E u \in App :
                          /\ pc'[u] = "wait" /\ msg'[u] = p /\ reply[p] = outcome'[u]
                          /\ \A c \in Core : ~Serving(c, p) /\ ~Queued(c, p)
    BY DEF Wrap, ReplyIsMine, Serving, Queued
  <2>2. PICK u \in App : /\ pc[u] = "wait" /\ msg[u] = p /\ reply[p] = outcome[u]
                         /\ \A c \in Core : ~Serving(c, p) /\ ~Queued(c, p)
    BY <2>1 DEF ReplyIsMine
  <2>3. outcome'[u] = outcome[u]
    BY <1>3, <2>2, SlotAssumption DEF Wrap, TypeCaller, Request
  <2> QED
    BY <1>3, <1>4, <2>2, <2>3
<1>15. TypeBool' /\ TypeMain' /\ TypeQueue' /\ Phases' /\ Locks'
  BY Frame DEF Wrap
<1> QED
  BY <1>7, <1>8, <1>9, <1>11, <1>12, <1>13, <1>14, <1>15

(* The caller frees its message, which no queue or thread refers to.         *)
LEMMA ReceiveReplyStep ==
  ASSUME NEW t \in App, Parts, ReceiveReply(t)
  PROVE  Parts'
<1>1. PICK m \in Ptr : msg[t] = m
  <2>1. msg[t] # Nil
    BY DEF ReceiveReply, CallerOwns
  <2> QED
    BY <2>1 DEF TypeCaller
<1>2. pc[t] = "wait" /\ reply[m] # Nil /\ of[m] = t
  BY <1>1 DEF ReceiveReply, HasReply, CallerOwns
<1>3. /\ \A c \in Core : ~Serving(c, m) /\ ~Queued(c, m)
      /\ \A u \in App \ {t} : msg[u] # m
  BY <1>1, <1>2 DEF ReplyIsMine, SingleOwner
<1>4. /\ \A u \in App \ {t} : pc'[u] = pc[u] /\ sub'[u] = sub[u]
      /\ pc'[t] \in {"idle", "real"}
      /\ \A u \in App : msg'[u] = IF u = t THEN Nil ELSE msg[u]
      /\ \A u \in App \ {t} : outcome'[u] = outcome[u]
      /\ \A p \in Ptr : of'[p] = IF p = m THEN Nil ELSE of[p]
      /\ \A p \in Ptr : reply'[p] = IF p = m THEN Nil ELSE reply[p]
      /\ heap' = heap \ {<<m, "message">>} /\ shim' = shim \ {t}
  BY <1>1 DEF ReceiveReply, TypeCaller, Request
<1>5. TypeCaller'
  BY <1>1 DEF ReceiveReply, TypeCaller
<1>6. CallerOwns'
  <2>1. SUFFICES ASSUME NEW u \in App
                 PROVE  /\ pc'[u] \in {"post", "wait"} <=> msg'[u] # Nil
                        /\ pc'[u] = "post" => /\ sub'[u] \in {u} \cup Block
                                              /\ of'[msg'[u]] = sub'[u]
                                              /\ sub'[u] = u => u \in shim'
                                              /\ {msg'[u]} \X Objects \subseteq heap'
                        /\ pc'[u] = "wait" => /\ of'[msg'[u]] = u /\ u \in shim'
                                              /\ <<msg'[u], "message">> \in heap'
    BY DEF CallerOwns
  <2>2. CASE u = t
    BY <1>4, <2>2
  <2>3. CASE u # t
    <3>1. pc'[u] = pc[u] /\ msg'[u] = msg[u] /\ sub'[u] = sub[u]
      BY <1>4, <2>3
    <3>2. msg[u] # Nil => msg[u] \in Ptr \ {m} /\ of'[msg[u]] = of[msg[u]]
      BY <1>3, <1>4, <2>3 DEF TypeCaller
    <3> QED
      BY <1>4, <2>3, <3>1, <3>2 DEF CallerOwns
  <2> QED
    BY <2>2, <2>3
<1>7. \A p \in Ptr \ {m} : InFlight(p) => InFlight(p)'
  BY <1>1, <1>4 DEF InFlight, Awaited
<1>8. QueueOwns'
  <2>1. ASSUME NEW d \in Core, NEW i \in 1 .. Len(queue[d]), queue[d][i] # STOP
        PROVE  InFlight(queue[d][i])' /\ {queue[d][i]} \X Objects \subseteq heap'
    <3>1. PICK p \in Ptr \ {m} : queue[d][i] = p
      BY <1>3, <2>1, LenProperties DEF TypeQueue, Queued
    <3>2. InFlight(p)'
      BY <1>7, <2>1, <3>1 DEF QueueOwns
    <3> QED
      BY <1>4, <2>1, <3>1, <3>2 DEF ReceiveReply, QueueOwns, InFlight, Awaited
  <2>2. queue' = queue
    BY DEF ReceiveReply
  <2> QED
    BY <2>1, <2>2 DEF QueueOwns
<1>9. IOThreadOwns'
  <2>1. ASSUME NEW d \in Core, cur[d] # Nil
        PROVE  \E p \in Ptr \ {m} : cur[d] = p /\ InFlight(p)' /\ of'[p] = of[p]
    BY <1>3, <1>4, <1>7, <2>1 DEF TypeMain, IOThreadOwns, Serving
  <2>2. ASSUME NEW d \in Core
        PROVE  /\ cur[d] # Nil => InFlight(cur[d])' /\ {cur[d]} \X Uses(d) \subseteq heap'
               /\ cur[d] # Nil => of'[cur[d]] = of[cur[d]]
    BY <1>4, <2>1 DEF ReceiveReply, IOThreadOwns, InFlight, Awaited
  <2>3. cur' = cur /\ io' = io
    BY DEF ReceiveReply
  <2> QED
    BY <2>2, <2>3 DEF IOThreadOwns, Uses, Req
<1>10. SingleOwner'
  BY <1>4, SlotAssumption DEF ReceiveReply, SingleOwner, Posting, Serving, Queued
<1>11. ReplyIsMine'
  BY <1>1, <1>4 DEF ReceiveReply, ReplyIsMine, Serving, Queued
<1>12. TypeBool' /\ TypeMain' /\ TypeQueue' /\ TypeAsync' /\ Phases' /\ Locks'
  BY Frame DEF ReceiveReply
<1> QED
  BY <1>5, <1>6, <1>8, <1>9, <1>10, <1>11, <1>12

-----------------------------------------------------------------------------
(* Every step of the main thread keeps the invariant.                        *)
LEMMA MainStep == ASSUME Parts, Main PROVE Parts'
<1>1. CASE ApplicationStarts
  BY <1>1, ApplicationStartsStep
<1>2. CASE CreateThread
  BY <1>2, CreateThreadStep
<1>3. CASE CreateThreadFails
  BY <1>3, FatalStep DEF CreateThreadFails
<1>4. CASE ThreadIsSetup
  BY <1>4, ThreadIsSetupStep
<1>5. CASE ThreadsStarted
  BY <1>5, ThreadsStartedStep
<1>6. CASE ApplicationEnds
  BY <1>6, ApplicationEndsStep
<1>7. CASE ClearFSLayer
  BY <1>7, ClearFSLayerStep
<1>8. CASE SendStop
  BY <1>8, SendStopStep
<1>9. CASE JoinThread
  BY <1>9, JoinThreadStep
<1>10. CASE ThreadsStopped
  BY <1>10, ThreadsStoppedStep
<1> QED
  BY <1>1, <1>2, <1>3, <1>4, <1>5, <1>6, <1>7, <1>8, <1>9, <1>10 DEF Main

(* Every step of an application thread keeps the invariant.                  *)
LEMMA AppThreadStep == ASSUME Parts, NEW t \in App, AppThread(t) PROVE Parts'
<1>1. ASSUME NEW r \in {t} \cup Block, Wrap(t, r) PROVE Parts'
  BY <1>1, WrapStep
<1>2. ASSUME NEW r \in {t} \cup Block, Skip(t, r) PROVE Parts'
  BY <1>2, SkipStep
<1>3. CASE WrapFails(t)
  BY <1>3, FatalStep DEF WrapFails
<1>4. CASE ReceiveReply(t)
  BY <1>4, ReceiveReplyStep
<1>5. CASE CallReal(t)
  BY <1>5, CallRealStep
<1>6. ASSUME NEW c \in Core, Post(t, c) PROVE Parts'
  BY <1>6, PostStep
<1>7. ASSUME NEW c \in Core, PostFails(t, c) PROVE Parts'
  BY <1>7, FatalStep DEF PostFails
<1> QED
  BY <1>1, <1>2, <1>3, <1>4, <1>5, <1>6, <1>7 DEF AppThread

(* Every step of an IO thread keeps the invariant.                           *)
LEMMA IOThreadStep == ASSUME Parts, NEW c \in Core, IOThread(c) PROVE Parts'
<1>1. CASE InitQueue(c)
  BY <1>1, InitQueueStep
<1>2. CASE ReceiveStop(c)
  BY <1>2, ReceiveStopStep
<1>3. CASE ReceiveCommand(c)
  BY <1>3, ReceiveCommandStep
<1>4. CASE LockLayers(c)
  BY <1>4, LockLayersStep
<1>5. CASE NestedCall(c)
  BY <1>5, NestedCallStep
<1>6. CASE NestedReturn(c)
  BY <1>6, NestedReturnStep
<1>7. CASE AnswerSync(c)
  BY <1>7, AnswerSyncStep
<1>8. CASE AnswerAsync(c)
  BY <1>8, AnswerAsyncStep
<1>9. CASE AnswerFatal(c)
  BY <1>9, FatalStep DEF AnswerFatal
<1>10. CASE AllPass(c)
  BY <1>10, AllPassStep
<1>11. CASE CompleteAsync(c)
  BY <1>11, CompleteAsyncStep
<1>12. CASE SubmitReal(c)
  BY <1>12, SubmitRealStep
<1>13. CASE CompleteFake(c)
  BY <1>13, CompleteFakeStep
<1>14. CASE FreeParam(c)
  BY <1>14, FreeParamStep
<1>15. CASE SendReply(c)
  BY <1>15, SendReplyStep
<1>16. CASE FreeMessage(c)
  BY <1>16, FreeMessageStep
<1>17. CASE BothSet(c)
  BY <1>17, FatalStep DEF BothSet
<1> QED
  BY <1>1, <1>2, <1>3, <1>4, <1>5, <1>6, <1>7, <1>8, <1>9, <1>10, <1>11, <1>12,
     <1>13, <1>14, <1>15, <1>16, <1>17 DEF IOThread

(* MessageInv is inductive.                                                  *)
LEMMA StepMessages == MessageInv /\ [Next]_vars => MessageInv'
<1>p. Parts' => MessageInv'
  BY DEF MessageInv, TypeOK, TypeBool, TypeMain, TypeCaller, TypeQueue, TypeAsync, Locks
<1> SUFFICES ASSUME Parts, [Next]_vars PROVE Parts'
  BY <1>p, MessageParts
<1>1. CASE Main
  BY <1>1, MainStep
<1>2. CASE CRApi
  BY <1>2, CRApiStep
<1>3. CASE AppReceives
  BY <1>3, AppReceivesStep
<1>4. ASSUME NEW t \in App, AppThread(t) PROVE Parts'
  BY <1>4, AppThreadStep
<1>5. ASSUME NEW b \in Block, OSCompletes(b) PROVE Parts'
  BY <1>5, OSCompletesStep
<1>6. ASSUME NEW c \in Core, IOThread(c) PROVE Parts'
  BY <1>6, IOThreadStep
<1>7. CASE UNCHANGED vars
  BY <1>7, Frame DEF vars
<1> QED
  BY <1>1, <1>2, <1>3, <1>4, <1>5, <1>6, <1>7 DEF Next

(* MessageInv holds in every reachable state: wherever a message is, its param, *)
(* the message itself and the shim buffer of its caller are accounted for.     *)
THEOREM Invariance == Spec => []MessageInv
<1>1. MessageInv /\ UNCHANGED vars => MessageInv'
  BY StepMessages
<1> QED
  BY InitMessages, StepMessages, PTL DEF Spec

(* Every variable keeps its type, for any number of cores and callers.         *)
THEOREM TypeCorrect == Spec => []TypeOK
<1>1. MessageInv => TypeOK
  BY DEF MessageInv
<1> QED
  BY <1>1, Invariance, PTL

(* No thread uses or frees what another one has freed: fsIOthreadCallback and    *)
(* the two callers agree on who frees param, message and shim buffer.          *)
THEOREM MemorySafe == Spec => []NoUseAfterFree
<1>1. MessageInv => NoUseAfterFree
  BY MessageParts DEF CallerOwns, QueueOwns, IOThreadOwns, InFlight, Awaited, Sync, Req,
                   NoUseAfterFree
<1> QED
  BY <1>1, Invariance, PTL

(* A message is in one place only, whatever address malloc reuses.             *)
THEOREM OneOwner == Spec => []SingleOwner
<1>1. MessageInv => SingleOwner
  BY DEF MessageInv
<1> QED
  BY <1>1, Invariance, PTL

(* fsLayerMutex is taken and released in step with doForLayer, nested calls     *)
(* included.                                                                  *)
THEOREM LockBalanced == Spec => []LockDiscipline
<1>1. MessageInv => LockDiscipline
  BY DEF MessageInv
<1> QED
  BY <1>1, Invariance, PTL

(* A sync caller is never given the answer to another call.                    *)
THEOREM RightReply == Spec => []ReplyIsMine
<1>1. MessageInv => ReplyIsMine
  BY DEF MessageInv
<1> QED
  BY <1>1, Invariance, PTL

-----------------------------------------------------------------------------
(* The slots of the requests.                                                *)

USE DEF mainVars, lockVars, appVars, asyncVars, heapVars, ioVars, Parts

(* A carrier carries a request; one whose request is open is a carrier.     *)
LEMMA Carriers ==
  ASSUME Parts, NEW p \in Ptr
  PROVE  /\ Fresh(p) => Carried(p)
         /\ Carried(p) => of[p] \in Request
<1>1. Fresh(p) => Carried(p)
  BY DEF Fresh, Carried, Undecided, Carries
<1>2. ASSUME NEW t \in App, Posting(t, p) PROVE of[p] \in Request
  BY <1>2 DEF Posting, CallerOwns, Request
<1>3. ASSUME NEW c \in Core, Queued(c, p) PROVE of[p] \in Request
  BY <1>3, SlotAssumption DEF Queued, QueueOwns, InFlight, TypeCaller
<1>4. ASSUME NEW c \in Core, Serving(c, p) PROVE of[p] \in Request
  BY <1>4, SlotAssumption DEF Serving, IOThreadOwns, InFlight, TypeCaller
<1> QED
  BY <1>1, <1>2, <1>3, <1>4 DEF Carried, Waiting

(* The message an IO thread works on is with that thread only.              *)
LEMMA OnlyServed ==
  ASSUME Parts, NEW c \in Core, cur[c] # Nil
  PROVE  /\ cur[c] \in Ptr /\ ~Waiting(cur[c])
         /\ \A d \in Core : Serving(d, cur[c]) => d = c
         /\ Carried(cur[c]) <=> Carries(c)
         /\ Fresh(cur[c]) <=> Undecided(c)
<1>1. cur[c] \in Ptr /\ Serving(c, cur[c])
  BY DEF TypeMain, Serving
<1>2. ~Waiting(cur[c])
  BY <1>1 DEF Waiting, SingleOwner
<1>3. \A d \in Core : Serving(d, cur[c]) => d = c
  BY <1>1 DEF SingleOwner
<1> QED
  BY <1>1, <1>2, <1>3 DEF Carried, Fresh

(* An IO thread that moves on changes the standing of its own message only.  *)
LEMMA IOMoves ==
  ASSUME Parts, NEW c \in Core, cur[c] # Nil, NEW x, io' = [io EXCEPT ![c] = x],
         UNCHANGED <<pc, msg, queue, cur>>
  PROVE  /\ \A p \in Ptr \ {cur[c]} : (Carried(p)' <=> Carried(p)) /\ (Fresh(p)' <=> Fresh(p))
         /\ Carried(cur[c])' <=> x \in {"lock", "layer", "complete", "real", "fake"}
         /\ Fresh(cur[c])' <=> x \in {"lock", "layer"}
<1>1. \A d \in Core : io'[d] = IF d = c THEN x ELSE io[d]
  BY DEF TypeMain
<1>2. \A p \in Ptr : Waiting(p)' <=> Waiting(p)
  BY DEF Waiting, Posting, Queued
<1>3. \A d \in Core, p \in Ptr : Serving(d, p)' <=> Serving(d, p)
  BY DEF Serving
<1>4. \A d \in Core \ {c} : (Carries(d)' <=> Carries(d)) /\ (Undecided(d)' <=> Undecided(d))
  BY <1>1 DEF Carries, Undecided
<1>5. /\ Carries(c)' <=> x \in {"lock", "layer", "complete", "real", "fake"}
      /\ Undecided(c)' <=> x \in {"lock", "layer"}
  BY <1>1 DEF Carries, Undecided
<1>6. \A p \in Ptr \ {cur[c]} : ~Serving(c, p)
  BY DEF Serving
<1>7. Serving(c, cur[c]) /\ ~Waiting(cur[c]) /\ cur[c] \in Ptr
  BY OnlyServed DEF Serving
<1>8. \A d \in Core : Serving(d, cur[c]) => d = c
  BY OnlyServed
<1>9. ASSUME NEW p \in Ptr \ {cur[c]}
      PROVE  (Carried(p)' <=> Carried(p)) /\ (Fresh(p)' <=> Fresh(p))
  BY <1>2, <1>3, <1>4, <1>6 DEF Carried, Fresh
<1>10. /\ Carried(cur[c])' <=> Carries(c)'
       /\ Fresh(cur[c])' <=> Undecided(c)'
  <2>1. cur'[c] = cur[c] /\ ~(Waiting(cur[c])')
    BY <1>2, <1>7
  <2>2. \A d \in Core : Serving(d, cur[c])' <=> d = c
    BY <1>3, <1>7, <1>8
  <2> QED
    BY <2>1, <2>2 DEF Carried, Fresh
<1> QED
  BY <1>5, <1>9, <1>10

(* Steps that decide nothing, hand nothing over and make no new carrier.      *)
LEMMA QuietStep ==
  ASSUME SlotInv, UNCHANGED <<pc, sub, block, appq, outcome>>,
         \A p \in Ptr : Carried(p)' => Carried(p) /\ of'[p] = of[p],
         \A p \in Ptr : Fresh(p)' => Fresh(p) /\ of'[p] = of[p],
         \A c \in Core : io'[c] \in {"complete", "real", "fake"} =>
           /\ io'[c] = io[c] \/ (io'[c] = "fake" /\ io[c] = "real")
           /\ Req(c)' = Req(c)
  PROVE  SlotInv'
<1>1. OneCarrier'
  BY DEF SlotInv, OneCarrier
<1>2. RealOwns' /\ Completions'
  BY DEF SlotInv, RealOwns, Completions
<1>3. Stages'
  BY DEF SlotInv, Stages
<1> QED
  BY <1>1, <1>2, <1>3 DEF SlotInv

(* Initially nothing is carried.                                             *)
LEMMA InitSlots == Init => SlotInv
<1> SUFFICES ASSUME Init PROVE SlotInv
  OBVIOUS
<1>1. \A p \in Ptr : ~Carried(p) /\ ~Fresh(p)
  BY SlotAssumption DEF Init, Carried, Fresh, Waiting, Posting, Queued, Serving
<1>2. OneCarrier /\ RealOwns /\ Stages
  BY <1>1 DEF Init, OneCarrier, RealOwns, Stages
<1>3. Completions
  BY DEF Init, Completions
<1> QED
  BY <1>2, <1>3 DEF SlotInv

-----------------------------------------------------------------------------
(* Main thread, plugins, and the IO threads where they only move on.          *)

LEMMA MainSlots ==
  ASSUME Parts, SlotInv, Main
  PROVE  SlotInv'
<1>1. CASE ApplicationStarts \/ ThreadIsSetup \/ ThreadsStarted \/ ApplicationEnds
           \/ ClearFSLayer \/ ThreadsStopped \/ CreateThreadFails
  <2>1. UNCHANGED <<pc, sub, msg, block, appq, outcome, of, io, cur, queue>>
    BY <1>1 DEF ApplicationStarts, ThreadIsSetup, ThreadsStarted, ApplicationEnds,
                ClearFSLayer, ThreadsStopped, CreateThreadFails, OSFatal
  <2> QED
    BY <2>1, QuietStep DEF Carried, Fresh, Waiting, Posting, Queued, Serving, Carries,
                           Undecided, Req
<1>2. CASE CreateThread
  <2>1. \A d \in Core : queue'[d] = IF d = coreId THEN <<>> ELSE queue[d]
    BY <1>2 DEF CreateThread, TypeQueue
  <2>2. \A d \in Core, p \in Ptr : Queued(d, p)' => Queued(d, p)
    BY <2>1, EmptySeq DEF Queued
  <2>3. \A d \in Core : io'[d] = IF d = coreId THEN "init" ELSE io[d]
    BY <1>2 DEF CreateThread, TypeMain
  <2>4. UNCHANGED <<pc, sub, msg, block, appq, outcome, of, cur>>
    BY <1>2 DEF CreateThread
  <2> QED
    BY <2>2, <2>3, <2>4, QuietStep
       DEF Carried, Fresh, Waiting, Posting, Serving, Carries, Undecided, Req
<1>3. CASE SendStop
  <2>1. \A d \in Core, p \in Ptr : Queued(d, p)' => Queued(d, p)
    <3>1. CASE HasRoom(coreId)
      <4>1. coreId \in Core /\ Put(coreId, STOP)
        BY <1>3, <3>1 DEF SendStop, PutStop, Put
      <4> QED
        BY <4>1, PutPlaces, SlotAssumption
    <3>2. CASE ~HasRoom(coreId)
      BY <1>3, <3>2 DEF SendStop, PutStop, Queued
    <3> QED
      BY <3>1, <3>2
  <2>2. UNCHANGED <<pc, sub, msg, block, appq, outcome, of, cur, io>>
    BY <1>3 DEF SendStop
  <2> QED
    BY <2>1, <2>2, QuietStep
       DEF Carried, Fresh, Waiting, Posting, Serving, Carries, Undecided, Req
<1>4. CASE JoinThread
  <2>1. \A d \in Core : io'[d] = IF d = coreId THEN "none" ELSE io[d]
    BY <1>4 DEF JoinThread, TypeMain
  <2>2. UNCHANGED <<pc, sub, msg, block, appq, outcome, of, cur, queue>>
    BY <1>4 DEF JoinThread
  <2> QED
    BY <2>1, <2>2, QuietStep
       DEF Carried, Fresh, Waiting, Posting, Queued, Serving, Carries, Undecided, Req
<1> QED
  BY <1>1, <1>2, <1>3, <1>4 DEF Main

(* What an IO thread does without deciding or handing over a request.        *)
LEMMA IOMoveSlots ==
  ASSUME Parts, SlotInv, NEW c \in Core, cur[c] # Nil, NEW x, io' = [io EXCEPT ![c] = x],
         x \in {"lock", "layer"} => Undecided(c),
         x \in {"complete", "real"} => io[c] = x,
         x = "fake" => io[c] \in {"real", "fake"},
         UNCHANGED <<pc, sub, msg, of, block, appq, outcome, queue, cur>>
  PROVE  SlotInv'
<1>1. \A p \in Ptr : (Carried(p)' => Carried(p)) /\ (Fresh(p)' => Fresh(p))
  BY IOMoves, OnlyServed DEF Carries, Undecided
<1>2. \A d \in Core : io'[d] = IF d = c THEN x ELSE io[d]
  BY DEF TypeMain
<1> QED
  BY <1>1, <1>2, QuietStep DEF Req

(* A message that was taken from a queue is where it was before: on its way.   *)
LEMMA ReceiveCommandSlots ==
  ASSUME Parts, SlotInv, NEW c \in Core, ReceiveCommand(c)
  PROVE  SlotInv'
<1>1. PICK m \in Ptr : m = Head(queue[c]) /\ Queued(c, m)
  BY TakenFacts DEF ReceiveCommand, Take, Queued
<1>2. \A d \in Core, p \in Ptr : Queued(d, p)' => Queued(d, p)
  BY TakenPlaces DEF ReceiveCommand, Take
<1>3. /\ \A d \in Core : io'[d] = IF d = c THEN "lock" ELSE io[d]
      /\ \A d \in Core : cur'[d] = IF d = c THEN m ELSE cur[d]
      /\ UNCHANGED <<pc, sub, msg, of, block, appq, outcome>>
  BY <1>1 DEF ReceiveCommand, TypeMain
<1>4. ASSUME NEW p \in Ptr
      PROVE  (Carried(p)' => Carried(p)) /\ (Fresh(p)' => Fresh(p))
  <2>1. Waiting(p)' => Waiting(p)
    BY <1>2, <1>3 DEF Waiting, Posting
  <2>2. p = m => Waiting(p)
    BY <1>1 DEF Waiting
  <2>3. CASE p = m
    BY <2>2, <2>3 DEF Carried, Fresh
  <2>4. CASE p # m
    <3>1. \A d \in Core : cur'[d] = p => cur[d] = p /\ io'[d] = io[d]
      BY <1>3, <2>4
    <3> QED
      BY <2>1, <3>1 DEF Carried, Fresh, Serving, Carries, Undecided
  <2> QED
    BY <2>3, <2>4
<1> QED
  BY <1>3, <1>4, QuietStep DEF Req

(* The IO thread takes STOP, which is nobody's request, or none at all.       *)
LEMMA IdleSlots ==
  ASSUME Parts, SlotInv, NEW c \in Core, InitQueue(c) \/ ReceiveStop(c)
  PROVE  SlotInv'
<1>1. \A d \in Core, p \in Ptr : Queued(d, p)' => Queued(d, p)
  <2>1. CASE InitQueue(c)
    <3>1. \A d \in Core : queue'[d] = IF d = c THEN <<>> ELSE queue[d]
      BY <2>1 DEF InitQueue, TypeQueue
    <3> QED
      BY <3>1, EmptySeq DEF Queued
  <2>2. CASE ReceiveStop(c)
    BY <2>2, TakenPlaces DEF ReceiveStop, Take
  <2> QED
    BY <2>1, <2>2
<1>2. \A d \in Core : io'[d] = io[d] \/ io'[d] \in {"recv", "exited"}
  BY DEF InitQueue, ReceiveStop, TypeMain
<1>3. UNCHANGED <<pc, sub, msg, block, appq, outcome, of, cur>>
  BY DEF InitQueue, ReceiveStop
<1> QED
  BY <1>1, <1>2, <1>3, QuietStep
     DEF Carried, Fresh, Waiting, Posting, Serving, Carries, Undecided, Req

(* The IO thread is done with its message.                                   *)
LEMMA DoneSlots ==
  ASSUME Parts, SlotInv, NEW c \in Core, SendReply(c) \/ FreeMessage(c)
  PROVE  SlotInv'
<1>1. /\ \A d \in Core : io'[d] = IF d = c THEN "recv" ELSE io[d]
      /\ \A d \in Core : cur'[d] = IF d = c THEN Nil ELSE cur[d]
      /\ UNCHANGED <<pc, sub, msg, queue, block, appq, outcome>>
  BY DEF SendReply, FreeMessage, TypeMain
<1>2. cur[c] # Nil /\ ~Carries(c)
  BY DEF SendReply, FreeMessage, IOThreadOwns, Carries
<1>3. \A p \in Ptr \ {cur[c]} : of'[p] = of[p]
  BY <1>2 DEF SendReply, FreeMessage, TypeCaller
<1>4. cur[c] \in Ptr /\ ~Carried(cur[c]) /\ ~Fresh(cur[c])
  BY <1>2, OnlyServed, Carriers
<1>5. ASSUME NEW p \in Ptr
      PROVE  (Carried(p)' => Carried(p)) /\ (Fresh(p)' => Fresh(p))
  <2>1. Waiting(p)' => Waiting(p)
    BY <1>1 DEF Waiting, Posting, Queued
  <2>2. \A d \in Core : cur'[d] = p => cur[d] = p /\ io'[d] = io[d]
    BY <1>1, SlotAssumption
  <2> QED
    BY <2>1, <2>2 DEF Carried, Fresh, Serving, Carries, Undecided
<1>6. \A d \in Core : io'[d] \in {"complete", "real", "fake"} => cur[d] # cur[c] /\ cur[d] \in Ptr
  BY <1>1, <1>2, OnlyServed DEF Serving, IOThreadOwns, TypeMain
<1> QED
  BY <1>1, <1>3, <1>4, <1>5, <1>6, QuietStep DEF Req

-----------------------------------------------------------------------------
(* Decisions: the request was open, and what carries another one is not        *)
(* concerned.                                                                *)

LEMMA OtherRequest ==
  ASSUME Parts, OneCarrier, NEW c \in Core, cur[c] # Nil, Carries(c),
         NEW p \in Ptr \ {cur[c]}, Carried(p)
  PROVE  of[p] # Req(c)
BY OnlyServed DEF OneCarrier, Req

(* The IO thread decides a request that nobody has decided.                    *)
LEMMA DecideSlots ==
  ASSUME Parts, SlotInv, NEW c \in Core, io[c] = "layer",
         NEW d \in {"layer", "real"}, outcome' = [outcome EXCEPT ![Req(c)] = d],
         NEW x \in {"freeParam", "complete", "real"}, io' = [io EXCEPT ![c] = x],
         x = "complete" => d = "layer", x = "real" => d = "real",
         UNCHANGED <<pc, sub, msg, of, block, appq, queue, cur>>
  PROVE  SlotInv'
<1>1. /\ cur[c] \in Ptr /\ cur[c] # Nil /\ Carries(c) /\ Carried(cur[c])
      /\ Req(c) \in Request /\ Req(c)' = Req(c)
  <2>1. cur[c] # Nil /\ Carries(c)
    BY DEF IOThreadOwns, Carries
  <2> QED
    BY <2>1, OnlyServed, Carriers DEF Req
<1>2. \A r \in Request : outcome'[r] = IF r = Req(c) THEN d ELSE outcome[r]
  BY <1>1 DEF TypeCaller
<1>3. \A p \in Ptr : (Carried(p)' => Carried(p)) /\ (Fresh(p)' => Fresh(p) /\ p # cur[c])
  BY <1>1, IOMoves
<1>4. \A e \in Core : io'[e] = IF e = c THEN x ELSE io[e]
  BY DEF TypeMain
<1>5. OneCarrier'
  BY <1>3 DEF SlotInv, OneCarrier
<1>6. RealOwns'
  <2>1. \A t \in App : pc[t] = "real" => sub[t] # Req(c) /\ sub[t] \in Request
    BY <1>1 DEF SlotInv, OneCarrier, RealOwns, Req, Request
  <2>2. \A t \in App : pc[t] = "real" => outcome'[sub[t]] = outcome[sub[t]]
    BY <1>2, <2>1
  <2> QED
    BY <2>2 DEF SlotInv, RealOwns
<1>7. Stages'
  <2>1. ASSUME NEW p \in Ptr, Fresh(p)' PROVE outcome'[of[p]] = Nil
    <3>1. Fresh(p) /\ p # cur[c] /\ Carried(p) /\ of[p] \in Request
      BY <1>3, <2>1, Carriers
    <3>2. of[p] # Req(c)
      BY <1>1, <3>1, OtherRequest DEF SlotInv
    <3> QED
      BY <1>2, <3>1, <3>2 DEF SlotInv, Stages
  <2>2. ASSUME NEW e \in Core \ {c}, io[e] \in {"complete", "real", "fake"}
        PROVE  outcome'[Req(e)] = outcome[Req(e)]
    <3>1. cur[e] # Nil /\ Carries(e)
      BY <2>2 DEF IOThreadOwns, Carries
    <3>2. cur[e] # cur[c]
      BY <1>1, OnlyServed DEF Serving
    <3>3. cur[e] \in Ptr /\ Carried(cur[e]) /\ Req(e) \in Request
      BY <3>1, OnlyServed, Carriers DEF Req
    <3>4. Req(e) # Req(c)
      BY <1>1, <3>2, <3>3, OtherRequest DEF SlotInv, Req
    <3> QED
      BY <1>2, <3>3, <3>4
  <2>3. ASSUME NEW e \in Core
        PROVE  /\ io'[e] = "complete" => outcome'[Req(e)'] = "layer"
               /\ io'[e] \in {"real", "fake"} => outcome'[Req(e)'] = "real"
    <3>1. CASE e = c
      BY <1>1, <1>2, <1>4, <3>1
    <3>2. CASE e # c
      <4>1. Req(e)' = Req(e)
        BY DEF Req
      <4> QED
        BY <1>4, <2>2, <3>2, <4>1 DEF SlotInv, Stages
    <3> QED
      BY <3>1, <3>2
  <2>4. \A b \in Block : block'[b] \in {"os", "done"} => outcome'[b] # Nil
    BY <1>2, SlotAssumption DEF SlotInv, Stages, Request
  <2> QED
    BY <2>1, <2>3, <2>4 DEF Stages
<1>8. Completions'
  BY DEF SlotInv, Completions
<1> QED
  BY <1>5, <1>6, <1>7, <1>8 DEF SlotInv

-----------------------------------------------------------------------------
(* Handing a block over: to the console, or back to the application.           *)

LEMMA HandOver ==
  ASSUME Parts, SlotInv, NEW c \in Core, io[c] \in {"complete", "real", "fake"},
         Req(c) \in Block,
         NEW s \in {"os", "done"}, block' = [block EXCEPT ![Req(c)] = s],
         io' = [io EXCEPT ![c] = "freeParam"],
         UNCHANGED <<pc, sub, msg, of, outcome, queue, cur>>
  PROVE  /\ block[Req(c)] = "module"
         /\ OneCarrier' /\ RealOwns' /\ Stages'
<1>1. cur[c] \in Ptr /\ cur[c] # Nil /\ Carries(c) /\ Carried(cur[c])
  <2>1. cur[c] # Nil /\ Carries(c)
    BY DEF IOThreadOwns, Carries
  <2> QED
    BY <2>1, OnlyServed
<1>2. block[Req(c)] = "module"
  BY <1>1 DEF SlotInv, OneCarrier, Req
<1>3. \A b \in Block : block'[b] = IF b = Req(c) THEN s ELSE block[b]
  BY DEF TypeAsync
<1>4. \A p \in Ptr : (Carried(p)' => Carried(p) /\ p # cur[c]) /\ (Fresh(p)' => Fresh(p))
  <2>1. /\ \A p \in Ptr \ {cur[c]} : (Carried(p)' <=> Carried(p)) /\ (Fresh(p)' <=> Fresh(p))
        /\ ~Carried(cur[c])' /\ ~Fresh(cur[c])'
    BY <1>1, IOMoves
  <2> QED
    BY <2>1
<1>5. \A e \in Core : io'[e] = IF e = c THEN "freeParam" ELSE io[e]
  BY DEF TypeMain
<1>6. OneCarrier'
  <2>1. ASSUME NEW p \in Ptr, Carried(p)', of[p] \in Block PROVE block'[of[p]] = "module"
    <3>1. Carried(p) /\ of[p] # Req(c)
      BY <1>1, <1>4, <2>1, OtherRequest DEF SlotInv
    <3> QED
      BY <1>3, <2>1, <3>1 DEF SlotInv, OneCarrier
  <2> QED
    BY <1>4, <2>1 DEF SlotInv, OneCarrier
<1>7. RealOwns'
  <2>1. \A t \in App : pc[t] = "real" => sub[t] # Req(c)
    BY <1>1 DEF SlotInv, OneCarrier, Req
  <2> QED
    BY <1>3, <2>1 DEF SlotInv, RealOwns
<1>8. Stages'
  <2>1. outcome[Req(c)] # Nil
    BY SlotAssumption DEF SlotInv, Stages
  <2>2. \A b \in Block : block'[b] \in {"os", "done"} => outcome'[b] # Nil
    BY <1>3, <2>1 DEF SlotInv, Stages
  <2>3. \A e \in Core : Req(e)' = Req(e)
    BY DEF Req
  <2> QED
    BY <1>4, <1>5, <2>2, <2>3 DEF SlotInv, Stages
<1> QED
  BY <1>2, <1>6, <1>7, <1>8

(* A completion is put once into the application's queue.                     *)
LEMMA CompletionPut ==
  ASSUME TypeAsync, Completions, NEW b \in Block, block[b] # "done",
         appq' = Append(appq, b), block' = [block EXCEPT ![b] = "done"]
  PROVE  Completions'
<1>1. /\ Len(appq) \in Nat /\ Len(appq') = Len(appq) + 1
      /\ \A i \in 1 .. Len(appq) : appq'[i] = appq[i]
      /\ appq'[Len(appq) + 1] = b
  BY AppendFacts DEF TypeAsync
<1>2. \A e \in Block : block'[e] = IF e = b THEN "done" ELSE block[e]
  BY DEF TypeAsync
<1>3. \A i \in 1 .. Len(appq) : appq[i] # b
  BY DEF Completions
<1>4. \A i \in 1 .. Len(appq') : i \in 1 .. Len(appq) \/ i = Len(appq) + 1
  BY <1>1
<1>5. \A i, j \in 1 .. Len(appq') : appq'[i] = appq'[j] => i = j
  BY <1>1, <1>3, <1>4 DEF Completions
<1>6. ASSUME NEW e \in Block
      PROVE  block'[e] = "done" <=> \E i \in 1 .. Len(appq') : appq'[i] = e
  <2>1. CASE e = b
    <3>1. Len(appq) + 1 \in 1 .. Len(appq')
      BY <1>1
    <3> QED
      BY <1>1, <1>2, <2>1, <3>1
  <2>2. CASE e # b
    <3>1. (\E i \in 1 .. Len(appq') : appq'[i] = e) <=> (\E i \in 1 .. Len(appq) : appq[i] = e)
      <4>1. 1 .. Len(appq) \subseteq 1 .. Len(appq')
        BY <1>1
      <4> QED
        BY <1>1, <1>4, <2>2, <4>1
    <3> QED
      BY <1>2, <2>2, <3>1 DEF Completions
  <2> QED
    BY <2>1, <2>2
<1> QED
  BY <1>5, <1>6 DEF Completions

(* AppReceives takes the first completion, and the block is taken once.       *)
LEMMA CompletionTaken ==
  ASSUME TypeAsync, Completions, appq # <<>>,
         appq' = Tail(appq), block' = [block EXCEPT ![Head(appq)] = "app"]
  PROVE  Completions' /\ Head(appq) \in Block /\ block[Head(appq)] = "done"
<1>1. /\ Len(appq) \in Nat /\ Len(appq) > 0
      /\ Head(appq) \in Block /\ Head(appq) = appq[1]
      /\ Len(appq') = Len(appq) - 1
      /\ \A i \in 1 .. Len(appq') : appq'[i] = appq[i + 1]
  BY TakeFacts DEF TypeAsync
<1>2. \A e \in Block : block'[e] = IF e = Head(appq) THEN "app" ELSE block[e]
  BY DEF TypeAsync
<1>3. 1 \in 1 .. Len(appq) /\ \A i \in 1 .. Len(appq') : i + 1 \in 1 .. Len(appq) /\ i + 1 # 1
  BY <1>1
<1>4. \A i \in 1 .. Len(appq') : appq'[i] # Head(appq)
  BY <1>1, <1>3 DEF Completions
<1>5. \A i, j \in 1 .. Len(appq') : appq'[i] = appq'[j] => i = j
  <2>1. ASSUME NEW i \in 1 .. Len(appq'), NEW j \in 1 .. Len(appq'), appq'[i] = appq'[j]
        PROVE  i + 1 = j + 1
    BY <1>1, <1>3, <2>1 DEF Completions
  <2> QED
    BY <2>1
<1>6. ASSUME NEW e \in Block
      PROVE  block'[e] = "done" <=> \E i \in 1 .. Len(appq') : appq'[i] = e
  <2>1. CASE e = Head(appq)
    BY <1>2, <1>4, <2>1
  <2>2. CASE e # Head(appq)
    <3>1. ASSUME NEW i \in 1 .. Len(appq), appq[i] = e
          PROVE  \E j \in 1 .. Len(appq') : appq'[j] = e
      <4>1. i # 1
        BY <1>1, <2>2, <3>1
      <4>2. i - 1 \in 1 .. Len(appq') /\ (i - 1) + 1 = i
        BY <1>1, <4>1
      <4> QED
        BY <1>1, <3>1, <4>2
    <3>2. ASSUME NEW j \in 1 .. Len(appq'), appq'[j] = e
          PROVE  \E i \in 1 .. Len(appq) : appq[i] = e
      BY <1>1, <1>3, <3>2
    <3> QED
      BY <1>2, <2>2, <3>1, <3>2 DEF Completions
  <2> QED
    BY <2>1, <2>2
<1>7. block[Head(appq)] = "done"
  BY <1>1, <1>3 DEF Completions
<1> QED
  BY <1>1, <1>5, <1>6, <1>7 DEF Completions

(* A block that nobody carries changes hands outside the module.              *)
LEMMA BlockElsewhere ==
  ASSUME Parts, SlotInv, NEW b \in Block, block[b] # "module",
         NEW s \in {"app", "os", "done"}, block' = [block EXCEPT ![b] = s],
         NEW d \in {Nil, "layer", "real"}, outcome' = [outcome EXCEPT ![b] = d],
         s \in {"os", "done"} => d # Nil,
         UNCHANGED <<pc, sub, msg, of, io, queue, cur>>
  PROVE  OneCarrier' /\ RealOwns' /\ Stages'
<1>1. /\ \A e \in Block : block'[e] = IF e = b THEN s ELSE block[e]
      /\ \A r \in Request : outcome'[r] = IF r = b THEN d ELSE outcome[r]
  BY DEF TypeAsync, TypeCaller, Request
<1>2. \A p \in Ptr : (Carried(p)' <=> Carried(p)) /\ (Fresh(p)' <=> Fresh(p))
  BY DEF Carried, Fresh, Waiting, Posting, Queued, Serving, Carries, Undecided
<1>3. \A p \in Ptr : Carried(p) => of[p] # b /\ of[p] \in Request
  BY Carriers DEF SlotInv, OneCarrier
<1>4. OneCarrier'
  BY <1>1, <1>2, <1>3 DEF SlotInv, OneCarrier
<1>5. RealOwns'
  <2>1. \A t \in App : pc[t] = "real" => sub[t] # b /\ sub[t] \in Request
    BY DEF SlotInv, RealOwns, Request
  <2> QED
    BY <1>1, <2>1 DEF SlotInv, RealOwns
<1>6. Stages'
  <2>1. ASSUME NEW p \in Ptr, Fresh(p)' PROVE outcome'[of[p]] = Nil
    <3>1. Fresh(p) /\ of[p] # b /\ of[p] \in Request
      BY <1>2, <1>3, <2>1, Carriers
    <3> QED
      BY <1>1, <3>1 DEF SlotInv, Stages
  <2>2. ASSUME NEW e \in Core, io[e] \in {"complete", "real", "fake"}
        PROVE  outcome'[Req(e)] = outcome[Req(e)]
    <3>1. cur[e] # Nil /\ Carries(e)
      BY <2>2 DEF IOThreadOwns, Carries
    <3>2. Req(e) # b /\ Req(e) \in Request
      BY <1>3, <3>1, OnlyServed DEF Req
    <3> QED
      BY <1>1, <3>2
  <2>3. \A e \in Core : Req(e)' = Req(e)
    BY DEF Req
  <2>4. \A e \in Block : block'[e] \in {"os", "done"} => outcome'[e] # Nil
    BY <1>1 DEF SlotInv, Stages, Request
  <2> QED
    BY <2>1, <2>2, <2>3, <2>4 DEF SlotInv, Stages
<1> QED
  BY <1>4, <1>5, <1>6

(* The console's completion and the application's receipt of one.             *)
LEMMA OSCompletesSlots ==
  ASSUME Parts, SlotInv, NEW b \in Block, OSCompletes(b)
  PROVE  SlotInv'
<1>1. block[b] = "os" /\ outcome[b] \in {"layer", "real"} /\ b \in Request
  BY DEF OSCompletes, SlotInv, Stages, TypeCaller, Request
<1>2. outcome' = [outcome EXCEPT ![b] = outcome[b]]
  BY DEF OSCompletes, TypeCaller
<1>3. OneCarrier' /\ RealOwns' /\ Stages'
  BY <1>1, <1>2, SlotAssumption, BlockElsewhere DEF OSCompletes
<1>4. Completions'
  BY <1>1, CompletionPut DEF OSCompletes, SlotInv
<1> QED
  BY <1>3, <1>4 DEF SlotInv

(* The caller takes its answer out of the slot.                                *)
LEMMA AppReceivesSlots ==
  ASSUME Parts, SlotInv, AppReceives
  PROVE  SlotInv'
<1>1. Completions' /\ Head(appq) \in Block /\ block[Head(appq)] = "done"
  BY CompletionTaken DEF AppReceives, SlotInv
<1>2. OneCarrier' /\ RealOwns' /\ Stages'
  BY <1>1, BlockElsewhere DEF AppReceives
<1> QED
  BY <1>1, <1>2 DEF SlotInv

(* A completion by the callback, or by the module after a failed submission.  *)
LEMMA CompleteSlots ==
  ASSUME Parts, SlotInv, NEW c \in Core, CompleteAsync(c) \/ CompleteFake(c)
  PROVE  SlotInv'
<1>1. /\ io[c] \in {"complete", "fake"} /\ Req(c) \in Block /\ cur[c] # Nil
      /\ io' = [io EXCEPT ![c] = "freeParam"]
      /\ UNCHANGED <<pc, sub, msg, of, outcome, queue, cur>>
  BY DEF CompleteAsync, CompleteFake, AfterCallback, IOThreadOwns
<1>2. SendCompletion(c) \/ TellNobody(c)
  BY DEF CompleteAsync, CompleteFake
<1>3. CASE SendCompletion(c)
  <2>1. appq' = Append(appq, Req(c)) /\ block' = [block EXCEPT ![Req(c)] = "done"]
    BY <1>3 DEF SendCompletion
  <2>2. block[Req(c)] = "module" /\ OneCarrier' /\ RealOwns' /\ Stages'
    BY <1>1, <2>1, HandOver
  <2>3. Completions'
    BY <1>1, <2>1, <2>2, CompletionPut DEF SlotInv
  <2> QED
    BY <2>2, <2>3 DEF SlotInv
<1>4. CASE TellNobody(c)
  BY <1>1, <1>4, IOMoveSlots DEF TellNobody, asyncVars
<1> QED
  BY <1>2, <1>3, <1>4

(* processShimBufferForFS: the console has the block, or the module goes on.  *)
LEMMA SubmitRealSlots ==
  ASSUME Parts, SlotInv, NEW c \in Core, SubmitReal(c)
  PROVE  SlotInv'
<1>1. /\ io[c] = "real" /\ Req(c) \in Block /\ cur[c] # Nil
      /\ outcome[Req(c)] = "real" /\ Req(c) \in Request
      /\ UNCHANGED <<pc, sub, msg, of, appq, queue, cur>>
  BY DEF SubmitReal, IOThreadOwns, SlotInv, Stages, Request
<1>2. PICK ok \in BOOLEAN :
        /\ io' = [io EXCEPT ![c] = AfterSubmit(ok)]
        /\ IF ok THEN /\ block' = [block EXCEPT ![Req(c)] = "os"]
                      /\ outcome' = [outcome EXCEPT ![Req(c)] = "real"]
                 ELSE UNCHANGED <<block, outcome>>
  BY DEF SubmitReal
<1>3. outcome' = outcome
  BY <1>1, <1>2 DEF TypeCaller
<1>4. CASE ok
  <2>1. io' = [io EXCEPT ![c] = "freeParam"] /\ block' = [block EXCEPT ![Req(c)] = "os"]
    BY <1>2, <1>4 DEF AfterSubmit
  <2>2. block[Req(c)] = "module" /\ OneCarrier' /\ RealOwns' /\ Stages'
    BY <1>1, <1>3, <2>1, HandOver
  <2>3. \A b \in Block : block'[b] = "done" <=> block[b] = "done"
    BY <1>1, <2>1, <2>2 DEF TypeAsync
  <2>4. Completions'
    BY <1>1, <2>3 DEF SlotInv, Completions
  <2> QED
    BY <2>2, <2>4 DEF SlotInv
<1>5. CASE ~ok
  <2>1. io' = [io EXCEPT ![c] = "fake"] /\ UNCHANGED <<block, outcome>>
    BY <1>2, <1>5 DEF AfterSubmit
  <2> QED
    BY <1>1, <2>1, IOMoveSlots
<1> QED
  BY <1>4, <1>5

(* Every step of an IO thread keeps the slots in order.                       *)
LEMMA IOThreadSlots ==
  ASSUME Parts, SlotInv, NEW c \in Core, IOThread(c)
  PROVE  SlotInv'
<1>1. CASE InitQueue(c) \/ ReceiveStop(c)
  BY <1>1, IdleSlots
<1>2. CASE ReceiveCommand(c)
  BY <1>2, ReceiveCommandSlots
<1>3. CASE LockLayers(c)
  <2>1. cur[c] # Nil /\ Undecided(c)
    BY <1>3 DEF LockLayers, IOThreadOwns, Undecided
  <2> QED
    BY <1>3, <2>1, IOMoveSlots DEF LockLayers
<1>4. CASE NestedCall(c)
  <2>1. cur[c] # Nil /\ Undecided(c)
    BY <1>4 DEF NestedCall, IOThreadOwns, Undecided
  <2> QED
    BY <1>4, <2>1, IOMoveSlots DEF NestedCall
<1>5. CASE NestedReturn(c)
  <2>1. UNCHANGED <<pc, sub, msg, of, io, block, appq, outcome, queue, cur>>
    BY <1>5 DEF NestedReturn
  <2> QED
    BY <2>1, QuietStep DEF Carried, Fresh, Waiting, Posting, Queued, Serving, Carries,
                           Undecided, Req
<1>6. CASE AnswerSync(c)
  BY <1>6, DecideSlots DEF AnswerSync
<1>7. CASE AnswerAsync(c)
  BY <1>7, DecideSlots DEF AnswerAsync
<1>8. CASE AnswerFatal(c) \/ BothSet(c)
  <2>1. UNCHANGED <<pc, sub, msg, of, io, block, appq, outcome, queue, cur>>
    BY <1>8 DEF AnswerFatal, BothSet, OSFatal
  <2> QED
    BY <2>1, QuietStep DEF Carried, Fresh, Waiting, Posting, Queued, Serving, Carries,
                           Undecided, Req
<1>9. CASE AllPass(c)
  <2>1. CASE Sync(c)
    BY <1>9, <2>1, DecideSlots DEF AllPass
  <2>2. CASE ~Sync(c)
    BY <1>9, <2>2, DecideSlots DEF AllPass
  <2> QED
    BY <2>1, <2>2
<1>10. CASE CompleteAsync(c) \/ CompleteFake(c)
  BY <1>10, CompleteSlots
<1>11. CASE SubmitReal(c)
  BY <1>11, SubmitRealSlots
<1>12. CASE FreeParam(c)
  <2>1. cur[c] # Nil
    BY <1>12 DEF FreeParam, IOThreadOwns
  <2>2. CASE Sync(c)
    BY <1>12, <2>1, <2>2, IOMoveSlots DEF FreeParam
  <2>3. CASE ~Sync(c)
    BY <1>12, <2>1, <2>3, IOMoveSlots DEF FreeParam
  <2> QED
    BY <2>2, <2>3
<1>13. CASE SendReply(c) \/ FreeMessage(c)
  BY <1>13, DoneSlots
<1> QED
  BY <1>1, <1>2, <1>3, <1>4, <1>5, <1>6, <1>7, <1>8, <1>9, <1>10, <1>11, <1>12, <1>13
     DEF IOThread

-----------------------------------------------------------------------------
(* Application threads.                                                       *)

(* A request enters: nobody carried it, for its slot was idle.                *)
LEMMA WrapSlots ==
  ASSUME Parts, Parts', SlotInv, NEW t \in App, NEW r \in {t} \cup Block, Wrap(t, r)
  PROVE  SlotInv'
<1>1. PICK m \in Malloc(Unused) : /\ heap' = heap \cup ({m} \X Objects)
                                  /\ of' = [of EXCEPT ![m] = r]
                                  /\ msg' = [msg EXCEPT ![t] = m]
  BY DEF Wrap
<1>2. m \in Ptr
  BY MallocAssumption DEF Unused
<1>3. pc[t] = "idle" /\ r \in Request /\ (r \in Block => block[r] = "app")
  BY DEF Wrap, MayCall, Request
<1>4. /\ \A u \in App : pc'[u] = IF u = t THEN "post" ELSE pc[u]
      /\ \A u \in App : msg'[u] = IF u = t THEN m ELSE msg[u]
      /\ \A u \in App : sub'[u] = IF u = t THEN r ELSE sub[u]
      /\ \A p \in Ptr : of'[p] = IF p = m THEN r ELSE of[p]
      /\ \A x \in Request : outcome'[x] = IF x = r THEN Nil ELSE outcome[x]
      /\ \A b \in Block : block'[b] = IF b = r THEN "module" ELSE block[b]
      /\ UNCHANGED <<appq, io, queue, cur>>
  BY <1>1, <1>2 DEF Wrap, TypeCaller, TypeAsync, Request
<1>5. \A c \in Core : ~Serving(c, m) /\ ~Queued(c, m)
  <2>1. Posting(t, m)'
    BY <1>4 DEF Posting
  <2>2. \A c \in Core : (~Serving(c, m) /\ ~Queued(c, m))'
    BY <1>2, <2>1 DEF SingleOwner
  <2> QED
    BY <1>4, <2>2 DEF Serving, Queued
<1>6. ASSUME NEW p \in Ptr \ {m}
      PROVE  (Carried(p)' => Carried(p)) /\ (Fresh(p)' => Fresh(p))
  <2>1. \A u \in App : pc'[u] = "post" /\ msg'[u] = p => pc[u] = "post" /\ msg[u] = p
    BY <1>4
  <2> QED
    BY <1>4, <2>1 DEF Carried, Fresh, Waiting, Posting, Queued, Serving, Carries, Undecided
<1>7. \A p \in Ptr : Carried(p) => of[p] # r
  <2>1. CASE r \in Block
    BY <1>3, <2>1 DEF SlotInv, OneCarrier
  <2>2. CASE r = t
    <3>1. ASSUME NEW u \in App, NEW p \in Ptr, Posting(u, p) PROVE of[p] # t
      <4>1. u # t /\ t \notin Block /\ of[p] \in {u} \cup Block
        BY <1>3, <3>1, SlotAssumption DEF Posting, CallerOwns
      <4> QED
        BY <4>1
    <3>2. \A c \in Core, p \in Ptr : Queued(c, p) => of[p] # t
      BY <1>3, SlotAssumption DEF Queued, QueueOwns, InFlight, Awaited
    <3>3. \A c \in Core, p \in Ptr : Serving(c, p) => of[p] # t
      BY <1>3, SlotAssumption DEF Serving, IOThreadOwns, InFlight, Awaited
    <3> QED
      BY <2>2, <3>1, <3>2, <3>3 DEF Carried, Waiting
  <2> QED
    BY <2>1, <2>2
<1>8. \A u \in App : pc[u] = "real" => sub[u] # r /\ sub[u] \in Request
  BY <1>3 DEF SlotInv, RealOwns, Request
<1>9. OneCarrier'
  <2>1. ASSUME NEW p \in Ptr, Carried(p)'
        PROVE  /\ of'[p] \in Block => block'[of'[p]] = "module"
               /\ \A q \in Ptr : Carried(q)' /\ of'[q] = of'[p] => q = p
               /\ \A u \in App : pc'[u] = "real" => sub'[u] # of'[p]
    <3>1. CASE p = m
      BY <1>2, <1>4, <1>6, <1>7, <1>8, <3>1
    <3>2. CASE p # m
      <4>1. Carried(p) /\ of'[p] = of[p] /\ of[p] # r
        BY <1>4, <1>6, <1>7, <2>1, <3>2
      <4> QED
        BY <1>2, <1>4, <1>6, <4>1 DEF SlotInv, OneCarrier
    <3> QED
      BY <3>1, <3>2
  <2> QED
    BY <2>1 DEF OneCarrier
<1>10. RealOwns'
  BY <1>4, <1>8 DEF SlotInv, RealOwns
<1>11. Stages'
  <2>1. ASSUME NEW p \in Ptr, Fresh(p)' PROVE outcome'[of'[p]] = Nil
    <3>1. CASE p = m
      BY <1>2, <1>3, <1>4, <3>1
    <3>2. CASE p # m
      <4>1. Fresh(p) /\ of'[p] = of[p] /\ of[p] # r /\ of[p] \in Request
        BY <1>4, <1>6, <1>7, <2>1, <3>2, Carriers
      <4> QED
        BY <1>4, <4>1 DEF SlotInv, Stages
    <3> QED
      BY <3>1, <3>2
  <2>2. ASSUME NEW e \in Core, io[e] \in {"complete", "real", "fake"}
        PROVE  Req(e)' = Req(e) /\ outcome'[Req(e)] = outcome[Req(e)]
    <3>1. cur[e] # Nil /\ Carries(e)
      BY <2>2 DEF IOThreadOwns, Carries
    <3>2. cur[e] \in Ptr /\ cur[e] # m /\ Req(e) # r /\ Req(e) \in Request
      BY <1>5, <1>7, <3>1, OnlyServed, Carriers DEF Req, Serving
    <3> QED
      BY <1>4, <3>2 DEF Req
  <2>3. \A b \in Block : block'[b] \in {"os", "done"} => outcome'[b] # Nil
    BY <1>4 DEF SlotInv, Stages, Request
  <2> QED
    BY <1>4, <2>1, <2>2, <2>3 DEF SlotInv, Stages
<1>12. Completions'
  <2>1. \A b \in Block : block'[b] = "done" <=> block[b] = "done"
    BY <1>3, <1>4
  <2> QED
    BY <1>4, <2>1 DEF SlotInv, Completions
<1> QED
  BY <1>9, <1>10, <1>11, <1>12 DEF SlotInv

(* No IO thread runs: the real function is called for an idle slot.           *)
LEMMA SkipSlots ==
  ASSUME Parts, SlotInv, NEW t \in App, NEW r \in {t} \cup Block, Skip(t, r)
  PROVE  SlotInv'
<1>1. pc[t] = "idle" /\ r \in Request /\ (r \in Block => block[r] = "app")
  BY DEF Skip, MayCall, Request
<1>2. /\ \A u \in App : pc'[u] = IF u = t THEN "real" ELSE pc[u]
      /\ \A u \in App : sub'[u] = IF u = t THEN r ELSE sub[u]
      /\ \A x \in Request : outcome'[x] = IF x = r THEN "real" ELSE outcome[x]
      /\ \A b \in Block : block'[b] = IF b = r THEN "module" ELSE block[b]
      /\ UNCHANGED <<msg, of, appq, io, queue, cur>>
  BY <1>1 DEF Skip, TypeCaller, TypeAsync, Request
<1>3. \A p \in Ptr : (Carried(p)' <=> Carried(p)) /\ (Fresh(p)' <=> Fresh(p))
  <2>1. \A u \in App : pc'[u] = "post" <=> pc[u] = "post"
    BY <1>1, <1>2
  <2> QED
    BY <1>2, <2>1 DEF Carried, Fresh, Waiting, Posting, Queued, Serving, Carries, Undecided
<1>4. \A p \in Ptr : Carried(p) => of[p] # r /\ of[p] \in Request
  <2>1. CASE r \in Block
    BY <1>1, <2>1, Carriers DEF SlotInv, OneCarrier
  <2>2. CASE r = t
    <3>1. ASSUME NEW u \in App, NEW p \in Ptr, Posting(u, p) PROVE of[p] # t
      <4>1. u # t /\ t \notin Block /\ of[p] \in {u} \cup Block
        BY <1>1, <3>1, SlotAssumption DEF Posting, CallerOwns
      <4> QED
        BY <4>1
    <3>2. \A c \in Core, p \in Ptr : Queued(c, p) => of[p] # t
      BY <1>1, SlotAssumption DEF Queued, QueueOwns, InFlight, Awaited
    <3>3. \A c \in Core, p \in Ptr : Serving(c, p) => of[p] # t
      BY <1>1, SlotAssumption DEF Serving, IOThreadOwns, InFlight, Awaited
    <3> QED
      BY <2>2, <3>1, <3>2, <3>3, Carriers DEF Carried, Waiting
  <2> QED
    BY <2>1, <2>2
<1>5. \A u \in App : pc[u] = "real" => sub[u] # r /\ sub[u] \in Request
  BY <1>1, SlotAssumption DEF SlotInv, RealOwns, Request
<1>6. OneCarrier'
  BY <1>2, <1>3, <1>4 DEF SlotInv, OneCarrier
<1>7. RealOwns'
  BY <1>1, <1>2, <1>5 DEF SlotInv, RealOwns
<1>8. Stages'
  <2>1. \A p \in Ptr : Fresh(p)' => outcome'[of[p]] = Nil
    BY <1>2, <1>3, <1>4, Carriers DEF SlotInv, Stages
  <2>2. ASSUME NEW e \in Core, io[e] \in {"complete", "real", "fake"}
        PROVE  outcome'[Req(e)] = outcome[Req(e)]
    <3>1. cur[e] # Nil /\ Carries(e)
      BY <2>2 DEF IOThreadOwns, Carries
    <3>2. Req(e) # r /\ Req(e) \in Request
      BY <1>4, <3>1, OnlyServed DEF Req
    <3> QED
      BY <1>2, <3>2
  <2>3. \A b \in Block : block'[b] \in {"os", "done"} => outcome'[b] # Nil
    BY <1>2 DEF SlotInv, Stages, Request
  <2>4. \A e \in Core : Req(e)' = Req(e)
    BY <1>2 DEF Req
  <2> QED
    BY <1>2, <2>1, <2>2, <2>3, <2>4 DEF SlotInv, Stages
<1>9. Completions'
  <2>1. \A b \in Block : block'[b] = "done" <=> block[b] = "done"
    BY <1>1, <1>2
  <2> QED
    BY <1>2, <2>1 DEF SlotInv, Completions
<1> QED
  BY <1>6, <1>7, <1>8, <1>9 DEF SlotInv

(* A message that is posted is queued: it still has one carrier.              *)
LEMMA PostSlots ==
  ASSUME Parts, SlotInv, NEW t \in App, NEW c \in Core, Post(t, c)
  PROVE  SlotInv'
<1>1. PICK m \in Ptr : m = msg[t] /\ Posting(t, m)
  <2>1. msg[t] # Nil
    BY DEF Post, CallerOwns
  <2> QED
    BY <2>1 DEF Post, Posting, TypeCaller
<1>2. \A d \in Core, p \in Ptr : Queued(d, p)' => Queued(d, p) \/ p = m
  BY <1>1, PutPlaces DEF Post, Put
<1>3. pc[t] = "post" /\ sub[t] \in {t} \cup Block /\ (sub[t] \in App => sub[t] = t)
  BY SlotAssumption DEF Post, CallerOwns
<1>4. /\ \A u \in App \ {t} : pc'[u] = pc[u] /\ msg'[u] = msg[u] /\ sub'[u] = sub[u]
      /\ pc'[t] \in {"wait", "idle"}
      /\ pc'[t] = "wait" => sub'[t] = t
      /\ UNCHANGED <<of, block, appq, outcome, io, cur>>
  BY <1>3 DEF Post, TypeCaller
<1>5. ASSUME NEW p \in Ptr
      PROVE  (Carried(p)' => Carried(p)) /\ (Fresh(p)' => Fresh(p))
  <2>1. Waiting(m)
    BY <1>1 DEF Waiting
  <2>2. CASE p = m
    BY <2>1, <2>2 DEF Carried, Fresh
  <2>3. CASE p # m
    <3>1. \A u \in App : pc'[u] = "post" /\ msg'[u] = p => pc[u] = "post" /\ msg[u] = p
      BY <1>4
    <3> QED
      BY <1>2, <1>4, <2>3, <3>1 DEF Carried, Fresh, Waiting, Posting, Serving, Carries, Undecided
  <2> QED
    BY <2>2, <2>3
<1>6. \A u \in App : pc'[u] = "real" => pc[u] = "real" /\ sub'[u] = sub[u]
  BY <1>4
<1>7. OneCarrier'
  BY <1>4, <1>5, <1>6 DEF SlotInv, OneCarrier
<1>8. RealOwns'
  BY <1>4 DEF SlotInv, RealOwns
<1>9. Stages' /\ Completions'
  BY <1>4, <1>5 DEF SlotInv, Stages, Completions, Req
<1> QED
  BY <1>7, <1>8, <1>9 DEF SlotInv

(* The thread that takes its reply waited for no carrier: the message was      *)
(* served.  What was decided as "real" it runs itself.                        *)
LEMMA ReceiveReplySlots ==
  ASSUME Parts, SlotInv, NEW t \in App, ReceiveReply(t)
  PROVE  SlotInv'
<1>1. PICK m \in Ptr : msg[t] = m
  <2>1. msg[t] # Nil
    BY DEF ReceiveReply, CallerOwns
  <2> QED
    BY <2>1 DEF TypeCaller
<1>2. pc[t] = "wait" /\ reply[m] # Nil /\ of[m] = t /\ sub[t] = t /\ t \in Request
  BY <1>1 DEF ReceiveReply, HasReply, CallerOwns, SlotInv, RealOwns, Request
<1>3. /\ \A c \in Core : ~Serving(c, m) /\ ~Queued(c, m)
      /\ \A u \in App \ {t} : msg[u] # m
  BY <1>1, <1>2 DEF ReplyIsMine, SingleOwner
<1>4. /\ \A u \in App \ {t} : pc'[u] = pc[u] /\ sub'[u] = sub[u] /\ msg'[u] = msg[u]
      /\ pc'[t] \in {"idle", "real"}
      /\ pc'[t] = "real" => sub'[t] = t /\ outcome'[t] = "real"
      /\ \A r \in Request \ {t} : outcome'[r] = outcome[r]
      /\ \A p \in Ptr : of'[p] = IF p = m THEN Nil ELSE of[p]
      /\ UNCHANGED <<block, appq, io, queue, cur>>
  BY <1>1, <1>2 DEF ReceiveReply, TypeCaller
<1>5. \A p \in Ptr : Carried(p) => p # m /\ of[p] # t /\ of[p] \in Request
  <2>1. ASSUME NEW p \in Ptr, Carried(p), of[p] = t PROVE p = m
    <3>1. ASSUME NEW u \in App, Posting(u, p) PROVE FALSE
      <4>1. u # t /\ t \notin Block /\ of[p] \in {u} \cup Block
        BY <1>2, <3>1, SlotAssumption DEF Posting, CallerOwns
      <4> QED
        BY <2>1, <4>1
    <3>2. ASSUME NEW c \in Core, Queued(c, p) \/ Serving(c, p) PROVE Awaited(p)
      BY <3>2, SlotAssumption DEF Queued, Serving, QueueOwns, IOThreadOwns, InFlight
    <3>3. Awaited(p)
      BY <2>1, <3>1, <3>2 DEF Carried, Waiting
    <3> QED
      BY <1>1, <2>1, <3>3 DEF Awaited
  <2>2. ~Carried(m)
    BY <1>1, <1>2, <1>3 DEF Carried, Waiting, Posting
  <2> QED
    BY <2>1, <2>2, Carriers
<1>6. ASSUME NEW p \in Ptr
      PROVE  (Carried(p)' => Carried(p)) /\ (Fresh(p)' => Fresh(p))
  <2>1. \A u \in App : pc'[u] = "post" /\ msg'[u] = p => pc[u] = "post" /\ msg[u] = p
    BY <1>4
  <2> QED
    BY <1>4, <2>1 DEF Carried, Fresh, Waiting, Posting, Queued, Serving, Carries, Undecided
<1>7. \A u \in App \ {t} : pc[u] = "real" => sub[u] # t /\ sub[u] \in Request
  BY SlotAssumption DEF SlotInv, RealOwns, Request
<1>8. OneCarrier'
  BY <1>4, <1>5, <1>6 DEF SlotInv, OneCarrier
<1>9. RealOwns'
  <2>1. t \notin Block
    BY SlotAssumption
  <2> QED
    BY <1>4, <1>7, <2>1 DEF SlotInv, RealOwns
<1>10. Stages'
  <2>1. \A p \in Ptr : Fresh(p)' => outcome'[of'[p]] = Nil
    BY <1>4, <1>5, <1>6, Carriers DEF SlotInv, Stages
  <2>2. ASSUME NEW e \in Core, io[e] \in {"complete", "real", "fake"}
        PROVE  Req(e)' = Req(e) /\ outcome'[Req(e)] = outcome[Req(e)]
    <3>1. cur[e] # Nil /\ Carries(e)
      BY <2>2 DEF IOThreadOwns, Carries
    <3>2. cur[e] \in Ptr /\ cur[e] # m /\ Req(e) # t /\ Req(e) \in Request
      BY <1>5, <3>1, OnlyServed DEF Req
    <3> QED
      BY <1>4, <3>2 DEF Req
  <2>3. \A b \in Block : block'[b] \in {"os", "done"} => outcome'[b] # Nil
    BY <1>4, SlotAssumption DEF SlotInv, Stages, Request
  <2> QED
    BY <1>4, <2>1, <2>2, <2>3 DEF SlotInv, Stages
<1>11. Completions'
  BY <1>4 DEF SlotInv, Completions
<1> QED
  BY <1>8, <1>9, <1>10, <1>11 DEF SlotInv

(* The real function has been called: the block is the console's or the        *)
(* application's.                                                            *)
LEMMA CallRealSlots ==
  ASSUME Parts, SlotInv, NEW t \in App, CallReal(t)
  PROVE  SlotInv'
<1>1. /\ pc[t] = "real" /\ sub[t] \in {t} \cup Block /\ sub[t] \in Request
      /\ \A u \in App \ {t} : pc[u] = "real" => sub[u] # sub[t] /\ sub[u] \in Request
      /\ \A p \in Ptr : Carried(p) => of[p] # sub[t] /\ of[p] \in Request
      /\ sub[t] \in Block => block[sub[t]] = "module"
  BY Carriers DEF CallReal, SlotInv, RealOwns, OneCarrier, Request
<1>2. PICK s \in {"os", "app"}, d \in {"real", Nil} :
        /\ \A b \in Block : block'[b] = IF b = sub[t] THEN s ELSE block[b]
        /\ \A r \in Request : outcome'[r] = IF r = sub[t] THEN d ELSE outcome[r]
        /\ s = "os" => d = "real"
  <2>1. CASE sub[t] \in Block
    <3>1. PICK o \in {"os", "app"} :
            /\ block' = [block EXCEPT ![sub[t]] = o]
            /\ outcome' = [outcome EXCEPT ![sub[t]] = IF o = "os" THEN "real" ELSE Nil]
      BY <2>1 DEF CallReal
    <3>2. /\ \A b \in Block : block'[b] = IF b = sub[t] THEN o ELSE block[b]
          /\ \A r \in Request : outcome'[r] = IF r = sub[t]
                                              THEN IF o = "os" THEN "real" ELSE Nil
                                              ELSE outcome[r]
      BY <3>1 DEF TypeAsync, TypeCaller
    <3> QED
      BY <3>2
  <2>2. CASE sub[t] \notin Block
    <3>1. sub[t] = t /\ block' = block /\ outcome' = [outcome EXCEPT ![t] = Nil]
      BY <1>1, <2>2 DEF CallReal
    <3>2. /\ \A b \in Block : block'[b] = IF b = sub[t] THEN "app" ELSE block[b]
          /\ \A r \in Request : outcome'[r] = IF r = sub[t] THEN Nil ELSE outcome[r]
      BY <2>2, <3>1 DEF TypeCaller
    <3> QED
      BY <3>2
  <2> QED
    BY <2>1, <2>2
<1>3. /\ \A u \in App \ {t} : pc'[u] = pc[u] /\ sub'[u] = sub[u]
      /\ pc'[t] = "idle"
      /\ UNCHANGED <<msg, of, appq, io, queue, cur>>
  BY DEF CallReal, TypeCaller
<1>4. \A p \in Ptr : (Carried(p)' => Carried(p)) /\ (Fresh(p)' => Fresh(p))
  <2>1. \A u \in App : pc'[u] = "post" => pc[u] = "post"
    BY <1>3
  <2> QED
    BY <1>3, <2>1 DEF Carried, Fresh, Waiting, Posting, Queued, Serving, Carries, Undecided
<1>5. OneCarrier'
  BY <1>1, <1>2, <1>3, <1>4 DEF SlotInv, OneCarrier
<1>6. RealOwns'
  BY <1>1, <1>2, <1>3 DEF SlotInv, RealOwns
<1>7. Stages'
  <2>1. \A p \in Ptr : Fresh(p)' => outcome'[of[p]] = Nil
    BY <1>1, <1>2, <1>4, Carriers DEF SlotInv, Stages
  <2>2. ASSUME NEW e \in Core, io[e] \in {"complete", "real", "fake"}
        PROVE  outcome'[Req(e)] = outcome[Req(e)]
    <3>1. cur[e] # Nil /\ Carries(e)
      BY <2>2 DEF IOThreadOwns, Carries
    <3>2. Req(e) # sub[t] /\ Req(e) \in Request
      BY <1>1, <3>1, OnlyServed DEF Req
    <3> QED
      BY <1>2, <3>2
  <2>3. \A b \in Block : block'[b] \in {"os", "done"} => outcome'[b] # Nil
    BY <1>2, SlotAssumption DEF SlotInv, Stages, Request
  <2>4. \A e \in Core : Req(e)' = Req(e)
    BY <1>3 DEF Req
  <2> QED
    BY <1>3, <2>1, <2>2, <2>3, <2>4 DEF SlotInv, Stages
<1>8. Completions'
  <2>1. \A b \in Block : block'[b] = "done" <=> block[b] = "done"
    BY <1>1, <1>2
  <2> QED
    BY <1>3, <2>1 DEF SlotInv, Completions
<1> QED
  BY <1>5, <1>6, <1>7, <1>8 DEF SlotInv

-----------------------------------------------------------------------------
(* The two invariants together.                                               *)

LEMMA StepSlots ==
  ASSUME Parts, Parts', SlotInv, [Next]_vars
  PROVE  SlotInv'
<1>1. CASE Main
  BY <1>1, MainSlots
<1>2. CASE CRApi \/ UNCHANGED vars
  <2>1. UNCHANGED <<pc, sub, msg, of, io, block, appq, outcome, queue, cur>>
    BY <1>2 DEF CRApi, vars
  <2> QED
    BY <2>1, QuietStep DEF Carried, Fresh, Waiting, Posting, Queued, Serving, Carries,
                           Undecided, Req
<1>3. CASE AppReceives
  BY <1>3, AppReceivesSlots
<1>4. ASSUME NEW t \in App, AppThread(t) PROVE SlotInv'
  <2>1. ASSUME NEW r \in {t} \cup Block, Wrap(t, r) PROVE SlotInv'
    BY <2>1, WrapSlots
  <2>2. ASSUME NEW r \in {t} \cup Block, Skip(t, r) PROVE SlotInv'
    BY <2>2, SkipSlots
  <2>3. ASSUME NEW c \in Core, Post(t, c) PROVE SlotInv'
    BY <2>3, PostSlots
  <2>4. CASE WrapFails(t) \/ \E c \in Core : PostFails(t, c)
    <3>1. UNCHANGED <<pc, sub, msg, of, io, block, appq, outcome, queue, cur>>
      BY <2>4 DEF WrapFails, PostFails, OSFatal
    <3> QED
      BY <3>1, QuietStep DEF Carried, Fresh, Waiting, Posting, Queued, Serving, Carries,
                             Undecided, Req
  <2>5. CASE ReceiveReply(t)
    BY <2>5, ReceiveReplySlots
  <2>6. CASE CallReal(t)
    BY <2>6, CallRealSlots
  <2> QED
    BY <1>4, <2>1, <2>2, <2>3, <2>4, <2>5, <2>6 DEF AppThread
<1>5. ASSUME NEW b \in Block, OSCompletes(b) PROVE SlotInv'
  BY <1>5, OSCompletesSlots
<1>6. ASSUME NEW c \in Core, IOThread(c) PROVE SlotInv'
  BY <1>6, IOThreadSlots
<1> QED
  BY <1>1, <1>2, <1>3, <1>4, <1>5, <1>6 DEF Next

(* IInv is inductive: who holds a message and who holds a request slot.        *)
THEOREM SlotInvariance == Spec => []IInv
<1>1. IInv /\ [Next]_vars => IInv'
  <2>1. MessageInv <=> Parts
    BY MessageParts
  <2>2. Parts' => MessageInv'
    BY DEF MessageInv, TypeOK, TypeBool, TypeMain, TypeCaller, TypeQueue, TypeAsync, Locks
  <2>3. MessageInv' => Parts'
    BY DEF MessageInv, TypeOK, TypeBool, TypeMain, TypeCaller, TypeQueue, TypeAsync, Locks
  <2> QED
    BY <2>1, <2>2, <2>3, StepMessages, StepSlots DEF IInv
<1>2. Init => IInv
  BY InitMessages, InitSlots DEF IInv
<1> QED
  BY <1>1, <1>2, PTL DEF Spec

(* A command block is touched by the module only while the module owns it, no   *)
(* two messages are about one that is in work, and the application is told of   *)
(* its completion once.                                                       *)
THEOREM BlocksAreOwned == Spec => []BlockOwnership
<1>1. ASSUME IInv PROVE BlockOwnership
  <2>1. Parts /\ SlotInv
    BY <1>1, MessageParts DEF IInv
  <2>2. ASSUME NEW c \in Core, cur[c] # Nil, Req(c) \in Block, Carries(c)
        PROVE  /\ block[Req(c)] = "module"
               /\ \A d \in Core \ {c} : cur[d] # Nil /\ Req(d) = Req(c)
                                        => io[d] \in {"freeParam", "freeMessage"}
    <3>1. cur[c] \in Ptr /\ Carried(cur[c])
      BY <2>1, <2>2, OnlyServed
    <3>2. ASSUME NEW d \in Core \ {c}, cur[d] # Nil, Req(d) = Req(c)
          PROVE  io[d] \in {"freeParam", "freeMessage"}
      <4>1. cur[d] # cur[c] /\ cur[d] \in Ptr /\ (Carried(cur[d]) <=> Carries(d))
        BY <2>1, <2>2, <3>2, OnlyServed DEF Serving
      <4>2. ~Carries(d)
        BY <2>1, <2>2, <3>1, <3>2, <4>1 DEF SlotInv, OneCarrier, Req
      <4>3. Req(d) \notin App
        BY <2>2, <3>2, SlotAssumption
      <4> QED
        BY <2>1, <3>2, <4>2, <4>3 DEF Carries, IOThreadOwns, TypeMain
    <3> QED
      BY <2>1, <2>2, <3>1, <3>2 DEF SlotInv, OneCarrier, Req
  <2>3. ASSUME NEW b \in Block
        PROVE  Cardinality({i \in 1 .. Len(appq) : appq[i] = b})
                 = IF block[b] = "done" THEN 1 ELSE 0
    <3>1. CASE block[b] = "done"
      <4>1. PICK i \in 1 .. Len(appq) : appq[i] = b
        BY <2>1, <3>1 DEF SlotInv, Completions
      <4>2. {j \in 1 .. Len(appq) : appq[j] = b} = {i}
        BY <2>1, <4>1 DEF SlotInv, Completions
      <4> QED
        BY <3>1, <4>2, FS_Singleton
    <3>2. CASE block[b] # "done"
      <4>1. {j \in 1 .. Len(appq) : appq[j] = b} = {}
        BY <2>1, <3>2 DEF SlotInv, Completions
      <4> QED
        BY <3>2, <4>1, FS_EmptySet
    <3> QED
      BY <3>1, <3>2
  <2> QED
    BY <2>2, <2>3 DEF BlockOwnership, Carries
<1> QED
  BY <1>1, SlotInvariance, PTL

-----------------------------------------------------------------------------
(* The refinement: every step is one of RequestService, or none.              *)

ServiceStep == Service!Next \/ UNCHANGED ServiceState

(* Steps that change no status are not seen by the service.                    *)
LEMMA Stutter ==
  ASSUME \A r \in Request : Status(r)' = Status(r)
  PROVE  ServiceStep
BY DEF ServiceStep, ServiceState

(* What a status is made of.                                                   *)
LEMMA Frozen ==
  ASSUME UNCHANGED <<pc, sub, block, outcome>>
  PROVE  ServiceStep
BY Stutter DEF Status, Decided

(* One request moves, as a caller of the service may see it move.             *)
LEMMA OneMoves ==
  ASSUME NEW r \in Request, \A q \in Request \ {r} : Status(q)' = Status(q),
         \/ Status(r) = "idle" /\ Status(r)' \in {"pending", "real"}
         \/ Status(r) = "pending" /\ Status(r)' \in {"layer", "real"}
         \/ Status(r) \in {"layer", "real"} /\ Status(r)' = "idle"
  PROVE  ServiceStep
<1>1. ServiceState[r] = Status(r)
  BY DEF ServiceState
<1>2. ServiceState' = [ServiceState EXCEPT ![r] = Status(r)']
  BY DEF ServiceState
<1> QED
  BY <1>1, <1>2 DEF ServiceStep, Service!Next, Service!Submit, Service!Bypass,
                    Service!Decide, Service!Return, Service!Decision

(* A request enters: Submit, or Bypass while no IO thread runs.               *)
LEMMA EnterStep ==
  ASSUME Parts, NEW t \in App, NEW r \in {t} \cup Block, Wrap(t, r) \/ Skip(t, r)
  PROVE  ServiceStep
<1>1. pc[t] = "idle" /\ r \in Request /\ (r \in Block => block[r] = "app")
  BY DEF Wrap, Skip, MayCall, Request
<1>2. PICK d \in {Nil, "real"} :
        \A x \in Request : outcome'[x] = IF x = r THEN d ELSE outcome[x]
  <2>1. CASE Wrap(t, r)
    BY <2>1 DEF Wrap, TypeCaller
  <2>2. CASE Skip(t, r)
    BY <2>2 DEF Skip, TypeCaller
  <2> QED
    BY <2>1, <2>2
<1>3. /\ \A u \in App \ {t} : pc'[u] = pc[u] /\ sub'[u] = sub[u]
      /\ pc'[t] \in {"post", "real"} /\ sub'[t] = r
      /\ \A b \in Block : block'[b] = IF b = r THEN "module" ELSE block[b]
  BY <1>1 DEF Wrap, Skip, TypeCaller, TypeAsync
<1>4. Status(r) = "idle"
  BY <1>1, SlotAssumption DEF Status
<1>5. Status(r)' \in {"pending", "real"}
  BY <1>1, <1>2, <1>3, SlotAssumption DEF Status, Decided
<1>6. \A q \in Request \ {r} : Status(q)' = Status(q)
  BY <1>1, <1>2, <1>3, SlotAssumption DEF Status, Decided, Request
<1> QED
  BY <1>1, <1>4, <1>5, <1>6, OneMoves

(* The one decision.                                                         *)
LEMMA DecideStep ==
  ASSUME Parts, SlotInv, NEW c \in Core, io[c] = "layer",
         NEW d \in {"layer", "real"}, outcome' = [outcome EXCEPT ![Req(c)] = d],
         UNCHANGED <<pc, sub, block>>
  PROVE  ServiceStep
<1>1. cur[c] # Nil /\ Carries(c) /\ Undecided(c)
  BY DEF IOThreadOwns, Carries, Undecided
<1>2. cur[c] \in Ptr /\ Carried(cur[c]) /\ Fresh(cur[c])
  BY <1>1, OnlyServed
<1>3. PICK r \in Request : r = Req(c) /\ outcome[r] = Nil
  BY <1>2, Carriers DEF SlotInv, Stages, Req
<1>4. \A x \in Request : outcome'[x] = IF x = r THEN d ELSE outcome[x]
  BY <1>3 DEF TypeCaller
<1>5. Status(r) = "pending" /\ Status(r)' = d
  <2>1. CASE r \in Block
    <3>1. block[r] = "module" /\ block' = block
      BY <1>2, <1>3, <2>1 DEF SlotInv, OneCarrier, Req
    <3> QED
      BY <1>3, <1>4, <2>1, <3>1, SlotAssumption DEF Status, Decided
  <2>2. CASE r \in App
    <3>1. pc[r] = "wait" /\ pc' = pc /\ r \notin Block
      BY <1>1, <1>3, <2>2, SlotAssumption DEF IOThreadOwns, InFlight, Awaited, Req
    <3> QED
      BY <1>3, <1>4, <2>2, <3>1, SlotAssumption DEF Status, Decided
  <2> QED
    BY <2>1, <2>2 DEF Request
<1>6. \A q \in Request \ {r} : Status(q)' = Status(q)
  BY <1>4 DEF Status, Decided
<1> QED
  BY <1>5, <1>6, OneMoves

(* A posted message changes nothing for its caller.                           *)
LEMMA PostStutters ==
  ASSUME Parts, NEW t \in App, NEW c \in Core, Post(t, c)
  PROVE  ServiceStep
<1>1. pc[t] = "post" /\ sub[t] \in {t} \cup Block
  BY DEF Post, CallerOwns
<1>2. /\ \A u \in App \ {t} : pc'[u] = pc[u] /\ sub'[u] = sub[u]
      /\ \/ sub[t] = t /\ pc'[t] = "wait" /\ sub'[t] = t
         \/ sub[t] \in Block /\ pc'[t] = "idle"
      /\ UNCHANGED <<block, outcome>>
  BY <1>1, SlotAssumption DEF Post, TypeCaller
<1>3. \A q \in Request : Status(q)' = Status(q)
  BY <1>1, <1>2, SlotAssumption DEF Status, Decided, Request
<1> QED
  BY <1>3, Stutter

(* A layer's answer returns to the caller; "real" is still to be called.      *)
LEMMA ReceiveReplyReturns ==
  ASSUME Parts, SlotInv, NEW t \in App, ReceiveReply(t)
  PROVE  ServiceStep
<1>1. PICK m \in Ptr : msg[t] = m
  <2>1. msg[t] # Nil
    BY DEF ReceiveReply, CallerOwns
  <2> QED
    BY <2>1 DEF TypeCaller
<1>2. pc[t] = "wait" /\ reply[m] # Nil /\ sub[t] = t /\ t \in Request /\ t \notin Block
  BY <1>1, SlotAssumption DEF ReceiveReply, HasReply, SlotInv, RealOwns, Request
<1>3. reply[m] = outcome[t] /\ outcome[t] \in {"layer", "real"}
  <2>1. reply[m] = outcome[t]
    BY <1>1, <1>2 DEF ReplyIsMine, SingleOwner
  <2> QED
    BY <1>2, <2>1 DEF TypeCaller
<1>4. /\ \A u \in App \ {t} : pc'[u] = pc[u] /\ sub'[u] = sub[u]
      /\ \A x \in Request \ {t} : outcome'[x] = outcome[x]
      /\ block' = block
  BY DEF ReceiveReply, TypeCaller
<1>5. \A q \in Request \ {t} : Status(q)' = Status(q)
  BY <1>4 DEF Status, Decided, Request
<1>6. Status(t) = outcome[t]
  BY <1>2, <1>3, SlotAssumption DEF Status, Decided
<1>7. CASE reply[m] = "real"
  <2>1. pc'[t] = "real" /\ sub'[t] = t /\ outcome'[t] = "real"
    BY <1>1, <1>2, <1>7 DEF ReceiveReply, TypeCaller
  <2>2. Status(t)' = Status(t)
    BY <1>2, <1>3, <1>6, <1>7, <2>1, SlotAssumption DEF Status, Decided
  <2> QED
    BY <1>5, <2>2, Stutter
<1>8. CASE reply[m] # "real"
  <2>1. pc'[t] = "idle"
    BY <1>1, <1>2, <1>8 DEF ReceiveReply, TypeCaller
  <2>2. Status(t)' = "idle"
    BY <1>2, <2>1 DEF Status
  <2> QED
    BY <1>2, <1>3, <1>5, <1>6, <2>2, OneMoves
<1> QED
  BY <1>7, <1>8

(* The real function returns, unless it took the block.                       *)
LEMMA CallRealReturns ==
  ASSUME Parts, SlotInv, NEW t \in App, CallReal(t)
  PROVE  ServiceStep
<1>1. PICK r \in {t} \cup Block : r = sub[t]
  BY DEF CallReal, SlotInv, RealOwns
<1>2. pc[t] = "real" /\ outcome[r] = "real" /\ (r \in Block => block[r] = "module") /\ r \in Request
  BY <1>1 DEF CallReal, SlotInv, RealOwns, Request
<1>3. /\ \A u \in App \ {t} : pc'[u] = pc[u] /\ sub'[u] = sub[u]
      /\ pc'[t] = "idle"
  BY DEF CallReal, TypeCaller
<1>4. Status(r) = "real"
  BY <1>1, <1>2, SlotAssumption DEF Status, Decided
<1>5. CASE r \in Block
  <2>1. PICK o \in {"os", "app"} :
          /\ \A b \in Block : block'[b] = IF b = r THEN o ELSE block[b]
          /\ \A x \in Request : outcome'[x] = IF x = r THEN IF o = "os" THEN "real" ELSE Nil
                                                       ELSE outcome[x]
    <3>1. PICK o \in {"os", "app"} :
            /\ block' = [block EXCEPT ![r] = o]
            /\ outcome' = [outcome EXCEPT ![r] = IF o = "os" THEN "real" ELSE Nil]
      BY <1>1, <1>5 DEF CallReal
    <3>2. /\ \A b \in Block : block'[b] = IF b = r THEN o ELSE block[b]
          /\ \A x \in Request : outcome'[x] = IF x = r THEN IF o = "os" THEN "real" ELSE Nil
                                                       ELSE outcome[x]
      BY <3>1 DEF TypeAsync, TypeCaller
    <3> QED
      BY <3>2
  <2>2. \A q \in Request \ {r} : Status(q)' = Status(q)
    BY <1>1, <1>2, <1>3, <1>5, <2>1, SlotAssumption DEF Status, Decided, Request
  <2>3. CASE o = "os"
    <3>1. Status(r)' = "real"
      BY <1>2, <1>5, <2>1, <2>3, SlotAssumption DEF Status, Decided
    <3> QED
      BY <1>4, <2>2, <3>1, Stutter
  <2>4. CASE o = "app"
    <3>1. Status(r)' = "idle"
      BY <1>5, <2>1, <2>4 DEF Status
    <3> QED
      BY <1>2, <1>4, <2>2, <3>1, OneMoves
  <2> QED
    BY <2>1, <2>3, <2>4
<1>6. CASE r \notin Block
  <2>1. /\ r = t /\ block' = block
        /\ \A x \in Request \ {r} : outcome'[x] = outcome[x]
    BY <1>1, <1>6 DEF CallReal, TypeCaller
  <2>2. \A q \in Request \ {r} : Status(q)' = Status(q)
    BY <1>3, <2>1 DEF Status, Decided, Request
  <2>3. Status(r)' = "idle"
    BY <1>3, <1>6, <2>1 DEF Status
  <2> QED
    BY <1>2, <1>4, <2>2, <2>3, OneMoves
<1> QED
  BY <1>5, <1>6

(* A completion on its way to the application is not the end of the request ... *)
LEMMA CompletionStutters ==
  ASSUME Parts, NEW b \in Block, block[b] # "app",
         NEW s \in {"os", "done"}, block' = [block EXCEPT ![b] = s],
         UNCHANGED <<pc, sub, outcome>>
  PROVE  ServiceStep
<1>1. \A e \in Block : block'[e] = IF e = b THEN s ELSE block[e]
  BY DEF TypeAsync
<1>2. \A q \in Request : Status(q)' = Status(q)
  BY <1>1 DEF Status, Decided
<1> QED
  BY <1>2, Stutter

(* ... its receipt is.                                                        *)
LEMMA AppReceivesReturns ==
  ASSUME Parts, SlotInv, AppReceives
  PROVE  ServiceStep
<1>1. PICK b \in Block : b = Head(appq) /\ block[b] = "done"
  BY CompletionTaken DEF AppReceives, SlotInv
<1>2. /\ \A e \in Block : block'[e] = IF e = b THEN "app" ELSE block[e]
      /\ \A x \in Request \ {b} : outcome'[x] = outcome[x]
      /\ UNCHANGED <<pc, sub>>
  BY <1>1 DEF AppReceives, TypeAsync, TypeCaller
<1>3. b \in Request /\ outcome[b] \in {"layer", "real"}
  BY <1>1 DEF SlotInv, Stages, TypeCaller, Request
<1>4. Status(b) = outcome[b] /\ Status(b)' = "idle"
  BY <1>1, <1>2, <1>3, SlotAssumption DEF Status, Decided
<1>5. \A q \in Request \ {b} : Status(q)' = Status(q)
  BY <1>2 DEF Status, Decided
<1> QED
  BY <1>3, <1>4, <1>5, OneMoves

(* What an IO thread does is a decision or invisible.                         *)
LEMMA IOThreadRefines ==
  ASSUME Parts, SlotInv, NEW c \in Core, IOThread(c)
  PROVE  ServiceStep
<1>1. CASE InitQueue(c) \/ ReceiveStop(c) \/ ReceiveCommand(c) \/ LockLayers(c)
           \/ NestedCall(c) \/ NestedReturn(c) \/ AnswerFatal(c) \/ BothSet(c)
           \/ FreeParam(c) \/ SendReply(c) \/ FreeMessage(c)
  <2>1. UNCHANGED <<pc, sub, block, outcome>>
    BY <1>1 DEF InitQueue, ReceiveStop, ReceiveCommand, LockLayers, NestedCall, NestedReturn,
                AnswerFatal, BothSet, OSFatal, FreeParam, SendReply, FreeMessage
  <2> QED
    BY <2>1, Frozen
<1>2. CASE AnswerSync(c) \/ AnswerAsync(c) \/ AllPass(c)
  <2>1. PICK d \in {"layer", "real"} : /\ outcome' = [outcome EXCEPT ![Req(c)] = d]
                                       /\ io[c] = "layer" /\ UNCHANGED <<pc, sub, block>>
    BY <1>2 DEF AnswerSync, AnswerAsync, AllPass
  <2> QED
    BY <2>1, DecideStep
<1>3. CASE CompleteAsync(c) \/ CompleteFake(c) \/ SubmitReal(c)
  <2>1. /\ cur[c] # Nil /\ Carries(c) /\ io[c] \in {"complete", "real", "fake"}
        /\ UNCHANGED <<pc, sub>>
    BY <1>3 DEF CompleteAsync, CompleteFake, SubmitReal, IOThreadOwns, Carries
  <2>2. PICK b \in Block : b = Req(c) /\ block[b] = "module" /\ b \in Request
    BY <2>1, OnlyServed DEF IOThreadOwns, SlotInv, OneCarrier, Req, Request
  <2>3. CASE CompleteAsync(c) \/ CompleteFake(c)
    <3>1. outcome' = outcome /\ (SendCompletion(c) \/ UNCHANGED asyncVars)
      BY <2>3 DEF CompleteAsync, CompleteFake, TellNobody
    <3>2. CASE SendCompletion(c)
      <4>1. block' = [block EXCEPT ![b] = "done"]
        BY <2>2, <3>2 DEF SendCompletion
      <4> QED
        BY <2>1, <2>2, <3>1, <4>1, CompletionStutters
    <3>3. CASE UNCHANGED asyncVars
      BY <2>1, <3>1, <3>3, Frozen DEF asyncVars
    <3> QED
      BY <3>1, <3>2, <3>3
  <2>4. CASE SubmitReal(c)
    <3>1. outcome[b] = "real"
      BY <2>2, <2>4 DEF SubmitReal, SlotInv, Stages
    <3>2. PICK ok \in BOOLEAN :
            IF ok THEN /\ block' = [block EXCEPT ![b] = "os"]
                       /\ outcome' = [outcome EXCEPT ![b] = "real"]
                  ELSE UNCHANGED <<block, outcome>>
      BY <2>2, <2>4 DEF SubmitReal
    <3>3. outcome' = outcome
      BY <2>2, <3>1, <3>2 DEF TypeCaller
    <3>4. CASE ok
      BY <2>1, <2>2, <3>2, <3>3, <3>4, CompletionStutters
    <3>5. CASE ~ok
      BY <2>1, <3>2, <3>5, Frozen
    <3> QED
      BY <3>4, <3>5
  <2> QED
    BY <1>3, <2>3, <2>4
<1> QED
  BY <1>1, <1>2, <1>3 DEF IOThread

(* Every step is one of the service or invisible to its callers.              *)
LEMMA StepRefines ==
  ASSUME Parts, SlotInv, [Next]_vars
  PROVE  ServiceStep
<1>1. CASE Main \/ CRApi \/ UNCHANGED vars
  <2>1. UNCHANGED <<pc, sub, block, outcome>>
    BY <1>1 DEF Main, ApplicationStarts, CreateThread, CreateThreadFails, ThreadIsSetup,
                ThreadsStarted, ApplicationEnds, ClearFSLayer, SendStop, JoinThread,
                ThreadsStopped, OSFatal, CRApi, vars
  <2> QED
    BY <2>1, Frozen
<1>2. CASE AppReceives
  BY <1>2, AppReceivesReturns
<1>3. ASSUME NEW t \in App, AppThread(t) PROVE ServiceStep
  <2>1. ASSUME NEW r \in {t} \cup Block, Wrap(t, r) \/ Skip(t, r) PROVE ServiceStep
    BY <2>1, EnterStep
  <2>2. ASSUME NEW c \in Core, Post(t, c) PROVE ServiceStep
    BY <2>2, PostStutters
  <2>3. CASE WrapFails(t) \/ \E c \in Core : PostFails(t, c)
    <3>1. UNCHANGED <<pc, sub, block, outcome>>
      BY <2>3 DEF WrapFails, PostFails, OSFatal
    <3> QED
      BY <3>1, Frozen
  <2>4. CASE ReceiveReply(t)
    BY <2>4, ReceiveReplyReturns
  <2>5. CASE CallReal(t)
    BY <2>5, CallRealReturns
  <2> QED
    BY <1>3, <2>1, <2>2, <2>3, <2>4, <2>5 DEF AppThread
<1>4. ASSUME NEW b \in Block, OSCompletes(b) PROVE ServiceStep
  <2>1. /\ block[b] = "os" /\ block' = [block EXCEPT ![b] = "done"]
        /\ UNCHANGED <<pc, sub, outcome>>
    BY <1>4 DEF OSCompletes
  <2> QED
    BY <2>1, CompletionStutters
<1>5. ASSUME NEW c \in Core, IOThread(c) PROVE ServiceStep
  BY <1>5, IOThreadRefines
<1> QED
  BY <1>1, <1>2, <1>3, <1>4, <1>5 DEF Next

(* The queues, threads, replies and completions implement RequestService: every *)
(* request is decided once, by a layer or by the real function, and returned    *)
(* to its caller once, for any number of callers and cores and every failure.  *)
THEOREM Refinement == Spec => ImplementsService
<1>1. Init => Service!Init
  BY SlotAssumption DEF Init, Service!Init, ServiceState, Status, Request
<1>2. IInv /\ [Next]_vars => [Service!Next]_ServiceState
  BY MessageParts, StepRefines DEF IInv, ServiceStep
<1> QED
  BY <1>1, <1>2, SlotInvariance, PTL DEF Spec, ImplementsService, Service!Spec
-----------------------------------------------------------------------------
(* The queues of an orderly application: it makes no call while it ends         *)
(* (QuietEnd).                                                                *)

(* Messages are posted while the application runs; no call survives it.        *)
Callers ==
  \A t \in App : /\ pc[t] \in {"post", "wait"} => phase = "run"
                 /\ phase \in {"clear", "stop", "join"} => pc[t] = "idle"
Starting == phase \in {"off", "create", "resumed"}

(* A core is without an IO thread only where the two loops of the main thread   *)
(* say so, a thread exits only while it is joined, and both leave no message.   *)
Threads ==
  \A c \in Core : /\ io[c] = "none" => NoThread(c)
                  /\ io[c] = "exited" => phase = "join" /\ c = coreId
                  /\ io[c] \in {"none", "exited"} => queue[c] = <<>>

(* STOP is in the queue of the thread that is joined, behind all messages.      *)
StopIsLast ==
  \A c \in Core : \A i \in 1 .. Len(queue[c]) :
    queue[c][i] = STOP => phase = "join" /\ c = coreId /\ i = Len(queue[c])

OrderlyInv == Callers /\ (gThreadsRunning => ~Starting) /\ Threads /\ StopIsLast

(* Steps of the IO threads that neither start, end nor receive.                *)
Works(c) == \/ LockLayers(c) \/ NestedCall(c) \/ NestedReturn(c)
            \/ AnswerSync(c) \/ AnswerAsync(c) \/ AnswerFatal(c) \/ AllPass(c)
            \/ CompleteAsync(c) \/ SubmitReal(c) \/ CompleteFake(c) \/ BothSet(c)
            \/ FreeParam(c) \/ SendReply(c) \/ FreeMessage(c)

(* They leave the main thread, the callers and the queues alone.               *)
LEMMA WorksOnly ==
  ASSUME TypeMain, NEW c \in Core, Works(c)
  PROVE  /\ UNCHANGED <<phase, coreId, gThreadsRunning, setup, inited, pc, queue>>
         /\ \A d \in Core : io'[d] = io[d] \/ io'[d] \notin {"none", "exited"}
<1>1. CASE \/ LockLayers(c) \/ NestedCall(c) \/ NestedReturn(c)
           \/ AnswerFatal(c) \/ BothSet(c)
  BY <1>1 DEF LockLayers, NestedCall, NestedReturn, AnswerFatal, BothSet, OSFatal, TypeMain
<1>2. CASE AnswerSync(c) \/ AnswerAsync(c) \/ AllPass(c)
  BY <1>2 DEF AnswerSync, AnswerAsync, AllPass, TypeMain
<1>3. CASE CompleteAsync(c) \/ SubmitReal(c) \/ CompleteFake(c)
  BY <1>3 DEF CompleteAsync, SubmitReal, CompleteFake, AfterCallback, AfterSubmit, TypeMain
<1>4. CASE FreeParam(c) \/ SendReply(c) \/ FreeMessage(c)
  BY <1>4 DEF FreeParam, SendReply, FreeMessage, TypeMain
<1> QED
  BY <1>1, <1>2, <1>3, <1>4 DEF Works

(* At first there is no thread and no message.                                 *)
LEMMA InitOrderly == Init => OrderlyInv
BY DEF Init, OrderlyInv, Callers, Starting, Threads, StopIsLast, NoThread

(* Starting and ending an application.                                        *)
LEMMA MainOrderly ==
  ASSUME Parts, OrderlyInv, QuietEnd, Main
  PROVE  OrderlyInv'
<1> USE CoreAssumption DEF Core
<1>1. CASE ApplicationStarts
  BY <1>1 DEF ApplicationStarts, OrderlyInv, Callers, Starting, Threads, StopIsLast, NoThread
<1>2. CASE CreateThread
  <2>1. /\ phase = "create" /\ phase' = "resumed" /\ coreId \in Core
        /\ UNCHANGED <<coreId, pc, gThreadsRunning>>
        /\ \A c \in Core : /\ io'[c] = IF c = coreId THEN "init" ELSE io[c]
                           /\ queue'[c] = IF c = coreId THEN <<>> ELSE queue[c]
    BY <1>2 DEF CreateThread, TypeMain, TypeQueue
  <2>2. Threads'
    BY <2>1 DEF OrderlyInv, Threads, NoThread, TypeMain
  <2>3. StopIsLast'
    <3> SUFFICES ASSUME NEW c \in Core, NEW i \in 1 .. Len(queue'[c]) PROVE queue'[c][i] # STOP
      BY DEF StopIsLast
    <3>1. c # coreId /\ queue'[c] = queue[c]
      BY <2>1
    <3> QED
      BY <2>1, <3>1 DEF OrderlyInv, StopIsLast
  <2> QED
    BY <2>1, <2>2, <2>3 DEF OrderlyInv, Callers, Starting
<1>3. CASE CreateThreadFails
  BY <1>3 DEF CreateThreadFails, OSFatal, OrderlyInv, Callers, Starting, Threads, StopIsLast,
              NoThread
<1>4. CASE ThreadIsSetup
  BY <1>4 DEF ThreadIsSetup, OrderlyInv, Callers, Starting, Threads, StopIsLast, NoThread,
              TypeMain
<1>5. CASE ThreadsStarted
  BY <1>5 DEF ThreadsStarted, OrderlyInv, Callers, Starting, Threads, StopIsLast, NoThread
<1>6. CASE ApplicationEnds
  BY <1>6 DEF ApplicationEnds, OrderlyInv, Callers, Starting, Threads, StopIsLast, NoThread
<1>7. CASE ClearFSLayer
  BY <1>7 DEF ClearFSLayer, OrderlyInv, Callers, Starting, Threads, StopIsLast, NoThread,
              TypeMain
<1>8. CASE SendStop
  <2>1. /\ phase = "stop" /\ phase' = "join" /\ coreId \in Core
        /\ UNCHANGED <<coreId, pc, gThreadsRunning, io>>
    BY <1>8 DEF SendStop
  <2>2. Callers' /\ (gThreadsRunning' => ~Starting')
    BY <2>1 DEF OrderlyInv, Callers, Starting
  <2>3. /\ \A c \in Core : io[c] = "none" => c < coreId
        /\ \A c \in Core : io[c] # "exited"
        /\ \A c \in Core : \A i \in 1 .. Len(queue[c]) : queue[c][i] # STOP
    BY <2>1 DEF OrderlyInv, Threads, NoThread, StopIsLast
  <2>4. CASE queue' = queue
    BY <2>1, <2>2, <2>3, <2>4 DEF OrderlyInv, Threads, NoThread, StopIsLast
  <2>5. CASE Put(coreId, STOP)
    <3>1. /\ \A d \in Core \ {coreId} : queue'[d] = queue[d]
          /\ Len(queue[coreId]) \in Nat /\ Len(queue'[coreId]) = Len(queue[coreId]) + 1
          /\ \A d \in Core : \A i \in 1 .. Len(queue'[d]) :
               \/ i \in 1 .. Len(queue[d]) /\ queue'[d][i] = queue[d][i]
               \/ d = coreId /\ i = Len(queue[coreId]) + 1
      BY <2>1, <2>5, PutFacts, PutPlaces
    <3>2. Threads'
      BY <2>1, <2>3, <3>1 DEF OrderlyInv, Threads, NoThread
    <3>3. StopIsLast'
      BY <2>1, <2>3, <3>1 DEF StopIsLast
    <3> QED
      BY <2>2, <3>2, <3>3 DEF OrderlyInv
  <2> QED
    BY <1>8, <2>4, <2>5 DEF SendStop, PutStop, Put
<1>9. CASE JoinThread
  <2>1. /\ phase = "join" /\ phase' = "stop" /\ coreId' = coreId + 1
        /\ UNCHANGED <<pc, gThreadsRunning, queue>> /\ io[coreId] = "exited"
        /\ coreId \in Core
        /\ \A c \in Core : io'[c] = IF c = coreId THEN "none" ELSE io[c]
    BY <1>9 DEF JoinThread, TypeMain, Phases
  <2>2. queue[coreId] = <<>>
    BY <2>1 DEF OrderlyInv, Threads
  <2>3. Threads'
    BY <2>1, <2>2 DEF OrderlyInv, Threads, NoThread
  <2>4. StopIsLast'
    BY <2>1, <2>2 DEF OrderlyInv, StopIsLast
  <2> QED
    BY <2>1, <2>3, <2>4 DEF OrderlyInv, Callers, Starting
<1>10. CASE ThreadsStopped
  BY <1>10 DEF ThreadsStopped, OrderlyInv, Callers, Starting, Threads, StopIsLast, NoThread
<1> QED
  BY <1>1, <1>2, <1>3, <1>4, <1>5, <1>6, <1>7, <1>8, <1>9, <1>10 DEF Main

(* A call is posted to a thread that runs; then its queue has no STOP.          *)
LEMMA AppOrderly ==
  ASSUME Parts, OrderlyInv, QuietEnd, NEW t \in App, AppThread(t)
  PROVE  OrderlyInv'
<1>1. ASSUME NEW r \in {t} \cup Block, Wrap(t, r) PROVE OrderlyInv'
  <2>1. /\ phase = "run" /\ UNCHANGED <<phase, coreId, gThreadsRunning, io, queue>>
        /\ pc' = [pc EXCEPT ![t] = "post"]
    BY <1>1 DEF Wrap, MayCall, OrderlyInv, Starting
  <2> QED
    BY <2>1 DEF OrderlyInv, Callers, Starting, Threads, StopIsLast, NoThread
<1>2. ASSUME NEW r \in {t} \cup Block, Skip(t, r) PROVE OrderlyInv'
  <2>1. /\ phase \in {"off", "run"} /\ UNCHANGED <<phase, coreId, gThreadsRunning, io, queue>>
        /\ pc' = [pc EXCEPT ![t] = "real"]
    BY <1>2 DEF Skip, MayCall
  <2> QED
    BY <2>1 DEF OrderlyInv, Callers, Starting, Threads, StopIsLast, NoThread, TypeCaller
<1>3. CASE WrapFails(t) \/ \E c \in Core : PostFails(t, c)
  <2>1. UNCHANGED <<phase, coreId, gThreadsRunning, io, queue, pc>>
    BY <1>3 DEF WrapFails, PostFails, OSFatal
  <2> QED
    BY <2>1 DEF OrderlyInv, Callers, Starting, Threads, StopIsLast, NoThread
<1>4. CASE ReceiveReply(t) \/ CallReal(t)
  <2>1. /\ UNCHANGED <<phase, coreId, gThreadsRunning, io, queue>>
        /\ \E x \in {"real", "idle"} : pc' = [pc EXCEPT ![t] = x]
        /\ pc[t] = "wait" \/ (pc[t] = "real" /\ pc' = [pc EXCEPT ![t] = "idle"])
    BY <1>4 DEF ReceiveReply, CallReal
  <2> QED
    BY <2>1 DEF OrderlyInv, Callers, Starting, Threads, StopIsLast, NoThread, TypeCaller
<1>5. ASSUME NEW c \in Core, Post(t, c) PROVE OrderlyInv'
  <2>1. /\ UNCHANGED <<phase, coreId, gThreadsRunning, io>> /\ Put(c, msg[t])
        /\ \E x \in {"wait", "idle"} : pc' = [pc EXCEPT ![t] = x]
        /\ pc[t] = "post"
    BY <1>5 DEF Post, Put
  <2>2. phase = "run" /\ msg[t] \in Ptr /\ msg[t] # STOP
    <3>1. phase = "run" /\ msg[t] # Nil
      BY <2>1 DEF OrderlyInv, Callers, CallerOwns
    <3> QED
      BY <3>1, SlotAssumption DEF TypeCaller
  <2>3. \A d \in Core : io[d] \notin {"none", "exited"}
    BY <2>2 DEF OrderlyInv, Threads, NoThread
  <2>4. \A d \in Core : \A i \in 1 .. Len(queue'[d]) :
          \/ i \in 1 .. Len(queue[d]) /\ queue'[d][i] = queue[d][i]
          \/ queue'[d][i] = msg[t]
    BY <2>1, <2>2, PutPlaces
  <2>5. StopIsLast'
    BY <2>2, <2>4 DEF OrderlyInv, StopIsLast
  <2>6. Threads'
    BY <2>1, <2>3 DEF Threads
  <2> QED
    BY <2>1, <2>2, <2>5, <2>6 DEF OrderlyInv, Callers, Starting, TypeCaller
<1> QED
  BY <1>1, <1>2, <1>3, <1>4, <1>5 DEF AppThread

(* Receiving takes the first message; a STOP that is first was the only one.    *)
LEMMA IOThreadOrderly ==
  ASSUME Parts, OrderlyInv, NEW c \in Core, IOThread(c)
  PROVE  OrderlyInv'
<1>1. CASE Works(c)
  <2>1. /\ UNCHANGED <<phase, coreId, gThreadsRunning, pc, queue>>
        /\ \A d \in Core : io'[d] = io[d] \/ io'[d] \notin {"none", "exited"}
    BY <1>1, WorksOnly
  <2>2. Threads' /\ StopIsLast'
    BY <2>1 DEF OrderlyInv, Threads, StopIsLast, NoThread
  <2> QED
    BY <2>1, <2>2 DEF OrderlyInv, Callers, Starting
<1>2. CASE InitQueue(c)
  <2>1. /\ UNCHANGED <<phase, coreId, gThreadsRunning, pc>>
        /\ \A d \in Core : /\ io'[d] = IF d = c THEN "recv" ELSE io[d]
                           /\ queue'[d] = IF d = c THEN <<>> ELSE queue[d]
    BY <1>2 DEF InitQueue, TypeMain, TypeQueue
  <2> QED
    BY <2>1 DEF OrderlyInv, Callers, Starting, Threads, StopIsLast, NoThread
<1>3. CASE ReceiveStop(c) \/ ReceiveCommand(c)
  <2>1. /\ UNCHANGED <<phase, coreId, gThreadsRunning, pc>> /\ Take(c)
        /\ \E x \in {"exited", "lock"} : /\ io' = [io EXCEPT ![c] = x]
                                         /\ x = "exited" => Head(queue[c]) = STOP
        /\ io[c] = "recv"
    BY <1>3 DEF ReceiveStop, ReceiveCommand, Take
  <2>2. /\ 1 \in 1 .. Len(queue[c]) /\ queue[c][1] = Head(queue[c])
        /\ \A d \in Core : Len(queue[d]) \in Nat
        /\ \A d \in Core \ {c} : queue'[d] = queue[d]
        /\ Len(queue'[c]) = Len(queue[c]) - 1
        /\ \A i \in 1 .. Len(queue'[c]) : queue'[c][i] = queue[c][i + 1]
        /\ TypeQueue'
    BY <2>1, TakenFacts
  <2>3. StopIsLast'
    BY <2>1, <2>2, SMTT(30) DEF OrderlyInv, StopIsLast
  <2>4. Head(queue[c]) = STOP => phase = "join" /\ c = coreId /\ queue'[c] = <<>>
    <3>1. Head(queue[c]) = STOP => phase = "join" /\ c = coreId /\ Len(queue'[c]) = 0
      <4>1. Head(queue[c]) = STOP => phase = "join" /\ c = coreId /\ 1 = Len(queue[c])
        BY <2>2 DEF OrderlyInv, StopIsLast
      <4> QED
        BY <2>2, <4>1
    <3>2. Len(queue'[c]) = 0 => queue'[c] = <<>>
      BY <2>2, EmptySeq DEF TypeQueue
    <3> QED
      BY <3>1, <3>2
  <2>5. Threads'
    BY <2>1, <2>2, <2>4 DEF OrderlyInv, Threads, NoThread, TypeMain
  <2> QED
    BY <2>1, <2>3, <2>5 DEF OrderlyInv, Callers, Starting
<1> QED
  BY <1>1, <1>2, <1>3 DEF IOThread, Works

(* Every action keeps the queues in order.                                    *)
LEMMA StepOrderly ==
  ASSUME Parts, OrderlyInv, QuietEnd, [Next]_vars
  PROVE  OrderlyInv'
<1>1. CASE CRApi \/ AppReceives \/ (\E b \in Block : OSCompletes(b)) \/ UNCHANGED vars
  <2>1. UNCHANGED <<phase, coreId, gThreadsRunning, io, queue, pc>>
    BY <1>1 DEF CRApi, AppReceives, OSCompletes, vars
  <2> QED
    BY <2>1 DEF OrderlyInv, Callers, Starting, Threads, StopIsLast, NoThread
<1> QED
  BY <1>1, MainOrderly, AppOrderly, IOThreadOrderly DEF Next

(* An orderly application keeps its queues in order for as long as it runs.      *)
THEOREM Orderly == ASSUME QuietEnd PROVE Spec => [](IInv /\ OrderlyInv)
<1>1. IInv /\ OrderlyInv /\ [Next]_vars => OrderlyInv'
  BY MessageParts, StepOrderly DEF IInv
<1> QED
  BY <1>1, InitOrderly, SlotInvariance, PTL DEF Spec

(* A thread that has exited or was never started leaves no message in its queue  *)
(* and none in work: the STOP was queued behind every request.                  *)
THEOREM Drained == ASSUME QuietEnd PROVE Spec => []DrainedAtExit
<1>1. IInv /\ OrderlyInv => DrainedAtExit
  BY DEF IInv, MessageInv, OrderlyInv, Threads, IOThreadOwns, DrainedAtExit
<1> QED
  BY <1>1, Orderly, PTL

(* A core whose creation the main thread has passed is set up, and its thread   *)
(* has initialised its queue; so no post has met a full or a missing queue.      *)
SetUp ==
  /\ phase \in {"create", "resumed"} => \A c \in Core : c < coreId => setup[c]
  /\ phase = "run" => \A c \in Core : setup[c]
  /\ \A c \in Core : setup[c] => inited[c]
Roomy == SetUp /\ NoQueueFatal

(* The places of a sequence are as many as it is long.                          *)
LEMMA Places == ASSUME NEW n \in Nat PROVE Cardinality(1 .. n) = n
BY FS_Interval

(* The requests of two messages on their way differ, so the queue of a core      *)
(* holds fewer messages than there are requests while one is being posted.       *)
LEMMA QueueFits ==
  ASSUME Parts, SlotInv, OrderlyInv, IsFiniteSet(Request),
         NEW t \in App, NEW c \in Core, pc[t] = "post"
  PROVE  Len(queue[c]) \in Nat /\ Len(queue[c]) < Cardinality(Request)
<1> DEFINE I == 1 .. Len(queue[c])
           f == [i \in I |-> of[queue[c][i]]]
           p == msg[t]
<1>1. Len(queue[c]) \in Nat /\ \A i \in I : queue[c][i] \in Ptr \cup {STOP}
  BY LenProperties, ElementOfSeq DEF TypeQueue
<1>2. \A i \in I : queue[c][i] \in Ptr /\ Queued(c, queue[c][i])
  <2>1. phase = "run"
    BY DEF OrderlyInv, Callers
  <2> QED
    BY <1>1, <2>1 DEF OrderlyInv, StopIsLast, Queued
<1>3. p \in Ptr /\ Posting(t, p)
  <2>1. msg[t] # Nil
    BY DEF CallerOwns
  <2> QED
    BY <2>1 DEF TypeCaller, Posting
<1>4. \A i \in I : Carried(queue[c][i]) /\ of[queue[c][i]] \in Request
  BY <1>2, Carriers DEF Carried, Waiting
<1>5. Carried(p) /\ of[p] \in Request
  BY <1>3, Carriers DEF Carried, Waiting
<1>6. \A i \in I : of[queue[c][i]] # of[p]
  <2> SUFFICES ASSUME NEW i \in I, of[queue[c][i]] = of[p] PROVE FALSE
    OBVIOUS
  <2>1. queue[c][i] = p
    BY <1>2, <1>3, <1>4, <1>5 DEF SlotInv, OneCarrier
  <2> QED
    BY <1>2, <1>3, <2>1 DEF SingleOwner
<1>7. \A i, j \in I : of[queue[c][i]] = of[queue[c][j]] => i = j
  <2> SUFFICES ASSUME NEW i \in I, NEW j \in I, of[queue[c][i]] = of[queue[c][j]] PROVE i = j
    OBVIOUS
  <2>1. queue[c][i] = queue[c][j]
    BY <1>2, <1>4 DEF SlotInv, OneCarrier
  <2> QED
    BY <1>2, <2>1 DEF SingleOwner
<1>8. f \in Injection(I, Request \ {of[p]})
  BY <1>4, <1>6, <1>7 DEF Injection, IsInjective
<1>9. /\ IsFiniteSet(Request \ {of[p]})
      /\ Cardinality(Request \ {of[p]}) = Cardinality(Request) - 1
  BY <1>5, FS_RemoveElement
<1>10. Cardinality(I) <= Cardinality(Request \ {of[p]})
  BY <1>8, <1>9, FS_Injection
<1>11. Cardinality(I) = Len(queue[c])
  BY <1>1, Places
<1>12. Cardinality(Request) \in Nat
  BY FS_CardinalityType
<1> QED
  BY <1>1, <1>9, <1>10, <1>11, <1>12

(* The main thread sets every core up before the application runs.              *)
LEMMA StepSetUp ==
  ASSUME Parts, OrderlyInv, SetUp, EagerIO, [Next]_vars
  PROVE  SetUp'
<1> USE CoreAssumption DEF Core
<1>1. CASE CreateThread
  <2>1. /\ phase' = "resumed" /\ coreId' = coreId
        /\ \A c \in Core : c # coreId => setup'[c] = setup[c] /\ inited'[c] = inited[c]
        /\ ~setup'[coreId]
    BY <1>1 DEF CreateThread, TypeBool
  <2> QED
    BY <1>1, <2>1 DEF SetUp, TypeMain, CreateThread
<1>2. CASE ThreadIsSetup
  <2>1. /\ phase = "resumed" /\ phase' = "create" /\ coreId' = coreId + 1
        /\ inited' = inited /\ inited[coreId]
        /\ \A c \in Core : c # coreId => setup'[c] = setup[c]
        /\ setup'[coreId] /\ coreId \in Core
    BY <1>2 DEF ThreadIsSetup, TypeBool, Phases
  <2>2. \A c \in Core : c < coreId + 1 <=> c < coreId \/ c = coreId
    BY DEF TypeMain
  <2>3. \A c \in Core : setup'[c] => inited'[c]
    BY <2>1 DEF SetUp
  <2>4. \A c \in Core : c < coreId' => setup'[c]
    BY <2>1, <2>2 DEF SetUp
  <2> QED
    BY <2>1, <2>3, <2>4 DEF SetUp
<1>3. CASE ThreadsStarted
  BY <1>3 DEF ThreadsStarted, SetUp
<1>4. CASE ApplicationStarts
  BY <1>4 DEF ApplicationStarts, SetUp
<1>5. CASE CreateThreadFails \/ CRApi \/ AppReceives \/ (\E b \in Block : OSCompletes(b))
           \/ UNCHANGED vars \/ \E t \in App : AppThread(t)
  <2>1. UNCHANGED <<phase, coreId, setup, inited>>
    BY <1>5 DEF CreateThreadFails, CRApi, AppReceives, OSCompletes, vars, AppThread, Wrap, Skip,
                WrapFails, ReceiveReply, CallReal, Post, PostFails, OSFatal
  <2> QED
    BY <2>1 DEF SetUp
<1>6. CASE ApplicationEnds \/ ClearFSLayer \/ SendStop \/ JoinThread \/ ThreadsStopped
  <2>1. UNCHANGED <<setup, inited>> /\ phase' \notin {"create", "resumed", "run"}
    BY <1>6 DEF ApplicationEnds, ClearFSLayer, SendStop, JoinThread, ThreadsStopped
  <2> QED
    BY <2>1 DEF SetUp
<1>7. ASSUME NEW c \in Core, IOThread(c) PROVE SetUp'
  <2>1. CASE InitQueue(c)
    <3>1. /\ UNCHANGED <<phase, coreId, setup>>
          /\ \A d \in Core : inited[d] => inited'[d]
      BY <2>1 DEF InitQueue, TypeBool
    <3> QED
      BY <3>1 DEF SetUp
  <2>2. CASE Works(c)
    <3>1. UNCHANGED <<phase, coreId, setup, inited>>
      BY <2>2, WorksOnly
    <3> QED
      BY <3>1 DEF SetUp
  <2>3. CASE ReceiveStop(c) \/ ReceiveCommand(c)
    <3>1. UNCHANGED <<phase, coreId, setup, inited>>
      BY <2>3 DEF ReceiveStop, ReceiveCommand
    <3> QED
      BY <3>1 DEF SetUp
  <2> QED
    BY <1>7, <2>1, <2>2, <2>3 DEF IOThread, Works
<1> QED
  BY <1>1, <1>2, <1>3, <1>4, <1>5, <1>6, <1>7 DEF Next, Main

(* A post that fails needs a missing or a full queue; nothing else is halted so. *)
LEMMA StepRoomy ==
  ASSUME Parts, SlotInv, OrderlyInv, Roomy, EagerIO, IsFiniteSet(Request),
         Cardinality(Request) <= QueueCap, [Next]_vars
  PROVE  NoQueueFatal'
<1>1. ASSUME NEW t \in App, NEW c \in Core, PostFails(t, c) PROVE FALSE
  <2>1. phase = "run" /\ pc[t] = "post"
    BY <1>1 DEF PostFails, OrderlyInv, Callers
  <2>2. setup[c] /\ inited[c]
    BY <2>1 DEF Roomy, SetUp
  <2>3. Len(queue[c]) \in Nat /\ Len(queue[c]) < Cardinality(Request)
    BY <2>1, QueueFits
  <2>4. Len(queue[c]) < QueueCap
    BY <2>3, FS_CardinalityType, BoundAssumption
  <2> QED
    BY <1>1, <2>2, <2>4 DEF PostFails, HasRoom, messageSize
<1>2. CASE \/ CreateThreadFails \/ (\E t \in App : WrapFails(t))
           \/ (\E c \in Core : AnswerFatal(c) \/ BothSet(c))
  BY <1>2 DEF CreateThreadFails, WrapFails, AnswerFatal, BothSet, OSFatal, NoQueueFatal
<1>3. CASE UNCHANGED halted
  BY <1>3 DEF Roomy, NoQueueFatal
<1>4. CASE Main
  BY <1>2, <1>3, <1>4 DEF Main, ApplicationStarts, CreateThread, ThreadIsSetup, ThreadsStarted,
     ApplicationEnds, ClearFSLayer, SendStop, JoinThread, ThreadsStopped
<1>5. CASE CRApi \/ AppReceives \/ (\E b \in Block : OSCompletes(b)) \/ UNCHANGED vars
  BY <1>3, <1>5 DEF CRApi, AppReceives, OSCompletes, vars
<1>6. ASSUME NEW t \in App, AppThread(t) PROVE NoQueueFatal'
  BY <1>1, <1>2, <1>3, <1>6 DEF AppThread, Wrap, Skip, ReceiveReply, CallReal, Post
<1>7. ASSUME NEW c \in Core, IOThread(c) PROVE NoQueueFatal'
  BY <1>2, <1>3, <1>7 DEF IOThread, InitQueue, ReceiveStop, ReceiveCommand, LockLayers,
     NestedCall, NestedReturn, AnswerSync, AnswerAsync, AllPass, CompleteAsync, SubmitReal,
     CompleteFake, FreeParam, SendReply, FreeMessage
<1> QED
  BY <1>4, <1>5, <1>6, <1>7 DEF Next

(* sendMessageToThread never ends in OSFatal: when the application makes no call *)
(* while it ends, an IO thread reaches its receive loop before the main thread   *)
(* goes on, and no more requests can be open at once than a queue has places.    *)
THEOREM QueuesSuffice ==
  ASSUME QuietEnd, EagerIO, IsFiniteSet(Request), Cardinality(Request) <= QueueCap
  PROVE  Spec => []NoQueueFatal
<1>1. Init => Roomy
  BY DEF Init, Roomy, SetUp, NoQueueFatal
<1>2. IInv /\ OrderlyInv /\ Roomy /\ [Next]_vars => Roomy'
  BY MessageParts, StepSetUp, StepRoomy DEF IInv, Roomy
<1>3. Roomy => NoQueueFatal
  BY DEF Roomy
<1> QED
  BY <1>1, <1>2, <1>3, Orderly, PTL DEF Spec

(* The IO thread that completes a request under fsLayerMutex finds room in the   *)
(* application's queue when that has a place for every command block: the        *)
(* completions in it are about other blocks.                                    *)
THEOREM NeverSpins ==
  ASSUME IsFiniteSet(Block), Cardinality(Block) <= AppQueueCap
  PROVE  Spec => []NoSpinUnderLock
<1>1. ASSUME IInv, NEW c \in Core, io[c] = "complete" PROVE AppHasRoom
  <2> DEFINE I == 1 .. Len(appq)
             Others == Block \ {Req(c)}
  <2>1. Parts /\ SlotInv
    BY <1>1, MessageParts DEF IInv
  <2>2. Req(c) \in Block /\ cur[c] # Nil
    BY <1>1, <2>1 DEF IOThreadOwns
  <2>3. Carried(cur[c]) /\ cur[c] \in Ptr
    BY <1>1, <2>1, <2>2, OnlyServed DEF Carries
  <2>4. block[Req(c)] = "module"
    BY <2>1, <2>2, <2>3 DEF SlotInv, OneCarrier, Req
  <2>5. Len(appq) \in Nat /\ appq \in [I -> Block]
    BY <2>1, LenProperties DEF TypeAsync
  <2>6. \A i \in I : appq[i] # Req(c)
    BY <2>1, <2>4, <2>5 DEF SlotInv, Completions
  <2>7. appq \in Injection(I, Others)
    <3>1. appq \in [I -> Others]
      BY <2>5, <2>6
    <3>2. \A i, j \in I : appq[i] = appq[j] => i = j
      BY <2>1 DEF SlotInv, Completions
    <3>3. DOMAIN appq = I
      BY <2>5
    <3> QED
      BY <3>1, <3>2, <3>3 DEF Injection, IsInjective
  <2>8. /\ IsFiniteSet(Others) /\ Cardinality(Others) = Cardinality(Block) - 1
        /\ Cardinality(Block) \in Nat
    BY <2>2, FS_RemoveElement, FS_CardinalityType
  <2>9. Cardinality(I) <= Cardinality(Others)
    BY <2>7, <2>8, FS_Injection
  <2>10. Cardinality(I) = Len(appq)
    BY <2>5, FS_Interval
  <2> QED
    BY <2>5, <2>8, <2>9, <2>10, BoundAssumption DEF AppHasRoom
<1>2. IInv => NoSpinUnderLock
  BY <1>1 DEF NoSpinUnderLock
<1> QED
  BY <1>2, SlotInvariance, PTL
=============================================================================
