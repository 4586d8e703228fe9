--------------------------- MODULE RequestService ---------------------------
(***************************************************************************)
(* What the module promises to a caller of a patched FS or FSA function,   *)
(* whatever thread serves it: a request that was submitted is decided once, *)
(* either by a redirection layer ("layer") or by handing it to the real    *)
(* function of the console ("real"), never by both, and is returned to its  *)
(* caller once.  FSIOThreads implements this with queues, IO threads, a    *)
(* lock and heap objects that change hands.                                *)
(***************************************************************************)
CONSTANT Request        \* the callers' request slots (a thread, a command block)

VARIABLE st             \* [Request -> {"idle", "pending", "layer", "real"}]

Decision == {"layer", "real"}

Init == st = [r \in Request |-> "idle"]

(* A caller enters a patched function.                                     *)
Submit(r) ==
  /\ st[r] = "idle"
  /\ st' = [st EXCEPT ![r] = "pending"]

(* While no IO thread runs a call goes straight to the real function.      *)
Bypass(r) ==
  /\ st[r] = "idle"
  /\ st' = [st EXCEPT ![r] = "real"]

(* The one decision about the request.                                     *)
Decide(r) ==
  /\ st[r] = "pending"
  /\ \E d \in Decision : st' = [st EXCEPT ![r] = d]

(* The decided request is back with its caller, who may use the slot again. *)
Return(r) ==
  /\ st[r] \in Decision
  /\ st' = [st EXCEPT ![r] = "idle"]

Next == \E r \in Request : Submit(r) \/ Bypass(r) \/ Decide(r) \/ Return(r)

Spec == Init /\ [][Next]_st

(* The promise with progress: nothing that was submitted is forgotten.     *)
LiveSpec ==
  Spec /\ \A r \in Request : WF_st(Decide(r)) /\ WF_st(Return(r))
=============================================================================
