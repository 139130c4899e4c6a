------------------------------ MODULE ProxyExit ------------------------------
(***************************************************************************)
(* Global exit and the end of the proxy thread.                            *)
(*                                                                         *)
(* A GPU thread asks for a global exit by moving global_exit_request_state *)
(* from NOT_REQUESTED over INIT to REQUESTED, with the exit code stored in *)
(* between, and then spins.  The proxy thread looks at the state once per  *)
(* iteration and calls nvshmem_global_exit itself.  The main thread may    *)
(* finalize the library, or call nvshmem_global_exit, at the same time:    *)
(* all three end up in nvshmemi_proxy_finalize.                            *)
(***************************************************************************)
EXTENDS Naturals

CONSTANTS Thread,      \* GPU threads that may ask for a global exit
          Minimal,     \* nvshmemi_proxy_progress_minimal: only exit and timeout
          BootExit,    \* the bootstrap has a global_exit
          MainCalls    \* the teardown calls the main thread may make

ASSUME ExitAssumption ==
    /\ Minimal \in BOOLEAN /\ BootExit \in BOOLEAN
    /\ MainCalls \subseteq {"finalize", "global_exit"}

NotRequested == 0
InitState == 1
Requested == 2

None == "none"
Host == "host"

VARIABLES reqstate,    \* *global_exit_request_state
          code,        \* *global_exit_code: the thread whose status it holds
          pc,          \* of each GPU thread
          ppc,         \* of the proxy thread
          mpc,         \* of the main thread
          stop,        \* progress_params.stop
          freed,       \* times transport and transport_id were freed
          used,        \* the proxy used them after that
          exited       \* None, or whose status the process ended with

vars == <<reqstate, code, pc, ppc, mpc, stop, freed, used, exited>>

Alive == exited = None

\* Mutation: an increment instead of the compare-and-swap.
IncrementInit(t) ==
    /\ Alive /\ pc[t] = "running"
    /\ mpc \in {"app", "exit_join", "exit_boot"}
    /\ reqstate' = reqstate + 1
    /\ pc' = [pc EXCEPT ![t] = IF reqstate = NotRequested THEN "code" ELSE "spin"]
    /\ UNCHANGED <<code, ppc, mpc, stop, freed, used, exited>>

\* nvshmemi_proxy_global_exit: the first compare-and-swap.
CasInit(t) ==
    /\ Alive /\ pc[t] = "running"
    /\ mpc \in {"app", "exit_join", "exit_boot"}
    /\ IF reqstate = NotRequested
       THEN reqstate' = InitState /\ pc' = [pc EXCEPT ![t] = "code"]
       ELSE UNCHANGED reqstate /\ pc' = [pc EXCEPT ![t] = "spin"]
    /\ UNCHANGED <<code, ppc, mpc, stop, freed, used, exited>>

StoreCode(t) ==
    /\ Alive /\ pc[t] = "code"
    /\ code' = t
    /\ pc' = [pc EXCEPT ![t] = "publish"]
    /\ UNCHANGED <<reqstate, ppc, mpc, stop, freed, used, exited>>

\* Mutation: the second compare-and-swap expects NOT_REQUESTED.
CasRequestedWrong(t) ==
    /\ Alive /\ pc[t] = "publish"
    /\ reqstate' = IF reqstate = NotRequested THEN Requested ELSE reqstate
    /\ pc' = [pc EXCEPT ![t] = "spin"]
    /\ UNCHANGED <<code, ppc, mpc, stop, freed, used, exited>>

\* The second compare-and-swap; the code asserts that it succeeds.
CasRequested(t) ==
    /\ Alive /\ pc[t] = "publish"
    /\ reqstate' = IF reqstate = InitState THEN Requested ELSE reqstate
    /\ pc' = [pc EXCEPT ![t] = "spin"]
    /\ UNCHANGED <<code, ppc, mpc, stop, freed, used, exited>>

-----------------------------------------------------------------------------
\* Mutation: a request counts before its code is there.
ProgressExitEarly ==
    /\ Alive /\ ppc = "check"
    /\ ppc' = IF reqstate # NotRequested THEN "finalize" ELSE "rest"
    /\ UNCHANGED <<reqstate, code, pc, mpc, stop, freed, used, exited>>

\* progress_global_exit.
ProgressExit ==
    /\ Alive /\ ppc = "check"
    /\ ppc' = IF reqstate = Requested THEN "finalize" ELSE "rest"
    /\ UNCHANGED <<reqstate, code, pc, mpc, stop, freed, used, exited>>

\* nvshmemi_proxy_finalize on the proxy thread: the join of itself fails at
\* once, the connection state is freed, and the rest is left because an exit
\* has been requested.
ProxyFinalize ==
    /\ Alive /\ ppc = "finalize"
    /\ stop' = TRUE
    /\ freed' = freed + 1
    /\ ppc' = "boot"
    /\ UNCHANGED <<reqstate, code, pc, mpc, used, exited>>

\* The end of nvshmem_global_exit on the proxy thread.
ProxyBootExit ==
    /\ Alive /\ ppc = "boot"
    /\ IF BootExit THEN exited' = code /\ UNCHANGED ppc
                   ELSE ppc' = "rest" /\ UNCHANGED exited
    /\ UNCHANGED <<reqstate, code, pc, mpc, stop, freed, used>>

\* The rest of progress: quiet, cst, channels and transports.
ProgressRest ==
    /\ Alive /\ ppc = "rest"
    /\ used' = (used \/ (~Minimal /\ freed > 0))
    /\ ppc' = "loop"
    /\ UNCHANGED <<reqstate, code, pc, mpc, stop, freed, exited>>

\* while (!stop).
ProgressLoop ==
    /\ Alive /\ ppc = "loop"
    /\ ppc' = IF stop THEN "ended" ELSE "check"
    /\ UNCHANGED <<reqstate, code, pc, mpc, stop, freed, used, exited>>

-----------------------------------------------------------------------------
\* nvshmemid_hostlib_finalize: cudaDeviceSynchronize has returned, so no kernel
\* is left that could ask for an exit; nvshmemi_proxy_finalize sets stop.
FinalizeStop ==
    /\ Alive /\ mpc = "app" /\ "finalize" \in MainCalls
    /\ \A t \in Thread : pc[t] = "running"
    /\ stop' = TRUE
    /\ mpc' = "fini_join"
    /\ UNCHANGED <<reqstate, code, pc, ppc, freed, used, exited>>

\* nvshmem_global_exit on the main thread, while kernels run.
GlobalExitStop ==
    /\ Alive /\ mpc = "app" /\ "global_exit" \in MainCalls
    /\ stop' = TRUE
    /\ mpc' = "exit_join"
    /\ UNCHANGED <<reqstate, code, pc, ppc, freed, used, exited>>

\* Mutation: no pthread_join before the frees.
JoinNot ==
    /\ Alive /\ mpc \in {"fini_join", "exit_join"}
    /\ freed' = freed + 1
    /\ mpc' = IF mpc = "fini_join" THEN "done" ELSE "exit_boot"
    /\ UNCHANGED <<reqstate, code, pc, ppc, stop, used, exited>>

\* pthread_join returns and the connection state is freed.  The rest of
\* nvshmemi_proxy_finalize (an early return when an exit has been requested, else
\* the frees of channels and exit state) is left out: the proxy thread, the only
\* host thread that reads them, has ended.
Join ==
    /\ Alive /\ mpc \in {"fini_join", "exit_join"}
    /\ ppc = "ended"
    /\ freed' = freed + 1
    /\ mpc' = IF mpc = "fini_join" THEN "done" ELSE "exit_boot"
    /\ UNCHANGED <<reqstate, code, pc, ppc, stop, used, exited>>

\* The end of nvshmem_global_exit on the main thread.
MainBootExit ==
    /\ Alive /\ mpc = "exit_boot"
    /\ IF BootExit THEN exited' = Host /\ UNCHANGED mpc
                   ELSE mpc' = "done" /\ UNCHANGED exited
    /\ UNCHANGED <<reqstate, code, pc, ppc, stop, freed, used>>

-----------------------------------------------------------------------------
Init ==
    /\ reqstate = NotRequested /\ code = None
    /\ pc = [t \in Thread |-> "running"]
    /\ ppc = "check" /\ mpc = "app"
    /\ stop = FALSE /\ freed = 0 /\ used = FALSE /\ exited = None

Device(t) == CasInit(t) \/ StoreCode(t) \/ CasRequested(t)
Proxy == ProgressExit \/ ProxyFinalize \/ ProxyBootExit \/ ProgressRest \/ ProgressLoop
Main == FinalizeStop \/ GlobalExitStop \/ Join \/ MainBootExit

Next == (\E t \in Thread : Device(t)) \/ Proxy \/ Main

\* A GPU thread that has begun to ask for an exit goes on, the proxy thread is
\* scheduled, and the main thread goes on with an exit it has begun.
Fairness ==
    /\ \A t \in Thread : WF_vars(StoreCode(t) \/ CasRequested(t))
    /\ WF_vars(Proxy)
    /\ WF_vars(Join \/ MainBootExit)

Spec == Init /\ [][Next]_vars
FairSpec == Spec /\ Fairness

-----------------------------------------------------------------------------
\* The variables have their types.
TypeOK ==
    /\ reqstate \in {NotRequested, InitState, Requested}
    /\ code \in Thread \cup {None} /\ exited \in Thread \cup {None, Host}
    /\ pc \in [Thread -> {"running", "code", "publish", "spin"}]
    /\ ppc \in {"check", "finalize", "boot", "rest", "loop", "ended"}
    /\ mpc \in {"app", "fini_join", "exit_join", "exit_boot", "done"}
    /\ stop \in BOOLEAN /\ used \in BOOLEAN /\ freed \in 0 .. 2

\* The proxy ends the process with the status of the thread that won the race
\* for the request: never before that status is stored, and a second requester
\* does not replace it.
CodeBeforeExit ==
    /\ ppc \in {"finalize", "boot"} => code # None
    /\ code # None => \A t \in Thread \ {code} : pc[t] \notin {"code", "publish"}

\* Whoever tears the proxy down, the connection state is freed once and the
\* proxy thread does not touch it afterwards.  This rests on a bootstrap whose
\* global_exit does not return: where there is none (BootExit = FALSE),
\* nvshmem_global_exit on the proxy thread returns into progress, which goes on
\* to use the transport it has just freed.
TornDownOnce == freed <= 1 /\ ~used

\* A GPU thread that asked for a global exit sees the program end, whether the
\* proxy thread carries its request out or the main thread is first.
GlobalExitEnds == \A t \in Thread : pc[t] # "running" ~> ~Alive

=============================================================================
