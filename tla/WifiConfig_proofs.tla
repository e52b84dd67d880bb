-------------------------- MODULE WifiConfig_proofs --------------------------
(***************************************************************************)
(* Safety of the Wi-Fi configuration endpoint, for every set of networks,  *)
(* passphrases and threads, every attempt count, queue length and number   *)
(* of applies, and under every interleaving of requests, application       *)
(* calls, results and retries.  What the code does not guard against is    *)
(* recorded in mishap, and the theorems say which of it they exclude.      *)
(***************************************************************************)
EXTENDS WifiConfig, TLAPS

\* Parts of the state that a step leaves alone keep their types.
LEMMA Frame ==
    /\ pc' = pc /\ PcOK => PcOK'
    /\ seen' = seen /\ SeenOK => SeenOK'
    /\ store' = store /\ StoreOK => StoreOK'
    /\ drv' = drv /\ DrvOK => DrvOK'
    /\ evq' = evq /\ EvqOK => EvqOK'
BY DEF PcOK, SeenOK, StoreOK, DrvOK, EvqOK

\* The application's threads are callers.
LEMMA AppIsCaller == \A c \in Apps : c \in Callers
BY DEF Callers

\* A caller moves to one of its positions; only the application stops.
LEMMA CallerGoto ==
    ASSUME PcOK, NEW c \in Callers, NEW l \in CallerPcs, Goto(c, l),
           l = "deinit_del" => c \in Apps
    PROVE  PcOK'
BY ConstantsOK DEF PcOK, Goto, Threads, CallerPcs, WorkerPcs

\* The event thread or the workqueue moves to one of its positions.
LEMMA WorkerGoto ==
    ASSUME PcOK, NEW t \in {"ev", "wq"}, NEW l \in WorkerPcs, Goto(t, l)
    PROVE  PcOK'
BY ConstantsOK DEF PcOK, Goto, Threads, CallerPcs, WorkerPcs

\* A thread records the apply its failure is about.
LEMMA SeenUpdate ==
    ASSUME SeenOK, NEW t \in {"ev", "wq"}, NEW g \in Nat, seen' = [seen EXCEPT ![t] = g]
    PROVE  SeenOK'
BY DEF SeenOK

\* Deleting an entry leaves a store.
LEMMA DeletedStore ==
    ASSUME StoreOK, NEW x \in Cred \cup {NoCred}
    PROVE  Deleted(x) \in [Ssids -> Psks \cup {NoPsk}]
BY DEF StoreOK, Deleted

\* An accepted connect request leaves a well-typed driver.
LEMMA ConnectDrv ==
    ASSUME DrvOK, CfgOK, HisOK, ConnectAccepted
    PROVE  DrvOK' /\ connects' \in Nat
BY DEF DrvOK, CfgOK, HisOK, ConnectAccepted

\* Delivering an event leaves a queue of events.
LEMMA DeliverEvq ==
    ASSUME EvqOK, NEW s \in Status, Deliver(s)
    PROVE  EvqOK'
BY DEF EvqOK, Deliver

\* A result raised or dropped leaves a queue of events.
LEMMA Raised ==
    ASSUME DrvOK, EvqOK, connect_work_fn
    PROVE  EvqOK' /\ (evq' = evq \/ evq' # << >>)
<1>1. PICK s \in Status : evq' = evq \/ evq' = Append(evq, [status |-> s, gen |-> drv.gen])
  BY DEF connect_work_fn
<1>2. [status |-> s, gen |-> drv.gen] \in [status : Status, gen : Nat]
  BY DEF DrvOK
<1>3. CASE evq' = evq
  BY <1>3 DEF EvqOK
<1>4. CASE evq' = Append(evq, [status |-> s, gen |-> drv.gen])
  BY <1>2, <1>4 DEF EvqOK
<1> QED
  BY <1>1, <1>3, <1>4

\* The history only notes what Mishaps lists.
LEMMA Noted ==
    ASSUME NEW S
    PROVE  /\ Crossed(S) \subseteq Mishaps /\ Orphaned \subseteq Mishaps
           /\ Stale \subseteq Mishaps /\ Lost \subseteq Mishaps /\ Erased \subseteq Mishaps
BY DEF Crossed, Orphaned, Stale, Lost, Erased, Mishaps

LEMMA MishapStep == MishapOK /\ [Next]_vars => MishapOK'

<1> SUFFICES ASSUME MishapOK, [Next]_vars PROVE MishapOK'
  OBVIOUS
<1>1. ASSUME NEW c \in Callers, do_set_config(c) PROVE MishapOK'
  BY <1>1, Noted DEF do_set_config, Note, MishapOK
<1>2. ASSUME NEW c \in Callers, ApplyDelete(c) PROVE MishapOK'
  BY <1>2, Noted DEF ApplyDelete, Note, MishapOK
<1>3. ASSUME NEW c \in Callers, set_and_apply(c) PROVE MishapOK'
  BY <1>3, Noted DEF set_and_apply, Note, MishapOK
<1>4. ASSUME NEW c \in Callers, config_reset(c) PROVE MishapOK'
  BY <1>4, Noted DEF config_reset, Note, MishapOK
<1>5. ASSUME NEW c \in Callers, config_init(c) PROVE MishapOK'
  BY <1>5, Noted DEF config_init, Note, MishapOK
<1>6. ASSUME NEW c \in Apps, DeinitClear(c) PROVE MishapOK'
  BY <1>6, Noted DEF DeinitClear, Note, MishapOK
<1>7. ASSUME NEW c \in Callers, erase_all(c) PROVE MishapOK'
  BY <1>7, Noted DEF erase_all, Note, MishapOK
<1>8. ASSUME NEW c \in Callers, ApplyStoreFails(c) PROVE MishapOK'
  BY <1>8 DEF ApplyStoreFails, MishapOK, hisVars
<1>9. ASSUME NEW c \in Callers, ApplyStore(c) PROVE MishapOK'
  BY <1>9, Noted DEF ApplyStore, Note, MishapOK
<1>10. ASSUME NEW c \in Callers, ApplySnapshot(c) PROVE MishapOK'
  BY <1>10, Noted DEF ApplySnapshot, Note, MishapOK
<1>11. ASSUME NEW c \in Callers, ApplyConnect(c) PROVE MishapOK'
  BY <1>11 DEF ApplyConnect, MishapOK
<1>12. ASSUME NEW c \in Callers, ApplyConnectRejected(c) PROVE MishapOK'
  BY <1>12, Noted DEF ApplyConnectRejected, Note, MishapOK
<1>13. ASSUME NEW c \in Callers, ApplySyncFail(c) PROVE MishapOK'
  BY <1>13 DEF ApplySyncFail, MishapOK
<1>14. ASSUME NEW c \in Callers, DeinitUnregister(c) PROVE MishapOK'
  BY <1>14 DEF DeinitUnregister, MishapOK, hisVars
<1>15. ASSUME NEW s \in Status, ResultRetry(s) PROVE MishapOK'
  BY <1>15, Noted DEF ResultRetry, Note, MishapOK
<1>16. ASSUME NEW s \in Status, ResultFinal(s) PROVE MishapOK'
  BY <1>16, Noted DEF ResultFinal, Note, MishapOK
<1>17. ASSUME NEW t \in {"ev", "wq"}, FinalFailureDelete(t) PROVE MishapOK'
  BY <1>17 DEF FinalFailureDelete, MishapOK, hisVars
<1>18. ASSUME NEW t \in {"ev", "wq"}, FinalFailureClear(t) PROVE MishapOK'
  BY <1>18, Noted DEF FinalFailureClear, Note, MishapOK
<1>19. CASE connect_work_fn
  BY <1>19, Noted DEF connect_work_fn, Note, MishapOK
<1>20. CASE ResultIgnored
  BY <1>20 DEF ResultIgnored, MishapOK, hisVars
<1>21. CASE ResultSuccess
  BY <1>21, Noted DEF ResultSuccess, Note, MishapOK
<1>22. CASE RetryCheck
  BY <1>22 DEF RetryCheck, MishapOK, hisVars
<1>23. CASE RetryConnect
  BY <1>23 DEF RetryConnect, MishapOK
<1>24. CASE RetryRejected
  BY <1>24, Noted DEF RetryRejected, Note, MishapOK
<1>25. CASE Reboot
  BY <1>25 DEF Reboot, MishapOK
<1>26. CASE UNCHANGED vars
  BY <1>26 DEF vars, MishapOK, hisVars
<1> QED
  BY <1>1, <1>2, <1>3, <1>4, <1>5, <1>6, <1>7, <1>8, <1>9, <1>10, <1>11, <1>12, <1>13,
      <1>14, <1>15, <1>16, <1>17, <1>18, <1>19, <1>20, <1>21, <1>22, <1>23, <1>24, <1>25,
      <1>26 DEF Next, Request, AppCall, CallerStep, EventThread, Workqueue,
      on_connect_result, retry_work_handler, final_failure, Callers

\* Every action keeps the types (all handlers of wifi_config_handler.c).
LEMMA TypeStep == TypeOK /\ [Next]_vars => TypeOK'

<1> SUFFICES ASSUME TypeOK, [Next]_vars PROVE TypeOK'
  OBVIOUS
<1>0. MishapOK'
  BY MishapStep DEF TypeOK
<1>1. ASSUME NEW c \in Callers, do_set_config(c) PROVE TypeOK'
  BY <1>1, <1>0, Frame DEF do_set_config, TypeOK, CfgOK, StaOK, SvcOK, HisOK, Status,
      staVars, svcVars, thrVars, envVars
<1>2. ASSUME NEW c \in Callers, ApplyDelete(c) PROVE TypeOK'
  BY <1>2, <1>0, Frame, CallerGoto, DeletedStore DEF ApplyDelete, TypeOK, CfgOK, StaOK,
      SvcOK, HisOK, Status, cfgVars, staVars, svcVars, CallerPcs, StoreOK
<1>3. ASSUME NEW c \in Callers, set_and_apply(c) PROVE TypeOK'
  BY <1>3, <1>0, Frame, CallerGoto, DeletedStore DEF set_and_apply, TypeOK, CfgOK, StaOK,
      SvcOK, HisOK, Status, staVars, svcVars, CallerPcs, StoreOK
<1>4. ASSUME NEW c \in Callers, config_reset(c) PROVE TypeOK'
  BY <1>4, <1>0, Frame DEF config_reset, clear_inflight, TypeOK, CfgOK, StaOK, SvcOK, HisOK,
      Status, thrVars, envVars
<1>5. ASSUME NEW c \in Callers, config_init(c) PROVE TypeOK'
  BY <1>5, <1>0, Frame, ConstantsOK DEF config_init, TypeOK, CfgOK, StaOK, SvcOK, HisOK,
      Status, cfgVars, thrVars, envVars
<1>6. ASSUME NEW c \in Apps, DeinitClear(c) PROVE TypeOK'
  BY ZenonT(40), <1>6, <1>0, Frame, CallerGoto, AppIsCaller DEF DeinitClear, clear_inflight,
      TypeOK, CfgOK, StaOK, SvcOK, HisOK, Status, staVars, envVars, CallerPcs
<1>7. ASSUME NEW c \in Callers, erase_all(c) PROVE TypeOK'
  BY <1>7, <1>0, Frame DEF erase_all, TypeOK, CfgOK, StaOK, SvcOK, HisOK, Status, cfgVars,
      staVars, svcVars, thrVars, StoreOK
<1>8. ASSUME NEW c \in Callers, ApplyStoreFails(c) PROVE TypeOK'
  BY <1>8, <1>0, Frame, CallerGoto DEF ApplyStoreFails, TypeOK, CfgOK, StaOK, SvcOK, HisOK,
      Status, cfgVars, staVars, svcVars, envVars, hisVars, CallerPcs
<1>9. ASSUME NEW c \in Callers, ApplyStore(c) PROVE TypeOK'
  <2>1. PcOK'
    BY <1>9, CallerGoto DEF ApplyStore, TypeOK, CallerPcs
  <2>2. StoreOK'
    BY <1>9 DEF ApplyStore, TypeOK, CfgOK, StoreOK, Cred
  <2> QED
    BY <1>9, <1>0, <2>1, <2>2, Frame DEF ApplyStore, emit_event, TypeOK, CfgOK, StaOK,
        SvcOK, HisOK, cfgVars, svcVars
<1>10. ASSUME NEW c \in Callers, ApplySnapshot(c) PROVE TypeOK'
  BY ZenonT(40), <1>10, <1>0, Frame, CallerGoto DEF ApplySnapshot, TypeOK, CfgOK, StaOK,
      SvcOK, HisOK, Status, envVars, CallerPcs
<1>11. ASSUME NEW c \in Callers, ApplyConnect(c) PROVE TypeOK'
  BY <1>11, <1>0, Frame, CallerGoto, ConnectDrv DEF ApplyConnect, TypeOK,
      CfgOK, StaOK, SvcOK, HisOK, Status, cfgVars, staVars, svcVars, CallerPcs
<1>12. ASSUME NEW c \in Callers, ApplyConnectRejected(c) PROVE TypeOK'
  BY <1>12, <1>0, Frame, CallerGoto DEF ApplyConnectRejected, clear_inflight, TypeOK, CfgOK,
      StaOK, SvcOK, HisOK, Status, svcVars, envVars, CallerPcs
<1>13. ASSUME NEW c \in Callers, ApplySyncFail(c) PROVE TypeOK'
  BY <1>13, <1>0, Frame, CallerGoto, DeletedStore DEF ApplySyncFail, emit_event, TypeOK,
      CfgOK, StaOK, SvcOK, HisOK, Status, cfgVars, staVars, svcVars, CallerPcs, StoreOK
<1>14. ASSUME NEW c \in Callers, DeinitUnregister(c) PROVE TypeOK'
  BY ZenonT(40), <1>14, <1>0, Frame, CallerGoto DEF DeinitUnregister, TypeOK, CfgOK, StaOK,
      SvcOK, HisOK, Status, cfgVars, staVars, envVars, hisVars, CallerPcs
<1>15. ASSUME NEW s \in Status, ResultRetry(s) PROVE TypeOK'
  BY <1>15, <1>0, Frame, DeliverEvq DEF ResultRetry, TypeOK, CfgOK, StaOK, SvcOK, HisOK,
      Status, cfgVars, thrVars
<1>16. ASSUME NEW s \in Status, ResultFinal(s) PROVE TypeOK'
  <2>1. PcOK'
    BY <1>16, WorkerGoto DEF ResultFinal, FinalFailureBegin, TypeOK, WorkerPcs
  <2>2. SeenOK'
    BY <1>16, SeenUpdate DEF ResultFinal, FinalFailureBegin, TypeOK, CfgOK
  <2>3. StaOK'
    <3>1. attempts_completed' \in Nat
      BY <1>16 DEF ResultFinal, TypeOK, StaOK, SvcOK
    <3>2. last_conn_status' \in Status
      BY <1>16 DEF ResultFinal
    <3> QED
      BY <1>16, <3>1, <3>2 DEF ResultFinal, FinalFailureBegin, StaOK
  <2>4. EvqOK'
    BY <1>16, DeliverEvq DEF ResultFinal, TypeOK
  <2> QED
    BY <1>16, <1>0, <2>1, <2>2, <2>3, <2>4, Frame DEF ResultFinal, TypeOK, CfgOK, SvcOK,
        HisOK, cfgVars, svcVars
<1>17. ASSUME NEW t \in {"ev", "wq"}, FinalFailureDelete(t) PROVE TypeOK'
  BY <1>17, <1>0, Frame, WorkerGoto, DeletedStore DEF FinalFailureDelete, TypeOK, CfgOK,
      StaOK, SvcOK, HisOK, Status, cfgVars, staVars, svcVars, hisVars, WorkerPcs, StoreOK
<1>18. ASSUME NEW t \in {"ev", "wq"}, FinalFailureClear(t) PROVE TypeOK'
  <2>1. PcOK'
    BY <1>18, WorkerGoto DEF FinalFailureClear, TypeOK, WorkerPcs
  <2>2. SeenOK'
    BY <1>18, SeenUpdate DEF FinalFailureClear, TypeOK
  <2> QED
    BY <1>18, <1>0, <2>1, <2>2, Frame DEF FinalFailureClear, clear_inflight, emit_event,
        TypeOK, CfgOK, StaOK, SvcOK, HisOK, staVars, svcVars, envVars
<1>19. CASE connect_work_fn
  <2>1. DrvOK'
    BY <1>19 DEF connect_work_fn, TypeOK, DrvOK
  <2>2. EvqOK'
    BY <1>19, Raised DEF TypeOK
  <2> QED
    BY <1>19, <1>0, <2>1, <2>2, Frame DEF connect_work_fn, TypeOK, CfgOK, StaOK, SvcOK,
        HisOK, cfgVars, staVars, svcVars, thrVars
<1>20. CASE ResultIgnored
  BY <1>20, <1>0, Frame, DeliverEvq DEF ResultIgnored, TypeOK, CfgOK, StaOK, SvcOK, HisOK,
      Status, cfgVars, staVars, svcVars, thrVars, hisVars
<1>21. CASE ResultSuccess
  BY <1>21, <1>0, Frame, DeliverEvq DEF ResultSuccess, clear_inflight, emit_event, TypeOK,
      CfgOK, StaOK, SvcOK, HisOK, Status, svcVars, thrVars
<1>22. CASE RetryCheck
  <2>1. PcOK'
    BY <1>22, Frame, WorkerGoto DEF RetryCheck, TypeOK, WorkerPcs
  <2> QED
    BY <1>22, <1>0, <2>1, Frame DEF RetryCheck, TypeOK, CfgOK, StaOK, SvcOK, HisOK, cfgVars,
        staVars, envVars, hisVars
<1>23. CASE RetryConnect
  BY <1>23, <1>0, Frame, WorkerGoto, ConnectDrv DEF RetryConnect, TypeOK,
      CfgOK, StaOK, SvcOK, HisOK, Status, cfgVars, staVars, svcVars, WorkerPcs
<1>24. CASE RetryRejected
  <2>1. PcOK'
    BY <1>24, WorkerGoto DEF RetryRejected, FinalFailureBegin, TypeOK, WorkerPcs
  <2>2. SeenOK'
    BY <1>24, SeenUpdate DEF RetryRejected, FinalFailureBegin, TypeOK, CfgOK
  <2> QED
    BY <1>24, <1>0, <2>1, <2>2, Frame DEF RetryRejected, FinalFailureBegin, TypeOK, CfgOK,
        StaOK, SvcOK, HisOK, cfgVars, svcVars, envVars
<1>25. CASE Reboot
  <2>1. PcOK' /\ SeenOK'
    BY <1>25, ConstantsOK DEF Reboot, PcOK, SeenOK, Threads, CallerPcs, WorkerPcs
  <2>2. DrvOK' /\ EvqOK'
    BY <1>25 DEF Reboot, DrvOK, EvqOK, Status
  <2>3. HisOK'
    BY <1>25 DEF Reboot, TypeOK, HisOK
  <2> QED
    BY <1>25, <1>0, <2>1, <2>2, <2>3, Frame DEF Reboot, clear_inflight, TypeOK, CfgOK, StaOK,
        SvcOK, Status
<1>26. CASE UNCHANGED vars
  BY <1>26, <1>0, Frame DEF vars, TypeOK, CfgOK, StaOK, SvcOK, HisOK, Status, cfgVars,
      staVars, svcVars, thrVars, envVars, hisVars
<1> QED
  BY <1>1, <1>2, <1>3, <1>4, <1>5, <1>6, <1>7, <1>8, <1>9, <1>10, <1>11, <1>12, <1>13,
      <1>14, <1>15, <1>16, <1>17, <1>18, <1>19, <1>20, <1>21, <1>22, <1>23, <1>24, <1>25,
      <1>26 DEF Next, Request, AppCall, CallerStep, EventThread, Workqueue,
      on_connect_result, retry_work_handler, final_failure, Callers

\* Every reachable state is well typed.
THEOREM TypeCorrect == Spec => []TypeOK
<1>1. Init => TypeOK
  <2> SUFFICES ASSUME Init PROVE TypeOK
    OBVIOUS
  <2>1. PcOK /\ SeenOK
    BY ConstantsOK DEF Init, PowerOn, PcOK, SeenOK, Threads, CallerPcs, WorkerPcs
  <2>2. DrvOK /\ EvqOK /\ StoreOK
    BY DEF Init, PowerOn, DrvOK, EvqOK, StoreOK, Status
  <2>3. CfgOK /\ StaOK /\ SvcOK /\ HisOK /\ MishapOK
    BY DEF Init, PowerOn, CfgOK, StaOK, SvcOK, HisOK, MishapOK, Status
  <2> QED
    BY <2>1, <2>2, <2>3 DEF TypeOK
<1> QED
  BY <1>1, TypeStep, PTL DEF Spec

-----------------------------------------------------------------------------
\* A caller that moves leaves the workers and the other callers where they are.
LEMMA CallerMoves ==
    ASSUME TypeOK, NEW c \in Callers, NEW l, Goto(c, l)
    PROVE  /\ pc'[c] = l
           /\ pc'["ev"] = pc["ev"]
           /\ pc'["wq"] = pc["wq"]
           /\ \A d \in Callers : d # c => pc'[d] = pc[d]
BY ConstantsOK DEF TypeOK, PcOK, Goto, Threads

\* A worker that moves leaves the other worker and the callers where they are.
LEMMA WorkerMoves ==
    ASSUME TypeOK, NEW t \in {"ev", "wq"}, NEW l, Goto(t, l)
    PROVE  /\ pc'[t] = l
           /\ \A u \in {"ev", "wq"} : u # t => pc'[u] = pc[u]
           /\ \A c \in Callers : pc'[c] = pc[c]
BY ConstantsOK DEF TypeOK, PcOK, Goto, Threads

\* BudgetRespected made inductive: what get_status reads is replaced by the
\* fact behind it, that a failed attempt is only noted while attempts remain.
\* The event thread runs results and final failures, never a connect request.
Budget ==
    /\ attempts_max > 0 /\ inflight # NoCred /\ pc["ev"] = "idle"
         => attempts_completed < attempts_max
    /\ attempt_failed => attempts_completed < attempts_max
    /\ pc["ev"] # "connect"

\* Every action respects the budget (on_connect_result, apply, reset, init).
LEMMA BudgetStep == TypeOK /\ Budget /\ [Next]_vars => Budget'

<1> SUFFICES ASSUME TypeOK, Budget, [Next]_vars PROVE Budget'
  OBVIOUS
<1>1. ASSUME NEW c \in Callers, do_set_config(c) PROVE Budget'
  BY <1>1 DEF do_set_config, Budget, TypeOK, StaOK, SvcOK, staVars, svcVars, thrVars,
      envVars
<1>2. ASSUME NEW c \in Callers, ApplyDelete(c) PROVE Budget'
  BY <1>2, CallerMoves DEF ApplyDelete, Budget, TypeOK, StaOK, SvcOK, cfgVars, staVars,
      svcVars
<1>3. ASSUME NEW c \in Callers, set_and_apply(c) PROVE Budget'
  BY <1>3, CallerMoves DEF set_and_apply, Budget, TypeOK, StaOK, SvcOK, staVars, svcVars
<1>4. ASSUME NEW c \in Callers, config_reset(c) PROVE Budget'
  BY <1>4 DEF config_reset, clear_inflight, Budget, TypeOK, StaOK, SvcOK, thrVars, envVars
<1>5. ASSUME NEW c \in Callers, config_init(c) PROVE Budget'
  BY <1>5 DEF config_init, Budget, TypeOK, StaOK, SvcOK, cfgVars, thrVars, envVars
<1>6. ASSUME NEW c \in Apps, DeinitClear(c) PROVE Budget'
  BY <1>6, AppIsCaller, CallerMoves DEF DeinitClear, clear_inflight, Budget, TypeOK, StaOK,
      SvcOK, staVars, envVars
<1>7. ASSUME NEW c \in Callers, erase_all(c) PROVE Budget'
  BY <1>7 DEF erase_all, Budget, TypeOK, StaOK, SvcOK, cfgVars, staVars, svcVars, thrVars
<1>8. ASSUME NEW c \in Callers, ApplyStoreFails(c) PROVE Budget'
  BY <1>8, CallerMoves DEF ApplyStoreFails, Budget, TypeOK, StaOK, SvcOK, cfgVars, staVars,
      svcVars, envVars, hisVars
<1>9. ASSUME NEW c \in Callers, ApplyStore(c) PROVE Budget'
  BY <1>9, CallerMoves DEF ApplyStore, emit_event, Budget, TypeOK, StaOK, SvcOK, cfgVars,
      svcVars
<1>10. ASSUME NEW c \in Callers, ApplySnapshot(c) PROVE Budget'
  BY <1>10, CallerMoves DEF ApplySnapshot, Budget, TypeOK, StaOK, SvcOK, envVars
<1>11. ASSUME NEW c \in Callers, ApplyConnect(c) PROVE Budget'
  BY <1>11, CallerMoves DEF ApplyConnect, Budget, TypeOK, StaOK, SvcOK,
      cfgVars, staVars, svcVars
<1>12. ASSUME NEW c \in Callers, ApplyConnectRejected(c) PROVE Budget'
  BY <1>12, CallerMoves DEF ApplyConnectRejected, clear_inflight, Budget, TypeOK, StaOK,
      SvcOK, svcVars, envVars
<1>13. ASSUME NEW c \in Callers, ApplySyncFail(c) PROVE Budget'
  BY <1>13, CallerMoves DEF ApplySyncFail, emit_event, Budget, TypeOK, StaOK, SvcOK,
      cfgVars, staVars, svcVars
<1>14. ASSUME NEW c \in Callers, DeinitUnregister(c) PROVE Budget'
  BY <1>14, CallerMoves DEF DeinitUnregister, Budget, TypeOK, StaOK, SvcOK, cfgVars,
      staVars, envVars, hisVars
<1>15. ASSUME NEW s \in Status, ResultRetry(s) PROVE Budget'
  BY <1>15 DEF ResultRetry, Budget, TypeOK, StaOK, SvcOK, cfgVars, thrVars
<1>16. ASSUME NEW s \in Status, ResultFinal(s) PROVE Budget'
  BY <1>16, WorkerMoves DEF ResultFinal, FinalFailureBegin, Budget, TypeOK, StaOK, SvcOK,
      cfgVars, svcVars
<1>17. ASSUME NEW t \in {"ev", "wq"}, FinalFailureDelete(t) PROVE Budget'
  BY <1>17, WorkerMoves DEF FinalFailureDelete, Budget, TypeOK, StaOK, SvcOK, cfgVars,
      staVars, svcVars, hisVars
<1>18. ASSUME NEW t \in {"ev", "wq"}, FinalFailureClear(t) PROVE Budget'
  BY <1>18, WorkerMoves DEF FinalFailureClear, clear_inflight, emit_event, Budget, TypeOK,
      StaOK, SvcOK, staVars, svcVars, envVars
<1>19. CASE connect_work_fn
  BY <1>19 DEF connect_work_fn, Budget, TypeOK, StaOK, SvcOK, cfgVars, staVars, svcVars,
      thrVars
<1>20. CASE ResultIgnored
  BY <1>20 DEF ResultIgnored, Budget, TypeOK, StaOK, SvcOK, cfgVars, staVars, svcVars,
      thrVars, hisVars
<1>21. CASE ResultSuccess
  BY <1>21 DEF ResultSuccess, clear_inflight, emit_event, Budget, TypeOK, StaOK, SvcOK,
      svcVars, thrVars
<1>22. CASE RetryCheck
  BY <1>22, WorkerMoves DEF RetryCheck, Budget, TypeOK, StaOK, SvcOK, cfgVars, staVars,
      envVars, hisVars
<1>23. CASE RetryConnect
  BY <1>23, WorkerMoves DEF RetryConnect, Budget, TypeOK, StaOK, SvcOK,
      cfgVars, staVars, svcVars
<1>24. CASE RetryRejected
  BY <1>24, WorkerMoves DEF RetryRejected, FinalFailureBegin, Budget, TypeOK, StaOK, SvcOK,
      cfgVars, svcVars, envVars
<1>25. CASE Reboot
  BY <1>25 DEF Reboot, clear_inflight, Budget, TypeOK, StaOK, SvcOK, Threads
<1>26. CASE UNCHANGED vars
  BY <1>26 DEF vars, Budget, TypeOK, StaOK, SvcOK, cfgVars, staVars, svcVars, thrVars,
      envVars, hisVars
<1> QED
  BY <1>1, <1>2, <1>3, <1>4, <1>5, <1>6, <1>7, <1>8, <1>9, <1>10, <1>11, <1>12, <1>13,
      <1>14, <1>15, <1>16, <1>17, <1>18, <1>19, <1>20, <1>21, <1>22, <1>23, <1>24, <1>25,
      <1>26 DEF Next, Request, AppCall, CallerStep, EventThread, Workqueue,
      on_connect_result, retry_work_handler, final_failure, Callers

\* The invariant behind the theorem below.
LEMMA BudgetInvariant == Spec => []Budget
<1>1. Init => Budget
  BY DEF Init, PowerOn, Budget, Threads
<1> QED
  BY <1>1, TypeCorrect, BudgetStep, PTL DEF Spec

\* No interleaving of results, resets, applies and restarts overdraws the
\* retry budget or makes a status poll report a retry with none remaining.
THEOREM BudgetHolds == Spec => []BudgetRespected
<1>1. TypeOK /\ Budget => BudgetRespected
  BY DEF TypeOK, StaOK, SvcOK, Budget, BudgetRespected, get_status, remaining_attempts
<1> QED
  BY <1>1, TypeCorrect, BudgetInvariant, PTL

-----------------------------------------------------------------------------
\* RetryIdleWhenStopped made inductive: from the moment a stop has cleared the
\* snapshot and the retry, only an attempt begun behind the stop brings them
\* back.
Behind == Stopping /\ (inflight # NoCred \/ retryQ) => "orphaned" \in mishap

\* A step that leaves the callback alone and moves no caller into or out of the
\* stop leaves the service running or stopping as it was.
LEMMA SameService ==
    ASSUME TypeOK, cb_registered' = cb_registered,
           \/ pc' = pc
           \/ \E c \in Callers, l \in CallerPcs \ {"deinit_del"} :
                pc[c] # "deinit_del" /\ Goto(c, l)
           \/ \E t \in {"ev", "wq"}, l \in WorkerPcs : Goto(t, l)
    PROVE  Stopping' <=> Stopping
<1>1. CASE pc' = pc
  BY <1>1 DEF Stopping
<1>2. ASSUME NEW c \in Callers, NEW l \in CallerPcs \ {"deinit_del"},
             pc[c] # "deinit_del", Goto(c, l)
      PROVE  Stopping' <=> Stopping
  BY <1>2, CallerMoves, AppIsCaller DEF Stopping
<1>3. ASSUME NEW t \in {"ev", "wq"}, NEW l \in WorkerPcs, Goto(t, l)
      PROVE  Stopping' <=> Stopping
  BY <1>3, WorkerMoves, AppIsCaller DEF Stopping
<1> QED
  BY <1>1, <1>2, <1>3

\* Every action keeps a stopped service quiet (deinit against apply, result, retry).
LEMMA BehindStep == TypeOK /\ Behind /\ [Next]_vars => Behind'

<1> SUFFICES ASSUME TypeOK, Behind, [Next]_vars PROVE Behind'
  OBVIOUS
<1>1. ASSUME NEW c \in Callers, do_set_config(c) PROVE Behind'
  <2>1. Stopping' <=> Stopping
    BY <1>1, SameService DEF do_set_config, svcVars, thrVars
  <2> QED
    BY <1>1, <2>1 DEF do_set_config, Behind, Note, staVars, svcVars, thrVars, envVars
<1>2. ASSUME NEW c \in Callers, ApplyDelete(c) PROVE Behind'
  <2>1. Stopping' <=> Stopping
    BY <1>2, SameService DEF ApplyDelete, CallerPcs, svcVars, Idle
  <2> QED
    BY <1>2, <2>1 DEF ApplyDelete, Behind, Note, cfgVars, staVars, svcVars
<1>3. ASSUME NEW c \in Callers, set_and_apply(c) PROVE Behind'
  <2>1. Stopping' <=> Stopping
    BY <1>3, SameService DEF set_and_apply, CallerPcs, svcVars, Idle
  <2> QED
    BY <1>3, <2>1 DEF set_and_apply, Behind, Note, staVars, svcVars
<1>4. ASSUME NEW c \in Callers, config_reset(c) PROVE Behind'
  BY <1>4 DEF config_reset, clear_inflight, Behind, TypeOK
<1>5. ASSUME NEW c \in Callers, config_init(c) PROVE Behind'
  BY <1>5 DEF config_init, Behind, Stopping, Note, cfgVars, thrVars
<1>6. ASSUME NEW c \in Apps, DeinitClear(c) PROVE Behind'
  BY <1>6 DEF DeinitClear, clear_inflight, Behind, TypeOK
<1>7. ASSUME NEW c \in Callers, erase_all(c) PROVE Behind'
  <2>1. Stopping' <=> Stopping
    BY <1>7, SameService DEF erase_all, svcVars, thrVars
  <2> QED
    BY <1>7, <2>1 DEF erase_all, Behind, Note, cfgVars, staVars, svcVars, thrVars
<1>8. ASSUME NEW c \in Callers, ApplyStoreFails(c) PROVE Behind'
  <2>1. Stopping' <=> Stopping
    BY <1>8, SameService DEF ApplyStoreFails, CallerPcs, svcVars
  <2> QED
    BY <1>8, <2>1 DEF ApplyStoreFails, Behind, cfgVars, staVars, svcVars, envVars, hisVars
<1>9. ASSUME NEW c \in Callers, ApplyStore(c) PROVE Behind'
  <2>1. Stopping' <=> Stopping
    BY <1>9, SameService DEF ApplyStore, CallerPcs, svcVars
  <2> QED
    BY <1>9, <2>1 DEF ApplyStore, emit_event, Behind, cfgVars, svcVars, Orphaned
<1>10. ASSUME NEW c \in Callers, ApplySnapshot(c) PROVE Behind'
  <2>1. Stopping' <=> Stopping
    BY <1>10, SameService DEF ApplySnapshot, CallerPcs, svcVars
  <2> QED
    BY <1>10, <2>1 DEF ApplySnapshot, Behind, Note, envVars, Orphaned
<1>11. ASSUME NEW c \in Callers, ApplyConnect(c) PROVE Behind'
  <2>1. Stopping' <=> Stopping
    BY <1>11, SameService DEF ApplyConnect, CallerPcs, svcVars
  <2> QED
    BY <1>11, <2>1 DEF ApplyConnect, ConnectAccepted, Behind, cfgVars, staVars, svcVars
<1>12. ASSUME NEW c \in Callers, ApplyConnectRejected(c) PROVE Behind'
  <2>1. Stopping' <=> Stopping
    BY <1>12, SameService DEF ApplyConnectRejected, CallerPcs, svcVars
  <2> QED
    BY <1>12, <2>1 DEF ApplyConnectRejected, clear_inflight, Behind, Note, svcVars, envVars
<1>13. ASSUME NEW c \in Callers, ApplySyncFail(c) PROVE Behind'
  <2>1. Stopping' <=> Stopping
    BY <1>13, SameService DEF ApplySyncFail, CallerPcs, svcVars
  <2> QED
    BY <1>13, <2>1 DEF ApplySyncFail, emit_event, Behind, cfgVars, staVars, svcVars
<1>14. ASSUME NEW c \in Callers, DeinitUnregister(c) PROVE Behind'
  <2>1. Stopping
    BY <1>14 DEF DeinitUnregister, Stopping, TypeOK, PcOK
  <2> QED
    BY <1>14, <2>1 DEF DeinitUnregister, Behind, cfgVars, hisVars
<1>15. ASSUME NEW s \in Status, ResultRetry(s) PROVE Behind'
  <2>1. Stopping' <=> Stopping
    BY <1>15, SameService DEF ResultRetry, svcVars, thrVars
  <2> QED
    BY <1>15, <2>1 DEF ResultRetry, Behind, Note, cfgVars, thrVars, Stopping
<1>16. ASSUME NEW s \in Status, ResultFinal(s) PROVE Behind'
  <2>1. Stopping' <=> Stopping
    BY <1>16, SameService DEF ResultFinal, FinalFailureBegin, WorkerPcs, svcVars
  <2> QED
    BY <1>16, <2>1 DEF ResultFinal, FinalFailureBegin, Behind, Note, cfgVars, svcVars
<1>17. ASSUME NEW t \in {"ev", "wq"}, FinalFailureDelete(t) PROVE Behind'
  <2>1. Stopping' <=> Stopping
    BY <1>17, SameService DEF FinalFailureDelete, WorkerPcs, svcVars
  <2> QED
    BY <1>17, <2>1 DEF FinalFailureDelete, Behind, cfgVars, staVars, svcVars, hisVars
<1>18. ASSUME NEW t \in {"ev", "wq"}, FinalFailureClear(t) PROVE Behind'
  <2>1. Stopping' <=> Stopping
    BY <1>18, SameService DEF FinalFailureClear, WorkerPcs, svcVars
  <2> QED
    BY <1>18, <2>1 DEF FinalFailureClear, clear_inflight, emit_event, Behind, Note, staVars,
        svcVars, envVars
<1>19. CASE connect_work_fn
  <2>1. Stopping' <=> Stopping
    BY <1>19, SameService DEF connect_work_fn, svcVars, thrVars
  <2> QED
    BY <1>19, <2>1 DEF connect_work_fn, Behind, Note, cfgVars, staVars, svcVars, thrVars
<1>20. CASE ResultIgnored
  <2>1. Stopping' <=> Stopping
    BY <1>20, SameService DEF ResultIgnored, svcVars, thrVars
  <2> QED
    BY <1>20, <2>1 DEF ResultIgnored, Behind, cfgVars, staVars, svcVars, thrVars, hisVars
<1>21. CASE ResultSuccess
  <2>1. Stopping' <=> Stopping
    BY <1>21, SameService DEF ResultSuccess, svcVars, thrVars
  <2> QED
    BY <1>21, <2>1 DEF ResultSuccess, clear_inflight, emit_event, Behind, Note, svcVars,
        thrVars
<1>22. CASE RetryCheck
  <2>1. Stopping' <=> Stopping
    BY <1>22, SameService DEF RetryCheck, WorkerPcs, svcVars
  <2> QED
    BY <1>22, <2>1 DEF RetryCheck, Behind, cfgVars, staVars, envVars, hisVars
<1>23. CASE RetryConnect
  <2>1. Stopping' <=> Stopping
    BY <1>23, SameService DEF RetryConnect, WorkerPcs, svcVars
  <2> QED
    BY <1>23, <2>1 DEF RetryConnect, ConnectAccepted, Behind, cfgVars, staVars, svcVars
<1>24. CASE RetryRejected
  <2>1. Stopping' <=> Stopping
    BY <1>24, SameService DEF RetryRejected, FinalFailureBegin, WorkerPcs, svcVars
  <2> QED
    BY <1>24, <2>1 DEF RetryRejected, FinalFailureBegin, Behind, Note, cfgVars, svcVars,
        envVars
<1>25. CASE Reboot
  BY <1>25 DEF Reboot, clear_inflight, Behind, TypeOK
<1>26. CASE UNCHANGED vars
  <2>1. Stopping' <=> Stopping
    BY <1>26, SameService DEF vars, svcVars, thrVars
  <2> QED
    BY <1>26, <2>1 DEF vars, Behind, Note, cfgVars, staVars, svcVars, thrVars, envVars,
        hisVars
<1> QED
  BY <1>1, <1>2, <1>3, <1>4, <1>5, <1>6, <1>7, <1>8, <1>9, <1>10, <1>11, <1>12, <1>13,
      <1>14, <1>15, <1>16, <1>17, <1>18, <1>19, <1>20, <1>21, <1>22, <1>23, <1>24, <1>25,
      <1>26 DEF Next, Request, AppCall, CallerStep, EventThread, Workqueue,
      on_connect_result, retry_work_handler, final_failure, Callers

\* The invariant behind both theorems below.
LEMMA BehindHolds == Spec => []Behind
<1>1. Init => Behind
  BY DEF Init, PowerOn, Behind
<1> QED
  BY <1>1, TypeCorrect, BehindStep, PTL DEF Spec

\* With the service down no retry is pending, however deinit overlaps results,
\* retries and applies, unless a snapshot was taken behind the stop.
THEOREM RetryIsIdle == Spec => []RetryIdleWhenStopped
<1>1. Behind => RetryIdleWhenStopped
  BY DEF Behind, Stopping, RetryIdleWhenStopped
<1> QED
  BY <1>1, BehindHolds, PTL

-----------------------------------------------------------------------------
\* NoLostWakeup made inductive: the driver's latest request is about the
\* attempt in flight, unless the request is still to be made.
Woken ==
    /\ inflight # NoCred => drv.gen = inflightGen \/ \E c \in Callers : pc[c] = "connect"
    /\ cb_registered /\ inflight # NoCred /\ "lost" \notin mishap /\ "orphaned" \notin mishap
         => Wakeup

\* Every action keeps an answer on its way to the attempt in flight.
LEMMA WokenStep == TypeOK /\ Behind /\ Woken /\ [Next]_vars => Woken'

<1> SUFFICES ASSUME TypeOK, Behind, Woken, [Next]_vars PROVE Woken'
  OBVIOUS
<1>1. ASSUME NEW c \in Callers, do_set_config(c) PROVE Woken'
  BY <1>1 DEF do_set_config, Woken, Wakeup, TypeOK, Note, Idle, staVars, svcVars, thrVars,
      envVars
<1>2. ASSUME NEW c \in Callers, ApplyDelete(c) PROVE Woken'
  BY <1>2, CallerMoves DEF ApplyDelete, Woken, Wakeup, TypeOK, Note, Idle, cfgVars, staVars,
      svcVars
<1>3. ASSUME NEW c \in Callers, set_and_apply(c) PROVE Woken'
  BY <1>3, CallerMoves DEF set_and_apply, Woken, Wakeup, TypeOK, Note, Idle, staVars,
      svcVars
<1>4. ASSUME NEW c \in Callers, config_reset(c) PROVE Woken'
  BY <1>4 DEF config_reset, clear_inflight, Woken, Wakeup, TypeOK, Note, Idle, thrVars,
      envVars
<1>5. ASSUME NEW c \in Callers, config_init(c) PROVE Woken'
  BY <1>5 DEF config_init, Woken, Wakeup, TypeOK, Note, cfgVars, thrVars, envVars, Behind,
      Stopping
<1>6. ASSUME NEW c \in Apps, DeinitClear(c) PROVE Woken'
  BY <1>6, AppIsCaller, CallerMoves DEF DeinitClear, clear_inflight, Woken, Wakeup, TypeOK,
      Note, Idle, staVars, envVars
<1>7. ASSUME NEW c \in Callers, erase_all(c) PROVE Woken'
  BY <1>7 DEF erase_all, Woken, Wakeup, TypeOK, Note, cfgVars, staVars, svcVars, thrVars
<1>8. ASSUME NEW c \in Callers, ApplyStoreFails(c) PROVE Woken'
  BY <1>8, CallerMoves DEF ApplyStoreFails, Woken, Wakeup, TypeOK, cfgVars, staVars,
      svcVars, envVars, hisVars
<1>9. ASSUME NEW c \in Callers, ApplyStore(c) PROVE Woken'
  BY <1>9, CallerMoves DEF ApplyStore, emit_event, Woken, Wakeup, TypeOK, cfgVars, svcVars
<1>10. ASSUME NEW c \in Callers, ApplySnapshot(c) PROVE Woken'
  BY <1>10, CallerMoves DEF ApplySnapshot, Woken, Wakeup, TypeOK, Note, envVars
<1>11. ASSUME NEW c \in Callers, ApplyConnect(c) PROVE Woken'
  BY <1>11, CallerMoves DEF ApplyConnect, ConnectAccepted, Woken, Wakeup, TypeOK, cfgVars,
      staVars, svcVars
<1>12. ASSUME NEW c \in Callers, ApplyConnectRejected(c) PROVE Woken'
  BY <1>12, CallerMoves DEF ApplyConnectRejected, clear_inflight, Woken, Wakeup, TypeOK,
      Note, svcVars, envVars
<1>13. ASSUME NEW c \in Callers, ApplySyncFail(c) PROVE Woken'
  BY <1>13, CallerMoves DEF ApplySyncFail, emit_event, Woken, Wakeup, TypeOK, cfgVars,
      staVars, svcVars
<1>14. ASSUME NEW c \in Callers, DeinitUnregister(c) PROVE Woken'
  BY <1>14, CallerMoves DEF DeinitUnregister, Woken, Wakeup, TypeOK, cfgVars, staVars,
      envVars, hisVars
<1>15. ASSUME NEW s \in Status, ResultRetry(s) PROVE Woken'
  BY <1>15 DEF ResultRetry, Woken, Wakeup, TypeOK, Note, cfgVars, thrVars, Deliver
<1>16. ASSUME NEW s \in Status, ResultFinal(s) PROVE Woken'
  BY <1>16, WorkerMoves DEF ResultFinal, FinalFailureBegin, Woken, Wakeup, TypeOK, Note,
      cfgVars, svcVars, Deliver
<1>17. ASSUME NEW t \in {"ev", "wq"}, FinalFailureDelete(t) PROVE Woken'
  BY <1>17, WorkerMoves DEF FinalFailureDelete, Woken, Wakeup, TypeOK, cfgVars, staVars,
      svcVars, hisVars
<1>18. ASSUME NEW t \in {"ev", "wq"}, FinalFailureClear(t) PROVE Woken'
  BY <1>18, WorkerMoves DEF FinalFailureClear, clear_inflight, emit_event, Woken, Wakeup,
      TypeOK, Note, staVars, svcVars, envVars
<1>19. CASE connect_work_fn
  BY <1>19, Raised DEF connect_work_fn, Woken, Wakeup, TypeOK, Note, cfgVars, staVars,
      svcVars, thrVars, Lost
<1>20. CASE ResultIgnored
  BY <1>20 DEF ResultIgnored, Woken, Wakeup, TypeOK, cfgVars, staVars, svcVars, thrVars,
      hisVars, Deliver
<1>21. CASE ResultSuccess
  BY <1>21 DEF ResultSuccess, clear_inflight, emit_event, Woken, Wakeup, TypeOK, Note,
      svcVars, thrVars, Deliver
<1>22. CASE RetryCheck
  BY <1>22, WorkerMoves DEF RetryCheck, Woken, Wakeup, TypeOK, cfgVars, staVars, envVars,
      hisVars
<1>23. CASE RetryConnect
  BY <1>23, WorkerMoves DEF RetryConnect, ConnectAccepted, Woken, Wakeup, TypeOK, cfgVars,
      staVars, svcVars
<1>24. CASE RetryRejected
  BY <1>24, WorkerMoves DEF RetryRejected, FinalFailureBegin, Woken, Wakeup, TypeOK, Note,
      cfgVars, svcVars, envVars
<1>25. CASE Reboot
  BY <1>25 DEF Reboot, clear_inflight, Woken, Wakeup, TypeOK
<1>26. CASE UNCHANGED vars
  BY <1>26 DEF vars, Woken, Wakeup, TypeOK, Note, Idle, cfgVars, staVars, svcVars, thrVars,
      envVars, hisVars
<1> QED
  BY <1>1, <1>2, <1>3, <1>4, <1>5, <1>6, <1>7, <1>8, <1>9, <1>10, <1>11, <1>12, <1>13,
      <1>14, <1>15, <1>16, <1>17, <1>18, <1>19, <1>20, <1>21, <1>22, <1>23, <1>24, <1>25,
      <1>26 DEF Next, Request, AppCall, CallerStep, EventThread, Workqueue,
      on_connect_result, retry_work_handler, final_failure, Callers

\* While the service is up, a snapshot in flight always has something on its way
\* that resolves it, unless the event queue dropped its result or it was taken
\* behind a stop.
THEOREM NoWakeupLost == Spec => []NoLostWakeup
<1>1. Init => Woken
  BY DEF Init, PowerOn, Woken
<1>2. Woken => NoLostWakeup
  BY DEF Woken, NoLostWakeup
<1> QED
  BY <1>1, <1>2, TypeCorrect, BehindHolds, WokenStep, PTL DEF Spec

-----------------------------------------------------------------------------
MidPcs == {"snapshot", "connect", "sync_fail"}

\* A caller half-way through an apply that no other handler crossed is alone,
\* and what is staged is what it announced.
Staging ==
    "crossed" \notin mishap =>
      \A c \in Callers : pc[c] \in MidPcs =>
         /\ staged = tried
         /\ \A d \in Callers : d # c => pc[d] \notin MidPcs

\* Every action keeps the staged credentials of an uncrossed apply.
LEMMA StagingStep == TypeOK /\ Staging /\ [Next]_vars => Staging'

<1> SUFFICES ASSUME TypeOK, Staging, [Next]_vars PROVE Staging'
  OBVIOUS
<1>1. ASSUME NEW c \in Callers, do_set_config(c) PROVE Staging'
  BY <1>1 DEF do_set_config, Staging, MidPcs, TypeOK, Note, Crossed, Overlap, Threads, Idle,
      staVars, svcVars, thrVars, envVars
<1>2. ASSUME NEW c \in Callers, ApplyDelete(c) PROVE Staging'
  BY <1>2, CallerMoves DEF ApplyDelete, Staging, MidPcs, TypeOK, Note, Crossed, Overlap,
      Threads, Idle, cfgVars, staVars, svcVars
<1>3. ASSUME NEW c \in Callers, set_and_apply(c) PROVE Staging'
  BY <1>3, CallerMoves DEF set_and_apply, Staging, MidPcs, TypeOK, Note, Crossed, Overlap,
      Threads, Idle, staVars, svcVars
<1>4. ASSUME NEW c \in Callers, config_reset(c) PROVE Staging'
  BY <1>4 DEF config_reset, clear_inflight, Staging, MidPcs, TypeOK, Note, Crossed, Overlap,
      Threads, Idle, thrVars, envVars
<1>5. ASSUME NEW c \in Callers, config_init(c) PROVE Staging'
  BY <1>5 DEF config_init, Staging, MidPcs, TypeOK, Note, Crossed, Overlap, Threads,
      cfgVars, thrVars, envVars
<1>6. ASSUME NEW c \in Apps, DeinitClear(c) PROVE Staging'
  BY <1>6, AppIsCaller, CallerMoves DEF DeinitClear, clear_inflight, Staging, MidPcs,
      TypeOK, Note, Crossed, Overlap, Threads, Idle, staVars, envVars
<1>7. ASSUME NEW c \in Callers, erase_all(c) PROVE Staging'
  BY <1>7 DEF erase_all, Staging, MidPcs, TypeOK, Note, Crossed, Overlap, Threads, cfgVars,
      staVars, svcVars, thrVars
<1>8. ASSUME NEW c \in Callers, ApplyStoreFails(c) PROVE Staging'
  BY <1>8, CallerMoves DEF ApplyStoreFails, Staging, MidPcs, TypeOK, Crossed, Overlap,
      Threads, cfgVars, staVars, svcVars, envVars, hisVars
<1>9. ASSUME NEW c \in Callers, ApplyStore(c) PROVE Staging'
  BY <1>9, CallerMoves DEF ApplyStore, emit_event, Staging, MidPcs, TypeOK, Crossed,
      Overlap, Threads, cfgVars, svcVars
<1>10. ASSUME NEW c \in Callers, ApplySnapshot(c) PROVE Staging'
  BY <1>10, CallerMoves DEF ApplySnapshot, Staging, MidPcs, TypeOK, Note, Crossed, Overlap,
      Threads, envVars
<1>11. ASSUME NEW c \in Callers, ApplyConnect(c) PROVE Staging'
  BY <1>11, CallerMoves DEF ApplyConnect, ConnectAccepted, Staging, MidPcs, TypeOK, Crossed,
      Overlap, Threads, cfgVars, staVars, svcVars
<1>12. ASSUME NEW c \in Callers, ApplyConnectRejected(c) PROVE Staging'
  BY <1>12, CallerMoves DEF ApplyConnectRejected, clear_inflight, Staging, MidPcs, TypeOK,
      Note, Crossed, Overlap, Threads, svcVars, envVars
<1>13. ASSUME NEW c \in Callers, ApplySyncFail(c) PROVE Staging'
  BY <1>13, CallerMoves DEF ApplySyncFail, emit_event, Staging, MidPcs, TypeOK, Crossed,
      Overlap, Threads, cfgVars, staVars, svcVars
<1>14. ASSUME NEW c \in Callers, DeinitUnregister(c) PROVE Staging'
  BY <1>14, CallerMoves DEF DeinitUnregister, Staging, MidPcs, TypeOK, Crossed, Overlap,
      Threads, cfgVars, staVars, envVars, hisVars
<1>15. ASSUME NEW s \in Status, ResultRetry(s) PROVE Staging'
  BY <1>15 DEF ResultRetry, Staging, MidPcs, TypeOK, Note, Crossed, Overlap, Threads,
      cfgVars, thrVars
<1>16. ASSUME NEW s \in Status, ResultFinal(s) PROVE Staging'
  BY <1>16, WorkerMoves DEF ResultFinal, FinalFailureBegin, Staging, MidPcs, TypeOK, Note,
      Crossed, Overlap, Threads, cfgVars, svcVars
<1>17. ASSUME NEW t \in {"ev", "wq"}, FinalFailureDelete(t) PROVE Staging'
  BY <1>17, WorkerMoves DEF FinalFailureDelete, Staging, MidPcs, TypeOK, Crossed, Overlap,
      Threads, cfgVars, staVars, svcVars, hisVars
<1>18. ASSUME NEW t \in {"ev", "wq"}, FinalFailureClear(t) PROVE Staging'
  BY <1>18, WorkerMoves DEF FinalFailureClear, clear_inflight, emit_event, Staging, MidPcs,
      TypeOK, Note, Crossed, Overlap, Threads, staVars, svcVars, envVars
<1>19. CASE connect_work_fn
  BY <1>19 DEF connect_work_fn, Staging, MidPcs, TypeOK, Note, Crossed, Overlap, Threads,
      cfgVars, staVars, svcVars, thrVars
<1>20. CASE ResultIgnored
  BY <1>20 DEF ResultIgnored, Staging, MidPcs, TypeOK, Crossed, Overlap, Threads, cfgVars,
      staVars, svcVars, thrVars, hisVars
<1>21. CASE ResultSuccess
  BY <1>21 DEF ResultSuccess, clear_inflight, emit_event, Staging, MidPcs, TypeOK, Note,
      Crossed, Overlap, Threads, svcVars, thrVars
<1>22. CASE RetryCheck
  BY <1>22, WorkerMoves DEF RetryCheck, Staging, MidPcs, TypeOK, Crossed, Overlap, Threads,
      cfgVars, staVars, envVars, hisVars
<1>23. CASE RetryConnect
  BY <1>23, WorkerMoves DEF RetryConnect, ConnectAccepted, Staging, MidPcs, TypeOK, Crossed,
      Overlap, Threads, cfgVars, staVars, svcVars
<1>24. CASE RetryRejected
  BY <1>24, WorkerMoves DEF RetryRejected, FinalFailureBegin, Staging, MidPcs, TypeOK, Note,
      Crossed, Overlap, Threads, cfgVars, svcVars, envVars
<1>25. CASE Reboot
  BY <1>25 DEF Reboot, clear_inflight, Staging, MidPcs, TypeOK, Crossed, Overlap, Threads
<1>26. CASE UNCHANGED vars
  BY <1>26 DEF vars, Staging, MidPcs, TypeOK, Note, Crossed, Overlap, Threads, Idle,
      cfgVars, staVars, svcVars, thrVars, envVars, hisVars
<1> QED
  BY <1>1, <1>2, <1>3, <1>4, <1>5, <1>6, <1>7, <1>8, <1>9, <1>10, <1>11, <1>12, <1>13,
      <1>14, <1>15, <1>16, <1>17, <1>18, <1>19, <1>20, <1>21, <1>22, <1>23, <1>24, <1>25,
      <1>26 DEF Next, Request, AppCall, CallerStep, EventThread, Workqueue,
      on_connect_result, retry_work_handler, final_failure, Callers

\* What OthersUntouched says of a step.
MayDelete(s) ==
    \/ inflight # NoCred /\ inflight.ssid = s
    \/ \E c \in Callers : pc[c] = "sync_fail" /\ (tried.ssid = s \/ "crossed" \in mishap)
    \/ \E c \in Callers : pc[c] = "idle" /\ pc'[c] = "set" /\ staged'.ssid = s
    \/ \A r \in Ssids : store'[r] = NoPsk

\* Deleting credentials deletes the entry of their SSID and no other.
LEMMA DeletedOnly ==
    ASSUME StoreOK, NEW x \in Cred \cup {NoCred}, NEW s \in Ssids,
           store[s] # NoPsk, Deleted(x)[s] = NoPsk
    PROVE  x # NoCred /\ x.ssid = s
BY DEF StoreOK, Deleted

\* A step takes an entry only of the SSID applied, refused or in flight.
LEMMA DeleteStep ==
    ASSUME TypeOK, Staging, [Next]_vars,
           NEW s \in Ssids, store[s] # NoPsk, store'[s] = NoPsk
    PROVE  MayDelete(s)
<1> USE DEF TypeOK, CfgOK
<1>1. ASSUME NEW c \in Callers, ApplyDelete(c) PROVE MayDelete(s)
  BY <1>1, CallerMoves, DeletedOnly DEF ApplyDelete, Idle, cfgVars, MayDelete
<1>2. ASSUME NEW c \in Callers, set_and_apply(c) PROVE MayDelete(s)
  <2>1. PICK x \in Cred : staged' = x /\ store' = Deleted(x)
    BY <1>2 DEF set_and_apply
  <2> QED
    BY <1>2, <2>1, CallerMoves, DeletedOnly DEF set_and_apply, Idle, MayDelete
<1>3. ASSUME NEW c \in Callers, erase_all(c) PROVE MayDelete(s)
  BY <1>3 DEF erase_all, MayDelete
<1>4. ASSUME NEW c \in Callers, ApplyStore(c) PROVE MayDelete(s)
  BY <1>4, ConstantsOK DEF ApplyStore, StoreOK, Cred
<1>5. ASSUME NEW c \in Callers, ApplySyncFail(c) PROVE MayDelete(s)
  BY <1>5, DeletedOnly DEF ApplySyncFail, Staging, MidPcs, MayDelete
<1>6. ASSUME NEW t \in {"ev", "wq"}, FinalFailureDelete(t) PROVE MayDelete(s)
  BY <1>6, DeletedOnly DEF FinalFailureDelete, MayDelete
<1>7. store' # store
  OBVIOUS
<1> QED
  BY <1>1, <1>2, <1>3, <1>4, <1>5, <1>6, <1>7 DEF Next, Request, AppCall, CallerStep,
      EventThread, Workqueue, on_connect_result, retry_work_handler, final_failure, Callers,
      do_set_config, config_reset, config_init, DeinitClear, ApplyStoreFails,
      ApplySnapshot, ApplyConnect, ApplyConnectRejected, DeinitUnregister, ResultRetry,
      ResultFinal, FinalFailureClear, connect_work_fn, ResultIgnored, ResultSuccess,
      RetryCheck, RetryConnect, RetryRejected, Reboot, vars, envVars

\* A stored entry disappears only while its SSID is the one applied, refused or
\* in flight, or when the application erases the store, with any number of
\* transport and application threads at work.
THEOREM OthersAreUntouched == Spec => OthersUntouched
<1>1. Init => Staging
  BY DEF Init, PowerOn, Staging, MidPcs, Threads
<1>2. TypeOK /\ Staging /\ [Next]_vars =>
        [\A s \in Ssids :
           store[s] # NoPsk /\ store'[s] = NoPsk =>
            \/ inflight # NoCred /\ inflight.ssid = s
            \/ \E c \in Callers : pc[c] = "sync_fail" /\ (tried.ssid = s \/ "crossed" \in mishap)
            \/ \E c \in Callers : pc[c] = "idle" /\ pc'[c] = "set" /\ staged'.ssid = s
            \/ \A r \in Ssids : store'[r] = NoPsk]_vars
  BY DeleteStep DEF MayDelete
<1> QED
  BY <1>1, <1>2, TypeCorrect, StagingStep, PTL DEF Spec, OthersUntouched

-----------------------------------------------------------------------------
\* Every event names an apply.
LEMMA EventGens ==
    ASSUME EvqOK
    PROVE  \A i \in 1..Len(evq) : evq[i].gen \in Nat
<1> DEFINE Event == [status : Status, gen : Nat]
<1>1. evq \in Seq(Event)
  BY DEF EvqOK
<1> HIDE DEF Event
<1>2. \A i \in 1..Len(evq) : evq[i] \in Event
  BY <1>1
<1> QED
  BY <1>2 DEF Event

\* The oldest event is delivered, the others move up.
LEMMA Delivered ==
    ASSUME EvqOK, NEW s, Deliver(s)
    PROVE  /\ Len(evq) \in Nat /\ Len(evq') = Len(evq) - 1
           /\ 1 \in 1..Len(evq) /\ Head(evq) = evq[1] /\ evq[1].status = s
           /\ \A i \in 1..Len(evq') : i + 1 \in 1..Len(evq) /\ evq'[i] = evq[i + 1]
BY DEF EvqOK, Deliver

\* connect_work_fn ends the driver's request; its result joins the queue or is
\* dropped.
LEMMA Answered ==
    ASSUME DrvOK, EvqOK, connect_work_fn
    PROVE  \E s \in Status :
             /\ drv' = [queued |-> FALSE, gen |-> drv.gen,
                        target |-> drv.target, connected |-> (s = "ok")]
             /\ \/ evq' = evq
                \/ /\ Len(evq) \in Nat /\ Len(evq') = Len(evq) + 1
                   /\ \A i \in 1..Len(evq) : evq'[i] = evq[i]
                   /\ evq'[Len(evq) + 1] = [status |-> s, gen |-> drv.gen]
<1>1. PICK s \in Status :
        /\ drv' = [queued |-> FALSE, gen |-> drv.gen,
                   target |-> drv.target, connected |-> (s = "ok")]
        /\ evq' = evq \/ evq' = Append(evq, [status |-> s, gen |-> drv.gen])
  BY DEF connect_work_fn
<1>2. [status |-> s, gen |-> drv.gen] \in [status : Status, gen : Nat]
  BY DEF DrvOK
<1>3. CASE evq' = evq
  BY <1>1, <1>3
<1>4. CASE evq' = Append(evq, [status |-> s, gen |-> drv.gen])
  <2>1. /\ Len(evq) \in Nat /\ Len(evq') = Len(evq) + 1
        /\ \A i \in 1..Len(evq) : evq'[i] = evq[i]
        /\ evq'[Len(evq) + 1] = [status |-> s, gen |-> drv.gen]
    BY <1>2, <1>4 DEF EvqOK
  <2> QED
    BY <1>1, <2>1
<1> QED
  BY <1>1, <1>3, <1>4

\* Applies are numbered: nothing refers to one that is still to come.
Gens ==
    /\ inflight = NoCred <=> inflightGen = 0
    /\ inflightGen <= gen /\ drv.gen <= gen
    /\ \A i \in 1..Len(evq) : evq[i].gen <= gen
    /\ \A c \in Callers : pc[c] \in MidPcs => gen > 0

\* Every action keeps the numbering.
LEMMA GensStep == TypeOK /\ Gens /\ [Next]_vars => Gens'

<1> SUFFICES ASSUME TypeOK, Gens, [Next]_vars PROVE Gens'
  OBVIOUS
<1>1. ASSUME NEW c \in Callers, do_set_config(c) PROVE Gens'
  BY <1>1 DEF do_set_config, Gens, TypeOK, CfgOK, HisOK, MidPcs, EvqOK, staVars, svcVars,
      thrVars, envVars
<1>2. ASSUME NEW c \in Callers, ApplyDelete(c) PROVE Gens'
  BY <1>2, CallerMoves DEF ApplyDelete, Gens, TypeOK, CfgOK, HisOK, MidPcs, EvqOK, cfgVars,
      staVars, svcVars, Idle
<1>3. ASSUME NEW c \in Callers, set_and_apply(c) PROVE Gens'
  BY <1>3, CallerMoves DEF set_and_apply, Gens, TypeOK, CfgOK, HisOK, MidPcs, EvqOK,
      staVars, svcVars, Idle
<1>4. ASSUME NEW c \in Callers, config_reset(c) PROVE Gens'
  BY <1>4 DEF config_reset, clear_inflight, Gens, TypeOK, CfgOK, HisOK, MidPcs, EvqOK,
      thrVars, envVars
<1>5. ASSUME NEW c \in Callers, config_init(c) PROVE Gens'
  BY <1>5 DEF config_init, Gens, TypeOK, CfgOK, HisOK, MidPcs, EvqOK, cfgVars, thrVars,
      envVars
<1>6. ASSUME NEW c \in Apps, DeinitClear(c) PROVE Gens'
  BY <1>6, AppIsCaller, CallerMoves DEF DeinitClear, clear_inflight, Gens, TypeOK, CfgOK,
      HisOK, MidPcs, EvqOK, staVars, envVars, Idle
<1>7. ASSUME NEW c \in Callers, erase_all(c) PROVE Gens'
  BY <1>7 DEF erase_all, Gens, TypeOK, CfgOK, HisOK, MidPcs, EvqOK, cfgVars, staVars,
      svcVars, thrVars
<1>8. ASSUME NEW c \in Callers, ApplyStoreFails(c) PROVE Gens'
  BY <1>8, CallerMoves DEF ApplyStoreFails, Gens, TypeOK, CfgOK, HisOK, MidPcs, EvqOK,
      cfgVars, staVars, svcVars, envVars, hisVars
<1>9. ASSUME NEW c \in Callers, ApplyStore(c) PROVE Gens'
  <2>1. \A i \in 1..Len(evq') : evq'[i].gen <= gen'
    <3>1. \A i \in 1..Len(evq) : evq[i].gen \in Nat
      BY EventGens DEF TypeOK
    <3> QED
      BY <1>9, <3>1 DEF ApplyStore, Gens, TypeOK, HisOK
  <2>2. \A d \in Callers : pc'[d] \in MidPcs => gen' > 0
    BY <1>9 DEF ApplyStore, TypeOK, HisOK
  <2> QED
    BY <1>9, <2>1, <2>2 DEF ApplyStore, Gens, TypeOK, CfgOK, HisOK, DrvOK, cfgVars
<1>10. ASSUME NEW c \in Callers, ApplySnapshot(c) PROVE Gens'
  BY <1>10, CallerMoves DEF ApplySnapshot, Gens, TypeOK, CfgOK, HisOK, MidPcs, EvqOK,
      envVars
<1>11. ASSUME NEW c \in Callers, ApplyConnect(c) PROVE Gens'
  BY <1>11, CallerMoves DEF ApplyConnect, ConnectAccepted, Gens, TypeOK, CfgOK, HisOK,
      MidPcs, EvqOK, cfgVars, staVars, svcVars, DrvOK
<1>12. ASSUME NEW c \in Callers, ApplyConnectRejected(c) PROVE Gens'
  BY <1>12, CallerMoves DEF ApplyConnectRejected, clear_inflight, Gens, TypeOK, CfgOK,
      HisOK, MidPcs, EvqOK, svcVars, envVars
<1>13. ASSUME NEW c \in Callers, ApplySyncFail(c) PROVE Gens'
  BY <1>13, CallerMoves DEF ApplySyncFail, emit_event, Gens, TypeOK, CfgOK, HisOK, MidPcs,
      EvqOK, cfgVars, staVars, svcVars
<1>14. ASSUME NEW c \in Callers, DeinitUnregister(c) PROVE Gens'
  BY <1>14, CallerMoves DEF DeinitUnregister, Gens, TypeOK, CfgOK, HisOK, MidPcs, EvqOK,
      cfgVars, staVars, envVars, hisVars
<1>15. ASSUME NEW s \in Status, ResultRetry(s) PROVE Gens'
  BY <1>15, Delivered DEF ResultRetry, Gens, TypeOK, CfgOK, HisOK, MidPcs, EvqOK, cfgVars,
      thrVars
<1>16. ASSUME NEW s \in Status, ResultFinal(s) PROVE Gens'
  BY <1>16, WorkerMoves, Delivered DEF ResultFinal, FinalFailureBegin, Gens, TypeOK, CfgOK,
      HisOK, MidPcs, EvqOK, cfgVars, svcVars
<1>17. ASSUME NEW t \in {"ev", "wq"}, FinalFailureDelete(t) PROVE Gens'
  BY <1>17, WorkerMoves DEF FinalFailureDelete, Gens, TypeOK, CfgOK, HisOK, MidPcs, EvqOK,
      cfgVars, staVars, svcVars, hisVars
<1>18. ASSUME NEW t \in {"ev", "wq"}, FinalFailureClear(t) PROVE Gens'
  BY <1>18, WorkerMoves DEF FinalFailureClear, clear_inflight, emit_event, Gens, TypeOK,
      CfgOK, HisOK, MidPcs, EvqOK, staVars, svcVars, envVars
<1>19. CASE connect_work_fn
  <2>1. PICK s \in Status :
          /\ drv' = [queued |-> FALSE, gen |-> drv.gen,
                     target |-> drv.target, connected |-> (s = "ok")]
          /\ \/ evq' = evq
             \/ /\ Len(evq) \in Nat /\ Len(evq') = Len(evq) + 1
                /\ \A i \in 1..Len(evq) : evq'[i] = evq[i]
                /\ evq'[Len(evq) + 1] = [status |-> s, gen |-> drv.gen]
    BY <1>19, Answered DEF TypeOK
  <2>2. \A i \in 1..Len(evq') : evq'[i].gen <= gen
    BY <2>1 DEF Gens
  <2> QED
    BY <1>19, <2>1, <2>2 DEF connect_work_fn, Gens, cfgVars, thrVars
<1>20. CASE ResultIgnored
  BY <1>20, Delivered DEF ResultIgnored, Gens, TypeOK, CfgOK, HisOK, MidPcs, EvqOK, cfgVars,
      staVars, svcVars, thrVars, hisVars
<1>21. CASE ResultSuccess
  BY <1>21, Delivered DEF ResultSuccess, clear_inflight, emit_event, Gens, TypeOK, CfgOK,
      HisOK, MidPcs, EvqOK, svcVars, thrVars
<1>22. CASE RetryCheck
  BY <1>22, WorkerMoves DEF RetryCheck, Gens, TypeOK, CfgOK, HisOK, MidPcs, EvqOK, cfgVars,
      staVars, envVars, hisVars
<1>23. CASE RetryConnect
  BY <1>23, WorkerMoves DEF RetryConnect, ConnectAccepted, Gens, TypeOK, CfgOK, HisOK,
      MidPcs, EvqOK, cfgVars, staVars, svcVars, DrvOK
<1>24. CASE RetryRejected
  BY <1>24, WorkerMoves DEF RetryRejected, FinalFailureBegin, Gens, TypeOK, CfgOK, HisOK,
      MidPcs, EvqOK, cfgVars, svcVars, envVars
<1>25. CASE Reboot
  BY <1>25 DEF Reboot, clear_inflight, Gens, TypeOK, CfgOK, HisOK, MidPcs, EvqOK, Threads
<1>26. CASE UNCHANGED vars
  BY <1>26 DEF vars, Gens, TypeOK, CfgOK, HisOK, MidPcs, EvqOK, cfgVars, staVars, svcVars,
      thrVars, envVars, hisVars
<1> QED
  BY <1>1, <1>2, <1>3, <1>4, <1>5, <1>6, <1>7, <1>8, <1>9, <1>10, <1>11, <1>12, <1>13,
      <1>14, <1>15, <1>16, <1>17, <1>18, <1>19, <1>20, <1>21, <1>22, <1>23, <1>24, <1>25,
      <1>26 DEF Next, Request, AppCall, CallerStep, EventThread, Workqueue,
      on_connect_result, retry_work_handler, final_failure, Callers


FailPcs == {"ff_delete", "ff_clear"}
Failing == pc["ev"] \in FailPcs \/ pc["wq"] \in FailPcs
Retrying == retryQ \/ pc["wq"] = "connect"
Alone(c) == \A d \in Callers : d # c => pc[d] \in {"idle", "set"}

\* The course of an apply that nothing crossed, overtook or orphaned.  While it
\* is being made, its thread is alone and the driver knows nothing of it yet.
Applying ==
    \A c \in Callers : pc[c] \in MidPcs =>
      /\ staged = tried /\ tried \in Cred /\ out = "recv"
      /\ cb_registered /\ pc["ev"] = "idle" /\ Alone(c)
      /\ pc["wq"] = "idle" \/ (pc[c] = "snapshot" /\ pc["wq"] = "connect")
      /\ pc[c] = "sync_fail" => sta_state = "ConnectionFailed" /\ inflight = NoCred
      /\ pc[c] # "sync_fail" =>
           /\ sta_state = "Connecting" /\ drv.gen < gen
           /\ \A i \in 1..Len(evq) : evq[i].gen < gen
      /\ pc[c] = "snapshot" => inflightGen < gen
      /\ pc[c] = "connect" =>
           /\ inflight = tried /\ inflightGen = gen
           /\ connects = 0 /\ attempts_completed = 0 /\ ~retryQ

\* The driver has been asked for the attempt in flight.
Asked == inflight # NoCred /\ \A c \in Callers : pc[c] \notin {"snapshot", "connect"}

\* It then owes at most one answer, and a retry waits for none.
Answers ==
    /\ drv.gen = gen /\ drv.target = tried
    /\ \A i, j \in 1..Len(evq) : evq[i].gen = gen /\ evq[j].gen = gen => i = j
    /\ \A i \in 1..Len(evq) : evq[i].gen = gen =>
         ~drv.queued /\ ~Retrying /\ (drv.connected <=> evq[i].status = "ok")
    /\ Retrying => ~drv.queued
    /\ ~(retryQ /\ pc["wq"] = "connect")

\* The requests made are the attempts completed and the one under way.
Counted ==
    /\ attempts_max = 0 => attempts_completed = 0 /\ ~Retrying
    /\ connects = IF Retrying THEN attempts_completed ELSE attempts_completed + 1

Trying ==
    Asked => /\ inflight = tried /\ inflightGen = gen /\ out = "recv"
             /\ Answers
             /\ ~Failing => sta_state = "Connecting" /\ Counted

\* The failure is reported by one thread, after the last attempt.
Ending ==
    Failing => /\ inflight # NoCred /\ cb_registered /\ sta_state = "ConnectionFailed"
               /\ \A c \in Callers : pc[c] \in {"idle", "set"}
               /\ ~retryQ
               /\ pc["ev"] \in FailPcs =>
                    /\ pc["wq"] = "idle"
                    /\ connects = IF attempts_max = 0 THEN 1 ELSE attempts_max
               /\ pc["wq"] \in FailPcs =>
                    pc["ev"] = "idle" /\ attempts_max > 0 /\ connects = attempts_completed

\* Success leaves the driver connected and owing nothing.
Joined ==
    /\ pc["wq"] = "connect" => inflight # NoCred
    /\ cb_registered /\ sta_state = "Connected" =>
         inflight = NoCred /\ ~drv.queued /\ drv.connected /\ drv.target = tried
    /\ cb_registered /\ sta_state \in {"Connecting", "Connected"} /\ "erased" \notin mishap =>
         tried \in Cred /\ store[tried.ssid] = tried.psk

Course == Untouched => Applying /\ Trying /\ Ending /\ Joined

\* The history forgets only when a new apply is announced or power is lost.
LEMMA NoteGrows ==
    ASSUME NEW S, Note(S), Untouched'
    PROVE  Untouched /\ (S \cap {"crossed", "stale", "orphaned"} = {})
BY DEF Note, Untouched

\* A handler that crossed nobody found every other thread outside wc.
LEMMA NotCrossed ==
    ASSUME NEW S, "crossed" \notin Crossed(S)
    PROVE  \A u \in S : pc[u] \in {"idle", "set"}
BY DEF Crossed, Overlap

\* A result that is taken while its own apply is undisturbed is the one answer
\* the driver owed, and no other thread is at work.
LEMMA OwnResult ==
    ASSUME TypeOK, Course, NEW s, Deliver(s), inflight # NoCred,
           Note(Stale \cup Crossed(Threads \ {"ev"})), Untouched'
    PROVE  /\ \A c \in Callers : pc[c] \in {"idle", "set"}
           /\ pc["wq"] = "idle" /\ ~Failing
           /\ inflight = tried /\ inflightGen = gen /\ out = "recv"
           /\ sta_state = "Connecting" /\ Answers /\ Counted
           /\ ~drv.queued /\ ~Retrying /\ (drv.connected <=> s = "ok")
           /\ \A i \in 1..Len(evq') : evq'[i].gen # gen
<1>1. Untouched /\ "crossed" \notin Crossed(Threads \ {"ev"}) /\ Head(evq).gen = inflightGen
  BY NoteGrows DEF Stale
<1>2. (\A c \in Callers : pc[c] \in {"idle", "set"}) /\ pc["wq"] = "idle"
  BY <1>1, NotCrossed, ConstantsOK DEF Threads, TypeOK, PcOK, WorkerPcs
<1>3. Asked /\ ~Failing
  BY <1>2 DEF Deliver, Asked, Failing, FailPcs
<1>4. /\ inflight = tried /\ inflightGen = gen /\ out = "recv"
      /\ Answers /\ Counted /\ sta_state = "Connecting"
  BY <1>1, <1>3 DEF Course, Trying
<1>5. evq[1].gen = gen /\ evq[1].status = s
  BY <1>1, <1>4, Delivered DEF TypeOK
<1>6. ~drv.queued /\ ~Retrying /\ (drv.connected <=> s = "ok")
  BY <1>4, <1>5, Delivered DEF Answers, TypeOK
<1>7. \A i \in 1..Len(evq') : evq'[i].gen # gen
  BY <1>4, <1>5, Delivered DEF Answers, TypeOK
<1> QED
  BY <1>2, <1>3, <1>4, <1>6, <1>7

\* Deleting another entry leaves the one that is not noted as erased.
LEMMA KeptEntry ==
    ASSUME StoreOK, NEW x \in Cred \cup {NoCred}, store' = Deleted(x),
           tried \in Cred, store[tried.ssid] = tried.psk, "erased" \notin Erased
    PROVE  store'[tried.ssid] = tried.psk
BY ConstantsOK DEF StoreOK, Deleted, Erased, Cred

\* Every action keeps an undisturbed apply on its course.
LEMMA CourseStep ==
    TypeOK /\ Behind /\ Budget /\ Gens /\ Course /\ [Next]_vars => Course'

<1> SUFFICES ASSUME TypeOK, Behind, Budget, Gens, Course, [Next]_vars PROVE Course'
  OBVIOUS
<1>1. ASSUME NEW c \in Callers, do_set_config(c) PROVE Course'
  <2> SUFFICES ASSUME Untouched' PROVE Applying' /\ Trying' /\ Ending' /\ Joined'
    BY DEF Course
  <2>1. Untouched /\ Applying /\ Trying /\ Ending /\ Joined
    BY <1>1, NoteGrows DEF do_set_config, Course
  <2>3. Alone(c) /\ pc[c] = "idle"
    BY <1>1, NoteGrows, NotCrossed DEF do_set_config, Idle, Alone
  <2>5. Applying'
    BY <1>1, <2>1, <2>3 DEF do_set_config, Applying, Alone, MidPcs, TypeOK, SvcOK, Idle,
        staVars, svcVars, thrVars, envVars
  <2>6. Trying'
    BY <1>1, <2>1, <2>3 DEF do_set_config, Trying, Asked, Answers, Counted, Retrying,
        Failing, FailPcs, Applying, MidPcs, Alone, Ending, StaOK, TypeOK, SvcOK, Idle,
        staVars, svcVars, thrVars, envVars
  <2>7. Ending'
    BY <1>1, <2>1, <2>3 DEF do_set_config, Ending, Failing, FailPcs, Applying, Alone,
        MidPcs, Trying, Asked, Answers, Counted, Retrying, StaOK, Joined, TypeOK, SvcOK,
        Idle, staVars, svcVars, thrVars, envVars
  <2>8. Joined'
    BY <1>1, <2>1, <2>3 DEF do_set_config, Joined, Note, Applying, Alone, MidPcs, Trying,
        Asked, Answers, Failing, FailPcs, Ending, StoreOK, TypeOK, SvcOK, Idle, staVars,
        svcVars, thrVars, envVars
  <2> QED
    BY <2>5, <2>6, <2>7, <2>8
<1>2. ASSUME NEW c \in Callers, ApplyDelete(c) PROVE Course'
  <2> SUFFICES ASSUME Untouched' PROVE Applying' /\ Trying' /\ Ending' /\ Joined'
    BY DEF Course
  <2>1. Untouched /\ Applying /\ Trying /\ Ending /\ Joined
    BY <1>2, NoteGrows DEF ApplyDelete, Course
  <2>5. Applying'
    BY <1>2, CallerMoves, <2>1 DEF ApplyDelete, Applying, Alone, MidPcs, TypeOK, SvcOK,
        Idle, cfgVars, staVars, svcVars
  <2>6. Trying'
    BY <1>2, CallerMoves, <2>1 DEF ApplyDelete, Trying, Asked, Answers, Counted, Retrying,
        Failing, FailPcs, Applying, MidPcs, Alone, Ending, StaOK, TypeOK, SvcOK, Idle,
        cfgVars, staVars, svcVars
  <2>7. Ending'
    BY <1>2, CallerMoves, <2>1 DEF ApplyDelete, Ending, Failing, FailPcs, Applying, Alone,
        MidPcs, Trying, Asked, Answers, Counted, Retrying, StaOK, Joined, TypeOK, SvcOK,
        Idle, cfgVars, staVars, svcVars
  <2>8. Joined'
    <3>1. ASSUME cb_registered, sta_state \in {"Connecting", "Connected"},
                 "erased" \notin mishap'
          PROVE  tried \in Cred /\ store'[tried.ssid] = tried.psk
      <4>1. "erased" \notin mishap /\ "erased" \notin Erased
        BY <1>2, <3>1 DEF ApplyDelete, Note
      <4>2. tried \in Cred /\ store[tried.ssid] = tried.psk
        BY <2>1, <3>1, <4>1 DEF Joined
      <4> QED
        BY <1>2, <4>1, <4>2, KeptEntry DEF ApplyDelete, TypeOK, CfgOK
    <3> QED
      BY <1>2, <2>1, <3>1, CallerMoves DEF ApplyDelete, Joined, cfgVars, staVars, svcVars
  <2> QED
    BY <2>5, <2>6, <2>7, <2>8
<1>3. ASSUME NEW c \in Callers, set_and_apply(c) PROVE Course'
  <2> SUFFICES ASSUME Untouched' PROVE Applying' /\ Trying' /\ Ending' /\ Joined'
    BY DEF Course
  <2>1. Untouched /\ Applying /\ Trying /\ Ending /\ Joined
    BY <1>3, NoteGrows DEF set_and_apply, Course
  <2>3. Alone(c) /\ pc[c] = "idle"
    BY <1>3, NoteGrows, NotCrossed DEF set_and_apply, Idle, Alone
  <2>5. Applying'
    BY <1>3, CallerMoves, <2>1, <2>3 DEF set_and_apply, Applying, Alone, MidPcs, TypeOK,
        SvcOK, Idle, staVars, svcVars
  <2>6. Trying'
    BY <1>3, CallerMoves, <2>1, <2>3 DEF set_and_apply, Trying, Asked, Answers, Counted,
        Retrying, Failing, FailPcs, Applying, MidPcs, Alone, Ending, StaOK, TypeOK, SvcOK,
        Idle, staVars, svcVars
  <2>7. Ending'
    BY <1>3, CallerMoves, <2>1, <2>3 DEF set_and_apply, Ending, Failing, FailPcs, Applying,
        Alone, MidPcs, Trying, Asked, Answers, Counted, Retrying, StaOK, Joined, TypeOK,
        SvcOK, Idle, staVars, svcVars
  <2>8. Joined'
    BY <1>3, CallerMoves, <2>1, <2>3, KeptEntry DEF set_and_apply, Joined, Note, Applying,
        Alone, MidPcs, Trying, Asked, Answers, Failing, FailPcs, Ending, StoreOK, TypeOK,
        SvcOK, Idle, staVars, svcVars
  <2> QED
    BY <2>5, <2>6, <2>7, <2>8
<1>4. ASSUME NEW c \in Callers, config_reset(c) PROVE Course'
  <2> SUFFICES ASSUME Untouched' PROVE Applying' /\ Trying' /\ Ending' /\ Joined'
    BY DEF Course
  <2>1. Untouched /\ Applying /\ Trying /\ Ending /\ Joined
    BY <1>4, NoteGrows DEF config_reset, Course
  <2>2. \A u \in Threads \ {c} : pc[u] \in {"idle", "set"}
    BY <1>4, NoteGrows, NotCrossed DEF config_reset
  <2>3. Alone(c) /\ pc["ev"] = "idle" /\ pc["wq"] = "idle"
    BY <2>2, ConstantsOK DEF Alone, Threads, TypeOK, PcOK, WorkerPcs
  <2>5. Applying'
    BY <1>4, <2>1, <2>3 DEF config_reset, clear_inflight, Applying, Alone, MidPcs, TypeOK,
        SvcOK, Idle, thrVars, envVars
  <2>6. Trying'
    BY <1>4, <2>1, <2>3 DEF config_reset, clear_inflight, Trying, Asked, Answers, Counted,
        Retrying, Failing, FailPcs, Applying, MidPcs, Alone, Ending, StaOK, TypeOK, SvcOK,
        Idle, thrVars, envVars
  <2>7. Ending'
    BY <1>4, <2>1, <2>3 DEF config_reset, clear_inflight, Ending, Failing, FailPcs,
        Applying, Alone, MidPcs, Trying, Asked, Answers, Counted, Retrying, StaOK, Joined,
        TypeOK, SvcOK, Idle, thrVars, envVars
  <2>8. Joined'
    BY <1>4, <2>1, <2>3 DEF config_reset, clear_inflight, Joined, Note, Applying, Alone,
        MidPcs, Trying, Asked, Answers, Failing, FailPcs, Ending, StoreOK, TypeOK, SvcOK,
        Idle, thrVars, envVars
  <2> QED
    BY <2>5, <2>6, <2>7, <2>8
<1>5. ASSUME NEW c \in Callers, config_init(c) PROVE Course'
  <2> SUFFICES ASSUME Untouched' PROVE Applying' /\ Trying' /\ Ending' /\ Joined'
    BY DEF Course
  <2>1. Untouched /\ Applying /\ Trying /\ Ending /\ Joined
    BY <1>5, NoteGrows DEF config_init, Course
  <2>2. \A u \in Threads \ {c} : pc[u] \in {"idle", "set"}
    BY <1>5, NoteGrows, NotCrossed DEF config_init
  <2>3. Alone(c) /\ pc["ev"] = "idle" /\ pc["wq"] = "idle"
    BY <2>2, ConstantsOK DEF Alone, Threads, TypeOK, PcOK, WorkerPcs
  <2>5. Applying'
    BY <1>5, <2>1, <2>3 DEF config_init, Applying, Alone, MidPcs, TypeOK, SvcOK, Behind,
        Stopping, Untouched, cfgVars, thrVars, envVars
  <2>6. Trying'
    BY <1>5, <2>1, <2>3 DEF config_init, Trying, Asked, Answers, Counted, Retrying, Failing,
        FailPcs, Applying, MidPcs, Alone, Ending, StaOK, TypeOK, SvcOK, Behind, Stopping,
        Untouched, cfgVars, thrVars, envVars
  <2>7. Ending'
    BY <1>5, <2>1, <2>3 DEF config_init, Ending, Failing, FailPcs, Applying, Alone, MidPcs,
        Trying, Asked, Answers, Counted, Retrying, StaOK, Joined, TypeOK, SvcOK, Behind,
        Stopping, Untouched, cfgVars, thrVars, envVars
  <2>8. Joined'
    BY <1>5, <2>1, <2>3 DEF config_init, Joined, Note, Applying, Alone, MidPcs, Trying,
        Asked, Answers, Failing, FailPcs, Ending, StoreOK, TypeOK, SvcOK, Behind, Stopping,
        Untouched, cfgVars, thrVars, envVars
  <2> QED
    BY <2>5, <2>6, <2>7, <2>8
<1>6. ASSUME NEW c \in Apps, DeinitClear(c) PROVE Course'
  <2> SUFFICES ASSUME Untouched' PROVE Applying' /\ Trying' /\ Ending' /\ Joined'
    BY DEF Course
  <2>1. Untouched /\ Applying /\ Trying /\ Ending /\ Joined
    BY <1>6, NoteGrows DEF DeinitClear, Course
  <2>2. \A u \in Threads \ {c} : pc[u] \in {"idle", "set"}
    BY <1>6, NoteGrows, NotCrossed DEF DeinitClear
  <2>3. Alone(c) /\ pc["ev"] = "idle" /\ pc["wq"] = "idle"
    BY <2>2, ConstantsOK DEF Alone, Threads, TypeOK, PcOK, WorkerPcs, Callers
  <2>5. Applying'
    BY <1>6, AppIsCaller, CallerMoves, <2>1, <2>3 DEF DeinitClear, clear_inflight, Applying,
        Alone, MidPcs, TypeOK, SvcOK, Idle, staVars, envVars
  <2>6. Trying'
    BY <1>6, AppIsCaller, CallerMoves, <2>1, <2>3 DEF DeinitClear, clear_inflight, Trying,
        Asked, Answers, Counted, Retrying, Failing, FailPcs, Applying, MidPcs, Alone,
        Ending, StaOK, TypeOK, SvcOK, Idle, staVars, envVars
  <2>7. Ending'
    BY <1>6, AppIsCaller, CallerMoves, <2>1, <2>3 DEF DeinitClear, clear_inflight, Ending,
        Failing, FailPcs, Applying, Alone, MidPcs, Trying, Asked, Answers, Counted,
        Retrying, StaOK, Joined, TypeOK, SvcOK, Idle, staVars, envVars
  <2>8. Joined'
    BY <1>6, AppIsCaller, CallerMoves, <2>1, <2>3 DEF DeinitClear, clear_inflight, Joined,
        Note, Applying, Alone, MidPcs, Trying, Asked, Answers, Failing, FailPcs, Ending,
        StoreOK, TypeOK, SvcOK, Idle, staVars, envVars
  <2> QED
    BY <2>5, <2>6, <2>7, <2>8
<1>7. ASSUME NEW c \in Callers, erase_all(c) PROVE Course'
  <2> SUFFICES ASSUME Untouched' PROVE Applying' /\ Trying' /\ Ending' /\ Joined'
    BY DEF Course
  <2>1. Untouched /\ Applying /\ Trying /\ Ending /\ Joined
    BY <1>7, NoteGrows DEF erase_all, Course
  <2>5. Applying'
    BY <1>7, <2>1 DEF erase_all, Applying, Alone, MidPcs, TypeOK, SvcOK, cfgVars, staVars,
        svcVars, thrVars
  <2>6. Trying'
    BY <1>7, <2>1 DEF erase_all, Trying, Asked, Answers, Counted, Retrying, Failing,
        FailPcs, Applying, MidPcs, Alone, Ending, StaOK, TypeOK, SvcOK, cfgVars, staVars,
        svcVars, thrVars
  <2>7. Ending'
    BY <1>7, <2>1 DEF erase_all, Ending, Failing, FailPcs, Applying, Alone, MidPcs, Trying,
        Asked, Answers, Counted, Retrying, StaOK, Joined, TypeOK, SvcOK, cfgVars, staVars,
        svcVars, thrVars
  <2>8. Joined'
    <3>1. ASSUME cb_registered, sta_state \in {"Connecting", "Connected"},
                 "erased" \notin mishap'
          PROVE  FALSE
      <4>1. "erased" \notin mishap /\ "erased" \notin Erased
        BY <1>7, <3>1 DEF erase_all, Note
      <4>2. tried \in Cred
        BY <2>1, <3>1, <4>1 DEF Joined
      <4>3. tried # NoCred /\ tried.ssid \in Ssids
        BY <4>2, ConstantsOK DEF Cred
      <4> QED
        BY <1>7, <4>1, <4>3 DEF erase_all, Erased
    <3> QED
      BY <1>7, <2>1, <3>1 DEF erase_all, Joined, cfgVars, staVars, svcVars, thrVars
  <2> QED
    BY <2>5, <2>6, <2>7, <2>8
<1>8. ASSUME NEW c \in Callers, ApplyStoreFails(c) PROVE Course'
  <2> SUFFICES ASSUME Untouched' PROVE Applying' /\ Trying' /\ Ending' /\ Joined'
    BY DEF Course
  <2>1. Untouched /\ Applying /\ Trying /\ Ending /\ Joined
    BY <1>8 DEF ApplyStoreFails, Course, Untouched, hisVars
  <2>5. Applying'
    BY <1>8, CallerMoves, <2>1 DEF ApplyStoreFails, Applying, Alone, MidPcs, TypeOK, SvcOK,
        cfgVars, staVars, svcVars, envVars, hisVars
  <2>6. Trying'
    BY <1>8, CallerMoves, <2>1 DEF ApplyStoreFails, Trying, Asked, Answers, Counted,
        Retrying, Failing, FailPcs, Applying, MidPcs, Alone, Ending, StaOK, TypeOK, SvcOK,
        cfgVars, staVars, svcVars, envVars, hisVars
  <2>7. Ending'
    BY <1>8, CallerMoves, <2>1 DEF ApplyStoreFails, Ending, Failing, FailPcs, Applying,
        Alone, MidPcs, Trying, Asked, Answers, Counted, Retrying, StaOK, Joined, TypeOK,
        SvcOK, cfgVars, staVars, svcVars, envVars, hisVars
  <2>8. Joined'
    BY <1>8, CallerMoves, <2>1 DEF ApplyStoreFails, Joined, Applying, Alone, MidPcs, Trying,
        Asked, Answers, Failing, FailPcs, Ending, StoreOK, TypeOK, SvcOK, cfgVars, staVars,
        svcVars, envVars, hisVars
  <2> QED
    BY <2>5, <2>6, <2>7, <2>8
<1>9. ASSUME NEW c \in Callers, ApplyStore(c) PROVE Course'
  <2> SUFFICES ASSUME Untouched' PROVE Applying' /\ Trying' /\ Ending' /\ Joined'
    BY DEF Course
  <2>2. \A u \in Threads \ {c} : pc[u] \in {"idle", "set"}
    BY <1>9, NotCrossed DEF ApplyStore, Untouched
  <2>3. Alone(c) /\ pc["ev"] = "idle" /\ pc["wq"] = "idle"
    BY <2>2, ConstantsOK DEF Alone, Threads, TypeOK, PcOK, WorkerPcs
  <2>5. Applying'
    <3>1. cb_registered
      BY <1>9 DEF ApplyStore, Orphaned, Stopping, Untouched
    <3>2. \A i \in 1..Len(evq) : evq[i].gen < gen'
      <4>1. \A i \in 1..Len(evq) : evq[i].gen \in Nat
        BY EventGens DEF TypeOK
      <4> QED
        BY <1>9, <4>1 DEF ApplyStore, Gens, TypeOK, HisOK
    <3>3. drv.gen < gen' /\ inflightGen < gen'
      BY <1>9 DEF ApplyStore, Gens, TypeOK, HisOK, DrvOK, CfgOK
    <3>4. staged \in Cred
      BY <1>9 DEF ApplyStore, TypeOK, CfgOK
    <3> QED
      BY <1>9, <2>3, <3>1, <3>2, <3>3, <3>4, CallerMoves DEF ApplyStore, emit_event, Applying,
          Alone, MidPcs, cfgVars, svcVars
  <2>6. Trying'
    BY <1>9, CallerMoves, <2>3 DEF ApplyStore, emit_event, Trying, Asked, Answers, Counted,
        Retrying, Failing, FailPcs, Applying, MidPcs, Alone, Ending, StaOK, TypeOK, SvcOK,
        Orphaned, Stopping, Untouched, Gens, CfgOK, HisOK, DrvOK, cfgVars, svcVars
  <2>7. Ending'
    BY <1>9, CallerMoves, <2>3 DEF ApplyStore, emit_event, Ending, Failing, FailPcs,
        Applying, Alone, MidPcs, Trying, Asked, Answers, Counted, Retrying, StaOK, Joined,
        TypeOK, SvcOK, Orphaned, Stopping, Untouched, Gens, CfgOK, HisOK, DrvOK, cfgVars,
        svcVars
  <2>8. Joined'
    <3>1. staged \in Cred
      BY <1>9 DEF ApplyStore, TypeOK, CfgOK
    <3>2. store'[staged.ssid] = staged.psk
      BY <1>9, <3>1 DEF ApplyStore, TypeOK, StoreOK, Cred
    <3> QED
      BY <1>9, <2>3, <3>1, <3>2, CallerMoves DEF ApplyStore, Joined
  <2> QED
    BY <2>5, <2>6, <2>7, <2>8
<1>10. ASSUME NEW c \in Callers, ApplySnapshot(c) PROVE Course'
  <2> SUFFICES ASSUME Untouched' PROVE Applying' /\ Trying' /\ Ending' /\ Joined'
    BY DEF Course
  <2>1. Untouched /\ Applying /\ Trying /\ Ending /\ Joined
    BY <1>10, NoteGrows DEF ApplySnapshot, Course
  <2>2. \A u \in Threads \ {c} : pc[u] \in {"idle", "set"}
    BY <1>10, NoteGrows, NotCrossed DEF ApplySnapshot
  <2>3. Alone(c) /\ pc["ev"] = "idle" /\ pc["wq"] = "idle"
    BY <2>2, ConstantsOK DEF Alone, Threads, TypeOK, PcOK, WorkerPcs
  <2>5. Applying'
    <3>1. /\ staged = tried /\ tried \in Cred /\ out = "recv" /\ cb_registered
          /\ sta_state = "Connecting" /\ drv.gen < gen
          /\ \A i \in 1..Len(evq) : evq[i].gen < gen
      BY <1>10, <2>1 DEF ApplySnapshot, Applying, MidPcs
    <3>2. staged # NoCred
      BY <3>1, ConstantsOK
    <3> QED
      BY <1>10, <2>3, <3>1, <3>2, CallerMoves DEF ApplySnapshot, Applying, Alone, MidPcs, envVars
  <2>6. Trying'
    BY <1>10, CallerMoves, <2>1, <2>3 DEF ApplySnapshot, Trying, Asked, Answers, Counted,
        Retrying, Failing, FailPcs, Applying, MidPcs, Alone, Ending, StaOK, TypeOK, SvcOK,
        Gens, CfgOK, HisOK, envVars
  <2>7. Ending'
    BY <1>10, CallerMoves, <2>1, <2>3 DEF ApplySnapshot, Ending, Failing, FailPcs, Applying,
        Alone, MidPcs, Trying, Asked, Answers, Counted, Retrying, StaOK, Joined, TypeOK,
        SvcOK, Gens, CfgOK, HisOK, envVars
  <2>8. Joined'
    BY <1>10, CallerMoves, <2>1, <2>3 DEF ApplySnapshot, Joined, Note, Applying, Alone,
        MidPcs, Trying, Asked, Answers, Failing, FailPcs, Ending, StoreOK, TypeOK, SvcOK,
        Gens, CfgOK, HisOK, envVars
  <2> QED
    BY <2>5, <2>6, <2>7, <2>8
<1>11. ASSUME NEW c \in Callers, ApplyConnect(c) PROVE Course'
  <2> SUFFICES ASSUME Untouched' PROVE Applying' /\ Trying' /\ Ending' /\ Joined'
    BY DEF Course
  <2>1. Untouched /\ Applying /\ Trying /\ Ending /\ Joined
    BY <1>11 DEF ApplyConnect, Course, Untouched, hisVars
  <2>5. Applying'
    BY <1>11, CallerMoves, <2>1 DEF ApplyConnect, ConnectAccepted, Applying, Alone, MidPcs,
        TypeOK, SvcOK, cfgVars, staVars, svcVars
  <2>6. Trying'
    <3>1. /\ inflight = tried /\ inflightGen = gen /\ out = "recv"
          /\ connects = 0 /\ attempts_completed = 0 /\ ~retryQ
          /\ pc["wq"] = "idle" /\ pc["ev"] = "idle" /\ sta_state = "Connecting"
          /\ \A i \in 1..Len(evq) : evq[i].gen < gen
      BY <1>11, <2>1 DEF ApplyConnect, Applying, MidPcs
    <3>2. /\ drv'.queued /\ drv'.gen = gen /\ drv'.target = tried /\ connects' = 1
          /\ ~Retrying' /\ ~Failing'
      BY <1>11, <3>1, CallerMoves DEF ApplyConnect, ConnectAccepted, Retrying, Failing, FailPcs,
          svcVars
    <3>3. \A i \in 1..Len(evq') : evq'[i].gen # gen'
      <4>1. \A i \in 1..Len(evq) : evq[i].gen \in Nat
        BY EventGens DEF TypeOK
      <4> QED
        BY <1>11, <3>1, <4>1 DEF ApplyConnect, TypeOK, HisOK
    <3>4. Answers'
      BY <1>11, <3>2, <3>3, CallerMoves, <3>1 DEF ApplyConnect, Answers, svcVars
    <3> QED
      BY <1>11, <3>1, <3>2, <3>4 DEF ApplyConnect, Trying, Counted, cfgVars, staVars, svcVars
  <2>7. Ending'
    BY <1>11, CallerMoves, <2>1 DEF ApplyConnect, ConnectAccepted, Ending, Failing, FailPcs,
        Applying, Alone, MidPcs, Trying, Asked, Answers, Counted, Retrying, StaOK, Joined,
        TypeOK, SvcOK, cfgVars, staVars, svcVars
  <2>8. Joined'
    BY <1>11, CallerMoves, <2>1 DEF ApplyConnect, ConnectAccepted, Joined, Applying, Alone,
        MidPcs, Trying, Asked, Answers, Failing, FailPcs, Ending, StoreOK, TypeOK, SvcOK,
        cfgVars, staVars, svcVars
  <2> QED
    BY <2>5, <2>6, <2>7, <2>8
<1>12. ASSUME NEW c \in Callers, ApplyConnectRejected(c) PROVE Course'
  <2> SUFFICES ASSUME Untouched' PROVE Applying' /\ Trying' /\ Ending' /\ Joined'
    BY DEF Course
  <2>1. Untouched /\ Applying /\ Trying /\ Ending /\ Joined
    BY <1>12, NoteGrows DEF ApplyConnectRejected, Course
  <2>2. \A u \in Threads \ {c} : pc[u] \in {"idle", "set"}
    BY <1>12, NoteGrows, NotCrossed DEF ApplyConnectRejected
  <2>3. Alone(c) /\ pc["ev"] = "idle" /\ pc["wq"] = "idle"
    BY <2>2, ConstantsOK DEF Alone, Threads, TypeOK, PcOK, WorkerPcs
  <2>5. Applying'
    BY <1>12, CallerMoves, <2>1, <2>3 DEF ApplyConnectRejected, clear_inflight, Applying,
        Alone, MidPcs, TypeOK, SvcOK, svcVars, envVars
  <2>6. Trying'
    BY <1>12, CallerMoves, <2>1, <2>3 DEF ApplyConnectRejected, clear_inflight, Trying,
        Asked, Answers, Counted, Retrying, Failing, FailPcs, Applying, MidPcs, Alone,
        Ending, StaOK, TypeOK, SvcOK, svcVars, envVars
  <2>7. Ending'
    BY <1>12, CallerMoves, <2>1, <2>3 DEF ApplyConnectRejected, clear_inflight, Ending,
        Failing, FailPcs, Applying, Alone, MidPcs, Trying, Asked, Answers, Counted,
        Retrying, StaOK, Joined, TypeOK, SvcOK, svcVars, envVars
  <2>8. Joined'
    BY <1>12, CallerMoves, <2>1, <2>3 DEF ApplyConnectRejected, clear_inflight, Joined,
        Note, Applying, Alone, MidPcs, Trying, Asked, Answers, Failing, FailPcs, Ending,
        StoreOK, TypeOK, SvcOK, svcVars, envVars
  <2> QED
    BY <2>5, <2>6, <2>7, <2>8
<1>13. ASSUME NEW c \in Callers, ApplySyncFail(c) PROVE Course'
  <2> SUFFICES ASSUME Untouched' PROVE Applying' /\ Trying' /\ Ending' /\ Joined'
    BY DEF Course
  <2>1. Untouched /\ Applying /\ Trying /\ Ending /\ Joined
    BY <1>13 DEF ApplySyncFail, Course, Untouched, hisVars
  <2>5. Applying'
    BY <1>13, CallerMoves, <2>1 DEF ApplySyncFail, emit_event, Applying, Alone, MidPcs,
        TypeOK, SvcOK, cfgVars, staVars, svcVars
  <2>6. Trying'
    BY <1>13, CallerMoves, <2>1 DEF ApplySyncFail, emit_event, Trying, Asked, Answers,
        Counted, Retrying, Failing, FailPcs, Applying, MidPcs, Alone, Ending, StaOK, TypeOK,
        SvcOK, cfgVars, staVars, svcVars
  <2>7. Ending'
    BY <1>13, CallerMoves, <2>1 DEF ApplySyncFail, emit_event, Ending, Failing, FailPcs,
        Applying, Alone, MidPcs, Trying, Asked, Answers, Counted, Retrying, StaOK, Joined,
        TypeOK, SvcOK, cfgVars, staVars, svcVars
  <2>8. Joined'
    BY <1>13, CallerMoves, <2>1 DEF ApplySyncFail, emit_event, Joined, Applying, Alone,
        MidPcs, Trying, Asked, Answers, Failing, FailPcs, Ending, StoreOK, TypeOK, SvcOK,
        cfgVars, staVars, svcVars
  <2> QED
    BY <2>5, <2>6, <2>7, <2>8
<1>14. ASSUME NEW c \in Callers, DeinitUnregister(c) PROVE Course'
  <2> SUFFICES ASSUME Untouched' PROVE Applying' /\ Trying' /\ Ending' /\ Joined'
    BY DEF Course
  <2>1. Untouched /\ Applying /\ Trying /\ Ending /\ Joined
    BY <1>14 DEF DeinitUnregister, Course, Untouched, hisVars
  <2>2. Stopping
    BY <1>14 DEF DeinitUnregister, Stopping, TypeOK, PcOK
  <2>5. Applying'
    BY <1>14, CallerMoves, <2>1, <2>2 DEF DeinitUnregister, Applying, Alone, MidPcs, TypeOK,
        SvcOK, Behind, Stopping, Untouched, Ending, Failing, FailPcs, cfgVars, staVars,
        envVars, hisVars
  <2>6. Trying'
    BY <1>14, CallerMoves, <2>1, <2>2 DEF DeinitUnregister, Trying, Asked, Answers, Counted,
        Retrying, Failing, FailPcs, Applying, MidPcs, Alone, Ending, StaOK, TypeOK, SvcOK,
        Behind, Stopping, Untouched, cfgVars, staVars, envVars, hisVars
  <2>7. Ending'
    BY <1>14, CallerMoves, <2>1, <2>2 DEF DeinitUnregister, Ending, Failing, FailPcs,
        Applying, Alone, MidPcs, Trying, Asked, Answers, Counted, Retrying, StaOK, Joined,
        TypeOK, SvcOK, Behind, Stopping, Untouched, cfgVars, staVars, envVars, hisVars
  <2>8. Joined'
    BY <1>14, CallerMoves, <2>1, <2>2 DEF DeinitUnregister, Joined, Applying, Alone, MidPcs,
        Trying, Asked, Answers, Failing, FailPcs, Ending, StoreOK, TypeOK, SvcOK, Behind,
        Stopping, Untouched, cfgVars, staVars, envVars, hisVars
  <2> QED
    BY <2>5, <2>6, <2>7, <2>8
<1>15. ASSUME NEW s \in Status, ResultRetry(s) PROVE Course'
  <2> SUFFICES ASSUME Untouched' PROVE Applying' /\ Trying' /\ Ending' /\ Joined'
    BY DEF Course
  <2>1. Untouched /\ Applying /\ Trying /\ Ending /\ Joined
    BY <1>15, NoteGrows DEF ResultRetry, Course
  <2>2. /\ \A c \in Callers : pc[c] \in {"idle", "set"}
        /\ pc["wq"] = "idle" /\ ~Failing
        /\ inflight = tried /\ inflightGen = gen /\ out = "recv"
        /\ sta_state = "Connecting" /\ Answers /\ Counted
        /\ ~drv.queued /\ ~Retrying /\ (drv.connected <=> s = "ok")
        /\ \A i \in 1..Len(evq') : evq'[i].gen # gen
    BY <1>15, OwnResult DEF ResultRetry
  <2>5. Applying'
    BY <1>15, <2>1, <2>2 DEF ResultRetry, Applying, Alone, MidPcs, TypeOK, SvcOK, cfgVars,
        thrVars
  <2>6. Trying'
    <3>1. Retrying' /\ pc' = pc /\ drv' = drv /\ gen' = gen /\ tried' = tried
      BY <1>15 DEF ResultRetry, Retrying, thrVars
    <3>2. Answers'
      BY <1>15, <2>2, <3>1 DEF ResultRetry, Answers
    <3>3. attempts_max # 0 /\ connects = attempts_completed + 1
      BY <1>15, <2>2 DEF ResultRetry, Counted, TypeOK, StaOK, SvcOK
    <3> QED
      BY <1>15, <2>2, <3>1, <3>2, <3>3 DEF ResultRetry, Trying, Counted, cfgVars
  <2>7. Ending'
    BY <1>15, <2>2 DEF ResultRetry, Ending, Failing, thrVars
  <2>8. Joined'
    BY <1>15, <2>1, <2>2 DEF ResultRetry, Joined, Note, cfgVars, thrVars
  <2> QED
    BY <2>5, <2>6, <2>7, <2>8
<1>16. ASSUME NEW s \in Status, ResultFinal(s) PROVE Course'
  <2> SUFFICES ASSUME Untouched' PROVE Applying' /\ Trying' /\ Ending' /\ Joined'
    BY DEF Course
  <2>1. Untouched /\ Applying /\ Trying /\ Ending /\ Joined
    BY <1>16, NoteGrows DEF ResultFinal, Course
  <2>2. /\ \A c \in Callers : pc[c] \in {"idle", "set"}
        /\ pc["wq"] = "idle" /\ ~Failing
        /\ inflight = tried /\ inflightGen = gen /\ out = "recv"
        /\ sta_state = "Connecting" /\ Answers /\ Counted
        /\ ~drv.queued /\ ~Retrying /\ (drv.connected <=> s = "ok")
        /\ \A i \in 1..Len(evq') : evq'[i].gen # gen
    BY <1>16, OwnResult DEF ResultFinal
  <2>5. Applying'
    BY <1>16, WorkerMoves, <2>1, <2>2 DEF ResultFinal, FinalFailureBegin, Applying, Alone,
        MidPcs, TypeOK, SvcOK, Budget, StaOK, cfgVars, svcVars
  <2>6. Trying'
    <3>1. /\ pc'["ev"] = "ff_delete" /\ pc'["wq"] = pc["wq"] /\ retryQ' = retryQ
          /\ drv' = drv /\ gen' = gen /\ tried' = tried
      BY <1>16, WorkerMoves DEF ResultFinal, FinalFailureBegin, svcVars
    <3>2. Answers'
      BY <1>16, <2>2, <3>1 DEF Answers, Retrying
    <3> QED
      BY <1>16, <2>2, <3>1, <3>2 DEF ResultFinal, Trying, Failing, FailPcs, cfgVars
  <2>7. Ending'
    <3>1. connects = attempts_completed + 1
      BY <2>2 DEF Counted
    <3>2. connects = IF attempts_max = 0 THEN 1 ELSE attempts_max
      BY <1>16, <2>2, <3>1 DEF ResultFinal, Deliver, Counted, Budget, TypeOK, StaOK, SvcOK
    <3> QED
      BY <1>16, <2>2, <3>2, WorkerMoves DEF ResultFinal, FinalFailureBegin, Ending,
          Failing, FailPcs, Retrying, cfgVars, svcVars
  <2>8. Joined'
    BY <1>16, WorkerMoves, <2>1, <2>2 DEF ResultFinal, FinalFailureBegin, Joined, Note,
        Applying, Alone, MidPcs, Trying, Asked, Answers, Failing, FailPcs, Ending, StoreOK,
        TypeOK, SvcOK, Budget, StaOK, cfgVars, svcVars
  <2> QED
    BY <2>5, <2>6, <2>7, <2>8
<1>17. ASSUME NEW t \in {"ev", "wq"}, FinalFailureDelete(t) PROVE Course'
  <2> SUFFICES ASSUME Untouched' PROVE Applying' /\ Trying' /\ Ending' /\ Joined'
    BY DEF Course
  <2>1. Untouched /\ Applying /\ Trying /\ Ending /\ Joined
    BY <1>17 DEF FinalFailureDelete, Course, Untouched, hisVars
  <2>5. Applying'
    BY <1>17, WorkerMoves, <2>1 DEF FinalFailureDelete, Applying, Alone, MidPcs, TypeOK,
        SvcOK, cfgVars, staVars, svcVars, hisVars
  <2>6. Trying'
    BY <1>17, WorkerMoves, <2>1 DEF FinalFailureDelete, Trying, Asked, Answers, Counted,
        Retrying, Failing, FailPcs, Applying, MidPcs, Alone, Ending, StaOK, TypeOK, SvcOK,
        cfgVars, staVars, svcVars, hisVars
  <2>7. Ending'
    BY <1>17, WorkerMoves, <2>1 DEF FinalFailureDelete, Ending, Failing, FailPcs, Applying,
        Alone, MidPcs, Trying, Asked, Answers, Counted, Retrying, StaOK, Joined, TypeOK,
        SvcOK, cfgVars, staVars, svcVars, hisVars
  <2>8. Joined'
    BY <1>17, WorkerMoves, <2>1 DEF FinalFailureDelete, Joined, Applying, Alone, MidPcs,
        Trying, Asked, Answers, Failing, FailPcs, Ending, StoreOK, TypeOK, SvcOK, cfgVars,
        staVars, svcVars, hisVars
  <2> QED
    BY <2>5, <2>6, <2>7, <2>8
<1>18. ASSUME NEW t \in {"ev", "wq"}, FinalFailureClear(t) PROVE Course'
  <2> SUFFICES ASSUME Untouched' PROVE Applying' /\ Trying' /\ Ending' /\ Joined'
    BY DEF Course
  <2>1. Untouched /\ Applying /\ Trying /\ Ending /\ Joined
    BY <1>18, NoteGrows DEF FinalFailureClear, Course
  <2>2. \A u \in Threads \ {t} : pc[u] \in {"idle", "set"}
    BY <1>18, NoteGrows, NotCrossed DEF FinalFailureClear
  <2>3. /\ \A d \in Callers : pc[d] \in {"idle", "set"}
        /\ \A u \in {"ev", "wq"} : u # t => pc[u] = "idle"
    BY <2>2, ConstantsOK DEF Threads, TypeOK, PcOK, WorkerPcs
  <2>5. Applying'
    BY <1>18, WorkerMoves, <2>1, <2>3 DEF FinalFailureClear, clear_inflight, emit_event,
        Applying, Alone, MidPcs, TypeOK, SvcOK, staVars, svcVars, envVars
  <2>6. Trying'
    BY <1>18, WorkerMoves, <2>1, <2>3 DEF FinalFailureClear, clear_inflight, emit_event,
        Trying, Asked, Answers, Counted, Retrying, Failing, FailPcs, Applying, MidPcs,
        Alone, Ending, StaOK, TypeOK, SvcOK, staVars, svcVars, envVars
  <2>7. Ending'
    BY <1>18, WorkerMoves, <2>1, <2>3 DEF FinalFailureClear, clear_inflight, emit_event,
        Ending, Failing, FailPcs, Applying, Alone, MidPcs, Trying, Asked, Answers, Counted,
        Retrying, StaOK, Joined, TypeOK, SvcOK, staVars, svcVars, envVars
  <2>8. Joined'
    BY <1>18, WorkerMoves, <2>1, <2>3 DEF FinalFailureClear, clear_inflight, emit_event,
        Joined, Note, Applying, Alone, MidPcs, Trying, Asked, Answers, Failing, FailPcs,
        Ending, StoreOK, TypeOK, SvcOK, staVars, svcVars, envVars
  <2> QED
    BY <2>5, <2>6, <2>7, <2>8
<1>19. CASE connect_work_fn
  <2> SUFFICES ASSUME Untouched' PROVE Applying' /\ Trying' /\ Ending' /\ Joined'
    BY DEF Course
  <2>1. Untouched /\ Applying /\ Trying /\ Ending /\ Joined
    BY <1>19, NoteGrows DEF connect_work_fn, Course, Untouched
  <2>2. PICK s \in Status :
          /\ drv' = [queued |-> FALSE, gen |-> drv.gen,
                     target |-> drv.target, connected |-> (s = "ok")]
          /\ \/ evq' = evq
             \/ /\ Len(evq) \in Nat /\ Len(evq') = Len(evq) + 1
                /\ \A i \in 1..Len(evq) : evq'[i] = evq[i]
                /\ evq'[Len(evq) + 1] = [status |-> s, gen |-> drv.gen]
    BY <1>19, Answered DEF TypeOK
  <2>5. Applying'
    BY <1>19, <2>1, <2>2 DEF connect_work_fn, Applying, Alone, MidPcs, TypeOK, SvcOK,
        cfgVars, staVars, svcVars, thrVars
  <2>6. Trying'
    <3> SUFFICES ASSUME Asked' PROVE
            /\ inflight' = tried' /\ inflightGen' = gen' /\ out' = "recv" /\ Answers'
            /\ ~Failing' => sta_state' = "Connecting" /\ Counted'
      BY DEF Trying
    <3>1. /\ pc' = pc /\ inflight' = inflight /\ inflightGen' = inflightGen
          /\ retryQ' = retryQ /\ attempts_max' = attempts_max /\ sta_state' = sta_state
          /\ attempts_completed' = attempts_completed
          /\ gen' = gen /\ tried' = tried /\ out' = out /\ connects' = connects
      BY <1>19 DEF connect_work_fn, cfgVars, staVars, svcVars, thrVars
    <3>2. Asked
      BY <3>1 DEF Asked
    <3>3. /\ inflight = tried /\ inflightGen = gen /\ out = "recv" /\ Answers
          /\ ~Failing => sta_state = "Connecting" /\ Counted
      BY <2>1, <3>2 DEF Trying
    <3>4. drv.queued /\ ~Retrying /\ \A i \in 1..Len(evq) : evq[i].gen # gen
      BY <1>19, <3>3 DEF connect_work_fn, Answers
    <3>5. Answers'
      <4>1. CASE evq' = evq
        BY <2>2, <3>1, <3>3, <3>4, <4>1 DEF Answers, Retrying
      <4>2. CASE evq' # evq
        <5>1. /\ \A i \in 1..Len(evq') : evq'[i].gen = gen =>
                   i = Len(evq) + 1 /\ evq'[i].status = s
              /\ ~drv'.queued /\ drv'.gen = gen /\ drv'.target = tried
              /\ drv'.connected <=> s = "ok"
          <6>1. /\ Len(evq) \in Nat /\ Len(evq') = Len(evq) + 1
                /\ \A i \in 1..Len(evq) : evq'[i] = evq[i]
                /\ evq'[Len(evq) + 1].status = s
            BY <2>2, <4>2
          <6>2. /\ ~drv'.queued /\ drv'.gen = gen /\ drv'.target = tried
                /\ drv'.connected <=> s = "ok"
            BY <2>2, <3>3 DEF Answers
          <6>3. ASSUME NEW i \in 1..Len(evq'), evq'[i].gen = gen
                PROVE  i = Len(evq) + 1 /\ evq'[i].status = s
            BY <3>4, <6>1, <6>3
          <6> QED
            BY <6>2, <6>3
        <5> QED
          BY <3>1, <3>4, <5>1 DEF Answers, Retrying
      <4> QED
        BY <4>1, <4>2
    <3> QED
      BY <3>1, <3>3, <3>5 DEF Failing, Counted, Retrying
  <2>7. Ending'
    BY <1>19, <2>1, <2>2 DEF connect_work_fn, Ending, Failing, FailPcs, Applying, Alone,
        MidPcs, Trying, Asked, Answers, Counted, Retrying, StaOK, Joined, TypeOK, SvcOK,
        cfgVars, staVars, svcVars, thrVars
  <2>8. Joined'
    BY <1>19, <2>1, <2>2 DEF connect_work_fn, Joined, Note, Applying, Alone, MidPcs, Trying,
        Asked, Answers, Failing, FailPcs, Ending, StoreOK, TypeOK, SvcOK, cfgVars, staVars,
        svcVars, thrVars
  <2> QED
    BY <2>5, <2>6, <2>7, <2>8
<1>20. CASE ResultIgnored
  <2> SUFFICES ASSUME Untouched' PROVE Applying' /\ Trying' /\ Ending' /\ Joined'
    BY DEF Course
  <2>1. Untouched /\ Applying /\ Trying /\ Ending /\ Joined
    BY <1>20 DEF ResultIgnored, Course, Untouched, hisVars
  <2>5. Applying'
    BY <1>20, <2>1, Delivered DEF ResultIgnored, Applying, Alone, MidPcs, TypeOK, SvcOK,
        cfgVars, staVars, svcVars, thrVars, hisVars
  <2>6. Trying'
    <3>1. ASSUME Asked' PROVE FALSE
      <4>1. Asked /\ ~cb_registered
        BY <1>20, <3>1 DEF ResultIgnored, Asked, cfgVars, thrVars
      <4> QED
        BY <2>1, <4>1 DEF Asked, Behind, Stopping, Untouched
    <3> QED
      BY <3>1 DEF Trying
  <2>7. Ending'
    BY <1>20, <2>1, Delivered DEF ResultIgnored, Ending, Failing, FailPcs, Applying, Alone,
        MidPcs, Trying, Asked, Answers, Counted, Retrying, StaOK, Joined, TypeOK, SvcOK,
        cfgVars, staVars, svcVars, thrVars, hisVars
  <2>8. Joined'
    BY <1>20, <2>1, Delivered DEF ResultIgnored, Joined, Applying, Alone, MidPcs, Trying,
        Asked, Answers, Failing, FailPcs, Ending, StoreOK, TypeOK, SvcOK, cfgVars, staVars,
        svcVars, thrVars, hisVars
  <2> QED
    BY <2>5, <2>6, <2>7, <2>8
<1>21. CASE ResultSuccess
  <2> SUFFICES ASSUME Untouched' PROVE Applying' /\ Trying' /\ Ending' /\ Joined'
    BY DEF Course
  <2>1. Untouched /\ Applying /\ Trying /\ Ending /\ Joined
    BY <1>21, NoteGrows DEF ResultSuccess, Course
  <2>2. /\ \A c \in Callers : pc[c] \in {"idle", "set"}
        /\ pc["wq"] = "idle" /\ ~Failing
        /\ inflight = tried /\ inflightGen = gen /\ out = "recv"
        /\ sta_state = "Connecting" /\ Answers /\ Counted
        /\ ~drv.queued /\ ~Retrying /\ (drv.connected <=> "ok" = "ok")
        /\ \A i \in 1..Len(evq') : evq'[i].gen # gen
    BY <1>21, OwnResult DEF ResultSuccess
  <2>5. Applying'
    BY <1>21, <2>1, <2>2 DEF ResultSuccess, clear_inflight, emit_event, Applying, Alone,
        MidPcs, TypeOK, SvcOK, svcVars, thrVars
  <2>6. Trying'
    BY <1>21, <2>1, <2>2 DEF ResultSuccess, clear_inflight, emit_event, Trying, Asked,
        Answers, Counted, Retrying, Failing, FailPcs, Applying, MidPcs, Alone, Ending,
        StaOK, TypeOK, SvcOK, svcVars, thrVars
  <2>7. Ending'
    BY <1>21, <2>2 DEF ResultSuccess, Ending, Failing, thrVars
  <2>8. Joined'
    BY <1>21, <2>1, <2>2 DEF ResultSuccess, clear_inflight, Joined, Answers, Note,
        thrVars
  <2> QED
    BY <2>5, <2>6, <2>7, <2>8
<1>22. CASE RetryCheck
  <2> SUFFICES ASSUME Untouched' PROVE Applying' /\ Trying' /\ Ending' /\ Joined'
    BY DEF Course
  <2>1. Untouched /\ Applying /\ Trying /\ Ending /\ Joined
    BY <1>22 DEF RetryCheck, Course, Untouched, hisVars
  <2>5. Applying'
    BY <1>22, WorkerMoves, <2>1 DEF RetryCheck, Applying, Alone, MidPcs, TypeOK, SvcOK,
        Joined, cfgVars, staVars, envVars, hisVars
  <2>6. Trying'
    BY <1>22, WorkerMoves, <2>1 DEF RetryCheck, Trying, Asked, Answers, Counted, Retrying,
        Failing, FailPcs, Applying, MidPcs, Alone, Ending, StaOK, TypeOK, SvcOK, cfgVars,
        staVars, envVars, hisVars
  <2>7. Ending'
    BY <1>22, WorkerMoves, <2>1 DEF RetryCheck, Ending, Failing, FailPcs, Applying, Alone,
        MidPcs, Trying, Asked, Answers, Counted, Retrying, StaOK, Joined, TypeOK, SvcOK,
        cfgVars, staVars, envVars, hisVars
  <2>8. Joined'
    BY <1>22, WorkerMoves, <2>1 DEF RetryCheck, Joined, Applying, Alone, MidPcs, Trying,
        Asked, Answers, Failing, FailPcs, Ending, StoreOK, TypeOK, SvcOK, cfgVars, staVars,
        envVars, hisVars
  <2> QED
    BY <2>5, <2>6, <2>7, <2>8
<1>23. CASE RetryConnect
  <2> SUFFICES ASSUME Untouched' PROVE Applying' /\ Trying' /\ Ending' /\ Joined'
    BY DEF Course
  <2>1. Untouched /\ Applying /\ Trying /\ Ending /\ Joined
    BY <1>23 DEF RetryConnect, Course, Untouched, hisVars
  <2>5. Applying'
    BY <1>23, WorkerMoves, <2>1 DEF RetryConnect, ConnectAccepted, Applying, Alone, MidPcs,
        TypeOK, SvcOK, cfgVars, staVars, svcVars
  <2>6. Trying'
    BY <1>23, WorkerMoves, <2>1 DEF RetryConnect, ConnectAccepted, Trying, Asked, Answers,
        Counted, Retrying, Failing, FailPcs, Applying, MidPcs, Alone, Ending, StaOK, TypeOK,
        SvcOK, cfgVars, staVars, svcVars
  <2>7. Ending'
    BY <1>23, WorkerMoves, <2>1 DEF RetryConnect, ConnectAccepted, Ending, Failing, FailPcs,
        Applying, Alone, MidPcs, Trying, Asked, Answers, Counted, Retrying, StaOK, Joined,
        TypeOK, SvcOK, cfgVars, staVars, svcVars
  <2>8. Joined'
    BY <1>23, WorkerMoves, <2>1 DEF RetryConnect, ConnectAccepted, Joined, Applying, Alone,
        MidPcs, Trying, Asked, Answers, Failing, FailPcs, Ending, StoreOK, TypeOK, SvcOK,
        cfgVars, staVars, svcVars
  <2> QED
    BY <2>5, <2>6, <2>7, <2>8
<1>24. CASE RetryRejected
  <2> SUFFICES ASSUME Untouched' PROVE Applying' /\ Trying' /\ Ending' /\ Joined'
    BY DEF Course
  <2>1. Untouched /\ Applying /\ Trying /\ Ending /\ Joined
    BY <1>24, NoteGrows DEF RetryRejected, Course
  <2>2. \A u \in Threads \ {"wq"} : pc[u] \in {"idle", "set"}
    BY <1>24, NoteGrows, NotCrossed DEF RetryRejected
  <2>3. (\A d \in Callers : pc[d] \in {"idle", "set"}) /\ pc["ev"] = "idle"
    BY <2>2, ConstantsOK DEF Threads, TypeOK, PcOK, WorkerPcs
  <2>5. Applying'
    BY <1>24, WorkerMoves, <2>1, <2>3 DEF RetryRejected, FinalFailureBegin, Applying, Alone,
        MidPcs, TypeOK, SvcOK, cfgVars, svcVars, envVars
  <2>6. Trying'
    BY <1>24, WorkerMoves, <2>1, <2>3 DEF RetryRejected, FinalFailureBegin, Trying, Asked,
        Answers, Counted, Retrying, Failing, FailPcs, Applying, MidPcs, Alone, Ending,
        StaOK, TypeOK, SvcOK, cfgVars, svcVars, envVars
  <2>7. Ending'
    <3>1. Asked /\ Retrying /\ ~Failing
      BY <1>24, <2>1, <2>3 DEF RetryRejected, Joined, Asked, Retrying, Failing, FailPcs
    <3>2. /\ attempts_max # 0 /\ connects = attempts_completed /\ ~retryQ
      BY <1>24, <2>1, <3>1 DEF RetryRejected, Trying, Counted, Answers
    <3>3. cb_registered
      BY <1>24, <2>1, <3>1 DEF Asked, Behind, Stopping, Untouched
    <3> QED
      BY <1>24, <2>3, <3>1, <3>2, <3>3, WorkerMoves DEF RetryRejected, FinalFailureBegin, Ending,
          Asked, Failing, FailPcs, TypeOK, SvcOK, cfgVars, svcVars
  <2>8. Joined'
    BY <1>24, WorkerMoves, <2>1, <2>3 DEF RetryRejected, FinalFailureBegin, Joined, Note,
        Applying, Alone, MidPcs, Trying, Asked, Answers, Failing, FailPcs, Ending, StoreOK,
        TypeOK, SvcOK, cfgVars, svcVars, envVars
  <2> QED
    BY <2>5, <2>6, <2>7, <2>8
<1>25. CASE Reboot
  <2> SUFFICES ASSUME Untouched' PROVE Applying' /\ Trying' /\ Ending' /\ Joined'
    BY DEF Course
  <2> QED
    BY <1>25 DEF Reboot, clear_inflight, Applying, Trying, Ending, Joined, Asked,
        Failing, FailPcs, MidPcs, Threads
<1>26. CASE UNCHANGED vars
  <2> SUFFICES ASSUME Untouched' PROVE Applying' /\ Trying' /\ Ending' /\ Joined'
    BY DEF Course
  <2>1. Untouched /\ Applying /\ Trying /\ Ending /\ Joined
    BY <1>26 DEF vars, Course, Untouched, hisVars
  <2>5. Applying'
    BY <1>26, <2>1 DEF vars, Applying, Alone, MidPcs, TypeOK, SvcOK, cfgVars, staVars,
        svcVars, thrVars, envVars, hisVars
  <2>6. Trying'
    BY <1>26, <2>1 DEF vars, Trying, Asked, Answers, Counted, Retrying, Failing, FailPcs,
        Applying, MidPcs, Alone, Ending, StaOK, TypeOK, SvcOK, cfgVars, staVars, svcVars,
        thrVars, envVars, hisVars
  <2>7. Ending'
    BY <1>26, <2>1 DEF vars, Ending, Failing, FailPcs, Applying, Alone, MidPcs, Trying,
        Asked, Answers, Counted, Retrying, StaOK, Joined, TypeOK, SvcOK, cfgVars, staVars,
        svcVars, thrVars, envVars, hisVars
  <2>8. Joined'
    BY <1>26, <2>1 DEF vars, Joined, Note, Applying, Alone, MidPcs, Trying, Asked, Answers,
        Failing, FailPcs, Ending, StoreOK, TypeOK, SvcOK, cfgVars, staVars, svcVars,
        thrVars, envVars, hisVars
  <2> QED
    BY <2>5, <2>6, <2>7, <2>8
<1> QED
  BY <1>1, <1>2, <1>3, <1>4, <1>5, <1>6, <1>7, <1>8, <1>9, <1>10, <1>11, <1>12, <1>13,
      <1>14, <1>15, <1>16, <1>17, <1>18, <1>19, <1>20, <1>21, <1>22, <1>23, <1>24, <1>25,
      <1>26 DEF Next, Request, AppCall, CallerStep, EventThread, Workqueue,
      on_connect_result, retry_work_handler, final_failure, Callers

\* The two invariants behind the theorems below.
LEMMA CourseHolds == Spec => [](Gens /\ Course)
<1>1. Init => Gens
  BY DEF Init, PowerOn, Gens, MidPcs, Threads
<1>2. Init => Course
  BY DEF Init, PowerOn, Course, Applying, Trying, Ending, Joined, Asked, Failing, FailPcs,
      MidPcs, Threads
<1> QED
  BY <1>1, <1>2, TypeCorrect, BehindHolds, BudgetInvariant, GensStep, CourseStep, PTL DEF Spec

\* An undisturbed apply is tried exactly as often as wifi_conn_attempts says
\* before CRED_FAIL, and never more often.
THEOREM AttemptsAreExact == Spec => []AttemptsExact
<1>1. TypeOK /\ Budget /\ Course => AttemptsExact
  <2> SUFFICES ASSUME TypeOK, Budget, Course, Untouched
               PROVE  LET allowed == IF attempts_max = 0 THEN 1 ELSE attempts_max
                      IN  /\ inflightGen = gen /\ inflight # NoCred => connects <= allowed
                          /\ pc["ev"] = "ff_clear" => connects = allowed
    BY DEF AttemptsExact
  <2> DEFINE allowed == IF attempts_max = 0 THEN 1 ELSE attempts_max
  <2>1. Applying /\ Trying /\ Ending
    BY DEF Course
  <2>2. pc["ev"] = "ff_clear" => connects = allowed
    BY <2>1 DEF Ending, Failing, FailPcs
  <2>3. ASSUME inflightGen = gen, inflight # NoCred PROVE connects <= allowed
    <3>1. ASSUME NEW c \in Callers, pc[c] \in {"snapshot", "connect"}
          PROVE  connects <= allowed
      <4>1. connects = 0
        BY <2>1, <2>3, <3>1 DEF Applying, MidPcs, TypeOK, CfgOK, HisOK
      <4> QED
        BY <4>1 DEF TypeOK, SvcOK
    <3>2. CASE Failing
      BY <2>1, <2>3, <3>2 DEF Ending, Failing, Budget, TypeOK, StaOK, SvcOK
    <3>3. CASE Asked /\ ~Failing
      <4>1. Counted /\ pc["ev"] = "idle"
        BY <2>1, <3>3 DEF Trying, Failing, FailPcs, Budget, TypeOK, PcOK, WorkerPcs
      <4> QED
        BY <2>3, <4>1 DEF Counted, Budget, TypeOK, StaOK, SvcOK
    <3> QED
      BY <2>3, <3>1, <3>2, <3>3 DEF Asked
  <2> QED
    BY <2>2, <2>3
<1> QED
  BY <1>1, TypeCorrect, BudgetInvariant, CourseHolds, PTL

\* Whatever late results and overlaps an earlier apply has left behind, a
\* Connected reported for an undisturbed apply is about the network the driver
\* joined with its credentials, and they are stored unless somebody erased them.
THEOREM ConnectedIsTrue == Spec => []ConnectedIsReal
<1>1. Course => ConnectedIsReal
  BY DEF Course, Joined, ConnectedIsReal
<1> QED
  BY <1>1, CourseHolds, PTL

-----------------------------------------------------------------------------
\* The steps CredTrial allows, through the refinement mapping.
TrialNext == [Trial!Next]_(Trial!vars)

\* TrialPhase of a running, unspoilt trial is the last event.
LEMMA Phase ==
    ASSUME ~Spoilt, ~Stopping, sta_state # "Disconnected"
    PROVE  /\ out = "recv" => TrialPhase = "trying"
           /\ out = "success" => TrialPhase = "succeeded"
           /\ out = "fail" => TrialPhase = "failed"
BY DEF TrialPhase

\* The same after a step.
LEMMA PhaseAfter ==
    ASSUME ~Spoilt', ~Stopping', sta_state' # "Disconnected"
    PROVE  /\ out' = "recv" => TrialPhase' = "trying"
           /\ out' = "success" => TrialPhase' = "succeeded"
           /\ out' = "fail" => TrialPhase' = "failed"
BY DEF TrialPhase

\* A step that changes nothing TrialPhase reads is a stutter of CredTrial.
LEMMA PhaseKept ==
    ASSUME ~Spoilt, ~Spoilt', Stopping' <=> Stopping, out' = out, tried' = tried,
           sta_state' = "Disconnected" <=> sta_state = "Disconnected"
    PROVE  TrialNext
<1>1. TrialPhase' = TrialPhase
  BY DEF TrialPhase
<1> QED
  BY <1>1 DEF TrialNext, Trial!vars

\* A reset, a stop or a power loss abandons the trial.
LEMMA PhaseIdle ==
    ASSUME ~Spoilt', Stopping' \/ sta_state' = "Disconnected", tried' \in {tried, NoCred}
    PROVE  TrialNext
BY DEF TrialPhase, TrialNext, Trial!Next, Trial!Abandon

\* Every action is a step of CredTrial or a stutter.
LEMMA TrialStep == TypeOK /\ Course /\ [Next]_vars => TrialNext

<1> SUFFICES ASSUME TypeOK, Course, [Next]_vars PROVE TrialNext
  OBVIOUS
<1> SUFFICES ASSUME ~Spoilt' PROVE TrialNext
  <2>1. CASE Spoilt'
    <3>1. TypeOK'
      BY TypeStep
    <3> QED
      BY <2>1, <3>1 DEF TypeOK, HisOK, TrialPhase, TrialNext, Trial!Next, Trial!Spoil
  <2> QED
    BY <2>1
<1>0. ~Spoilt'
  OBVIOUS
<1>1. ASSUME NEW c \in Callers, do_set_config(c) PROVE TrialNext
  <2>1. ~Spoilt
    BY <1>1, <1>0 DEF do_set_config, Note, Spoilt
  <2>2. Stopping' <=> Stopping
    BY <1>1, SameService DEF do_set_config, svcVars, thrVars
  <2> QED
    BY <1>1, <1>0, <2>1, <2>2, PhaseKept DEF do_set_config, staVars, hisVars
<1>2. ASSUME NEW c \in Callers, ApplyDelete(c) PROVE TrialNext
  <2>1. ~Spoilt
    BY <1>2, <1>0 DEF ApplyDelete, Note, Spoilt
  <2>2. Stopping' <=> Stopping
    BY <1>2, SameService DEF ApplyDelete, CallerPcs, svcVars, Idle
  <2> QED
    BY <1>2, <1>0, <2>1, <2>2, PhaseKept DEF ApplyDelete, staVars, hisVars
<1>3. ASSUME NEW c \in Callers, set_and_apply(c) PROVE TrialNext
  <2>1. ~Spoilt
    BY <1>3, <1>0 DEF set_and_apply, Note, Spoilt
  <2>2. Stopping' <=> Stopping
    BY <1>3, SameService DEF set_and_apply, CallerPcs, svcVars, Idle
  <2> QED
    BY <1>3, <1>0, <2>1, <2>2, PhaseKept DEF set_and_apply, staVars, hisVars
<1>4. ASSUME NEW c \in Callers, config_reset(c) PROVE TrialNext
  BY <1>4, <1>0, PhaseIdle DEF config_reset
<1>5. ASSUME NEW c \in Callers, config_init(c) PROVE TrialNext
  BY <1>5, <1>0, PhaseIdle DEF config_init
<1>6. ASSUME NEW c \in Apps, DeinitClear(c) PROVE TrialNext
  <2>1. Stopping'
    BY <1>6, AppIsCaller, CallerMoves DEF DeinitClear, Stopping
  <2> QED
    BY <1>6, <1>0, <2>1, PhaseIdle DEF DeinitClear
<1>7. ASSUME NEW c \in Callers, erase_all(c) PROVE TrialNext
  <2>1. ~Spoilt
    BY <1>7, <1>0 DEF erase_all, Note, Spoilt
  <2>2. Stopping' <=> Stopping
    BY <1>7, SameService DEF erase_all, svcVars, thrVars
  <2> QED
    BY <1>7, <1>0, <2>1, <2>2, PhaseKept DEF erase_all, staVars, hisVars
<1>8. ASSUME NEW c \in Callers, ApplyStoreFails(c) PROVE TrialNext
  <2>1. ~Spoilt
    BY <1>8, <1>0 DEF ApplyStoreFails, Spoilt, hisVars
  <2>2. Stopping' <=> Stopping
    BY <1>8, SameService DEF ApplyStoreFails, CallerPcs, svcVars
  <2> QED
    BY <1>8, <1>0, <2>1, <2>2, PhaseKept DEF ApplyStoreFails, staVars, hisVars
<1>9. ASSUME NEW c \in Callers, ApplyStore(c) PROVE TrialNext
  <2>1. Stopping' <=> Stopping
    BY <1>9, SameService DEF ApplyStore, CallerPcs, svcVars
  <2>2. ~Stopping
    BY <1>9, <1>0 DEF ApplyStore, Orphaned, Spoilt
  <2>3. TrialPhase' = "trying"
    BY <1>9, <1>0, <2>1, <2>2, PhaseAfter DEF ApplyStore, emit_event
  <2>4. tried' \in Cred
    BY <1>9 DEF ApplyStore, TypeOK, CfgOK
  <2> QED
    BY <2>3, <2>4 DEF TrialNext, Trial!Next, Trial!Receive
<1>10. ASSUME NEW c \in Callers, ApplySnapshot(c) PROVE TrialNext
  <2>1. ~Spoilt
    BY <1>10, <1>0 DEF ApplySnapshot, Note, Spoilt
  <2>2. Stopping' <=> Stopping
    BY <1>10, SameService DEF ApplySnapshot, CallerPcs, svcVars
  <2> QED
    BY <1>10, <1>0, <2>1, <2>2, PhaseKept DEF ApplySnapshot, staVars, hisVars
<1>11. ASSUME NEW c \in Callers, ApplyConnect(c) PROVE TrialNext
  <2>1. ~Spoilt
    BY <1>11, <1>0 DEF ApplyConnect, Spoilt, hisVars
  <2>2. Stopping' <=> Stopping
    BY <1>11, SameService DEF ApplyConnect, CallerPcs, svcVars
  <2> QED
    BY <1>11, <1>0, <2>1, <2>2, PhaseKept DEF ApplyConnect, staVars, hisVars
<1>12. ASSUME NEW c \in Callers, ApplyConnectRejected(c) PROVE TrialNext
  <2>1. ~Spoilt
    BY <1>12, <1>0 DEF ApplyConnectRejected, Note, Spoilt
  <2>2. Stopping' <=> Stopping
    BY <1>12, SameService DEF ApplyConnectRejected, CallerPcs, svcVars
  <2>3. sta_state = "Connecting"
    BY <1>12, <2>1 DEF ApplyConnectRejected, Course, Applying, MidPcs, Spoilt, Untouched
  <2> QED
    BY <1>12, <1>0, <2>1, <2>2, <2>3, PhaseKept DEF ApplyConnectRejected
<1>13. ASSUME NEW c \in Callers, ApplySyncFail(c) PROVE TrialNext
  <2>1. ~Spoilt
    BY <1>13, <1>0 DEF ApplySyncFail, Spoilt, hisVars
  <2>2. Stopping' <=> Stopping
    BY <1>13, SameService DEF ApplySyncFail, CallerPcs, svcVars
  <2>3. /\ Alone(c) /\ cb_registered /\ out = "recv"
        /\ sta_state = "ConnectionFailed"
    BY <1>13, <2>1 DEF ApplySyncFail, Course, Applying, MidPcs, Spoilt, Untouched
  <2>4. ~Stopping
    BY <1>13, <2>3, AppIsCaller DEF ApplySyncFail, Alone, Stopping
  <2>5. TrialPhase = "trying" /\ TrialPhase' = "failed"
    BY <1>13, <1>0, <2>1, <2>2, <2>3, <2>4, Phase, PhaseAfter DEF ApplySyncFail, emit_event,
        staVars
  <2> QED
    BY <1>13, <2>5 DEF ApplySyncFail, TrialNext, Trial!Next, Trial!Fail
<1>14. ASSUME NEW c \in Callers, DeinitUnregister(c) PROVE TrialNext
  <2>1. Stopping'
    BY <1>14 DEF DeinitUnregister, Stopping
  <2> QED
    BY <1>14, <1>0, <2>1, PhaseIdle DEF DeinitUnregister, hisVars
<1>15. ASSUME NEW s \in Status, ResultRetry(s) PROVE TrialNext
  <2>1. ~Spoilt
    BY <1>15, <1>0 DEF ResultRetry, Note, Spoilt
  <2>2. Stopping' <=> Stopping
    BY <1>15, SameService DEF ResultRetry, svcVars, thrVars
  <2>3. sta_state = "Connecting"
    BY <1>15, <1>0, OwnResult DEF ResultRetry, Spoilt, Untouched
  <2> QED
    BY <1>15, <1>0, <2>1, <2>2, <2>3, PhaseKept DEF ResultRetry
<1>16. ASSUME NEW s \in Status, ResultFinal(s) PROVE TrialNext
  <2>1. ~Spoilt
    BY <1>16, <1>0 DEF ResultFinal, Note, Spoilt
  <2>2. Stopping' <=> Stopping
    BY <1>16, SameService DEF ResultFinal, FinalFailureBegin, WorkerPcs, svcVars
  <2>3. sta_state = "Connecting"
    BY <1>16, <1>0, OwnResult DEF ResultFinal, Spoilt, Untouched
  <2> QED
    BY <1>16, <1>0, <2>1, <2>2, <2>3, PhaseKept DEF ResultFinal, FinalFailureBegin
<1>17. ASSUME NEW t \in {"ev", "wq"}, FinalFailureDelete(t) PROVE TrialNext
  <2>1. ~Spoilt
    BY <1>17, <1>0 DEF FinalFailureDelete, Spoilt, hisVars
  <2>2. Stopping' <=> Stopping
    BY <1>17, SameService DEF FinalFailureDelete, WorkerPcs, svcVars
  <2> QED
    BY <1>17, <1>0, <2>1, <2>2, PhaseKept DEF FinalFailureDelete, staVars, hisVars
<1>18. ASSUME NEW t \in {"ev", "wq"}, FinalFailureClear(t) PROVE TrialNext
  <2>1. ~Spoilt
    BY <1>18, <1>0 DEF FinalFailureClear, Note, Spoilt
  <2>2. Stopping' <=> Stopping
    BY <1>18, SameService DEF FinalFailureClear, WorkerPcs, svcVars
  <2>3. Failing
    BY <1>18 DEF FinalFailureClear, Failing, FailPcs
  <2>4. /\ \A c \in Callers : pc[c] \in {"idle", "set"}
        /\ cb_registered /\ sta_state = "ConnectionFailed" /\ inflight # NoCred
    BY <2>1, <2>3 DEF Course, Ending, Spoilt, Untouched
  <2>5. ~Stopping /\ out = "recv"
    BY <2>1, <2>4, AppIsCaller DEF Course, Trying, Asked, Stopping, Spoilt, Untouched
  <2>6. TrialPhase = "trying" /\ TrialPhase' = "failed"
    BY <1>18, <1>0, <2>1, <2>2, <2>4, <2>5, Phase, PhaseAfter DEF FinalFailureClear,
        emit_event, staVars
  <2> QED
    BY <1>18, <2>6 DEF FinalFailureClear, TrialNext, Trial!Next, Trial!Fail
<1>19. CASE connect_work_fn
  <2>1. ~Spoilt
    BY <1>19, <1>0 DEF connect_work_fn, Note, Spoilt
  <2>2. Stopping' <=> Stopping
    BY <1>19, SameService DEF connect_work_fn, svcVars, thrVars
  <2> QED
    BY <1>19, <1>0, <2>1, <2>2, PhaseKept DEF connect_work_fn, staVars, hisVars
<1>20. CASE ResultIgnored
  <2>1. ~Spoilt
    BY <1>20, <1>0 DEF ResultIgnored, Spoilt, hisVars
  <2>2. Stopping' <=> Stopping
    BY <1>20, SameService DEF ResultIgnored, svcVars, thrVars
  <2> QED
    BY <1>20, <1>0, <2>1, <2>2, PhaseKept DEF ResultIgnored, staVars, hisVars
<1>21. CASE ResultSuccess
  <2>1. ~Spoilt
    BY <1>21, <1>0 DEF ResultSuccess, Note, Spoilt
  <2>2. Stopping' <=> Stopping
    BY <1>21, SameService DEF ResultSuccess, svcVars, thrVars
  <2>3. /\ \A c \in Callers : pc[c] \in {"idle", "set"}
        /\ out = "recv" /\ sta_state = "Connecting"
    BY <1>21, <1>0, OwnResult DEF ResultSuccess, Spoilt, Untouched
  <2>4. ~Stopping
    BY <1>21, <2>3, AppIsCaller DEF ResultSuccess, Stopping
  <2>5. TrialPhase = "trying" /\ TrialPhase' = "succeeded"
    BY <1>21, <1>0, <2>1, <2>2, <2>3, <2>4, Phase, PhaseAfter DEF ResultSuccess, emit_event
  <2> QED
    BY <1>21, <2>5 DEF ResultSuccess, TrialNext, Trial!Next, Trial!Succeed
<1>22. CASE RetryCheck
  <2>1. ~Spoilt
    BY <1>22, <1>0 DEF RetryCheck, Spoilt, hisVars
  <2>2. Stopping' <=> Stopping
    BY <1>22, SameService DEF RetryCheck, WorkerPcs, svcVars
  <2> QED
    BY <1>22, <1>0, <2>1, <2>2, PhaseKept DEF RetryCheck, staVars, hisVars
<1>23. CASE RetryConnect
  <2>1. ~Spoilt
    BY <1>23, <1>0 DEF RetryConnect, Spoilt, hisVars
  <2>2. Stopping' <=> Stopping
    BY <1>23, SameService DEF RetryConnect, WorkerPcs, svcVars
  <2> QED
    BY <1>23, <1>0, <2>1, <2>2, PhaseKept DEF RetryConnect, staVars, hisVars
<1>24. CASE RetryRejected
  <2>1. ~Spoilt
    BY <1>24, <1>0 DEF RetryRejected, Note, Spoilt
  <2>2. Stopping' <=> Stopping
    BY <1>24, SameService DEF RetryRejected, FinalFailureBegin, WorkerPcs, svcVars
  <2>3. \A u \in Threads \ {"wq"} : pc[u] \in {"idle", "set"}
    BY <1>24, <1>0, NotCrossed DEF RetryRejected, Note, Spoilt
  <2>4. Asked /\ ~Failing
    BY <1>24, <2>1, <2>3, ConstantsOK DEF RetryRejected, Course, Joined, Asked, Failing,
        FailPcs, Threads, Spoilt, Untouched
  <2>5. sta_state = "Connecting"
    BY <2>1, <2>4 DEF Course, Trying, Spoilt, Untouched
  <2> QED
    BY <1>24, <1>0, <2>1, <2>2, <2>5, PhaseKept DEF RetryRejected, FinalFailureBegin
<1>25. CASE Reboot
  <2>1. Stopping'
    BY <1>25 DEF Reboot, Stopping
  <2> QED
    BY <1>25, <1>0, <2>1, PhaseIdle DEF Reboot
<1>26. CASE UNCHANGED vars
  <2>1. ~Spoilt
    BY <1>26, <1>0 DEF vars, Spoilt, hisVars
  <2>2. Stopping' <=> Stopping
    BY <1>26, SameService DEF vars, svcVars, thrVars
  <2> QED
    BY <1>26, <1>0, <2>1, <2>2, PhaseKept DEF vars, staVars, hisVars
<1> QED
  BY <1>1, <1>2, <1>3, <1>4, <1>5, <1>6, <1>7, <1>8, <1>9, <1>10, <1>11, <1>12, <1>13,
      <1>14, <1>15, <1>16, <1>17, <1>18, <1>19, <1>20, <1>21, <1>22, <1>23, <1>24, <1>25,
      <1>26 DEF Next, Request, AppCall, CallerStep, EventThread, Workqueue,
      on_connect_result, retry_work_handler, final_failure, Callers

\* The endpoint implements the safety of CredTrial: however requests, stops,
\* results and retries interleave, every outcome ends a trial that was announced,
\* once, and no trial changes its credentials, unless something the endpoint has
\* no guard against spoilt the trial.
THEOREM TrialIsImplemented == Spec => Trial!Init /\ [][Trial!Next]_(Trial!vars)
<1>1. Init => Trial!Init
  BY DEF Init, PowerOn, Trial!Init, TrialPhase, Stopping, Spoilt
<1>2. TypeOK /\ Course /\ [Next]_vars => [Trial!Next]_(Trial!vars)
  BY TrialStep DEF TrialNext
<1> QED
  BY <1>1, <1>2, TypeCorrect, CourseHolds, PTL DEF Spec

=============================================================================
