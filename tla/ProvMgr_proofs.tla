--------------------------- MODULE ProvMgr_proofs ---------------------------
(***************************************************************************)
(* Safety of the manager's lifecycle, for every number of starts and       *)
(* connections: types, ownership of the protocomm instance and the opt-out *)
(* of auto-stop under every schedule; exclusive teardown and exactly one   *)
(* END per START where teardown delays outlast a call in progress          *)
(* (LongGrace, as the run mgr_lifecycle has it).                           *)
(***************************************************************************)
EXTENDS ProvMgr, FiniteSetTheorems, TLAPS

\* Every action keeps the types (network_prov_mgr.c).
LEMMA TypeStep == TypeOK /\ [Next]_vars => TypeOK'
<1> SUFFICES ASSUME TypeOK, [Next]_vars PROVE TypeOK'
  OBVIOUS
<1> USE DEF Pcs
<1>1. CASE mgr_init
  <2>1. work' \in BOOLEAN
    BY <1>1, Zenon DEF mgr_init, TypeOK
  <2>2. done' \in 0..1
    BY <1>1 DEF mgr_init
  <2> QED
    BY <1>1, <2>1, <2>2 DEF mgr_init, TypeOK, svcVars, hisVars
<1>2. CASE StartBuild
  BY <1>2 DEF StartBuild, TypeOK, Goto, confVars, svcVars, hisVars
<1>3. CASE StartScheme
  BY <1>3 DEF StartScheme, TypeOK, Goto, confVars, svcVars, hisVars
<1>4. CASE StartEnd
  BY <1>4 DEF StartEnd, TypeOK, Goto, confVars, svcVars, hisVars
<1>5. CASE StartFails
  BY <1>5 DEF StartFails, TypeOK, Goto, confVars, svcVars, hisVars
<1>6. ASSUME NEW t \in {"app", "wq"}, TeardownTransport(t) PROVE TypeOK'
  BY <1>6 DEF TeardownTransport, TypeOK, Goto, confVars, svcVars, hisVars
<1>7. ASSUME NEW t \in {"app", "wq"}, TeardownEndpoints(t) PROVE TypeOK'
  BY <1>7 DEF TeardownEndpoints, TypeOK, Goto, confVars, svcVars, hisVars
<1>8. ASSUME NEW t \in {"app", "wq"}, TeardownDelete(t) PROVE TypeOK'
  BY <1>8 DEF TeardownDelete, TypeOK, Goto, confVars, svcVars, hisVars
<1>9. ASSUME NEW t \in {"app", "wq"}, TeardownEnd(t) PROVE TypeOK'
  BY <1>9 DEF TeardownEnd, TypeOK, Goto, Returned, confVars, svcVars, hisVars
<1>10. CASE teardown_work_fn
  BY <1>10 DEF teardown_work_fn, TypeOK, Goto, Teardown, Returned, confVars, svcVars,
      hisVars
<1>11. CASE StopCancel
  BY <1>11 DEF StopCancel, TypeOK, Goto, confVars, svcVars, hisVars
<1>12. CASE StopSync
  <2>1. work' \in BOOLEAN
    BY <1>12, Zenon DEF StopSync, TypeOK
  <2>2. pc' \in [{"app", "ev", "wq"} -> Pcs]
    BY <1>12 DEF StopSync, TypeOK, Goto, Teardown, Returned
  <2> QED
    BY <1>12, <2>1, <2>2 DEF StopSync, TypeOK, confVars, svcVars, hisVars
<1>13. CASE DeinitCancel
  BY <1>13 DEF DeinitCancel, TypeOK, Goto, confVars, svcVars, hisVars
<1>14. CASE DeinitSync
  BY <1>14 DEF DeinitSync, TypeOK, Goto, Teardown, Returned, confVars, svcVars, hisVars
<1>15. CASE DeinitEnd
  BY <1>15 DEF DeinitEnd, TypeOK, Goto, confVars, svcVars, hisVars
<1>16. CASE disable_auto_stop
  BY <1>16 DEF disable_auto_stop, TypeOK, confVars, svcVars, hisVars
<1>17. CASE WaitBegin
  BY <1>17 DEF WaitBegin, TypeOK, Goto, confVars, svcVars, hisVars
<1>18. CASE WaitReturns
  BY <1>18 DEF WaitReturns, TypeOK, Goto, confVars, svcVars, hisVars
<1>19. CASE SuccessGive
  BY <1>19 DEF SuccessGive, TypeOK, Goto, confVars, svcVars, hisVars
<1>20. CASE SuccessCheck
  BY <1>20 DEF SuccessCheck, TypeOK, Goto, confVars, svcVars, hisVars
<1>21. CASE SuccessSchedule
  BY <1>21 DEF SuccessSchedule, TypeOK, Goto, confVars, svcVars, hisVars
<1>22. CASE UNCHANGED vars
  BY <1>22 DEF TypeOK, confVars, svcVars, hisVars, vars
<1> QED
  BY <1>1, <1>2, <1>3, <1>4, <1>5, <1>6, <1>7, <1>8, <1>9, <1>10, <1>11, <1>12, <1>13,
      <1>14, <1>15, <1>16, <1>17, <1>18, <1>19, <1>20, <1>21, <1>22 DEF Next, AppCall,
      AppStep, emit_success, do_teardown

\* Every reachable state is well typed; in particular the semaphore stays
\* binary.
THEOREM TypeCorrect == Spec => []TypeOK
<1>1. Init => TypeOK
  <2> SUFFICES ASSUME Init PROVE TypeOK
    OBVIOUS
  <2>1. pc \in [{"app", "ev", "wq"} -> Pcs]
    BY DEF Init, Pcs
  <2>2. done \in 0..1
    BY DEF Init
  <2> QED
    BY <2>1, <2>2 DEF Init, TypeOK
<1> QED
  BY <1>1, TypeStep, PTL DEF Spec

-----------------------------------------------------------------------------
\* InstanceOwned made inductive: mgr.pc is only set while the service is
\* started or being started, so StartBuild never overwrites an instance.
Owned ==
    /\ InstanceOwned
    /\ mgr_pc # 0 => started \/ pc["app"] \in {"starting", "started"}

\* Every action keeps mgr.pc the owner of the allocated instance.
LEMMA OwnedStep == TypeOK /\ Owned /\ [Next]_vars => Owned'
<1> SUFFICES ASSUME TypeOK, Owned, [Next]_vars PROVE Owned'
  OBVIOUS
<1>1. CASE mgr_init
  BY <1>1 DEF mgr_init, TypeOK, Owned, InstanceOwned, confVars, svcVars, hisVars
<1>2. CASE StartBuild
  BY <1>2 DEF StartBuild, TypeOK, Owned, InstanceOwned, Goto, confVars, svcVars, hisVars
<1>3. CASE StartScheme
  BY <1>3 DEF StartScheme, TypeOK, Owned, InstanceOwned, Goto, confVars, svcVars,
      hisVars
<1>4. CASE StartEnd
  BY <1>4 DEF StartEnd, TypeOK, Owned, InstanceOwned, Goto, confVars, svcVars, hisVars
<1>5. CASE StartFails
  BY <1>5 DEF StartFails, TypeOK, Owned, InstanceOwned, Goto, confVars, svcVars, hisVars
<1>6. ASSUME NEW t \in {"app", "wq"}, TeardownTransport(t) PROVE Owned'
  BY <1>6 DEF TeardownTransport, TypeOK, Owned, InstanceOwned, Goto, confVars, svcVars,
      hisVars
<1>7. ASSUME NEW t \in {"app", "wq"}, TeardownEndpoints(t) PROVE Owned'
  BY <1>7 DEF TeardownEndpoints, TypeOK, Owned, InstanceOwned, Goto, confVars, svcVars,
      hisVars
<1>8. ASSUME NEW t \in {"app", "wq"}, TeardownDelete(t) PROVE Owned'
  BY <1>8 DEF TeardownDelete, TypeOK, Owned, InstanceOwned, Goto, confVars, svcVars,
      hisVars
<1>9. ASSUME NEW t \in {"app", "wq"}, TeardownEnd(t) PROVE Owned'
  BY <1>9 DEF TeardownEnd, TypeOK, Owned, InstanceOwned, Goto, Returned, confVars,
      svcVars, hisVars
<1>10. CASE teardown_work_fn
  BY <1>10 DEF teardown_work_fn, TypeOK, Owned, InstanceOwned, Goto, Teardown, Returned,
      confVars, svcVars, hisVars
<1>11. CASE StopCancel
  BY <1>11 DEF StopCancel, TypeOK, Owned, InstanceOwned, Goto, confVars, svcVars,
      hisVars
<1>12. CASE StopSync
  BY <1>12 DEF StopSync, TypeOK, Owned, InstanceOwned, Goto, Teardown, Returned,
      confVars, svcVars, hisVars
<1>13. CASE DeinitCancel
  BY <1>13 DEF DeinitCancel, TypeOK, Owned, InstanceOwned, Goto, confVars, svcVars,
      hisVars
<1>14. CASE DeinitSync
  BY <1>14 DEF DeinitSync, TypeOK, Owned, InstanceOwned, Goto, Teardown, Returned,
      confVars, svcVars, hisVars
<1>15. CASE DeinitEnd
  BY <1>15 DEF DeinitEnd, TypeOK, Owned, InstanceOwned, Goto, confVars, svcVars, hisVars
<1>16. CASE disable_auto_stop
  BY <1>16 DEF disable_auto_stop, TypeOK, Owned, InstanceOwned, confVars, svcVars,
      hisVars
<1>17. CASE WaitBegin
  BY <1>17 DEF WaitBegin, TypeOK, Owned, InstanceOwned, Goto, confVars, svcVars, hisVars
<1>18. CASE WaitReturns
  BY <1>18 DEF WaitReturns, TypeOK, Owned, InstanceOwned, Goto, confVars, svcVars,
      hisVars
<1>19. CASE SuccessGive
  BY <1>19 DEF SuccessGive, TypeOK, Owned, InstanceOwned, Goto, confVars, svcVars,
      hisVars
<1>20. CASE SuccessCheck
  BY <1>20 DEF SuccessCheck, TypeOK, Owned, InstanceOwned, Goto, confVars, svcVars,
      hisVars
<1>21. CASE SuccessSchedule
  BY <1>21 DEF SuccessSchedule, TypeOK, Owned, InstanceOwned, Goto, confVars, svcVars,
      hisVars
<1>22. CASE UNCHANGED vars
  BY <1>22 DEF TypeOK, Owned, InstanceOwned, confVars, svcVars, hisVars, vars
<1> QED
  BY <1>1, <1>2, <1>3, <1>4, <1>5, <1>6, <1>7, <1>8, <1>9, <1>10, <1>11, <1>12, <1>13,
      <1>14, <1>15, <1>16, <1>17, <1>18, <1>19, <1>20, <1>21, <1>22 DEF Next, AppCall,
      AppStep, emit_success, do_teardown

\* No protocomm instance leaks in a failed start or a teardown, and mgr.pc
\* never names a deleted one, under every schedule.
THEOREM InstanceIsOwned == Spec => []InstanceOwned
<1>1. Init => Owned
  BY DEF Init, Owned, InstanceOwned
<1>2. Owned => InstanceOwned
  BY DEF Owned
<1> QED
  BY <1>1, <1>2, OwnedStep, TypeCorrect, PTL DEF Spec

-----------------------------------------------------------------------------
\* What a scheduled teardown rests on, and one that is about to be: auto-stop, a
\* stop that was asked for, or an opt-out that came too late.
Warranted ==
    /\ work \/ pc["ev"] = "autostop_schedule" => auto_stop \/ owed # {} \/ late
    /\ pc["app"] = "stop_sync" => owed # {}

\* Every action that schedules a teardown has its warrant, and the opt-out
\* cancels what was scheduled without one.
LEMMA WarrantedStep == TypeOK /\ Warranted /\ [Next]_vars => Warranted'
<1> SUFFICES ASSUME TypeOK, Warranted, [Next]_vars PROVE Warranted'
  OBVIOUS
<1>1. CASE mgr_init
  BY <1>1 DEF mgr_init, TypeOK, Warranted, confVars, svcVars, hisVars
<1>2. CASE StartBuild
  BY <1>2 DEF StartBuild, TypeOK, Warranted, Goto, confVars, svcVars, hisVars
<1>3. CASE StartScheme
  BY <1>3 DEF StartScheme, TypeOK, Warranted, Goto, confVars, svcVars, hisVars
<1>4. CASE StartEnd
  BY <1>4 DEF StartEnd, TypeOK, Warranted, Goto, confVars, svcVars, hisVars
<1>5. CASE StartFails
  BY <1>5 DEF StartFails, TypeOK, Warranted, Goto, confVars, svcVars, hisVars
<1>6. ASSUME NEW t \in {"app", "wq"}, TeardownTransport(t) PROVE Warranted'
  BY <1>6 DEF TeardownTransport, TypeOK, Warranted, Goto, confVars, svcVars, hisVars
<1>7. ASSUME NEW t \in {"app", "wq"}, TeardownEndpoints(t) PROVE Warranted'
  BY <1>7 DEF TeardownEndpoints, TypeOK, Warranted, Goto, confVars, svcVars, hisVars
<1>8. ASSUME NEW t \in {"app", "wq"}, TeardownDelete(t) PROVE Warranted'
  BY <1>8 DEF TeardownDelete, TypeOK, Warranted, Goto, confVars, svcVars, hisVars
<1>9. ASSUME NEW t \in {"app", "wq"}, TeardownEnd(t) PROVE Warranted'
  BY <1>9 DEF TeardownEnd, TypeOK, Warranted, Goto, Returned, confVars, svcVars, hisVars
<1>10. CASE teardown_work_fn
  BY <1>10 DEF teardown_work_fn, TypeOK, Warranted, Goto, Teardown, Returned, confVars,
      svcVars, hisVars
<1>11. CASE StopCancel
  BY <1>11 DEF StopCancel, TypeOK, Warranted, Goto, confVars, svcVars, hisVars
<1>12. CASE StopSync
  BY <1>12 DEF StopSync, TypeOK, Warranted, Goto, Teardown, Returned, confVars, svcVars,
      hisVars
<1>13. CASE DeinitCancel
  BY <1>13 DEF DeinitCancel, TypeOK, Warranted, Goto, confVars, svcVars, hisVars
<1>14. CASE DeinitSync
  BY <1>14 DEF DeinitSync, TypeOK, Warranted, Goto, Teardown, Returned, confVars,
      svcVars, hisVars
<1>15. CASE DeinitEnd
  BY <1>15 DEF DeinitEnd, TypeOK, Warranted, Goto, confVars, svcVars, hisVars
<1>16. CASE disable_auto_stop
  BY <1>16 DEF disable_auto_stop, TypeOK, Warranted, confVars, svcVars, hisVars
<1>17. CASE WaitBegin
  BY <1>17 DEF WaitBegin, TypeOK, Warranted, Goto, confVars, svcVars, hisVars
<1>18. CASE WaitReturns
  BY <1>18 DEF WaitReturns, TypeOK, Warranted, Goto, confVars, svcVars, hisVars
<1>19. CASE SuccessGive
  BY <1>19 DEF SuccessGive, TypeOK, Warranted, Goto, confVars, svcVars, hisVars
<1>20. CASE SuccessCheck
  BY <1>20 DEF SuccessCheck, TypeOK, Warranted, Goto, confVars, svcVars, hisVars
<1>21. CASE SuccessSchedule
  BY <1>21 DEF SuccessSchedule, TypeOK, Warranted, Goto, confVars, svcVars, hisVars
<1>22. CASE UNCHANGED vars
  BY <1>22 DEF TypeOK, Warranted, confVars, svcVars, hisVars, vars
<1> QED
  BY <1>1, <1>2, <1>3, <1>4, <1>5, <1>6, <1>7, <1>8, <1>9, <1>10, <1>11, <1>12, <1>13,
      <1>14, <1>15, <1>16, <1>17, <1>18, <1>19, <1>20, <1>21, <1>22 DEF Next, AppCall,
      AppStep, emit_success, do_teardown

\* Only teardown_work_fn brings the workqueue from idle into a teardown.
LEMMA AutoTeardownNeedsWork ==
    TypeOK /\ [Next]_vars => (AutoTeardown => work)
<1> SUFFICES ASSUME TypeOK, [Next]_vars PROVE AutoTeardown => work
  OBVIOUS
<1>1. CASE mgr_init
  BY <1>1 DEF mgr_init, TypeOK, AutoTeardown, confVars, svcVars, hisVars
<1>2. CASE StartBuild
  BY <1>2 DEF StartBuild, TypeOK, AutoTeardown, Goto, confVars, svcVars, hisVars
<1>3. CASE StartScheme
  BY <1>3 DEF StartScheme, TypeOK, AutoTeardown, Goto, confVars, svcVars, hisVars
<1>4. CASE StartEnd
  BY <1>4 DEF StartEnd, TypeOK, AutoTeardown, Goto, confVars, svcVars, hisVars
<1>5. CASE StartFails
  BY <1>5 DEF StartFails, TypeOK, AutoTeardown, Goto, confVars, svcVars, hisVars
<1>6. ASSUME NEW t \in {"app", "wq"}, TeardownTransport(t) PROVE AutoTeardown => work
  BY <1>6 DEF TeardownTransport, TypeOK, AutoTeardown, Goto, confVars, svcVars, hisVars
<1>7. ASSUME NEW t \in {"app", "wq"}, TeardownEndpoints(t) PROVE AutoTeardown => work
  BY <1>7 DEF TeardownEndpoints, TypeOK, AutoTeardown, Goto, confVars, svcVars, hisVars
<1>8. ASSUME NEW t \in {"app", "wq"}, TeardownDelete(t) PROVE AutoTeardown => work
  BY <1>8 DEF TeardownDelete, TypeOK, AutoTeardown, Goto, confVars, svcVars, hisVars
<1>9. ASSUME NEW t \in {"app", "wq"}, TeardownEnd(t) PROVE AutoTeardown => work
  BY <1>9 DEF TeardownEnd, TypeOK, AutoTeardown, Goto, Returned, confVars, svcVars,
      hisVars
<1>10. CASE teardown_work_fn
  BY <1>10 DEF teardown_work_fn, TypeOK, AutoTeardown, Goto, Teardown, Returned,
      confVars, svcVars, hisVars
<1>11. CASE StopCancel
  BY <1>11 DEF StopCancel, TypeOK, AutoTeardown, Goto, confVars, svcVars, hisVars
<1>12. CASE StopSync
  BY <1>12 DEF StopSync, TypeOK, AutoTeardown, Goto, Teardown, Returned, confVars,
      svcVars, hisVars
<1>13. CASE DeinitCancel
  BY <1>13 DEF DeinitCancel, TypeOK, AutoTeardown, Goto, confVars, svcVars, hisVars
<1>14. CASE DeinitSync
  BY <1>14 DEF DeinitSync, TypeOK, AutoTeardown, Goto, Teardown, Returned, confVars,
      svcVars, hisVars
<1>15. CASE DeinitEnd
  BY <1>15 DEF DeinitEnd, TypeOK, AutoTeardown, Goto, confVars, svcVars, hisVars
<1>16. CASE disable_auto_stop
  BY <1>16 DEF disable_auto_stop, TypeOK, AutoTeardown, confVars, svcVars, hisVars
<1>17. CASE WaitBegin
  BY <1>17 DEF WaitBegin, TypeOK, AutoTeardown, Goto, confVars, svcVars, hisVars
<1>18. CASE WaitReturns
  BY <1>18 DEF WaitReturns, TypeOK, AutoTeardown, Goto, confVars, svcVars, hisVars
<1>19. CASE SuccessGive
  BY <1>19 DEF SuccessGive, TypeOK, AutoTeardown, Goto, confVars, svcVars, hisVars
<1>20. CASE SuccessCheck
  BY <1>20 DEF SuccessCheck, TypeOK, AutoTeardown, Goto, confVars, svcVars, hisVars
<1>21. CASE SuccessSchedule
  BY <1>21 DEF SuccessSchedule, TypeOK, AutoTeardown, Goto, confVars, svcVars, hisVars
<1>22. CASE UNCHANGED vars
  BY <1>22 DEF TypeOK, AutoTeardown, confVars, svcVars, hisVars, vars
<1> QED
  BY <1>1, <1>2, <1>3, <1>4, <1>5, <1>6, <1>7, <1>8, <1>9, <1>10, <1>11, <1>12, <1>13,
      <1>14, <1>15, <1>16, <1>17, <1>18, <1>19, <1>20, <1>21, <1>22 DEF Next, AppCall,
      AppStep, emit_success, do_teardown

\* With auto-stop disabled and no stop asked for, no teardown comes from the
\* workqueue, unless the opt-out fell between a success's check and its schedule.
THEOREM OptOutIsKept == Spec => OptOutKept
<1>1. Init => Warranted
  BY DEF Init, Warranted
<1>2. TypeOK /\ Warranted /\ [Next]_vars => [AutoTeardown => auto_stop \/ owed # {} \/ late]_vars
  BY AutoTeardownNeedsWork DEF Warranted
<1> QED
  BY <1>1, <1>2, WarrantedStep, TypeCorrect, PTL DEF Spec, OptOutKept

-----------------------------------------------------------------------------
Before == {"td_stop", "td_deinit", "td_delete"}
One(p) == IF p THEN 1 ELSE 0

\* EndOncePerStart without the set: the number of ENDs that are due.
EndsDue == One(pc["app"] = "td_end") + One(pc["wq"] = "td_end")

\* TeardownExclusive and EndOncePerStart made inductive: a teardown that has
\* yet to clear started finds it set, a start finds it clear.
Lifecycle ==
    /\ TeardownExclusive
    /\ \A t \in {"app", "wq"} : pc[t] \in Before => started
    /\ pc["app"] \in {"starting", "started"} => ~started
    /\ ups = ends + One(started) + EndsDue

\* Every action keeps one teardown per service, where delays are long.
LEMMA LifecycleStep == LongGrace /\ TypeOK /\ Lifecycle /\ [Next]_vars => Lifecycle'
<1> SUFFICES ASSUME LongGrace, TypeOK, Lifecycle, [Next]_vars PROVE Lifecycle'
  OBVIOUS
<1> USE DEF TeardownExclusive, InTeardown, Before, One, EndsDue
<1>1. CASE mgr_init
  BY <1>1 DEF mgr_init, TypeOK, Lifecycle, confVars, svcVars, hisVars
<1>2. CASE StartBuild
  BY <1>2 DEF StartBuild, TypeOK, Lifecycle, Goto, confVars, svcVars, hisVars
<1>3. CASE StartScheme
  BY <1>3 DEF StartScheme, TypeOK, Lifecycle, Goto, confVars, svcVars, hisVars
<1>4. CASE StartEnd
  BY <1>4 DEF StartEnd, TypeOK, Lifecycle, Goto, confVars, svcVars, hisVars
<1>5. CASE StartFails
  BY <1>5 DEF StartFails, TypeOK, Lifecycle, Goto, confVars, svcVars, hisVars
<1>6. ASSUME NEW t \in {"app", "wq"}, TeardownTransport(t) PROVE Lifecycle'
  BY <1>6 DEF TeardownTransport, TypeOK, Lifecycle, Goto, confVars, svcVars, hisVars
<1>7. ASSUME NEW t \in {"app", "wq"}, TeardownEndpoints(t) PROVE Lifecycle'
  BY <1>7 DEF TeardownEndpoints, TypeOK, Lifecycle, Goto, confVars, svcVars, hisVars
<1>8. ASSUME NEW t \in {"app", "wq"}, TeardownDelete(t) PROVE Lifecycle'
  BY <1>8 DEF TeardownDelete, TypeOK, Lifecycle, Goto, confVars, svcVars, hisVars
<1>9. ASSUME NEW t \in {"app", "wq"}, TeardownEnd(t) PROVE Lifecycle'
  BY <1>9 DEF TeardownEnd, TypeOK, Lifecycle, Goto, Returned, confVars, svcVars, hisVars
<1>10. CASE teardown_work_fn
  BY <1>10 DEF teardown_work_fn, TypeOK, Lifecycle, Goto, Teardown, Returned, confVars,
      svcVars, hisVars
<1>11. CASE StopCancel
  BY <1>11 DEF StopCancel, TypeOK, Lifecycle, Goto, confVars, svcVars, hisVars
<1>12. CASE StopSync
  BY <1>12 DEF StopSync, TypeOK, Lifecycle, Goto, Teardown, Returned, confVars, svcVars,
      hisVars
<1>13. CASE DeinitCancel
  BY <1>13 DEF DeinitCancel, TypeOK, Lifecycle, Goto, confVars, svcVars, hisVars
<1>14. CASE DeinitSync
  BY <1>14 DEF DeinitSync, TypeOK, Lifecycle, Goto, Teardown, Returned, confVars,
      svcVars, hisVars
<1>15. CASE DeinitEnd
  BY <1>15 DEF DeinitEnd, TypeOK, Lifecycle, Goto, confVars, svcVars, hisVars
<1>16. CASE disable_auto_stop
  BY <1>16 DEF disable_auto_stop, TypeOK, Lifecycle, confVars, svcVars, hisVars
<1>17. CASE WaitBegin
  BY <1>17 DEF WaitBegin, TypeOK, Lifecycle, Goto, confVars, svcVars, hisVars
<1>18. CASE WaitReturns
  BY <1>18 DEF WaitReturns, TypeOK, Lifecycle, Goto, confVars, svcVars, hisVars
<1>19. CASE SuccessGive
  BY <1>19 DEF SuccessGive, TypeOK, Lifecycle, Goto, confVars, svcVars, hisVars
<1>20. CASE SuccessCheck
  BY <1>20 DEF SuccessCheck, TypeOK, Lifecycle, Goto, confVars, svcVars, hisVars
<1>21. CASE SuccessSchedule
  BY <1>21 DEF SuccessSchedule, TypeOK, Lifecycle, Goto, confVars, svcVars, hisVars
<1>22. CASE UNCHANGED vars
  BY <1>22 DEF TypeOK, Lifecycle, confVars, svcVars, hisVars, vars
<1> QED
  BY <1>1, <1>2, <1>3, <1>4, <1>5, <1>6, <1>7, <1>8, <1>9, <1>10, <1>11, <1>12, <1>13,
      <1>14, <1>15, <1>16, <1>17, <1>18, <1>19, <1>20, <1>21, <1>22 DEF Next, AppCall,
      AppStep, emit_success, do_teardown

\* The ENDs that are due, counted as EndOncePerStart counts them.
LEMMA EndsDueCount ==
    EndsDue = Cardinality({t \in {"app", "wq"} : pc[t] = "td_end"})
<1> DEFINE S == {t \in {"app", "wq"} : pc[t] = "td_end"}
<1>1. CASE pc["app"] = "td_end" /\ pc["wq"] = "td_end"
  <2>1. S = {"app"} \cup {"wq"}
    BY <1>1
  <2>2. IsFiniteSet({"app"}) /\ Cardinality({"app"}) = 1 /\ "wq" \notin {"app"}
    BY FS_Singleton
  <2>3. Cardinality({"app"} \cup {"wq"}) = 1 + 1
    BY <2>2, FS_AddElement
  <2> QED
    BY <1>1, <2>1, <2>3 DEF EndsDue, One
<1>2. CASE pc["app"] = "td_end" /\ pc["wq"] # "td_end"
  <2>1. S = {"app"}
    BY <1>2
  <2>2. Cardinality({"app"}) = 1
    BY FS_Singleton
  <2> QED
    BY <1>2, <2>1, <2>2 DEF EndsDue, One
<1>3. CASE pc["app"] # "td_end" /\ pc["wq"] = "td_end"
  <2>1. S = {"wq"}
    BY <1>3
  <2>2. Cardinality({"wq"}) = 1
    BY FS_Singleton
  <2> QED
    BY <1>3, <2>1, <2>2 DEF EndsDue, One
<1>4. CASE pc["app"] # "td_end" /\ pc["wq"] # "td_end"
  <2>1. S = {}
    BY <1>4
  <2> QED
    BY <1>4, <2>1, FS_EmptySet DEF EndsDue, One
<1> QED
  BY <1>1, <1>2, <1>3, <1>4

\* The invariant holds in every reachable state.
LEMMA LifecycleHolds ==
    ASSUME LongGrace
    PROVE  Spec => []Lifecycle
<1>1. Init => Lifecycle
  BY DEF Init, Lifecycle, TeardownExclusive, InTeardown, Before, One, EndsDue
<1>2. TypeOK /\ Lifecycle /\ [Next]_vars => Lifecycle'
  BY LifecycleStep
<1> QED
  BY <1>1, <1>2, TypeCorrect, PTL DEF Spec

\* Two threads are never both inside do_teardown.
THEOREM TeardownIsExclusive ==
    ASSUME LongGrace
    PROVE  Spec => []TeardownExclusive
<1>1. Lifecycle => TeardownExclusive
  BY DEF Lifecycle
<1> QED
  BY <1>1, LifecycleHolds, PTL

\* NETWORK_PROV_END is reported exactly once for each NETWORK_PROV_START.
THEOREM EndIsOncePerStart ==
    ASSUME LongGrace
    PROVE  Spec => []EndOncePerStart
<1>1. Lifecycle => EndOncePerStart
  BY EndsDueCount DEF Lifecycle, EndOncePerStart, One
<1> QED
  BY <1>1, LifecycleHolds, PTL
=============================================================================
