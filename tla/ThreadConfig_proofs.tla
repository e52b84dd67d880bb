------------------------ MODULE ThreadConfig_proofs ------------------------
(***************************************************************************)
(* Safety of the Thread configuration endpoint, for every set of datasets, *)
(* every number of applies and every schedule: types, at most one outcome  *)
(* for an apply, and no attach that goes unnoticed.                        *)
(***************************************************************************)
EXTENDS ThreadConfig, TLAPS

\* A thread moves to one of the positions.
LEMMA GotoType ==
    ASSUME TypeOK, NEW t \in Threads, NEW l \in Pcs, Goto(t, l)
    PROVE  pc' \in [Threads -> Pcs]
BY DEF TypeOK, Goto

\* Claiming keeps the types of what it changes.
LEMMA ClaimType ==
    ASSUME TypeOK, NEW t \in Threads, NEW l \in Pcs, Claim(t, l)
    PROVE  /\ pending' \in BOOLEAN
           /\ seen' \in [Threads -> 0..MaxApplies]
           /\ pc' \in [Threads -> Pcs]
<1>1. "idle" \in Pcs
  BY DEF Pcs
<1>2. pc' \in [Threads -> Pcs]
  BY <1>1, GotoType DEF Claim
<1>3. seen' \in [Threads -> 0..MaxApplies]
  BY DEF Claim, TypeOK
<1>4. pending' \in BOOLEAN
  BY DEF Claim, TypeOK
<1> QED
  BY <1>2, <1>3, <1>4

\* Counting an outcome keeps the counters.
LEMMA ReportedType ==
    ASSUME TypeOK, NEW g, Reported(g)
    PROVE  outcomes' \in [1..MaxApplies -> Nat]
<1>1. outcomes' = [h \in 1..MaxApplies |-> IF h = g THEN outcomes[g] + 1 ELSE outcomes[h]]
  BY DEF TypeOK, Reported
<1>2. \A h \in 1..MaxApplies : outcomes[h] \in Nat /\ outcomes[h] + 1 \in Nat
  BY DEF TypeOK
<1> QED
  BY <1>1, <1>2

\* Every action keeps the types (thread_config_handler.c).
LEMMA TypeStep == TypeOK /\ [Next]_vars => TypeOK'
<1> SUFFICES ASSUME TypeOK, [Next]_vars PROVE TypeOK'
  OBVIOUS
<1>1. CASE do_set_config
  BY <1>1 DEF do_set_config, TypeOK, cfgVars, timVars, otVars, hisVars
<1>2. CASE ApplyCommit
  BY <1>2, ThreadConstants DEF ApplyCommit, TypeOK, Goto, Pcs, Threads, cfgVars,
      timVars, otVars, hisVars
<1>3. CASE ApplyRejected
  BY <1>3, ThreadConstants DEF ApplyRejected, TypeOK, Reported, cfgVars, timVars,
      otVars, hisVars
<1>4. CASE ApplyPending
  BY <1>4 DEF ApplyPending, TypeOK, Goto, Pcs, Threads, cfgVars, timVars, otVars,
      hisVars
<1>5. CASE ApplyRecheck
  <2>1. /\ pending' \in BOOLEAN /\ seen' \in [Threads -> 0..MaxApplies]
        /\ pc' \in [Threads -> Pcs]
    BY <1>5, ClaimType, GotoType DEF ApplyRecheck, TypeOK, Pcs, Threads
  <2> QED
    BY <1>5, <2>1 DEF ApplyRecheck, TypeOK, timVars, otVars
<1>6. CASE ApplyArm
  BY <1>6 DEF ApplyArm, TypeOK, Goto, Pcs, Threads, cfgVars, timVars, otVars, hisVars
<1>7. CASE ResetForget
  BY ZenonT(40), <1>7 DEF ResetForget, TypeOK, CancelTimeout, Goto, Pcs, Threads,
      cfgVars, timVars, otVars, hisVars
<1>8. CASE ResetDisable
  BY <1>8 DEF ResetDisable, TypeOK, Goto, Pcs, Threads, cfgVars, timVars, otVars,
      hisVars
<1>9. CASE config_init
  BY <1>9, ThreadConstants DEF config_init, TypeOK, CancelTimeout, cfgVars, timVars,
      otVars, hisVars
<1>10. CASE DeinitCancel
  BY ZenonT(40), <1>10 DEF DeinitCancel, TypeOK, CancelTimeout, Goto, Pcs, Threads, cfgVars,
      timVars, otVars, hisVars
<1>11. CASE DeinitUnregister
  BY ZenonT(40), <1>11 DEF DeinitUnregister, TypeOK, Goto, Pcs, Threads, cfgVars,
      timVars, otVars, hisVars
<1>12. CASE RoleChange
  BY ZenonT(40), <1>12 DEF RoleChange, TypeOK, cfgVars, timVars, otVars, hisVars
<1>13. CASE ot_state_changed
  <2>1. /\ pending' \in BOOLEAN /\ seen' \in [Threads -> 0..MaxApplies]
        /\ pc' \in [Threads -> Pcs]
    BY <1>13, ClaimType DEF ot_state_changed, TypeOK, Pcs, Threads
  <2> QED
    BY ZenonT(40), <1>13, <2>1 DEF ot_state_changed, TypeOK, timVars
<1>14. ASSUME NEW t \in {"req", "ot"}, on_attached(t) PROVE TypeOK'
  <2>1. pc' \in [Threads -> Pcs]
    BY <1>14, GotoType DEF on_attached, Pcs, Threads
  <2>2. outcomes' \in [1..MaxApplies -> Nat]
    BY <1>14, ReportedType DEF on_attached
  <2> QED
    BY <1>14, <2>1, <2>2 DEF on_attached, CancelTimeout, TypeOK, otVars
<1>15. CASE TimeoutExpires
  BY ZenonT(40), <1>15 DEF TimeoutExpires, TypeOK, cfgVars, timVars, otVars, hisVars
<1>16. CASE attach_timeout_fn
  <2>1. /\ pending' \in BOOLEAN /\ seen' \in [Threads -> 0..MaxApplies]
        /\ pc' \in [Threads -> Pcs]
    BY <1>16, ClaimType DEF attach_timeout_fn, Pcs, Threads
  <2> QED
    BY ZenonT(40), <1>16, <2>1 DEF attach_timeout_fn, TypeOK, otVars
<1>17. CASE TimeoutReport
  <2>1. pc' \in [Threads -> Pcs]
    BY <1>17, GotoType DEF TimeoutReport, Pcs, Threads
  <2>2. outcomes' \in [1..MaxApplies -> Nat]
    BY <1>17, ReportedType DEF TimeoutReport
  <2> QED
    BY <1>17, <2>1, <2>2 DEF TimeoutReport, TypeOK, timVars, otVars
<1>18. CASE UNCHANGED vars
  BY <1>18 DEF TypeOK, vars, cfgVars, timVars, otVars, hisVars
<1> QED
  BY <1>1, <1>2, <1>3, <1>4, <1>5, <1>6, <1>7, <1>8, <1>9, <1>10, <1>11, <1>12, <1>13,
      <1>14, <1>15, <1>16, <1>17, <1>18 DEF Next, Call, RequestStep, OpenThread,
      Workqueue

\* Every reachable state is well typed.
THEOREM TypeCorrect == Spec => []TypeOK
<1>1. Init => TypeOK
  <2> SUFFICES ASSUME Init PROVE TypeOK
    OBVIOUS
  <2>1. pc \in [Threads -> Pcs] /\ seen \in [Threads -> 0..MaxApplies]
    BY ThreadConstants DEF Init, Pcs
  <2>2. outcomes \in [1..MaxApplies -> Nat]
    BY DEF Init
  <2>3. preempt \in BOOLEAN
    BY ThreadConstants DEF Init
  <2>4. 0 \in 0..MaxApplies
    BY ThreadConstants
  <2> QED
    BY <2>1, <2>2, <2>3, <2>4 DEF Init, TypeOK
<1> QED
  BY <1>1, TypeStep, PTL DEF Spec

-----------------------------------------------------------------------------
\* Every action keeps a witness for an attach while an outcome is open
\* (ot_state_changed, the re-check of do_apply_config).
LEMMA AttachStep == TypeOK /\ AttachNotMissed /\ [Next]_vars => AttachNotMissed'
<1> SUFFICES ASSUME TypeOK, AttachNotMissed, [Next]_vars PROVE AttachNotMissed'
  OBVIOUS
<1> USE DEF Threads, Idle
<1>1. CASE do_set_config
  BY <1>1 DEF do_set_config, TypeOK, AttachNotMissed, cfgVars, timVars, otVars, hisVars
<1>2. CASE ApplyCommit
  BY <1>2 DEF ApplyCommit, TypeOK, AttachNotMissed, Goto, cfgVars, timVars, otVars,
      hisVars
<1>3. CASE ApplyRejected
  BY <1>3 DEF ApplyRejected, TypeOK, AttachNotMissed, cfgVars, timVars, otVars, hisVars
<1>4. CASE ApplyPending
  BY <1>4 DEF ApplyPending, TypeOK, AttachNotMissed, Goto, cfgVars, timVars, otVars,
      hisVars
<1>5. CASE ApplyRecheck
  BY <1>5 DEF ApplyRecheck, TypeOK, AttachNotMissed, Claim, Goto, cfgVars, timVars,
      otVars, hisVars
<1>6. CASE ApplyArm
  BY <1>6 DEF ApplyArm, TypeOK, AttachNotMissed, Goto, cfgVars, timVars, otVars, hisVars
<1>7. CASE ResetForget
  BY <1>7 DEF ResetForget, TypeOK, AttachNotMissed, CancelTimeout, Goto, cfgVars,
      timVars, otVars, hisVars
<1>8. CASE ResetDisable
  BY <1>8 DEF ResetDisable, TypeOK, AttachNotMissed, Goto, cfgVars, timVars, otVars,
      hisVars
<1>9. CASE config_init
  BY <1>9 DEF config_init, TypeOK, AttachNotMissed, CancelTimeout, cfgVars, timVars,
      otVars, hisVars
<1>10. CASE DeinitCancel
  BY <1>10 DEF DeinitCancel, TypeOK, AttachNotMissed, CancelTimeout, Goto, cfgVars,
      timVars, otVars, hisVars
<1>11. CASE DeinitUnregister
  BY <1>11 DEF DeinitUnregister, TypeOK, AttachNotMissed, Goto, cfgVars, timVars,
      otVars, hisVars
<1>12. CASE RoleChange
  BY <1>12 DEF RoleChange, TypeOK, AttachNotMissed, cfgVars, timVars, otVars, hisVars
<1>13. CASE ot_state_changed
  BY <1>13 DEF ot_state_changed, TypeOK, AttachNotMissed, Claim, Goto, cfgVars, timVars,
      otVars, hisVars
<1>14. ASSUME NEW t \in {"req", "ot"}, on_attached(t) PROVE AttachNotMissed'
  BY <1>14 DEF on_attached, TypeOK, AttachNotMissed, CancelTimeout, Goto, cfgVars,
      timVars, otVars, hisVars
<1>15. CASE TimeoutExpires
  BY <1>15 DEF TimeoutExpires, TypeOK, AttachNotMissed, cfgVars, timVars, otVars,
      hisVars
<1>16. CASE attach_timeout_fn
  BY <1>16 DEF attach_timeout_fn, TypeOK, AttachNotMissed, Claim, Goto, cfgVars,
      timVars, otVars, hisVars
<1>17. CASE TimeoutReport
  BY <1>17 DEF TimeoutReport, TypeOK, AttachNotMissed, Goto, cfgVars, timVars, otVars,
      hisVars
<1>18. CASE UNCHANGED vars
  BY <1>18 DEF TypeOK, AttachNotMissed, vars, cfgVars, timVars, otVars, hisVars
<1> QED
  BY <1>1, <1>2, <1>3, <1>4, <1>5, <1>6, <1>7, <1>8, <1>9, <1>10, <1>11, <1>12, <1>13,
      <1>14, <1>15, <1>16, <1>17, <1>18 DEF Next, Call, RequestStep, OpenThread,
      Workqueue

\* An attach is never missed, also one that comes before tc.pending is set.
THEOREM NoAttachMissed == Spec => []AttachNotMissed
<1>1. Init => AttachNotMissed
  BY DEF Init, AttachNotMissed
<1> QED
  BY <1>1, AttachStep, TypeCorrect, PTL DEF Spec

-----------------------------------------------------------------------------
Applies == 1..MaxApplies

\* g is an apply that has begun and has no outcome yet.
Open(g) == g \in Applies /\ g <= gen /\ outcomes[g] = 0

\* OutcomeOnce made inductive.  The right to report an apply's outcome is in
\* one place: with the request thread before tc.pending is set, in tc.pending,
\* or with the thread that has claimed it.
Exclusive ==
    /\ \A g \in Applies : outcomes[g] <= 1
    /\ \A g \in Applies : g > gen => outcomes[g] = 0
    /\ pending => Open(owner)
    /\ \A t \in Threads : Claimed(t) => Open(seen[t])
    /\ \A t \in Threads : Claimed(t) /\ pending => seen[t] # owner
    /\ \A t, u \in Threads : Claimed(t) /\ Claimed(u) /\ t # u => seen[t] # seen[u]
    /\ pc["req"] = "committed" =>
         /\ Open(seen["req"])
         /\ pending => owner # seen["req"]
         /\ \A t \in Threads : Claimed(t) => seen[t] # seen["req"]

\* Every action keeps the right to report in one place (atomic_cas).
LEMMA ExclusiveStep == TypeOK /\ Exclusive /\ [Next]_vars => Exclusive'
<1> SUFFICES ASSUME TypeOK, Exclusive, [Next]_vars PROVE Exclusive'
  OBVIOUS
<1> USE DEF Threads, Idle, Open, Applies, Claimed
<1>1. CASE do_set_config
  BY <1>1, ThreadConstants DEF do_set_config, TypeOK, Exclusive, cfgVars, timVars,
      otVars, hisVars
<1>2. CASE ApplyCommit
  BY <1>2, ThreadConstants DEF ApplyCommit, TypeOK, Exclusive, Goto, cfgVars, timVars,
      otVars, hisVars
<1>3. CASE ApplyRejected
  BY <1>3, ThreadConstants DEF ApplyRejected, TypeOK, Exclusive, Reported, cfgVars,
      timVars, otVars, hisVars
<1>4. CASE ApplyPending
  BY <1>4, ThreadConstants DEF ApplyPending, TypeOK, Exclusive, Goto, cfgVars, timVars,
      otVars, hisVars
<1>5. CASE ApplyRecheck
  BY <1>5, ThreadConstants DEF ApplyRecheck, TypeOK, Exclusive, Claim, Goto, cfgVars,
      timVars, otVars, hisVars
<1>6. CASE ApplyArm
  BY <1>6, ThreadConstants DEF ApplyArm, TypeOK, Exclusive, Goto, cfgVars, timVars,
      otVars, hisVars
<1>7. CASE ResetForget
  BY <1>7, ThreadConstants DEF ResetForget, TypeOK, Exclusive, CancelTimeout, Goto,
      cfgVars, timVars, otVars, hisVars
<1>8. CASE ResetDisable
  BY <1>8, ThreadConstants DEF ResetDisable, TypeOK, Exclusive, Goto, cfgVars, timVars,
      otVars, hisVars
<1>9. CASE config_init
  BY <1>9, ThreadConstants DEF config_init, TypeOK, Exclusive, CancelTimeout, cfgVars,
      timVars, otVars, hisVars
<1>10. CASE DeinitCancel
  BY <1>10, ThreadConstants DEF DeinitCancel, TypeOK, Exclusive, CancelTimeout, Goto,
      cfgVars, timVars, otVars, hisVars
<1>11. CASE DeinitUnregister
  BY <1>11, ThreadConstants DEF DeinitUnregister, TypeOK, Exclusive, Goto, cfgVars,
      timVars, otVars, hisVars
<1>12. CASE RoleChange
  BY <1>12, ThreadConstants DEF RoleChange, TypeOK, Exclusive, cfgVars, timVars, otVars,
      hisVars
<1>13. CASE ot_state_changed
  BY <1>13, ThreadConstants DEF ot_state_changed, TypeOK, Exclusive, Claim, Goto,
      cfgVars, timVars, otVars, hisVars
<1>14. ASSUME NEW t \in {"req", "ot"}, on_attached(t) PROVE Exclusive'
  BY <1>14, ThreadConstants DEF on_attached, TypeOK, Exclusive, CancelTimeout, Reported,
      Goto, cfgVars, timVars, otVars, hisVars
<1>15. CASE TimeoutExpires
  BY <1>15, ThreadConstants DEF TimeoutExpires, TypeOK, Exclusive, cfgVars, timVars,
      otVars, hisVars
<1>16. CASE attach_timeout_fn
  BY <1>16, ThreadConstants DEF attach_timeout_fn, TypeOK, Exclusive, Claim, Goto,
      cfgVars, timVars, otVars, hisVars
<1>17. CASE TimeoutReport
  BY <1>17, ThreadConstants DEF TimeoutReport, TypeOK, Exclusive, Reported, Goto,
      cfgVars, timVars, otVars, hisVars
<1>18. CASE UNCHANGED vars
  BY <1>18, ThreadConstants DEF TypeOK, Exclusive, vars, cfgVars, timVars, otVars,
      hisVars
<1> QED
  BY <1>1, <1>2, <1>3, <1>4, <1>5, <1>6, <1>7, <1>8, <1>9, <1>10, <1>11, <1>12, <1>13,
      <1>14, <1>15, <1>16, <1>17, <1>18 DEF Next, Call, RequestStep, OpenThread,
      Workqueue

\* At most one of success and failure is reported for an apply, however the
\* callback, the timeout and the re-check race, preempted or not.
THEOREM OutcomeIsOnce == Spec => []OutcomeOnce
<1>1. Init => Exclusive
  BY ThreadConstants DEF Init, Exclusive, Applies, Open, Claimed, Threads
<1>2. Exclusive => OutcomeOnce
  BY DEF Exclusive, OutcomeOnce, Applies
<1> QED
  BY <1>1, <1>2, ExclusiveStep, TypeCorrect, PTL DEF Spec
=============================================================================
