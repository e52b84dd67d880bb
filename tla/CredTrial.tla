----------------------------- MODULE CredTrial -----------------------------
(***************************************************************************)
(* What prov-config promises the application about a set of credentials:   *)
(* once NETWORK_PROV_CRED_RECV has announced them they are on trial, a     *)
(* trial ends in exactly one of CRED_SUCCESS and CRED_FAIL unless it is    *)
(* abandoned (reset, stop, power loss), and no outcome is ever reported    *)
(* for credentials that are not on trial.  A trial is spoilt by what the   *)
(* endpoint has no guard against: handlers of two threads that overlap, a  *)
(* late result of an earlier trial, a result that is lost.  Nothing is     *)
(* promised of a spoilt trial; the next one starts afresh.                 *)
(***************************************************************************)
CONSTANTS Cred,     \* the credentials a client can provision
          NoCred    \* "none"

VARIABLES phase,    \* "idle" | "trying" | "succeeded" | "failed" | "void"
          cred      \* the credentials of the latest trial

vars == <<phase, cred>>

Init == phase = "idle" /\ cred = NoCred

\* CRED_RECV: a new trial, possibly superseding an unfinished one.
Receive(c) == phase' = "trying" /\ cred' = c

\* CRED_SUCCESS and CRED_FAIL: the trial's one outcome.
Succeed == phase = "trying" /\ phase' = "succeeded" /\ UNCHANGED cred
Fail    == phase = "trying" /\ phase' = "failed" /\ UNCHANGED cred

\* Reset, stop or power loss; also forgets the outcome of a finished trial.
Abandon == phase' = "idle" /\ cred' \in {cred, NoCred}

\* An overlap, a late result or a lost one.
Spoil == phase' = "void" /\ cred' \in Cred \cup {NoCred}

Next == (\E c \in Cred : Receive(c)) \/ Succeed \/ Fail \/ Abandon \/ Spoil

Spec == Init /\ [][Next]_vars /\ WF_vars(Succeed \/ Fail)
=============================================================================
