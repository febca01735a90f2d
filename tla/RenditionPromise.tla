-------------------------- MODULE RenditionPromise --------------------------
(***************************************************************************)
(* What a shared rendition build promises to the people who wait for it    *)
(* and to the ones whose content it sends out, without claims, leases,     *)
(* phases or roots:                                                        *)
(*   - content leaves the vault for a waiter that has consented, and no    *)
(*     consent is revoked while a call is out;                             *)
(*   - a call nobody heard the end of is never made again and never        *)
(*     counted as settled;                                                 *)
(*   - a publication answers everybody who waits: the ones with consent    *)
(*     get the build, the others are turned away.                          *)
(* RenditionJobs implements it.                                            *)
(***************************************************************************)
EXTENDS Naturals

CONSTANT Waiter

VARIABLES
    status,     \* what each waiter has been told
    consented,  \* the waiters whose consent stands
    revoked,    \* how often each consent was revoked
    call,       \* the call the provider may still be working on
    attended,   \* somebody works on the build and can hear of the call
    out         \* the waiters whose content is being sent

vars == <<status, consented, revoked, call, attended, out>>

Waiting == {v \in Waiter : status[v] = "waiting"}

Init ==
    /\ status = [v \in Waiter |-> "none"]
    /\ consented = {}
    /\ revoked = [v \in Waiter |-> 0]
    /\ call = "none"
    /\ attended = FALSE
    /\ out = {}

Consent(v) ==
    /\ consented' = consented \cup {v}
    /\ UNCHANGED <<status, revoked, call, attended, out>>

Lapse(v) ==
    /\ consented' = consented \ {v}
    /\ UNCHANGED <<status, revoked, call, attended, out>>

Revoke(v) ==
    /\ out = {}
    /\ consented' = consented \ {v}
    /\ revoked' = [revoked EXCEPT ![v] = @ + 1]
    /\ UNCHANGED <<status, call, attended, out>>

\* A kept handle is given up when there is a build to use instead.
Join(v) ==
    /\ v \in consented
    /\ status[v] # "published"
    /\ status' = [status EXCEPT ![v] = "waiting"]
    /\ call' = call \/ (call = "handle" /\ call' = "none")
    /\ UNCHANGED <<consented, revoked, attended, out>>

\* A first call, or the continuation of one whose handle was kept.
Send(v) ==
    /\ v \in Waiting \cap consented
    /\ call \in {"none", "handle"}
    /\ call' = IF call = "none" THEN "open" ELSE call
    /\ attended
    /\ out' = out \cup {v}
    /\ UNCHANGED <<status, consented, revoked, attended>>

Keep ==
    /\ attended /\ call # "none"
    /\ call' = "handle"
    /\ UNCHANGED <<status, consented, revoked, attended, out>>

\* Its end is known, or its result is in the vault.
Settle ==
    /\ attended
    /\ call' = "none"
    /\ attended' \in BOOLEAN
    /\ out' \in SUBSET out
    /\ UNCHANGED <<status, consented, revoked>>

\* Nobody takes up a build whose call may or may not have been carried out.
Attend ==
    /\ call # "open"
    /\ attended' = TRUE
    /\ UNCHANGED <<status, consented, revoked, call, out>>

\* The sending of content ends, or its sender is gone.
Leave ==
    /\ UNCHANGED <<call, status, consented, revoked>>
    /\ attended' \in {attended, FALSE}
    /\ out' \in SUBSET out

Publish ==
    /\ Waiting \cap consented # {}
    /\ status' = [v \in Waiter |->
           IF v \in Waiting \cap consented THEN "published"
           ELSE IF v \in Waiting THEN "rejected" ELSE status[v]]
    /\ attended' = FALSE
    /\ UNCHANGED <<consented, revoked, call, out>>

\* Waiters are turned away or go; a kept handle may go with the last one
\* that waits.
Withdraw ==
    /\ status' \in [Waiter -> {"none", "waiting", "published", "rejected"}]
    /\ \A v \in Waiter :
           \/ status'[v] \in {status[v], "none"}
           \/ status[v] = "waiting" /\ status'[v] = "rejected"
    /\ \/ call' = call
       \/ call = "handle" /\ call' = "none" /\ \A v \in Waiter : status'[v] # "waiting"
    /\ attended' \in {attended, FALSE}
    /\ UNCHANGED <<consented, revoked, out>>

Next ==
    \/ Leave \/ Attend \/ Withdraw \/ Keep \/ Settle \/ Publish
    \/ \E v \in Waiter : Consent(v) \/ Lapse(v) \/ Revoke(v) \/ Join(v) \/ Send(v)

Spec == Init /\ [][Next]_vars
=============================================================================
