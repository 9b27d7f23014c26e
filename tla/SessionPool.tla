---------------------------- MODULE SessionPool ----------------------------
(***************************************************************************)
(* What the session table of bootd promises, without its counter, its      *)
(* clocks and its records: at most SessionMax hosts boot at a time, a      *)
(* session that is in use is never taken away from its host by another     *)
(* host's request, and a request is turned away only while the pool is     *)
(* full of sessions in use.  HostSession implements this specification     *)
(* (PoolRefinement there).                                                 *)
(***************************************************************************)
EXTENDS Integers, FiniteSets

CONSTANTS
    Hosts,        \* the configured hosts, finitely many
    SessionMax    \* c_session_max

VARIABLES
    active,       \* the hosts that have a session
    stale         \* those of them that have been silent for too long

vars == <<active, stale>>

TypeOK ==
    /\ active \in SUBSET Hosts
    /\ stale \in SUBSET active

Init == active = {} /\ stale = {}

(* The sessions that stand in the way of a new one for host h.             *)
InUse(h) == (active \ stale) \ {h}

(* A request of h evicts the stale sessions and h's own previous one; the  *)
(* new session is granted if and only if fewer than SessionMax remain.     *)
Admit(h) ==
    /\ Cardinality(InUse(h)) < SessionMax
    /\ active' = InUse(h) \cup {h}
    /\ stale' = {}

Refuse(h) ==
    /\ Cardinality(InUse(h)) >= SessionMax
    /\ active' = InUse(h)
    /\ stale' = {}

(* h finished, or starts over.                                             *)
End(h) ==
    /\ active' = active \ {h}
    /\ stale' = stale \ {h}

(* h is heard from: its session is in use again.                           *)
Touch(h) ==
    /\ h \in active
    /\ stale' = stale \ {h}
    /\ UNCHANGED active

(* Time passes: more sessions may become stale, none is removed by it.     *)
Age ==
    /\ stale' \in SUBSET active
    /\ stale \subseteq stale'
    /\ UNCHANGED active

Next ==
    \/ \E h \in Hosts : Admit(h) \/ Refuse(h) \/ End(h) \/ Touch(h)
    \/ Age

Spec == Init /\ [][Next]_vars
=============================================================================
