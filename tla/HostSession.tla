---------------------------- MODULE HostSession ----------------------------
(***************************************************************************)
(* The session table of bootd (host.c, with util_host_session_timeout_all  *)
(* of util.c): every host of g_hosts has at most one boot session, at most *)
(* c_session_max sessions are active, and a session whose host has been    *)
(* silent for more than c_session_timeout seconds may be evicted, but only *)
(* when some host asks for a new session: no timer runs in the daemon.     *)
(*                                                                         *)
(* The operators GoneEveryone, GoneOwnOnly, AdmitsBeforeEviction,          *)
(* AdmitsOneMore, DeleteWithoutNullTest, AfterAddSwappedArguments and      *)
(* CheckResultAnySid are faulty variants of the definition that follows    *)
(* each; the specification does not use them, they serve to confirm that   *)
(* the properties can fail.                                                *)
(*                                                                         *)
(* Abstractions.  session[h] stands for h->session: NoSession for a null   *)
(* pointer, else the fields the table's own logic reads.  Instead of the   *)
(* absolute time "atime", a session records "idle" = time(NULL) - atime,   *)
(* frozen once it exceeds SessionTimeout, since the code only asks whether *)
(* it does.  Hosts is the set of entries of g_hosts, fixed after start-up; *)
(* hosts cloned at run time (host_clone) are not part of this module.  The *)
(* members fd[] and l of session_t, and the loop of host_session_delete    *)
(* that drops the listeners of fd[], act on the descriptor table and the   *)
(* listener list: module Tftp adds them on top of the operators below.     *)
(***************************************************************************)
EXTENDS Integers, FiniteSets

CONSTANTS
    Hosts,            \* the entries of g_hosts
    Services,         \* the services that keep sessions (SERVICE_TFTP, SERVICE_RMP)
    Sids,             \* the session ids services hand out (client port, rmp_sid)
    SessionMax,       \* c_session_max
    SessionTimeout,   \* c_session_timeout
    NoSession         \* the null session pointer

ASSUME HostsAssumption == IsFiniteSet(Hosts)
ASSUME SessionMaxAssumption == SessionMax \in Int
ASSUME SessionTimeoutAssumption == SessionTimeout \in Nat

VARIABLES
    session,          \* h->session for every host h
    g_n_sessions      \* "current # of active sessions"

sessionVars == <<session, g_n_sessions>>

Session == [service : Services, sid : Sids, idle : 0 .. SessionTimeout + 1]

ASSUME NoSessionAssumption == NoSession \notin Session

TypeOK ==
    /\ session \in [Hosts -> Session \cup {NoSession}]
    /\ g_n_sessions \in Int

SessionInit ==
    /\ session = [h \in Hosts |-> NoSession]
    /\ g_n_sessions = 0

----------------------------------------------------------------------------
Active == {h \in Hosts : session[h] # NoSession}

(* atime + c_session_timeout < time(NULL)                                  *)
Expired == {h \in Active : session[h].idle > SessionTimeout}

GoneEveryone(h) == Active
GoneOwnOnly(h) == {h} \cap Active

(* The sessions host_session_add(h, ...) deletes before it counts: those   *)
(* util_host_session_timeout_all finds expired, and h's previous one.      *)
Gone(h) == Expired \cup ({h} \cap Active)

AdmitsBeforeEviction(h) == g_n_sessions < SessionMax
AdmitsOneMore(h) == g_n_sessions - Cardinality(Gone(h)) <= SessionMax

(* The counter test, after g_n_sessions-- for every deleted session.       *)
Admits(h) == g_n_sessions - Cardinality(Gone(h)) < SessionMax

DeleteWithoutNullTest(h) ==
    /\ session' = [session EXCEPT ![h] = NoSession]
    /\ g_n_sessions' = g_n_sessions - 1

host_session_delete(h) ==
    /\ session' = [session EXCEPT ![h] = NoSession]
    /\ g_n_sessions' = IF h \in Active THEN g_n_sessions - 1 ELSE g_n_sessions

AfterAddSwappedArguments(g, h, service, sid) ==
    IF g = h /\ Admits(h) THEN [service |-> sid, sid |-> service, idle |-> 0]
    ELSE IF g \in Gone(h) THEN NoSession
    ELSE session[g]

(* The session that replaces session[g] when host h asks for a new one     *)
(* with the given service and session id.                                  *)
SessionAfterAdd(g, h, service, sid) ==
    IF g = h /\ Admits(h) THEN [service |-> service, sid |-> sid, idle |-> 0]
    ELSE IF g \in Gone(h) THEN NoSession
    ELSE session[g]

host_session_add(h, service, sid) ==
    /\ session' = [g \in Hosts |-> SessionAfterAdd(g, h, service, sid)]
    /\ g_n_sessions' = g_n_sessions - Cardinality(Gone(h))
                       + (IF Admits(h) THEN 1 ELSE 0)

E_NOERROR == 0
E_NOSESSION == 1
E_BADSID == 2

CheckResultAnySid(h, service, sid) ==
    IF h \notin Active \/ session[h].service # service THEN E_NOSESSION
    ELSE E_NOERROR

(* The value host_session_check returns.                                   *)
CheckResult(h, service, sid) ==
    IF h \notin Active \/ session[h].service # service THEN E_NOSESSION
    ELSE IF session[h].sid # sid THEN E_BADSID
    ELSE E_NOERROR

host_session_check(h, service, sid) ==
    /\ session' = IF CheckResult(h, service, sid) = E_NOERROR
                  THEN [session EXCEPT ![h].idle = 0]
                  ELSE session
    /\ UNCHANGED g_n_sessions

(* A second passes.                                                        *)
Tick ==
    /\ session' = [h \in Hosts |->
                     IF h \in Active \ Expired
                     THEN [session[h] EXCEPT !.idle = @ + 1]
                     ELSE session[h]]
    /\ UNCHANGED g_n_sessions

----------------------------------------------------------------------------
(* What the services do with the table: a request of h opens a session, a  *)
(* later packet of h is checked against it, h reports that it is done.     *)
Open(h) == \E service \in Services, sid \in Sids : host_session_add(h, service, sid)

Continue(h) == \E service \in Services, sid \in Sids : host_session_check(h, service, sid)

Close(h) == host_session_delete(h)

SessionNext ==
    \/ \E h \in Hosts : Open(h) \/ Continue(h) \/ Close(h)
    \/ Tick

SessionSpec == SessionInit /\ [][SessionNext]_sessionVars

(* Fairness: the clock advances.  Nothing forces a client to do anything.  *)
FairSessionSpec == SessionSpec /\ WF_sessionVars(Tick)

----------------------------------------------------------------------------
(* The counter that host_session_add trusts equals the number of session   *)
(* structures reachable from the host table, whatever was evicted, replaced*)
(* or closed in between: a lost decrement turns hosts away for ever, a     *)
(* doubled one admits too many.                                            *)
CountExact == g_n_sessions = Cardinality(Active)

(* Never more than session_max ("max # of active sessions") hosts boot at  *)
(* once; with a session_max below 1 no host ever does.                     *)
SessionLimit == Active # {} => Cardinality(Active) <= SessionMax

(* The table is a session pool: nobody else's request removes a session in *)
(* use, a request is refused only while SessionMax other hosts have been   *)
(* heard from within the timeout, and the clock alone removes nothing.     *)
Pool == INSTANCE SessionPool WITH active <- Active, stale <- Expired
PoolRefinement == Pool!Spec

(* A host that keeps asking is served again and again, unless other hosts  *)
(* keep the pool in use: sessions of clients that were switched off in the *)
(* middle of a boot do not lock the others out, although nothing but the   *)
(* next request ever evicts them.  The premise is the retry every boot     *)
(* client performs: a TFTP client retransmits its RRQ, a boot ROM its      *)
(* BOOT_REQ, and the event loop handles one packet after the other.        *)
OthersBusy(h) == \E g \in Hosts \ {h} : Open(g) \/ Continue(g)

ServedUnlessOthersBusy ==
    \A h \in Hosts :
        WF_sessionVars(Open(h)) =>
            \/ []<>(h \in Active)
            \/ []<><<OthersBusy(h)>>_sessionVars
=============================================================================
