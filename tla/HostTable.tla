------------------------------ MODULE HostTable ------------------------------
(***************************************************************************)
(* The host table of bootd as it is in memory (host.c, util.c): a list     *)
(* linked by next pointers, with host_clone, which copies a whole host_t   *)
(* at run time, and the session structures behind the session pointers.    *)
(* HostSession is the table of a daemon that never clones a host.          *)
(*                                                                         *)
(* A pointer is an index into hosts, respectively an element of SessPtrs;  *)
(* Null is the null pointer.  The operators take and return the record t   *)
(* of the four variables and the status, because a handler calls several   *)
(* of them in turn.  A host is its name, its ethernet address, whether     *)
(* its services include the one asked for, and its two pointers; its IP    *)
(* address and its files play no part in these operations.  host_t objects *)
(* are never freed.                                                        *)
(*                                                                         *)
(* The member "owner" of a session is not in the code: it is the station   *)
(* that opened it, for the properties.                                     *)
(*                                                                         *)
(* DeleteKeepsPointer, DeleteForgetsCount, TimeoutEveryone and             *)
(* CheckAnyService are faulty variants, used only to confirm that the      *)
(* properties can fail.                                                    *)
(***************************************************************************)
EXTENDS Integers, Sequences, FiniteSets

CONSTANTS
    Names,            \* host names
    Ethers,           \* ethernet addresses of stations
    SessionMax,       \* c_session_max
    SessionTimeout,   \* c_session_timeout
    Services,
    Free              \* the content of session memory that is not allocated

Null == 0

ASSUME TableAssumption == SessionMax \in Nat \ {0} /\ SessionTimeout \in Nat

(* Memory for sessions; the limit leaves at most SessionMax allocated.     *)
SessPtrs == 1 .. SessionMax + 1

(* t.status: "running", "exited" by log_msg(LOG_ERR), "killed" by a        *)
(* signal, "hung" in a loop that does not end, or "undefined" behaviour.   *)
Running(t) == t.status = "running"
Stop(t, status) == [t EXCEPT !.status = status]

----------------------------------------------------------------------------
(* The hosts a walk from g_hosts meets; the walk ends unless some host is  *)
(* met twice.                                                              *)
Following(t, h) == IF h = Null THEN Null ELSE t.hosts[h].next
Walk(t) ==
    LET at[k \in 0 .. Len(t.hosts)] ==
          IF k = 0 THEN t.g_hosts ELSE Following(t, at[k - 1])
    IN  at
Endless(t) == Walk(t)[Len(t.hosts)] # Null
Listed(t) == LET walk == Walk(t)
             IN  {h \in DOMAIN t.hosts : \E k \in 0 .. Len(t.hosts) : walk[k] = h}

(* A loop over the list that stops at the first of the hosts in found: the *)
(* result is that host, Null at the end of the list, or no result.         *)
Forever == -1
FirstOf(t, found) ==
    LET walk == Walk(t)
        meets == {k \in 0 .. Len(t.hosts) : walk[k] \in found}
    IN  IF meets # {} THEN walk[CHOOSE k \in meets : \A j \in meets : k <= j]
        ELSE IF Endless(t) THEN Forever ELSE Null

util_ether2host(t, e) == FirstOf(t, {h \in DOMAIN t.hosts : t.hosts[h].eth = e})
util_name2host(t, n) == FirstOf(t, {h \in DOMAIN t.hosts : t.hosts[h].name = n})

(* The end of host_add: a host with the name of a listed one is ignored,   *)
(* another one is linked behind the last.  Its next pointer is left as it  *)
(* is.                                                                     *)
host_add(t, h) ==
    LET same == util_name2host(t, t.hosts[h].name)
        last == FirstOf(t, {n \in DOMAIN t.hosts : t.hosts[n].next = Null})
    IN  IF t.g_hosts = Null THEN [t EXCEPT !.g_hosts = h]
        ELSE IF same = Forever THEN Stop(t, "hung")
        ELSE IF same # Null THEN t
        ELSE [t EXCEPT !.hosts[last].next = h]

(* host_clone(src, NULL, e, NULL): a copy of *src with another address and *)
(* the name the resolver has for it; the pointers next and session are     *)
(* those of src.  A name that is new and has no IP address ends the        *)
(* daemon.                                                                 *)
host_clone(t, src, e, name, hasIp) ==
    LET copy == [t EXCEPT !.hosts = Append(@, [t.hosts[src] EXCEPT !.name = name, !.eth = e])]
    IN  IF util_name2host(t, name) = Null /\ ~hasIp THEN Stop(copy, "exited")
        ELSE host_add(copy, Len(copy.hosts))

----------------------------------------------------------------------------
SessionOf(t, h) == t.sess[t.hosts[h].session]
HasSession(t, h) == t.hosts[h].session # Null
Dangling(t, h) == HasSession(t, h) /\ SessionOf(t, h) = Free

DeleteKeepsPointer(t, h) ==
    IF ~HasSession(t, h) THEN t
    ELSE IF Dangling(t, h) THEN Stop(t, "undefined")
    ELSE [t EXCEPT !.sess[t.hosts[h].session] = Free, !.g_n_sessions = @ - 1]

DeleteForgetsCount(t, h) ==
    IF ~HasSession(t, h) THEN t
    ELSE IF Dangling(t, h) THEN Stop(t, "undefined")
    ELSE [t EXCEPT !.sess[t.hosts[h].session] = Free, !.hosts[h].session = Null]

(* Reading or freeing memory that is no longer allocated is undefined.     *)
host_session_delete(t, h) ==
    IF ~HasSession(t, h) THEN t
    ELSE IF Dangling(t, h) THEN Stop(t, "undefined")
    ELSE [t EXCEPT !.sess[t.hosts[h].session] = Free,
                   !.hosts[h].session = Null,
                   !.g_n_sessions = @ - 1]

TimeoutEveryone(t, h) == HasSession(t, h)

(* The sessions host_session_timeout deletes.                              *)
TimedOut(t, h) == HasSession(t, h) /\ SessionOf(t, h).idle > SessionTimeout

(* The walk over the list, with host_session_timeout for each host.  It    *)
(* comes to a host of a session that is not allocated if there is one, or  *)
(* if two hosts have a session in common, which it deletes at the first.   *)
util_host_session_timeout_all(t) ==
    LET old == {h \in Listed(t) : TimedOut(t, h)}
        freed == {t.hosts[h].session : h \in old}
        end == [t EXCEPT
                  !.hosts = [h \in DOMAIN t.hosts |-> IF h \in old
                                THEN [t.hosts[h] EXCEPT !.session = Null] ELSE t.hosts[h]],
                  !.sess = [s \in SessPtrs |-> IF s \in freed THEN Free ELSE t.sess[s]],
                  !.g_n_sessions = @ - Cardinality(freed)]
    IN  IF \/ \E h \in Listed(t) : Dangling(t, h)
           \/ \E g, h \in old : g # h /\ t.hosts[g].session = t.hosts[h].session
        THEN Stop(t, "undefined")
        ELSE IF Endless(t) THEN Stop(end, "hung") ELSE end

(* malloc may return memory that was freed before; which of the free       *)
(* addresses it returns makes no difference.                               *)
SomeFree(t) == CHOOSE s \in SessPtrs : t.sess[s] = Free

NewSession(service, sid, owner) ==
    [service |-> service, sid |-> sid, fd |-> "none", idle |-> 0, owner |-> owner]

(* host_session_add; it has returned 1 if and only if h has a session      *)
(* afterwards.                                                             *)
host_session_add(t, h, new) ==
    LET fresh == util_host_session_timeout_all(t)
        old == IF Running(fresh) THEN host_session_delete(fresh, h) ELSE fresh
        s == SomeFree(old)
    IN  IF Running(old) /\ old.g_n_sessions < SessionMax
        THEN [old EXCEPT !.sess[s] = new, !.hosts[h].session = s, !.g_n_sessions = @ + 1]
        ELSE old

E_NOERROR == 0
E_NOSESSION == 1
E_BADSID == 2

CheckAnyService(t, h, service, sid) ==
    IF ~HasSession(t, h) THEN E_NOSESSION
    ELSE IF SessionOf(t, h).sid # sid THEN E_BADSID
    ELSE E_NOERROR

(* The value of host_session_check for a session that is not dangling.     *)
CheckResult(t, h, service, sid) ==
    IF ~HasSession(t, h) \/ SessionOf(t, h).service # service THEN E_NOSESSION
    ELSE IF SessionOf(t, h).sid # sid THEN E_BADSID
    ELSE E_NOERROR

host_session_check(t, h, service, sid) ==
    IF Dangling(t, h) THEN Stop(t, "undefined")
    ELSE IF CheckResult(t, h, service, sid) = E_NOERROR
    THEN [t EXCEPT !.sess[t.hosts[h].session].idle = 0]
    ELSE t
=============================================================================
