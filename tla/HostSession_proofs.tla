------------------------- MODULE HostSession_proofs -------------------------
(***************************************************************************)
(* Proofs about the session table of module HostSession, for any finite    *)
(* set of hosts, any session_max and any session_timeout.                  *)
(*                                                                         *)
(* CountExact is what makes the rest true: host_session_add compares the   *)
(* counter, not the table, with session_max.  IInv is inductive because    *)
(* every operation changes the counter by exactly the change it makes to   *)
(* the set of active hosts (lemmas DeleteActive and AddActive).            *)
(***************************************************************************)
EXTENDS HostSession, FiniteSetTheorems, TLAPS

IInv == TypeOK /\ CountExact /\ SessionLimit

(* The hosts with a session are finitely many, and so are those a request  *)
(* of h removes.                                                           *)
LEMMA ActiveFinite ==
  /\ IsFiniteSet(Active)
  /\ Cardinality(Active) \in Nat
  /\ \A h \in Hosts : /\ Gone(h) \subseteq Active
                     /\ IsFiniteSet(Gone(h))
                     /\ Cardinality(Gone(h)) \in Nat
<1>1. IsFiniteSet(Active)
  BY FS_Subset, HostsAssumption DEF Active
<1>2. Cardinality(Active) \in Nat
  BY <1>1, FS_CardinalityType
<1>3. \A h \in Hosts : Gone(h) \subseteq Active
  BY DEF Gone, Expired
<1>4. \A h \in Hosts : IsFiniteSet(Gone(h)) /\ Cardinality(Gone(h)) \in Nat
  BY <1>1, <1>3, FS_Subset, FS_CardinalityType
<1> QED
  BY <1>1, <1>2, <1>3, <1>4

(* The number of sessions that stay when h asks for a new one is the one   *)
(* host_session_add computes from the counter.                             *)
LEMMA RemainingCount ==
  ASSUME CountExact, NEW h \in Hosts
  PROVE  /\ IsFiniteSet(Active \ Gone(h))
         /\ h \notin Active \ Gone(h)
         /\ Cardinality(Active \ Gone(h)) \in Nat
         /\ Cardinality(Active \ Gone(h)) = g_n_sessions - Cardinality(Gone(h))
<1>1. /\ IsFiniteSet(Active \ Gone(h))
      /\ Cardinality(Active \ Gone(h)) = Cardinality(Active) - Cardinality(Active \cap Gone(h))
  BY ActiveFinite, FS_Difference
<1>2. Active \cap Gone(h) = Gone(h)
  BY ActiveFinite
<1>3. Cardinality(Active \ Gone(h)) \in Nat
  BY <1>1, FS_CardinalityType
<1>4. h \notin Active \ Gone(h)
  BY DEF Gone
<1> QED
  BY <1>1, <1>2, <1>3, <1>4 DEF CountExact

(* host_session_delete removes exactly h's session.                        *)
LEMMA DeleteActive ==
  ASSUME TypeOK, NEW h \in Hosts, host_session_delete(h)
  PROVE  /\ TypeOK'
         /\ Active' = Active \ {h}
         /\ Expired' = Expired \ {h}
<1>1. session' = [session EXCEPT ![h] = NoSession]
  BY DEF host_session_delete
<1>2. TypeOK'
  BY <1>1 DEF TypeOK, host_session_delete
<1>3. Active' = Active \ {h}
  BY <1>1 DEF TypeOK, Active
<1>4. \A g \in Hosts \ {h} : session'[g] = session[g]
  BY <1>1 DEF TypeOK
<1> QED
  BY <1>2, <1>3, <1>4 DEF Expired, Active

(* host_session_add leaves the sessions in use and, if the counter admits  *)
(* it, the new one of h; none of them is expired.                          *)
LEMMA AddActive ==
  ASSUME TypeOK, NEW h \in Hosts, NEW service \in Services, NEW sid \in Sids,
         host_session_add(h, service, sid)
  PROVE  /\ TypeOK'
         /\ Active' = (Active \ Gone(h)) \cup (IF Admits(h) THEN {h} ELSE {})
         /\ Expired' = {}
<1> DEFINE new == [service |-> service, sid |-> sid, idle |-> 0]
<1>1. new \in Session /\ new # NoSession
  BY SessionTimeoutAssumption, NoSessionAssumption DEF Session
<1>2. session' = [g \in Hosts |-> SessionAfterAdd(g, h, service, sid)]
  BY DEF host_session_add
<1>3. \A g \in Hosts :
        session'[g] = IF g = h /\ Admits(h) THEN new
                      ELSE IF g \in Gone(h) THEN NoSession ELSE session[g]
  BY <1>2 DEF SessionAfterAdd
<1>4. session' \in [Hosts -> Session \cup {NoSession}]
  BY <1>1, <1>2, <1>3 DEF TypeOK
<1>5. Active' = (Active \ Gone(h)) \cup (IF Admits(h) THEN {h} ELSE {})
  BY <1>1, <1>3 DEF Active, Gone
<1>6. \A g \in Active' : session'[g].idle <= SessionTimeout
  <2> SUFFICES ASSUME NEW g \in Active'
               PROVE  session'[g].idle <= SessionTimeout
    OBVIOUS
  <2>1. CASE g = h /\ Admits(h)
    BY <2>1, <1>3, SessionTimeoutAssumption
  <2>2. CASE ~(g = h /\ Admits(h))
    <3>1. g \in Active \ Gone(h)
      BY <2>2, <1>5
    <3>2. session'[g] = session[g] /\ session[g] \in Session
      BY <3>1, <2>2, <1>3 DEF Active, TypeOK
    <3>3. ~(session[g].idle > SessionTimeout)
      BY <3>1 DEF Gone, Expired
    <3> QED
      BY <3>2, <3>3, SessionTimeoutAssumption DEF Session
  <2> QED
    BY <2>1, <2>2
<1>7. Expired' = {}
  <2>1. \A g \in Active' : session'[g].idle \in Int
    BY <1>4 DEF Active, Session
  <2> QED
    BY <2>1, <1>6, SessionTimeoutAssumption DEF Expired
<1>8. g_n_sessions' \in Int
  BY ActiveFinite DEF TypeOK, host_session_add
<1> QED
  BY <1>4, <1>5, <1>7, <1>8 DEF TypeOK

(* A packet of an active session and the clock change neither the counter  *)
(* nor the set of active hosts.                                            *)
LEMMA CheckActive ==
  ASSUME TypeOK, NEW h \in Hosts, NEW service \in Services, NEW sid \in Sids,
         host_session_check(h, service, sid)
  PROVE  /\ TypeOK'
         /\ UNCHANGED <<g_n_sessions, Active>>
         /\ \/ UNCHANGED session
            \/ h \in Active /\ Expired' = Expired \ {h}
<1>1. CASE CheckResult(h, service, sid) # E_NOERROR
  <2>1. UNCHANGED <<session, g_n_sessions>>
    BY <1>1 DEF host_session_check
  <2> QED
    BY <2>1 DEF TypeOK, Active
<1>2. CASE CheckResult(h, service, sid) = E_NOERROR
  <2>1. h \in Active /\ session[h] \in Session
    BY <1>2 DEF CheckResult, E_NOERROR, E_NOSESSION, Active, TypeOK
  <2>2. session' = [session EXCEPT ![h].idle = 0] /\ UNCHANGED g_n_sessions
    BY <1>2 DEF host_session_check
  <2>3. /\ session'[h] \in Session
        /\ session'[h].idle = 0
        /\ \A g \in Hosts \ {h} : session'[g] = session[g]
    BY <2>1, <2>2, SessionTimeoutAssumption DEF TypeOK, Session
  <2>4. TypeOK'
    BY <2>2, <2>3 DEF TypeOK
  <2>5. Active' = Active
    BY <2>1, <2>3, NoSessionAssumption DEF Active
  <2>6. Expired' = Expired \ {h}
    BY <2>1, <2>3, <2>5, SessionTimeoutAssumption DEF Expired, Active
  <2> QED
    BY <2>1, <2>2, <2>4, <2>5, <2>6
<1> QED
  BY <1>1, <1>2

LEMMA TickActive ==
  ASSUME TypeOK, Tick
  PROVE  /\ TypeOK'
         /\ UNCHANGED <<g_n_sessions, Active>>
         /\ Expired \subseteq Expired'
<1>1. /\ UNCHANGED g_n_sessions
      /\ session' = [h \in Hosts |-> IF h \in Active \ Expired
                                     THEN [session[h] EXCEPT !.idle = @ + 1]
                                     ELSE session[h]]
  BY DEF Tick
<1>2. ASSUME NEW h \in Active \ Expired
      PROVE  session'[h] \in Session
  <2>1. session[h] \in Session /\ ~(session[h].idle > SessionTimeout)
    BY <1>2 DEF Active, Expired, TypeOK
  <2>2. session'[h] = [session[h] EXCEPT !.idle = @ + 1]
    BY <1>1, <1>2 DEF Active
  <2> QED
    BY <2>1, <2>2, SessionTimeoutAssumption DEF Session
<1>3. \A h \in Hosts : h \notin Active \ Expired => session'[h] = session[h]
  BY <1>1
<1>4. TypeOK'
  BY <1>1, <1>2, <1>3 DEF TypeOK
<1>5. Active' = Active
  BY <1>2, <1>3, NoSessionAssumption DEF Active
<1>6. Expired \subseteq Expired'
  <2>1. Active \subseteq Hosts
    BY DEF Active
  <2> QED
    BY <2>1, <1>3, <1>5 DEF Expired
<1> QED
  BY <1>1, <1>4, <1>5, <1>6

----------------------------------------------------------------------------
(* The inductive step: one case per operation on the table.                *)
LEMMA IInvStep == IInv /\ [SessionNext]_sessionVars => IInv'
<1> SUFFICES ASSUME IInv, [SessionNext]_sessionVars
             PROVE  IInv'
  OBVIOUS
<1>a. TypeOK /\ CountExact /\ SessionLimit
  BY DEF IInv
<1>1. ASSUME NEW h \in Hosts, Close(h)
      PROVE  IInv'
  <2>1. host_session_delete(h)
    BY <1>1 DEF Close
  <2>2. TypeOK' /\ Active' = Active \ {h}
    BY <1>a, <2>1, DeleteActive
  <2>3. Cardinality(Active \ {h}) = IF h \in Active THEN Cardinality(Active) - 1
                                    ELSE Cardinality(Active)
    BY ActiveFinite, FS_RemoveElement
  <2>4. CountExact'
    BY <1>a, <2>1, <2>2, <2>3 DEF CountExact, host_session_delete
  <2>5. SessionLimit'
    BY <1>a, <2>2, <2>3, ActiveFinite, SessionMaxAssumption DEF SessionLimit
  <2> QED
    BY <2>2, <2>4, <2>5 DEF IInv
<1>2. ASSUME NEW h \in Hosts, Open(h)
      PROVE  IInv'
  <2>1. PICK service \in Services, sid \in Sids : host_session_add(h, service, sid)
    BY <1>2 DEF Open
  <2> DEFINE Remaining == Active \ Gone(h)
  <2>2. TypeOK' /\ Active' = Remaining \cup (IF Admits(h) THEN {h} ELSE {})
    BY <1>a, <2>1, AddActive
  <2>3. /\ IsFiniteSet(Remaining)
        /\ h \notin Remaining
        /\ Cardinality(Remaining) \in Nat
        /\ Cardinality(Gone(h)) \in Nat
        /\ Cardinality(Remaining) = g_n_sessions - Cardinality(Gone(h))
    BY <1>a, RemainingCount, ActiveFinite
  <2>4. Cardinality(Active') = Cardinality(Remaining) + (IF Admits(h) THEN 1 ELSE 0)
    <3>1. Cardinality(Remaining \cup {h}) = Cardinality(Remaining) + 1
      BY <2>3, FS_AddElement
    <3>2. CASE Admits(h)
      <4>1. Active' = Remaining \cup {h}
        BY <2>2, <3>2
      <4> QED
        BY <3>1, <3>2, <4>1
    <3>3. CASE ~Admits(h)
      <4>1. Active' = Remaining
        BY <2>2, <3>3
      <4> QED
        BY <2>3, <3>3, <4>1
    <3> QED
      BY <3>2, <3>3
  <2>5. CountExact'
    BY <2>1, <2>3, <2>4 DEF CountExact, host_session_add
  <2>6. SessionLimit'
    <3>1. CASE Admits(h)
      BY <3>1, <2>3, <2>4, SessionMaxAssumption DEF Admits, SessionLimit
    <3>2. CASE ~Admits(h)
      <4>1. Active' = Remaining /\ Cardinality(Remaining) <= Cardinality(Active)
        BY <3>2, <2>2, ActiveFinite, FS_Subset
      <4> QED
        BY <4>1, <1>a, <2>3, ActiveFinite, SessionMaxAssumption DEF SessionLimit
    <3> QED
      BY <3>1, <3>2
  <2> QED
    BY <2>2, <2>5, <2>6 DEF IInv
<1>3. ASSUME NEW h \in Hosts, Continue(h)
      PROVE  IInv'
  <2>1. PICK service \in Services, sid \in Sids : host_session_check(h, service, sid)
    BY <1>3 DEF Continue
  <2>2. TypeOK' /\ UNCHANGED <<g_n_sessions, Active>>
    BY <1>a, <2>1, CheckActive
  <2> QED
    BY <1>a, <2>2 DEF IInv, CountExact, SessionLimit
<1>4. CASE Tick
  <2>1. TypeOK' /\ UNCHANGED <<g_n_sessions, Active>>
    BY <1>a, <1>4, TickActive
  <2> QED
    BY <1>a, <2>1 DEF IInv, CountExact, SessionLimit
<1>5. CASE UNCHANGED sessionVars
  BY <1>5 DEF sessionVars, IInv, TypeOK, CountExact, SessionLimit, Active
<1> QED
  BY <1>1, <1>2, <1>3, <1>4, <1>5 DEF SessionNext

LEMMA IInvInit == SessionInit => IInv
<1> SUFFICES ASSUME SessionInit PROVE IInv
  OBVIOUS
<1>1. TypeOK /\ Active = {} /\ g_n_sessions = 0
  BY DEF SessionInit, TypeOK, Active
<1> QED
  BY <1>1, FS_EmptySet DEF IInv, CountExact, SessionLimit

LEMMA IInvAlways == SessionSpec => []IInv
BY IInvInit, IInvStep, PTL DEF SessionSpec

(* The session table keeps its type.                                       *)
THEOREM TypeCorrect == SessionSpec => []TypeOK
<1>1. IInv => TypeOK
  BY DEF IInv
<1> QED
  BY <1>1, IInvAlways, PTL

(* g_n_sessions, which host_session_add and host_session_delete maintain   *)
(* by hand, is always the number of sessions in the table.                 *)
THEOREM CounterCorrect == SessionSpec => []CountExact
<1>1. IInv => CountExact
  BY DEF IInv
<1> QED
  BY <1>1, IInvAlways, PTL

(* No sequence of requests, packets and timeouts makes more than           *)
(* session_max hosts boot at once.                                         *)
THEOREM LimitKept == SessionSpec => []SessionLimit
<1>1. IInv => SessionLimit
  BY DEF IInv
<1> QED
  BY <1>1, IInvAlways, PTL

----------------------------------------------------------------------------
(* The abstract pool counts with its own instance of FiniteSets.           *)
LEMMA PoolCardinality == \A S : Pool!Cardinality(S) = Cardinality(S)
BY DEF Pool!Cardinality, Cardinality, Pool!IsFiniteSet, IsFiniteSet

(* Every operation on the table is an operation of the abstract pool.      *)
LEMMA PoolStep == IInv /\ [SessionNext]_sessionVars => [Pool!Next]_(Pool!vars)
<1> SUFFICES ASSUME IInv, [SessionNext]_sessionVars
             PROVE  [Pool!Next]_(Pool!vars)
  OBVIOUS
<1>a. TypeOK /\ CountExact
  BY DEF IInv
<1>1. ASSUME NEW h \in Hosts, Close(h)
      PROVE  Pool!End(h)
  BY <1>a, <1>1, DeleteActive DEF Close, Pool!End
<1>2. ASSUME NEW h \in Hosts, Open(h)
      PROVE  Pool!Admit(h) \/ Pool!Refuse(h)
  <2>1. PICK service \in Services, sid \in Sids : host_session_add(h, service, sid)
    BY <1>2 DEF Open
  <2>2. /\ Active' = (Active \ Gone(h)) \cup (IF Admits(h) THEN {h} ELSE {})
        /\ Expired' = {}
    BY <1>a, <2>1, AddActive
  <2>3. Pool!InUse(h) = Active \ Gone(h)
    BY DEF Pool!InUse, Gone
  <2>4. /\ Pool!Cardinality(Pool!InUse(h)) \in Int
        /\ Admits(h) <=> Pool!Cardinality(Pool!InUse(h)) < SessionMax
    BY <1>a, <2>3, RemainingCount, PoolCardinality DEF Admits
  <2>5. CASE Admits(h)
    BY <2>2, <2>3, <2>4, <2>5 DEF Pool!Admit
  <2>6. CASE ~Admits(h)
    BY <2>2, <2>3, <2>4, <2>6, SessionMaxAssumption DEF Pool!Refuse
  <2> QED
    BY <2>5, <2>6
<1>3. ASSUME NEW h \in Hosts, Continue(h)
      PROVE  Pool!Touch(h) \/ UNCHANGED Pool!vars
  <2>1. PICK service \in Services, sid \in Sids : host_session_check(h, service, sid)
    BY <1>3 DEF Continue
  <2>2. CASE UNCHANGED session
    BY <2>2 DEF Pool!vars, Active, Expired
  <2>3. CASE h \in Active /\ Expired' = Expired \ {h}
    BY <2>3, <1>a, <2>1, CheckActive DEF Pool!Touch
  <2> QED
    BY <1>a, <2>1, <2>2, <2>3, CheckActive
<1>4. CASE Tick
  <2>1. UNCHANGED Active /\ Expired \subseteq Expired'
    BY <1>a, <1>4, TickActive
  <2>2. Expired' \subseteq Active'
    BY DEF Expired
  <2> QED
    BY <2>1, <2>2 DEF Pool!Next, Pool!Age
<1>5. CASE UNCHANGED sessionVars
  BY <1>5 DEF sessionVars, Pool!vars, Active, Expired
<1> QED
  BY <1>1, <1>2, <1>3, <1>4, <1>5 DEF SessionNext, Pool!Next

(* bootd's table, with its counter and its idle times, implements the      *)
(* abstract pool: only idle sessions are evicted, and a request is refused *)
(* only while session_max other hosts are using theirs.                    *)
THEOREM PoolImplemented == SessionSpec => PoolRefinement
<1>1. SessionInit => Pool!Init
  <2> SUFFICES ASSUME SessionInit PROVE Active = {}
    BY DEF Pool!Init, Expired
  <2> QED
    BY DEF SessionInit, Active
<1> QED
  BY <1>1, PoolStep, IInvAlways, PTL DEF SessionSpec, PoolRefinement, Pool!Spec
=============================================================================
