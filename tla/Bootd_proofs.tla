----------------------------- MODULE Bootd_proofs -----------------------------
(***************************************************************************)
(* Proofs about the services that keep sessions on one host table (modules *)
(* HostTable, LinkServices and Bootd), for any configuration, stations,    *)
(* ports and limits.                                                       *)
(***************************************************************************)
EXTENDS Bootd, SequenceTheorems, FiniteSetTheorems, WellFoundedInduction, TLAPS

----------------------------------------------------------------------------
(* The natural numbers: least elements, and induction over a set.          *)
LEMMA Smallest ==
  ASSUME NEW T \in SUBSET Nat, T # {}
  PROVE  \E k \in T : \A j \in T : k <= j
<1>1. PICK k \in T : \A j \in T : ~(<<j, k>> \in OpToRel(<, Nat))
  BY NatLessThanWellFounded, WFMin
<1>2. \A j \in T : <<j, k>> \in OpToRel(<, Nat) <=> j < k
  BY DEF OpToRel
<1>3. \A j \in T : ~(j < k)
  BY ONLY <1>1, <1>2
<1>4. \A j \in T : k <= j
  BY ONLY <1>3, T \in SUBSET Nat, k \in T
<1> QED
  BY <1>4

----------------------------------------------------------------------------
(* Tables as the handlers pass them on: pointers lead to hosts there are,  *)
(* and every session has its file.                                         *)
Statuses == {"running", "exited", "killed", "hung", "undefined"}
Hosts == [name : Names, eth : Ethers, services : SUBSET Services,
          session : SessPtrs \cup {Null}, next : Nat]
OpenSessions == [service : Services, sid : 0 .. MaxSid, fd : Source,
                 idle : 0 .. SessionTimeout + 1, owner : Ethers]

Tables == [hosts : Seq(Hosts), g_hosts : Nat, sess : [SessPtrs -> Sessions \cup {Free}],
           g_n_sessions : Int, status : Statuses]

Linked(t) ==
    /\ t.g_hosts <= Len(t.hosts)
    /\ \A h \in DOMAIN t.hosts : t.hosts[h].next <= Len(t.hosts)

WithFiles(t) == \A s \in SessPtrs : t.sess[s] # Free => t.sess[s].fd \in Source

Live(t) == {s \in SessPtrs : t.sess[s] # Free}
Counted(t) == Running(t) => t.g_n_sessions = Cardinality(Live(t))

(* One predicate for all of them, for tables that no step has left yet.    *)
Sound(t) == t \in Tables /\ Linked(t) /\ WithFiles(t) /\ Counted(t)

LEMMA TableFacts ==
  ASSUME NEW t \in Tables
  PROVE  /\ t.hosts \in Seq(Hosts) /\ Len(t.hosts) \in Nat
         /\ DOMAIN t.hosts = 1 .. Len(t.hosts)
         /\ \A h \in DOMAIN t.hosts : t.hosts[h] \in Hosts
         /\ t.sess \in [SessPtrs -> Sessions \cup {Free}] /\ t.g_n_sessions \in Int
         /\ \A h \in DOMAIN t.hosts : HasSession(t, h) => t.hosts[h].session \in SessPtrs
<1>1. /\ t.hosts \in Seq(Hosts) /\ t.g_n_sessions \in Int
      /\ t.sess \in [SessPtrs -> Sessions \cup {Free}]
  BY DEF Tables
<1>2. Len(t.hosts) \in Nat /\ DOMAIN t.hosts = 1 .. Len(t.hosts)
  BY <1>1, LenProperties
<1>3. \A h \in DOMAIN t.hosts : t.hosts[h] \in Hosts
  BY <1>1, <1>2, ElementOfSeq
<1> QED
  BY <1>1, <1>2, <1>3 DEF Hosts, HasSession

LEMMA StopSound ==
  ASSUME NEW t, Sound(t), NEW status \in Statuses \ {"running"}
  PROVE  Sound(Stop(t, status)) /\ ~Running(Stop(t, status))
BY DEF Sound, Stop, Tables, Linked, WithFiles, Counted, Running, Statuses

LEMMA LiveFinite ==
  ASSUME NEW t
  PROVE  IsFiniteSet(Live(t)) /\ Cardinality(Live(t)) \in Nat /\ IsFiniteSet(SessPtrs)
         /\ Cardinality(SessPtrs) = SessionMax + 1
<1>1. IsFiniteSet(SessPtrs) /\ Cardinality(SessPtrs) = SessionMax + 1
  BY FS_Interval, TableAssumption DEF SessPtrs
<1>2. Live(t) \in SUBSET SessPtrs
  BY DEF Live
<1> QED
  BY <1>1, <1>2, FS_Subset, FS_CardinalityType

----------------------------------------------------------------------------
(* What the deletion of a session and the walk of the timeouts do: the     *)
(* sessions of the hosts H are freed.                                      *)
PtrsOf(t, H) == {t.hosts[h].session : h \in H}

Cleared(t, H) ==
    [t EXCEPT
       !.hosts = [h \in DOMAIN t.hosts |-> IF h \in H
                     THEN [t.hosts[h] EXCEPT !.session = Null] ELSE t.hosts[h]],
       !.sess = [s \in SessPtrs |-> IF s \in PtrsOf(t, H) THEN Free ELSE t.sess[s]],
       !.g_n_sessions = @ - Cardinality(PtrsOf(t, H))]

Clearable(t, H) ==
    /\ H \subseteq DOMAIN t.hosts
    /\ \A h \in H : HasSession(t, h) /\ ~Dangling(t, h)

LEMMA DeleteIs ==
  ASSUME NEW t \in Tables, NEW h \in DOMAIN t.hosts
  PROVE  \/ ~HasSession(t, h) /\ host_session_delete(t, h) = t
         \/ host_session_delete(t, h) = Stop(t, "undefined") /\ Dangling(t, h)
         \/ host_session_delete(t, h) = Cleared(t, {h}) /\ Clearable(t, {h})
<1>1. SUFFICES ASSUME HasSession(t, h), ~Dangling(t, h)
               PROVE  host_session_delete(t, h) = Cleared(t, {h}) /\ Clearable(t, {h})
  BY DEF host_session_delete
<1> DEFINE p == t.hosts[h].session
<1>2. PtrsOf(t, {h}) = {p} /\ Cardinality({p}) = 1
  BY FS_Singleton DEF PtrsOf
<1>3. p \in SessPtrs /\ DOMAIN t.sess = SessPtrs
  BY <1>1, TableFacts
<1>4. host_session_delete(t, h) =
        [t EXCEPT !.sess[p] = Free, !.hosts[h].session = Null, !.g_n_sessions = @ - 1]
  BY <1>1 DEF host_session_delete
<1>5. [t.sess EXCEPT ![p] = Free] = [s \in SessPtrs |-> IF s \in {p} THEN Free ELSE t.sess[s]]
  BY <1>3, TableFacts
<1>6. [t.hosts EXCEPT ![h].session = Null] =
         [g \in DOMAIN t.hosts |-> IF g \in {h} THEN [t.hosts[g] EXCEPT !.session = Null]
                                   ELSE t.hosts[g]]
  BY TableFacts
<1> QED
  BY <1>1, <1>2, <1>4, <1>5, <1>6 DEF Cleared, Clearable

LEMMA TimeoutIs ==
  ASSUME NEW t \in Tables
  PROVE  LET all == util_host_session_timeout_all(t)
         IN  \/ /\ all = Stop(t, "undefined")
                /\ \/ \E h \in DOMAIN t.hosts : Dangling(t, h)
                   \/ \E g, h \in DOMAIN t.hosts :
                         g # h /\ HasSession(t, h) /\ t.hosts[g].session = t.hosts[h].session
             \/ \E H : /\ Clearable(t, H) /\ \A h \in H : TimedOut(t, h)
                       /\ all \in {Cleared(t, H), Stop(Cleared(t, H), "hung")}
<1> DEFINE old == {h \in Listed(t) : TimedOut(t, h)}
<1>1. Listed(t) \subseteq DOMAIN t.hosts
  BY DEF Listed
<1>2. \A h \in old : HasSession(t, h) /\ h \in DOMAIN t.hosts /\ TimedOut(t, h)
  BY <1>1 DEF TimedOut
<1>3. CASE \/ \E h \in Listed(t) : Dangling(t, h)
           \/ \E g, h \in old : g # h /\ t.hosts[g].session = t.hosts[h].session
  <2>1. util_host_session_timeout_all(t) = Stop(t, "undefined")
    BY <1>3 DEF util_host_session_timeout_all
  <2> QED
    BY <1>1, <1>2, <1>3, <2>1
<1>4. CASE ~(\/ \E h \in Listed(t) : Dangling(t, h)
             \/ \E g, h \in old : g # h /\ t.hosts[g].session = t.hosts[h].session)
  <2>1. util_host_session_timeout_all(t) \in {Cleared(t, old), Stop(Cleared(t, old), "hung")}
    BY <1>4 DEF util_host_session_timeout_all, Cleared, PtrsOf
  <2>2. Clearable(t, old)
    BY <1>1, <1>2, <1>4 DEF Clearable
  <2> QED
    BY <1>2, <2>1, <2>2
<1> QED
  BY <1>3, <1>4

LEMMA ClearedSound ==
  ASSUME NEW t, Sound(t), NEW H, Clearable(t, H)
  PROVE  /\ Sound(Cleared(t, H))
         /\ DOMAIN Cleared(t, H).hosts = DOMAIN t.hosts
         /\ Len(Cleared(t, H).hosts) = Len(t.hosts)
<1> DEFINE u == Cleared(t, H)
           P == PtrsOf(t, H)
<1>1. t \in Tables /\ Linked(t) /\ WithFiles(t) /\ Counted(t)
  BY DEF Sound
<1>2. P \subseteq Live(t) /\ P \subseteq SessPtrs
  BY <1>1, TableFacts DEF PtrsOf, Clearable, Live, Dangling, SessionOf
<1>3. IsFiniteSet(P) /\ Cardinality(P) \in Nat
  BY <1>2, LiveFinite, FS_Subset, FS_CardinalityType
<1>4. /\ DOMAIN t.hosts = 1 .. Len(t.hosts) /\ Len(t.hosts) \in Nat
      /\ \A h \in DOMAIN t.hosts : t.hosts[h] \in Hosts
      /\ t.sess \in [SessPtrs -> Sessions \cup {Free}] /\ t.g_n_sessions \in Int
  BY <1>1, TableFacts
<1> HIDE DEF P
<1> DEFINE cleared(h) == [t.hosts[h] EXCEPT !.session = Null]
           hosts == [h \in DOMAIN t.hosts |-> IF h \in H THEN cleared(h) ELSE t.hosts[h]]
           sess == [s \in SessPtrs |-> IF s \in P THEN Free ELSE t.sess[s]]
<1>5. \A h \in DOMAIN t.hosts : cleared(h) \in Hosts /\ cleared(h).next = t.hosts[h].next
  BY <1>4 DEF Hosts
<1>6. u = [t EXCEPT !.hosts = hosts, !.sess = sess, !.g_n_sessions = @ - Cardinality(P)]
  BY DEF Cleared, P
<1> HIDE DEF cleared
<1>7. hosts \in Seq(Hosts) /\ Len(hosts) = Len(t.hosts) /\ DOMAIN hosts = DOMAIN t.hosts
      /\ \A h \in DOMAIN t.hosts : hosts[h].next = t.hosts[h].next
  <2>1. hosts \in [1 .. Len(t.hosts) -> Hosts]
    BY <1>4, <1>5
  <2> QED
    BY <1>4, <1>5, <2>1
<1>8. sess \in [SessPtrs -> Sessions \cup {Free}]
  BY <1>4
<1>9. /\ u \in Tables /\ u.hosts = hosts /\ u.sess = sess
      /\ u.g_n_sessions = t.g_n_sessions - Cardinality(P)
      /\ u.g_hosts = t.g_hosts /\ u.status = t.status
  <2> DEFINE n == t.g_n_sessions - Cardinality(P)
  <2>1. n \in Int
    BY <1>3, <1>4
  <2>2. u = [t EXCEPT !.hosts = hosts, !.sess = sess, !.g_n_sessions = n]
    BY <1>6
  <2> HIDE DEF hosts, sess, u, n
  <2>3. /\ u \in Tables /\ u.hosts = hosts /\ u.sess = sess /\ u.g_n_sessions = n
        /\ u.g_hosts = t.g_hosts /\ u.status = t.status
    BY <1>1, <1>7, <1>8, <2>1, <2>2 DEF Tables
  <2> QED
    BY <2>3 DEF n
<1> HIDE DEF u, hosts
<1>10. Linked(u)
  BY <1>1, <1>7, <1>9 DEF Linked
<1>11. WithFiles(u)
  BY <1>1, <1>9 DEF WithFiles
<1>12. Cardinality(Live(u)) = Cardinality(Live(t)) - Cardinality(P)
  <2>1. Live(u) \cup P = Live(t) /\ Live(u) \cap P = {}
    BY <1>2, <1>9 DEF Live
  <2>2. Cardinality(Live(u) \cup P) = Cardinality(Live(u)) + Cardinality(P) - Cardinality({})
    BY <1>3, <2>1, LiveFinite, FS_Union
  <2> QED
    BY <1>3, <2>1, <2>2, LiveFinite, FS_EmptySet
<1>13. Counted(u)
  <2>1. t.g_n_sessions \in Int /\ Cardinality(Live(t)) \in Nat
    BY <1>4, LiveFinite
  <2> QED
    BY <1>1, <1>3, <1>9, <1>12, <2>1 DEF Counted, Running
<1> QED
  BY <1>7, <1>9, <1>10, <1>11, <1>13 DEF Sound, u

LEMMA DeleteSound ==
  ASSUME NEW t, Sound(t), NEW h \in DOMAIN t.hosts
  PROVE  LET u == host_session_delete(t, h)
         IN  /\ Sound(u) /\ DOMAIN u.hosts = DOMAIN t.hosts /\ Len(u.hosts) = Len(t.hosts)
             /\ u.status \in {t.status, "undefined"}
             /\ Running(u) => u.hosts[h].session = Null
<1> DEFINE u == host_session_delete(t, h)
<1>1. t \in Tables
  BY DEF Sound
<1>2. CASE ~HasSession(t, h) /\ u = t
  BY <1>2 DEF HasSession
<1>3. CASE u = Stop(t, "undefined")
  <2>1. Sound(u) /\ ~Running(u)
    BY <1>3, StopSound DEF Statuses
  <2>2. u.hosts = t.hosts /\ u.status = "undefined"
    BY <1>1, <1>3 DEF Stop, Tables
  <2> QED
    BY <2>1, <2>2
<1>4. CASE u = Cleared(t, {h}) /\ Clearable(t, {h})
  <2>1. Sound(u) /\ DOMAIN u.hosts = DOMAIN t.hosts /\ Len(u.hosts) = Len(t.hosts)
    BY <1>4, ClearedSound
  <2>2. t.hosts[h] \in Hosts
    BY <1>1, TableFacts
  <2>3. u.status = t.status /\ u.hosts[h] = [t.hosts[h] EXCEPT !.session = Null]
    BY <1>1, <1>4 DEF Cleared, Tables
  <2>4. u.hosts[h].session = Null
    BY <2>2, <2>3 DEF Hosts
  <2> QED
    BY <2>1, <2>3, <2>4
<1> HIDE DEF u
<1>5. /\ Sound(u) /\ DOMAIN u.hosts = DOMAIN t.hosts /\ Len(u.hosts) = Len(t.hosts)
      /\ u.status \in {t.status, "undefined"}
      /\ Running(u) => u.hosts[h].session = Null
  BY <1>1, <1>2, <1>3, <1>4, DeleteIs DEF u
<1> QED
  BY <1>5 DEF u

LEMMA TimeoutSound ==
  ASSUME NEW t, Sound(t)
  PROVE  LET u == util_host_session_timeout_all(t)
         IN  Sound(u) /\ DOMAIN u.hosts = DOMAIN t.hosts /\ Len(u.hosts) = Len(t.hosts)
<1> DEFINE u == util_host_session_timeout_all(t)
<1>1. t \in Tables
  BY DEF Sound
<1>2. CASE u = Stop(t, "undefined")
  <2>1. Sound(u)
    BY <1>2, StopSound DEF Statuses
  <2>2. u.hosts = t.hosts
    BY <1>1, <1>2 DEF Stop, Tables
  <2> QED
    BY <2>1, <2>2
<1>3. CASE \E H : Clearable(t, H) /\ u \in {Cleared(t, H), Stop(Cleared(t, H), "hung")}
  <2>1. PICK H : Clearable(t, H) /\ u \in {Cleared(t, H), Stop(Cleared(t, H), "hung")}
    BY <1>3
  <2> DEFINE c == Cleared(t, H)
  <2>2. Sound(c) /\ DOMAIN c.hosts = DOMAIN t.hosts /\ Len(c.hosts) = Len(t.hosts)
    BY <2>1, ClearedSound
  <2> HIDE DEF c
  <2>3. Sound(Stop(c, "hung")) /\ Stop(c, "hung").hosts = c.hosts
    BY <2>2, StopSound DEF Statuses, Stop, Sound, Tables
  <2> QED
    BY <2>1, <2>2, <2>3 DEF c
<1> HIDE DEF u
<1>4. Sound(u) /\ DOMAIN u.hosts = DOMAIN t.hosts /\ Len(u.hosts) = Len(t.hosts)
  BY <1>1, <1>2, <1>3, TimeoutIs DEF u
<1> QED
  BY <1>4 DEF u

----------------------------------------------------------------------------
(* A new session for host h: the old ones make room, then malloc returns   *)
(* memory that is free, since the limit is not reached.                    *)
Emptied(t, h) ==
    LET fresh == util_host_session_timeout_all(t)
    IN  IF Running(fresh) THEN host_session_delete(fresh, h) ELSE fresh

WithNew(t, h, s, new) ==
    [t EXCEPT !.sess[s] = new, !.hosts[h].session = s, !.g_n_sessions = @ + 1]

LEMMA EmptiedSound ==
  ASSUME NEW t, Sound(t), NEW h \in DOMAIN t.hosts
  PROVE  LET old == Emptied(t, h)
         IN  /\ Sound(old) /\ DOMAIN old.hosts = DOMAIN t.hosts /\ Len(old.hosts) = Len(t.hosts)
             /\ Running(old) => old.hosts[h].session = Null
<1> DEFINE fresh == util_host_session_timeout_all(t)
           old == Emptied(t, h)
<1>1. Sound(fresh) /\ DOMAIN fresh.hosts = DOMAIN t.hosts /\ Len(fresh.hosts) = Len(t.hosts)
  BY TimeoutSound
<1>2. old = IF Running(fresh) THEN host_session_delete(fresh, h) ELSE fresh
  BY DEF Emptied
<1> HIDE DEF fresh, old
<1>3. /\ Sound(old) /\ DOMAIN old.hosts = DOMAIN t.hosts /\ Len(old.hosts) = Len(t.hosts)
      /\ Running(old) => old.hosts[h].session = Null
  BY <1>1, <1>2, DeleteSound
<1> QED
  BY <1>3 DEF old

LEMMA FreeMemory ==
  ASSUME NEW t, Sound(t), Running(t), t.g_n_sessions < SessionMax
  PROVE  SomeFree(t) \in SessPtrs /\ t.sess[SomeFree(t)] = Free
<1>1. \E s \in SessPtrs : t.sess[s] = Free
  <2>1. SUFFICES ASSUME \A s \in SessPtrs : t.sess[s] # Free PROVE FALSE
    OBVIOUS
  <2>2. Live(t) = SessPtrs
    BY <2>1 DEF Live
  <2>3. t.g_n_sessions = SessionMax + 1
    BY <2>2, LiveFinite DEF Sound, Counted
  <2> QED
    BY <2>3, TableAssumption
<1> QED
  BY <1>1 DEF SomeFree

LEMMA AddIs ==
  ASSUME NEW t, Sound(t), NEW h \in DOMAIN t.hosts, NEW new
  PROVE  LET old == Emptied(t, h)
             added == host_session_add(t, h, new)
         IN  \/ added = old /\ (~Running(old) \/ old.hosts[h].session = Null)
             \/ /\ Running(old) /\ old.hosts[h].session = Null
                /\ \E s \in SessPtrs : old.sess[s] = Free /\ added = WithNew(old, h, s, new)
<1> DEFINE old == Emptied(t, h)
           added == host_session_add(t, h, new)
           s == SomeFree(old)
<1>1. added = IF Running(old) /\ old.g_n_sessions < SessionMax
              THEN WithNew(old, h, s, new) ELSE old
  BY DEF host_session_add, Emptied, WithNew
<1>2. Sound(old) /\ (Running(old) => old.hosts[h].session = Null)
  BY EmptiedSound
<1>3. Running(old) /\ old.g_n_sessions < SessionMax => s \in SessPtrs /\ old.sess[s] = Free
  BY <1>2, FreeMemory
<1> HIDE DEF old, added, s
<1>4. \/ added = old /\ (~Running(old) \/ old.hosts[h].session = Null)
      \/ /\ Running(old) /\ old.hosts[h].session = Null
         /\ \E p \in SessPtrs : old.sess[p] = Free /\ added = WithNew(old, h, p, new)
  BY <1>1, <1>2, <1>3
<1> QED
  BY <1>4 DEF old, added

(* The file of a new session: the table is sound again, with one more.     *)
Opened(t, h, s, new, file) == [WithNew(t, h, s, new) EXCEPT !.sess[s].fd = file]

NewSessions == [service : Services, sid : 0 .. MaxSid, fd : {"none"}, idle : {0}, owner : Ethers]

LEMMA OpenedSound ==
  ASSUME NEW t, Sound(t), NEW h \in DOMAIN t.hosts, NEW s \in SessPtrs, t.sess[s] = Free,
         NEW new \in NewSessions, NEW file \in Source
  PROVE  LET u == Opened(t, h, s, new, file)
         IN  Sound(u) /\ DOMAIN u.hosts = DOMAIN t.hosts /\ Len(u.hosts) = Len(t.hosts)
<1> DEFINE u == Opened(t, h, s, new, file)
           ses == [new EXCEPT !.fd = file]
<1>1. t \in Tables /\ Linked(t) /\ WithFiles(t) /\ Counted(t)
  BY DEF Sound
<1>2. /\ t.hosts \in Seq(Hosts) /\ Len(t.hosts) \in Nat /\ DOMAIN t.hosts = 1 .. Len(t.hosts)
      /\ \A g \in DOMAIN t.hosts : t.hosts[g] \in Hosts
      /\ t.sess \in [SessPtrs -> Sessions \cup {Free}] /\ t.g_n_sessions \in Int
  BY <1>1, TableFacts
<1>3. ses \in Sessions /\ ses.fd \in Source /\ ses # Free
  BY FreeAssumption, TableAssumption DEF NewSessions, Sessions
<1> HIDE DEF ses
<1>4. /\ u.hosts = [t.hosts EXCEPT ![h].session = s]
      /\ u.sess = [t.sess EXCEPT ![s] = ses]
      /\ u.g_n_sessions = t.g_n_sessions + 1
      /\ u.g_hosts = t.g_hosts /\ u.status = t.status
      /\ u.hosts \in Seq(Hosts) /\ u.sess \in [SessPtrs -> Sessions \cup {Free}] =>
            u \in Tables
  <2> DEFINE hosts == [t.hosts EXCEPT ![h].session = s]
             sess == [t.sess EXCEPT ![s] = new]
             n == t.g_n_sessions + 1
             w == WithNew(t, h, s, new)
             with == [sess EXCEPT ![s].fd = file]
  <2>1. w = [t EXCEPT !.hosts = hosts, !.sess = sess, !.g_n_sessions = n]
    BY DEF WithNew, Tables
  <2>2. with = [t.sess EXCEPT ![s] = ses]
    BY <1>2 DEF ses
  <2>3. u = [w EXCEPT !.sess[s].fd = file]
    BY DEF Opened
  <2> HIDE DEF w, u
  <2>4. w.sess = sess /\ [w.sess EXCEPT ![s].fd = file] = with
    BY <1>1, <2>1 DEF Tables
  <2> HIDE DEF hosts, sess, n, with
  <2>5. u = [w EXCEPT !.sess = with]
    BY <2>3, <2>4
  <2>6. u = [t EXCEPT !.hosts = hosts, !.sess = with, !.g_n_sessions = n]
    BY <1>1, <2>1, <2>5 DEF Tables
  <2>7. /\ u.hosts = hosts /\ u.sess = with /\ u.g_n_sessions = n
        /\ u.g_hosts = t.g_hosts /\ u.status = t.status
    BY <1>1, <2>6 DEF Tables
  <2>8. u.hosts \in Seq(Hosts) /\ u.sess \in [SessPtrs -> Sessions \cup {Free}] =>
            u \in Tables
    <3>1. n \in Int
      BY <1>2 DEF n
    <3> QED
      BY <1>1, <2>6, <2>7, <3>1 DEF Tables
  <2> QED
    BY <2>2, <2>7, <2>8 DEF hosts, n
<1> HIDE DEF u
<1>5. [t.hosts[h] EXCEPT !.session = s] \in Hosts
      /\ [t.hosts[h] EXCEPT !.session = s].next = t.hosts[h].next
  BY <1>2 DEF Hosts
<1>6. /\ u.hosts \in Seq(Hosts) /\ Len(u.hosts) = Len(t.hosts) /\ DOMAIN u.hosts = DOMAIN t.hosts
      /\ \A g \in DOMAIN t.hosts : u.hosts[g].next = t.hosts[g].next
  BY <1>2, <1>4, <1>5, ExceptSeq
<1>7. u.sess \in [SessPtrs -> Sessions \cup {Free}] /\ u.g_n_sessions \in Int
  BY <1>2, <1>3, <1>4
<1>8. u \in Tables
  BY <1>1, <1>4, <1>6, <1>7 DEF Tables
<1>9. Linked(u) /\ WithFiles(u)
  BY <1>1, <1>2, <1>3, <1>4, <1>6 DEF Linked, WithFiles
<1>10. Cardinality(Live(u)) = Cardinality(Live(t)) + 1
  <2>1. Live(u) = Live(t) \cup {s} /\ s \notin Live(t)
    BY <1>2, <1>3, <1>4 DEF Live
  <2> QED
    BY <2>1, LiveFinite, FS_AddElement
<1>11. Counted(u)
  BY <1>1, <1>4, <1>10 DEF Counted, Running
<1> QED
  BY <1>6, <1>8, <1>9, <1>11 DEF Sound, u

----------------------------------------------------------------------------
(* The search for a host gives one that is looked for, or tells whether    *)
(* the list ends.                                                          *)
LEMMA FirstOfIs ==
  ASSUME NEW t \in Tables, NEW found \in SUBSET DOMAIN t.hosts
  PROVE  \/ FirstOf(t, found) \in found
         \/ FirstOf(t, found) = Forever /\ Endless(t)
         \/ FirstOf(t, found) = Null /\ ~Endless(t)
<1> DEFINE walk == Walk(t)
           meets == {k \in 0 .. Len(t.hosts) : walk[k] \in found}
           least == CHOOSE k \in meets : \A j \in meets : k <= j
<1>1. FirstOf(t, found) = IF meets # {} THEN walk[least]
                          ELSE IF Endless(t) THEN Forever ELSE Null
  BY DEF FirstOf
<1>2. CASE meets # {}
  <2>1. meets \in SUBSET Nat
    BY TableFacts
  <2>2. \E k \in meets : \A j \in meets : k <= j
    BY <1>2, <2>1, Smallest
  <2>3. least \in meets
    BY <2>2
  <2> QED
    BY <1>1, <1>2, <2>3
<1>3. CASE meets = {}
  BY <1>1, <1>3
<1> QED
  BY <1>2, <1>3

LEMMA SearchIs ==
  ASSUME NEW t \in Tables
  PROVE  /\ \A e : \/ util_ether2host(t, e) \in DOMAIN t.hosts
                      /\ t.hosts[util_ether2host(t, e)].eth = e
                   \/ util_ether2host(t, e) = Forever /\ Endless(t)
                   \/ util_ether2host(t, e) = Null /\ ~Endless(t)
         /\ \A n : \/ util_name2host(t, n) \in DOMAIN t.hosts
                      /\ t.hosts[util_name2host(t, n)].name = n
                   \/ util_name2host(t, n) = Forever /\ Endless(t)
                   \/ util_name2host(t, n) = Null /\ ~Endless(t)
<1>1. ASSUME NEW e
      PROVE  \/ util_ether2host(t, e) \in {h \in DOMAIN t.hosts : t.hosts[h].eth = e}
             \/ util_ether2host(t, e) = Forever /\ Endless(t)
             \/ util_ether2host(t, e) = Null /\ ~Endless(t)
  <2> DEFINE found == {h \in DOMAIN t.hosts : t.hosts[h].eth = e}
  <2>1. found \in SUBSET DOMAIN t.hosts
    OBVIOUS
  <2> HIDE DEF found
  <2>2. \/ FirstOf(t, found) \in found
        \/ FirstOf(t, found) = Forever /\ Endless(t)
        \/ FirstOf(t, found) = Null /\ ~Endless(t)
    BY <2>1, FirstOfIs
  <2> QED
    BY <2>2 DEF util_ether2host, found
<1>2. ASSUME NEW n
      PROVE  \/ util_name2host(t, n) \in {h \in DOMAIN t.hosts : t.hosts[h].name = n}
             \/ util_name2host(t, n) = Forever /\ Endless(t)
             \/ util_name2host(t, n) = Null /\ ~Endless(t)
  <2> DEFINE found == {h \in DOMAIN t.hosts : t.hosts[h].name = n}
  <2>1. found \in SUBSET DOMAIN t.hosts
    OBVIOUS
  <2> HIDE DEF found
  <2>2. \/ FirstOf(t, found) \in found
        \/ FirstOf(t, found) = Forever /\ Endless(t)
        \/ FirstOf(t, found) = Null /\ ~Endless(t)
    BY <2>1, FirstOfIs
  <2> QED
    BY <2>2 DEF util_name2host, found
<1> QED
  BY <1>1, <1>2

----------------------------------------------------------------------------
(* A clone is one more host with the session of its source; of the others  *)
(* a next pointer may change.                                              *)
Alike(a, b) == a.name = b.name /\ a.eth = b.eth /\ a.services = b.services /\ a.session = b.session

Grown(t, u, src, e, n) ==
    /\ Len(u.hosts) = Len(t.hosts) + 1
    /\ \A h \in DOMAIN t.hosts : Alike(u.hosts[h], t.hosts[h])
    /\ Alike(u.hosts[Len(t.hosts) + 1], [t.hosts[src] EXCEPT !.name = n, !.eth = e])
    /\ u.sess = t.sess /\ u.g_n_sessions = t.g_n_sessions

Copied(t, src, e, n) ==
    [t EXCEPT !.hosts = Append(@, [t.hosts[src] EXCEPT !.name = n, !.eth = e])]

LEMMA CopiedSound ==
  ASSUME NEW t, Sound(t), NEW src \in DOMAIN t.hosts, NEW e \in Ethers, NEW n \in Names
  PROVE  LET u == Copied(t, src, e, n) IN Sound(u) /\ Grown(t, u, src, e, n)
<1> DEFINE u == Copied(t, src, e, n)
           copy == [t.hosts[src] EXCEPT !.name = n, !.eth = e]
           hosts == Append(t.hosts, copy)
<1>1. t \in Tables /\ Linked(t) /\ WithFiles(t) /\ Counted(t)
  BY DEF Sound
<1>2. /\ t.hosts \in Seq(Hosts) /\ Len(t.hosts) \in Nat /\ DOMAIN t.hosts = 1 .. Len(t.hosts)
      /\ \A g \in DOMAIN t.hosts : t.hosts[g] \in Hosts
  BY <1>1, TableFacts
<1>3. copy \in Hosts /\ copy.next = t.hosts[src].next
  BY <1>2 DEF Hosts
<1>4. u = [t EXCEPT !.hosts = hosts]
  BY <1>1 DEF Copied, Tables
<1> HIDE DEF copy, u
<1>5. /\ hosts \in Seq(Hosts) /\ Len(hosts) = Len(t.hosts) + 1
      /\ \A h \in 1 .. Len(t.hosts) : hosts[h] = t.hosts[h]
      /\ hosts[Len(t.hosts) + 1] = copy
  BY <1>2, <1>3, AppendProperties
<1> HIDE DEF hosts
<1>6. /\ u \in Tables /\ u.hosts = hosts /\ u.sess = t.sess
      /\ u.g_n_sessions = t.g_n_sessions /\ u.g_hosts = t.g_hosts /\ u.status = t.status
  BY <1>1, <1>4, <1>5 DEF Tables
<1>7. DOMAIN hosts = 1 .. Len(t.hosts) + 1
  BY <1>5, LenProperties
<1>8. Linked(u)
  <2>1. ASSUME NEW h \in DOMAIN hosts PROVE hosts[h].next <= Len(t.hosts)
    BY <1>1, <1>2, <1>3, <1>5, <1>7, <2>1 DEF Linked
  <2>2. ASSUME NEW h \in DOMAIN hosts PROVE hosts[h].next \in Nat
    <3>1. hosts[h] \in Hosts
      <4>1. h \in 1 .. Len(t.hosts) \/ h = Len(t.hosts) + 1
        BY <1>2, <1>7
      <4> QED
        BY <1>2, <1>3, <1>5, <4>1
    <3> QED
      BY <3>1 DEF Hosts
  <2>3. t.g_hosts \in Nat
    BY <1>1 DEF Tables
  <2> QED
    BY <1>1, <1>2, <1>5, <1>6, <2>1, <2>2, <2>3 DEF Linked
<1>9. WithFiles(u) /\ Counted(u)
  BY <1>1, <1>6 DEF WithFiles, Counted, Running, Live
<1>10. Grown(t, u, src, e, n)
  BY <1>2, <1>5, <1>6 DEF Grown, Alike, copy
<1> QED
  BY <1>6, <1>8, <1>9, <1>10 DEF Sound, u

LEMMA AddedSound ==
  ASSUME NEW t, Sound(t), NEW h \in DOMAIN t.hosts
  PROVE  LET u == host_add(t, h)
         IN  /\ Sound(u) /\ Len(u.hosts) = Len(t.hosts)
             /\ \A g \in DOMAIN t.hosts : Alike(u.hosts[g], t.hosts[g])
             /\ u.sess = t.sess /\ u.g_n_sessions = t.g_n_sessions
<1> DEFINE u == host_add(t, h)
           last == FirstOf(t, {n \in DOMAIN t.hosts : t.hosts[n].next = Null})
           hosts == [t.hosts EXCEPT ![last].next = h]
<1>1. t \in Tables /\ Linked(t) /\ WithFiles(t) /\ Counted(t)
  BY DEF Sound
<1>2. /\ t.hosts \in Seq(Hosts) /\ Len(t.hosts) \in Nat /\ DOMAIN t.hosts = 1 .. Len(t.hosts)
      /\ \A g \in DOMAIN t.hosts : t.hosts[g] \in Hosts
  BY <1>1, TableFacts
<1>3. \/ u = [t EXCEPT !.g_hosts = h]
      \/ u = Stop(t, "hung")
      \/ u = t
      \/ u = [t EXCEPT !.hosts[last].next = h]
  BY DEF host_add
<1> SUFFICES /\ Sound(u) /\ Len(u.hosts) = Len(t.hosts)
             /\ \A g \in DOMAIN t.hosts : Alike(u.hosts[g], t.hosts[g])
             /\ u.sess = t.sess /\ u.g_n_sessions = t.g_n_sessions
  OBVIOUS
<1> HIDE DEF u, last
<1>4. CASE u = [t EXCEPT !.g_hosts = h]
  <2>1. /\ u \in Tables /\ u.hosts = t.hosts /\ u.sess = t.sess
        /\ u.g_n_sessions = t.g_n_sessions /\ u.g_hosts = h /\ u.status = t.status
    BY <1>1, <1>2, <1>4 DEF Tables
  <2> QED
    BY <1>1, <1>2, <2>1 DEF Sound, Linked, WithFiles, Counted, Running, Live, Alike
<1>5. CASE u = Stop(t, "hung")
  <2>1. Sound(u)
    BY <1>5, StopSound DEF Statuses
  <2>2. u.hosts = t.hosts /\ u.sess = t.sess /\ u.g_n_sessions = t.g_n_sessions
    BY <1>1, <1>5 DEF Stop, Tables
  <2> QED
    BY <2>1, <2>2 DEF Alike
<1>6. CASE u = t
  BY <1>6 DEF Alike
<1>7. CASE u = [t EXCEPT !.hosts[last].next = h]
  <2>1. u = [t EXCEPT !.hosts = hosts]
    BY <1>1, <1>7 DEF Tables
  <2>2. /\ DOMAIN hosts = DOMAIN t.hosts /\ hosts \in [1 .. Len(t.hosts) -> Hosts]
        /\ \A g \in DOMAIN t.hosts :
              Alike(hosts[g], t.hosts[g]) /\ hosts[g].next \in {h, t.hosts[g].next}
    <3>1. \A g \in DOMAIN t.hosts : hosts[g] = IF g = last THEN [t.hosts[g] EXCEPT !.next = h]
                                               ELSE t.hosts[g]
      OBVIOUS
    <3>2. ASSUME NEW g \in DOMAIN t.hosts
          PROVE  /\ [t.hosts[g] EXCEPT !.next = h] \in Hosts
                 /\ [t.hosts[g] EXCEPT !.next = h].next = h
                 /\ Alike([t.hosts[g] EXCEPT !.next = h], t.hosts[g])
      <4>1. h \in Nat /\ t.hosts[g] \in Hosts
        BY <1>2
      <4> QED
        BY <4>1 DEF Hosts, Alike
    <3>3. \A g \in DOMAIN t.hosts : hosts[g] \in Hosts
      BY <1>2, <3>1, <3>2
    <3>4. \A g \in DOMAIN t.hosts : Alike(t.hosts[g], t.hosts[g])
      BY DEF Alike
    <3> QED
      BY <1>2, <3>1, <3>2, <3>3, <3>4
  <2>3. hosts \in Seq(Hosts) /\ Len(hosts) = Len(t.hosts)
    BY <1>2, <2>2
  <2> HIDE DEF hosts
  <2>4. /\ u \in Tables /\ u.hosts = hosts /\ u.sess = t.sess
        /\ u.g_n_sessions = t.g_n_sessions /\ u.g_hosts = t.g_hosts /\ u.status = t.status
    BY <1>1, <2>1, <2>3 DEF Tables
  <2>5. Linked(u)
    BY <1>1, <1>2, <2>2, <2>3, <2>4 DEF Linked
  <2>6. WithFiles(u) /\ Counted(u)
    BY <1>1, <2>4 DEF WithFiles, Counted, Running, Live
  <2> QED
    BY <2>2, <2>3, <2>4, <2>5, <2>6 DEF Sound
<1> QED
  BY <1>3, <1>4, <1>5, <1>6, <1>7

LEMMA CloneSound ==
  ASSUME NEW t, Sound(t), NEW src \in DOMAIN t.hosts, NEW e \in Ethers, NEW n \in Names,
         NEW ip
  PROVE  LET u == host_clone(t, src, e, n, ip)
         IN  /\ Sound(u) /\ Grown(t, u, src, e, n)
             /\ Running(u) => util_name2host(t, n) # Null \/ ip
<1> DEFINE copy == Copied(t, src, e, n)
           u == host_clone(t, src, e, n, ip)
           m == Len(t.hosts) + 1
<1>1. Sound(copy) /\ Grown(t, copy, src, e, n)
  BY CopiedSound
<1>2. u = IF util_name2host(t, n) = Null /\ ~ip THEN Stop(copy, "exited")
          ELSE host_add(copy, Len(copy.hosts))
  BY DEF host_clone, Copied
<1>3. /\ Len(t.hosts) \in Nat /\ DOMAIN t.hosts = 1 .. Len(t.hosts)
      /\ Len(copy.hosts) = m /\ DOMAIN copy.hosts = 1 .. m /\ m \in 1 .. m
      /\ m # 0 /\ DOMAIN t.hosts \subseteq 1 .. m
  BY <1>1, TableFacts DEF Sound, Grown
<1> SUFFICES /\ Sound(u) /\ Grown(t, u, src, e, n)
             /\ Running(u) => util_name2host(t, n) # Null \/ ip
  OBVIOUS
<1> HIDE DEF copy, u
<1>4. CASE u = Stop(copy, "exited")
  <2>1. Sound(u) /\ ~Running(u)
    BY <1>1, <1>4, StopSound DEF Statuses
  <2>2. u.hosts = copy.hosts /\ u.sess = copy.sess /\ u.g_n_sessions = copy.g_n_sessions
    BY <1>1, <1>4 DEF Stop, Sound, Tables
  <2> QED
    BY <1>1, <2>1, <2>2 DEF Grown
<1>5. CASE u = host_add(copy, m) /\ (util_name2host(t, n) # Null \/ ip)
  <2>1. /\ Sound(u) /\ Len(u.hosts) = Len(copy.hosts)
        /\ \A g \in DOMAIN copy.hosts : Alike(u.hosts[g], copy.hosts[g])
        /\ u.sess = copy.sess /\ u.g_n_sessions = copy.g_n_sessions
    BY <1>1, <1>3, <1>5, AddedSound
  <2>2. Grown(t, u, src, e, n)
    <3> DEFINE new == [t.hosts[src] EXCEPT !.name = n, !.eth = e]
    <3> HIDE DEF new
    <3>1. Grown(t, copy, src, e, n) <=>
            /\ Len(copy.hosts) = Len(t.hosts) + 1
            /\ \A h \in DOMAIN t.hosts : Alike(copy.hosts[h], t.hosts[h])
            /\ Alike(copy.hosts[Len(t.hosts) + 1], new)
            /\ copy.sess = t.sess /\ copy.g_n_sessions = t.g_n_sessions
      BY DEF Grown, new
    <3>2. /\ Len(u.hosts) = Len(t.hosts) + 1
          /\ \A h \in DOMAIN t.hosts : Alike(u.hosts[h], t.hosts[h])
          /\ Alike(u.hosts[Len(t.hosts) + 1], new)
          /\ u.sess = t.sess /\ u.g_n_sessions = t.g_n_sessions
      BY <1>1, <1>3, <2>1, <3>1 DEF Alike
    <3> QED
      BY <3>2 DEF Grown, new
  <2> QED
    BY <1>5, <2>1, <2>2
<1> QED
  BY <1>2, <1>3, <1>4, <1>5

(* The check of a session sets its idle time, at most.                     *)
LEMMA CheckSound ==
  ASSUME NEW t, Sound(t), NEW h \in DOMAIN t.hosts, NEW service, NEW sid
  PROVE  LET u == host_session_check(t, h, service, sid)
         IN  /\ Sound(u) /\ u.hosts = t.hosts
             /\ Live(u) = Live(t)
             /\ \A s \in SessPtrs :
                   t.sess[s] # Free => /\ u.sess[s].owner = t.sess[s].owner
                                       /\ u.sess[s].sid = t.sess[s].sid
                                       /\ u.sess[s].service = t.sess[s].service
             /\ Running(u) => ~Dangling(t, h)
<1> DEFINE u == host_session_check(t, h, service, sid)
           p == t.hosts[h].session
           sess == [t.sess EXCEPT ![p].idle = 0]
<1> SUFFICES /\ Sound(u) /\ u.hosts = t.hosts
             /\ Live(u) = Live(t)
             /\ \A s \in SessPtrs :
                   t.sess[s] # Free => /\ u.sess[s].owner = t.sess[s].owner
                                       /\ u.sess[s].sid = t.sess[s].sid
                                       /\ u.sess[s].service = t.sess[s].service
             /\ Running(u) => ~Dangling(t, h)
  OBVIOUS
<1>1. t \in Tables /\ Linked(t) /\ WithFiles(t) /\ Counted(t)
  BY DEF Sound
<1>2. /\ t.sess \in [SessPtrs -> Sessions \cup {Free}]
      /\ HasSession(t, h) => p \in SessPtrs
  BY <1>1, TableFacts
<1>3. \/ u = Stop(t, "undefined")
      \/ u = t /\ ~Dangling(t, h)
      \/ /\ u = [t EXCEPT !.sess[p].idle = 0]
         /\ HasSession(t, h) /\ ~Dangling(t, h)
  BY DEF host_session_check, CheckResult, E_NOERROR, E_NOSESSION, E_BADSID
<1> HIDE DEF u
<1>4. CASE u = Stop(t, "undefined")
  <2>1. Sound(u) /\ ~Running(u)
    BY <1>4, StopSound DEF Statuses
  <2>2. u.hosts = t.hosts /\ u.sess = t.sess
    BY <1>1, <1>4 DEF Stop, Tables
  <2> QED
    BY <2>1, <2>2 DEF Live
<1>5. CASE u = t /\ ~Dangling(t, h)
  BY <1>5
<1>6. CASE u = [t EXCEPT !.sess[p].idle = 0] /\ HasSession(t, h) /\ ~Dangling(t, h)
  <2>1. p \in SessPtrs /\ t.sess[p] \in Sessions /\ t.sess[p] # Free
    BY <1>2, <1>6 DEF Dangling, SessionOf
  <2> DEFINE used == [t.sess[p] EXCEPT !.idle = 0]
  <2>2. /\ used \in Sessions /\ used # Free /\ used.fd = t.sess[p].fd
        /\ used.owner = t.sess[p].owner /\ used.sid = t.sess[p].sid
        /\ used.service = t.sess[p].service
    BY <2>1, FreeAssumption, TableAssumption DEF Sessions
  <2>3. sess = [t.sess EXCEPT ![p] = used]
    BY <1>2, <2>1
  <2>4. u = [t EXCEPT !.sess = sess]
    BY <1>1, <1>6 DEF Tables
  <2> HIDE DEF used, p
  <2>5. /\ sess \in [SessPtrs -> Sessions \cup {Free}] /\ sess[p] = used
        /\ \A s \in SessPtrs \ {p} : sess[s] = t.sess[s]
    BY <1>2, <2>1, <2>2, <2>3
  <2> HIDE DEF sess
  <2>6. /\ u \in Tables /\ u.hosts = t.hosts /\ u.sess = sess /\ u.status = t.status
        /\ u.g_n_sessions = t.g_n_sessions /\ u.g_hosts = t.g_hosts
    BY <1>1, <2>4, <2>5 DEF Tables
  <2>7. Linked(u) /\ WithFiles(u)
    BY <1>1, <2>1, <2>2, <2>5, <2>6 DEF Linked, WithFiles
  <2>8. Live(u) = Live(t)
    BY <2>1, <2>2, <2>5, <2>6 DEF Live
  <2>9. Counted(u)
    BY <1>1, <2>6, <2>8 DEF Counted, Running
  <2> QED
    BY <1>6, <2>1, <2>2, <2>5, <2>6, <2>7, <2>8, <2>9 DEF Sound
<1> QED
  BY <1>3, <1>4, <1>5, <1>6

----------------------------------------------------------------------------
(* What a frame or a datagram finds: its sender's host, or a clone for it. *)
LEMMA FoundIs ==
  ASSUME Sound(table), NEW e \in Ethers, NEW boot, NEW found \in Found(e, boot)
  PROVE  /\ Sound(found.t)
         /\ \/ /\ found.t = Stop(table, "hung")
            \/ /\ found.t = table
               /\ found.h # Null => /\ found.h \in DOMAIN table.hosts
                                    /\ table.hosts[found.h].eth = e
            \/ /\ boot /\ found.h = Len(table.hosts) + 1
               /\ \E src \in DOMAIN table.hosts, n \in EtherNames[e] :
                     /\ table.hosts[src].name = MachType[e]
                     /\ Grown(table, found.t, src, e, n)
<1> DEFINE h == util_ether2host(table, e)
           src == util_name2host(table, MachType[e])
<1>1. table \in Tables
  BY DEF Sound
<1>2. /\ \/ h \in DOMAIN table.hosts /\ table.hosts[h].eth = e
         \/ h = Forever
         \/ h = Null /\ ~Endless(table)
      /\ \/ src \in DOMAIN table.hosts /\ table.hosts[src].name = MachType[e]
         \/ src = Forever /\ Endless(table)
         \/ src = Null
  BY <1>1, SearchIs
<1>3. found \in IF h = Forever THEN {[t |-> Stop(table, "hung"), h |-> Null]}
                ELSE IF h = Null /\ boot /\ src # Null THEN Clones(e, src)
                ELSE {[t |-> table, h |-> h]}
  BY DEF Found
<1> HIDE DEF h, src
<1>4. CASE h = Forever
  <2>1. found.t = Stop(table, "hung")
    BY <1>3, <1>4
  <2> QED
    BY <2>1, StopSound DEF Statuses
<1>5. CASE h = Null /\ boot /\ src # Null
  <2>1. src \in DOMAIN table.hosts /\ table.hosts[src].name = MachType[e]
    <3>1. Null \notin DOMAIN table.hosts
      BY <1>1, TableFacts DEF Null
    <3> QED
      BY <1>2, <1>5, <3>1 DEF Forever, Null
  <2>2. found \in Clones(e, src)
    BY <1>3, <1>5 DEF Forever, Null
  <2>3. PICK n \in EtherNames[e], ip \in BOOLEAN :
          found = [t |-> host_clone(table, src, e, n, ip),
                   h |-> Len(host_clone(table, src, e, n, ip).hosts)]
    BY <2>2 DEF Clones
  <2>4. n \in Names
    BY LinkAssumption
  <2>5. Sound(found.t) /\ Grown(table, found.t, src, e, n) /\ found.h = Len(found.t.hosts)
    BY <2>1, <2>3, <2>4, CloneSound
  <2>6. found.h = Len(table.hosts) + 1
    BY <2>5 DEF Grown
  <2> QED
    BY <1>5, <2>1, <2>5, <2>6
<1>6. CASE h # Forever /\ ~(h = Null /\ boot /\ src # Null)
  <2>1. found.t = table /\ found.h = h
    BY <1>3, <1>6
  <2> QED
    BY <1>2, <1>6, <2>1 DEF Null
<1> QED
  BY <1>4, <1>5, <1>6

(* Host h with a new session, as its handler leaves it: without one, or    *)
(* with the session and its file.                                          *)
WithFile(t, h, file) == [t EXCEPT !.sess[t.hosts[h].session].fd = file]

LEMMA AddEnds ==
  ASSUME NEW t, Sound(t), NEW h \in DOMAIN t.hosts, NEW new \in NewSessions
  PROVE  LET old == Emptied(t, h)
             added == host_session_add(t, h, new)
             s == added.hosts[h].session
         IN  \/ added = old /\ (~Running(added) \/ s = Null)
             \/ /\ Running(added) /\ s # Null /\ s \in SessPtrs
                /\ ~HasSession(old, h) /\ old.sess[s] = Free
                /\ \A file : WithFile(added, h, file) = Opened(old, h, s, new, file)
<1> DEFINE old == Emptied(t, h)
           added == host_session_add(t, h, new)
           s == added.hosts[h].session
<1>1. Sound(old) /\ DOMAIN old.hosts = DOMAIN t.hosts
  BY EmptiedSound
<1>2. \/ added = old /\ (~Running(old) \/ old.hosts[h].session = Null)
      \/ /\ Running(old) /\ old.hosts[h].session = Null
         /\ \E p \in SessPtrs : old.sess[p] = Free /\ added = WithNew(old, h, p, new)
  BY AddIs
<1> SUFFICES \/ added = old /\ (~Running(added) \/ s = Null)
             \/ /\ Running(added) /\ s # Null /\ s \in SessPtrs
                /\ ~HasSession(old, h) /\ old.sess[s] = Free
                /\ \A file : WithFile(added, h, file) = Opened(old, h, s, new, file)
  OBVIOUS
<1> HIDE DEF old, added
<1>3. ASSUME Running(old), ~HasSession(old, h), NEW p \in SessPtrs, old.sess[p] = Free,
             added = WithNew(old, h, p, new)
      PROVE  /\ Running(added) /\ s # Null /\ s \in SessPtrs
             /\ ~HasSession(old, h) /\ old.sess[s] = Free
             /\ \A file : WithFile(added, h, file) = Opened(old, h, s, new, file)
  <2>1. old \in Tables /\ old.hosts[h] \in Hosts
    BY <1>1, TableFacts DEF Sound
  <2>2. added.hosts = [old.hosts EXCEPT ![h].session = p] /\ added.status = old.status
    BY <1>3, <2>1 DEF WithNew, Tables
  <2>3. s = p
    BY <1>1, <2>1, <2>2 DEF Hosts
  <2>4. p # Null
    BY DEF SessPtrs, Null
  <2> QED
    BY <1>3, <2>2, <2>3, <2>4 DEF Opened, Running, WithFile
<1> QED
  BY <1>2, <1>3 DEF HasSession

----------------------------------------------------------------------------
(* Whose session is whose.  If the hosts clones are made of keep none, a   *)
(* session belongs to one host, which opened it, and only that host's      *)
(* requests end it before its time.                                        *)
TemplatesIdle(t) ==
    \A h \in DOMAIN t.hosts : t.hosts[h].name \in MachNames =>
       /\ ~HasSession(t, h)
       /\ t.hosts[h].eth \notin Stations
       /\ t.hosts[h].name \in Senders => "tftp" \notin t.hosts[h].services

Owned(t) ==
    \A h \in DOMAIN t.hosts : HasSession(t, h) =>
       /\ t.sess[t.hosts[h].session] # Free
       /\ t.sess[t.hosts[h].session].owner = t.hosts[h].eth

Unshared(t) ==
    \A g, h \in DOMAIN t.hosts :
       g # h /\ HasSession(t, h) => t.hosts[g].session # t.hosts[h].session

Private(t) == TemplatesIdle(t) /\ Owned(t) /\ Unshared(t)

(* Sessions in use of others than the owners E stay what they are.         *)
InUse(t, s) == t.sess[s] # Free /\ t.sess[s].idle <= SessionTimeout

Spares(t, u, E) ==
    \A s \in SessPtrs : InUse(t, s) /\ t.sess[s].owner \notin E =>
       /\ InUse(u, s)
       /\ u.sess[s].owner = t.sess[s].owner
       /\ u.sess[s].sid = t.sess[s].sid
       /\ u.sess[s].service = t.sess[s].service

(* A table and what requests of E make of it.                              *)
Kept(t, u, E) ==
    /\ Sound(u)
    /\ TemplatesStayOff /\ Private(t) => Private(u) /\ Spares(t, u, E)

LEMMA KeptTransitive ==
  ASSUME NEW t, NEW u, NEW v, NEW E, Kept(t, u, E), Kept(u, v, E)
  PROVE  Kept(t, v, E)
<1>1. ASSUME Spares(t, u, E), Spares(u, v, E) PROVE Spares(t, v, E)
  BY <1>1 DEF Spares
<1> QED
  BY <1>1 DEF Kept

LEMMA KeptByFewer ==
  ASSUME NEW t, NEW u, NEW E, Kept(t, u, {})
  PROVE  Kept(t, u, E)
BY DEF Kept, Spares

LEMMA KeptReflexive ==
  ASSUME NEW t, Sound(t), NEW E
  PROVE  Kept(t, t, E)
BY DEF Kept, Spares

LEMMA KeptByStop ==
  ASSUME NEW t, Sound(t), NEW status \in Statuses \ {"running"}, NEW E
  PROVE  Kept(t, Stop(t, status), E)
<1> DEFINE u == Stop(t, status)
<1>1. Sound(u)
  BY StopSound
<1>2. u.hosts = t.hosts /\ u.sess = t.sess
  BY DEF Stop, Sound, Tables
<1> HIDE DEF u
<1>3. (Private(t) => Private(u)) /\ Spares(t, u, E)
  BY <1>2 DEF Private, TemplatesIdle, Owned, Unshared, HasSession, Spares, InUse
<1> QED
  BY <1>1, <1>3 DEF Kept, u

LEMMA KeptByClearing ==
  ASSUME NEW t, Sound(t), NEW H, Clearable(t, H), NEW E,
         \A h \in H : TimedOut(t, h) \/ t.hosts[h].eth \in E
  PROVE  Kept(t, Cleared(t, H), E)
<1> DEFINE u == Cleared(t, H)
           P == PtrsOf(t, H)
<1>1. t \in Tables /\ Sound(u) /\ DOMAIN u.hosts = DOMAIN t.hosts
  BY ClearedSound DEF Sound
<1>2. \A h \in DOMAIN t.hosts : t.hosts[h] \in Hosts
  BY <1>1, TableFacts
<1>3. \A h \in DOMAIN t.hosts :
        u.hosts[h] = IF h \in H THEN [t.hosts[h] EXCEPT !.session = Null] ELSE t.hosts[h]
  BY <1>1 DEF Cleared, Tables
<1>4. \A s \in SessPtrs : u.sess[s] = IF s \in P THEN Free ELSE t.sess[s]
  BY <1>1 DEF Cleared, Tables
<1>5. H \subseteq DOMAIN t.hosts /\ \A h \in H : t.hosts[h].session \in P /\ HasSession(t, h)
  BY DEF Clearable, PtrsOf
<1>6. \A s \in P : \E h \in H : s = t.hosts[h].session
  BY DEF PtrsOf
<1> SUFFICES Kept(t, u, E)
  OBVIOUS
<1> HIDE DEF u, P
<1>7. \A h \in DOMAIN t.hosts : /\ u.hosts[h].name = t.hosts[h].name
                                /\ u.hosts[h].eth = t.hosts[h].eth
                                /\ u.hosts[h].services = t.hosts[h].services
  BY <1>2, <1>3 DEF Hosts
<1>8. \A h \in DOMAIN t.hosts : u.hosts[h].session = IF h \in H THEN Null ELSE t.hosts[h].session
  BY <1>2, <1>3 DEF Hosts
<1>9. ASSUME Private(t) PROVE Private(u) /\ Spares(t, u, E)
  <2>1. TemplatesIdle(u)
    BY <1>1, <1>7, <1>8, <1>9 DEF Private, TemplatesIdle, HasSession
  <2>2. Unshared(u)
    BY <1>1, <1>8, <1>9 DEF Private, Unshared, HasSession
  <2>3. ASSUME NEW h \in DOMAIN t.hosts, HasSession(u, h)
        PROVE  h \notin H /\ t.hosts[h].session \in SessPtrs \ P /\ HasSession(t, h)
               /\ u.hosts[h].session = t.hosts[h].session
    <3>1. h \notin H /\ u.hosts[h].session = t.hosts[h].session /\ HasSession(t, h)
      BY <1>8, <2>3 DEF HasSession
    <3>2. t.hosts[h].session \notin P
      BY <1>5, <1>6, <1>9, <3>1 DEF Private, Unshared
    <3> QED
      BY <1>1, <3>1, <3>2, TableFacts
  <2>4. Owned(u)
    BY <1>1, <1>4, <1>7, <1>9, <2>3 DEF Private, Owned
  <2>5. Spares(t, u, E)
    <3>1. ASSUME NEW s \in SessPtrs, InUse(t, s), t.sess[s].owner \notin E
          PROVE  s \notin P
      <4>1. SUFFICES ASSUME NEW h \in H, s = t.hosts[h].session PROVE FALSE
        BY <1>6
      <4>2. t.sess[s].owner = t.hosts[h].eth
        BY <1>5, <1>9, <4>1 DEF Private, Owned
      <4>3. TimedOut(t, h)
        BY <3>1, <4>2
      <4>4. t.sess[s] \in Sessions
        BY <1>1, <3>1, TableFacts DEF InUse
      <4> QED
        BY <3>1, <4>1, <4>3, <4>4, TableAssumption DEF TimedOut, SessionOf, InUse, Sessions
    <3> QED
      BY <1>4, <3>1 DEF Spares, InUse
  <2> QED
    BY <2>1, <2>2, <2>4, <2>5 DEF Private
<1> QED
  BY <1>1, <1>9 DEF Kept

LEMMA KeptByDelete ==
  ASSUME NEW t, Sound(t), NEW h \in DOMAIN t.hosts, NEW E, t.hosts[h].eth \in E
  PROVE  Kept(t, host_session_delete(t, h), E)
<1>1. \/ host_session_delete(t, h) = t
      \/ host_session_delete(t, h) = Stop(t, "undefined")
      \/ host_session_delete(t, h) = Cleared(t, {h}) /\ Clearable(t, {h})
  BY DeleteIs DEF Sound
<1>2. Clearable(t, {h}) => Kept(t, Cleared(t, {h}), E)
  BY KeptByClearing
<1> QED
  BY <1>1, <1>2, KeptReflexive, KeptByStop DEF Statuses

LEMMA KeptByTimeouts ==
  ASSUME NEW t, Sound(t)
  PROVE  Kept(t, util_host_session_timeout_all(t), {})
<1> DEFINE u == util_host_session_timeout_all(t)
<1>1. \/ u = Stop(t, "undefined")
      \/ \E H : /\ Clearable(t, H) /\ \A h \in H : TimedOut(t, h)
                /\ u \in {Cleared(t, H), Stop(Cleared(t, H), "hung")}
  BY TimeoutIs DEF Sound
<1> SUFFICES Kept(t, u, {})
  OBVIOUS
<1> HIDE DEF u
<1>2. CASE u = Stop(t, "undefined")
  BY <1>2, KeptByStop DEF Statuses
<1>3. ASSUME NEW H, Clearable(t, H), \A h \in H : TimedOut(t, h),
             u \in {Cleared(t, H), Stop(Cleared(t, H), "hung")}
      PROVE  Kept(t, u, {})
  <2> DEFINE c == Cleared(t, H)
  <2>1. Kept(t, c, {})
    BY <1>3, KeptByClearing
  <2>2. u \in {c, Stop(c, "hung")}
    BY <1>3
  <2> HIDE DEF c
  <2>3. Kept(c, Stop(c, "hung"), {})
    BY <2>1, KeptByStop DEF Kept, Statuses
  <2> QED
    BY <2>1, <2>2, <2>3, KeptTransitive
<1> QED
  BY <1>1, <1>2, <1>3

(* Nothing but the pointer of a host changes when its sessions end.        *)
SameHosts(t, u) ==
    /\ DOMAIN u.hosts = DOMAIN t.hosts
    /\ Len(u.hosts) = Len(t.hosts)
    /\ \A g \in DOMAIN t.hosts : /\ u.hosts[g].eth = t.hosts[g].eth
                                 /\ u.hosts[g].name = t.hosts[g].name
                                 /\ u.hosts[g].services = t.hosts[g].services

LEMMA ClearedSame ==
  ASSUME NEW t, Sound(t), NEW H, Clearable(t, H)
  PROVE  SameHosts(t, Cleared(t, H))
<1> DEFINE u == Cleared(t, H)
<1>1. t \in Tables /\ DOMAIN u.hosts = DOMAIN t.hosts /\ Len(u.hosts) = Len(t.hosts)
  BY ClearedSound DEF Sound
<1>2. \A h \in DOMAIN t.hosts : t.hosts[h] \in Hosts
  BY <1>1, TableFacts
<1>3. \A h \in DOMAIN t.hosts :
        u.hosts[h] = IF h \in H THEN [t.hosts[h] EXCEPT !.session = Null] ELSE t.hosts[h]
  BY <1>1 DEF Cleared, Tables
<1> HIDE DEF u
<1>4. \A h \in DOMAIN t.hosts : /\ u.hosts[h].name = t.hosts[h].name
                                /\ u.hosts[h].eth = t.hosts[h].eth
                                /\ u.hosts[h].services = t.hosts[h].services
  BY <1>2, <1>3 DEF Hosts
<1> QED
  BY <1>1, <1>4 DEF SameHosts, u

LEMMA StopSame ==
  ASSUME NEW t, Sound(t), NEW status
  PROVE  Stop(t, status).hosts = t.hosts /\ SameHosts(t, Stop(t, status))
<1>1. Stop(t, status).hosts = t.hosts
  BY DEF Stop, Sound, Tables
<1> QED
  BY <1>1 DEF SameHosts

LEMMA DeleteSame ==
  ASSUME NEW t, Sound(t), NEW h \in DOMAIN t.hosts
  PROVE  SameHosts(t, host_session_delete(t, h))
<1>1. \/ host_session_delete(t, h) = t
      \/ host_session_delete(t, h) = Stop(t, "undefined")
      \/ host_session_delete(t, h) = Cleared(t, {h}) /\ Clearable(t, {h})
  BY DeleteIs DEF Sound
<1>2. SameHosts(t, t)
  BY DEF SameHosts
<1> QED
  BY <1>1, <1>2, ClearedSame, StopSame

LEMMA TimeoutsSame ==
  ASSUME NEW t, Sound(t)
  PROVE  SameHosts(t, util_host_session_timeout_all(t))
<1> DEFINE u == util_host_session_timeout_all(t)
<1>1. \/ u = Stop(t, "undefined")
      \/ \E H : Clearable(t, H) /\ u \in {Cleared(t, H), Stop(Cleared(t, H), "hung")}
  BY TimeoutIs DEF Sound
<1> SUFFICES SameHosts(t, u)
  OBVIOUS
<1> HIDE DEF u
<1>2. ASSUME NEW H, Clearable(t, H), u \in {Cleared(t, H), Stop(Cleared(t, H), "hung")}
      PROVE  SameHosts(t, u)
  <2> DEFINE c == Cleared(t, H)
  <2>1. SameHosts(t, c) /\ Sound(c) /\ u \in {c, Stop(c, "hung")}
    BY <1>2, ClearedSame, ClearedSound
  <2> HIDE DEF c
  <2> QED
    BY <2>1, StopSame DEF SameHosts
<1> QED
  BY <1>1, <1>2, StopSame

LEMMA KeptByEmptying ==
  ASSUME NEW t, Sound(t), NEW h \in DOMAIN t.hosts, NEW E, t.hosts[h].eth \in E
  PROVE  Kept(t, Emptied(t, h), E) /\ SameHosts(t, Emptied(t, h))
<1> DEFINE fresh == util_host_session_timeout_all(t)
<1>1. Kept(t, fresh, E) /\ SameHosts(t, fresh)
  BY KeptByTimeouts, KeptByFewer, TimeoutsSame
<1>2. Emptied(t, h) = IF Running(fresh) THEN host_session_delete(fresh, h) ELSE fresh
  BY DEF Emptied
<1> HIDE DEF fresh
<1>3. /\ Kept(fresh, host_session_delete(fresh, h), E)
      /\ SameHosts(fresh, host_session_delete(fresh, h))
  BY <1>1, KeptByDelete, DeleteSame DEF SameHosts, Kept
<1> QED
  BY <1>1, <1>2, <1>3, KeptTransitive DEF SameHosts

LEMMA KeptByCheck ==
  ASSUME NEW t, Sound(t), NEW h \in DOMAIN t.hosts, NEW service, NEW sid
  PROVE  Kept(t, host_session_check(t, h, service, sid), {})
<1> DEFINE u == host_session_check(t, h, service, sid)
           p == t.hosts[h].session
<1>1. /\ Sound(u) /\ u.hosts = t.hosts
      /\ Live(u) = Live(t)
      /\ \A s \in SessPtrs :
            t.sess[s] # Free => /\ u.sess[s].owner = t.sess[s].owner
                                /\ u.sess[s].sid = t.sess[s].sid
                                /\ u.sess[s].service = t.sess[s].service
  BY CheckSound
<1>2. \A s \in SessPtrs : InUse(t, s) => InUse(u, s)
  <2>1. t \in Tables /\ t.sess \in [SessPtrs -> Sessions \cup {Free}]
        /\ (HasSession(t, h) => p \in SessPtrs)
    BY TableFacts DEF Sound
  <2>2. \/ u = Stop(t, "undefined")
        \/ u = t
        \/ u = [t EXCEPT !.sess[p].idle = 0] /\ HasSession(t, h) /\ ~Dangling(t, h)
    BY DEF host_session_check, CheckResult, E_NOERROR, E_NOSESSION, E_BADSID
  <2> HIDE DEF u
  <2>3. CASE u \in {t, Stop(t, "undefined")}
    BY <2>1, <2>3 DEF Stop, Tables, InUse
  <2>4. CASE u = [t EXCEPT !.sess[p].idle = 0] /\ HasSession(t, h) /\ ~Dangling(t, h)
    <3>1. p \in SessPtrs /\ t.sess[p] \in Sessions
      BY <2>1, <2>4 DEF Dangling, SessionOf
    <3>2. u.sess = [t.sess EXCEPT ![p].idle = 0]
      BY <2>1, <2>4 DEF Tables
    <3>3. u.sess[p].idle = 0 /\ \A s \in SessPtrs \ {p} : u.sess[s] = t.sess[s]
      BY <2>1, <3>1, <3>2 DEF Sessions
    <3>4. \A s \in SessPtrs : t.sess[s] # Free => u.sess[s] # Free
      BY <1>1 DEF Live
    <3> QED
      BY <3>3, <3>4, TableAssumption DEF InUse
  <2> QED
    BY <2>2, <2>3, <2>4
<1> SUFFICES Kept(t, u, {})
  OBVIOUS
<1> HIDE DEF u
<1>3. Spares(t, u, {})
  BY <1>1, <1>2 DEF Spares, InUse
<1>4. Private(t) => Private(u)
  <2>1. ASSUME Owned(t) PROVE Owned(u)
    <3>1. \A s \in SessPtrs : t.sess[s] # Free => u.sess[s] # Free
      BY <1>1 DEF Live
    <3>2. \A g \in DOMAIN t.hosts : HasSession(t, g) => t.hosts[g].session \in SessPtrs
      BY TableFacts DEF Sound
    <3> QED
      BY <1>1, <2>1, <3>1, <3>2 DEF Owned, HasSession
  <2> QED
    BY <1>1, <2>1 DEF Private, TemplatesIdle, Unshared, HasSession
<1> QED
  BY <1>1, <1>3, <1>4 DEF Kept

(* The new session is the host's own, in memory that no host points to.    *)
LEMMA KeptByOpening ==
  ASSUME NEW t, Sound(t), NEW h \in DOMAIN t.hosts, NEW s \in SessPtrs, t.sess[s] = Free,
         NEW new \in NewSessions, NEW file \in Source, NEW E,
         new.owner = t.hosts[h].eth,
         TemplatesStayOff /\ Private(t) => t.hosts[h].name \notin MachNames
  PROVE  Kept(t, Opened(t, h, s, new, file), E)
<1> DEFINE u == Opened(t, h, s, new, file)
           ses == [new EXCEPT !.fd = file]
<1>1. t \in Tables /\ Sound(u)
  BY OpenedSound DEF Sound
<1>2. /\ \A g \in DOMAIN t.hosts : t.hosts[g] \in Hosts
      /\ t.sess \in [SessPtrs -> Sessions \cup {Free}]
      /\ \A g \in DOMAIN t.hosts : HasSession(t, g) => t.hosts[g].session \in SessPtrs
  BY <1>1, TableFacts
<1>3. ses \in Sessions /\ ses.owner = new.owner /\ ses # Free
  BY FreeAssumption, TableAssumption DEF NewSessions, Sessions
<1>4. u.hosts = [t.hosts EXCEPT ![h].session = s] /\ u.sess = [t.sess EXCEPT ![s] = ses]
  <2> DEFINE w == WithNew(t, h, s, new)
  <2>1. w.hosts = [t.hosts EXCEPT ![h].session = s] /\ w.sess = [t.sess EXCEPT ![s] = new]
        /\ w = [w EXCEPT !.hosts = w.hosts]
    BY <1>1 DEF WithNew, Tables
  <2>2. u = [w EXCEPT !.sess[s].fd = file]
    BY DEF Opened
  <2>3. u.hosts = w.hosts /\ u.sess = [w.sess EXCEPT ![s].fd = file]
    BY <1>1, <2>2 DEF WithNew, Tables
  <2> HIDE DEF w, u
  <2>4. [w.sess EXCEPT ![s].fd = file] = [t.sess EXCEPT ![s] = ses]
    BY <1>2, <2>1
  <2> QED
    BY <2>1, <2>3, <2>4
<1> SUFFICES Kept(t, u, E)
  OBVIOUS
<1> HIDE DEF u, ses
<1>5. /\ DOMAIN u.hosts = DOMAIN t.hosts
      /\ \A g \in DOMAIN t.hosts :
            /\ u.hosts[g].name = t.hosts[g].name /\ u.hosts[g].eth = t.hosts[g].eth
            /\ u.hosts[g].services = t.hosts[g].services
            /\ u.hosts[g].session = IF g = h THEN s ELSE t.hosts[g].session
  BY <1>2, <1>4 DEF Hosts
<1>6. u.sess[s] = ses /\ \A p \in SessPtrs \ {s} : u.sess[p] = t.sess[p]
  BY <1>2, <1>4
<1>7. Spares(t, u, E)
  BY <1>6 DEF Spares, InUse
<1>8. ASSUME Private(t), TemplatesStayOff PROVE Private(u)
  <2>1. TemplatesIdle(u)
    BY <1>5, <1>8 DEF Private, TemplatesIdle, HasSession
  <2>2. \A g \in DOMAIN t.hosts : HasSession(t, g) => t.hosts[g].session # s
    BY <1>8 DEF Private, Owned
  <2>3. s # Null
    BY DEF SessPtrs, Null
  <2>4. Owned(u)
    BY <1>2, <1>3, <1>5, <1>6, <1>8, <2>2 DEF Private, Owned, HasSession
  <2>5. Unshared(u)
    BY <1>5, <1>8, <2>2, <2>3 DEF Private, Unshared, HasSession
  <2> QED
    BY <2>1, <2>4, <2>5 DEF Private
<1> QED
  BY <1>1, <1>7, <1>8 DEF Kept

LEMMA KeptByCloning ==
  ASSUME NEW t, Sound(t), NEW u, Sound(u), NEW src \in DOMAIN t.hosts, NEW e \in Ethers,
         NEW n \in EtherNames[e], t.hosts[src].name = MachType[e], Grown(t, u, src, e, n), NEW E
  PROVE  Kept(t, u, E)
<1> DEFINE m == Len(t.hosts) + 1
<1>1. /\ Len(t.hosts) \in Nat /\ DOMAIN t.hosts = 1 .. Len(t.hosts)
      /\ DOMAIN u.hosts = 1 .. m /\ t.hosts[src] \in Hosts
      /\ \A h \in DOMAIN u.hosts : h \in DOMAIN t.hosts \/ h = m
  BY TableFacts DEF Sound, Grown
<1>2. /\ \A h \in DOMAIN t.hosts : Alike(u.hosts[h], t.hosts[h])
      /\ u.hosts[m].name = n /\ u.hosts[m].session = t.hosts[src].session
      /\ u.sess = t.sess
  BY <1>1 DEF Grown, Alike, Hosts
<1>3. Spares(t, u, E)
  BY <1>2 DEF Spares, InUse
<1>4. ASSUME Private(t), TemplatesStayOff PROVE Private(u)
  <2>1. ~HasSession(u, m)
    BY <1>2, <1>4 DEF Private, TemplatesIdle, HasSession, MachNames
  <2>2. n \notin MachNames
    BY <1>4 DEF TemplatesStayOff
  <2>3. TemplatesIdle(u)
    <3>1. SUFFICES ASSUME NEW h \in DOMAIN t.hosts, t.hosts[h].name \in MachNames
                   PROVE  /\ ~HasSession(u, h)
                          /\ u.hosts[h].eth \notin Stations
                          /\ u.hosts[h].name \in Senders => "tftp" \notin u.hosts[h].services
      BY <1>1, <1>2, <2>2 DEF TemplatesIdle, Alike
    <3> QED
      BY <1>2, <1>4, <3>1 DEF Private, TemplatesIdle, HasSession, Alike
  <2>4. Owned(u)
    BY <1>1, <1>2, <1>4, <2>1 DEF Private, Owned, HasSession, Alike
  <2>5. Unshared(u)
    <3>1. SUFFICES ASSUME NEW g \in DOMAIN u.hosts, NEW h \in DOMAIN u.hosts, g # h,
                          HasSession(u, h), u.hosts[g].session = u.hosts[h].session
                   PROVE  FALSE
      BY DEF Unshared
    <3>2. g \in DOMAIN t.hosts /\ h \in DOMAIN t.hosts
      BY <1>1, <2>1, <3>1 DEF HasSession
    <3> QED
      BY <1>2, <1>4, <3>1, <3>2 DEF Private, Unshared, HasSession, Alike
  <2> QED
    BY <2>3, <2>4, <2>5 DEF Private
<1> QED
  BY <1>3, <1>4 DEF Kept

LEMMA KeptByFinding ==
  ASSUME Sound(table), NEW e \in Ethers, NEW boot, NEW found \in Found(e, boot)
  PROVE  /\ Kept(table, found.t, {})
         /\ Running(found.t) /\ found.h # Null =>
               found.h \in DOMAIN found.t.hosts /\ found.t.hosts[found.h].eth = e
<1>1. /\ Sound(found.t)
      /\ \/ /\ found.t = Stop(table, "hung")
         \/ /\ found.t = table
            /\ found.h # Null => /\ found.h \in DOMAIN table.hosts
                                 /\ table.hosts[found.h].eth = e
         \/ /\ boot /\ found.h = Len(table.hosts) + 1
            /\ \E src \in DOMAIN table.hosts, n \in EtherNames[e] :
                  /\ table.hosts[src].name = MachType[e]
                  /\ Grown(table, found.t, src, e, n)
  BY FoundIs
<1>2. CASE found.t = Stop(table, "hung")
  BY <1>2, KeptByStop, StopSound DEF Statuses
<1>3. CASE found.t = table /\ (found.h # Null => /\ found.h \in DOMAIN table.hosts
                                                 /\ table.hosts[found.h].eth = e)
  BY <1>3, KeptReflexive
<1>4. ASSUME found.h = Len(table.hosts) + 1, NEW src \in DOMAIN table.hosts,
             NEW n \in EtherNames[e], table.hosts[src].name = MachType[e],
             Grown(table, found.t, src, e, n)
      PROVE  /\ Kept(table, found.t, {})
             /\ found.h \in DOMAIN found.t.hosts /\ found.t.hosts[found.h].eth = e
  <2>1. Kept(table, found.t, {})
    BY <1>1, <1>4, KeptByCloning
  <2>2. /\ Len(table.hosts) \in Nat /\ table.hosts[src] \in Hosts
        /\ DOMAIN found.t.hosts = 1 .. Len(found.t.hosts)
        /\ Len(found.t.hosts) = Len(table.hosts) + 1
    BY <1>1, <1>4, TableFacts DEF Sound, Grown
  <2>3. found.t.hosts[found.h].eth = e
    BY <1>4, <2>2 DEF Grown, Alike, Hosts
  <2> QED
    BY <1>4, <2>1, <2>2, <2>3
<1> QED
  BY <1>1, <1>2, <1>3, <1>4

----------------------------------------------------------------------------
(* The inductive invariant, without and with the owners of the sessions,   *)
(* and what each action does to it.                                        *)
LinkTyped ==
    /\ rmp_sid \in 1 .. MaxSid /\ arp \in SUBSET Ethers /\ sent \in SUBSET Frames
    /\ opened \in SUBSET [to : Ethers, sid : 0 .. MaxSid, from : Files]

BootdTyped ==
    /\ data \in SUBSET [to : Senders, sid : Ports, from : Source]
    /\ requested \in [Senders -> {Nothing} \cup [sid : Ports, from : Files]]

Small(t) == Len(t.hosts) <= MaxHosts

Inv == Sound(table) /\ Small(table) /\ LinkTyped /\ BootdTyped

PrivateInv == Inv /\ Private(table)

LEMMA SentTyped ==
  ASSUME NEW pktlen, NEW type \in {"READ_REPL", "BOOT_REPL", "RARP_REPL"}, NEW to \in Ethers,
         NEW sid \in WireIds, NEW from \in Source \cup {"none"}
  PROVE  link_send(pktlen, type, to, sid, from) \in SUBSET Frames
BY DEF link_send, Frames

LEMMA ZeroOnWire == 0 \in WireIds
BY LinkAssumption DEF WireIds

LEMMA KeptByDenied ==
  ASSUME Inv, NEW e \in Ethers, NEW boot, NEW service, Denied(e, boot, service)
  PROVE  Kept(table, table', {}) /\ Small(table') /\ LinkTyped'
<1>1. PICK found \in Found(e, boot) : Answer(found.t, {})
  BY DEF Denied
<1>2. Kept(table, table', {}) /\ Small(table')
  BY <1>1, KeptByFinding DEF Inv, Answer, Small
<1>3. sent' = {}
  BY <1>1 DEF Answer
<1> QED
  BY <1>2, <1>3 DEF Denied, Inv, LinkTyped

LEMMA KeptByRarp ==
  ASSUME Inv, NEW e \in Ethers, RarpRequest(e)
  PROVE  Kept(table, table', {}) /\ Small(table') /\ LinkTyped'
<1>1. CASE Denied(e, FALSE, "rarp")
  BY <1>1, KeptByDenied
<1>2. CASE /\ \E found \in Found(e, FALSE) :
                 /\ Allowed(found, "rarp")
                 /\ Answer(found.t, link_send(RarpLen, "RARP_REPL", e, 0, "none"))
           /\ arp' \in {arp, arp \cup {e}}
           /\ UNCHANGED <<rmp_sid, opened>>
  <2>1. PICK found \in Found(e, FALSE) :
               Answer(found.t, link_send(RarpLen, "RARP_REPL", e, 0, "none"))
    BY <1>2
  <2>2. Kept(table, table', {}) /\ Small(table')
    BY <2>1, KeptByFinding DEF Inv, Answer, Small
  <2>3. sent' \in SUBSET Frames
    BY <2>1, SentTyped, ZeroOnWire DEF Answer
  <2> QED
    BY <1>2, <2>2, <2>3 DEF Inv, LinkTyped
<1> QED
  BY <1>1, <1>2 DEF RarpRequest

LEMMA KeptByProbe ==
  ASSUME Inv, NEW e \in Ethers, Probe(e)
  PROVE  Kept(table, table', {}) /\ Small(table') /\ LinkTyped'
<1>1. PICK found \in Found(e, TRUE), len \in NameLens :
         \E out \in {{}, link_send(RMP_BOOT_REPL + len, "BOOT_REPL", e, 0, "none")} :
                Answer(found.t, out)
  BY DEF Probe
<1>2. Kept(table, table', {}) /\ Small(table')
  BY <1>1, KeptByFinding DEF Inv, Answer, Small
<1>3. sent' \in SUBSET Frames
  <2> DEFINE reply == link_send(RMP_BOOT_REPL + len, "BOOT_REPL", e, 0, "none")
  <2>1. reply \in SUBSET Frames
    BY SentTyped, ZeroOnWire
  <2>2. sent' \in {{}, reply}
    BY <1>1 DEF Answer
  <2> QED
    BY <2>1, <2>2
<1> QED
  BY <1>2, <1>3 DEF Probe, Inv, LinkTyped

LEMMA KeptByReadRequest ==
  ASSUME Inv, NEW e \in Ethers, NEW sid \in WireIds, ReadRequest(e, sid)
  PROVE  Kept(table, table', {}) /\ Small(table') /\ LinkTyped'
<1>1. CASE Denied(e, FALSE, "rmp")
  BY <1>1, KeptByDenied
<1>2. CASE /\ \E found \in Found(e, FALSE) :
                 /\ Allowed(found, "rmp")
                 /\ LET t == host_session_check(found.t, found.h, "rmp", sid)
                    IN  \E out \in ReadReplies(t, found.h, e, sid) : Answer(t, out)
           /\ UNCHANGED <<rmp_sid, arp, opened>>
  <2>1. PICK found \in Found(e, FALSE) :
                 /\ Allowed(found, "rmp")
                 /\ LET t == host_session_check(found.t, found.h, "rmp", sid)
                    IN  \E out \in ReadReplies(t, found.h, e, sid) : Answer(t, out)
    BY <1>2
  <2> DEFINE t == host_session_check(found.t, found.h, "rmp", sid)
             h == found.h
  <2>2. Kept(table, found.t, {}) /\ found.h \in DOMAIN found.t.hosts
    BY <2>1, KeptByFinding DEF Inv, Allowed
  <2>3. Sound(found.t) /\ Kept(found.t, t, {})
    BY <2>2, KeptByCheck DEF Kept
  <2>4. t.hosts = found.t.hosts /\ Live(t) = Live(found.t) /\ Sound(t)
        /\ (Running(t) => ~Dangling(found.t, h))
    BY <2>2, <2>3, CheckSound
  <2>5. PICK out \in ReadReplies(t, h, e, sid) : Answer(t, out)
    BY <2>1
  <2> HIDE DEF t
  <2>6. Kept(table, table', {}) /\ Small(table')
    BY <2>2, <2>3, <2>5, KeptTransitive DEF Answer, Small
  <2>7. out \in SUBSET Frames
    <3>1. CASE Running(t) /\ CheckResult(t, h, "rmp", sid) = E_NOERROR
      <4>1. HasSession(t, h)
        BY <3>1 DEF CheckResult, E_NOERROR, E_NOSESSION
      <4>2. ~Dangling(t, h) /\ t.hosts[h].session \in SessPtrs
        <5>1. HasSession(found.t, h) /\ found.t.hosts[h].session \in SessPtrs
          BY <2>2, <2>3, <2>4, <4>1, TableFacts DEF HasSession, Sound
        <5>2. found.t.hosts[h].session \in Live(t)
          BY <2>4, <3>1, <5>1 DEF Dangling, SessionOf, Live
        <5> QED
          BY <2>4, <5>1, <5>2 DEF Live, Dangling, SessionOf
      <4>3. SessionOf(t, h).fd \in Source
        BY <2>4, <4>1, <4>2 DEF Sound, WithFiles, Dangling, SessionOf
      <4>4. PICK size \in ReadSizes \cup {0, -1} :
               out = link_send(RMP_READ_REPL + size, "READ_REPL", e, sid, SessionOf(t, h).fd)
        BY <3>1 DEF ReadReplies
      <4> QED
        BY <4>3, <4>4, SentTyped
    <3>2. CASE ~(Running(t) /\ CheckResult(t, h, "rmp", sid) = E_NOERROR)
      <4>1. out \in {{}, link_send(RMP_READ_REPL + 0, "READ_REPL", e, sid, "none")}
        BY <3>2 DEF ReadReplies
      <4> QED
        BY <4>1, SentTyped
    <3> QED
      BY <3>1, <3>2
  <2> QED
    BY <1>2, <2>5, <2>6, <2>7 DEF Inv, LinkTyped, Answer
<1> QED
  BY <1>1, <1>2 DEF ReadRequest

LEMMA KeptByBootDone ==
  ASSUME Inv, NEW e \in Ethers, BootDone(e)
  PROVE  Kept(table, table', {e}) /\ Small(table') /\ LinkTyped'
<1>1. CASE Denied(e, FALSE, "rmp")
  BY <1>1, KeptByDenied, KeptByFewer
<1>2. CASE /\ \E found \in Found(e, FALSE) :
                 /\ Allowed(found, "rmp")
                 /\ Answer(host_session_delete(found.t, found.h), {})
           /\ UNCHANGED <<rmp_sid, arp, opened>>
  <2>1. PICK found \in Found(e, FALSE) : /\ Allowed(found, "rmp")
                                         /\ Answer(host_session_delete(found.t, found.h), {})
    BY <1>2
  <2> DEFINE t == host_session_delete(found.t, found.h)
  <2>2. Kept(table, found.t, {e}) /\ found.h \in DOMAIN found.t.hosts
        /\ found.t.hosts[found.h].eth = e
    BY <2>1, KeptByFinding, KeptByFewer DEF Inv, Allowed
  <2>3. Kept(found.t, t, {e})
    BY <2>2, KeptByDelete DEF Kept
  <2>4. Answer(t, {})
    BY <2>1
  <2> HIDE DEF t
  <2> QED
    BY <1>2, <2>2, <2>3, <2>4, KeptTransitive DEF Answer, Small, Inv, LinkTyped
<1> QED
  BY <1>1, <1>2 DEF BootDone

(* A session that host h, of address e, asks for.                          *)
LEMMA KeptByAdding ==
  ASSUME NEW t, Sound(t), NEW h \in DOMAIN t.hosts, NEW E, t.hosts[h].eth \in E,
         NEW new \in NewSessions, new.owner = t.hosts[h].eth,
         TemplatesStayOff /\ Private(t) => t.hosts[h].name \notin MachNames
  PROVE  LET added == host_session_add(t, h, new)
             s == added.hosts[h].session
         IN  \/ ~Running(added) /\ Kept(t, added, E) /\ Len(added.hosts) = Len(t.hosts)
             \/ s = Null /\ Kept(t, added, E) /\ Len(added.hosts) = Len(t.hosts)
             \/ /\ Running(added) /\ s # Null
                /\ \A file \in Source :
                      /\ Kept(t, WithFile(added, h, file), E)
                      /\ Len(WithFile(added, h, file).hosts) = Len(t.hosts)
<1> DEFINE old == Emptied(t, h)
           added == host_session_add(t, h, new)
           s == added.hosts[h].session
<1>1. \/ added = old /\ (~Running(added) \/ s = Null)
      \/ /\ Running(added) /\ s # Null /\ s \in SessPtrs
         /\ old.sess[s] = Free
         /\ \A file : WithFile(added, h, file) = Opened(old, h, s, new, file)
  BY AddEnds
<1>2. Kept(t, old, E) /\ SameHosts(t, old)
  BY KeptByEmptying
<1> SUFFICES \/ ~Running(added) /\ Kept(t, added, E) /\ Len(added.hosts) = Len(t.hosts)
             \/ s = Null /\ Kept(t, added, E) /\ Len(added.hosts) = Len(t.hosts)
             \/ /\ Running(added) /\ s # Null
                /\ \A file \in Source :
                      /\ Kept(t, WithFile(added, h, file), E)
                      /\ Len(WithFile(added, h, file).hosts) = Len(t.hosts)
  OBVIOUS
<1> HIDE DEF old, added, s
<1>3. CASE added = old /\ (~Running(added) \/ s = Null)
  BY <1>1, <1>2, <1>3 DEF SameHosts
<1>4. CASE /\ Running(added) /\ s # Null /\ s \in SessPtrs
           /\ old.sess[s] = Free
           /\ \A file : WithFile(added, h, file) = Opened(old, h, s, new, file)
  <2>1. ASSUME NEW file \in Source
        PROVE  /\ Kept(t, WithFile(added, h, file), E)
               /\ Len(WithFile(added, h, file).hosts) = Len(t.hosts)
    <3>1. h \in DOMAIN old.hosts /\ old.hosts[h].eth = t.hosts[h].eth /\ Sound(old)
      BY <1>2 DEF SameHosts, Kept
    <3> DEFINE u == Opened(old, h, s, new, file)
    <3>2. Sound(u) /\ Len(u.hosts) = Len(old.hosts)
      BY <1>4, <3>1, OpenedSound
    <3>3. u = WithFile(added, h, file)
      BY <1>4
    <3> SUFFICES Kept(t, u, E) /\ Len(u.hosts) = Len(t.hosts)
      BY <3>3
    <3>4. CASE TemplatesStayOff /\ Private(t)
      <4>1. old.hosts[h].name \notin MachNames
        BY <1>2, <3>4 DEF SameHosts
      <4>2. Kept(old, u, E)
        BY <1>4, <3>1, <4>1, KeptByOpening
      <4>3. Kept(t, u, E)
        BY <1>2, <4>2, KeptTransitive
      <4> HIDE DEF u
      <4>4. Len(u.hosts) = Len(t.hosts)
        BY <1>2, <3>2 DEF SameHosts
      <4> QED
        BY <4>3, <4>4 DEF u
    <3>5. CASE ~(TemplatesStayOff /\ Private(t))
      BY <1>2, <3>2, <3>5 DEF Kept, SameHosts
    <3> QED
      BY <3>4, <3>5
  <2> QED
    BY <1>4, <2>1
<1> QED
  BY <1>1, <1>3, <1>4

LEMMA KeptByBootFile ==
  ASSUME Inv, NEW e \in Stations, NEW f \in Files \cup {NoFile}, BootFile(e, f)
  PROVE  Kept(table, table', {e}) /\ Small(table') /\ LinkTyped'
<1>1. e \in Ethers
  BY LinkAssumption
<1>2. PICK found \in Found(e, TRUE) :
         /\ Allowed(found, "rmp")
         /\ IF f = NoFile THEN NoSuchFile(found.t)
            ELSE WithSession(e, found.h, found.t, f, rmp_sid + 1)
  BY DEF BootFile
<1> DEFINE t == found.t
           h == found.h
<1>3. Kept(table, t, {e}) /\ h \in DOMAIN t.hosts /\ t.hosts[h].eth = e /\ Sound(t)
  BY <1>1, <1>2, KeptByFinding, KeptByFewer DEF Inv, Allowed, Kept
<1>4. rmp_sid < MaxSid /\ arp' = arp
  BY DEF BootFile
<1>5. CASE f = NoFile
  <2>1. Answer(Stop(t, "killed"), {}) /\ UNCHANGED <<rmp_sid, opened>>
    BY <1>2, <1>5 DEF NoSuchFile
  <2>2. Kept(t, Stop(t, "killed"), {e})
    BY <1>3, KeptByStop DEF Statuses
  <2> QED
    BY <1>3, <1>4, <2>1, <2>2, KeptTransitive DEF Answer, Small, Inv, LinkTyped
<1>6. CASE f # NoFile
  <2> DEFINE sid == rmp_sid + 1
             new == NewSession("rmp", sid, e)
             added == host_session_add(t, h, new)
             s == added.hosts[h].session
  <2>1. f \in Files /\ sid \in 1 .. MaxSid /\ sid \in 0 .. MaxSid
    BY <1>4, <1>6, LinkAssumption DEF Inv, LinkTyped
  <2>2. /\ rmp_sid' = sid
        /\ \/ /\ ~Running(added) \/ s = Null
              /\ Answer(added, {})
              /\ UNCHANGED opened
           \/ /\ Running(added) /\ s # Null
              /\ \E fd \in OpenResults(f) :
                    /\ Answer(WithFile(added, h, fd), {})
                    /\ opened' = IF fd = "stdin" THEN opened
                                 ELSE opened \cup {[to |-> e, sid |-> sid, from |-> f]}
    BY <1>2, <1>6 DEF WithSession, WithFile
  <2> HIDE DEF sid
  <2>3. new \in NewSessions /\ new.owner = e
    BY <1>1, <2>1, LinkAssumption DEF NewSession, NewSessions
  <2>4. TemplatesStayOff /\ Private(t) => t.hosts[h].name \notin MachNames
    BY <1>3 DEF Private, TemplatesIdle
  <2> HIDE DEF t, h, new
  <2>5. \/ ~Running(added) /\ Kept(t, added, {e})
        \/ s = Null /\ Kept(t, added, {e})
        \/ /\ Running(added) /\ s # Null
           /\ \A file \in Source : Kept(t, WithFile(added, h, file), {e})
    <3> DEFINE E == {e}
    <3> HIDE DEF E
    <3>1. \/ ~Running(added) /\ Kept(t, added, E)
          \/ s = Null /\ Kept(t, added, E)
          \/ /\ Running(added) /\ s # Null
             /\ \A file \in Source : Kept(t, WithFile(added, h, file), E)
      <4>1. e \in E
        BY DEF E
      <4> QED
        BY <1>3, <2>3, <2>4, <4>1, KeptByAdding
    <3> QED
      BY <3>1 DEF E
  <2> HIDE DEF added, s
  <2>6. \A fd \in OpenResults(f) : fd \in Source
    BY <2>1 DEF OpenResults, Source
  <2>7. Kept(t, table', {e}) /\ Small(table') /\ sent' = {}
    BY <2>2, <2>5, <2>6 DEF Answer, Small
  <2>8. opened' \in SUBSET [to : Ethers, sid : 0 .. MaxSid, from : Files]
    <3>1. [to |-> e, sid |-> sid, from |-> f] \in [to : Ethers, sid : 0 .. MaxSid, from : Files]
      BY <1>1, <2>1
    <3>2. opened' \in {opened, opened \cup {[to |-> e, sid |-> sid, from |-> f]}}
      BY <2>2
    <3> QED
      BY <3>1, <3>2 DEF Inv, LinkTyped
  <2>9. Kept(table, table', {e})
    BY <1>3, <2>7, KeptTransitive
  <2> QED
    BY <1>4, <2>1, <2>2, <2>7, <2>8, <2>9 DEF Inv, LinkTyped
<1> QED
  BY <1>5, <1>6

LEMMA KeptByTick ==
  ASSUME Inv, Tick
  PROVE  /\ Sound(table') /\ Small(table') /\ LinkTyped'
         /\ Private(table) => Private(table')
         /\ \A s \in SessPtrs : ~Replaced(s)
<1> DEFINE t == table
           older(s) == [t.sess[s] EXCEPT !.idle = @ + 1]
           sess == [s \in SessPtrs |-> IF t.sess[s] = Free \/ t.sess[s].idle > SessionTimeout
                                       THEN t.sess[s] ELSE older(s)]
           u == [t EXCEPT !.sess = sess]
<1>1. t \in Tables /\ Linked(t) /\ WithFiles(t) /\ Counted(t)
  BY DEF Inv, Sound
<1>2. table' = u
  BY DEF Tick
<1>3. t.sess \in [SessPtrs -> Sessions \cup {Free}]
  BY <1>1, TableFacts
<1>4. ASSUME NEW s \in SessPtrs, t.sess[s] # Free, ~(t.sess[s].idle > SessionTimeout)
      PROVE  /\ older(s) \in Sessions /\ older(s) # Free /\ older(s).fd = t.sess[s].fd
             /\ older(s).owner = t.sess[s].owner /\ older(s).sid = t.sess[s].sid
             /\ older(s).service = t.sess[s].service
  BY <1>3, <1>4, FreeAssumption, TableAssumption DEF Sessions
<1> HIDE DEF older
<1>5. sess \in [SessPtrs -> Sessions \cup {Free}]
  BY <1>3, <1>4
<1>6. \A s \in SessPtrs :
        /\ sess[s] = Free <=> t.sess[s] = Free
        /\ t.sess[s] # Free => /\ sess[s].fd = t.sess[s].fd
                               /\ sess[s].owner = t.sess[s].owner
                               /\ sess[s].sid = t.sess[s].sid
                               /\ sess[s].service = t.sess[s].service
  BY <1>4
<1> HIDE DEF sess
<1>7. /\ u \in Tables /\ u.hosts = t.hosts /\ u.sess = sess /\ u.status = t.status
      /\ u.g_n_sessions = t.g_n_sessions /\ u.g_hosts = t.g_hosts
  BY <1>1, <1>5 DEF Tables
<1> HIDE DEF u
<1>8. Sound(u)
  <2>1. Live(u) = Live(t)
    BY <1>6, <1>7 DEF Live
  <2> QED
    BY <1>1, <1>6, <1>7, <2>1 DEF Sound, Linked, WithFiles, Counted, Running
<1>9. Private(t) => Private(u)
  <2>1. \A h \in DOMAIN t.hosts : HasSession(t, h) => t.hosts[h].session \in SessPtrs
    BY <1>1, TableFacts
  <2>2. Owned(t) => Owned(u)
    BY <1>6, <1>7, <2>1 DEF Owned, HasSession
  <2> QED
    BY <1>7, <2>2 DEF Private, TemplatesIdle, Unshared, HasSession
<1>10. \A s \in SessPtrs : ~Replaced(s)
  BY <1>2, <1>6, <1>7 DEF Replaced
<1>11. Small(table') /\ LinkTyped'
  BY <1>2, <1>7 DEF Tick, Inv, Small, LinkTyped
<1> QED
  BY <1>2, <1>8, <1>9, <1>10, <1>11

LEMMA ReplyKeepsTypes ==
  ASSUME LinkTyped, NEW t, NEW out, Reply(t, out)
  PROVE  LinkTyped' /\ table' = t /\ data' = out
BY DEF Reply, LinkTyped

LEMMA AllowedHost ==
  ASSUME Inv, NEW n, TftpAllowed(util_ip2host(table, n))
  PROVE  LET h == util_ip2host(table, n)
         IN  h \in DOMAIN table.hosts /\ table.hosts[h].name = n /\ "tftp" \in table.hosts[h].services
<1> DEFINE h == util_ip2host(table, n)
<1>1. \/ h \in DOMAIN table.hosts /\ table.hosts[h].name = n
      \/ h \in {Forever, Null}
  BY SearchIs DEF Inv, Sound, util_ip2host
<1> QED
  BY <1>1 DEF TftpAllowed

LEMMA KeptByTftpDenied ==
  ASSUME Inv, NEW n, TftpDenied(n) \/ TftpRejected(n)
  PROVE  Kept(table, table', {}) /\ Small(table') /\ LinkTyped' /\ BootdTyped'
<1>1. table' \in {table, Stop(table, "hung")} /\ data' = {} /\ requested' = requested
  BY DEF TftpDenied, TftpRejected, Reply
<1>2. LinkTyped'
  BY ReplyKeepsTypes DEF TftpDenied, TftpRejected, Inv
<1>3. Kept(table, table, {}) /\ Kept(table, Stop(table, "hung"), {})
  BY KeptReflexive, KeptByStop DEF Inv, Statuses
<1>4. Stop(table, "hung").hosts = table.hosts
  BY StopSame DEF Inv
<1> QED
  BY <1>1, <1>2, <1>3, <1>4 DEF Inv, Small, BootdTyped

LEMMA KeptByTftpAck ==
  ASSUME Inv, NEW n \in Senders, NEW p \in Ports, TftpAck(n, p)
  PROVE  Kept(table, table', {}) /\ Small(table') /\ LinkTyped' /\ BootdTyped'
<1> DEFINE h == util_ip2host(table, n)
           t == host_session_check(table, h, "tftp", p)
<1>1. h \in DOMAIN table.hosts
  BY AllowedHost DEF TftpAck
<1>2. Sound(table) /\ Kept(table, t, {}) /\ t.hosts = table.hosts
      /\ (Running(t) => ~Dangling(table, h))
  BY <1>1, KeptByCheck, CheckSound DEF Inv
<1>3. \/ /\ Running(t) /\ CheckResult(table, h, "tftp", p) = E_NOERROR
         /\ \E out \in Blocks(n, p, SessionOf(table, h).fd) : Reply(t, out)
      \/ Reply(t, {})
  BY DEF TftpAck
<1>4. requested' = requested
  BY DEF TftpAck
<1> HIDE DEF h, t
<1>5. ASSUME Running(t), CheckResult(table, h, "tftp", p) = E_NOERROR,
             NEW out \in Blocks(n, p, SessionOf(table, h).fd)
      PROVE  out \in SUBSET [to : Senders, sid : Ports, from : Source]
  <2>1. HasSession(table, h)
    BY <1>5 DEF CheckResult, E_NOERROR, E_NOSESSION
  <2>2. SessionOf(table, h).fd \in Source
    BY <1>1, <1>2, <1>5, <2>1, TableFacts DEF Sound, WithFiles, Dangling, SessionOf
  <2> QED
    BY <1>5, <2>2 DEF Blocks
<1>6. PICK out \in SUBSET [to : Senders, sid : Ports, from : Source] : Reply(t, out)
  BY <1>3, <1>5
<1>7. LinkTyped' /\ table' = t /\ data' = out
  BY <1>6, ReplyKeepsTypes DEF Inv
<1> QED
  BY <1>2, <1>4, <1>6, <1>7 DEF Inv, Small, BootdTyped

LEMMA KeptByTftpRead ==
  ASSUME Inv, NEW n \in Senders, NEW p \in Ports, NEW f \in Files, TftpRead(n, p, f)
  PROVE  /\ Kept(table, table', {table.hosts[util_ip2host(table, n)].eth})
         /\ Small(table') /\ LinkTyped' /\ BootdTyped'
<1> DEFINE h == util_ip2host(table, n)
           e == table.hosts[h].eth
           old == host_session_delete(table, h)
           ses == NewSession("tftp", p, e)
           new == IF Running(old) THEN host_session_add(old, h, ses) ELSE old
           s == new.hosts[h].session
           E == {e}
<1>1. h \in DOMAIN table.hosts /\ table.hosts[h].name = n /\ "tftp" \in table.hosts[h].services
  BY AllowedHost DEF TftpRead
<1>2. Sound(table) /\ table.hosts[h] \in Hosts /\ e \in Ethers
  BY <1>1, TableFacts DEF Inv, Sound, Hosts
<1>3. \/ /\ ~Running(new) \/ s = Null
         /\ Reply(new, {})
         /\ requested' = [requested EXCEPT ![n] = Nothing]
      \/ /\ Running(new) /\ s # Null
         /\ Reply(WithFile(new, h, "stdin"), {})
         /\ requested' = [requested EXCEPT ![n] = Nothing]
      \/ /\ Running(new) /\ s # Null
         /\ \E out \in Blocks(n, p, f) : Reply(WithFile(new, h, f), out)
         /\ requested' = [requested EXCEPT ![n] = [sid |-> p, from |-> f]]
  BY DEF TftpRead, WithFile
<1>4. ses \in NewSessions /\ ses.owner = e
  BY <1>2, BootdAssumption DEF NewSession, NewSessions
<1>5. Kept(table, old, E) /\ SameHosts(table, old)
  BY <1>1, <1>2, KeptByDelete, DeleteSame
<1>6. Sound(old) /\ h \in DOMAIN old.hosts /\ old.hosts[h].eth = e /\ old.hosts[h].name = n
      /\ "tftp" \in old.hosts[h].services /\ Len(old.hosts) = Len(table.hosts)
  BY <1>1, <1>5 DEF Kept, SameHosts
<1>7. TemplatesStayOff /\ Private(old) => old.hosts[h].name \notin MachNames
  BY <1>6 DEF Private, TemplatesIdle
<1>a. e \in E
  OBVIOUS
<1> HIDE DEF h, old, ses, E
<1>8. \/ ~Running(new) /\ Kept(table, new, E) /\ Len(new.hosts) = Len(table.hosts)
      \/ s = Null /\ Kept(table, new, E) /\ Len(new.hosts) = Len(table.hosts)
      \/ /\ Running(new) /\ s # Null
         /\ \A file \in Source : /\ Kept(table, WithFile(new, h, file), E)
                                 /\ Len(WithFile(new, h, file).hosts) = Len(table.hosts)
  <2>1. CASE ~Running(old)
    BY <1>5, <1>6, <2>1
  <2>2. CASE Running(old)
    <3>1. new = host_session_add(old, h, ses)
      BY <2>2
    <3> HIDE DEF new
    <3>2. \/ ~Running(new) /\ Kept(old, new, E) /\ Len(new.hosts) = Len(old.hosts)
          \/ s = Null /\ Kept(old, new, E) /\ Len(new.hosts) = Len(old.hosts)
          \/ /\ Running(new) /\ s # Null
             /\ \A file \in Source : /\ Kept(old, WithFile(new, h, file), E)
                                     /\ Len(WithFile(new, h, file).hosts) = Len(old.hosts)
      BY <1>4, <1>6, <1>7, <1>a, <3>1, KeptByAdding
    <3> HIDE DEF s, e
    <3>3. \A u : Kept(old, u, E) => Kept(table, u, E)
      BY <1>5, KeptTransitive
    <3> QED
      BY <1>6, <3>2, <3>3
  <2> QED
    BY <2>1, <2>2
<1>9. {f, "stdin"} \subseteq Source
  BY DEF Source
<1> HIDE DEF new, s
<1>10. PICK t, out :
         /\ Reply(t, out)
         /\ Kept(table, t, E) /\ Len(t.hosts) = Len(table.hosts)
         /\ out \in SUBSET [to : Senders, sid : Ports, from : Source]
  <2>1. {} \in SUBSET [to : Senders, sid : Ports, from : Source]
    OBVIOUS
  <2>2. \A out \in Blocks(n, p, f) : out \in SUBSET [to : Senders, sid : Ports, from : Source]
    BY DEF Blocks, Source
  <2>3. CASE ~Running(new) \/ s = Null
    BY <1>3, <1>8, <2>1, <2>3
  <2>4. CASE Running(new) /\ s # Null
    BY <1>3, <1>8, <1>9, <2>1, <2>2, <2>4
  <2> QED
    BY <2>3, <2>4
<1>11. LinkTyped' /\ table' = t /\ data' = out
  BY <1>10, ReplyKeepsTypes DEF Inv
<1>12. requested' \in [Senders -> {Nothing} \cup [sid : Ports, from : Files]]
  BY <1>3 DEF Inv, BootdTyped
<1> QED
  BY <1>10, <1>11, <1>12 DEF Inv, Small, BootdTyped, h, E

LEMMA InitInv ==
  ASSUME BootdInit
  PROVE  Inv /\ (TemplatesStayOff => Private(table))
<1>1. PICK config \in Configured : table = TableOf(config)
  BY DEF BootdInit, Init
<1> DEFINE Entries == [name : Names, eth : Ethers, services : SUBSET Services]
           n == Len(config)
           host(i) == [name |-> config[i].name, eth |-> config[i].eth,
                       services |-> config[i].services, session |-> Null,
                       next |-> IF i = n THEN Null ELSE i + 1]
           hosts == [i \in DOMAIN config |-> host(i)]
<1>2. config \in Seq(Entries) /\ n <= MaxHosts
  BY LinkAssumption
<1> HIDE DEF Entries
<1>3. n \in Nat /\ DOMAIN config = 1 .. n /\ \A i \in 1 .. n : config[i] \in Entries
  BY <1>2
<1>4. \A i \in 1 .. n : host(i) \in Hosts /\ host(i).next <= n
  <2>1. ASSUME NEW i \in 1 .. n
        PROVE  host(i) \in Hosts /\ host(i).next <= n
    <3> DEFINE next == IF i = n THEN Null ELSE i + 1
    <3>1. next \in Nat /\ next <= n
      <4>1. n \in Nat
        BY <1>3
      <4> HIDE DEF n
      <4>2. CASE i = n
        BY <4>1, <4>2 DEF Null
      <4>3. CASE i # n
        BY <4>1, <4>3
      <4> QED
        BY <4>2, <4>3
    <3>2. config[i].name \in Names /\ config[i].eth \in Ethers
          /\ config[i].services \in SUBSET Services
      BY <1>3 DEF Entries
    <3>3. host(i) = [name |-> config[i].name, eth |-> config[i].eth,
                     services |-> config[i].services, session |-> Null, next |-> next]
      OBVIOUS
    <3> HIDE DEF next, host
    <3> QED
      BY <3>1, <3>2, <3>3 DEF Hosts
  <2> QED
    BY <2>1
<1>5. table = [hosts |-> hosts, g_hosts |-> IF config = <<>> THEN Null ELSE 1,
               sess |-> [s \in SessPtrs |-> Free], g_n_sessions |-> 0, status |-> "running"]
  BY <1>1 DEF TableOf
<1>6. /\ hosts \in Seq(Hosts) /\ Len(hosts) = n /\ DOMAIN hosts = 1 .. n
      /\ \A i \in 1 .. n : hosts[i] = host(i)
  <2>1. hosts \in [1 .. n -> Hosts]
    BY <1>3, <1>4
  <2> QED
    BY <1>3, <2>1
<1>7. (IF config = <<>> THEN Null ELSE 1) \in {0, 1} /\ (n = 0 => config = <<>>)
  BY <1>2, EmptySeq DEF Null
<1>8. table \in Tables
  <2>1. (IF config = <<>> THEN Null ELSE 1) \in Nat
    BY <1>7
  <2> HIDE DEF hosts
  <2>2. [s \in SessPtrs |-> Free] \in [SessPtrs -> Sessions \cup {Free}]
    OBVIOUS
  <2> DEFINE first == IF config = <<>> THEN Null ELSE 1
             sess == [s \in SessPtrs |-> Free]
  <2>3. table = [hosts |-> hosts, g_hosts |-> first, sess |-> sess, g_n_sessions |-> 0,
                 status |-> "running"]
    BY <1>5
  <2>4. hosts \in Seq(Hosts) /\ first \in Nat /\ sess \in [SessPtrs -> Sessions \cup {Free}]
    BY <1>6, <2>1, <2>2
  <2> HIDE DEF first, sess
  <2> QED
    BY <2>3, <2>4 DEF Tables, Statuses
<1>9. /\ table.hosts = hosts /\ \A s \in SessPtrs : table.sess[s] = Free
      /\ table.g_n_sessions = 0
  BY <1>5
<1>10. Linked(table)
  <2>1. table.g_hosts <= n
    BY <1>3, <1>5, <1>7 DEF Null
  <2> QED
    BY <1>4, <1>6, <1>9, <2>1 DEF Linked
<1>11. WithFiles(table) /\ Counted(table)
  <2>1. Live(table) = {}
    BY <1>9 DEF Live
  <2> QED
    BY <1>9, <2>1, FS_EmptySet DEF WithFiles, Counted
<1>12. Small(table) /\ LinkTyped /\ BootdTyped
  BY <1>2, <1>6, <1>9, LinkAssumption DEF BootdInit, Init, Small, LinkTyped, BootdTyped
<1>13. ASSUME TemplatesStayOff PROVE Private(table)
  <2>1. \A h \in DOMAIN hosts : hosts[h].session = Null
    BY <1>6
  <2>2. TemplatesIdle(table)
    <3>1. ASSUME NEW h \in DOMAIN hosts, hosts[h].name \in MachNames
          PROVE  /\ hosts[h].eth \notin Stations
                 /\ hosts[h].name \in Senders => "tftp" \notin hosts[h].services
      BY <1>3, <1>6, <1>13, <3>1 DEF TemplatesStayOff
    <3> HIDE DEF hosts
    <3> QED
      BY <1>9, <2>1, <3>1 DEF TemplatesIdle, HasSession
  <2> HIDE DEF hosts
  <2> QED
    BY <1>9, <2>1, <2>2 DEF Private, Owned, Unshared, HasSession
<1> QED
  BY <1>8, <1>10, <1>11, <1>12, <1>13 DEF Inv, Sound

LEMMA SparedNotReplaced ==
  ASSUME NEW E, Spares(table, table', E), NEW s \in SessPtrs, Replaced(s)
  PROVE  table.sess[s].owner \in E
BY DEF Spares, Replaced, InUse

(* Every step keeps the invariant, and ends only its requester's sessions. *)
Respects == \A s \in SessPtrs : Replaced(s) => RequestOf(table.sess[s].owner)

LEMMA FrameKeeps ==
  ASSUME Inv, NEW e \in Stations, Frame(e), data' = {}, requested' = requested
  PROVE  Inv' /\ (TemplatesStayOff /\ Private(table) => Private(table') /\ Respects)
<1>1. e \in Ethers
  BY LinkAssumption
<1>2. BootdTyped'
  BY DEF Inv, BootdTyped
<1>3. CASE Kept(table, table', {}) /\ Small(table') /\ LinkTyped'
  BY <1>2, <1>3, SparedNotReplaced DEF Kept, Inv, Respects, Small
<1>4. CASE /\ Kept(table, table', {e}) /\ Small(table') /\ LinkTyped'
           /\ BootRequest(e) \/ BootDone(e)
  <2>1. Inv'
    BY <1>2, <1>4 DEF Kept, Inv, Small
  <2>2. RequestOf(e)
    BY <1>4 DEF RequestOf
  <2>3. Spares(table, table', {e}) => Respects
    BY <2>2, SparedNotReplaced DEF Respects
  <2> QED
    BY <1>4, <2>1, <2>3 DEF Kept
<1>5. CASE RarpRequest(e)
  BY <1>1, <1>3, <1>5, KeptByRarp
<1>6. CASE \E sid \in WireIds : ReadRequest(e, sid)
  BY <1>1, <1>3, <1>6, KeptByReadRequest
<1>7. CASE BootDone(e)
  BY <1>1, <1>4, <1>7, KeptByBootDone
<1>8. CASE BootRequest(e)
  <2>1. CASE Denied(e, TRUE, "rmp")
    BY <1>1, <1>3, <2>1, KeptByDenied
  <2>2. CASE Probe(e)
    BY <1>1, <1>3, <2>2, KeptByProbe
  <2>3. CASE \E f \in Files \cup {NoFile} : BootFile(e, f)
    BY <1>4, <1>8, <2>3, KeptByBootFile
  <2> QED
    BY <1>8, <2>1, <2>2, <2>3 DEF BootRequest
<1> QED
  BY <1>5, <1>6, <1>7, <1>8 DEF Frame

LEMMA DatagramKeeps ==
  ASSUME Inv, NEW n \in Senders, Datagram(n)
  PROVE  Inv' /\ (TemplatesStayOff /\ Private(table) => Private(table') /\ Respects)
<1>1. CASE Kept(table, table', {}) /\ Small(table') /\ LinkTyped' /\ BootdTyped'
  BY <1>1, SparedNotReplaced DEF Kept, Inv, Respects, Small
<1>2. CASE TftpDenied(n) \/ TftpRejected(n)
  BY <1>1, <1>2, KeptByTftpDenied
<1>3. CASE \E p \in Ports : TftpAck(n, p)
  BY <1>1, <1>3, KeptByTftpAck
<1>4. ASSUME NEW p \in Ports, NEW f \in Files, TftpRead(n, p, f)
      PROVE  Inv' /\ (TemplatesStayOff /\ Private(table) => Private(table') /\ Respects)
  <2> DEFINE e == table.hosts[util_ip2host(table, n)].eth
  <2>1. Kept(table, table', {e}) /\ Small(table') /\ LinkTyped' /\ BootdTyped'
    BY <1>4, KeptByTftpRead
  <2>2. RequestOf(e)
    BY <1>4 DEF RequestOf
  <2> HIDE DEF e
  <2>3. Inv'
    BY <2>1 DEF Kept, Inv, Small
  <2>4. Spares(table, table', {e}) => Respects
    BY <2>2, SparedNotReplaced DEF Respects
  <2> QED
    BY <2>1, <2>3, <2>4 DEF Kept
<1> QED
  BY <1>2, <1>3, <1>4 DEF Datagram

LEMMA StepKeeps ==
  ASSUME Inv, [BootdNext]_bootdVars
  PROVE  Inv' /\ (TemplatesStayOff /\ Private(table) => Private(table') /\ Respects)
<1>1. CASE \E n \in Senders : Datagram(n)
  BY <1>1, DatagramKeeps
<1>2. CASE (\E e \in Stations : Frame(e)) /\ data' = {} /\ UNCHANGED requested
  BY <1>2, FrameKeeps
<1>3. CASE Tick /\ data' = {} /\ UNCHANGED requested
  BY <1>3, KeptByTick DEF Inv, Small, BootdTyped, Respects
<1>4. CASE UNCHANGED bootdVars
  <2>1. Inv' /\ (Private(table) => Private(table'))
    BY <1>4 DEF bootdVars, vars, Inv, LinkTyped, BootdTyped
  <2>2. \A s \in SessPtrs : ~Replaced(s)
    BY <1>4 DEF bootdVars, vars, Replaced
  <2> QED
    BY <2>1, <2>2 DEF Respects
<1> QED
  BY <1>1, <1>2, <1>3, <1>4 DEF BootdNext, Next

----------------------------------------------------------------------------
(* The theorems.                                                           *)

(* Pointers, sessions, counter and histories stay sound from the start.    *)
LEMMA InvAlways == BootdSpec => []Inv
<1>1. BootdInit => Inv
  BY InitInv
<1>2. Inv /\ [BootdNext]_bootdVars => Inv'
  BY StepKeeps
<1> QED
  BY <1>1, <1>2, PTL DEF BootdSpec

(* So does the ownership of sessions, if the templates keep none.          *)
LEMMA PrivateAlways ==
  ASSUME TemplatesStayOff
  PROVE  BootdSpec => []PrivateInv
<1>1. BootdInit => PrivateInv
  BY InitInv DEF PrivateInv
<1>2. PrivateInv /\ [BootdNext]_bootdVars => PrivateInv'
  BY StepKeeps DEF PrivateInv
<1> QED
  BY <1>1, <1>2, PTL DEF BootdSpec

LEMMA InvTypeOK ==
  ASSUME Inv
  PROVE  BootdTypeOK
<1>1. table \in Tables /\ Linked(table) /\ Len(table.hosts) <= MaxHosts
  BY DEF Inv, Sound, Small
<1>2. /\ table.hosts \in Seq(Hosts) /\ Len(table.hosts) \in Nat
      /\ DOMAIN table.hosts = 1 .. Len(table.hosts)
      /\ \A h \in DOMAIN table.hosts : table.hosts[h] \in Hosts
  BY <1>1, TableFacts
<1>3. MaxHosts \in Nat
  BY LinkAssumption
<1>4. table.g_hosts \in Pointers
  BY <1>1, <1>2, <1>3 DEF Tables, Linked, Pointers
<1>5. \A h \in DOMAIN table.hosts : table.hosts[h] \in HostRecords
  <2>1. ASSUME NEW h \in DOMAIN table.hosts PROVE table.hosts[h] \in HostRecords
    <3>1. table.hosts[h] \in Hosts /\ table.hosts[h].next <= Len(table.hosts)
      BY <1>1, <1>2 DEF Linked
    <3>2. table.hosts[h].next \in Pointers
      BY <1>1, <1>2, <1>3, <3>1 DEF Hosts, Pointers
    <3> QED
      BY <3>1, <3>2 DEF Hosts, HostRecords
  <2> QED
    BY <2>1
<1>6. table.hosts \in Seq(HostRecords)
  BY <1>2, <1>5
<1>7. /\ table.sess \in [SessPtrs -> Sessions \cup {Free}] /\ table.g_n_sessions \in Int
      /\ table.status \in {"running", "exited", "killed", "hung", "undefined"}
  BY <1>1 DEF Tables, Statuses
<1> QED
  BY <1>4, <1>6, <1>7 DEF BootdTypeOK, TypeOK, Inv, LinkTyped, BootdTyped

(* Type correctness of the host table, its sessions, the frames and blocks *)
(* sent and the histories: no session is ever without a file when it is    *)
(* read from, and no pointer leaves the table (host.c, rmp.c, tftp.c).     *)
THEOREM BootdTypeCorrect == BootdSpec => []BootdTypeOK
<1>1. Inv => BootdTypeOK
  BY InvTypeOK
<1> QED
  BY <1>1, InvAlways, PTL

(* g_n_sessions is the number of allocated sessions as long as the daemon  *)
(* runs, for any order of requests, timeouts and clones: neither           *)
(* host_session_delete through a clone's copied pointer nor the eviction   *)
(* in host_session_add loses count.                                        *)
THEOREM CountIsLiveAlways == BootdSpec => []CountIsLive
<1>1. Inv => CountIsLive
  BY DEF Inv, Sound, Counted, Live, CountIsLive
<1> QED
  BY <1>1, InvAlways, PTL

(* host_clone copies the session pointer of its source; if the hosts       *)
(* clones are made of keep no session, no session is pointed to twice and  *)
(* none is pointed to after it was freed.                                  *)
THEOREM SessionsStayUnshared ==
  TemplatesStayOff => (BootdSpec => []SessionsUnshared)
<1> SUFFICES ASSUME TemplatesStayOff PROVE BootdSpec => []SessionsUnshared
  OBVIOUS
<1>1. PrivateInv => SessionsUnshared
  BY DEF PrivateInv, Private, Owned, Unshared, SessionsUnshared, Dangling, SessionOf
<1> QED
  BY <1>1, PrivateAlways, PTL

(* Under the same condition a session in use ends or is replaced only by a *)
(* boot request, a boot done message or a read request of its own host,    *)
(* whatever other hosts, their clones and the clock do.                    *)
THEOREM OnlyEndedByItsHost ==
  TemplatesStayOff => (BootdSpec => EndedByItsHost)
<1> SUFFICES ASSUME TemplatesStayOff PROVE BootdSpec => EndedByItsHost
  OBVIOUS
<1>1. PrivateInv /\ [BootdNext]_bootdVars => Respects
  BY StepKeeps DEF PrivateInv
<1>2. PrivateInv /\ [BootdNext]_bootdVars =>
         [\A s \in SessPtrs : Replaced(s) => RequestOf(table.sess[s].owner)]_bootdVars
  BY <1>1 DEF Respects
<1> QED
  BY <1>2, PrivateAlways, PTL DEF BootdSpec, EndedByItsHost
=============================================================================
