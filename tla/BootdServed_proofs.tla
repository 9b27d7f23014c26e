-------------------------- MODULE BootdServed_proofs --------------------------
(***************************************************************************)
(* Proof that every read reply and every block was opened for the one who  *)
(* gets it (ServedAsOpened of module Bootd).  It needs that the search for *)
(* a host name keeps finding the same host, however the list grows.        *)
(***************************************************************************)
EXTENDS Bootd_proofs

----------------------------------------------------------------------------
(* The walk over the list is what its definition says: the recursive       *)
(* function exists.                                                        *)
Walks(t, f, n) ==
    /\ f \in [0 .. n -> 0 .. Len(t.hosts)]
    /\ f[0] = t.g_hosts
    /\ \A k \in 1 .. n : f[k] = Following(t, f[k - 1])

LEMMA FollowingRange ==
  ASSUME NEW t \in Tables, Linked(t), NEW h \in 0 .. Len(t.hosts)
  PROVE  Following(t, h) \in 0 .. Len(t.hosts)
<1>1. /\ Len(t.hosts) \in Nat /\ DOMAIN t.hosts = 1 .. Len(t.hosts)
      /\ \A g \in DOMAIN t.hosts : t.hosts[g] \in Hosts
  BY TableFacts
<1>2. CASE h = Null
  BY <1>1, <1>2 DEF Following, Null
<1>3. CASE h # Null
  <2>1. h \in DOMAIN t.hosts
    BY <1>1, <1>3 DEF Null
  <2> QED
    BY <1>1, <1>3, <2>1 DEF Following, Linked, Hosts
<1> QED
  BY <1>2, <1>3

LEMMA WalkExists ==
  ASSUME NEW t \in Tables, Linked(t), NEW m \in Nat
  PROVE  \E f : Walks(t, f, m)
<1> DEFINE bad == {n \in Nat : ~ \E f : Walks(t, f, n)}
           L == Len(t.hosts)
<1>0. L \in Nat /\ t.g_hosts \in 0 .. L
  BY TableFacts DEF Linked, Tables
<1>1. SUFFICES ASSUME bad # {} PROVE FALSE
  OBVIOUS
<1>2. PICK n \in bad : \A j \in bad : n <= j
  BY <1>1, Smallest
<1>3. n \in Nat /\ ~ \E f : Walks(t, f, n)
  OBVIOUS
<1>4. CASE n = 0
  <2> DEFINE f == [k \in 0 .. 0 |-> t.g_hosts]
  <2>1. Walks(t, f, 0)
    BY <1>0 DEF Walks
  <2> QED
    BY <1>3, <1>4, <2>1
<1>5. CASE n # 0
  <2>1. n - 1 \in Nat /\ n - 1 \notin bad
    BY <1>2, <1>3, <1>5
  <2>2. PICK f : Walks(t, f, n - 1)
    BY <2>1
  <2> DEFINE g == [k \in 0 .. n |-> IF k = n THEN Following(t, f[n - 1]) ELSE f[k]]
  <2>3. f \in [0 .. n - 1 -> 0 .. L] /\ f[0] = t.g_hosts
        /\ \A k \in 1 .. n - 1 : f[k] = Following(t, f[k - 1])
    BY <2>2 DEF Walks
  <2>4. Following(t, f[n - 1]) \in 0 .. L
    <3>1. f[n - 1] \in 0 .. L
      BY <2>1, <2>3
    <3> QED
      BY <3>1, FollowingRange
  <2>5. g \in [0 .. n -> 0 .. L]
    BY <1>3, <2>3, <2>4
  <2>6. g[0] = t.g_hosts
    BY <1>3, <1>5, <2>3
  <2>7. \A k \in 1 .. n : g[k] = Following(t, g[k - 1])
    <3>1. ASSUME NEW k \in 1 .. n PROVE g[k] = Following(t, g[k - 1])
      <4>1. k - 1 \in 0 .. n - 1 /\ k \in 0 .. n /\ k - 1 \in 0 .. n /\ k - 1 # n
        BY <1>3
      <4>2. g[k - 1] = f[k - 1]
        BY <4>1
      <4>3. CASE k = n
        BY <4>1, <4>2, <4>3
      <4>4. CASE k # n
        <5>1. k \in 1 .. n - 1
          BY <1>3, <4>4
        <5> QED
          BY <2>3, <4>1, <4>2, <4>4, <5>1
      <4> QED
        BY <4>3, <4>4
    <3> QED
      BY <3>1
  <2> HIDE DEF g
  <2>8. Walks(t, g, n)
    BY <2>5, <2>6, <2>7 DEF Walks
  <2> QED
    BY <1>3, <2>8
<1> QED
  BY <1>4, <1>5

LEMMA WalkIs ==
  ASSUME NEW t \in Tables, Linked(t)
  PROVE  Walks(t, Walk(t), Len(t.hosts))
<1> DEFINE L == Len(t.hosts)
           Step(at, k) == IF k = 0 THEN t.g_hosts ELSE Following(t, at[k - 1])
<1>1. L \in Nat
  BY TableFacts
<1>2. PICK f : Walks(t, f, L)
  BY <1>1, WalkExists
<1>3. f = [k \in 0 .. L |-> Step(f, k)]
  BY <1>1, <1>2 DEF Walks
<1>4. Walk(t) = CHOOSE at : at = [k \in 0 .. L |-> Step(at, k)]
  BY DEF Walk
<1>5. Walk(t) = [k \in 0 .. L |-> Step(Walk(t), k)]
  BY <1>3, <1>4
<1>6. Walk(t)[0] = t.g_hosts /\ \A k \in 1 .. L : Walk(t)[k] = Following(t, Walk(t)[k - 1])
  <2> DEFINE w == Walk(t)
  <2>1. w = [k \in 0 .. L |-> Step(w, k)]
    BY <1>5
  <2> HIDE DEF w
  <2>2. \A k \in 0 .. L : w[k] = IF k = 0 THEN t.g_hosts ELSE Following(t, w[k - 1])
    BY <2>1
  <2> QED
    BY <1>1, <2>2 DEF w
<1>7. DOMAIN Walk(t) = 0 .. L
  BY <1>5
<1>8. \A k \in 0 .. L : Walk(t)[k] \in 0 .. L
  <2> DEFINE bad == {k \in 0 .. L : Walk(t)[k] \notin 0 .. L}
  <2>1. SUFFICES ASSUME bad # {} PROVE FALSE
    OBVIOUS
  <2>2. bad \in SUBSET Nat
    BY <1>1
  <2>3. PICK k \in bad : \A j \in bad : k <= j
    BY <2>1, <2>2, Smallest
  <2>4. t.g_hosts \in 0 .. L
    BY <1>1 DEF Linked, Tables
  <2>5. k # 0
    BY <1>6, <2>4
  <2>6. k \in 1 .. L /\ k - 1 \in 0 .. L /\ k - 1 \notin bad
    BY <1>1, <2>3, <2>5
  <2>7. Walk(t)[k - 1] \in 0 .. L
    BY <2>6
  <2>8. Following(t, Walk(t)[k - 1]) \in 0 .. L
    BY <2>7, FollowingRange
  <2> QED
    BY <1>6, <2>6, <2>8
<1> QED
  BY <1>5, <1>6, <1>7, <1>8 DEF Walks

(* The list may grow behind its last host, and hosts may be added to the   *)
(* memory; who is found by a name stays the same.                          *)
NextKept(t, u) ==
    /\ u.g_hosts = t.g_hosts
    /\ \A h \in DOMAIN t.hosts :
          t.hosts[h].next # Null => u.hosts[h].next = t.hosts[h].next

LEMMA WalkStays ==
  ASSUME NEW t, Sound(t), NEW u, Sound(u), NextKept(t, u), Len(t.hosts) <= Len(u.hosts)
  PROVE  \A k \in 0 .. Len(t.hosts) : Walk(t)[k] # Null => Walk(u)[k] = Walk(t)[k]
<1> DEFINE L == Len(t.hosts)
           bad == {k \in 0 .. L : Walk(t)[k] # Null /\ Walk(u)[k] # Walk(t)[k]}
<1>1. SUFFICES ASSUME bad # {} PROVE FALSE
  OBVIOUS
<1>2. /\ L \in Nat /\ Len(u.hosts) \in Nat /\ DOMAIN t.hosts = 1 .. L
      /\ Walks(t, Walk(t), L) /\ Walks(u, Walk(u), Len(u.hosts))
  BY WalkIs, TableFacts DEF Sound
<1>3. bad \in SUBSET Nat
  BY <1>2
<1>4. PICK k \in bad : \A j \in bad : k <= j
  BY <1>1, <1>3, Smallest
<1>5. k # 0
  BY <1>2 DEF Walks, NextKept
<1>6. k \in 1 .. L /\ k - 1 \in 0 .. L /\ k - 1 \notin bad /\ k \in 1 .. Len(u.hosts)
  BY <1>2, <1>4, <1>5
<1>7. /\ Walk(t)[k] = Following(t, Walk(t)[k - 1]) /\ Walk(u)[k] = Following(u, Walk(u)[k - 1])
      /\ Walk(t)[k - 1] \in 0 .. L
  BY <1>2, <1>6 DEF Walks
<1> DEFINE h == Walk(t)[k - 1]
<1>8. h # Null
  BY <1>7 DEF Following
<1>9. h \in DOMAIN t.hosts /\ Walk(u)[k - 1] = h
  BY <1>2, <1>6, <1>7, <1>8 DEF Null
<1>10. Walk(t)[k] = t.hosts[h].next /\ Walk(u)[k] = u.hosts[h].next
  BY <1>7, <1>8, <1>9 DEF Following
<1> QED
  BY <1>9, <1>10 DEF NextKept

LEMMA WalkToHost ==
  ASSUME NEW t, Sound(t), NEW k \in 0 .. Len(t.hosts), Walk(t)[k] # Null, NEW j \in 0 .. k
  PROVE  Walk(t)[j] # Null
<1> DEFINE L == Len(t.hosts)
           after == {i \in j .. k : Walk(t)[i] # Null}
<1>1. SUFFICES ASSUME Walk(t)[j] = Null PROVE FALSE
  OBVIOUS
<1>2. L \in Nat /\ Walks(t, Walk(t), L)
  BY WalkIs, TableFacts DEF Sound
<1>3. after \in SUBSET Nat /\ after # {}
  BY <1>2
<1>4. PICK i \in after : \A g \in after : i <= g
  BY <1>3, Smallest
<1>5. i # j
  BY <1>1, <1>4
<1>6. i \in 1 .. L /\ i - 1 \in j .. k /\ i - 1 \notin after
  BY <1>2, <1>4, <1>5
<1>7. Walk(t)[i - 1] = Null /\ Walk(t)[i] = Following(t, Walk(t)[i - 1])
  BY <1>2, <1>6 DEF Walks
<1> QED
  BY <1>4, <1>7 DEF Following

LEMMA LookupStays ==
  ASSUME NEW t, Sound(t), NEW u, Sound(u), NextKept(t, u), Len(t.hosts) <= Len(u.hosts),
         \A h \in DOMAIN t.hosts : u.hosts[h].name = t.hosts[h].name,
         NEW n, util_name2host(t, n) \in DOMAIN t.hosts
  PROVE  util_name2host(u, n) = util_name2host(t, n)
<1> DEFINE named(x) == {h \in DOMAIN x.hosts : x.hosts[h].name = n}
           meets(x) == {k \in 0 .. Len(x.hosts) : Walk(x)[k] \in named(x)}
           least(x) == CHOOSE k \in meets(x) : \A j \in meets(x) : k <= j
<1>1. /\ Len(t.hosts) \in Nat /\ Len(u.hosts) \in Nat
      /\ DOMAIN t.hosts = 1 .. Len(t.hosts) /\ DOMAIN u.hosts = 1 .. Len(u.hosts)
      /\ \A k \in 0 .. Len(t.hosts) : Walk(t)[k] \in 0 .. Len(t.hosts)
  BY WalkIs, TableFacts DEF Sound, Walks
<1>2. \A x \in {t, u} : util_name2host(x, n) =
          IF meets(x) # {} THEN Walk(x)[least(x)] ELSE IF Endless(x) THEN Forever ELSE Null
  BY DEF util_name2host, FirstOf
<1>3. meets(t) # {}
  BY <1>1, <1>2 DEF Forever, Null
<1>4. PICK k \in meets(t) : \A j \in meets(t) : k <= j
  <2>1. meets(t) \in SUBSET Nat
    BY <1>1
  <2> HIDE DEF meets
  <2> QED
    BY <1>3, <2>1, Smallest
<1>5. least(t) \in meets(t) /\ \A j \in meets(t) : least(t) <= j
  BY <1>4
<1>6. least(t) = k
  BY <1>1, <1>4, <1>5
<1>7. Walk(t)[k] \in DOMAIN t.hosts /\ t.hosts[Walk(t)[k]].name = n /\ Walk(t)[k] # Null
  BY <1>1, <1>4 DEF Null
<1>8. Walk(u)[k] = Walk(t)[k] /\ k \in meets(u)
  BY <1>1, <1>7, WalkStays
<1>9. \A j \in meets(u) : k <= j
  <2>1. SUFFICES ASSUME NEW j \in meets(u), j < k PROVE FALSE
    BY <1>1
  <2>2. j \in 0 .. k /\ j \in 0 .. Len(t.hosts)
    BY <1>1, <2>1
  <2>3. Walk(t)[j] # Null
    BY <1>7, <2>2, WalkToHost
  <2>4. Walk(u)[j] = Walk(t)[j]
    BY <2>2, <2>3, WalkStays
  <2>5. Walk(t)[j] \in DOMAIN t.hosts
    BY <1>1, <2>2, <2>3 DEF Null
  <2>6. j \in meets(t)
    BY <2>2, <2>4, <2>5
  <2> QED
    BY <1>1, <1>4, <2>1, <2>6
<1>10. least(u) \in meets(u) /\ \A j \in meets(u) : least(u) <= j
  BY <1>8, <1>9
<1>11. least(u) = k
  BY <1>1, <1>8, <1>9, <1>10
<1> QED
  BY <1>2, <1>3, <1>6, <1>8, <1>11

----------------------------------------------------------------------------
(* What a table is made of may fade: sessions end, pointers are cleared,   *)
(* hosts without a session are added; no session becomes another one.      *)
SameSession(a, b) ==
    /\ a.service = b.service /\ a.sid = b.sid /\ a.fd = b.fd /\ a.owner = b.owner

Fades(t, u) ==
    /\ Sound(u)
    /\ Len(t.hosts) <= Len(u.hosts)
    /\ NextKept(t, u)
    /\ \A h \in DOMAIN t.hosts : /\ u.hosts[h].name = t.hosts[h].name
                                 /\ u.hosts[h].eth = t.hosts[h].eth
                                 /\ u.hosts[h].session \in {t.hosts[h].session, Null}
    /\ \A h \in DOMAIN u.hosts \ DOMAIN t.hosts : ~HasSession(u, h)
    /\ \A s \in SessPtrs : u.sess[s] # Free =>
          t.sess[s] # Free /\ SameSession(u.sess[s], t.sess[s])

LEMMA FadesReflexive ==
  ASSUME NEW t, Sound(t)
  PROVE  Fades(t, t)
<1>1. Len(t.hosts) \in Nat
  BY TableFacts DEF Sound
<1> QED
  BY <1>1 DEF Fades, NextKept, SameSession

LEMMA FadesTransitive ==
  ASSUME NEW t, Sound(t), NEW u, NEW v, Fades(t, u), Fades(u, v)
  PROVE  Fades(t, v)
<1>1. /\ DOMAIN t.hosts = 1 .. Len(t.hosts) /\ DOMAIN u.hosts = 1 .. Len(u.hosts)
      /\ DOMAIN v.hosts = 1 .. Len(v.hosts)
      /\ Len(t.hosts) \in Nat /\ Len(u.hosts) \in Nat /\ Len(v.hosts) \in Nat
  BY TableFacts DEF Fades, Sound
<1>2. Len(t.hosts) <= Len(v.hosts) /\ DOMAIN t.hosts \subseteq DOMAIN u.hosts
  BY <1>1 DEF Fades
<1>3. NextKept(t, v)
  BY <1>2 DEF Fades, NextKept
<1>4. \A h \in DOMAIN t.hosts : /\ v.hosts[h].name = t.hosts[h].name
                                /\ v.hosts[h].eth = t.hosts[h].eth
                                /\ v.hosts[h].session \in {t.hosts[h].session, Null}
  BY <1>2 DEF Fades
<1>5. \A h \in DOMAIN v.hosts \ DOMAIN t.hosts : ~HasSession(v, h)
  BY <1>2 DEF Fades, HasSession
<1>6. \A s \in SessPtrs : v.sess[s] # Free =>
          t.sess[s] # Free /\ SameSession(v.sess[s], t.sess[s])
  BY DEF Fades, SameSession
<1> QED
  BY <1>2, <1>3, <1>4, <1>5, <1>6 DEF Fades

LEMMA FadesByStop ==
  ASSUME NEW t, Sound(t), NEW status \in Statuses \ {"running"}
  PROVE  Fades(t, Stop(t, status))
<1> DEFINE u == Stop(t, status)
<1>1. Sound(u) /\ Len(t.hosts) \in Nat
  BY StopSound, TableFacts DEF Sound
<1>2. u.hosts = t.hosts /\ u.sess = t.sess /\ u.g_hosts = t.g_hosts
  BY DEF Stop, Sound, Tables
<1> HIDE DEF u
<1>3. Fades(t, u)
  BY <1>1, <1>2 DEF Fades, NextKept, SameSession
<1> QED
  BY <1>3 DEF u

LEMMA FadesByClearing ==
  ASSUME NEW t, Sound(t), NEW H, Clearable(t, H)
  PROVE  Fades(t, Cleared(t, H))
<1> DEFINE u == Cleared(t, H)
<1>1. t \in Tables /\ Sound(u) /\ DOMAIN u.hosts = DOMAIN t.hosts
      /\ Len(u.hosts) = Len(t.hosts) /\ Len(t.hosts) \in Nat
  BY ClearedSound, TableFacts DEF Sound
<1>2. \A h \in DOMAIN t.hosts : t.hosts[h] \in Hosts
  BY <1>1, TableFacts
<1>3. \A h \in DOMAIN t.hosts :
        u.hosts[h] = IF h \in H THEN [t.hosts[h] EXCEPT !.session = Null] ELSE t.hosts[h]
  BY <1>1 DEF Cleared, Tables
<1>4. u.g_hosts = t.g_hosts /\ \A s \in SessPtrs : u.sess[s] \in {Free, t.sess[s]}
  BY <1>1 DEF Cleared, Tables
<1> HIDE DEF u
<1>5. \A h \in DOMAIN t.hosts : /\ u.hosts[h].name = t.hosts[h].name
                                /\ u.hosts[h].eth = t.hosts[h].eth
                                /\ u.hosts[h].next = t.hosts[h].next
                                /\ u.hosts[h].session \in {t.hosts[h].session, Null}
  BY <1>2, <1>3 DEF Hosts
<1>6. Fades(t, u)
  BY <1>1, <1>4, <1>5 DEF Fades, NextKept, SameSession
<1> QED
  BY <1>6 DEF u

LEMMA FadesByDelete ==
  ASSUME NEW t, Sound(t), NEW h \in DOMAIN t.hosts
  PROVE  Fades(t, host_session_delete(t, h))
<1>1. \/ host_session_delete(t, h) = t
      \/ host_session_delete(t, h) = Stop(t, "undefined")
      \/ host_session_delete(t, h) = Cleared(t, {h}) /\ Clearable(t, {h})
  BY DeleteIs DEF Sound
<1> QED
  BY <1>1, FadesReflexive, FadesByStop, FadesByClearing DEF Statuses

LEMMA FadesByTimeouts ==
  ASSUME NEW t, Sound(t)
  PROVE  Fades(t, util_host_session_timeout_all(t))
<1> DEFINE u == util_host_session_timeout_all(t)
<1>1. \/ u = Stop(t, "undefined")
      \/ \E H : Clearable(t, H) /\ u \in {Cleared(t, H), Stop(Cleared(t, H), "hung")}
  BY TimeoutIs DEF Sound
<1> SUFFICES Fades(t, u)
  OBVIOUS
<1> HIDE DEF u
<1>2. ASSUME NEW H, Clearable(t, H), u \in {Cleared(t, H), Stop(Cleared(t, H), "hung")}
      PROVE  Fades(t, u)
  <2> DEFINE c == Cleared(t, H)
  <2>1. Fades(t, c) /\ Sound(c) /\ u \in {c, Stop(c, "hung")}
    BY <1>2, FadesByClearing, ClearedSound
  <2> HIDE DEF c
  <2>2. Fades(c, Stop(c, "hung"))
    BY <2>1, FadesByStop DEF Statuses
  <2> QED
    BY <2>1, <2>2, FadesTransitive
<1> QED
  BY <1>1, <1>2, FadesByStop DEF Statuses

LEMMA FadesByEmptying ==
  ASSUME NEW t, Sound(t), NEW h \in DOMAIN t.hosts
  PROVE  Fades(t, Emptied(t, h))
<1> DEFINE fresh == util_host_session_timeout_all(t)
<1>1. Fades(t, fresh) /\ Sound(fresh) /\ DOMAIN fresh.hosts = DOMAIN t.hosts
  BY FadesByTimeouts, TimeoutSound
<1>2. Emptied(t, h) = IF Running(fresh) THEN host_session_delete(fresh, h) ELSE fresh
  BY DEF Emptied
<1> HIDE DEF fresh
<1>3. Fades(fresh, host_session_delete(fresh, h))
  BY <1>1, FadesByDelete
<1> QED
  BY <1>1, <1>2, <1>3, FadesTransitive

LEMMA FadesByCheck ==
  ASSUME NEW t, Sound(t), NEW h \in DOMAIN t.hosts, NEW service, NEW sid
  PROVE  Fades(t, host_session_check(t, h, service, sid))
<1> DEFINE u == host_session_check(t, h, service, sid)
           p == t.hosts[h].session
<1>1. /\ Sound(u) /\ u.hosts = t.hosts
      /\ Live(u) = Live(t)
      /\ \A s \in SessPtrs :
            t.sess[s] # Free => /\ u.sess[s].owner = t.sess[s].owner
                                /\ u.sess[s].sid = t.sess[s].sid
                                /\ u.sess[s].service = t.sess[s].service
  BY CheckSound
<1>2. t \in Tables /\ t.sess \in [SessPtrs -> Sessions \cup {Free}]
      /\ (HasSession(t, h) => p \in SessPtrs) /\ Len(t.hosts) \in Nat
  BY TableFacts DEF Sound
<1>3. \/ u = Stop(t, "undefined")
      \/ u = t
      \/ u = [t EXCEPT !.sess[p].idle = 0] /\ HasSession(t, h) /\ ~Dangling(t, h)
  BY DEF host_session_check, CheckResult, E_NOERROR, E_NOSESSION, E_BADSID
<1> SUFFICES Fades(t, u)
  OBVIOUS
<1> HIDE DEF u
<1>4. u.g_hosts = t.g_hosts
  BY <1>2, <1>3 DEF Stop, Tables
<1>5. \A s \in SessPtrs : t.sess[s] # Free => u.sess[s].fd = t.sess[s].fd
  <2>1. CASE u \in {t, Stop(t, "undefined")}
    BY <1>2, <2>1 DEF Stop, Tables
  <2>2. CASE u = [t EXCEPT !.sess[p].idle = 0] /\ HasSession(t, h) /\ ~Dangling(t, h)
    <3>1. p \in SessPtrs /\ t.sess[p] \in Sessions
      BY <1>2, <2>2 DEF Dangling, SessionOf
    <3>2. u.sess = [t.sess EXCEPT ![p].idle = 0]
      BY <1>2, <2>2 DEF Tables
    <3> QED
      BY <1>2, <3>1, <3>2 DEF Sessions
  <2> QED
    BY <1>3, <2>1, <2>2
<1> QED
  BY <1>1, <1>2, <1>4, <1>5 DEF Fades, NextKept, SameSession, Live

LEMMA FadesByTick ==
  ASSUME Inv, Tick
  PROVE  Fades(table, table')
<1> DEFINE t == table
           older(s) == [t.sess[s] EXCEPT !.idle = @ + 1]
           sess == [s \in SessPtrs |-> IF t.sess[s] = Free \/ t.sess[s].idle > SessionTimeout
                                       THEN t.sess[s] ELSE older(s)]
           u == [t EXCEPT !.sess = sess]
<1>1. t \in Tables /\ t.sess \in [SessPtrs -> Sessions \cup {Free}] /\ Len(t.hosts) \in Nat
  BY TableFacts DEF Inv, Sound
<1>2. table' = u /\ Sound(table')
  BY KeptByTick DEF Tick
<1>3. \A s \in SessPtrs : t.sess[s] # Free => SameSession(older(s), t.sess[s])
  BY <1>1 DEF Sessions, SameSession
<1> HIDE DEF older
<1>4. \A s \in SessPtrs : sess[s] # Free => t.sess[s] # Free /\ SameSession(sess[s], t.sess[s])
  BY <1>3 DEF SameSession
<1>5. u.hosts = t.hosts /\ u.g_hosts = t.g_hosts /\ u.sess = sess
  BY <1>1 DEF Tables
<1> HIDE DEF u, sess
<1> QED
  BY <1>1, <1>2, <1>4, <1>5 DEF Fades, NextKept

(* A host that was found is in the list, which is not empty.               *)
LEMMA ListNotEmpty ==
  ASSUME NEW t, Sound(t), NEW n, util_name2host(t, n) \in DOMAIN t.hosts
  PROVE  t.g_hosts # Null
<1> DEFINE named == {h \in DOMAIN t.hosts : t.hosts[h].name = n}
           meets == {k \in 0 .. Len(t.hosts) : Walk(t)[k] \in named}
           least == CHOOSE k \in meets : \A j \in meets : k <= j
<1>1. /\ Len(t.hosts) \in Nat /\ DOMAIN t.hosts = 1 .. Len(t.hosts)
      /\ Walk(t)[0] = t.g_hosts
  BY WalkIs, TableFacts DEF Sound, Walks
<1>2. util_name2host(t, n) =
          IF meets # {} THEN Walk(t)[least] ELSE IF Endless(t) THEN Forever ELSE Null
  BY DEF util_name2host, FirstOf
<1>3. PICK k \in meets : TRUE
  BY <1>1, <1>2 DEF Forever, Null
<1>4. k \in 0 .. Len(t.hosts) /\ 0 \in 0 .. k /\ Walk(t)[k] # Null
  BY <1>1, <1>3 DEF Null
<1> QED
  BY <1>1, <1>4, WalkToHost

LEMMA FadesByCloning ==
  ASSUME NEW t, Sound(t), NEW src \in DOMAIN t.hosts, ~HasSession(t, src),
         t.g_hosts # Null, NEW e \in Ethers, NEW n \in Names, NEW ip
  PROVE  Fades(t, host_clone(t, src, e, n, ip))
<1> DEFINE copy == Copied(t, src, e, n)
           u == host_clone(t, src, e, n, ip)
           m == Len(t.hosts) + 1
           last == FirstOf(copy, {g \in DOMAIN copy.hosts : copy.hosts[g].next = Null})
<1>1. /\ Sound(copy) /\ Grown(t, copy, src, e, n)
      /\ Sound(u) /\ Grown(t, u, src, e, n)
  BY CopiedSound, CloneSound
<1>2. /\ t \in Tables /\ copy \in Tables
      /\ t.hosts \in Seq(Hosts) /\ Len(t.hosts) \in Nat /\ DOMAIN t.hosts = 1 .. Len(t.hosts)
      /\ \A g \in DOMAIN t.hosts : t.hosts[g] \in Hosts
      /\ Len(copy.hosts) = m /\ DOMAIN copy.hosts = 1 .. m
      /\ \A g \in DOMAIN copy.hosts : copy.hosts[g] \in Hosts
      /\ Len(u.hosts) = m /\ DOMAIN u.hosts = 1 .. m
  BY <1>1, TableFacts DEF Sound, Grown
<1>3. copy.g_hosts = t.g_hosts /\ \A h \in DOMAIN t.hosts : copy.hosts[h] = t.hosts[h]
  <2> DEFINE new == [t.hosts[src] EXCEPT !.name = n, !.eth = e]
  <2>1. new \in Hosts
    BY <1>2 DEF Hosts
  <2>2. copy.g_hosts = t.g_hosts /\ copy.hosts = Append(t.hosts, new)
    BY <1>2 DEF Copied, Tables
  <2> HIDE DEF new, copy
  <2> QED
    BY <1>2, <2>1, <2>2, AppendProperties
<1>4. \/ u = Stop(copy, "exited") \/ u = Stop(copy, "hung") \/ u = copy
      \/ u = [copy EXCEPT !.hosts[last].next = m]
  <2>1. \/ u = Stop(copy, "exited") \/ u = host_add(copy, m)
    BY <1>2 DEF host_clone, Copied
  <2> HIDE DEF copy, u
  <2> QED
    BY <1>3, <2>1 DEF host_add
<1>5. last \in DOMAIN copy.hosts => copy.hosts[last].next = Null
  <2> DEFINE ends == {g \in DOMAIN copy.hosts : copy.hosts[g].next = Null}
  <2>1. ends \in SUBSET DOMAIN copy.hosts
    OBVIOUS
  <2>2. last = FirstOf(copy, ends)
    OBVIOUS
  <2> HIDE DEF copy, last, ends
  <2>3. last \in ends \/ last \in {Forever, Null}
    BY <1>2, <2>1, <2>2, FirstOfIs
  <2> QED
    BY <1>2, <2>3 DEF ends, Forever, Null
<1> SUFFICES Fades(t, u)
  OBVIOUS
<1> HIDE DEF copy, u, last
<1>6. /\ u.g_hosts = copy.g_hosts
      /\ \A h \in DOMAIN copy.hosts :
            copy.hosts[h].next # Null => u.hosts[h].next = copy.hosts[h].next
  <2>1. CASE u \in {copy, Stop(copy, "exited"), Stop(copy, "hung")}
    BY <1>2, <2>1 DEF Stop, Tables
  <2>2. CASE u = [copy EXCEPT !.hosts[last].next = m]
    <3>1. u.g_hosts = copy.g_hosts /\ u.hosts = [copy.hosts EXCEPT ![last].next = m]
      BY <1>2, <2>2 DEF Tables
    <3> QED
      BY <1>5, <3>1
  <2> QED
    BY <1>4, <2>1, <2>2
<1>7. NextKept(t, u)
  BY <1>2, <1>3, <1>6 DEF NextKept
<1>8. \A h \in DOMAIN t.hosts : /\ u.hosts[h].name = t.hosts[h].name
                                /\ u.hosts[h].eth = t.hosts[h].eth
                                /\ u.hosts[h].session = t.hosts[h].session
  BY <1>1 DEF Grown, Alike
<1>9. ~HasSession(u, m)
  BY <1>1, <1>2 DEF Grown, Alike, Hosts, HasSession
<1>10. u.sess = t.sess
  BY <1>1 DEF Grown
<1>11. \A h \in DOMAIN u.hosts \ DOMAIN t.hosts : h = m
  BY <1>2
<1> QED
  BY <1>1, <1>2, <1>7, <1>8, <1>9, <1>10, <1>11 DEF Fades, SameSession

LEMMA FadesByFinding ==
  ASSUME Sound(table), Private(table), NEW e \in Ethers, NEW boot, NEW found \in Found(e, boot)
  PROVE  Fades(table, found.t)
<1> DEFINE h == util_ether2host(table, e)
           src == util_name2host(table, MachType[e])
<1>1. table \in Tables
  BY DEF Sound
<1>2. \/ src \in DOMAIN table.hosts /\ table.hosts[src].name = MachType[e]
      \/ src = Forever /\ Endless(table)
      \/ src = Null
  BY <1>1, SearchIs
<1>3. \/ h = Forever /\ found.t = Stop(table, "hung")
      \/ h = Null /\ src # Null /\ found \in Clones(e, src)
      \/ found.t = table
  BY DEF Found
<1>4. \/ h \in DOMAIN table.hosts \/ h = Forever \/ ~Endless(table)
  BY <1>1, SearchIs
<1>5. Null \notin DOMAIN table.hosts
  BY <1>1, TableFacts DEF Null
<1>6. src \in DOMAIN table.hosts => table.g_hosts # Null
  BY ListNotEmpty
<1> HIDE DEF h, src
<1>7. CASE h = Null /\ src # Null /\ found \in Clones(e, src)
  <2>1. src \in DOMAIN table.hosts /\ table.hosts[src].name = MachType[e]
    BY <1>2, <1>4, <1>5, <1>7 DEF Forever, Null
  <2>2. ~HasSession(table, src)
    BY <2>1 DEF Private, TemplatesIdle, MachNames
  <2>3. PICK n \in EtherNames[e], ip \in BOOLEAN : found.t = host_clone(table, src, e, n, ip)
    BY <1>7 DEF Clones
  <2>4. n \in Names
    BY LinkAssumption
  <2> QED
    BY <1>6, <2>1, <2>2, <2>3, <2>4, FadesByCloning
<1> QED
  BY <1>3, <1>7, FadesReflexive, FadesByStop DEF Statuses

----------------------------------------------------------------------------
(* Every session has a file that was opened for the one who is served from *)
(* it: for RMP by what rmp_handler opened, for TFTP by the last read       *)
(* request of the client whose host the search for its address gives.      *)
RmpOpened(t, o) ==
    \A s \in SessPtrs :
       t.sess[s] # Free /\ t.sess[s].service = "rmp" /\ t.sess[s].fd \in Files =>
          [to |-> t.sess[s].owner, sid |-> t.sess[s].sid, from |-> t.sess[s].fd] \in o

TftpServed(t, h) ==
    /\ HasSession(t, h) /\ SessionOf(t, h) # Free
    /\ SessionOf(t, h).service = "tftp" /\ SessionOf(t, h).fd \in Files

TftpRequested(t, r) ==
    \A h \in DOMAIN t.hosts : TftpServed(t, h) =>
       /\ util_name2host(t, t.hosts[h].name) = h /\ t.hosts[h].name \in Senders
       /\ r[t.hosts[h].name] = [sid |-> SessionOf(t, h).sid, from |-> SessionOf(t, h).fd]

Serves(t, o, r) == RmpOpened(t, o) /\ TftpRequested(t, r)

LEMMA FadingServes ==
  ASSUME NEW t, Sound(t), NEW u, Fades(t, u), NEW o, NEW r, Serves(t, o, r)
  PROVE  Serves(u, o, r)
<1>1. RmpOpened(u, o)
  BY DEF Fades, SameSession, Serves, RmpOpened
<1>2. ASSUME NEW h \in DOMAIN u.hosts, TftpServed(u, h)
      PROVE  /\ util_name2host(u, u.hosts[h].name) = h /\ u.hosts[h].name \in Senders
             /\ r[u.hosts[h].name] = [sid |-> SessionOf(u, h).sid, from |-> SessionOf(u, h).fd]
  <2>1. h \in DOMAIN t.hosts
    BY <1>2 DEF Fades, TftpServed
  <2>2. u.hosts[h].session = t.hosts[h].session /\ HasSession(t, h)
    BY <1>2, <2>1 DEF Fades, TftpServed, HasSession
  <2>3. t.hosts[h].session \in SessPtrs
    BY <2>1, <2>2, TableFacts DEF Sound
  <2>4. SessionOf(t, h) # Free /\ SameSession(SessionOf(u, h), SessionOf(t, h))
    BY <1>2, <2>2, <2>3 DEF Fades, TftpServed, SessionOf
  <2>5. TftpServed(t, h)
    BY <1>2, <2>2, <2>4 DEF TftpServed, SameSession
  <2>6. /\ util_name2host(t, t.hosts[h].name) = h /\ t.hosts[h].name \in Senders
        /\ r[t.hosts[h].name] = [sid |-> SessionOf(t, h).sid, from |-> SessionOf(t, h).fd]
    BY <2>1, <2>5 DEF Serves, TftpRequested
  <2>7. Sound(u) /\ NextKept(t, u) /\ Len(t.hosts) <= Len(u.hosts)
        /\ \A g \in DOMAIN t.hosts : u.hosts[g].name = t.hosts[g].name
    BY DEF Fades
  <2>8. util_name2host(u, t.hosts[h].name) = h
    BY <2>1, <2>6, <2>7, LookupStays
  <2> QED
    BY <2>1, <2>4, <2>6, <2>7, <2>8 DEF SameSession
<1> QED
  BY <1>1, <1>2 DEF Serves, TftpRequested

(* A host without a session may forget what it has asked for.              *)
LEMMA ForgettingServes ==
  ASSUME NEW t, NEW h \in DOMAIN t.hosts, ~HasSession(t, h), NEW n,
         util_name2host(t, n) = h, NEW o, NEW r, NEW q,
         \A m \in Senders \ {n} : q[m] = r[m], Serves(t, o, r)
  PROVE  Serves(t, o, q)
<1>1. ASSUME NEW g \in DOMAIN t.hosts, TftpServed(t, g)
      PROVE  q[t.hosts[g].name] = r[t.hosts[g].name]
  <2>1. g # h /\ util_name2host(t, t.hosts[g].name) = g /\ t.hosts[g].name \in Senders
    BY <1>1 DEF TftpServed, Serves, TftpRequested
  <2> QED
    BY <2>1
<1> QED
  BY <1>1 DEF Serves, TftpRequested

LEMMA OpenedIs ==
  ASSUME NEW t, Sound(t), NEW h \in DOMAIN t.hosts, NEW s \in SessPtrs,
         NEW new \in NewSessions, NEW file
  PROVE  LET u == Opened(t, h, s, new, file)
         IN  /\ u.g_hosts = t.g_hosts /\ DOMAIN u.hosts = DOMAIN t.hosts
             /\ \A g \in DOMAIN t.hosts :
                   /\ u.hosts[g].name = t.hosts[g].name /\ u.hosts[g].next = t.hosts[g].next
                   /\ u.hosts[g].session = IF g = h THEN s ELSE t.hosts[g].session
             /\ \A p \in SessPtrs \ {s} : u.sess[p] = t.sess[p]
             /\ u.sess[s].service = new.service /\ u.sess[s].sid = new.sid
             /\ u.sess[s].owner = new.owner /\ u.sess[s].fd = file
<1> DEFINE w == WithNew(t, h, s, new)
           u == Opened(t, h, s, new, file)
           ses == [new EXCEPT !.fd = file]
<1>1. /\ t \in Tables /\ t.sess \in [SessPtrs -> Sessions \cup {Free}]
      /\ \A g \in DOMAIN t.hosts : t.hosts[g] \in Hosts
  BY TableFacts DEF Sound
<1>2. /\ ses.service = new.service /\ ses.sid = new.sid
      /\ ses.owner = new.owner /\ ses.fd = file
  BY DEF NewSessions
<1>3. /\ w.hosts = [t.hosts EXCEPT ![h].session = s] /\ w.sess = [t.sess EXCEPT ![s] = new]
      /\ w.g_hosts = t.g_hosts
  BY <1>1 DEF WithNew, Tables
<1>4. u.hosts = w.hosts /\ u.sess = [w.sess EXCEPT ![s].fd = file] /\ u.g_hosts = w.g_hosts
  BY <1>1 DEF Opened, WithNew, Tables
<1> SUFFICES /\ u.g_hosts = t.g_hosts /\ DOMAIN u.hosts = DOMAIN t.hosts
             /\ \A g \in DOMAIN t.hosts :
                   /\ u.hosts[g].name = t.hosts[g].name /\ u.hosts[g].next = t.hosts[g].next
                   /\ u.hosts[g].session = IF g = h THEN s ELSE t.hosts[g].session
             /\ \A p \in SessPtrs \ {s} : u.sess[p] = t.sess[p]
             /\ u.sess[s].service = new.service /\ u.sess[s].sid = new.sid
             /\ u.sess[s].owner = new.owner /\ u.sess[s].fd = file
  OBVIOUS
<1> HIDE DEF w, u
<1>5. [w.sess EXCEPT ![s].fd = file] = [t.sess EXCEPT ![s] = ses]
  BY <1>1, <1>3
<1> HIDE DEF ses
<1>6. u.sess[s] = ses /\ \A p \in SessPtrs \ {s} : u.sess[p] = t.sess[p]
  BY <1>1, <1>4, <1>5
<1>7. /\ DOMAIN u.hosts = DOMAIN t.hosts
      /\ \A g \in DOMAIN t.hosts :
            /\ u.hosts[g].name = t.hosts[g].name /\ u.hosts[g].next = t.hosts[g].next
            /\ u.hosts[g].session = IF g = h THEN s ELSE t.hosts[g].session
  BY <1>1, <1>3, <1>4 DEF Hosts
<1> QED
  BY <1>2, <1>3, <1>4, <1>6, <1>7

(* The file of a new session is the one that was asked for.                *)
LEMMA OpeningServes ==
  ASSUME NEW t, Sound(t), Owned(t), NEW h \in DOMAIN t.hosts, NEW s \in SessPtrs,
         t.sess[s] = Free, NEW new \in NewSessions, NEW file \in Source, NEW o, NEW q, NEW r,
         Serves(t, o, r), o \subseteq q,
         file \in Files /\ new.service = "rmp" =>
            [to |-> new.owner, sid |-> new.sid, from |-> file] \in q,
         file \in Files /\ new.service = "tftp" =>
            /\ util_name2host(t, t.hosts[h].name) = h /\ t.hosts[h].name \in Senders
            /\ r[t.hosts[h].name] = [sid |-> new.sid, from |-> file]
  PROVE  Serves(Opened(t, h, s, new, file), q, r)
<1> DEFINE u == Opened(t, h, s, new, file)
<1>1. Sound(u) /\ Len(u.hosts) = Len(t.hosts) /\ Len(t.hosts) \in Nat
  BY OpenedSound, TableFacts DEF Sound
<1>2. /\ u.g_hosts = t.g_hosts /\ DOMAIN u.hosts = DOMAIN t.hosts
      /\ \A g \in DOMAIN t.hosts :
            /\ u.hosts[g].name = t.hosts[g].name /\ u.hosts[g].next = t.hosts[g].next
            /\ u.hosts[g].session = IF g = h THEN s ELSE t.hosts[g].session
      /\ \A p \in SessPtrs \ {s} : u.sess[p] = t.sess[p]
      /\ u.sess[s].service = new.service /\ u.sess[s].sid = new.sid
      /\ u.sess[s].owner = new.owner /\ u.sess[s].fd = file
  BY OpenedIs
<1> SUFFICES Serves(u, q, r)
  OBVIOUS
<1> HIDE DEF u
<1>3. RmpOpened(u, q)
  BY <1>2 DEF Serves, RmpOpened
<1>4. NextKept(t, u)
  BY <1>2 DEF NextKept
<1>5. \A g \in DOMAIN t.hosts : util_name2host(t, t.hosts[g].name) = g =>
         util_name2host(u, t.hosts[g].name) = g
  BY <1>1, <1>2, <1>4, LookupStays
<1>6. ASSUME NEW g \in DOMAIN t.hosts, TftpServed(u, g)
      PROVE  /\ util_name2host(u, u.hosts[g].name) = g /\ u.hosts[g].name \in Senders
             /\ r[u.hosts[g].name] = [sid |-> SessionOf(u, g).sid, from |-> SessionOf(u, g).fd]
  <2>1. CASE g = h
    <3>1. SessionOf(u, g) = u.sess[s]
      BY <1>2, <2>1 DEF SessionOf
    <3>2. file \in Files /\ new.service = "tftp"
      BY <1>2, <1>6, <3>1 DEF TftpServed
    <3> QED
      BY <1>2, <1>5, <2>1, <3>1, <3>2
  <2>2. CASE g # h
    <3>1. u.hosts[g].session = t.hosts[g].session /\ HasSession(t, g)
      BY <1>2, <1>6, <2>2 DEF TftpServed, HasSession
    <3>2. t.hosts[g].session \in SessPtrs \ {s}
      BY <3>1, TableFacts DEF Sound, Owned
    <3>3. SessionOf(u, g) = SessionOf(t, g)
      BY <1>2, <3>1, <3>2 DEF SessionOf
    <3>4. TftpServed(t, g)
      BY <1>6, <3>1, <3>3 DEF TftpServed
    <3> QED
      BY <1>2, <1>5, <3>3, <3>4 DEF Serves, TftpRequested
  <2> QED
    BY <2>1, <2>2
<1> QED
  BY <1>2, <1>3, <1>6 DEF Serves, TftpRequested

----------------------------------------------------------------------------
(* What each action sends, and what it leaves to be sent from.             *)
RepliesOpened(out, o) ==
    \A m \in out : m.from \in Files => [to |-> m.to, sid |-> m.sid, from |-> m.from] \in o

BlocksRequested(out, r) ==
    \A m \in out : m.from \in Files => r[m.to] = [sid |-> m.sid, from |-> m.from]

Serving == Running(table) => Serves(table, opened, requested)

Before == Inv /\ Private(table) /\ Running(table) /\ Serves(table, opened, requested)

LEMMA ServingFaded ==
  ASSUME Before, Fades(table, table'), opened' = opened, requested' = requested
  PROVE  Serving'
BY FadingServes DEF Before, Inv, Serving

LEMMA NoReplies == \A o : RepliesOpened({}, o)
BY DEF RepliesOpened

LEMMA NoDataReplies ==
  ASSUME NEW pktlen, NEW type, NEW to, NEW sid, NEW o
  PROVE  RepliesOpened(link_send(pktlen, type, to, sid, "none"), o)
BY LinkAssumption DEF RepliesOpened, link_send

LEMMA ServedByDenied ==
  ASSUME Before, NEW e \in Ethers, NEW boot, NEW service, Denied(e, boot, service),
         requested' = requested
  PROVE  Serving' /\ RepliesOpened(sent', opened')
<1>1. PICK found \in Found(e, boot) : Answer(found.t, {})
  BY DEF Denied
<1>2. Fades(table, table') /\ sent' = {}
  BY <1>1, FadesByFinding DEF Before, Inv, Answer
<1> QED
  BY <1>2, ServingFaded, NoReplies DEF Denied

LEMMA ServedByRarp ==
  ASSUME Before, NEW e \in Ethers, RarpRequest(e), requested' = requested
  PROVE  Serving' /\ RepliesOpened(sent', opened')
<1>1. CASE Denied(e, FALSE, "rarp")
  BY <1>1, ServedByDenied
<1>2. CASE /\ \E found \in Found(e, FALSE) :
                 /\ Allowed(found, "rarp")
                 /\ Answer(found.t, link_send(RarpLen, "RARP_REPL", e, 0, "none"))
           /\ arp' \in {arp, arp \cup {e}}
           /\ UNCHANGED <<rmp_sid, opened>>
  <2>1. PICK found \in Found(e, FALSE) :
               Answer(found.t, link_send(RarpLen, "RARP_REPL", e, 0, "none"))
    BY <1>2
  <2>2. Fades(table, table')
    BY <2>1, FadesByFinding DEF Before, Inv, Answer
  <2>3. RepliesOpened(sent', opened')
    BY <2>1, NoDataReplies DEF Answer
  <2> QED
    BY <1>2, <2>2, <2>3, ServingFaded
<1> QED
  BY <1>1, <1>2 DEF RarpRequest

LEMMA ServedByProbe ==
  ASSUME Before, NEW e \in Ethers, Probe(e), requested' = requested
  PROVE  Serving' /\ RepliesOpened(sent', opened')
<1>1. PICK found \in Found(e, TRUE), len \in NameLens :
         \E out \in {{}, link_send(RMP_BOOT_REPL + len, "BOOT_REPL", e, 0, "none")} :
                Answer(found.t, out)
  BY DEF Probe
<1>2. Fades(table, table')
  BY <1>1, FadesByFinding DEF Before, Inv, Answer
<1>3. RepliesOpened(sent', opened')
  <2> DEFINE reply == link_send(RMP_BOOT_REPL + len, "BOOT_REPL", e, 0, "none")
  <2>1. RepliesOpened(reply, opened')
    BY NoDataReplies
  <2>2. sent' \in {{}, reply}
    BY <1>1 DEF Answer
  <2> QED
    BY <2>1, <2>2, NoReplies
<1> QED
  BY <1>2, <1>3, ServingFaded DEF Probe

LEMMA ServedByBootDone ==
  ASSUME Before, NEW e \in Ethers, BootDone(e), requested' = requested
  PROVE  Serving' /\ RepliesOpened(sent', opened')
<1>1. CASE Denied(e, FALSE, "rmp")
  BY <1>1, ServedByDenied
<1>2. CASE /\ \E found \in Found(e, FALSE) :
                 /\ Allowed(found, "rmp")
                 /\ Answer(host_session_delete(found.t, found.h), {})
           /\ UNCHANGED <<rmp_sid, arp, opened>>
  <2>1. PICK found \in Found(e, FALSE) : /\ Allowed(found, "rmp")
                                         /\ Answer(host_session_delete(found.t, found.h), {})
    BY <1>2
  <2>2. Sound(table) /\ Fades(table, found.t) /\ found.h \in DOMAIN found.t.hosts
        /\ Sound(found.t)
    BY <2>1, FadesByFinding, KeptByFinding DEF Before, Inv, Allowed, Fades
  <2>3. Fades(found.t, host_session_delete(found.t, found.h))
    BY <2>2, FadesByDelete
  <2>4. table' = host_session_delete(found.t, found.h) /\ sent' = {}
    BY <2>1 DEF Answer
  <2>5. Fades(table, table')
    BY <2>2, <2>3, <2>4, FadesTransitive
  <2> QED
    BY <1>2, <2>4, <2>5, ServingFaded, NoReplies
<1> QED
  BY <1>1, <1>2 DEF BootDone

(* The session of the host that reads is the host's, of the service RMP    *)
(* and with the id that was asked for.                                     *)
LEMMA ServedByReadRequest ==
  ASSUME TemplatesStayOff, Before, NEW e \in Ethers, NEW sid \in WireIds, ReadRequest(e, sid),
         requested' = requested
  PROVE  Serving' /\ RepliesOpened(sent', opened')
<1>1. CASE Denied(e, FALSE, "rmp")
  BY <1>1, ServedByDenied
<1>2. CASE /\ \E found \in Found(e, FALSE) :
                 /\ Allowed(found, "rmp")
                 /\ LET t == host_session_check(found.t, found.h, "rmp", sid)
                    IN  \E out \in ReadReplies(t, found.h, e, sid) : Answer(t, out)
           /\ UNCHANGED <<rmp_sid, arp, opened>>
  <2>1. PICK found \in Found(e, FALSE) :
                 /\ Allowed(found, "rmp")
                 /\ LET t == host_session_check(found.t, found.h, "rmp", sid)
                    IN  \E out \in ReadReplies(t, found.h, e, sid) : Answer(t, out)
    BY <1>2
  <2> DEFINE t == host_session_check(found.t, found.h, "rmp", sid)
             h == found.h
  <2>2. /\ Kept(table, found.t, {}) /\ Fades(table, found.t) /\ Sound(found.t)
        /\ h \in DOMAIN found.t.hosts /\ found.t.hosts[h].eth = e
    BY <2>1, KeptByFinding, FadesByFinding DEF Before, Inv, Allowed, Kept
  <2>3. Kept(found.t, t, {}) /\ Fades(found.t, t) /\ t.hosts = found.t.hosts
    BY <2>2, KeptByCheck, FadesByCheck, CheckSound
  <2>4. PICK out \in ReadReplies(t, h, e, sid) : Answer(t, out)
    BY <2>1
  <2> HIDE DEF t
  <2>5. Sound(table) /\ Fades(table, t) /\ Sound(t)
    BY <2>2, <2>3, FadesTransitive DEF Before, Inv, Fades
  <2>6. Private(t) /\ Serves(t, opened, requested)
    BY <2>2, <2>3, <2>5, FadingServes DEF Before, Kept
  <2>7. RepliesOpened(out, opened)
    <3>1. CASE Running(t) /\ CheckResult(t, h, "rmp", sid) = E_NOERROR
      <4>1. /\ HasSession(t, h) /\ SessionOf(t, h).service = "rmp" /\ SessionOf(t, h).sid = sid
        BY <3>1 DEF CheckResult, E_NOERROR, E_NOSESSION, E_BADSID
      <4>2. t.hosts[h].session \in SessPtrs
        BY <2>2, <2>3, <2>5, <4>1, TableFacts DEF Sound
      <4>3. SessionOf(t, h) # Free /\ SessionOf(t, h).owner = e
        BY <2>2, <2>3, <2>6, <4>1 DEF Private, Owned, SessionOf
      <4> DEFINE fd == SessionOf(t, h).fd
      <4>4. fd \in Files => [to |-> e, sid |-> sid, from |-> fd] \in opened
        BY <2>6, <4>1, <4>2, <4>3 DEF Serves, RmpOpened, SessionOf
      <4>5. PICK size \in ReadSizes \cup {0, -1} :
               out = link_send(RMP_READ_REPL + size, "READ_REPL", e, sid, fd)
        BY <3>1 DEF ReadReplies
      <4> QED
        BY <4>4, <4>5 DEF RepliesOpened, link_send
    <3>2. CASE ~(Running(t) /\ CheckResult(t, h, "rmp", sid) = E_NOERROR)
      <4>1. out \in {{}, link_send(RMP_READ_REPL + 0, "READ_REPL", e, sid, "none")}
        BY <3>2 DEF ReadReplies
      <4> QED
        BY <4>1, NoDataReplies, NoReplies
    <3> QED
      BY <3>1, <3>2
  <2>8. table' = t /\ sent' = out
    BY <2>4 DEF Answer
  <2> QED
    BY <1>2, <2>5, <2>7, <2>8, ServingFaded
<1> QED
  BY <1>1, <1>2 DEF ReadRequest

(* A boot request: without a session the table has faded, with one the     *)
(* file was opened for the station.                                        *)
LEMMA ServedByBootFile ==
  ASSUME TemplatesStayOff, Before, NEW e \in Stations, NEW f \in Files \cup {NoFile},
         BootFile(e, f), requested' = requested
  PROVE  Serving' /\ RepliesOpened(sent', opened')
<1>1. e \in Ethers
  BY LinkAssumption
<1>2. PICK found \in Found(e, TRUE) :
         /\ Allowed(found, "rmp")
         /\ IF f = NoFile THEN NoSuchFile(found.t)
            ELSE WithSession(e, found.h, found.t, f, rmp_sid + 1)
  BY DEF BootFile
<1> DEFINE t == found.t
           h == found.h
           E == {e}
<1>3. /\ Kept(table, t, {}) /\ Fades(table, t) /\ Sound(t) /\ Sound(table)
      /\ h \in DOMAIN t.hosts /\ t.hosts[h].eth = e
  BY <1>1, <1>2, KeptByFinding, FadesByFinding DEF Before, Inv, Allowed, Kept
<1>4. rmp_sid < MaxSid
  BY DEF BootFile
<1>5. CASE f = NoFile
  <2>1. table' = Stop(t, "killed") /\ sent' = {}
    BY <1>2, <1>5 DEF NoSuchFile, Answer
  <2>2. ~Running(Stop(t, "killed"))
    BY <1>3, StopSound DEF Statuses
  <2> QED
    BY <2>1, <2>2, NoReplies DEF Serving
<1>6. CASE f # NoFile
  <2> DEFINE sid == rmp_sid + 1
             new == NewSession("rmp", sid, e)
             old == Emptied(t, h)
             added == host_session_add(t, h, new)
             s == added.hosts[h].session
  <2>1. f \in Files /\ sid \in 0 .. MaxSid
    BY <1>4, <1>6, LinkAssumption DEF Before, Inv, LinkTyped
  <2>2. \/ /\ ~Running(added) \/ s = Null
           /\ Answer(added, {})
           /\ UNCHANGED opened
        \/ /\ Running(added) /\ s # Null
           /\ \E fd \in OpenResults(f) :
                 /\ Answer(WithFile(added, h, fd), {})
                 /\ opened' = IF fd = "stdin" THEN opened
                              ELSE opened \cup {[to |-> e, sid |-> sid, from |-> f]}
    BY <1>2, <1>6 DEF WithSession, WithFile
  <2> HIDE DEF sid
  <2>3. /\ new \in NewSessions /\ new.owner = e /\ new.service = "rmp" /\ new.sid = sid
    BY <1>1, <2>1, LinkAssumption DEF NewSession, NewSessions
  <2> HIDE DEF new, t, h
  <2>4. \/ added = old /\ (~Running(added) \/ s = Null)
        \/ /\ Running(added) /\ s # Null /\ s \in SessPtrs
           /\ ~HasSession(old, h) /\ old.sess[s] = Free
           /\ \A file : WithFile(added, h, file) = Opened(old, h, s, new, file)
    BY <1>3, <2>3, AddEnds
  <2>5. Fades(t, old) /\ SameHosts(t, old) /\ Kept(t, old, E)
    BY <1>3, FadesByEmptying, KeptByEmptying
  <2>6. Fades(table, old) /\ Sound(old) /\ Private(old) /\ h \in DOMAIN old.hosts
    BY <1>3, <2>5, FadesTransitive DEF SameHosts, Kept, Before, Fades
  <2>7. Serves(old, opened, requested)
    BY <1>3, <2>6, FadingServes DEF Before
  <2> HIDE DEF old, added, s, E
  <2>8. CASE ~Running(added) \/ s = Null
    <3>1. table' = added /\ sent' = {} /\ opened' = opened
      BY <2>2, <2>8 DEF Answer
    <3>2. added = old
      BY <2>4, <2>8
    <3> QED
      BY <2>6, <3>1, <3>2, ServingFaded, NoReplies
  <2>9. CASE Running(added) /\ s # Null
    <3>1. PICK fd \in OpenResults(f) :
                 /\ Answer(WithFile(added, h, fd), {})
                 /\ opened' = IF fd = "stdin" THEN opened
                              ELSE opened \cup {[to |-> e, sid |-> sid, from |-> f]}
      BY <2>2, <2>9
    <3>2. table' = Opened(old, h, s, new, fd) /\ sent' = {}
      BY <2>4, <2>9, <3>1 DEF Answer
    <3>3. fd \in Source /\ opened \subseteq opened' /\ (fd \in Files => fd = f /\ fd # "stdin")
      BY <2>1, <3>1, LinkAssumption DEF OpenResults, Source
    <3>4. fd \in Files => [to |-> e, sid |-> sid, from |-> fd] \in opened'
      BY <3>1, <3>3
    <3>5. Serves(Opened(old, h, s, new, fd), opened', requested)
      BY <2>3, <2>4, <2>6, <2>7, <2>9, <3>3, <3>4, OpeningServes DEF Private
    <3> QED
      BY <3>2, <3>5, NoReplies DEF Serving
  <2> QED
    BY <2>8, <2>9
<1> QED
  BY <1>5, <1>6

----------------------------------------------------------------------------
LEMMA ServedByTftpDenied ==
  ASSUME Before, NEW n, TftpDenied(n) \/ TftpRejected(n)
  PROVE  Serving' /\ BlocksRequested(data', requested')
<1>1. table' \in {table, Stop(table, "hung")} /\ data' = {}
      /\ requested' = requested /\ opened' = opened
  BY DEF TftpDenied, TftpRejected, Reply
<1>2. Fades(table, table')
  BY <1>1, FadesReflexive, FadesByStop DEF Before, Inv, Statuses
<1> QED
  BY <1>1, <1>2, ServingFaded DEF BlocksRequested

(* An acknowledgement finds the client's own session, of the service TFTP  *)
(* and for this port; its file is that of the last read request.           *)
LEMMA ServedByTftpAck ==
  ASSUME Before, NEW n \in Senders, NEW p \in Ports, TftpAck(n, p)
  PROVE  Serving' /\ BlocksRequested(data', requested')
<1> DEFINE h == util_ip2host(table, n)
           t == host_session_check(table, h, "tftp", p)
<1>1. h \in DOMAIN table.hosts /\ table.hosts[h].name = n
  BY AllowedHost DEF TftpAck, Before
<1>2. Sound(table) /\ Private(table) /\ Fades(table, t)
  BY <1>1, FadesByCheck DEF Before, Inv
<1> DEFINE fd == SessionOf(table, h).fd
<1>3. \/ /\ Running(t) /\ CheckResult(table, h, "tftp", p) = E_NOERROR
         /\ \E out \in Blocks(n, p, fd) : Reply(t, out)
      \/ Reply(t, {})
  BY DEF TftpAck
<1>4. requested' = requested
  BY DEF TftpAck
<1> HIDE DEF h, t
<1>5. ASSUME CheckResult(table, h, "tftp", p) = E_NOERROR, NEW out \in Blocks(n, p, fd)
      PROVE  BlocksRequested(out, requested)
  <2>1. /\ HasSession(table, h)
        /\ SessionOf(table, h).service = "tftp" /\ SessionOf(table, h).sid = p
    BY <1>5 DEF CheckResult, E_NOERROR, E_NOSESSION, E_BADSID
  <2>2. SessionOf(table, h) # Free
    BY <1>1, <1>2, <2>1 DEF Private, Owned, SessionOf
  <2>3. fd \in Files => requested[n] = [sid |-> p, from |-> fd]
    BY <1>1, <2>1, <2>2 DEF Before, Serves, TftpRequested, TftpServed
  <2> HIDE DEF fd
  <2> QED
    BY <1>5, <2>3 DEF BlocksRequested, Blocks
<1>6. BlocksRequested({}, requested)
  BY DEF BlocksRequested
<1>7. PICK out : Reply(t, out) /\ BlocksRequested(out, requested)
  BY <1>3, <1>5, <1>6
<1>8. table' = t /\ data' = out /\ opened' = opened
  BY <1>7 DEF Reply
<1> QED
  BY <1>2, <1>4, <1>7, <1>8, ServingFaded

(* A read request: the client's old session is gone, and with it what the  *)
(* client asked for before.                                                *)
LEMMA ServedByTftpRead ==
  ASSUME TemplatesStayOff, Before, NEW n \in Senders, NEW p \in Ports, NEW f \in Files,
         TftpRead(n, p, f)
  PROVE  Serving' /\ BlocksRequested(data', requested')
<1> DEFINE h == util_ip2host(table, n)
           e == table.hosts[h].eth
           E == {e}
           del == host_session_delete(table, h)
           ses == NewSession("tftp", p, e)
           new == IF Running(del) THEN host_session_add(del, h, ses) ELSE del
           s == new.hosts[h].session
           old == Emptied(del, h)
<1>1. h \in DOMAIN table.hosts /\ table.hosts[h].name = n
  BY AllowedHost DEF TftpRead, Before
<1>2. Sound(table) /\ Private(table) /\ table.hosts[h] \in Hosts /\ e \in Ethers
      /\ util_name2host(table, n) = h
  BY <1>1, TableFacts DEF Before, Inv, Sound, Hosts, util_ip2host
<1>3. \/ /\ ~Running(new) \/ s = Null
         /\ Reply(new, {})
         /\ requested' = [requested EXCEPT ![n] = Nothing]
      \/ /\ Running(new) /\ s # Null
         /\ Reply(WithFile(new, h, "stdin"), {})
         /\ requested' = [requested EXCEPT ![n] = Nothing]
      \/ /\ Running(new) /\ s # Null
         /\ \E out \in Blocks(n, p, f) : Reply(WithFile(new, h, f), out)
         /\ requested' = [requested EXCEPT ![n] = [sid |-> p, from |-> f]]
  BY DEF TftpRead, WithFile
<1>4. ses \in NewSessions /\ ses.owner = e /\ ses.service = "tftp" /\ ses.sid = p
  BY <1>2, BootdAssumption DEF NewSession, NewSessions
<1>5. /\ Kept(table, del, E) /\ SameHosts(table, del) /\ Fades(table, del)
  BY <1>1, <1>2, KeptByDelete, DeleteSame, FadesByDelete
<1>6. Sound(del) /\ Private(del) /\ h \in DOMAIN del.hosts /\ del.hosts[h].eth = e
      /\ del.hosts[h].name = n
  BY <1>1, <1>2, <1>5 DEF Kept, SameHosts
<1> HIDE DEF h, del, ses, e
<1>7. Kept(del, old, E) /\ SameHosts(del, old) /\ Fades(del, old)
      /\ (Running(old) => old.hosts[h].session = Null)
  BY <1>6, KeptByEmptying, FadesByEmptying, EmptiedSound
<1>8. Sound(old) /\ Private(old) /\ Fades(table, old) /\ h \in DOMAIN old.hosts
      /\ old.hosts[h].name = n
  BY <1>2, <1>5, <1>6, <1>7, FadesTransitive DEF Kept, SameHosts
<1>9. util_name2host(old, n) = h
  BY <1>1, <1>2, <1>8, LookupStays DEF Fades
<1>10. Serves(old, opened, requested)
  BY <1>2, <1>8, FadingServes DEF Before
<1>11. opened' = opened
  BY <1>3 DEF Reply
<1>12. \A m \in Senders \ {n} : requested'[m] = requested[m]
  BY <1>3 DEF Before, Inv, BootdTyped
<1>13. ~HasSession(old, h) => Serves(old, opened, requested')
  BY <1>8, <1>9, <1>10, <1>12, ForgettingServes
<1> HIDE DEF old, E
<1>14. CASE ~Running(new) \/ s = Null
  <2>1. table' = new /\ data' = {}
    BY <1>3, <1>14 DEF Reply
  <2>2. Running(new) => new = old /\ ~HasSession(old, h)
    <3>1. SUFFICES ASSUME Running(new) PROVE new = old /\ ~HasSession(old, h)
      OBVIOUS
    <3>2. Running(del) /\ new = host_session_add(del, h, ses)
      BY <3>1
    <3> HIDE DEF new
    <3>3. new = old
      BY <1>4, <1>6, <1>14, <3>1, <3>2, AddEnds DEF old
    <3> QED
      BY <1>7, <3>1, <3>3 DEF HasSession
  <2> QED
    BY <1>11, <1>13, <2>1, <2>2 DEF Serving, BlocksRequested
<1>15. CASE Running(new) /\ s # Null
  <2>1. Running(del) /\ new = host_session_add(del, h, ses)
    BY <1>15
  <2> HIDE DEF new
  <2>2. /\ s \in SessPtrs /\ ~HasSession(old, h) /\ old.sess[s] = Free
        /\ \A file : WithFile(new, h, file) = Opened(old, h, s, ses, file)
    BY <1>4, <1>6, <1>15, <2>1, AddEnds DEF old
  <2>3. Serves(old, opened, requested')
    BY <1>13, <2>2
  <2> HIDE DEF s
  <2>4. PICK fd \in {f, "stdin"}, out \in Blocks(n, p, f) :
           /\ Reply(Opened(old, h, s, ses, fd), out)
           /\ out # {} => fd = f
           /\ fd = f => requested'[n] = [sid |-> p, from |-> f] \/ f = "stdin"
    <3>1. {} \in Blocks(n, p, f)
      BY DEF Blocks
    <3>2. n \in DOMAIN requested
      BY DEF Before, Inv, BootdTyped
    <3> QED
      BY <1>3, <1>15, <2>2, <3>1, <3>2
  <2>5. fd \in Source /\ (fd \in Files => fd = f) /\ f # "stdin"
    BY <2>4, LinkAssumption DEF Source
  <2>6. fd \in Files => requested'[n] = [sid |-> p, from |-> fd]
    BY <2>4, <2>5
  <2>7. Serves(Opened(old, h, s, ses, fd), opened, requested')
    BY <1>4, <1>8, <1>9, <2>2, <2>3, <2>5, <2>6, OpeningServes DEF Private
  <2>8. table' = Opened(old, h, s, ses, fd) /\ data' = out
    BY <2>4 DEF Reply
  <2>9. BlocksRequested(out, requested')
    BY <2>4, <2>5, <2>6 DEF BlocksRequested, Blocks
  <2> QED
    BY <1>11, <2>7, <2>8, <2>9 DEF Serving
<1> QED
  BY <1>14, <1>15

----------------------------------------------------------------------------
(* Every step of the services serves what was opened.                      *)
ServedInv == PrivateInv /\ Serving /\ ServedAsOpened

LEMMA ServedByFrame ==
  ASSUME TemplatesStayOff, Before, NEW e \in Stations, Frame(e), requested' = requested
  PROVE  Serving' /\ RepliesOpened(sent', opened')
<1>1. e \in Ethers
  BY LinkAssumption
<1>2. CASE RarpRequest(e)
  BY <1>1, <1>2, ServedByRarp
<1>3. CASE BootRequest(e)
  BY <1>1, <1>3, ServedByDenied, ServedByProbe, ServedByBootFile DEF BootRequest
<1>4. CASE \E sid \in WireIds : ReadRequest(e, sid)
  BY <1>1, <1>4, ServedByReadRequest
<1>5. CASE BootDone(e)
  BY <1>1, <1>5, ServedByBootDone
<1> QED
  BY <1>2, <1>3, <1>4, <1>5 DEF Frame

LEMMA ServedByDatagram ==
  ASSUME TemplatesStayOff, Before, NEW n \in Senders, Datagram(n)
  PROVE  Serving' /\ BlocksRequested(data', requested') /\ sent' = {}
<1>1. CASE TftpDenied(n) \/ TftpRejected(n)
  BY <1>1, ServedByTftpDenied DEF TftpDenied, TftpRejected, Reply
<1>2. ASSUME NEW p \in Ports, NEW f \in Files, TftpRead(n, p, f)
      PROVE  Serving' /\ BlocksRequested(data', requested') /\ sent' = {}
  BY <1>2, ServedByTftpRead DEF TftpRead, Reply
<1>3. ASSUME NEW p \in Ports, TftpAck(n, p)
      PROVE  Serving' /\ BlocksRequested(data', requested') /\ sent' = {}
  BY <1>3, ServedByTftpAck DEF TftpAck, Reply
<1> QED
  BY <1>1, <1>2, <1>3 DEF Datagram

LEMMA StepServes ==
  ASSUME TemplatesStayOff, ServedInv, [BootdNext]_bootdVars
  PROVE  ServedInv'
<1>1. PrivateInv'
  BY StepKeeps DEF ServedInv, PrivateInv
<1>2. Running(table) => Before
  BY DEF ServedInv, PrivateInv, Serving, Before
<1>3. ServedAsOpened' <=> RepliesOpened(sent', opened') /\ BlocksRequested(data', requested')
  BY DEF ServedAsOpened, RepliesOpened, BlocksRequested
<1>4. RepliesOpened({}, opened') /\ BlocksRequested({}, requested')
  BY DEF RepliesOpened, BlocksRequested
<1>5. CASE \E n \in Senders : Datagram(n)
  <2>1. PICK n \in Senders : Datagram(n)
    BY <1>5
  <2>2. Before
    BY <1>2, <2>1 DEF Datagram
  <2> QED
    BY <1>1, <1>3, <1>4, <2>1, <2>2, ServedByDatagram DEF ServedInv
<1>6. CASE (\E e \in Stations : Frame(e)) /\ data' = {} /\ UNCHANGED requested
  <2>1. PICK e \in Stations : Frame(e)
    BY <1>6
  <2>2. Before
    BY <1>2, <2>1 DEF Frame
  <2> QED
    BY <1>1, <1>3, <1>4, <1>6, <2>1, <2>2, ServedByFrame DEF ServedInv
<1>7. CASE Tick /\ data' = {} /\ UNCHANGED requested
  <2>1. Before /\ sent' = {} /\ opened' = opened
    BY <1>2, <1>7 DEF Tick
  <2>2. Fades(table, table')
    BY <1>7, <2>1, FadesByTick DEF Before
  <2> QED
    BY <1>1, <1>3, <1>4, <1>7, <2>1, <2>2, ServingFaded DEF ServedInv
<1>8. CASE UNCHANGED bootdVars
  <2>1. Serving' /\ ServedAsOpened'
    BY <1>8 DEF bootdVars, vars, ServedInv, Serving, ServedAsOpened
  <2> QED
    BY <1>1, <2>1 DEF ServedInv
<1> QED
  BY <1>5, <1>6, <1>7, <1>8 DEF BootdNext, Next

LEMMA InitServes ==
  ASSUME TemplatesStayOff, BootdInit
  PROVE  ServedInv
<1>1. PrivateInv
  BY InitInv DEF PrivateInv
<1>2. sent = {} /\ data = {}
  BY DEF BootdInit, Init
<1>3. \A s \in SessPtrs : table.sess[s] = Free
  BY DEF BootdInit, Init, TableOf
<1>4. RmpOpened(table, opened)
  BY <1>3 DEF RmpOpened
<1>5. TftpRequested(table, requested)
  BY <1>1, <1>3, TableFacts DEF PrivateInv, Inv, Sound, TftpRequested, TftpServed, SessionOf
<1> QED
  BY <1>1, <1>2, <1>4, <1>5 DEF ServedInv, Serving, Serves, ServedAsOpened

(* Neither service serves the other's session: what rmp_handler or         *)
(* tftp_handler sends of a file was opened by a request of the same        *)
(* service and client, with the id it was asked for, and a block is of the *)
(* client's last read request - for any table without sessions at the      *)
(* hosts host_clone copies, any stations, ports, limits and wire width.    *)
THEOREM ServedAsOpenedAlways ==
  TemplatesStayOff => (BootdSpec => []ServedAsOpened)
<1> SUFFICES ASSUME TemplatesStayOff PROVE BootdSpec => []ServedAsOpened
  OBVIOUS
<1>1. BootdInit => ServedInv
  BY InitServes
<1>2. ServedInv /\ [BootdNext]_bootdVars => ServedInv'
  BY StepServes
<1>3. ServedInv => ServedAsOpened
  BY DEF ServedInv
<1> QED
  BY <1>1, <1>2, <1>3, PTL DEF BootdSpec
=============================================================================
