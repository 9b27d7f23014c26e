------------------------- MODULE Configuration_proofs -------------------------
(***************************************************************************)
(* Proofs about the configuration file, from its characters to the host    *)
(* table (module Configuration), for any files, sizes, addresses and       *)
(* resolvers.                                                              *)
(***************************************************************************)
EXTENDS Configuration, ConfigFile_proofs

----------------------------------------------------------------------------
(* The entries form a tree: an entry comes behind the one whose block it   *)
(* is in, and before everything else comes the file's.                     *)
Subs == {"none", "garbage", "block"}
Entries == [name : Tokens, values : Seq(Tokens), parent : Nat, sub : Subs, processed : BOOLEAN]

Trees ==
    {t \in Seq(Entries) :
        /\ t # <<>>
        /\ t[Root].parent = 0 /\ t[Root].name = NoToken
        /\ \A e \in DOMAIN t : /\ Len(t[e].values) <= ValuesMax
                               /\ e # Root => t[e].parent \in 1 .. e - 1}

EvalPhases == {"log", "basic", "services", "hosts", "check"}
Phases == {"name", "values"} \cup EvalPhases \cup Final

LEMMA UnsetNoToken ==
  Unset \notin Tokens
<1>1. SUFFICES ASSUME Unset \in Tokens PROVE FALSE
  OBVIOUS
<1>2. Len(Unset) = 1
  BY DEF Unset
<1>3. Unset[1] \in Chars
  BY <1>1, <1>2, ElementOfSeq DEF Tokens
<1> QED
  BY <1>3 DEF Unset, Chars

LEMMA TreeFacts ==
  ASSUME NEW t \in Trees
  PROVE  /\ t \in Seq(Entries) /\ Len(t) \in Nat \ {0} /\ DOMAIN t = 1 .. Len(t)
         /\ Root \in DOMAIN t /\ Root = 1
         /\ \A e \in DOMAIN t : /\ t[e] \in Entries /\ e \in Nat
                                /\ t[e].name \in Tokens /\ t[e].values \in Seq(Tokens)
                                /\ Len(t[e].values) \in Nat /\ Len(t[e].values) <= ValuesMax
                                /\ t[e].parent \in Nat /\ t[e].sub \in Subs
                                /\ t[e].processed \in BOOLEAN
                                /\ e # Root => t[e].parent \in 1 .. e - 1 /\ t[e].parent \in DOMAIN t
         /\ t[Root].parent = 0 /\ t[Root].name = NoToken
<1>1. /\ t \in Seq(Entries) /\ t # <<>> /\ t[Root].parent = 0 /\ t[Root].name = NoToken
      /\ \A e \in DOMAIN t : Len(t[e].values) <= ValuesMax
      /\ \A e \in DOMAIN t : e # Root => t[e].parent \in 1 .. e - 1
  BY DEF Trees
<1>2. Len(t) \in Nat /\ DOMAIN t = 1 .. Len(t) /\ Len(t) # 0
  BY <1>1, EmptySeq, LenProperties
<1>3. \A e \in DOMAIN t : t[e] \in Entries
  BY <1>1
<1>4. \A e \in DOMAIN t : /\ t[e].name \in Tokens /\ t[e].values \in Seq(Tokens)
                          /\ t[e].parent \in Nat /\ t[e].sub \in Subs
                          /\ t[e].processed \in BOOLEAN
  BY <1>3 DEF Entries
<1>5. \A e \in DOMAIN t : Len(t[e].values) \in Nat
  BY <1>4, LenProperties
<1>6. \A e \in DOMAIN t : e # Root => t[e].parent \in DOMAIN t
  BY <1>1, <1>2
<1>7. Root = 1 /\ Root \in DOMAIN t /\ \A e \in DOMAIN t : e \in Nat
  BY <1>2 DEF Root
<1> QED
  BY <1>1, <1>2, <1>3, <1>4, <1>5, <1>6, <1>7

----------------------------------------------------------------------------
(* What the parser maintains.                                              *)
ParseTypes ==
    /\ text \in Texts /\ text \in Tokens
    /\ RingOK(text, z)
    /\ taken \in Seq(Tokens) /\ Lexed(text, taken \o Queue(z), z.pos)
    /\ ents \in Trees
    /\ word \in Tokens
    /\ phase \in Phases

(* While the file is parsed nothing of it is evaluated.                    *)
Stack ==
    Parsing =>
        /\ open \in Seq(DOMAIN ents) /\ open # <<>>
        /\ \A e \in DOMAIN ents : ~ents[e].processed
        /\ phase = "values" => Len(ents) # Root

ParseInv == ParseTypes /\ Stack

LEMMA TextIsTokens == Texts \subseteq Tokens
BY TextsAssumption DEF Tokens

(* The tokenizer at the start.                                             *)
LEMMA NewRing ==
  ASSUME NEW s \in Tokens
  PROVE  /\ RingOK(s, gen_tokenize_new)
         /\ Lexed(s, <<>> \o Queue(gen_tokenize_new), gen_tokenize_new.pos)
<1> DEFINE r == gen_tokenize_new
<1>1. Lookahead \in Nat /\ Len(s) \in Nat
  BY LookaheadAssumption, LenProperties DEF Tokens
<1>2. r.pos = 1 /\ r.ts = Empty /\ r.te = 0 /\ r \in Rings
  <2>1. NoToken \in Tokens
    BY DEF NoToken, Tokens
  <2>2. r.t = [i \in 0 .. Lookahead |-> NoToken]
    BY DEF gen_tokenize_new
  <2> QED
    BY <1>1, <2>1, <2>2 DEF gen_tokenize_new, Rings, Empty
<1>3. RingOK(s, r)
  BY <1>1, <1>2 DEF RingOK
<1>4. Queue(r) = <<>>
  <2>1. Queued(r) = 0
    BY <1>2 DEF Queued
  <2>2. Queue(r) \in Seq(Tokens) /\ Len(Queue(r)) = 0
    BY <1>3, <2>1, QueueIs
  <2> QED
    BY <2>2, EmptySeq
<1>5. <<>> \o Queue(r) = <<>>
  BY <1>4
<1> QED
  BY <1>2, <1>3, <1>5, LexedNone

LEMMA ParseInitInv == ParseInit => ParseInv
<1> SUFFICES ASSUME ParseInit PROVE ParseInv
  OBVIOUS
<1>1. text \in Tokens /\ text \in Texts
  BY TextIsTokens DEF ParseInit
<1>2. NoToken \in Tokens /\ <<>> \in Seq(Tokens)
  BY DEF NoToken, Tokens
<1>3. RingOK(text, z) /\ Lexed(text, taken \o Queue(z), z.pos)
  BY <1>1, NewRing DEF ParseInit
<1>4. Entry(NoToken, 0) \in Entries
  BY <1>2 DEF Entry, Entries, Subs
<1>5. ents \in Seq(Entries) /\ Len(ents) = 1 /\ ents[1] = Entry(NoToken, 0) /\ DOMAIN ents = 1 .. 1
  BY <1>4 DEF ParseInit
<1>6. ents \in Trees
  <2>1. /\ ents[1].parent = 0 /\ ents[1].name = NoToken /\ ents[1].values = <<>>
        /\ ~ents[1].processed
    BY <1>5 DEF Entry
  <2>2. ents # <<>> /\ Len(ents[1].values) <= ValuesMax
    BY <1>5, <2>1, ValuesMaxAssumption
  <2> QED
    BY <1>5, <2>1, <2>2 DEF Trees, Root
<1>7. open \in Seq(DOMAIN ents) /\ open # <<>>
  BY <1>5 DEF ParseInit, Root
<1>8. \A e \in DOMAIN ents : ~ents[e].processed
  BY <1>5 DEF Entry
<1>9. word \in Tokens /\ taken \in Seq(Tokens) /\ phase \in Phases /\ phase # "values"
  BY <1>2 DEF ParseInit, Phases
<1> QED
  BY <1>1, <1>3, <1>6, <1>7, <1>8, <1>9 DEF ParseInv, ParseTypes, Stack

(* gen_tokenize_next in a state of the parser.                             *)
LEMMA AdvanceTypes ==
  ASSUME ParseInv, NEW held \in Tokens, Advance(held)
  PROVE  /\ RingOK(text, z') /\ word' \in Tokens
         /\ taken' \in Seq(Tokens) /\ Lexed(text, taken' \o Queue(z'), z'.pos)
         /\ Upcoming = NoToken => word' = held /\ taken' = taken
         /\ Upcoming # NoToken => word' = Upcoming /\ taken' = Append(taken, Upcoming)
                                  /\ Upcoming \in Tokens
<1> DEFINE next == gen_tokenize_next(text, z)
<1>1. text \in Tokens /\ RingOK(text, z) /\ taken \in Seq(Tokens)
      /\ Lexed(text, taken \o Queue(z), z.pos)
  BY DEF ParseInv, ParseTypes
<1>2. /\ RingOK(text, next.z)
      /\ next.w = NoToken => Lexed(text, taken \o Queue(next.z), next.z.pos)
      /\ next.w # NoToken => /\ next.w \in Tokens /\ Append(taken, next.w) \in Seq(Tokens)
                             /\ Lexed(text, Append(taken, next.w) \o Queue(next.z), next.z.pos)
  BY <1>1, NextIs
<1>3. /\ z' = next.z /\ Upcoming = next.w
      /\ word' = IF next.w = NoToken THEN held ELSE next.w
      /\ taken' = IF next.w = NoToken THEN taken ELSE Append(taken, next.w)
  BY DEF Advance, Upcoming
<1> HIDE DEF next
<1> QED
  BY <1>1, <1>2, <1>3

(* A change of one entry that leaves its name and place.                   *)
LEMMA TreeEdit ==
  ASSUME NEW t \in Trees, NEW e \in DOMAIN t, NEW n \in Entries,
         n.name = t[e].name, n.parent = t[e].parent, Len(n.values) <= ValuesMax
  PROVE  /\ [t EXCEPT ![e] = n] \in Trees /\ DOMAIN [t EXCEPT ![e] = n] = DOMAIN t
         /\ Len([t EXCEPT ![e] = n]) = Len(t)
         /\ \A g \in DOMAIN t : [t EXCEPT ![e] = n][g] = IF g = e THEN n ELSE t[g]
<1> DEFINE u == [t EXCEPT ![e] = n]
<1>1. /\ t \in Seq(Entries) /\ DOMAIN t = 1 .. Len(t) /\ Len(t) \in Nat \ {0}
      /\ Root \in DOMAIN t /\ t[Root].parent = 0 /\ t[Root].name = NoToken
      /\ \A g \in DOMAIN t : /\ Len(t[g].values) <= ValuesMax
                             /\ g # Root => t[g].parent \in 1 .. g - 1
  BY TreeFacts
<1>2. /\ u \in Seq(Entries) /\ DOMAIN u = DOMAIN t /\ Len(u) = Len(t)
      /\ \A g \in DOMAIN t : u[g] = IF g = e THEN n ELSE t[g]
  BY <1>1, ExceptSeq
<1> HIDE DEF u
<1>3. \A g \in DOMAIN u : /\ Len(u[g].values) <= ValuesMax
                          /\ u[g].name = t[g].name /\ u[g].parent = t[g].parent
  BY <1>1, <1>2
<1>4. u # <<>>
  BY <1>1, <1>2
<1>5. u \in Trees
  BY <1>1, <1>2, <1>3, <1>4 DEF Trees
<1> QED
  BY <1>2, <1>5 DEF u

LEMMA EndBlockInv ==
  ASSUME ParseInv, EndBlock
  PROVE  ParseInv'
<1>1. /\ phase = "name" /\ Upcoming \in {NoToken, <<"}">>} /\ Advance(word)
      /\ open' = Pop /\ phase' = (IF open' = <<>> THEN "log" ELSE "name") /\ text' = text
  BY DEF EndBlock
<1>2. /\ ents \in Trees /\ word \in Tokens /\ text \in Texts /\ text \in Tokens
      /\ open \in Seq(DOMAIN ents) /\ open # <<>> /\ \A e \in DOMAIN ents : ~ents[e].processed
  BY <1>1 DEF ParseInv, ParseTypes, Stack, Parsing
<1>3. /\ RingOK(text, z') /\ word' \in Tokens
      /\ taken' \in Seq(Tokens) /\ Lexed(text, taken' \o Queue(z'), z'.pos)
  BY <1>1, <1>2, AdvanceTypes
<1>4. PICK sub \in Subs : ents' = [ents EXCEPT ![Last(open)].sub = sub]
  BY DEF EndBlock, Subs
<1>5. /\ Last(open) \in DOMAIN ents /\ open' \in Seq(DOMAIN ents)
  <2>1. Len(open) \in Nat \ {0}
    BY <1>2, EmptySeq, LenProperties
  <2>2. open[Len(open)] \in DOMAIN ents
    BY <1>2, <2>1, ElementOfSeq
  <2>3. SubSeq(open, 1, Len(open) - 1) \in Seq(DOMAIN ents)
    BY <1>2, <2>1, SubSeqProperties
  <2> QED
    BY <1>1, <2>2, <2>3 DEF Last, Pop, Front
<1> DEFINE e == Last(open)
           n == [ents[e] EXCEPT !.sub = sub]
<1>6. /\ n \in Entries /\ n.name = ents[e].name /\ n.parent = ents[e].parent
      /\ Len(n.values) <= ValuesMax /\ n.processed = ents[e].processed
  <2>1. ents[e] \in Entries /\ Len(ents[e].values) <= ValuesMax
    BY <1>2, <1>5, TreeFacts
  <2> QED
    BY <2>1 DEF Entries
<1>7. ents' = [ents EXCEPT ![e] = n]
  BY <1>4
<1> HIDE DEF n, e
<1>8. /\ ents' \in Trees /\ DOMAIN ents' = DOMAIN ents
      /\ \A g \in DOMAIN ents : ents'[g] = IF g = e THEN n ELSE ents[g]
  BY <1>2, <1>5, <1>6, <1>7, TreeEdit DEF e
<1>9. \A g \in DOMAIN ents' : ~ents'[g].processed
  BY <1>2, <1>6, <1>8
<1>10. phase' \in Phases /\ phase' # "values"
  BY <1>1 DEF Phases, EvalPhases
<1>11. Stack'
  BY <1>1, <1>5, <1>8, <1>9, <1>10 DEF Stack, Parsing
<1> QED
  BY <1>1, <1>2, <1>3, <1>8, <1>10, <1>11 DEF ParseInv, ParseTypes

(* The name of a statement and the token behind it.                        *)
LEMMA NewEntryTypes ==
  ASSUME ParseInv, NewEntry,
         NEW first, first = gen_tokenize_next(text, z),
         NEW second, second = gen_tokenize_next(text, first.z)
  PROVE  /\ first.w \in Tokens /\ first.w # NoToken
         /\ word' = (IF second.w = NoToken THEN first.w ELSE second.w) /\ word' \in Tokens
         /\ ents' = Append(ents, Entry(first.w, Last(open)))
         /\ RingOK(text, z') /\ z' = second.z
         /\ taken' = IF second.w = NoToken THEN Append(taken, first.w)
                     ELSE Append(Append(taken, first.w), second.w)
         /\ taken' \in Seq(Tokens) /\ Lexed(text, taken' \o Queue(z'), z'.pos)
         /\ Len(taken') \in {Len(taken) + 1, Len(taken) + 2}
<1>1. text \in Tokens /\ RingOK(text, z) /\ taken \in Seq(Tokens)
      /\ Lexed(text, taken \o Queue(z), z.pos)
  BY DEF ParseInv, ParseTypes
<1>2. /\ first.w # NoToken
      /\ ents' = Append(ents, Entry(first.w, Last(open))) /\ z' = second.z
      /\ word' = IF second.w = NoToken THEN first.w ELSE second.w
      /\ taken' = taken \o <<first.w>> \o (IF second.w = NoToken THEN <<>> ELSE <<second.w>>)
  BY DEF NewEntry, Upcoming
<1> DEFINE one == Append(taken, first.w)
<1>3. /\ RingOK(text, first.z) /\ first.w \in Tokens /\ one \in Seq(Tokens)
      /\ Lexed(text, one \o Queue(first.z), first.z.pos)
  BY <1>1, <1>2, NextIs
<1>4. taken \o <<first.w>> = one /\ Len(one) = Len(taken) + 1 /\ Len(taken) \in Nat
  BY <1>1, <1>3, AppendIsConcat, AppendProperties, LenProperties
<1> HIDE DEF one
<1>5. /\ RingOK(text, second.z)
      /\ second.w = NoToken => Lexed(text, one \o Queue(second.z), second.z.pos)
      /\ second.w # NoToken => /\ second.w \in Tokens /\ Append(one, second.w) \in Seq(Tokens)
                               /\ Lexed(text, Append(one, second.w) \o Queue(second.z), second.z.pos)
  BY <1>1, <1>3, NextIs
<1>6. CASE second.w = NoToken
  <2>1. taken' = one
    BY <1>2, <1>3, <1>4, <1>6, ConcatEmptySeq
  <2> QED
    BY <1>2, <1>3, <1>4, <1>5, <1>6, <2>1 DEF one
<1>7. CASE second.w # NoToken
  <2>1. taken' = Append(one, second.w) /\ Len(Append(one, second.w)) = Len(one) + 1
    BY <1>2, <1>3, <1>4, <1>5, <1>7, AppendIsConcat, AppendProperties
  <2>2. Len(taken') = Len(taken) + 2
    BY <1>4, <2>1
  <2>3. taken' \in Seq(Tokens) /\ Lexed(text, taken' \o Queue(z'), z'.pos)
    BY <1>2, <1>5, <1>7, <2>1
  <2> QED
    BY <1>2, <1>3, <1>5, <1>7, <2>1, <2>2, <2>3 DEF one
<1> QED
  BY <1>6, <1>7

LEMMA NewEntryInv ==
  ASSUME ParseInv, NewEntry
  PROVE  ParseInv'
<1> DEFINE first == gen_tokenize_next(text, z)
           second == gen_tokenize_next(text, first.z)
           n == Entry(first.w, Last(open))
<1>1. /\ first.w \in Tokens /\ first.w # NoToken /\ word' \in Tokens
      /\ ents' = Append(ents, n) /\ RingOK(text, z')
      /\ taken' \in Seq(Tokens) /\ Lexed(text, taken' \o Queue(z'), z'.pos)
  BY NewEntryTypes
<1> HIDE DEF first, second
<1>2. /\ phase = "name" /\ phase' = "values" /\ text' = text /\ open' = open
  BY DEF NewEntry
<1>3. /\ ents \in Trees /\ text \in Texts /\ text \in Tokens
      /\ open \in Seq(DOMAIN ents) /\ open # <<>> /\ \A e \in DOMAIN ents : ~ents[e].processed
  BY <1>2 DEF ParseInv, ParseTypes, Stack, Parsing
<1>4. Last(open) \in DOMAIN ents
  <2>1. Len(open) \in Nat \ {0}
    BY <1>3, EmptySeq, LenProperties
  <2> QED
    BY <1>3, <2>1, ElementOfSeq DEF Last
<1>5. /\ ents \in Seq(Entries) /\ Len(ents) \in Nat \ {0} /\ DOMAIN ents = 1 .. Len(ents)
      /\ Root \in DOMAIN ents /\ ents[Root].parent = 0 /\ ents[Root].name = NoToken
      /\ \A g \in DOMAIN ents : /\ Len(ents[g].values) <= ValuesMax
                                /\ g # Root => ents[g].parent \in 1 .. g - 1
  BY <1>3, TreeFacts
<1>6. /\ n \in Entries /\ n.values = <<>> /\ n.parent = Last(open) /\ ~n.processed
  BY <1>1, <1>4, <1>5 DEF Entry, Entries, Subs
<1> HIDE DEF n
<1>7. /\ ents' \in Seq(Entries) /\ Len(ents') = Len(ents) + 1 /\ DOMAIN ents' = 1 .. Len(ents) + 1
      /\ \A g \in DOMAIN ents : ents'[g] = ents[g]
      /\ ents'[Len(ents) + 1] = n
  BY <1>1, <1>5, <1>6, AppendProperties, LenProperties
<1>8. ASSUME NEW g \in DOMAIN ents'
      PROVE  /\ Len(ents'[g].values) <= ValuesMax /\ ~ents'[g].processed
             /\ g # Root => ents'[g].parent \in 1 .. g - 1
  <2>1. CASE g \in DOMAIN ents
    BY <1>3, <1>5, <1>7, <2>1
  <2>2. CASE g = Len(ents) + 1
    BY <1>4, <1>5, <1>6, <1>7, <2>2, ValuesMaxAssumption
  <2> QED
    BY <1>5, <1>7, <2>1, <2>2
<1>9. ents' \in Trees
  <2>1. ents' # <<>> /\ Root \in DOMAIN ents /\ ents'[Root] = ents[Root]
    BY <1>5, <1>7
  <2> QED
    BY <1>5, <1>7, <1>8, <2>1 DEF Trees
<1>10. open' \in Seq(DOMAIN ents')
  <2>1. DOMAIN ents \subseteq DOMAIN ents'
    BY <1>5, <1>7
  <2> QED
    BY <1>2, <1>3, <2>1, SeqMonotonic
<1>11. Len(ents') # Root
  BY <1>5, <1>7 DEF Root
<1> QED
  BY <1>1, <1>2, <1>3, <1>8, <1>9, <1>10, <1>11 DEF ParseInv, ParseTypes, Stack, Phases

LEMMA ValueInv ==
  ASSUME ParseInv, Value
  PROVE  ParseInv' /\ Len(ents') = Len(ents) /\ DOMAIN ents' = DOMAIN ents
<1> DEFINE e == Len(ents)
           n == [ents[e] EXCEPT !.values = Append(@, word)]
<1>1. /\ phase = "values" /\ Len(Last(ents).values) < ValuesMax
      /\ ents' = [ents EXCEPT ![e] = n]
      /\ Advance(word) /\ text' = text /\ open' = open /\ phase' = phase
  BY DEF Value
<1>2. /\ ents \in Trees /\ word \in Tokens /\ text \in Texts /\ text \in Tokens /\ e # Root
      /\ open \in Seq(DOMAIN ents) /\ open # <<>> /\ \A g \in DOMAIN ents : ~ents[g].processed
  BY <1>1 DEF ParseInv, ParseTypes, Stack, Parsing
<1>3. /\ RingOK(text, z') /\ word' \in Tokens
      /\ taken' \in Seq(Tokens) /\ Lexed(text, taken' \o Queue(z'), z'.pos)
  BY <1>1, <1>2, AdvanceTypes
<1>4. /\ e \in DOMAIN ents /\ ents[e] \in Entries /\ Last(ents) = ents[e]
      /\ ents[e].values \in Seq(Tokens) /\ Len(ents[e].values) \in Nat
  BY <1>2, TreeFacts DEF Last
<1>5. /\ Append(ents[e].values, word) \in Seq(Tokens)
      /\ Len(Append(ents[e].values, word)) <= ValuesMax
  BY <1>1, <1>2, <1>4, AppendProperties, ValuesMaxAssumption
<1>6. /\ n \in Entries /\ n.name = ents[e].name /\ n.parent = ents[e].parent
      /\ Len(n.values) <= ValuesMax /\ n.processed = ents[e].processed
  BY <1>4, <1>5 DEF Entries
<1> HIDE DEF n, e
<1>7. /\ ents' \in Trees /\ DOMAIN ents' = DOMAIN ents /\ Len(ents') = Len(ents)
      /\ \A g \in DOMAIN ents : ents'[g] = IF g = e THEN n ELSE ents[g]
  <2>1. ents \in Trees /\ e \in DOMAIN ents
    BY <1>2, <1>4
  <2>2. /\ [ents EXCEPT ![e] = n] \in Trees /\ DOMAIN [ents EXCEPT ![e] = n] = DOMAIN ents
        /\ Len([ents EXCEPT ![e] = n]) = Len(ents)
        /\ \A g \in DOMAIN ents : [ents EXCEPT ![e] = n][g] = IF g = e THEN n ELSE ents[g]
    BY <1>6, <2>1, TreeEdit
  <2> QED
    BY <1>1, <2>2
<1>8. \A g \in DOMAIN ents' : ~ents'[g].processed
  BY <1>2, <1>6, <1>7
<1>9. Stack'
  BY <1>1, <1>2, <1>7, <1>8 DEF Stack, Parsing, e
<1>10. phase' \in Phases
  BY <1>1 DEF Phases
<1> QED
  BY <1>1, <1>2, <1>3, <1>7, <1>9, <1>10 DEF ParseInv, ParseTypes

LEMMA OpenBlockInv ==
  ASSUME ParseInv, OpenBlock
  PROVE  ParseInv'
<1>1. /\ phase = "values" /\ phase' = "name" /\ open' = Append(open, Len(ents))
      /\ UNCHANGED <<text, z, ents, word, taken>>
  BY DEF OpenBlock
<1>2. /\ ents \in Trees /\ open \in Seq(DOMAIN ents) /\ open # <<>>
      /\ \A g \in DOMAIN ents : ~ents[g].processed
  BY <1>1 DEF ParseInv, ParseTypes, Stack, Parsing
<1>3. Len(ents) \in DOMAIN ents
  BY <1>2, TreeFacts
<1>4. open' \in Seq(DOMAIN ents) /\ open' # <<>>
  BY <1>1, <1>2, <1>3, AppendProperties
<1>5. Stack'
  BY <1>1, <1>2, <1>4 DEF Stack
<1>6. ParseTypes'
  BY <1>1 DEF ParseInv, ParseTypes, Phases
<1> QED
  BY <1>5, <1>6 DEF ParseInv

LEMMA ParseStepInv ==
  ASSUME ParseInv, ParseStep
  PROVE  ParseInv'
<1>1. CASE EndBlock
  BY <1>1, EndBlockInv
<1>2. CASE NewEntry
  BY <1>2, NewEntryInv
<1>3. CASE EndStatement
  BY <1>3 DEF EndStatement, ParseInv, ParseTypes, Stack, Parsing, Phases
<1>4. CASE OpenBlock
  BY <1>4, OpenBlockInv
<1>5. CASE Separator
  BY <1>5 DEF Separator, parseVars, ParseInv, ParseTypes, Stack, Parsing
<1>6. CASE Value
  BY <1>6, ValueInv
<1>7. CASE TooManyValues
  BY <1>7 DEF TooManyValues, ParseInv, ParseTypes, Stack, Parsing, Phases, Final
<1> QED
  BY <1>1, <1>2, <1>3, <1>4, <1>5, <1>6, <1>7 DEF ParseStep

----------------------------------------------------------------------------
(* The records the evaluation works on.                                    *)
DefaultWords == {<<"debug">>, <<"5">>, <<"120">>}
Words == Tokens \cup {Unset} \cup DefaultWords \cup EtherWords \cup IpWords
         \cup DOMAIN EtherOf \cup DOMAIN IpOf
Ethers == EtherWords \cup {Unset}
Ips == IpWords \cup {Unset}

LogSettings == [file : Words, level : Words]
Settings == [chroot : Words, directory : Words, resolve_ether : BOOLEAN, resolve_ip : BOOLEAN,
             session_max : Words, session_timeout : Words]
Values == Tokens \cup {Unset}
Files == {f \in [path : Values, name : Values, server : Values, aliases : Seq(Tokens),
                 service : Masks] : Len(f.aliases) <= AliasesMax}

(* The files of a host have names, and no two of them the same.            *)
FileLists ==
    {s \in Seq(Files) : /\ \A i \in DOMAIN s : s[i].name # Unset
                        /\ \A i, j \in DOMAIN s : s[i].name = s[j].name => i = j}

Hosts == [name : Words, ether : Ethers, ip : Ips, service : Masks, files : FileLists, entry : Nat]

ListedHosts ==
    {h \in Hosts : /\ h.name # Unset /\ h.ether # Unset /\ h.ip # Unset /\ h.service # {}
                   /\ \A i \in DOMAIN h.files : h.files[i].path # Unset
                                                /\ h.files[i].service # {}}

Asked == SUBSET (ServiceNames \X Tokens)
Statuses == {"running", "exited", "killed", "undefined"}

Contexts ==
    [log : LogSettings, set : Settings, hosts : Seq(ListedHosts), asked : Asked,
     ents : Trees, h : Hosts, f : Files, status : Statuses]

(* u is t with some of the entries in M marked.                            *)
Marked(t, u, M) ==
    /\ DOMAIN u = DOMAIN t
    /\ \A e \in DOMAIN t : \/ u[e] = t[e]
                           \/ e \in M /\ u[e] = [t[e] EXCEPT !.processed = TRUE]

(* What the operations make of c that mark only entries of M.              *)
From(c, M) ==
    {d \in Contexts : /\ Marked(c.ents, d.ents, M)
                      /\ d.hosts = c.hosts
                      /\ c.status # "running" => d.status # "running"}

(* Those that do not change the settings nor the name of the host, nor     *)
(* take its ethernet address away.                                         *)
Keeping(c) == {d \in Contexts : /\ d.set = c.set
                                /\ c.h.name # Unset => d.h.name = c.h.name
                                /\ c.h.ether # Unset => d.h.ether # Unset}

Children(t, b, keys) == {e \in DOMAIN t : t[e].parent = b /\ t[e].name \in keys}

LEMMA MarkedFacts ==
  ASSUME NEW t \in Trees, NEW u \in Trees, NEW M, Marked(t, u, M)
  PROVE  /\ DOMAIN u = DOMAIN t /\ Len(u) = Len(t)
         /\ \A e \in DOMAIN t : /\ u[e].name = t[e].name /\ u[e].parent = t[e].parent
                                /\ u[e].values = t[e].values /\ u[e].sub = t[e].sub
                                /\ t[e].processed => u[e].processed
                                /\ u[e].processed => t[e].processed \/ e \in M
         /\ \A b, keys : Children(u, b, keys) = Children(t, b, keys)
<1>1. /\ DOMAIN u = DOMAIN t /\ DOMAIN t = 1 .. Len(t) /\ DOMAIN u = 1 .. Len(u)
      /\ Len(t) \in Nat /\ Len(u) \in Nat
  BY TreeFacts DEF Marked
<1>2. \A e \in DOMAIN t : t[e] \in Entries
  BY TreeFacts
<1>3. \A e \in DOMAIN t : /\ u[e].name = t[e].name /\ u[e].parent = t[e].parent
                          /\ u[e].values = t[e].values /\ u[e].sub = t[e].sub
                          /\ t[e].processed => u[e].processed
                          /\ u[e].processed => t[e].processed \/ e \in M
  BY <1>2 DEF Marked, Entries
<1>4. \A b, keys : Children(u, b, keys) = Children(t, b, keys)
  BY <1>1, <1>3 DEF Children
<1> QED
  BY <1>1, <1>3, <1>4

LEMMA MarkedTransitive ==
  ASSUME NEW t \in Trees, NEW u, NEW v, NEW M, Marked(t, u, M), Marked(u, v, M)
  PROVE  Marked(t, v, M)
<1>1. \A e \in DOMAIN t : t[e] \in Entries
  BY TreeFacts
<1>2. ASSUME NEW n \in Entries
      PROVE  [[n EXCEPT !.processed = TRUE] EXCEPT !.processed = TRUE]
             = [n EXCEPT !.processed = TRUE]
  BY DEF Entries
<1>3. DOMAIN v = DOMAIN t
  BY DEF Marked
<1>4. ASSUME NEW e \in DOMAIN t
      PROVE  v[e] = t[e] \/ (e \in M /\ v[e] = [t[e] EXCEPT !.processed = TRUE])
  <2>1. u[e] = t[e] \/ (e \in M /\ u[e] = [t[e] EXCEPT !.processed = TRUE])
    BY Zenon DEF Marked
  <2>2. v[e] = u[e] \/ (e \in M /\ v[e] = [u[e] EXCEPT !.processed = TRUE])
    <3>1. e \in DOMAIN u
      BY DEF Marked
    <3> QED
      BY <3>1, Zenon DEF Marked
  <2> QED
    BY <1>1, <1>2, <2>1, <2>2
<1> QED
  BY <1>3, <1>4 DEF Marked

LEMMA FromFacts ==
  ASSUME NEW c \in Contexts, NEW M
  PROVE  /\ c \in From(c, M) /\ c \in Keeping(c)
         /\ \A d \in From(c, M) : From(d, M) \subseteq From(c, M)
         /\ \A d \in Keeping(c) : Keeping(d) \subseteq Keeping(c)
         /\ \A N : M \subseteq N => From(c, M) \subseteq From(c, N)
<1>1. c.ents \in Trees
  BY DEF Contexts
<1>2. c \in From(c, M)
  BY DEF From, Marked
<1>3. ASSUME NEW d \in From(c, M), NEW x \in From(d, M) PROVE x \in From(c, M)
  <2>1. Marked(c.ents, d.ents, M) /\ Marked(d.ents, x.ents, M)
    BY DEF From
  <2>2. Marked(c.ents, x.ents, M)
    BY <1>1, <2>1, MarkedTransitive
  <2> QED
    BY <2>2 DEF From
<1>4. ASSUME NEW N, M \subseteq N, NEW d \in From(c, M) PROVE d \in From(c, N)
  BY <1>4 DEF From, Marked
<1>5. c \in Keeping(c) /\ \A d \in Keeping(c) : Keeping(d) \subseteq Keeping(c)
  BY DEF Keeping
<1> QED
  BY <1>2, <1>3, <1>4, <1>5

(* What of a context a change of one member leaves.                        *)
LEMMA StopIs ==
  ASSUME NEW c \in Contexts, NEW s \in Statuses, NEW M
  PROVE  /\ Stop(c, s) \in Contexts /\ Stop(c, s).status = s
         /\ Stop(c, s).ents = c.ents /\ Stop(c, s).hosts = c.hosts /\ Stop(c, s).set = c.set
         /\ s # "running" => Stop(c, s) \in From(c, M)
         /\ Stop(c, s) \in Keeping(c)
<1>1. /\ Stop(c, s) \in Contexts /\ Stop(c, s).status = s
      /\ Stop(c, s).ents = c.ents /\ Stop(c, s).hosts = c.hosts /\ Stop(c, s).set = c.set
      /\ Stop(c, s).h = c.h
  BY DEF Stop, Contexts
<1>2. Marked(c.ents, c.ents, M)
  BY DEF Marked
<1> QED
  BY <1>1, <1>2 DEF From, Keeping

(* The matching entries, in order.                                         *)
Found(c, b, key, es) ==
    /\ Len(es) \in Nat /\ DOMAIN es = 1 .. Len(es)
    /\ es # <<>> => 1 \in DOMAIN es
    /\ \A i \in DOMAIN es : /\ es[i] \in DOMAIN c.ents /\ c.ents[es[i]].parent = b
                            /\ c.ents[es[i]].name = <<key>> /\ ~c.ents[es[i]].processed
    /\ \A e \in Children(c.ents, b, {<<key>>}) :
          ~c.ents[e].processed => \E i \in DOMAIN es : es[i] = e
    /\ \A i, j \in DOMAIN es : i < j => es[i] < es[j]
    /\ Range(es) \subseteq Children(c.ents, b, {<<key>>})

LEMMA MatchingIs ==
  ASSUME NEW c \in Contexts, NEW b, NEW key
  PROVE  Found(c, b, key, Matching(c, b, key))
<1> DEFINE S == {e \in Unprocessed(c, b) : c.ents[e].name = <<key>>}
<1>0. PICK es : es = Matching(c, b, key)
  OBVIOUS
<1>1. c.ents \in Trees
  BY DEF Contexts
<1>2. DOMAIN c.ents = 1 .. Len(c.ents) /\ Len(c.ents) \in Nat
  BY <1>1, TreeFacts
<1>3. \A e : e \in S <=> /\ e \in Children(c.ents, b, {<<key>>})
                         /\ ~c.ents[e].processed
  BY DEF Unprocessed, Children
<1>4. S \in SUBSET (1 .. Len(c.ents))
  BY <1>2 DEF Unprocessed
<1> HIDE DEF S
<1>5. InOrderSeq(es, S)
  BY <1>0, <1>2, <1>4, InOrderIs DEF Matching, S
<1>6. es \in Seq(S) /\ Len(es) \in Nat /\ DOMAIN es = 1 .. Len(es) /\ \A i \in DOMAIN es : es[i] \in S
  BY <1>5, LenProperties, ElementOfSeq DEF InOrderSeq
<1>7. S \subseteq Children(c.ents, b, {<<key>>})
  BY <1>3
<1>9. \A i \in DOMAIN es : /\ es[i] \in DOMAIN c.ents /\ c.ents[es[i]].parent = b
                           /\ c.ents[es[i]].name = <<key>> /\ ~c.ents[es[i]].processed
  BY <1>3, <1>6 DEF Children
<1>10. Range(es) \subseteq Children(c.ents, b, {<<key>>})
  BY <1>6, <1>7 DEF Range
<1>11. es # <<>> => 1 \in DOMAIN es
  BY <1>6, EmptySeq
<1>12. Found(c, b, key, es)
  BY <1>3, <1>5, <1>6, <1>9, <1>10, <1>11 DEF InOrderSeq, Found
<1> QED
  BY <1>0, <1>12

LEMMA MarkIs ==
  ASSUME NEW c \in Contexts, NEW es, NEW M, Range(es) \subseteq M, NEW d, d = Mark(c, es)
  PROVE  /\ d \in From(c, M) /\ d \in Keeping(c) /\ d \in Contexts
         /\ d = [c EXCEPT !.ents = d.ents]
         /\ d.h = c.h /\ d.f = c.f /\ d.status = c.status /\ d.set = c.set /\ d.log = c.log
         /\ d.hosts = c.hosts /\ d.asked = c.asked
         /\ \A e \in DOMAIN c.ents : e \in Range(es) => d.ents[e].processed
<1> DEFINE u == [e \in DOMAIN c.ents |-> IF e \in Range(es)
                                         THEN [c.ents[e] EXCEPT !.processed = TRUE]
                                         ELSE c.ents[e]]
<1>1. c.ents \in Trees
  BY DEF Contexts
<1>2. /\ c.ents \in Seq(Entries) /\ DOMAIN c.ents = 1 .. Len(c.ents) /\ Len(c.ents) \in Nat \ {0}
      /\ Root \in DOMAIN c.ents /\ c.ents[Root].parent = 0 /\ c.ents[Root].name = NoToken
      /\ \A e \in DOMAIN c.ents : /\ c.ents[e] \in Entries
                                  /\ Len(c.ents[e].values) <= ValuesMax
                                  /\ e # Root => c.ents[e].parent \in 1 .. e - 1
  BY <1>1, TreeFacts
<1>3. ASSUME NEW n \in Entries
      PROVE  /\ [n EXCEPT !.processed = TRUE] \in Entries
             /\ [n EXCEPT !.processed = TRUE].name = n.name
             /\ [n EXCEPT !.processed = TRUE].parent = n.parent
             /\ [n EXCEPT !.processed = TRUE].values = n.values
             /\ [n EXCEPT !.processed = TRUE].processed
  BY DEF Entries
<1>4. /\ DOMAIN u = DOMAIN c.ents
      /\ \A e \in DOMAIN c.ents : u[e] = IF e \in Range(es)
                                         THEN [c.ents[e] EXCEPT !.processed = TRUE]
                                         ELSE c.ents[e]
  OBVIOUS
<1>5. d = [c EXCEPT !.ents = u]
  BY DEF Mark
<1>6. u = [e \in 1 .. Len(c.ents) |-> u[e]]
  BY <1>2
<1> HIDE DEF u
<1>7. ASSUME NEW e \in DOMAIN u
      PROVE  /\ u[e] \in Entries /\ Len(u[e].values) <= ValuesMax
             /\ u[e].name = c.ents[e].name /\ u[e].parent = c.ents[e].parent
             /\ e \in Range(es) => u[e].processed
  <2>1. c.ents[e] \in Entries /\ Len(c.ents[e].values) <= ValuesMax
    BY <1>2, <1>4
  <2>2. CASE e \in Range(es)
    <3>1. u[e] = [c.ents[e] EXCEPT !.processed = TRUE]
      BY <1>4, <2>2
    <3> QED
      BY <1>3, <2>1, <3>1
  <2>3. CASE e \notin Range(es)
    BY <1>4, <2>1, <2>3
  <2> QED
    BY <2>2, <2>3
<1>8. u \in Seq(Entries) /\ Len(u) = Len(c.ents) /\ u # <<>>
  <2>1. u \in [1 .. Len(c.ents) -> Entries]
    BY <1>2, <1>4, <1>6, <1>7
  <2> QED
    BY <1>2, <2>1
<1>9. u \in Trees
  BY <1>2, <1>4, <1>7, <1>8 DEF Trees
<1>10. Marked(c.ents, u, M)
  BY <1>4 DEF Marked
<1>11. \A e \in DOMAIN c.ents : e \in Range(es) => u[e].processed
  BY <1>4, <1>7
<1>12. /\ d \in Contexts /\ d.ents = u /\ d.h = c.h /\ d.f = c.f /\ d.status = c.status
       /\ d.set = c.set /\ d.log = c.log /\ d.hosts = c.hosts /\ d.asked = c.asked
  BY <1>5, <1>9 DEF Contexts
<1> QED
  BY <1>5, <1>10, <1>11, <1>12 DEF From, Keeping

(* A search: what it comes to when it is in a block.                       *)
LEMMA ReadingIs ==
  ASSUME NEW c \in Contexts, NEW b, NEW d
  PROVE  \/ Reading(c, b, d) = c /\ c.status # "running"
         \/ Reading(c, b, d) = Stop(c, "undefined") /\ c.status = "running"
         \/ Reading(c, b, d) = d /\ c.status = "running"
BY DEF Reading

LEMMA NoneLeftIs ==
  ASSUME NEW c \in Contexts, NEW b, NEW M, NEW d, d = NoneLeft(c, b)
  PROVE  /\ d \in From(c, M) /\ d \in Keeping(c) /\ d.ents = c.ents
         /\ d.status = "running" => d = c /\ \A e \in DOMAIN d.ents :
                                                d.ents[e].parent = b => d.ents[e].processed
<1>1. CASE d = c /\ c.status # "running"
  BY <1>1, FromFacts
<1>2. CASE \E s \in {"undefined", "exited"} : d = Stop(c, s)
  BY <1>2, StopIs DEF Statuses
<1>3. CASE d = c /\ Unprocessed(c, b) = {}
  BY <1>3, FromFacts DEF Unprocessed
<1>4. \/ d = c /\ c.status # "running"
      \/ d = Stop(c, "undefined") \/ d = Stop(c, "exited")
      \/ d = c /\ Unprocessed(c, b) = {}
  BY DEF NoneLeft, Reading
<1> QED
  BY <1>1, <1>2, <1>3, <1>4

(* The first listed host with a name or an address.                        *)
LEMMA FirstListedIs ==
  ASSUME NEW c \in Contexts, NEW key, NEW v, Listed(c, key, v) # {}
  PROVE  /\ FirstListed(c, key, v) \in ListedHosts
         /\ \E i \in DOMAIN c.hosts : FirstListed(c, key, v) = c.hosts[i]
<1> DEFINE S == Listed(c, key, v)
<1>1. c.hosts \in Seq(ListedHosts)
  BY DEF Contexts
<1>2. DOMAIN c.hosts = 1 .. Len(c.hosts) /\ Len(c.hosts) \in Nat
  BY <1>1, LenProperties
<1>3. S \subseteq DOMAIN c.hosts /\ S \in SUBSET Nat /\ S # {}
  BY <1>2 DEF Listed
<1>4. PICK k \in S : \A j \in S : k <= j
  <2> HIDE DEF S
  <2> QED
    BY <1>3, Smallest
<1>5. Min(S) \in S
  BY <1>4 DEF Min
<1>6. Min(S) \in DOMAIN c.hosts
  BY <1>3, <1>5
<1> QED
  BY <1>1, <1>2, <1>6, ElementOfSeq DEF FirstListed

LEMMA AddressIs ==
  ASSUME NEW c \in Contexts, NEW w
  PROVE  util_name2ether(c, w) \in Ethers /\ util_name2ip(c, w) \in Ips
<1>1. Listed(c, "name", w) # {} => /\ FirstListed(c, "name", w)["ether"] \in Ethers
                                   /\ FirstListed(c, "name", w)["ip"] \in Ips
  BY FirstListedIs DEF ListedHosts, Hosts
<1>2. \A x \in DOMAIN EtherOf : EtherOf[x] \in Ethers
  BY AddressAssumption DEF Ethers
<1>3. \A x \in DOMAIN IpOf : IpOf[x] \in Ips
  BY AddressAssumption DEF Ips
<1>4. util_name2ether(c, w) \in Ethers
  BY <1>1, <1>2 DEF util_name2ether, Resolved, Ethers
<1>5. util_name2ip(c, w) \in Ips
  BY <1>1, <1>3 DEF util_name2ip, Resolved, Ips
<1> QED
  BY <1>4, <1>5

(* i_get_string and its like: nothing, an end, or a value at c[dst][key].  *)
Got(c, d, M, dst, key, kind) ==
    \E m \in From(c, M) \cap Keeping(c), w \in Tokens :
        /\ m.h = c.h /\ m.f = c.f /\ m.set = c.set /\ m.log = c.log
        /\ Accepts(c, kind, w)
        /\ kind = "string" => c[dst][key] = Unset
        /\ d = [m EXCEPT ![dst][key] = Meaning(c, kind, w)]

LEMMA GetIs ==
  ASSUME NEW c \in Contexts, NEW b, NEW dst, NEW key, NEW kind, NEW M,
         Children(c.ents, b, {<<key>>}) \subseteq M, NEW d, d = Get(c, b, dst, key, kind)
  PROVE  \/ d \in From(c, M) \cap Keeping(c) /\ d.ents = c.ents
         \/ Got(c, d, M, dst, key, kind)
<1>0. PICK es, m : es = Matching(c, b, key) /\ m = Mark(c, es)
  OBVIOUS
<1> DEFINE w == c.ents[es[1]].values[1]
<1>2. \/ d = c \/ d = Stop(c, "undefined") \/ d = Stop(c, "exited")
      \/ /\ es # <<>> /\ Len(c.ents[es[1]].values) = 1 /\ Accepts(c, kind, w)
         /\ ~(kind = "string" /\ c[dst][key] # Unset)
         /\ d = [m EXCEPT ![dst][key] = Meaning(c, kind, w)]
  BY <1>0 DEF Get, Reading
<1>1. Found(c, b, key, es)
  BY <1>0, MatchingIs
<1>3. CASE d = c
  BY <1>3, FromFacts
<1>4. CASE d = Stop(c, "undefined") \/ d = Stop(c, "exited")
  BY <1>4, StopIs DEF Statuses
<1>5. CASE /\ es # <<>> /\ Len(c.ents[es[1]].values) = 1 /\ Accepts(c, kind, w)
           /\ ~(kind = "string" /\ c[dst][key] # Unset)
           /\ d = [m EXCEPT ![dst][key] = Meaning(c, kind, w)]
  <2>1. es[1] \in DOMAIN c.ents
    BY <1>1, <1>5 DEF Found
  <2>2. c.ents[es[1]].values \in Seq(Tokens)
    BY <2>1, TreeFacts DEF Contexts
  <2>3. w \in Tokens
    BY <1>5, <2>2, ElementOfSeq
  <2>4. m \in From(c, M) \cap Keeping(c) /\ m.h = c.h /\ m.f = c.f /\ m.set = c.set /\ m.log = c.log
    <3>1. Range(es) \subseteq M
      BY <1>1 DEF Found
    <3>2. /\ m \in From(c, M) /\ m \in Keeping(c) /\ m.h = c.h /\ m.f = c.f
          /\ m.set = c.set /\ m.log = c.log
      BY <1>0, <3>1, MarkIs
    <3> QED
      BY <3>2
  <2> HIDE DEF w
  <2> QED
    BY <1>5, <2>3, <2>4 DEF Got
<1> QED
  BY <1>2, <1>3, <1>4, <1>5

(* Values of the right kind in their places.                               *)
LEMMA PutLog ==
  ASSUME NEW m \in Contexts, NEW x \in LogSettings
  PROVE  LET d == [m EXCEPT !.log = x]
         IN  /\ d \in Contexts /\ d.ents = m.ents /\ d.hosts = m.hosts /\ d.status = m.status
             /\ d.log = x
BY DEF Contexts

LEMMA PutSet ==
  ASSUME NEW m \in Contexts, NEW x \in Settings
  PROVE  LET d == [m EXCEPT !.set = x]
         IN  /\ d \in Contexts /\ d.ents = m.ents /\ d.hosts = m.hosts /\ d.status = m.status
             /\ d.set = x
BY DEF Contexts

LEMMA PutHost ==
  ASSUME NEW m \in Contexts, NEW x \in Hosts
  PROVE  LET d == [m EXCEPT !.h = x]
         IN  /\ d \in Contexts /\ d.ents = m.ents /\ d.hosts = m.hosts /\ d.status = m.status
             /\ d.h = x /\ d.set = m.set /\ d.f = m.f
BY DEF Contexts

LEMMA PutFile ==
  ASSUME NEW m \in Contexts, NEW x \in Files
  PROVE  LET d == [m EXCEPT !.f = x]
         IN  /\ d \in Contexts /\ d.ents = m.ents /\ d.hosts = m.hosts /\ d.status = m.status
             /\ d.f = x /\ d.set = m.set /\ d.h = m.h
BY DEF Contexts

LEMMA PutAsked ==
  ASSUME NEW m \in Contexts, NEW x \in Asked
  PROVE  LET d == [m EXCEPT !.asked = x]
         IN  /\ d \in Contexts /\ d.ents = m.ents /\ d.hosts = m.hosts /\ d.status = m.status
BY DEF Contexts

LEMMA PutFrom ==
  ASSUME NEW c \in Contexts, NEW M, NEW m \in From(c, M), NEW d \in Contexts,
         d.ents = m.ents, d.hosts = m.hosts, d.status = m.status
  PROVE  d \in From(c, M)
BY DEF From

(* The loops of the evaluation: what every round keeps to, the result does. *)
LEMMA GetsIs ==
  ASSUME NEW S, NEW c \in S, NEW b, NEW dst, NEW keys, Len(keys) \in Nat,
         \A i \in 1 .. Len(keys) : \A x \in S : Get(x, b, dst, keys[i][1], keys[i][2]) \in S
  PROVE  Gets(c, b, dst, keys) \in S
<1> DEFINE n == Len(keys)
           Round(x, i) == Get(x, b, dst, keys[i][1], keys[i][2])
           F == [i \in 0 .. n |-> [x \in S |-> IF i = 0 THEN x ELSE Round(x, i)]]
           loop == CHOOSE f : f = [i \in 0 .. n |-> IF i = 0 THEN c ELSE Round(f[i - 1], i)]
<1>1. n \in Nat /\ 0 \in Int /\ n \in Int /\ 0 <= n
  OBVIOUS
<1>2. \A i \in 1 .. n : \A x \in S : Round(x, i) \in S
  OBVIOUS
<1>3. Gets(c, b, dst, keys) = loop[n]
  BY DEF Gets, Round
<1> HIDE DEF Round
<1>4. F \in [0 .. n -> [S -> S]]
  <2>1. \A i \in 0 .. n : i # 0 => i \in 1 .. n
    BY <1>1
  <2> HIDE DEF n
  <2> QED
    BY <1>2, <2>1
<1>5. PICK g : Iterated(g, 0, n, S, c, F)
  <2> HIDE DEF F, n
  <2> QED
    BY <1>1, <1>4, Iterates, Zenon
<1>6. g \in [0 .. n -> S] /\ g[0] = c /\ \A k \in 1 .. n : g[k] = Round(g[k - 1], k)
  <2>1. /\ g \in [0 .. n -> S] /\ g[0] = c
        /\ \A k \in 0 + 1 .. n : g[k] = F[k][g[k - 1]]
    <3> HIDE DEF F, n
    <3> QED
      BY <1>5 DEF Iterated
  <2>2. \A k \in 1 .. n : k - 1 \in 0 .. n /\ k \in 0 .. n /\ k \in 0 + 1 .. n /\ k # 0
    BY <1>1
  <2> HIDE DEF n
  <2> QED
    BY <2>1, <2>2
<1>7. g = [i \in 0 .. n |-> IF i = 0 THEN c ELSE Round(g[i - 1], i)]
  <2>1. \A i \in 0 .. n : g[i] = IF i = 0 THEN c ELSE Round(g[i - 1], i)
    BY <1>1, <1>6
  <2> HIDE DEF n
  <2> QED
    BY <1>6, <2>1
<1>8. loop = [i \in 0 .. n |-> IF i = 0 THEN c ELSE Round(loop[i - 1], i)]
  BY <1>7
<1> HIDE DEF loop
<1> DEFINE P == {i \in 0 .. n : loop[i] \in S}
<1>9. 0 \in P
  BY <1>1, <1>8
<1>10. ASSUME NEW k \in 0 + 1 .. n, k - 1 \in P PROVE k \in P
  <2>1. k \in 0 .. n /\ k # 0 /\ k \in 1 .. n
    BY <1>1
  <2>2. loop[k] = Round(loop[k - 1], k)
    BY <1>8, <2>1
  <2> QED
    BY <1>2, <1>10, <2>1, <2>2
<1>11. \A k \in 0 .. n : k \in P
  <2> HIDE DEF P, n
  <2> QED
    BY <1>1, <1>9, <1>10, Upwards
<1> QED
  BY <1>1, <1>3, <1>11


(* The services the words stand for.                                       *)
LEMMA MaskIs ==
  ASSUME NEW start \in Masks, NEW words \in Seq(Tokens), Range(words) \subseteq ServiceWords
  PROVE  Mask(start, words) \in Masks
<1> DEFINE n == Len(words)
           Round(x, i) == str_get_service(x, words[i])
           F == [i \in 0 .. n |-> [x \in Masks |-> IF i = 0 THEN x ELSE Round(x, i)]]
           loop == CHOOSE f : f = [i \in 0 .. n |-> IF i = 0 THEN start ELSE Round(f[i - 1], i)]
<1>1. n \in Nat /\ 0 \in Int /\ n \in Int /\ 0 <= n
  OBVIOUS
<1>2. \A i \in 1 .. n : \A x \in Masks : Round(x, i) \in Masks
  <2>1. \A i \in 1 .. n : words[i] \in ServiceWords
    BY DEF Range
  <2> QED
    BY <2>1 DEF str_get_service, Masks, SERVICE_ALL, ServiceWords
<1>3. Mask(start, words) = loop[n]
  BY DEF Mask, Round
<1> HIDE DEF Round
<1>4. F \in [0 .. n -> [Masks -> Masks]]
  <2>1. \A i \in 0 .. n : i # 0 => i \in 1 .. n
    BY <1>1
  <2> HIDE DEF n
  <2> QED
    BY <1>2, <2>1
<1>5. PICK g : Iterated(g, 0, n, Masks, start, F)
  <2> HIDE DEF F, n
  <2> QED
    BY <1>1, <1>4, Iterates, Zenon
<1>6. g \in [0 .. n -> Masks] /\ g[0] = start /\ \A k \in 1 .. n : g[k] = Round(g[k - 1], k)
  <2>1. /\ g \in [0 .. n -> Masks] /\ g[0] = start
        /\ \A k \in 0 + 1 .. n : g[k] = F[k][g[k - 1]]
    <3> HIDE DEF F, n
    <3> QED
      BY <1>5 DEF Iterated
  <2>2. \A k \in 1 .. n : k - 1 \in 0 .. n /\ k \in 0 .. n /\ k \in 0 + 1 .. n /\ k # 0
    BY <1>1
  <2> HIDE DEF n
  <2> QED
    BY <2>1, <2>2
<1>7. g = [i \in 0 .. n |-> IF i = 0 THEN start ELSE Round(g[i - 1], i)]
  <2>1. \A i \in 0 .. n : g[i] = IF i = 0 THEN start ELSE Round(g[i - 1], i)
    BY <1>1, <1>6
  <2> HIDE DEF n
  <2> QED
    BY <1>6, <2>1
<1>8. loop = [i \in 0 .. n |-> IF i = 0 THEN start ELSE Round(loop[i - 1], i)]
  BY <1>7
<1> HIDE DEF loop
<1> DEFINE P == {i \in 0 .. n : loop[i] \in Masks}
<1>9. 0 \in P
  BY <1>1, <1>8
<1>10. ASSUME NEW k \in 0 + 1 .. n, k - 1 \in P PROVE k \in P
  <2>1. k \in 0 .. n /\ k # 0 /\ k \in 1 .. n
    BY <1>1
  <2>2. loop[k] = Round(loop[k - 1], k)
    BY <1>8, <2>1
  <2> QED
    BY <1>2, <1>10, <2>1, <2>2
<1>11. \A k \in 0 .. n : k \in P
  <2> HIDE DEF P, n
  <2> QED
    BY <1>1, <1>9, <1>10, Upwards
<1> QED
  BY <1>1, <1>3, <1>11

LEMMA MaskOfIs ==
  ASSUME NEW c \in Contexts, NEW start \in Masks, NEW es, Len(es) \in Nat, DOMAIN es = 1 .. Len(es),
         \A i \in DOMAIN es : /\ c.ents[es[i]].values \in Seq(Tokens)
                                 /\ Range(c.ents[es[i]].values) \subseteq ServiceWords
  PROVE  MaskOf(c, es, start) \in Masks
<1> DEFINE n == Len(es)
           Round(x, i) == Mask(x, c.ents[es[i]].values)
           F == [i \in 0 .. n |-> [x \in Masks |-> IF i = 0 THEN x ELSE Round(x, i)]]
           loop == CHOOSE f : f = [i \in 0 .. n |-> IF i = 0 THEN start ELSE Round(f[i - 1], i)]
<1>1. n \in Nat /\ 0 \in Int /\ n \in Int /\ 0 <= n
  OBVIOUS
<1>2. \A i \in 1 .. n : \A x \in Masks : Round(x, i) \in Masks
  BY MaskIs
<1>3. MaskOf(c, es, start) = loop[n]
  BY DEF MaskOf, Round
<1> HIDE DEF Round
<1>4. F \in [0 .. n -> [Masks -> Masks]]
  <2>1. \A i \in 0 .. n : i # 0 => i \in 1 .. n
    BY <1>1
  <2> HIDE DEF n
  <2> QED
    BY <1>2, <2>1
<1>5. PICK g : Iterated(g, 0, n, Masks, start, F)
  <2> HIDE DEF F, n
  <2> QED
    BY <1>1, <1>4, Iterates, Zenon
<1>6. g \in [0 .. n -> Masks] /\ g[0] = start /\ \A k \in 1 .. n : g[k] = Round(g[k - 1], k)
  <2>1. /\ g \in [0 .. n -> Masks] /\ g[0] = start
        /\ \A k \in 0 + 1 .. n : g[k] = F[k][g[k - 1]]
    <3> HIDE DEF F, n
    <3> QED
      BY <1>5 DEF Iterated
  <2>2. \A k \in 1 .. n : k - 1 \in 0 .. n /\ k \in 0 .. n /\ k \in 0 + 1 .. n /\ k # 0
    BY <1>1
  <2> HIDE DEF n
  <2> QED
    BY <2>1, <2>2
<1>7. g = [i \in 0 .. n |-> IF i = 0 THEN start ELSE Round(g[i - 1], i)]
  <2>1. \A i \in 0 .. n : g[i] = IF i = 0 THEN start ELSE Round(g[i - 1], i)
    BY <1>1, <1>6
  <2> HIDE DEF n
  <2> QED
    BY <1>6, <2>1
<1>8. loop = [i \in 0 .. n |-> IF i = 0 THEN start ELSE Round(loop[i - 1], i)]
  BY <1>7
<1> HIDE DEF loop
<1> DEFINE P == {i \in 0 .. n : loop[i] \in Masks}
<1>9. 0 \in P
  BY <1>1, <1>8
<1>10. ASSUME NEW k \in 0 + 1 .. n, k - 1 \in P PROVE k \in P
  <2>1. k \in 0 .. n /\ k # 0 /\ k \in 1 .. n
    BY <1>1
  <2>2. loop[k] = Round(loop[k - 1], k)
    BY <1>8, <2>1
  <2> QED
    BY <1>2, <1>10, <2>1, <2>2
<1>11. \A k \in 0 .. n : k \in P
  <2> HIDE DEF P, n
  <2> QED
    BY <1>1, <1>9, <1>10, Upwards
<1> QED
  BY <1>1, <1>3, <1>11


(* A value of the right kind in its place.                                 *)
LEMMA GotLog ==
  ASSUME NEW x \in Contexts, NEW d, NEW M, NEW key, NEW kind,
         <<key, kind>> \in {<<"file", "string">>, <<"level", "loglevel">>},
         Got(x, d, M, "log", key, kind)
  PROVE  d \in From(x, M)
<1>1. PICK m \in From(x, M) \cap Keeping(x), w \in Tokens :
        d = [m EXCEPT !["log"][key] = Meaning(x, kind, w)]
  BY DEF Got
<1>2. Meaning(x, kind, w) = w /\ w \in Words /\ key \in {"file", "level"}
  BY DEF Meaning, Words
<1>3. m \in Contexts /\ m.log \in LogSettings
  BY DEF From, Contexts
<1> DEFINE y == [m.log EXCEPT ![key] = w]
<1>4. y \in LogSettings
  <2>1. CASE key = "file"
    BY <1>2, <1>3, <2>1 DEF LogSettings
  <2>2. CASE key = "level"
    BY <1>2, <1>3, <2>2 DEF LogSettings
  <2> QED
    BY <1>2, <2>1, <2>2
<1>5. d = [m EXCEPT !.log = y]
  BY <1>1, <1>2
<1> HIDE DEF y
<1>6. d \in Contexts /\ d.ents = m.ents /\ d.hosts = m.hosts /\ d.status = m.status
  BY <1>3, <1>4, <1>5, PutLog
<1> QED
  BY <1>1, <1>6, PutFrom

BasicKeys == {<<"chroot", "string">>, <<"directory", "string">>, <<"resolve_ether", "bool">>,
              <<"resolve_ip", "bool">>, <<"session_max", "int">>, <<"session_timeout", "int">>}

LEMMA GotBasic ==
  ASSUME NEW x \in Contexts, NEW d, NEW M, NEW key, NEW kind, <<key, kind>> \in BasicKeys,
         Got(x, d, M, "set", key, kind)
  PROVE  d \in From(x, M)
<1>1. PICK m \in From(x, M) \cap Keeping(x), w \in Tokens :
        d = [m EXCEPT !["set"][key] = Meaning(x, kind, w)]
  BY DEF Got
<1>2. m \in Contexts /\ m.set \in Settings /\ w \in Words
  BY DEF From, Contexts, Words
<1> DEFINE v == Meaning(x, kind, w)
           y == [m.set EXCEPT ![key] = v]
<1>3. y \in Settings
  <2>1. CASE key = "resolve_ether" /\ kind = "bool"
    <3>1. v \in BOOLEAN
      BY <2>1 DEF Meaning
    <3> HIDE DEF v
    <3> QED
      BY <1>2, <2>1, <3>1 DEF Settings
  <2>2. CASE key = "resolve_ip" /\ kind = "bool"
    <3>1. v \in BOOLEAN
      BY <2>2 DEF Meaning
    <3> HIDE DEF v
    <3> QED
      BY <1>2, <2>2, <3>1 DEF Settings
  <2>3. CASE kind \in {"string", "int"} /\ key \in {"chroot", "directory", "session_max", "session_timeout"}
    <3>1. v = w
      BY <2>3 DEF Meaning
    <3> HIDE DEF v
    <3>2. CASE key = "chroot"
      BY <1>2, <3>1, <3>2 DEF Settings
    <3>3. CASE key = "directory"
      BY <1>2, <3>1, <3>3 DEF Settings
    <3>4. CASE key = "session_max"
      BY <1>2, <3>1, <3>4 DEF Settings
    <3>5. CASE key = "session_timeout"
      BY <1>2, <3>1, <3>5 DEF Settings
    <3> QED
      BY <2>3, <3>2, <3>3, <3>4, <3>5
  <2> QED
    BY <2>1, <2>2, <2>3 DEF BasicKeys
<1>4. d = [m EXCEPT !.set = y]
  BY <1>1
<1> HIDE DEF y
<1>5. d \in Contexts /\ d.ents = m.ents /\ d.hosts = m.hosts /\ d.status = m.status
  BY <1>2, <1>3, <1>4, PutSet
<1> QED
  BY <1>1, <1>5, PutFrom

LEMMA GotHost ==
  ASSUME NEW x \in Contexts, NEW d, NEW M, NEW key, NEW kind,
         <<key, kind>> \in {<<"name", "string">>, <<"ether", "ether">>, <<"ip", "ip">>},
         Got(x, d, M, "h", key, kind)
  PROVE  /\ d \in From(x, M) \cap Keeping(x)
         /\ key = "ether" => d.h.ether # Unset
<1>1. PICK m \in From(x, M) \cap Keeping(x), w \in Tokens :
        /\ m.h = x.h
        /\ Accepts(x, kind, w)
        /\ kind = "string" => x["h"][key] = Unset
        /\ d = [m EXCEPT !["h"][key] = Meaning(x, kind, w)]
  BY DEF Got
<1>2. m \in Contexts /\ m.h \in Hosts /\ w \in Words /\ m.set = x.set /\ m.h = x.h
  BY <1>1 DEF From, Keeping, Contexts, Words
<1> DEFINE v == Meaning(x, kind, w)
           y == [m.h EXCEPT ![key] = v]
<1>3. /\ y \in Hosts /\ (x.h.name # Unset => y.name = x.h.name)
      /\ (x.h.ether # Unset => y.ether # Unset) /\ (key = "ether" => y.ether # Unset)
  <2>1. CASE key = "name" /\ kind = "string"
    <3>1. v = w /\ x.h.name = Unset
      BY <1>1, <2>1 DEF Meaning
    <3> HIDE DEF v
    <3> QED
      BY <1>2, <2>1, <3>1 DEF Hosts
  <2>2. CASE key = "ether" /\ kind = "ether"
    <3>1. v \in Ethers
      BY <2>2, AddressIs DEF Meaning
    <3>2. v # Unset
      <4>1. v = util_name2ether(x, w)
        BY <2>2 DEF Meaning
      <4>2. w \in EtherWords \/ util_name2ether(x, w) # Unset
        BY <1>1, <2>2 DEF Accepts
      <4>3. w \in EtherWords => util_name2ether(x, w) = w
        BY DEF util_name2ether, Resolved
      <4> QED
        BY <4>1, <4>2, <4>3, AddressAssumption
    <3> HIDE DEF v
    <3> QED
      BY <1>1, <1>2, <2>2, <3>1, <3>2 DEF Hosts
  <2>3. CASE key = "ip" /\ kind = "ip"
    <3>1. v \in Ips
      BY <2>3, AddressIs DEF Meaning
    <3> HIDE DEF v
    <3> QED
      BY <1>1, <1>2, <2>3, <3>1 DEF Hosts
  <2> QED
    BY <2>1, <2>2, <2>3
<1>4. d = [m EXCEPT !.h = y]
  BY <1>1
<1> HIDE DEF y
<1>5. /\ d \in Contexts /\ d.ents = m.ents /\ d.hosts = m.hosts /\ d.status = m.status
      /\ d.h = y /\ d.set = m.set
  BY <1>2, <1>3, <1>4, PutHost
<1>6. d \in From(x, M)
  BY <1>1, <1>5, PutFrom
<1> QED
  BY <1>2, <1>3, <1>5, <1>6 DEF Keeping

LEMMA GotFile ==
  ASSUME NEW x \in Contexts, NEW d, NEW M, NEW key, key \in {"path", "name", "server"},
         Got(x, d, M, "f", key, "string")
  PROVE  d \in From(x, M) \cap Keeping(x)
<1>1. PICK m \in From(x, M) \cap Keeping(x), w \in Tokens :
        d = [m EXCEPT !["f"][key] = Meaning(x, "string", w)]
  BY DEF Got
<1>2. m \in Contexts /\ m.f \in Files /\ w \in Values /\ Meaning(x, "string", w) = w
  BY DEF From, Contexts, Values, Meaning
<1> DEFINE y == [m.f EXCEPT ![key] = w]
<1>3. y \in Files
  <2>1. CASE key = "path"
    BY <1>2, <2>1 DEF Files
  <2>2. CASE key = "name"
    BY <1>2, <2>2 DEF Files
  <2>3. CASE key = "server"
    BY <1>2, <2>3 DEF Files
  <2> QED
    BY <2>1, <2>2, <2>3
<1>4. d = [m EXCEPT !.f = y]
  BY <1>1, <1>2
<1> HIDE DEF y
<1>5. /\ d \in Contexts /\ d.ents = m.ents /\ d.hosts = m.hosts /\ d.status = m.status
      /\ d.set = m.set /\ d.h = m.h
  BY <1>2, <1>3, <1>4, PutFile
<1>6. d \in From(x, M)
  BY <1>1, <1>5, PutFrom
<1> QED
  BY <1>1, <1>5, <1>6 DEF Keeping

(* The entries of a block with one of some keys.                           *)
LEMMA ChildrenKeys ==
  ASSUME NEW c \in Contexts, NEW M, NEW x \in From(c, M), NEW b, NEW keys, NEW key, <<key>> \in keys,
         Children(c.ents, b, keys) \subseteq M
  PROVE  Children(x.ents, b, {<<key>>}) \subseteq M
<1>1. c.ents \in Trees /\ x.ents \in Trees /\ Marked(c.ents, x.ents, M)
  BY DEF From, Contexts
<1>2. Children(x.ents, b, keys) = Children(c.ents, b, keys)
  BY <1>1, MarkedFacts
<1>3. Children(x.ents, b, {<<key>>}) \subseteq Children(x.ents, b, keys)
  BY DEF Children
<1> QED
  BY <1>2, <1>3

LogKeys == {<<"file">>, <<"level">>}

LEMMA GetsLog ==
  ASSUME NEW c \in Contexts, NEW b, NEW M, Children(c.ents, b, LogKeys) \subseteq M
  PROVE  Gets(c, b, "log", <<<<"file", "string">>, <<"level", "loglevel">>>>) \in From(c, M)
<1> DEFINE keys == <<<<"file", "string">>, <<"level", "loglevel">>>>
           S == From(c, M)
<1>1. ASSUME NEW i \in 1 .. Len(keys), NEW x \in S
      PROVE  Get(x, b, "log", keys[i][1], keys[i][2]) \in S
  <2>1. x \in Contexts /\ From(x, M) \subseteq S
    BY FromFacts DEF From
  <2>2. ASSUME NEW key, NEW kind,
               <<key, kind>> \in {<<"file", "string">>, <<"level", "loglevel">>}
        PROVE  Get(x, b, "log", key, kind) \in S
    <3>1. Children(x.ents, b, {<<key>>}) \subseteq M
      <4>1. <<key>> \in LogKeys
        BY <2>2 DEF LogKeys
      <4> QED
        BY <4>1, ChildrenKeys
    <3>2. PICK d : d = Get(x, b, "log", key, kind)
      OBVIOUS
    <3>3. d \in From(x, M) \cap Keeping(x) \/ Got(x, d, M, "log", key, kind)
      BY <2>1, <3>1, <3>2, GetIs
    <3>4. d \in From(x, M)
      BY <2>1, <2>2, <3>3, GotLog
    <3> QED
      BY <2>1, <3>2, <3>4
  <2>3. \/ keys[i][1] = "file" /\ keys[i][2] = "string"
        \/ keys[i][1] = "level" /\ keys[i][2] = "loglevel"
    OBVIOUS
  <2> HIDE DEF keys
  <2> QED
    BY <2>2, <2>3
<1>2. c \in S /\ Len(keys) \in Nat
  BY FromFacts
<1> HIDE DEF keys, S
<1>3. Gets(c, b, "log", keys) \in S
  BY <1>1, <1>2, GetsIs
<1> QED
  BY <1>3 DEF keys, S

BasicNames == {<<"chroot">>, <<"directory">>, <<"resolve_ether">>, <<"resolve_ip">>,
               <<"session_max">>, <<"session_timeout">>}

LEMMA BasicIs ==
  ASSUME NEW c \in Contexts, NEW M, Children(c.ents, Root, BasicNames) \subseteq M
  PROVE  i_eval_basic(c) \in From(c, M)
<1> DEFINE keys == <<<<"chroot", "string">>, <<"directory", "string">>, <<"resolve_ether", "bool">>,
                     <<"resolve_ip", "bool">>, <<"session_max", "int">>,
                     <<"session_timeout", "int">>>>
           S == From(c, M)
<1>1. ASSUME NEW i \in 1 .. Len(keys), NEW x \in S
      PROVE  Get(x, Root, "set", keys[i][1], keys[i][2]) \in S
  <2>1. x \in Contexts /\ From(x, M) \subseteq S
    BY FromFacts DEF From
  <2>2. ASSUME NEW key, NEW kind, <<key, kind>> \in BasicKeys
        PROVE  Get(x, Root, "set", key, kind) \in S
    <3>1. Children(x.ents, Root, {<<key>>}) \subseteq M
      <4>1. <<key>> \in BasicNames
        BY <2>2 DEF BasicNames, BasicKeys
      <4> QED
        BY <4>1, ChildrenKeys
    <3>2. PICK d : d = Get(x, Root, "set", key, kind)
      OBVIOUS
    <3>3. d \in From(x, M) \cap Keeping(x) \/ Got(x, d, M, "set", key, kind)
      BY <2>1, <3>1, <3>2, GetIs
    <3>4. d \in From(x, M)
      BY <2>1, <2>2, <3>3, GotBasic
    <3> QED
      BY <2>1, <3>2, <3>4
  <2>3. <<keys[i][1], keys[i][2]>> \in BasicKeys
    BY DEF BasicKeys
  <2> HIDE DEF keys
  <2> QED
    BY <2>2, <2>3
<1>2. c \in S /\ Len(keys) \in Nat
  BY FromFacts
<1>3. i_eval_basic(c) = Gets(c, Root, "set", keys)
  BY DEF i_eval_basic
<1> HIDE DEF keys, S
<1>4. Gets(c, Root, "set", keys) \in S
  BY <1>1, <1>2, GetsIs
<1> QED
  BY <1>3, <1>4 DEF S

HostKeys == {<<"name">>, <<"ether">>, <<"ip">>}

(* An "ether" entry that was read gave the host an ethernet address.       *)
EtherGot(c, x, b) ==
    \A g \in Children(c.ents, b, {<<"ether">>}) :
        ~c.ents[g].processed /\ x.ents[g].processed => x.h.ether # Unset

LEMMA EtherRound ==
  ASSUME NEW c \in Contexts, NEW b, NEW M, NEW x \in From(c, M) \cap Keeping(c),
         EtherGot(c, x, b), Children(c.ents, b, HostKeys) \subseteq M,
         NEW key, NEW kind,
         <<key, kind>> \in {<<"name", "string">>, <<"ether", "ether">>, <<"ip", "ip">>},
         NEW d, d = Get(x, b, "h", key, kind)
  PROVE  d \in From(c, M) \cap Keeping(c) /\ EtherGot(c, d, b)
<1> DEFINE N == Children(x.ents, b, {<<key>>})
<1>1. /\ x \in Contexts /\ c.ents \in Trees /\ x.ents \in Trees
      /\ Marked(c.ents, x.ents, M) /\ From(x, M) \cap Keeping(x) \subseteq From(c, M) \cap Keeping(c)
  BY FromFacts DEF From, Contexts
<1>2. N \subseteq M
  <2>1. <<key>> \in HostKeys
    BY DEF HostKeys
  <2> QED
    BY <2>1, ChildrenKeys
<1>3. \/ d \in From(x, N) \cap Keeping(x) /\ d.ents = x.ents
      \/ Got(x, d, N, "h", key, kind)
  BY <1>1, GetIs
<1>4. /\ d \in From(x, N) \cap Keeping(x)
      /\ d.ents = x.ents \/ (key = "ether" => d.h.ether # Unset)
  <2> HIDE DEF N
  <2>1. CASE Got(x, d, N, "h", key, kind)
    BY <1>1, <2>1, GotHost
  <2> QED
    BY <1>3, <2>1
<1>5. d \in From(c, M) \cap Keeping(c)
  <2> HIDE DEF N
  <2>1. d \in From(x, M)
    BY <1>1, <1>2, <1>4, FromFacts
  <2> QED
    BY <1>1, <1>4, <2>1
<1>6. ASSUME NEW g \in Children(c.ents, b, {<<"ether">>}),
             ~c.ents[g].processed, d.ents[g].processed
      PROVE  d.h.ether # Unset
  <2>1. /\ g \in DOMAIN x.ents /\ x.ents[g].name = <<"ether">>
    BY <1>1, MarkedFacts DEF Children
  <2>2. CASE x.ents[g].processed
    <3>1. x.h.ether # Unset
      BY <1>6, <2>2 DEF EtherGot
    <3> QED
      BY <1>4, <3>1 DEF Keeping
  <2>3. CASE ~x.ents[g].processed
    <3>1. d.ents \in Trees /\ Marked(x.ents, d.ents, N)
      BY <1>4 DEF From, Contexts
    <3>2. g \in N
      <4> HIDE DEF N
      <4> QED
        BY <1>1, <1>6, <2>1, <2>3, <3>1, MarkedFacts
    <3>3. <<key>> = <<"ether">>
      BY <2>1, <3>2 DEF Children
    <3> QED
      BY <1>4, <1>6, <2>3, <3>3
  <2> QED
    BY <2>2, <2>3
<1> QED
  BY <1>5, <1>6 DEF EtherGot

LEMMA GetsHost ==
  ASSUME NEW c \in Contexts, NEW b, NEW M, Children(c.ents, b, HostKeys) \subseteq M, NEW d,
         d = Gets(c, b, "h", <<<<"name", "string">>, <<"ether", "ether">>, <<"ip", "ip">>>>)
  PROVE  d \in From(c, M) \cap Keeping(c) /\ EtherGot(c, d, b)
<1> DEFINE keys == <<<<"name", "string">>, <<"ether", "ether">>, <<"ip", "ip">>>>
           S == {x \in From(c, M) \cap Keeping(c) : EtherGot(c, x, b)}
<1>1. ASSUME NEW i \in 1 .. Len(keys), NEW x \in S
      PROVE  Get(x, b, "h", keys[i][1], keys[i][2]) \in S
  <2>1. ASSUME NEW key, NEW kind,
               <<key, kind>> \in {<<"name", "string">>, <<"ether", "ether">>, <<"ip", "ip">>}
        PROVE  Get(x, b, "h", key, kind) \in S
    <3>1. PICK y : y = Get(x, b, "h", key, kind)
      OBVIOUS
    <3>2. y \in From(c, M) \cap Keeping(c) /\ EtherGot(c, y, b)
      BY <2>1, <3>1, EtherRound
    <3> QED
      BY <3>1, <3>2
  <2>2. \/ keys[i][1] = "name" /\ keys[i][2] = "string"
        \/ keys[i][1] = "ether" /\ keys[i][2] = "ether"
        \/ keys[i][1] = "ip" /\ keys[i][2] = "ip"
    OBVIOUS
  <2> HIDE DEF keys, S
  <2> QED
    BY <2>1, <2>2
<1>2. c \in S /\ Len(keys) \in Nat
  BY FromFacts DEF EtherGot
<1> HIDE DEF keys, S
<1>3. Gets(c, b, "h", keys) \in S
  BY <1>1, <1>2, GetsIs
<1> QED
  BY <1>3 DEF keys, S

FileKeys == {<<"path">>, <<"name">>, <<"service">>, <<"alias">>, <<"server">>}

(* The keys of a file's block, whichever of them are looked for.           *)
LEMMA GetsFile ==
  ASSUME NEW c \in Contexts, NEW b, NEW M, Children(c.ents, b, FileKeys) \subseteq M,
         NEW keys, Len(keys) \in Nat,
         \A i \in 1 .. Len(keys) : keys[i][1] \in {"path", "name", "server"}
                                   /\ keys[i][2] = "string"
  PROVE  Gets(c, b, "f", keys) \in From(c, M) \cap Keeping(c)
<1> DEFINE S == From(c, M) \cap Keeping(c)
<1>1. ASSUME NEW i \in 1 .. Len(keys), NEW x \in S
      PROVE  Get(x, b, "f", keys[i][1], keys[i][2]) \in S
  <2>1. x \in Contexts /\ From(x, M) \cap Keeping(x) \subseteq S
    BY FromFacts DEF From
  <2>2. ASSUME NEW key, key \in {"path", "name", "server"}
        PROVE  Get(x, b, "f", key, "string") \in S
    <3>1. Children(x.ents, b, {<<key>>}) \subseteq M
      <4>1. <<key>> \in FileKeys
        BY <2>2 DEF FileKeys
      <4> QED
        BY <4>1, ChildrenKeys
    <3>2. PICK d : d = Get(x, b, "f", key, "string")
      OBVIOUS
    <3>3. d \in From(x, M) \cap Keeping(x) \/ Got(x, d, M, "f", key, "string")
      BY <2>1, <3>1, <3>2, GetIs
    <3>4. d \in From(x, M) \cap Keeping(x)
      BY <2>1, <2>2, <3>3, GotFile
    <3> QED
      BY <2>1, <3>2, <3>4
  <2> QED
    BY <2>2
<1>2. c \in S
  BY FromFacts
<1> HIDE DEF S
<1>3. Gets(c, b, "f", keys) \in S
  BY <1>1, <1>2, GetsIs
<1> QED
  BY <1>3 DEF S

LEMMA ServiceIs ==
  ASSUME NEW c \in Contexts, NEW b, NEW dst \in {"h", "f"}, NEW M,
         Children(c.ents, b, {<<"service">>}) \subseteq M
  PROVE  GetService(c, b, dst) \in From(c, M) \cap Keeping(c)
<1>0. PICK es, m, d : /\ es = Matching(c, b, "service") /\ m = Mark(c, es)
                      /\ d = GetService(c, b, dst)
  OBVIOUS
<1> DEFINE v == MaskOf(c, es, m[dst].service)
<1>1. \/ d = c \/ d = Stop(c, "undefined") \/ d = Stop(c, "exited")
      \/ /\ \A e \in Range(es) : Range(c.ents[e].values) \subseteq ServiceWords
         /\ d = [m EXCEPT ![dst].service = v]
  BY <1>0 DEF GetService, Reading
<1>2. CASE d = c
  BY <1>0, <1>2, FromFacts
<1>3. CASE d = Stop(c, "undefined") \/ d = Stop(c, "exited")
  BY <1>0, <1>3, StopIs DEF Statuses
<1>4. CASE /\ \A e \in Range(es) : Range(c.ents[e].values) \subseteq ServiceWords
           /\ d = [m EXCEPT ![dst].service = v]
  <2>1. Found(c, b, "service", es)
    BY <1>0, MatchingIs
  <2>2. Range(es) \subseteq M
    BY <2>1 DEF Found
  <2>3. m \in From(c, M) /\ m \in Keeping(c) /\ m \in Contexts
    BY <1>0, <2>2, MarkIs
  <2>4. m.h \in Hosts /\ m.f \in Files
    BY <2>3 DEF Contexts
  <2>5. m[dst].service \in Masks
    BY <2>4 DEF Hosts, Files
  <2>6. ASSUME NEW i \in DOMAIN es
        PROVE  /\ c.ents[es[i]].values \in Seq(Tokens)
               /\ Range(c.ents[es[i]].values) \subseteq ServiceWords
    <3>1. es[i] \in DOMAIN c.ents /\ es[i] \in Range(es)
      BY <2>1 DEF Found, Range
    <3> QED
      BY <1>4, <3>1, TreeFacts DEF Contexts
  <2>7. v \in Masks
    <3>1. Len(es) \in Nat /\ DOMAIN es = 1 .. Len(es)
      BY <2>1 DEF Found
    <3> QED
      BY <2>5, <2>6, <3>1, MaskOfIs
  <2> HIDE DEF v
  <2>8. CASE dst = "h"
    <3> DEFINE y == [m.h EXCEPT !.service = v]
    <3>1. y \in Hosts /\ y.name = m.h.name /\ y.ether = m.h.ether
      BY <2>4, <2>7 DEF Hosts
    <3>2. d = [m EXCEPT !.h = y]
      BY <1>4, <2>8
    <3> HIDE DEF y
    <3>3. /\ d \in Contexts /\ d.ents = m.ents /\ d.hosts = m.hosts /\ d.status = m.status
          /\ d.h = y /\ d.set = m.set
      BY <2>3, <3>1, <3>2, PutHost
    <3>4. d \in From(c, M)
      BY <2>3, <3>3, PutFrom
    <3> QED
      BY <1>0, <2>3, <3>1, <3>3, <3>4 DEF Keeping
  <2>9. CASE dst = "f"
    <3> DEFINE y == [m.f EXCEPT !.service = v]
    <3>1. y \in Files
      BY <2>4, <2>7 DEF Files
    <3>2. d = [m EXCEPT !.f = y]
      BY <1>4, <2>9
    <3> HIDE DEF y
    <3>3. /\ d \in Contexts /\ d.ents = m.ents /\ d.hosts = m.hosts /\ d.status = m.status
          /\ d.set = m.set /\ d.h = m.h
      BY <2>3, <3>1, <3>2, PutFile
    <3>4. d \in From(c, M)
      BY <2>3, <3>3, PutFrom
    <3> QED
      BY <1>0, <2>3, <3>3, <3>4 DEF Keeping
  <2> QED
    BY <2>8, <2>9
<1> QED
  BY <1>1, <1>2, <1>3, <1>4

LEMMA AliasesIs ==
  ASSUME NEW c \in Contexts, NEW b, NEW M, Children(c.ents, b, {<<"alias">>}) \subseteq M
  PROVE  GetAliases(c, b) \in From(c, M) \cap Keeping(c)
<1>0. PICK es, m, d : /\ es = Matching(c, b, "alias") /\ m = Mark(c, es)
                      /\ d = GetAliases(c, b)
  OBVIOUS
<1> DEFINE v == [i \in DOMAIN es |-> c.ents[es[i]].values[1]]
<1>1. \/ d = c \/ d = Stop(c, "undefined") \/ d = Stop(c, "exited")
      \/ /\ ~(Len(es) > AliasesMax) /\ \A e \in Range(es) : Len(c.ents[e].values) = 1
         /\ d = [m EXCEPT !.f.aliases = v]
  BY <1>0 DEF GetAliases, Reading
<1>2. CASE d = c
  BY <1>0, <1>2, FromFacts
<1>3. CASE d = Stop(c, "undefined") \/ d = Stop(c, "exited")
  BY <1>0, <1>3, StopIs DEF Statuses
<1>4. CASE /\ ~(Len(es) > AliasesMax) /\ \A e \in Range(es) : Len(c.ents[e].values) = 1
           /\ d = [m EXCEPT !.f.aliases = v]
  <2>1. Found(c, b, "alias", es)
    BY <1>0, MatchingIs
  <2>2. Range(es) \subseteq M
    BY <2>1 DEF Found
  <2>3. m \in From(c, M) /\ m \in Keeping(c) /\ m \in Contexts
    BY <1>0, <2>2, MarkIs
  <2>4. m.f \in Files
    BY <2>3 DEF Contexts
  <2>5. ASSUME NEW i \in DOMAIN es PROVE c.ents[es[i]].values[1] \in Tokens
    <3>1. es[i] \in DOMAIN c.ents /\ es[i] \in Range(es)
      BY <2>1 DEF Found, Range
    <3>2. c.ents[es[i]].values \in Seq(Tokens) /\ Len(c.ents[es[i]].values) = 1
      BY <1>4, <3>1, TreeFacts DEF Contexts
    <3> QED
      BY <3>2, ElementOfSeq
  <2>6. v \in Seq(Tokens) /\ Len(v) <= AliasesMax
    <3>1. Len(es) \in Nat /\ DOMAIN es = 1 .. Len(es)
      BY <2>1 DEF Found
    <3>2. v \in [1 .. Len(es) -> Tokens]
      BY <2>5, <3>1
    <3>3. v \in Seq(Tokens) /\ Len(v) = Len(es)
      BY <3>1, <3>2
    <3> HIDE DEF v
    <3> QED
      BY <1>4, <3>1, <3>3, AliasesMaxAssumption
  <2> HIDE DEF v
  <2> DEFINE y == [m.f EXCEPT !.aliases = v]
  <2>7. y \in Files
    BY <2>4, <2>6 DEF Files
  <2>8. d = [m EXCEPT !.f = y]
    BY <1>4
  <2> HIDE DEF y
  <2>9. /\ d \in Contexts /\ d.ents = m.ents /\ d.hosts = m.hosts /\ d.status = m.status
        /\ d.set = m.set /\ d.h = m.h
    BY <2>3, <2>7, <2>8, PutFile
  <2>10. d \in From(c, M)
    BY <2>3, <2>9, PutFrom
  <2> QED
    BY <1>0, <2>3, <2>9, <2>10 DEF Keeping
<1> QED
  BY <1>1, <1>2, <1>3, <1>4

LEMMA BasenameIs ==
  ASSUME NEW w \in Tokens
  PROVE  Basename(w) \in Tokens
<1> DEFINE S == Slashes(w)
           T == {n \in Nat : Len(w) - n \in S}
<1>1. Len(w) \in Nat /\ DOMAIN w = 1 .. Len(w) /\ S \subseteq 1 .. Len(w)
  BY LenProperties DEF Tokens, Slashes
<1>2. CASE S = {}
  BY <1>2 DEF Basename
<1>3. CASE S # {}
  <2>1. T \in SUBSET Nat /\ T # {}
    <3>1. PICK i \in S : TRUE
      BY <1>3
    <3>2. Len(w) - i \in Nat /\ Len(w) - (Len(w) - i) = i
      BY <1>1, <3>1
    <3> QED
      BY <3>1, <3>2
  <2>2. PICK k \in T : \A j \in T : k <= j
    <3> HIDE DEF T
    <3> QED
      BY <2>1, Smallest
  <2>3. Len(w) - k \in S /\ \A y \in S : Len(w) - k >= y
    <3>1. ASSUME NEW y \in S PROVE Len(w) - k >= y
      <4>1. y \in 1 .. Len(w) /\ Len(w) - (Len(w) - y) = y /\ Len(w) - y \in Nat
        BY <1>1
      <4>2. Len(w) - y \in T
        BY <4>1
      <4> QED
        BY <1>1, <2>2, <4>1, <4>2
    <3> QED
      BY <2>2, <3>1
  <2>4. Max(S) \in S
    <3> HIDE DEF S
    <3> QED
      BY <2>3 DEF Max
  <2>5. Max(S) \in 1 .. Len(w)
    BY <1>1, <2>4
  <2> DEFINE m == Max(S)
  <2>6. SubSeq(w, m + 1, Len(w)) \in Tokens
    <3>1. m \in 1 .. Len(w)
      BY <2>5
    <3> HIDE DEF m
    <3>2. \A i \in m + 1 .. Len(w) : w[i] \in Chars
      BY <1>1, <3>1, ElementOfSeq DEF Tokens
    <3> QED
      BY <1>1, <3>1, <3>2, SubSeqProperties DEF Tokens
  <2> QED
    BY <1>3, <2>6 DEF Basename
<1> QED
  BY <1>2, <1>3

(* The file is listed under a name no other file of the host has.          *)
LEMMA FileAdded ==
  ASSUME NEW c \in Contexts, NEW M
  PROVE  /\ host_file_add(c) \in From(c, M) \cap Keeping(c)
         /\ host_file_add(c).ents = c.ents
<1>0. PICK d : d = host_file_add(c)
  OBVIOUS
<1> DEFINE name == IF c.f.name # Unset THEN c.f.name
                   ELSE IF c.f.aliases # <<>> THEN c.f.aliases[1]
                   ELSE Basename(c.f.path)
           x == [c.f EXCEPT !.name = name]
           files == Append(c.h.files, x)
           y == [c.h EXCEPT !.files = files]
<1>1. \/ d = c \/ d = Stop(c, "killed")
      \/ /\ ~(c.f.name = Unset /\ c.f.aliases = <<>> /\ c.f.path = Unset)
         /\ ~ \E f \in Range(c.h.files) : f.name = name
         /\ d = [c EXCEPT !.h.files = Append(@, x)]
  BY <1>0 DEF host_file_add
<1>2. CASE d = c
  BY <1>0, <1>2, FromFacts
<1>3. CASE d = Stop(c, "killed")
  BY <1>0, <1>3, StopIs DEF Statuses
<1>4. CASE /\ ~(c.f.name = Unset /\ c.f.aliases = <<>> /\ c.f.path = Unset)
           /\ ~ \E f \in Range(c.h.files) : f.name = name
           /\ d = [c EXCEPT !.h.files = Append(@, x)]
  <2>1. c.f \in Files /\ c.h \in Hosts /\ c.h.files \in FileLists
    BY DEF Contexts, Hosts
  <2>2. /\ c.f.name \in Values /\ c.f.path \in Values /\ c.f.aliases \in Seq(Tokens)
    BY <2>1 DEF Files
  <2>3. name \in Values /\ name # Unset
    <3>1. CASE c.f.name # Unset
      BY <2>2, <3>1
    <3>2. CASE c.f.name = Unset /\ c.f.aliases # <<>>
      <4>1. c.f.aliases[1] \in Tokens
        BY <2>2, <3>2, EmptySeq, ElementOfSeq, LenProperties
      <4> QED
        BY <3>2, <4>1, UnsetNoToken DEF Values
    <3>3. CASE c.f.name = Unset /\ c.f.aliases = <<>>
      <4>1. c.f.path \in Tokens
        BY <1>4, <2>2, <3>3 DEF Values
      <4> QED
        BY <3>3, <4>1, BasenameIs, UnsetNoToken DEF Values
    <3> QED
      BY <3>1, <3>2, <3>3
  <2>4. \A f \in Range(c.h.files) : f.name # name
    BY <1>4
  <2> HIDE DEF name
  <2>5. x \in Files /\ x.name = name
    BY <2>1, <2>3 DEF Files
  <2> HIDE DEF x
  <2>6. /\ c.h.files \in Seq(Files) /\ Len(c.h.files) \in Nat
        /\ DOMAIN c.h.files = 1 .. Len(c.h.files)
        /\ \A i \in DOMAIN c.h.files : c.h.files[i].name # Unset /\ c.h.files[i].name # name
        /\ \A i, j \in DOMAIN c.h.files : c.h.files[i].name = c.h.files[j].name => i = j
    <3>1. c.h.files \in Seq(Files)
      BY <2>1 DEF FileLists
    <3>2. \A i \in DOMAIN c.h.files : c.h.files[i] \in Range(c.h.files)
      BY DEF Range
    <3>3. \A i \in DOMAIN c.h.files : c.h.files[i].name # Unset
      BY <2>1 DEF FileLists
    <3>4. \A i, j \in DOMAIN c.h.files : c.h.files[i].name = c.h.files[j].name => i = j
      BY <2>1 DEF FileLists
    <3> QED
      BY <2>4, <3>1, <3>2, <3>3, <3>4, LenProperties
  <2>7. /\ files \in Seq(Files) /\ Len(files) = Len(c.h.files) + 1
        /\ DOMAIN files = 1 .. Len(c.h.files) + 1
        /\ \A i \in DOMAIN c.h.files : files[i] = c.h.files[i]
        /\ files[Len(c.h.files) + 1] = x
    BY <2>5, <2>6, AppendProperties, LenProperties
  <2> HIDE DEF files
  <2>8. files \in FileLists
    <3>1. ASSUME NEW i \in DOMAIN files PROVE files[i].name # Unset
      BY <2>3, <2>5, <2>6, <2>7
    <3>2. ASSUME NEW i \in DOMAIN files, NEW j \in DOMAIN files, files[i].name = files[j].name
          PROVE  i = j
      <4>1. \A k \in DOMAIN c.h.files : files[k].name # name
        BY <2>6, <2>7
      <4>2. files[Len(c.h.files) + 1].name = name
        BY <2>5, <2>7
      <4>3. \A k \in DOMAIN files : k # Len(c.h.files) + 1 => k \in DOMAIN c.h.files
        BY <2>6, <2>7
      <4>4. CASE i \in DOMAIN c.h.files /\ j \in DOMAIN c.h.files
        BY <2>6, <2>7, <3>2, <4>4
      <4> QED
        BY <3>2, <4>1, <4>2, <4>3, <4>4
    <3> QED
      BY <2>7, <3>1, <3>2 DEF FileLists
  <2>9. y \in Hosts /\ y.name = c.h.name /\ y.ether = c.h.ether
    BY <2>1, <2>8 DEF Hosts
  <2>10. d = [c EXCEPT !.h = y]
    BY <1>4 DEF files
  <2> HIDE DEF y
  <2>11. /\ d \in Contexts /\ d.ents = c.ents /\ d.hosts = c.hosts /\ d.status = c.status
         /\ d.h = y /\ d.set = c.set
    BY <2>9, <2>10, PutHost
  <2>12. d \in From(c, M)
    BY <2>11, FromFacts, PutFrom
  <2> QED
    BY <1>0, <2>9, <2>11, <2>12 DEF Keeping
<1> QED
  BY <1>0, <1>1, <1>2, <1>3, <1>4, StopIs DEF Statuses

SingleIs == \A c \in Contexts : \A e \in DOMAIN c.ents :
                Single(c, e) \in Values
                /\ (Len(c.ents[e].values) = 1 => Single(c, e) = c.ents[e].values[1]
                                                 /\ Single(c, e) # Unset)

LEMMA SingleValue == SingleIs
<1> SUFFICES ASSUME NEW c \in Contexts, NEW e \in DOMAIN c.ents
             PROVE  Single(c, e) \in Values
                    /\ (Len(c.ents[e].values) = 1 => Single(c, e) = c.ents[e].values[1]
                                                     /\ Single(c, e) # Unset)
  BY DEF SingleIs
<1>1. c.ents[e].values \in Seq(Tokens)
  BY TreeFacts DEF Contexts
<1>2. Len(c.ents[e].values) = 1 => c.ents[e].values[1] \in Tokens
  BY <1>1, ElementOfSeq
<1> QED
  BY <1>2, UnsetNoToken DEF Single, Values

(* One "file" statement: if the evaluation goes on, its block is read.     *)
EntryRead(c, e) ==
    /\ c.ents[e].processed
    /\ \A g \in DOMAIN c.ents : c.ents[g].parent = e => c.ents[g].processed

LEMMA FileIs ==
  ASSUME NEW c \in Contexts, NEW e \in DOMAIN c.ents, NEW M,
         e \in M, Children(c.ents, e, FileKeys) \subseteq M, NEW d, d = EvalFile(c, e)
  PROVE  /\ d \in From(c, M) \cap Keeping(c)
         /\ d.status = "running" => EntryRead(d, e)
<1>0. PICK m, new, named, served, aliased, last, end :
        /\ m = Mark(c, <<e>>)
        /\ new = [m EXCEPT !.f = [NewFile EXCEPT !.path = Single(c, e)]]
        /\ named = Gets(new, e, "f", <<<<"path", "string">>, <<"name", "string">>>>)
        /\ served = GetService(named, e, "f")
        /\ aliased = GetAliases(served, e)
        /\ last = Gets(aliased, e, "f", <<<<"server", "string">>>>)
        /\ end = NoneLeft(last, e)
  OBVIOUS
<1>1. d = IF c.status # "running" THEN c ELSE host_file_add(end)
  BY <1>0 DEF EvalFile
<1>2. CASE c.status # "running"
  BY <1>1, <1>2, FromFacts
<1>3. CASE c.status = "running"
  <2> DEFINE S == From(new, M) \cap Keeping(new)
  <2>1. /\ m \in From(c, M) /\ m \in Keeping(c) /\ m \in Contexts /\ m.ents[e].processed
    <3>1. Range(<<e>>) \subseteq M /\ e \in Range(<<e>>)
      BY DEF Range
    <3> QED
      BY <1>0, <3>1, MarkIs
  <2>2. new \in From(c, M) \cap Keeping(c) /\ new.ents = m.ents /\ new \in Contexts
    <3>1. [NewFile EXCEPT !.path = Single(c, e)] \in Files
      <4>1. Single(c, e) \in Values
        BY SingleValue DEF SingleIs
      <4>2. NewFile \in Files
        BY AliasesMaxAssumption DEF NewFile, Files, Values, Masks
      <4> QED
        BY <4>1, <4>2 DEF Files
    <3>2. /\ new \in Contexts /\ new.ents = m.ents /\ new.hosts = m.hosts
          /\ new.status = m.status /\ new.set = m.set /\ new.h = m.h
      BY <1>0, <2>1, <3>1, PutFile
    <3> QED
      BY <2>1, <3>2, PutFrom DEF Keeping
  <2>3. ASSUME NEW x \in S, NEW y, y \in From(x, M) \cap Keeping(x) PROVE y \in S
    BY <2>2, <2>3, FromFacts DEF From
  <2>4. ASSUME NEW x \in S, NEW keys, keys \subseteq FileKeys
        PROVE  x \in Contexts /\ Children(x.ents, e, keys) \subseteq M
    <3>1. /\ c.ents \in Trees /\ x.ents \in Trees /\ new.ents \in Trees
          /\ Marked(new.ents, x.ents, M) /\ Marked(c.ents, new.ents, M)
      BY <2>2 DEF From, Contexts
    <3>2. Children(x.ents, e, FileKeys) = Children(c.ents, e, FileKeys)
      BY <3>1, MarkedFacts
    <3>3. Children(x.ents, e, keys) \subseteq Children(x.ents, e, FileKeys)
      BY <2>4 DEF Children
    <3> QED
      BY <3>2, <3>3 DEF From
  <2>18. S \subseteq From(c, M) \cap Keeping(c) /\ new \in S
    BY <2>2, FromFacts
  <2> HIDE DEF S
  <2>5. named \in S
    <3> DEFINE keys == <<<<"path", "string">>, <<"name", "string">>>>
    <3>1. Len(keys) \in Nat /\ \A i \in 1 .. Len(keys) :
             keys[i][1] \in {"path", "name", "server"} /\ keys[i][2] = "string"
      OBVIOUS
    <3>2. named = Gets(new, e, "f", keys)
      BY <1>0
    <3> HIDE DEF keys
    <3>3. new \in Contexts /\ Children(new.ents, e, FileKeys) \subseteq M
      BY <2>4, <2>18
    <3>4. named \in From(new, M) \cap Keeping(new)
      BY <3>1, <3>2, <3>3, GetsFile
    <3> QED
      BY <2>3, <2>18, <3>4
  <2>6. served \in S
    <3>1. named \in Contexts /\ Children(named.ents, e, {<<"service">>}) \subseteq M
      BY <2>4, <2>5 DEF FileKeys
    <3>2. served \in From(named, M) \cap Keeping(named)
      BY <1>0, <3>1, ServiceIs
    <3> QED
      BY <2>3, <2>5, <3>2
  <2>7. aliased \in S
    <3>1. served \in Contexts /\ Children(served.ents, e, {<<"alias">>}) \subseteq M
      BY <2>4, <2>6 DEF FileKeys
    <3>2. aliased \in From(served, M) \cap Keeping(served)
      BY <1>0, <3>1, AliasesIs
    <3> QED
      BY <2>3, <2>6, <3>2
  <2>8. last \in S
    <3> DEFINE keys == <<<<"server", "string">>>>
    <3>1. Len(keys) \in Nat /\ \A i \in 1 .. Len(keys) :
             keys[i][1] \in {"path", "name", "server"} /\ keys[i][2] = "string"
      OBVIOUS
    <3>2. last = Gets(aliased, e, "f", keys)
      BY <1>0
    <3> HIDE DEF keys
    <3>3. aliased \in Contexts /\ Children(aliased.ents, e, FileKeys) \subseteq M
      BY <2>4, <2>7
    <3>4. last \in From(aliased, M) \cap Keeping(aliased)
      BY <3>1, <3>2, <3>3, GetsFile
    <3> QED
      BY <2>3, <2>7, <3>4
  <2>9. last \in Contexts
    BY <2>4, <2>8
  <2>10. /\ end \in From(last, M) /\ end \in Keeping(last)
         /\ end.status = "running" => \A g \in DOMAIN end.ents :
                                         end.ents[g].parent = e => end.ents[g].processed
    BY <1>0, <2>9, NoneLeftIs
  <2>11. end \in S
    BY <2>3, <2>8, <2>10
  <2>12. end \in Contexts
    BY <2>4, <2>11
  <2>13. d = host_file_add(end)
    BY <1>1, <1>3
  <2>14. d \in From(end, M) \cap Keeping(end) /\ d.ents = end.ents
    BY <2>12, <2>13, FileAdded
  <2>15. d \in S
    BY <2>3, <2>11, <2>14
  <2>16. d.ents[e].processed
    <3>1. m.ents \in Trees /\ end.ents \in Trees /\ e \in DOMAIN m.ents
      BY <2>1, <2>12 DEF Contexts, From, Marked
    <3>2. Marked(m.ents, end.ents, M)
      BY <2>2, <2>11 DEF S, From
    <3> QED
      BY <2>1, <2>14, <3>1, <3>2, MarkedFacts
  <2>17. d.status = "running" => end.status = "running"
    BY <2>14 DEF From
  <2> QED
    BY <2>10, <2>14, <2>15, <2>16, <2>17, <2>18 DEF EntryRead
<1> QED
  BY <1>2, <1>3

(* All of a host's files.                                                *)
LEMMA FilesLoop ==
  ASSUME NEW S, NEW c \in S, NEW es, Len(es) \in Nat,
         \A i \in 1 .. Len(es) : \A x \in S : EvalFile(x, es[i]) \in S
  PROVE  EvalFiles(c, es) \in S
<1> DEFINE n == Len(es)
           Round(x, i) == EvalFile(x, es[i])
           F == [i \in 0 .. n |-> [x \in S |-> IF i = 0 THEN x ELSE Round(x, i)]]
           loop == CHOOSE f : f = [i \in 0 .. n |-> IF i = 0 THEN c ELSE Round(f[i - 1], i)]
<1>1. n \in Nat /\ 0 \in Int /\ n \in Int /\ 0 <= n
  OBVIOUS
<1>2. \A i \in 1 .. n : \A x \in S : Round(x, i) \in S
  OBVIOUS
<1>3. EvalFiles(c, es) = loop[n]
  BY DEF EvalFiles, Round
<1> HIDE DEF Round
<1>4. F \in [0 .. n -> [S -> S]]
  <2>1. \A i \in 0 .. n : i # 0 => i \in 1 .. n
    BY <1>1
  <2> HIDE DEF n
  <2> QED
    BY <1>2, <2>1
<1>5. PICK g : Iterated(g, 0, n, S, c, F)
  <2> HIDE DEF F, n
  <2> QED
    BY <1>1, <1>4, Iterates, Zenon
<1>6. g \in [0 .. n -> S] /\ g[0] = c /\ \A k \in 1 .. n : g[k] = Round(g[k - 1], k)
  <2>1. /\ g \in [0 .. n -> S] /\ g[0] = c
        /\ \A k \in 0 + 1 .. n : g[k] = F[k][g[k - 1]]
    <3> HIDE DEF F, n
    <3> QED
      BY <1>5 DEF Iterated
  <2>2. \A k \in 1 .. n : k - 1 \in 0 .. n /\ k \in 0 .. n /\ k \in 0 + 1 .. n /\ k # 0
    BY <1>1
  <2> HIDE DEF n
  <2> QED
    BY <2>1, <2>2
<1>7. g = [i \in 0 .. n |-> IF i = 0 THEN c ELSE Round(g[i - 1], i)]
  <2>1. \A i \in 0 .. n : g[i] = IF i = 0 THEN c ELSE Round(g[i - 1], i)
    BY <1>1, <1>6
  <2> HIDE DEF n
  <2> QED
    BY <1>6, <2>1
<1>8. loop = [i \in 0 .. n |-> IF i = 0 THEN c ELSE Round(loop[i - 1], i)]
  BY <1>7
<1> HIDE DEF loop
<1> DEFINE P == {i \in 0 .. n : loop[i] \in S}
<1>9. 0 \in P
  BY <1>1, <1>8
<1>10. ASSUME NEW k \in 0 + 1 .. n, k - 1 \in P PROVE k \in P
  <2>1. k \in 0 .. n /\ k # 0 /\ k \in 1 .. n
    BY <1>1
  <2>2. loop[k] = Round(loop[k - 1], k)
    BY <1>8, <2>1
  <2> QED
    BY <1>2, <1>10, <2>1, <2>2
<1>11. \A k \in 0 .. n : k \in P
  <2> HIDE DEF P, n
  <2> QED
    BY <1>1, <1>9, <1>10, Upwards
<1> QED
  BY <1>1, <1>3, <1>11

LEMMA ReadKept ==
  ASSUME NEW x \in Contexts, NEW M, NEW y \in From(x, M), NEW g \in DOMAIN x.ents, EntryRead(x, g)
  PROVE  EntryRead(y, g)
<1>1. x.ents \in Trees /\ y.ents \in Trees /\ Marked(x.ents, y.ents, M)
  BY DEF From, Contexts
<1>2. /\ DOMAIN y.ents = DOMAIN x.ents
      /\ \A e \in DOMAIN x.ents : /\ y.ents[e].parent = x.ents[e].parent
                                  /\ x.ents[e].processed => y.ents[e].processed
  BY <1>1, MarkedFacts
<1> QED
  BY <1>2 DEF EntryRead

(* The files of the host of b that x has read and c has not.               *)
NewFilesRead(c, x, b) ==
    \A g \in Children(c.ents, b, {<<"file">>}) :
        ~c.ents[g].processed /\ x.ents[g].processed => EntryRead(x, g)

FileMarks(c, b) ==
    {g \in DOMAIN c.ents : \/ g \in Children(c.ents, b, {<<"file">>})
                           \/ \E f \in Children(c.ents, b, {<<"file">>}) :
                                 g \in Children(c.ents, f, FileKeys)}

LEMMA HostFilesAre ==
  ASSUME NEW c \in Contexts, NEW b \in DOMAIN c.ents, NEW M, FileMarks(c, b) \subseteq M,
         NEW d, d = i_eval_host_files(c, b)
  PROVE  /\ d \in From(c, M) \cap Keeping(c)
         /\ d.status = "running" => NewFilesRead(c, d, b)
<1>0. PICK es : es = Matching(c, b, "file")
  OBVIOUS
<1>1. Found(c, b, "file", es)
  BY <1>0, MatchingIs
<1> DEFINE S == {x \in From(c, M) \cap Keeping(c) : x.status = "running" => NewFilesRead(c, x, b)}
<1>2. ASSUME NEW i \in 1 .. Len(es), NEW x \in S PROVE EvalFile(x, es[i]) \in S
  <2>0. PICK f, y : f = es[i] /\ y = EvalFile(x, f)
    OBVIOUS
  <2>1. f \in Children(c.ents, b, {<<"file">>})
    BY <1>1, <2>0 DEF Found, Children
  <2> DEFINE N == {f} \cup Children(c.ents, f, FileKeys)
  <2>2. /\ x \in Contexts /\ c.ents \in Trees /\ x.ents \in Trees /\ Marked(c.ents, x.ents, M)
    BY DEF From, Contexts
  <2>3. /\ DOMAIN x.ents = DOMAIN c.ents /\ f \in DOMAIN x.ents
        /\ Children(x.ents, f, FileKeys) = Children(c.ents, f, FileKeys)
    BY <2>1, <2>2, MarkedFacts DEF Children
  <2>4. N \subseteq M
    BY <2>1 DEF FileMarks, Children
  <2>5. f \in N /\ Children(x.ents, f, FileKeys) \subseteq N
    BY <2>3
  <2> HIDE DEF N
  <2>6. y \in From(x, N) \cap Keeping(x) /\ (y.status = "running" => EntryRead(y, f))
    BY <2>0, <2>2, <2>3, <2>5, FileIs
  <2>7. y \in From(c, M) \cap Keeping(c)
    <3>1. y \in From(x, M)
      BY <2>2, <2>4, <2>6, FromFacts
    <3> QED
      BY <2>6, <3>1, FromFacts
  <2>8. ASSUME y.status = "running", NEW g \in Children(c.ents, b, {<<"file">>}),
               ~c.ents[g].processed, y.ents[g].processed
        PROVE  EntryRead(y, g)
    <3>1. x.status = "running"
      BY <2>6, <2>8 DEF From
    <3>2. g \in DOMAIN x.ents
      BY <2>3 DEF Children
    <3>3. CASE x.ents[g].processed
      <4>1. EntryRead(x, g)
        BY <2>8, <3>1, <3>3 DEF NewFilesRead
      <4> QED
        BY <2>2, <2>6, <3>2, <4>1, ReadKept
    <3>4. CASE ~x.ents[g].processed
      <4>1. y.ents \in Trees /\ Marked(x.ents, y.ents, N)
        BY <2>6 DEF From, Contexts
      <4>2. g \in N
        BY <2>2, <2>8, <3>2, <3>4, <4>1, MarkedFacts
      <4>3. g = f
        <5>1. c.ents[g].parent = b /\ c.ents[f].parent = b /\ f \in DOMAIN c.ents
          BY <2>1 DEF Children
        <5>2. f # b
          BY <2>2, <5>1, TreeFacts
        <5> QED
          BY <4>2, <5>1, <5>2 DEF N, Children
      <4> QED
        BY <2>6, <2>8, <4>3
    <3> QED
      BY <3>3, <3>4
  <2> QED
    BY <2>0, <2>7, <2>8 DEF NewFilesRead
<1>3. c \in S
  BY FromFacts DEF NewFilesRead
<1>4. Len(es) \in Nat
  BY <1>1 DEF Found
<1>5. EvalFiles(c, es) \in S
  <2> HIDE DEF S
  <2> QED
    BY <1>2, <1>3, <1>4, FilesLoop
<1>6. \/ d = c \/ d = Stop(c, "undefined") \/ d = EvalFiles(c, es)
  BY <1>0 DEF i_eval_host_files, Reading
<1>7. CASE d = Stop(c, "undefined")
  BY <1>7, StopIs DEF Statuses
<1> QED
  BY <1>3, <1>5, <1>6, <1>7

----------------------------------------------------------------------------
(* The host goes to the table.                                             *)
LEMMA NameOfIs ==
  ASSUME NEW c \in Contexts, NEW key, NEW resolver, NEW resolve, NEW addr,
         DOMAIN resolver \subseteq Words, Unset \notin DOMAIN resolver,
         addr \in Words, addr # Unset
  PROVE  NameOf(c, key, resolver, resolve, addr) \in Words \ {Unset}
<1> DEFINE known == {n \in DOMAIN resolver : resolver[n] = addr}
<1>1. CASE Listed(c, key, addr) # {}
  <2>1. FirstListed(c, key, addr).name \in Words \ {Unset}
    BY <1>1, FirstListedIs DEF ListedHosts, Hosts
  <2> QED
    BY <1>1, <2>1 DEF NameOf
<1>2. CASE Listed(c, key, addr) = {} /\ resolve /\ known # {}
  <2>1. NameOf(c, key, resolver, resolve, addr) = CHOOSE n \in known : TRUE
    BY <1>2 DEF NameOf
  <2>2. (CHOOSE n \in known : TRUE) \in known
    BY <1>2
  <2> QED
    BY <2>1, <2>2
<1>3. CASE Listed(c, key, addr) = {} /\ ~(resolve /\ known # {})
  <2>1. NameOf(c, key, resolver, resolve, addr) = addr
    BY <1>3, Zenon DEF NameOf
  <2> QED
    BY <2>1
<1> QED
  BY <1>1, <1>2, <1>3

(* The files of a host, those without services with the host's.            *)
Served(list, service) ==
    [i \in DOMAIN list |-> IF list[i].service = {}
                           THEN [list[i] EXCEPT !.service = service] ELSE list[i]]

LEMMA FilesServed ==
  ASSUME NEW list \in FileLists, NEW service \in Masks \ {{}}, NEW files,
         files = Served(list, service)
  PROVE  /\ files \in FileLists /\ DOMAIN files = DOMAIN list
         /\ \A i \in DOMAIN files : files[i].service # {} /\ files[i].path = list[i].path
<1>1. /\ list \in Seq(Files) /\ Len(list) \in Nat /\ DOMAIN list = 1 .. Len(list)
      /\ \A i \in DOMAIN list : list[i] \in Files
  BY LenProperties, ElementOfSeq DEF FileLists
<1>2. \A i \in DOMAIN list : list[i].name # Unset
  BY DEF FileLists
<1>3. \A i, j \in DOMAIN list : list[i].name = list[j].name => i = j
  BY DEF FileLists
<1>4. ASSUME NEW i \in DOMAIN list
      PROVE  /\ files[i] \in Files /\ files[i].name = list[i].name
             /\ files[i].path = list[i].path /\ files[i].service # {}
  <2>1. list[i] \in Files
    BY <1>1
  <2>2. CASE list[i].service = {}
    <3>1. files[i] = [list[i] EXCEPT !.service = service]
      BY <2>2 DEF Served
    <3> QED
      BY <2>1, <3>1 DEF Files
  <2>3. CASE list[i].service # {}
    BY <2>1, <2>3 DEF Served
  <2> QED
    BY <2>2, <2>3
<1>5. files \in Seq(Files) /\ DOMAIN files = DOMAIN list
  <2>1. files \in [1 .. Len(list) -> Files]
    BY <1>1, <1>4 DEF Served
  <2> QED
    BY <1>1, <2>1
<1>6. \A i \in DOMAIN files : files[i].name = list[i].name /\ files[i].name # Unset
  BY <1>2, <1>4, <1>5
<1>7. \A i, j \in DOMAIN files : files[i].name = files[j].name => i = j
  <2> SUFFICES ASSUME NEW i \in DOMAIN files, NEW j \in DOMAIN files,
                      files[i].name = files[j].name
               PROVE  i = j
    OBVIOUS
  <2>1. list[i].name = list[j].name /\ i \in DOMAIN list /\ j \in DOMAIN list
    BY <1>5, <1>6
  <2> QED
    BY <1>3, <2>1
<1>8. files \in FileLists
  BY <1>5, <1>6, <1>7, Zenon DEF FileLists
<1> QED
  BY <1>4, <1>5, <1>8

(* What host_add ignores: a named host whose ethernet address nobody says. *)
NoAddress(c) == ~c.set.resolve_ether /\ c.h.ether = Unset /\ c.h.name \notin EtherWords

Added(c, d, e) ==
    \E h \in ListedHosts : /\ h.entry = e
                           /\ c.h.name # Unset => h.name = c.h.name
                           /\ d.hosts = AddToList(c.hosts, h)

LEMMA HostAdded ==
  ASSUME NEW c \in Contexts, NEW e \in Nat, NEW d, d = host_add(c, e)
  PROVE  /\ d \in Contexts /\ d.ents = c.ents /\ d.set = c.set
         /\ c.status # "running" => d.status # "running"
         /\ \/ d.hosts = c.hosts /\ (c.status = "running" /\ d.status = "running" /\ c.h.name # Unset
                                       => NoAddress(c))
            \/ Added(c, d, e)
<1> DEFINE h == c.h
           name == IF h.name # Unset THEN h.name
                   ELSE IF h.ip # Unset THEN NameOf(c, "ip", IpOf, c.set.resolve_ip, h.ip)
                   ELSE NameOf(c, "ether", EtherOf, c.set.resolve_ether, h.ether)
           ip == IF h.ip # Unset THEN h.ip ELSE util_name2ip(c, name)
           ether == IF h.ether # Unset THEN h.ether ELSE util_name2ether(c, name)
           service == IF h.service = {} THEN SERVICE_ALL ELSE h.service
           files == [i \in DOMAIN h.files |-> IF h.files[i].service = {}
                                               THEN [h.files[i] EXCEPT !.service = service]
                                               ELSE h.files[i]]
           r == [name |-> name, ip |-> ip, ether |-> ether, service |-> service,
                 files |-> files, entry |-> e]
<1>1. \/ d = c /\ c.status # "running"
      \/ d = c /\ h.name = Unset
      \/ d = Stop(c, "exited") \/ d = Stop(c, "killed")
      \/ d = c /\ ether = Unset /\ ~c.set.resolve_ether
      \/ /\ ~(Unset = h.name /\ Unset = h.ip /\ Unset = h.ether)
         /\ ip # Unset /\ ether # Unset
         /\ ~ \E f \in Range(files) : f.path = Unset
         /\ d = [c EXCEPT !.hosts = AddToList(@, r)]
  BY DEF host_add
<1>2. h \in Hosts /\ c.hosts \in Seq(ListedHosts)
  BY DEF Contexts
<1>3. CASE d = c /\ (c.status # "running" \/ h.name = Unset)
  BY <1>3
<1>4. CASE d = c /\ ether = Unset /\ ~c.set.resolve_ether
  <2>1. ASSUME h.name # Unset PROVE NoAddress(c)
    <3>1. name = h.name
      BY <2>1
    <3>2. h.ether = Unset /\ util_name2ether(c, h.name) = Unset
      BY <1>4, <3>1
    <3>3. h.name \in EtherWords => util_name2ether(c, h.name) = h.name
      BY DEF util_name2ether, Resolved
    <3> QED
      BY <1>4, <2>1, <3>2, <3>3 DEF NoAddress
  <2> QED
    BY <1>4, <2>1
<1>5. CASE d = Stop(c, "exited") \/ d = Stop(c, "killed")
  <2>1. PICK s : s \in {"exited", "killed"} /\ d = Stop(c, s)
    BY <1>5
  <2>2. s \in Statuses /\ s # "running"
    BY <2>1 DEF Statuses
  <2>3. /\ d \in Contexts /\ d.status = s
        /\ d.ents = c.ents /\ d.hosts = c.hosts /\ d.set = c.set
    BY <2>1, <2>2, StopIs
  <2> QED
    BY <2>2, <2>3
<1>6. CASE /\ ~(Unset = h.name /\ Unset = h.ip /\ Unset = h.ether)
           /\ ip # Unset /\ ether # Unset
           /\ ~ \E f \in Range(files) : f.path = Unset
           /\ d = [c EXCEPT !.hosts = AddToList(@, r)]
  <2>1. /\ h.name \in Words /\ h.ip \in Ips /\ h.ether \in Ethers /\ h.service \in Masks
        /\ h.files \in FileLists
    BY <1>2 DEF Hosts
  <2>2. Ips \subseteq Words /\ Ethers \subseteq Words
    BY DEF Ips, Ethers, Words
  <2>3. name \in Words \ {Unset}
    <3>1. CASE h.name # Unset
      BY <2>1, <3>1
    <3>2. CASE h.name = Unset /\ h.ip # Unset
      <4>1. DOMAIN IpOf \subseteq Words /\ Unset \notin DOMAIN IpOf
        BY AddressAssumption DEF Words
      <4>2. h.ip \in Words
        BY <2>1, <2>2
      <4>3. NameOf(c, "ip", IpOf, c.set.resolve_ip, h.ip) \in Words \ {Unset}
        BY <3>2, <4>1, <4>2, NameOfIs
      <4> QED
        BY <3>2, <4>3
    <3>3. CASE h.name = Unset /\ h.ip = Unset
      <4>1. DOMAIN EtherOf \subseteq Words /\ Unset \notin DOMAIN EtherOf
        BY AddressAssumption DEF Words
      <4>2. h.ether \in Words /\ h.ether # Unset
        BY <1>6, <2>1, <2>2, <3>3
      <4>3. NameOf(c, "ether", EtherOf, c.set.resolve_ether, h.ether) \in Words \ {Unset}
        BY <4>1, <4>2, NameOfIs
      <4> QED
        BY <3>3, <4>3
    <3> QED
      BY <3>1, <3>2, <3>3
  <2> HIDE DEF name
  <2>4. ip \in Ips /\ ether \in Ethers
    BY <2>1, AddressIs
  <2>5. service \in Masks \ {{}}
    BY <2>1 DEF Masks, SERVICE_ALL
  <2> HIDE DEF service
  <2>6. /\ files \in FileLists /\ DOMAIN files = DOMAIN h.files
        /\ \A i \in DOMAIN files : files[i].service # {} /\ files[i].path = h.files[i].path
    <3>1. PICK list, served, given : list = h.files /\ served = files /\ given = service
      OBVIOUS
    <3>2. served = Served(list, given)
      BY <3>1 DEF Served
    <3>3. list \in FileLists /\ given \in Masks \ {{}}
      BY <2>1, <2>5, <3>1
    <3>4. /\ served \in FileLists /\ DOMAIN served = DOMAIN list
          /\ \A i \in DOMAIN served : served[i].service # {} /\ served[i].path = list[i].path
      BY <3>2, <3>3, FilesServed
    <3> QED
      BY <3>1, <3>4
  <2>7. \A f \in Range(files) : f.path # Unset
    BY <1>6
  <2>8. ip # Unset /\ ether # Unset
    BY <1>6
  <2> HIDE DEF ip, ether, files
  <2>9. \A i \in DOMAIN files : files[i].path # Unset
    BY <2>7 DEF Range
  <2>10. /\ r \in ListedHosts /\ r.entry = e /\ r.name = name
    <3>1. r \in Hosts
      BY <2>3, <2>4, <2>5, <2>6 DEF Hosts
    <3> QED
      BY <2>3, <2>5, <2>6, <2>8, <2>9, <3>1 DEF ListedHosts
  <2>11. h.name # Unset => name = h.name
    BY DEF name
  <2>12. d = [c EXCEPT !.hosts = AddToList(c.hosts, r)]
    BY <1>6
  <2> HIDE DEF r
  <2>13. AddToList(c.hosts, r) \in Seq(ListedHosts)
    BY <1>2, <2>10, AppendProperties DEF AddToList
  <2>14. /\ d \in Contexts /\ d.ents = c.ents /\ d.set = c.set /\ d.status = c.status
         /\ d.hosts = AddToList(c.hosts, r)
    BY <2>12, <2>13 DEF Contexts
  <2> QED
    BY <2>10, <2>11, <2>14 DEF Added
<1> QED
  BY <1>1, <1>3, <1>4, <1>5, <1>6

----------------------------------------------------------------------------
(* One "host" statement.                                                   *)
HostNames == HostKeys \cup {<<"service">>}
HostMarks(c, e) == {e} \cup Children(c.ents, e, HostNames) \cup FileMarks(c, e)

(* Its "ether" entries, if any, were read with some other statement.       *)
Addressless(c, e) ==
    /\ ~c.set.resolve_ether /\ c.ents[e].values[1] \notin EtherWords
    /\ \A g \in Children(c.ents, e, {<<"ether">>}) : c.ents[g].processed

HostRead(c, d, e) ==
    /\ d \in Contexts /\ Marked(c.ents, d.ents, HostMarks(c, e)) /\ d.set = c.set
    /\ d.status = "running" => EntryRead(d, e) /\ NewFilesRead(c, d, e)
    /\ \/ /\ d.hosts = c.hosts
          /\ d.status = "running" /\ Len(c.ents[e].values) = 1 => Addressless(c, e)
       \/ \E h \in ListedHosts :
            /\ h.entry = e
            /\ Len(c.ents[e].values) = 1 => h.name = c.ents[e].values[1]
            /\ d.hosts = AddToList(c.hosts, h)

LEMMA HostIs ==
  ASSUME NEW c \in Contexts, NEW e \in DOMAIN c.ents, NEW d, d = EvalHostEntry(c, e)
  PROVE  HostRead(c, d, e)
<1>0. PICK m, new, addressed, served, filed, end :
        /\ m = Mark(c, <<e>>)
        /\ new = [m EXCEPT !.h.name = Single(c, e)]
        /\ addressed = Gets(new, e, "h", <<<<"name", "string">>, <<"ether", "ether">>,
                                           <<"ip", "ip">>>>)
        /\ served = GetService(addressed, e, "h")
        /\ filed = i_eval_host_files(served, e)
        /\ end = NoneLeft(filed, e)
  OBVIOUS
<1>1. d = host_add(end, e)
  BY <1>0 DEF EvalHostEntry
<1> DEFINE N == {e} \cup Children(c.ents, e, HostNames)
           M == HostMarks(c, e)
<1>2. /\ c.ents \in Trees /\ e \in Nat /\ N \subseteq M
      /\ \A g \in Children(c.ents, e, {<<"file">>}) : g \notin N
  <2>1. c.ents \in Trees
    BY DEF Contexts
  <2>2. e \in Nat
    BY <2>1, TreeFacts
  <2>3. ASSUME NEW g \in Children(c.ents, e, {<<"file">>}) PROVE g \notin N
    <3>1. g \in DOMAIN c.ents /\ c.ents[g].parent = e /\ c.ents[g].name = <<"file">>
      BY DEF Children
    <3>2. g # e
      BY <2>1, <3>1, TreeFacts
    <3> QED
      BY <3>1, <3>2 DEF Children, HostNames, HostKeys
  <2> QED
    BY <2>1, <2>2, <2>3 DEF HostMarks
<1> HIDE DEF N
<1>3. /\ m \in From(c, N) /\ m \in Keeping(c) /\ m \in Contexts /\ m.h = c.h
      /\ m.set = c.set /\ m.ents[e].processed /\ Marked(c.ents, m.ents, {e})
  <2>1. e \in Range(<<e>>) /\ Range(<<e>>) \subseteq N /\ Range(<<e>>) \subseteq {e}
    BY DEF Range, N
  <2>2. m = Mark(c, <<e>>)
    BY <1>0
  <2>3. m \in From(c, {e})
    BY <2>1, <2>2, MarkIs
  <2>4. m \in From(c, N) /\ m \in Keeping(c) /\ m \in Contexts /\ m.h = c.h /\ m.set = c.set
    BY <2>1, <2>2, MarkIs
  <2>5. m.ents[e].processed
    BY <2>1, <2>2, MarkIs
  <2> QED
    BY <2>3, <2>4, <2>5 DEF From
<1>4. /\ new \in From(c, N) /\ new \in Contexts /\ new.ents = m.ents /\ new.set = c.set
      /\ new.h.name = Single(c, e)
  <2>1. Single(c, e) \in Words /\ m.h \in Hosts
    BY <1>3, SingleValue DEF SingleIs, Values, Words, Contexts
  <2> DEFINE y == [m.h EXCEPT !.name = Single(c, e)]
  <2>2. y \in Hosts /\ y.name = Single(c, e)
    BY <2>1 DEF Hosts
  <2>3. new = [m EXCEPT !.h = y]
    BY <1>0
  <2> HIDE DEF y
  <2>4. /\ new \in Contexts /\ new.ents = m.ents /\ new.hosts = m.hosts /\ new.status = m.status
        /\ new.h = y /\ new.set = m.set
    BY <1>3, <2>2, <2>3, PutHost
  <2> QED
    BY <1>3, <2>2, <2>4, PutFrom
<1>5. ASSUME NEW x \in From(c, N), NEW keys, keys \subseteq HostNames
      PROVE  Children(x.ents, e, keys) \subseteq N
  <2>1. x.ents \in Trees /\ Marked(c.ents, x.ents, N)
    BY DEF From, Contexts
  <2>2. Children(x.ents, e, keys) = Children(c.ents, e, keys)
    BY <1>2, <2>1, MarkedFacts
  <2> QED
    BY <1>5, <2>2 DEF Children, N
<1>6. addressed \in From(new, N) \cap Keeping(new) /\ addressed \in From(c, N)
      /\ addressed \in Contexts /\ EtherGot(new, addressed, e)
  <2>1. Children(new.ents, e, HostKeys) \subseteq N
    BY <1>4, <1>5 DEF HostNames
  <2>2. addressed = Gets(new, e, "h", <<<<"name", "string">>, <<"ether", "ether">>,
                                        <<"ip", "ip">>>>)
    BY <1>0
  <2>3. addressed \in From(new, N) \cap Keeping(new) /\ EtherGot(new, addressed, e)
    BY <1>4, <2>1, <2>2, GetsHost
  <2> QED
    BY <1>4, <2>3, FromFacts DEF Keeping
<1>7. served \in From(addressed, N) \cap Keeping(addressed) /\ served \in From(c, N)
      /\ served \in Contexts
      /\ Marked(addressed.ents, served.ents, Children(addressed.ents, e, {<<"service">>}))
  <2>1. Children(addressed.ents, e, {<<"service">>}) \subseteq N
    BY <1>5, <1>6 DEF HostNames
  <2>2. served \in From(addressed, N) \cap Keeping(addressed)
    BY <1>0, <1>6, <2>1, ServiceIs
  <2> DEFINE K == Children(addressed.ents, e, {<<"service">>})
  <2>3. served \in From(addressed, K)
    BY <1>0, <1>6, ServiceIs
  <2> QED
    BY <1>6, <2>2, <2>3, FromFacts DEF Keeping, From
<1>8. /\ Marked(c.ents, served.ents, N) /\ served.ents \in Trees
      /\ DOMAIN served.ents = DOMAIN c.ents
      /\ FileMarks(served, e) \subseteq M
      /\ Children(served.ents, e, {<<"file">>}) = Children(c.ents, e, {<<"file">>})
  <2>1. served.ents \in Trees /\ Marked(c.ents, served.ents, N)
    BY <1>7 DEF From, Contexts
  <2>2. /\ DOMAIN served.ents = DOMAIN c.ents
        /\ \A b, keys : Children(served.ents, b, keys) = Children(c.ents, b, keys)
    BY <1>2, <2>1, MarkedFacts
  <2>3. FileMarks(served, e) = FileMarks(c, e)
    BY <2>2 DEF FileMarks
  <2> QED
    BY <2>1, <2>2, <2>3 DEF HostMarks
<1>9. /\ filed \in From(served, M) \cap Keeping(served)
      /\ Marked(served.ents, filed.ents, FileMarks(served, e))
      /\ filed.status = "running" => NewFilesRead(served, filed, e)
  <2>1. e \in DOMAIN served.ents
    BY <1>8
  <2> HIDE DEF M
  <2>2. filed \in From(served, FileMarks(served, e))
    BY <1>0, <1>7, <1>8, <2>1, HostFilesAre
  <2> QED
    BY <1>0, <1>7, <1>8, <2>1, <2>2, HostFilesAre DEF From
<1>10. /\ end \in From(filed, M) /\ end \in Keeping(filed) /\ end.ents = filed.ents
       /\ end.status = "running" =>
            /\ end = filed
            /\ \A g \in DOMAIN end.ents : end.ents[g].parent = e => end.ents[g].processed
  <2>1. filed \in Contexts
    BY <1>9 DEF From
  <2> HIDE DEF M
  <2> QED
    BY <1>0, <2>1, NoneLeftIs
<1>11. end \in From(new, M) /\ end \in Keeping(new) /\ end \in From(c, M) /\ end \in Contexts
  <2>1. /\ addressed \in From(new, M) /\ served \in From(addressed, M) /\ new \in From(c, M)
        /\ filed \in Contexts
    <3> HIDE DEF M
    <3> QED
      BY <1>2, <1>4, <1>6, <1>7, <1>9, FromFacts DEF From
  <2>2. end \in From(served, M)
    BY <1>7, <1>9, <1>10, FromFacts
  <2>3. end \in From(addressed, M)
    BY <1>6, <2>1, <2>2, FromFacts
  <2>4. end \in From(new, M)
    BY <1>4, <2>1, <2>3, FromFacts
  <2>5. end \in From(c, M)
    BY <2>1, <2>4, FromFacts
  <2>6. end \in Keeping(served)
    BY <1>7, <1>9, <1>10, FromFacts
  <2>7. end \in Keeping(new)
    BY <1>4, <1>6, <1>7, <2>6, FromFacts
  <2> QED
    BY <2>4, <2>5, <2>7 DEF From
<1>12. ASSUME end.status = "running" PROVE EntryRead(end, e) /\ NewFilesRead(c, end, e)
  <2>1. Marked(new.ents, end.ents, M) /\ new.ents \in Trees /\ end.ents \in Trees
        /\ Marked(c.ents, new.ents, N)
    BY <1>4, <1>11 DEF From, Contexts
  <2>2. e \in DOMAIN new.ents /\ new.ents[e].processed
    BY <1>2, <1>3, <1>4, <2>1 DEF Marked
  <2>3. end.ents[e].processed
    BY <2>1, <2>2, MarkedFacts
  <2>4. ASSUME NEW g \in Children(c.ents, e, {<<"file">>}), ~c.ents[g].processed,
               end.ents[g].processed
        PROVE  EntryRead(end, g)
    <3>1. g \in DOMAIN c.ents /\ g \notin N
      BY <1>2 DEF Children
    <3>2. ~served.ents[g].processed
      BY <1>2, <1>8, <2>4, <3>1, MarkedFacts
    <3>3. NewFilesRead(served, end, e)
      BY <1>9, <1>10, <1>12
    <3> QED
      BY <1>8, <2>4, <3>2, <3>3 DEF NewFilesRead
  <2> QED
    BY <1>10, <1>12, <2>3, <2>4 DEF EntryRead, NewFilesRead
<1>13. /\ d \in Contexts /\ d.ents = end.ents /\ d.set = end.set
       /\ end.status # "running" => d.status # "running"
       /\ \/ d.hosts = end.hosts /\ (end.status = "running" /\ d.status = "running"
                                       /\ end.h.name # Unset => NoAddress(end))
          \/ Added(end, d, e)
  BY <1>1, <1>2, <1>11, HostAdded
<1>14. end.hosts = c.hosts /\ end.set = c.set /\ Marked(c.ents, end.ents, M)
       /\ (new.h.name # Unset => end.h.name = new.h.name)
  BY <1>4, <1>11 DEF From, Keeping
<1>15. Len(c.ents[e].values) = 1 => end.h.name = c.ents[e].values[1] /\ end.h.name # Unset
  BY <1>4, <1>14, SingleValue DEF SingleIs
<1>16. d.status = "running" => EntryRead(d, e) /\ NewFilesRead(c, d, e)
  BY <1>12, <1>13 DEF EntryRead, NewFilesRead
<1>17. ASSUME end.status = "running", NEW g \in Children(c.ents, e, {<<"ether">>}),
              ~c.ents[g].processed
       PROVE  end.h.ether # Unset
  <2>1. /\ addressed.ents \in Trees /\ new.ents \in Trees /\ filed.ents \in Trees
        /\ Marked(c.ents, new.ents, {e}) /\ Marked(new.ents, addressed.ents, N)
    BY <1>3, <1>4, <1>6, <1>9 DEF From, Contexts
  <2>2. /\ g \in DOMAIN c.ents /\ c.ents[g].parent = e /\ c.ents[g].name = <<"ether">> /\ g # e
    BY <1>2, TreeFacts DEF Children
  <2>3. /\ g \in DOMAIN new.ents /\ new.ents[g].parent = e /\ new.ents[g].name = <<"ether">>
        /\ ~new.ents[g].processed
    BY <1>2, <1>17, <2>1, <2>2, MarkedFacts
  <2>4. /\ g \in DOMAIN addressed.ents /\ addressed.ents[g].parent = e
        /\ addressed.ents[g].name = <<"ether">>
    BY <2>1, <2>3, MarkedFacts
  <2>5. /\ g \in DOMAIN served.ents /\ served.ents[g].parent = e
        /\ served.ents[g].name = <<"ether">>
        /\ served.ents[g].processed => addressed.ents[g].processed
    <3> DEFINE K == Children(addressed.ents, e, {<<"service">>})
    <3>1. g \notin K
      BY <2>4 DEF Children
    <3> HIDE DEF K
    <3>2. Marked(addressed.ents, served.ents, K)
      BY <1>7 DEF K
    <3> QED
      BY <1>8, <2>1, <2>4, <3>1, <3>2, MarkedFacts
  <2>6. filed.ents[g].processed => served.ents[g].processed
    <3> DEFINE K == FileMarks(served, e)
    <3>1. g \notin K
      <4>1. g \notin Children(served.ents, e, {<<"file">>})
        BY <2>5 DEF Children
      <4>2. ASSUME NEW f \in Children(served.ents, e, {<<"file">>}) PROVE f # e
        BY <1>8, TreeFacts DEF Children
      <4> QED
        BY <2>5, <4>1, <4>2 DEF FileMarks, Children
    <3> HIDE DEF K
    <3>2. Marked(served.ents, filed.ents, K)
      BY <1>9 DEF K
    <3> QED
      BY <1>8, <2>1, <2>5, <3>1, <3>2, MarkedFacts
  <2>7. filed.ents[g].processed
    <3>1. g \in DOMAIN filed.ents /\ filed.ents[g].parent = e
      <4> DEFINE K == FileMarks(served, e)
      <4>1. Marked(served.ents, filed.ents, K)
        BY <1>9
      <4> HIDE DEF K
      <4> QED
        BY <1>8, <2>1, <2>5, <4>1, MarkedFacts
    <3> QED
      BY <1>10, <1>17, <3>1
  <2>8. addressed.h.ether # Unset
    BY <1>6, <2>3, <2>5, <2>6, <2>7 DEF EtherGot, Children
  <2>9. end \in Keeping(addressed)
    <3>1. filed \in Contexts
      BY <1>9 DEF Keeping
    <3>2. end \in Keeping(served)
      BY <1>7, <1>9, <1>10, <3>1, FromFacts
    <3> QED
      BY <1>6, <1>7, <3>2, FromFacts
  <2> QED
    BY <2>8, <2>9 DEF Keeping
<1>18. CASE d.hosts = end.hosts /\ (end.status = "running" /\ d.status = "running"
                                       /\ end.h.name # Unset => NoAddress(end))
  <2>1. ASSUME d.status = "running", Len(c.ents[e].values) = 1 PROVE Addressless(c, e)
    <3>1. end.status = "running" /\ NoAddress(end)
      BY <1>13, <1>15, <1>18, <2>1
    <3> QED
      BY <1>14, <1>15, <1>17, <2>1, <3>1 DEF NoAddress, Addressless
  <2> HIDE DEF M
  <2> QED
    BY <1>13, <1>14, <1>16, <1>18, <2>1 DEF HostRead, M
<1>19. CASE Added(end, d, e)
  <2>1. PICK h \in ListedHosts : /\ h.entry = e
                                 /\ end.h.name # Unset => h.name = end.h.name
                                 /\ d.hosts = AddToList(c.hosts, h)
    BY <1>14, <1>19 DEF Added
  <2> HIDE DEF M
  <2> QED
    BY <1>13, <1>14, <1>15, <1>16, <2>1 DEF HostRead, M
<1> QED
  BY <1>13, <1>18, <1>19

(* The "log" statement.                                                    *)
LogIs(c, d, M) ==
    /\ d \in From(c, M)
    /\ d.status = "running" =>
         \/ d.ents = c.ents
         \/ \E e \in M \cap DOMAIN c.ents :
              /\ c.ents[e].parent = Root /\ c.ents[e].name = <<"log">>
              /\ M = {e} \cup Children(c.ents, e, LogKeys)
              /\ EntryRead(d, e)

LEMMA LogRead ==
  ASSUME NEW c \in Contexts, NEW d, d = i_eval_log_msg(c)
  PROVE  \E M : LogIs(c, d, M)
<1>0. PICK es : es = Matching(c, Root, "log")
  OBVIOUS
<1> DEFINE e == es[1]
<1>1. PICK m, got, end : /\ m = Mark(c, es)
                         /\ got = Gets(m, e, "log", <<<<"file", "string">>, <<"level", "loglevel">>>>)
                         /\ end = NoneLeft(got, e)
  OBVIOUS
<1>2. \/ d = c \/ d = Stop(c, "undefined") \/ d = Stop(c, "exited")
      \/ d = end /\ es # <<>> /\ ~(Len(es) > 1)
  BY <1>0, <1>1, Zenon DEF i_eval_log_msg, Reading
<1>3. CASE d = c
  <2>1. LogIs(c, d, {})
    BY <1>3, FromFacts DEF LogIs
  <2> QED
    BY <2>1
<1>4. CASE d = Stop(c, "undefined") \/ d = Stop(c, "exited")
  <2>1. LogIs(c, d, {})
    BY <1>4, StopIs DEF LogIs, Statuses
  <2> QED
    BY <2>1
<1>5. CASE d = end /\ es # <<>> /\ ~(Len(es) > 1)
  <2>1. Found(c, Root, "log", es)
    BY <1>0, MatchingIs
  <2>2. /\ e \in DOMAIN c.ents /\ c.ents[e].parent = Root /\ c.ents[e].name = <<"log">>
        /\ Range(es) = {e}
    <3>1. DOMAIN es = {1}
      BY <1>5, <2>1 DEF Found
    <3>2. Range(es) = {e}
      BY <3>1 DEF Range
    <3>3. 1 \in DOMAIN es
      BY <3>1
    <3> QED
      BY <2>1, <3>2, <3>3 DEF Found
  <2> DEFINE M == {e} \cup Children(c.ents, e, LogKeys)
  <2>3. /\ m \in From(c, M) /\ m \in Contexts /\ m.ents[e].processed
    <3>1. Range(es) \subseteq M /\ e \in Range(es)
      BY <2>2
    <3> HIDE DEF M
    <3> QED
      BY <1>1, <2>2, <3>1, MarkIs
  <2>4. Children(m.ents, e, LogKeys) \subseteq M
    <3>1. Marked(c.ents, m.ents, M) /\ c.ents \in Trees /\ m.ents \in Trees
      BY <2>3 DEF From, Contexts
    <3>2. Children(m.ents, e, LogKeys) = Children(c.ents, e, LogKeys)
      <4> HIDE DEF M
      <4> QED
        BY <3>1, MarkedFacts
    <3> QED
      BY <3>2
  <2>5. got \in From(m, M) /\ got \in Contexts
    <3> HIDE DEF M
    <3> QED
      BY <1>1, <2>3, <2>4, GetsLog DEF From
  <2>6. /\ end \in From(got, M) /\ end.ents = got.ents
        /\ end.status = "running" =>
             \A g \in DOMAIN end.ents : end.ents[g].parent = e => end.ents[g].processed
    <3> HIDE DEF M
    <3> QED
      BY <1>1, <2>5, NoneLeftIs
  <2>7. end \in From(c, M) /\ end.ents[e].processed
    <3>1. Marked(m.ents, end.ents, M) /\ m.ents \in Trees /\ end.ents \in Trees
      BY <2>3, <2>5, <2>6 DEF From, Contexts
    <3>2. e \in DOMAIN m.ents
      BY <2>2, <2>3 DEF From, Marked
    <3> HIDE DEF M
    <3> QED
      BY <2>3, <2>5, <2>6, <3>1, <3>2, FromFacts, MarkedFacts
  <2>8. LogIs(c, d, M)
    <3>1. e \in M
      OBVIOUS
    <3> QED
      BY <1>5, <2>2, <2>6, <2>7, <3>1 DEF LogIs, EntryRead
  <2> QED
    BY <2>8
<1> QED
  BY <1>2, <1>3, <1>4, <1>5

(* One "service" statement.                                                *)
ServiceKeys == {<<"device">>, <<"bind">>}
ServiceMarks(c, e) == {e} \cup Children(c.ents, e, ServiceKeys)

LEMMA ServiceEntryIs ==
  ASSUME NEW c \in Contexts, NEW e \in DOMAIN c.ents, NEW d, d = EvalServiceEntry(c, e)
  PROVE  /\ d \in From(c, ServiceMarks(c, e))
         /\ d.set = c.set
         /\ c.status = "running" /\ d.status = "running" => d.ents[e].processed
<1> DEFINE w == Single(c, e)
           M == ServiceMarks(c, e)
<1>0. PICK key, es, m, words :
        /\ key = (IF w \in LinkNames THEN "device" ELSE "bind")
        /\ es = Matching(c, e, key)
        /\ m = Mark(c, <<e>> \o es)
        /\ words = UNION {Range(c.ents[g].values) : g \in Range(es)}
  OBVIOUS
<1>1. \/ d = c /\ c.status # "running"
      \/ d = Stop(c, "undefined") \/ d = Stop(c, "exited")
      \/ w \in ServiceNames /\ d = [m EXCEPT !.asked = @ \cup {<<w, v>> : v \in words}]
  BY <1>0 DEF EvalServiceEntry, Reading
<1>2. CASE d = c /\ c.status # "running"
  BY <1>2, FromFacts
<1>3. CASE d = Stop(c, "undefined") \/ d = Stop(c, "exited")
  BY <1>3, StopIs DEF Statuses
<1>4. CASE w \in ServiceNames /\ d = [m EXCEPT !.asked = @ \cup {<<w, v>> : v \in words}]
  <2>1. Found(c, e, key, es)
    BY <1>0, MatchingIs
  <2>2. Range(<<e>> \o es) \subseteq M /\ e \in Range(<<e>> \o es)
    <3>1. Range(es) \subseteq Children(c.ents, e, {<<key>>})
      BY <2>1 DEF Found
    <3>2. Children(c.ents, e, {<<key>>}) \subseteq Children(c.ents, e, ServiceKeys)
      <4>1. <<key>> \in ServiceKeys
        BY <1>0 DEF ServiceKeys
      <4> QED
        BY <4>1 DEF Children
    <3>3. /\ Len(es) \in Nat /\ DOMAIN es = 1 .. Len(es)
      BY <2>1 DEF Found
    <3>4. /\ <<e>> \o es = [i \in 1 .. 1 + Len(es) |-> IF i <= 1 THEN <<e>>[i] ELSE es[i - 1]]
      BY <3>3
    <3>5. ASSUME NEW x \in Range(<<e>> \o es) PROVE x = e \/ x \in Range(es)
      <4>1. PICK i \in 1 .. 1 + Len(es) : x = (<<e>> \o es)[i]
        BY <3>4 DEF Range
      <4>2. CASE i <= 1
        BY <3>3, <3>4, <4>1, <4>2
      <4>3. CASE ~(i <= 1)
        <5>1. x = es[i - 1] /\ i - 1 \in DOMAIN es
          BY <3>3, <3>4, <4>1, <4>3
        <5> QED
          BY <5>1 DEF Range
      <4> QED
        BY <4>2, <4>3
    <3>6. e \in Range(<<e>> \o es)
      <4>1. 1 \in DOMAIN (<<e>> \o es) /\ (<<e>> \o es)[1] = e
        BY <3>3, <3>4
      <4> QED
        BY <4>1 DEF Range
    <3> QED
      BY <3>1, <3>2, <3>5, <3>6 DEF ServiceMarks
  <2> HIDE DEF M
  <2>3. /\ m \in From(c, M) /\ m \in Contexts /\ m.ents[e].processed /\ m.set = c.set
    <3>1. PICK all : all = <<e>> \o es
      OBVIOUS
    <3> QED
      BY <1>0, <2>2, <3>1, MarkIs
  <2>4. words \subseteq Tokens
    <3>1. ASSUME NEW g \in Range(es) PROVE Range(c.ents[g].values) \subseteq Tokens
      <4>1. g \in DOMAIN c.ents
        BY <2>1 DEF Found, Children
      <4>2. c.ents[g].values \in Seq(Tokens)
        BY <4>1, TreeFacts DEF Contexts
      <4> QED
        BY <4>2, ElementOfSeq DEF Range
    <3> QED
      BY <1>0, <3>1
  <2> HIDE DEF w
  <2> DEFINE x == m.asked \cup {<<w, v>> : v \in words}
  <2>5. x \in Asked
    BY <1>4, <2>3, <2>4 DEF Asked, Contexts
  <2>6. d = [m EXCEPT !.asked = x]
    BY <1>4
  <2> HIDE DEF x
  <2>7. d \in Contexts /\ d.ents = m.ents /\ d.hosts = m.hosts /\ d.status = m.status
        /\ d.set = m.set
    BY <2>3, <2>5, <2>6, PutAsked DEF Contexts
  <2> QED
    BY <2>3, <2>7, PutFrom DEF M
<1> QED
  BY <1>1, <1>2, <1>3, <1>4

----------------------------------------------------------------------------
(* The types of everything, in every state.                                *)
ConfTypes == conf \in [log : LogSettings, set : Settings, hosts : Seq(ListedHosts), asked : Asked]
TypeInv == ParseInv /\ ConfTypes /\ steps \in Nat

LEMMA NewHostFile == NewHost \in Hosts /\ NewFile \in Files
<1>1. Unset \in Words /\ Unset \in Ethers /\ Unset \in Ips /\ Unset \in Values
  BY DEF Words, Ethers, Ips, Values
<1>2. <<>> \in FileLists
  BY DEF FileLists
<1>3. {} \in Masks
  BY DEF Masks
<1>4. NewHost \in Hosts
  BY <1>1, <1>2, <1>3 DEF NewHost, Hosts
<1>5. NewFile \in Files
  <2>1. <<>> \in Seq(Tokens) /\ Len(<<>>) = 0 /\ 0 <= AliasesMax
    BY AliasesMaxAssumption
  <2> QED
    BY <1>1, <1>3, <2>1 DEF NewFile, Files
<1> QED
  BY <1>4, <1>5

LEMMA StartIs ==
  ASSUME TypeInv
  PROVE  /\ Start \in Contexts /\ Start.ents = ents /\ Start.status = "running"
         /\ Start.hosts = conf.hosts /\ Start.set = conf.set
<1>1. ents \in Trees
  BY DEF TypeInv, ParseInv, ParseTypes
<1> QED
  BY <1>1, NewHostFile DEF Start, Contexts, Statuses, TypeInv, ConfTypes

LEMMA InitTypes == Init => TypeInv
<1> SUFFICES ASSUME Init PROVE TypeInv
  OBVIOUS
<1>1. ParseInv
  BY ParseInitInv DEF Init
<1>2. <<"debug">> \in Words /\ <<"5">> \in Words /\ <<"120">> \in Words /\ Unset \in Words
  BY DEF Words, DefaultWords
<1>3. ConfTypes
  BY <1>2 DEF ConfTypes, Init, Defaults, LogSettings, Settings, Asked
<1> QED
  BY <1>1, <1>3 DEF TypeInv, Init

(* Each step of the evaluation makes d of the start.                       *)
LEMMA LogStep ==
  ASSUME TypeInv, EvalLog
  PROVE  \E d, M : LogIs(Start, d, M) /\ Becomes(d, "basic")
<1>1. PICK d : d = i_eval_log_msg(Start)
  OBVIOUS
<1>2. \E M : LogIs(Start, d, M)
  BY <1>1, StartIs, LogRead
<1> QED
  BY <1>1, <1>2 DEF EvalLog

LEMMA BasicStep ==
  ASSUME TypeInv, EvalBasic
  PROVE  \E d \in From(Start, Children(ents, Root, BasicNames)) : Becomes(d, "services")
<1>1. i_eval_basic(Start) \in From(Start, Children(ents, Root, BasicNames))
  BY StartIs, BasicIs
<1> QED
  BY <1>1 DEF EvalBasic

FirstLeft(key, e) ==
    /\ e \in DOMAIN ents /\ ents[e].parent = Root /\ ents[e].name = <<key>>
    /\ ~ents[e].processed
    /\ \A g \in Children(ents, Root, {<<key>>}) : ~ents[g].processed => e <= g

NoneOf(key) == \A g \in Children(ents, Root, {<<key>>}) : ents[g].processed

LEMMA FirstLeftIs ==
  ASSUME TypeInv, NEW key, NEW es, es = Matching(Start, Root, key)
  PROVE  /\ es = <<>> => NoneOf(key)
         /\ es # <<>> => FirstLeft(key, es[1])
<1>1. Found(Start, Root, key, es) /\ Start.ents = ents
  BY StartIs, MatchingIs
<1>2. CASE es = <<>>
  <2>1. DOMAIN es = {}
    BY <1>2
  <2> QED
    BY <1>1, <1>2, <2>1 DEF Found, NoneOf
<1>3. CASE es # <<>>
  <2>1. 1 \in DOMAIN es /\ es[1] \in DOMAIN ents /\ ents[es[1]].parent = Root
        /\ ents[es[1]].name = <<key>> /\ ~ents[es[1]].processed
    BY <1>1, <1>3 DEF Found
  <2>2. ASSUME NEW g \in Children(ents, Root, {<<key>>}), ~ents[g].processed PROVE es[1] <= g
    <3>1. PICK i \in DOMAIN es : es[i] = g
      BY <1>1, <2>2 DEF Found
    <3>2. DOMAIN es = 1 .. Len(es) /\ Len(es) \in Nat
      BY <1>1 DEF Found
    <3>3. i = 1 \/ 1 < i
      BY <3>2
    <3>4. es[1] \in Nat
      BY <2>1, TreeFacts DEF TypeInv, ParseInv, ParseTypes
    <3>5. g \in Nat
      BY TreeFacts DEF TypeInv, ParseInv, ParseTypes, Children
    <3>6. 1 < i => es[1] < es[i]
      BY <1>1, <2>1 DEF Found
    <3> QED
      BY <3>1, <3>3, <3>4, <3>5, <3>6
  <2> QED
    BY <1>3, <2>1, <2>2 DEF FirstLeft
<1> QED
  BY <1>2, <1>3

LEMMA ServiceStep ==
  ASSUME TypeInv, EvalService
  PROVE  \/ NoneOf("service") /\ Becomes(Start, "hosts")
         \/ \E e \in DOMAIN ents : \E d \in From(Start, ServiceMarks(Start, e)) :
              /\ FirstLeft("service", e) /\ Becomes(d, "services")
              /\ d.set = conf.set
              /\ d.status = "running" => d.ents[e].processed
<1>1. PICK es : es = Matching(Start, Root, "service")
  OBVIOUS
<1>2. CASE es = <<>>
  <2>1. NoneOf("service")
    BY <1>1, <1>2, FirstLeftIs
  <2> QED
    BY <1>1, <1>2, <2>1 DEF EvalService
<1>3. CASE es # <<>>
  <2>1. FirstLeft("service", es[1])
    BY <1>1, <1>3, FirstLeftIs
  <2>2. PICK e, d : e = es[1] /\ d = EvalServiceEntry(Start, e)
    OBVIOUS
  <2>3. e \in DOMAIN ents
    BY <2>1, <2>2 DEF FirstLeft
  <2>4. /\ d \in From(Start, ServiceMarks(Start, e)) /\ d.set = Start.set
        /\ Start.status = "running" /\ d.status = "running" => d.ents[e].processed
    <3>1. e \in DOMAIN Start.ents /\ Start \in Contexts
      BY <2>3, StartIs
    <3> QED
      BY <2>2, <3>1, ServiceEntryIs
  <2>5. Becomes(d, "services")
    BY <1>1, <1>3, <2>2 DEF EvalService
  <2> QED
    BY <2>1, <2>2, <2>3, <2>4, <2>5, StartIs
<1> QED
  BY <1>2, <1>3

LEMMA HostStep ==
  ASSUME TypeInv, EvalHost
  PROVE  \/ NoneOf("host") /\ Becomes(Start, "check")
         \/ \E e \in DOMAIN ents, d \in Contexts :
              /\ FirstLeft("host", e) /\ Becomes(d, "hosts")
              /\ HostRead(Start, d, e)
<1>1. PICK es : es = Matching(Start, Root, "host")
  OBVIOUS
<1>2. CASE es = <<>>
  <2>1. NoneOf("host")
    BY <1>1, <1>2, FirstLeftIs
  <2> QED
    BY <1>1, <1>2, <2>1 DEF EvalHost
<1>3. CASE es # <<>>
  <2>1. FirstLeft("host", es[1])
    BY <1>1, <1>3, FirstLeftIs
  <2>2. PICK e, d : e = es[1] /\ d = EvalHostEntry(Start, e)
    OBVIOUS
  <2>3. e \in DOMAIN ents
    BY <2>1, <2>2 DEF FirstLeft
  <2>4. HostRead(Start, d, e)
    <3>1. e \in DOMAIN Start.ents /\ Start \in Contexts
      BY <2>3, StartIs
    <3> QED
      BY <2>2, <3>1, HostIs
  <2>5. Becomes(d, "hosts")
    BY <1>1, <1>3, <2>2 DEF EvalHost
  <2> QED
    BY <2>1, <2>2, <2>3, <2>4, <2>5 DEF HostRead
<1> QED
  BY <1>2, <1>3

LEMMA CheckStep ==
  ASSUME TypeInv, EvalCheck
  PROVE  \E d \in From(Start, {}) \cap Keeping(Start) :
           /\ Becomes(d, "accepted")
           /\ d.ents = ents
           /\ d.status = "running" => \A e \in DOMAIN ents : ents[e].parent = Root => ents[e].processed
<1>1. PICK d : d = NoneLeft(Start, Root)
  OBVIOUS
<1>2. /\ d \in From(Start, {}) /\ d \in Keeping(Start) /\ d.ents = Start.ents
      /\ d.status = "running" => \A e \in DOMAIN d.ents :
                                    d.ents[e].parent = Root => d.ents[e].processed
  BY <1>1, StartIs, NoneLeftIs
<1> QED
  BY <1>1, <1>2, StartIs DEF EvalCheck

Eval == EvalLog \/ EvalBasic \/ EvalService \/ EvalHost \/ EvalCheck

LEMMA EvalMakes ==
  ASSUME TypeInv, Eval
  PROVE  \E d \in Contexts, next \in EvalPhases \cup {"accepted"} : Becomes(d, next)
<1>1. CASE EvalLog
  BY <1>1, LogStep DEF LogIs, From, EvalPhases
<1>2. CASE EvalBasic
  BY <1>2, BasicStep DEF From, EvalPhases
<1>3. CASE EvalService
  BY <1>3, ServiceStep, StartIs DEF From, EvalPhases
<1>4. CASE EvalHost
  BY <1>4, HostStep, StartIs DEF EvalPhases
<1>5. CASE EvalCheck
  BY <1>5, CheckStep DEF From, EvalPhases
<1> QED
  BY <1>1, <1>2, <1>3, <1>4, <1>5 DEF Eval

LEMMA MadeTypes ==
  ASSUME TypeInv, NEW d \in Contexts, NEW next \in EvalPhases \cup {"accepted"}, Becomes(d, next)
  PROVE  ParseInv' /\ ConfTypes' /\ phase' \in EvalPhases \cup Final
<1>1. /\ d.ents \in Trees /\ d.log \in LogSettings /\ d.set \in Settings
      /\ d.hosts \in Seq(ListedHosts) /\ d.asked \in Asked /\ d.status \in Statuses
  BY DEF Contexts
<1>2. /\ ents' = d.ents
      /\ conf' = [log |-> d.log, set |-> d.set, hosts |-> d.hosts, asked |-> d.asked]
      /\ phase' = (IF d.status = "running" THEN next ELSE d.status)
      /\ text' = text /\ z' = z /\ open' = open /\ word' = word /\ taken' = taken
  BY DEF Becomes
<1>3. phase' \in EvalPhases \cup Final
  BY <1>1, <1>2 DEF Statuses, Final
<1>4. ~(phase' \in {"name", "values"})
  BY <1>3 DEF EvalPhases, Final
<1>5. Stack'
  BY <1>4 DEF Stack, Parsing
<1>6. ParseTypes'
  BY <1>1, <1>2, <1>3 DEF TypeInv, ParseInv, ParseTypes, Phases
<1>7. ConfTypes'
  BY <1>1, <1>2 DEF ConfTypes
<1> QED
  BY <1>3, <1>5, <1>6, <1>7 DEF ParseInv

LEMMA StepTypes ==
  ASSUME TypeInv, [Next]_vars
  PROVE  TypeInv'
<1>1. CASE UNCHANGED vars
  BY <1>1 DEF vars, parseVars, TypeInv, ParseInv, ParseTypes, Stack, Parsing, ConfTypes
<1>2. CASE Step
  <2>1. steps' \in Nat
    BY <1>2 DEF Step, Count, TypeInv
  <2>2. CASE ParseStep /\ UNCHANGED conf
    BY <2>1, <2>2, ParseStepInv DEF TypeInv, ConfTypes
  <2>3. CASE Eval
    BY <2>1, <2>3, EvalMakes, MadeTypes DEF TypeInv
  <2> QED
    BY <1>2, <2>2, <2>3 DEF Step, Eval
<1> QED
  BY <1>1, <1>2 DEF Next, Done

LEMMA Types == Spec => []TypeInv
<1>1. Init => TypeInv
  BY InitTypes
<1>2. TypeInv /\ [Next]_vars => TypeInv'
  BY StepTypes
<1> QED
  BY <1>1, <1>2, PTL DEF Spec

(* The entries fit, and a host in the table has a name, both addresses and *)
(* services, and so have its files, which all have a path (host_add,       *)
(* i_host_file_add): whatever the file and the resolvers say.              *)
THEOREM TypesOK == Spec => []TypeOK
<1>1. ASSUME TypeInv PROVE TypeOK
  <2>1. /\ RingOK(text, z) /\ ents \in Trees /\ phase \in Phases
        /\ conf.hosts \in Seq(ListedHosts) /\ conf.asked \in Asked
    BY <1>1 DEF TypeInv, ParseInv, ParseTypes, ConfTypes
  <2>2. z.ts \in Empty .. Lookahead /\ z.te \in 0 .. Lookahead
    BY <2>1 DEF RingOK, Rings
  <2>3. \A e \in DOMAIN ents : Len(ents[e].values) <= ValuesMax
    BY <2>1, TreeFacts
  <2>4. ASSUME NEW h \in Range(conf.hosts)
        PROVE  /\ h.name # Unset
               /\ h.ether \in EtherWords /\ h.ip \in IpWords
               /\ h.service \in Masks \ {{}}
               /\ \A f \in Range(h.files) : FileListed(f)
    <3>1. h \in ListedHosts
      BY <2>1, ElementOfSeq DEF Range
    <3>2. /\ h \in Hosts /\ h.name # Unset /\ h.ether # Unset /\ h.ip # Unset /\ h.service # {}
          /\ \A i \in DOMAIN h.files : h.files[i].path # Unset /\ h.files[i].service # {}
      BY <3>1 DEF ListedHosts
    <3>3. h.ether \in EtherWords /\ h.ip \in IpWords /\ h.service \in Masks \ {{}}
          /\ h.files \in FileLists
      BY <3>2 DEF Hosts, Ethers, Ips
    <3>4. ASSUME NEW i \in DOMAIN h.files PROVE FileListed(h.files[i])
      <4>1. h.files[i] \in Files /\ h.files[i].name # Unset
        BY <3>3, ElementOfSeq DEF FileLists
      <4> QED
        BY <3>2, <4>1 DEF FileListed, Files
    <3> QED
      BY <3>2, <3>3, <3>4 DEF Range
  <2>5. \A a \in conf.asked : a[1] \in ServiceNames
    BY <2>1 DEF Asked
  <2>6. phase \in {"name", "values", "log", "basic", "services", "hosts", "check"} \cup Final
    BY <2>1 DEF Phases, EvalPhases
  <2> QED
    BY <2>2, <2>3, <2>4, <2>5, <2>6 DEF TypeOK
<1> QED
  BY <1>1, Types, PTL

----------------------------------------------------------------------------
(* No statement is passed over.                                            *)
InBlock(t, b) ==
    \/ t[b].parent = Root /\ t[b].name \in {<<"log">>, <<"host">>}
    \/ /\ t[b].name = <<"file">>
       /\ t[t[b].parent].name = <<"host">>
       /\ t[t[b].parent].parent = Root

AllRead(t, b) == \A e \in DOMAIN t : t[e].parent = b => t[e].processed

(* A block that must be read has been when its entry is marked.            *)
ReadTree(t) == \A b \in DOMAIN t \ {Root} : InBlock(t, b) /\ t[b].processed => AllRead(t, b)

LEMMA ReadTreeKept ==
  ASSUME NEW t \in Trees, NEW u \in Trees, NEW M, Marked(t, u, M), ReadTree(t),
         \A b \in DOMAIN t \ {Root} :
            b \in M /\ InBlock(t, b) /\ ~t[b].processed /\ u[b].processed => AllRead(u, b)
  PROVE  ReadTree(u)
<1>1. /\ DOMAIN u = DOMAIN t
      /\ \A e \in DOMAIN t : /\ u[e].name = t[e].name /\ u[e].parent = t[e].parent
                             /\ t[e].processed => u[e].processed
                             /\ u[e].processed => t[e].processed \/ e \in M
  BY MarkedFacts
<1>2. \A b \in DOMAIN t \ {Root} : t[b].parent \in DOMAIN t
  BY TreeFacts
<1>3. ASSUME NEW b \in DOMAIN u \ {Root}, InBlock(u, b), u[b].processed PROVE AllRead(u, b)
  <2>1. InBlock(t, b)
    BY <1>1, <1>2, <1>3 DEF InBlock
  <2>2. CASE t[b].processed
    <3>1. AllRead(t, b)
      BY <1>1, <2>1, <2>2 DEF ReadTree
    <3> QED
      BY <1>1, <3>1 DEF AllRead
  <2>3. CASE ~t[b].processed
    BY <1>1, <1>3, <2>1, <2>3
  <2> QED
    BY <2>2, <2>3
<1> QED
  BY <1>3 DEF ReadTree

(* What is in the block of an entry of the file is not an entry of the     *)
(* file.                                                                   *)
LEMMA Deeper ==
  ASSUME NEW t \in Trees, NEW b \in DOMAIN t, b # Root, NEW e \in DOMAIN t, t[e].parent = b
  PROVE  t[e].parent # Root /\ e # Root /\ e # b
<1>1. e # Root
  BY TreeFacts
<1> QED
  BY <1>1, TreeFacts

BlocksRead ==
    phase \in EvalPhases \cup {"accepted"} => ReadTree(ents)

AcceptedRead ==
    phase = "accepted" => \A e \in DOMAIN ents : ents[e].parent = Root => ents[e].processed

ReadInv == TypeInv /\ BlocksRead /\ AcceptedRead

LEMMA MadeRead ==
  ASSUME NEW d \in Contexts, NEW next, Becomes(d, next),
         d.status = "running" => ReadTree(d.ents)
  PROVE  BlocksRead'
<1>1. /\ ents' = d.ents /\ d.status \in Statuses
      /\ phase' = (IF d.status = "running" THEN next ELSE d.status)
  BY DEF Becomes, Contexts
<1>2. d.status # "running" => phase' \notin EvalPhases \cup {"accepted"}
  BY <1>1 DEF Statuses, EvalPhases
<1> QED
  BY <1>1, <1>2 DEF BlocksRead

LEMMA LogReads ==
  ASSUME ReadInv, EvalLog
  PROVE  BlocksRead'
<1>1. PICK d, M : LogIs(Start, d, M) /\ Becomes(d, "basic")
  BY LogStep DEF ReadInv
<1>2. /\ d \in Contexts /\ d.ents \in Trees /\ ents \in Trees /\ Marked(ents, d.ents, M)
      /\ Start.ents = ents /\ ReadTree(ents)
  BY <1>1, StartIs DEF LogIs, From, Contexts, ReadInv, BlocksRead, EvalLog, EvalPhases
<1>3. ASSUME d.status = "running" PROVE ReadTree(d.ents)
  <2>1. CASE d.ents = ents
    BY <1>2, <2>1
  <2>2. CASE d.ents # ents
    <3>1. PICK e \in DOMAIN ents : /\ ents[e].parent = Root /\ ents[e].name = <<"log">>
                                   /\ M = {e} \cup Children(ents, e, LogKeys)
                                   /\ EntryRead(d, e)
      BY <1>1, <1>2, <1>3, <2>2 DEF LogIs
    <3>2. ASSUME NEW b \in DOMAIN ents \ {Root}, b \in M, InBlock(ents, b)
          PROVE  AllRead(d.ents, b)
      <4>1. CASE b = e
        BY <3>1, <4>1 DEF EntryRead, AllRead
      <4>2. CASE b \in Children(ents, e, LogKeys)
        <5>1. ents[b].parent = e /\ e # Root
          BY <1>2, <3>1, <4>2, TreeFacts DEF Children
        <5> QED
          BY <3>1, <3>2, <5>1 DEF InBlock
      <4> QED
        BY <3>1, <3>2, <4>1, <4>2
    <3> QED
      BY <1>2, <3>2, ReadTreeKept
  <2> QED
    BY <2>1, <2>2
<1> QED
  BY <1>1, <1>2, <1>3, MadeRead

LEMMA BasicReads ==
  ASSUME ReadInv, EvalBasic
  PROVE  BlocksRead'
<1> DEFINE M == Children(ents, Root, BasicNames)
<1>1. PICK d \in From(Start, M) : Becomes(d, "services")
  BY BasicStep DEF ReadInv
<1>2. /\ d \in Contexts /\ d.ents \in Trees /\ ents \in Trees /\ Marked(ents, d.ents, M)
      /\ ReadTree(ents)
  BY <1>1, StartIs DEF From, Contexts, ReadInv, BlocksRead, EvalBasic, EvalPhases
<1>3. ASSUME NEW b \in DOMAIN ents \ {Root}, b \in M, InBlock(ents, b)
      PROVE  FALSE
  <2>1. /\ ents[b].name \in BasicNames
        /\ ents[b].name \in {<<"log">>, <<"host">>} \/ ents[b].name = <<"file">>
    BY <1>3 DEF Children, InBlock
  <2> QED
    BY <2>1 DEF BasicNames
<1>4. ReadTree(d.ents)
  <2> HIDE DEF M
  <2> QED
    BY <1>2, <1>3, ReadTreeKept
<1> QED
  BY <1>1, <1>2, <1>4, MadeRead

LEMMA ServiceReads ==
  ASSUME ReadInv, EvalService
  PROVE  BlocksRead'
<1>1. ents \in Trees /\ ReadTree(ents) /\ Start.ents = ents /\ Start \in Contexts
  BY StartIs DEF ReadInv, TypeInv, ParseInv, ParseTypes, BlocksRead, EvalService, EvalPhases
<1>2. CASE Becomes(Start, "hosts")
  BY <1>1, <1>2, MadeRead
<1>3. ASSUME NEW e \in DOMAIN ents, NEW d \in From(Start, ServiceMarks(Start, e)),
             FirstLeft("service", e), Becomes(d, "services")
      PROVE  BlocksRead'
  <2> DEFINE M == ServiceMarks(Start, e)
  <2>1. /\ d \in Contexts /\ d.ents \in Trees /\ Marked(ents, d.ents, M)
        /\ M = {e} \cup Children(ents, e, ServiceKeys)
    BY <1>1 DEF From, Contexts, ServiceMarks
  <2>2. /\ ents[e].parent = Root /\ ents[e].name = <<"service">> /\ e # Root
    BY <1>1, <1>3, TreeFacts DEF FirstLeft
  <2>3. ASSUME NEW b \in DOMAIN ents \ {Root}, b \in M, InBlock(ents, b)
        PROVE  FALSE
    <3>1. CASE b = e
      BY <2>2, <2>3, <3>1 DEF InBlock
    <3>2. CASE b \in Children(ents, e, ServiceKeys)
      <4>1. ents[b].parent = e /\ ents[b].name \in ServiceKeys
        BY <3>2 DEF Children
      <4> QED
        BY <2>2, <2>3, <4>1 DEF InBlock, ServiceKeys
    <3> QED
      BY <2>1, <2>3, <3>1, <3>2
  <2> HIDE DEF M
  <2>4. ReadTree(d.ents)
    BY <1>1, <2>1, <2>3, ReadTreeKept
  <2> QED
    BY <1>3, <2>1, <2>4, MadeRead
<1> QED
  BY <1>2, <1>3, ServiceStep DEF ReadInv

LEMMA HostReads ==
  ASSUME ReadInv, EvalHost
  PROVE  BlocksRead'
<1>1. ents \in Trees /\ ReadTree(ents) /\ Start.ents = ents /\ Start \in Contexts
  BY StartIs DEF ReadInv, TypeInv, ParseInv, ParseTypes, BlocksRead, EvalHost, EvalPhases
<1>2. CASE Becomes(Start, "check")
  BY <1>1, <1>2, MadeRead
<1>3. ASSUME NEW e \in DOMAIN ents, NEW d \in Contexts,
             FirstLeft("host", e), Becomes(d, "hosts"), HostRead(Start, d, e)
      PROVE  BlocksRead'
  <2> DEFINE M == HostMarks(Start, e)
  <2>1. /\ d.ents \in Trees /\ Marked(ents, d.ents, M)
        /\ d.status = "running" => EntryRead(d, e) /\ NewFilesRead(Start, d, e)
        /\ DOMAIN d.ents = DOMAIN ents
    BY <1>1, <1>3 DEF HostRead, Contexts, Marked
  <2>2. /\ ents[e].parent = Root /\ ents[e].name = <<"host">> /\ e # Root
    BY <1>1, <1>3, TreeFacts DEF FirstLeft
  <2>3. ASSUME d.status = "running",
               NEW b \in DOMAIN ents \ {Root}, b \in M, InBlock(ents, b),
               ~ents[b].processed, d.ents[b].processed
        PROVE  AllRead(d.ents, b)
    <3>1. CASE b = e
      BY <2>1, <2>3, <3>1 DEF EntryRead, AllRead
    <3>2. CASE b \in Children(ents, e, HostNames)
      <4>1. ents[b].parent = e /\ ents[b].name \in HostNames
        BY <3>2 DEF Children
      <4>2. ents[b].name # <<"file">>
        BY <4>1 DEF HostNames, HostKeys
      <4> QED
        BY <2>2, <2>3, <4>1, <4>2 DEF InBlock
    <3>3. CASE b \in Children(ents, e, {<<"file">>})
      <4>1. EntryRead(d, b)
        BY <1>1, <2>1, <2>3, <3>3 DEF NewFilesRead
      <4> QED
        BY <4>1 DEF EntryRead, AllRead
    <3>4. ASSUME NEW f \in Children(ents, e, {<<"file">>}), b \in Children(ents, f, FileKeys)
          PROVE  FALSE
      <4>1. /\ f \in DOMAIN ents /\ ents[f].parent = e /\ ents[f].name = <<"file">>
            /\ ents[b].parent = f /\ ents[b].name \in FileKeys
        BY <3>4 DEF Children
      <4>2. f # Root
        BY <1>1, <2>2, <4>1, TreeFacts
      <4>3. ents[b].name # <<"file">>
        BY <4>1 DEF FileKeys
      <4> QED
        BY <2>3, <4>1, <4>2, <4>3 DEF InBlock
    <3> QED
      BY <1>1, <2>3, <3>1, <3>2, <3>3, <3>4 DEF HostMarks, FileMarks
  <2> HIDE DEF M
  <2>4. d.status = "running" => ReadTree(d.ents)
    BY <1>1, <2>1, <2>3, ReadTreeKept
  <2> QED
    BY <1>3, <2>1, <2>4, MadeRead
<1> QED
  BY <1>2, <1>3, HostStep DEF ReadInv

LEMMA CheckReads ==
  ASSUME ReadInv, EvalCheck
  PROVE  BlocksRead' /\ AcceptedRead'
<1>1. PICK d \in From(Start, {}) \cap Keeping(Start) :
           /\ Becomes(d, "accepted")
           /\ d.ents = ents
           /\ d.status = "running" => \A e \in DOMAIN ents : ents[e].parent = Root => ents[e].processed
  BY CheckStep DEF ReadInv
<1>2. ReadTree(ents) /\ d \in Contexts
  BY DEF ReadInv, BlocksRead, EvalCheck, EvalPhases, From
<1>3. BlocksRead'
  BY <1>1, <1>2, MadeRead
<1>4. ents' = ents /\ phase' = (IF d.status = "running" THEN "accepted" ELSE d.status)
      /\ d.status \in Statuses
  BY <1>1, <1>2 DEF Becomes, Contexts
<1> QED
  BY <1>1, <1>3, <1>4 DEF AcceptedRead, Statuses

LEMMA ParseReads ==
  ASSUME TypeInv', ReadInv, ParseStep
  PROVE  BlocksRead' /\ AcceptedRead'
<1>1. Parsing /\ \A e \in DOMAIN ents : ~ents[e].processed
  BY DEF ReadInv, TypeInv, ParseInv, Stack, Parsing, ParseStep, EndBlock, NewEntry, EndStatement,
         OpenBlock, Separator, Value, TooManyValues
<1>2. CASE EndBlock
  <2>1. PICK sub : ents' = [ents EXCEPT ![Last(open)].sub = sub]
    BY <1>2 DEF EndBlock
  <2>2. DOMAIN ents' = DOMAIN ents /\ \A e \in DOMAIN ents : ents'[e].processed = ents[e].processed
    <3>1. \A e \in DOMAIN ents : ents[e] \in Entries
      BY TreeFacts DEF ReadInv, TypeInv, ParseInv, ParseTypes
    <3> QED
      BY <2>1, <3>1 DEF Entries
  <2>3. \A e \in DOMAIN ents' : ~ents'[e].processed
    BY <1>1, <2>2
  <2>4. phase' # "accepted"
    BY <1>2 DEF EndBlock
  <2> QED
    BY <2>3, <2>4, TreeFacts DEF BlocksRead, AcceptedRead, ReadTree
<1>3. CASE ~EndBlock
  <2>1. phase' \in {"name", "values", "exited"}
    BY <1>1, <1>3 DEF ParseStep, NewEntry, EndStatement, OpenBlock, Separator, Value, TooManyValues,
                      parseVars, Parsing
  <2> QED
    BY <2>1 DEF BlocksRead, AcceptedRead, EvalPhases
<1> QED
  BY <1>2, <1>3

LEMMA EvalNotAccepted ==
  ASSUME TypeInv, EvalLog \/ EvalBasic \/ EvalService \/ EvalHost
  PROVE  phase' # "accepted"
<1>1. \E d \in Contexts, next \in EvalPhases : Becomes(d, next)
  BY LogStep, BasicStep, ServiceStep, HostStep, StartIs DEF LogIs, From, EvalPhases
<1> QED
  BY <1>1 DEF Becomes, EvalPhases, Contexts, Statuses

LEMMA StepReads ==
  ASSUME ReadInv, TypeInv', [Next]_vars
  PROVE  ReadInv'
<1>1. CASE UNCHANGED vars
  BY <1>1 DEF vars, parseVars, ReadInv, BlocksRead, AcceptedRead
<1>2. CASE ParseStep
  BY <1>2, ParseReads DEF ReadInv
<1>3. CASE EvalLog \/ EvalBasic \/ EvalService \/ EvalHost
  <2>1. BlocksRead'
    BY <1>3, LogReads, BasicReads, ServiceReads, HostReads
  <2>2. AcceptedRead'
    BY <1>3, EvalNotAccepted DEF ReadInv, AcceptedRead
  <2> QED
    BY <2>1, <2>2 DEF ReadInv
<1>4. CASE EvalCheck
  BY <1>4, CheckReads DEF ReadInv
<1> QED
  BY <1>1, <1>2, <1>3, <1>4 DEF Next, Step, Done

LEMMA AlwaysRead == Spec => []ReadInv
<1>1. Init => ReadInv
  BY InitTypes DEF Init, ParseInit, ReadInv, BlocksRead, AcceptedRead, EvalPhases
<1>2. ReadInv /\ TypeInv' /\ [Next]_vars => ReadInv'
  BY StepReads
<1> QED
  BY <1>1, <1>2, Types, PTL DEF Spec

(* In an accepted file no statement of the file, of the log block, of a    *)
(* host's or a host's file's block was passed over: what no handler has    *)
(* asked for ends the daemon (i_assure_no_entry), in every block that ends *)
(* with that check.                                                        *)
THEOREM NothingIsIgnored == Spec => []NothingIgnored
<1>1. ASSUME ReadInv PROVE NothingIgnored
  <2> SUFFICES ASSUME phase = "accepted", NEW e \in DOMAIN ents \ {Root}, BlockRead(ents[e].parent)
               PROVE  ents[e].processed
    BY DEF NothingIgnored
  <2>1. /\ ents \in Trees /\ ReadTree(ents)
        /\ \A g \in DOMAIN ents : ents[g].parent = Root => ents[g].processed
    BY <1>1 DEF ReadInv, TypeInv, ParseInv, ParseTypes, BlocksRead, AcceptedRead
  <2> DEFINE b == ents[e].parent
  <2>2. b \in DOMAIN ents
    BY <2>1, TreeFacts
  <2>3. CASE b = Root
    BY <2>1, <2>3
  <2>4. ASSUME NEW g \in DOMAIN ents, g # Root, InBlock(ents, g), ents[g].processed,
               NEW x \in DOMAIN ents, ents[x].parent = g
        PROVE  ents[x].processed
    BY <2>1, <2>4 DEF ReadTree, AllRead
  <2>5. CASE b # Root /\ ents[b].parent = Root /\ ents[b].name \in {<<"log">>, <<"host">>}
    <3>1. InBlock(ents, b) /\ ents[b].processed
      BY <2>1, <2>2, <2>5 DEF InBlock
    <3> QED
      BY <2>2, <2>4, <2>5, <3>1
  <2>6. CASE /\ b # Root /\ ents[b].name = <<"file">>
             /\ ents[ents[b].parent].name = <<"host">>
             /\ ents[ents[b].parent].parent = Root
    <3> DEFINE h == ents[b].parent
    <3>1. h \in DOMAIN ents /\ h # Root
      BY <2>1, <2>2, <2>6, TreeFacts
    <3>2. InBlock(ents, h) /\ ents[h].processed
      BY <2>1, <2>6, <3>1 DEF InBlock
    <3>3. ents[b].processed
      BY <2>2, <2>4, <3>1, <3>2
    <3>4. InBlock(ents, b)
      BY <2>6 DEF InBlock
    <3> QED
      BY <2>2, <2>4, <2>6, <3>3, <3>4
  <2> QED
    BY <2>3, <2>5, <2>6 DEF BlockRead
<1> QED
  BY <1>1, AlwaysRead, PTL

----------------------------------------------------------------------------
(* The host table: the statements read so far are the first ones, and the  *)
(* table has the first of each name.                                       *)
HostsOf(t) == Children(t, Root, {<<"host">>})

Won(hosts, e, name) == \E i \in DOMAIN hosts : hosts[i].name = name /\ hosts[i].entry <= e

(* Nothing of the blocks of the statements still to come has been read.    *)
Unread(t, e) == ~t[e].processed /\ \A g \in DOMAIN t : t[g].parent = e => ~t[g].processed

(* Without resolving the statement e may have been ignored.                *)
MayBeLost(t, e, resolve) ==
    /\ ~resolve
    /\ t[e].values[1] \notin EtherWords /\ Children(t, e, {<<"ether">>}) = {}

TableOK(t, hosts, resolve) ==
    /\ \A e \in HostsOf(t) : ~t[e].processed => Unread(t, e)
    /\ \A e, g \in HostsOf(t) : t[e].processed /\ ~t[g].processed => e < g
    /\ \A e \in HostsOf(t) : t[e].processed /\ Len(t[e].values) = 1 =>
          Won(hosts, e, t[e].values[1]) \/ MayBeLost(t, e, resolve)
    /\ \A i \in DOMAIN hosts : hosts[i].entry \in HostsOf(t) /\ t[hosts[i].entry].processed
    /\ \A i, j \in DOMAIN hosts : i < j => /\ hosts[i].name # hosts[j].name
                                           /\ hosts[i].entry < hosts[j].entry

NoHostsYet == conf.hosts = <<>> /\ \A e \in HostsOf(ents) : Unread(ents, e)

HostTableInv ==
    /\ phase \in {"name", "values"} => conf.hosts = <<>>
    /\ phase \in {"log", "basic", "services"} => NoHostsYet
    /\ phase \in {"hosts", "check", "accepted"} => TableOK(ents, conf.hosts, conf.set.resolve_ether)
    /\ phase \in {"check", "accepted"} => \A e \in HostsOf(ents) : ents[e].processed

TableInv == TypeInv /\ HostTableInv

(* The statement e is read: no other "host" statement is, nor what is in   *)
(* its block.                                                              *)
LEMMA HostMarksOne ==
  ASSUME TypeInv, NEW e \in HostsOf(ents), NEW g \in HostsOf(ents)
  PROVE  /\ g \in HostMarks(Start, e) => g = e
         /\ \A x \in HostMarks(Start, e) : ents[x].parent = g => g = e
<1>1. ents \in Trees /\ Start.ents = ents
  BY StartIs DEF TypeInv, ParseInv, ParseTypes
<1>2. /\ g \in DOMAIN ents /\ ents[g].parent = Root
      /\ e \in DOMAIN ents /\ ents[e].parent = Root /\ e # Root
  BY <1>1, TreeFacts DEF HostsOf, Children
<1>3. \A x \in HostMarks(Start, e) :
         \/ x = e
         \/ ents[x].parent = e
         \/ \E f \in Children(ents, e, {<<"file">>}) : ents[x].parent = f
  BY <1>1 DEF HostMarks, FileMarks, Children
<1>4. ASSUME NEW f \in Children(ents, e, {<<"file">>}) PROVE f # Root /\ ents[f].parent = e
  BY <1>1, <1>2, TreeFacts DEF Children
<1>5. e # Root /\ g # Root
  BY <1>1, <1>2, TreeFacts
<1> QED
  BY <1>2, <1>3, <1>4, <1>5

LEMMA TableGrows ==
  ASSUME TypeInv, TableOK(ents, conf.hosts, conf.set.resolve_ether),
         NEW e \in DOMAIN ents, FirstLeft("host", e),
         NEW d \in Contexts, HostRead(Start, d, e), d.status = "running"
  PROVE  TableOK(d.ents, d.hosts, d.set.resolve_ether)
<1> DEFINE M == HostMarks(Start, e)
           H == HostsOf(ents)
           u == d.ents
           old == conf.hosts
           new == d.hosts
           r == conf.set.resolve_ether
<1>1. /\ ents \in Trees /\ u \in Trees /\ Start.ents = ents /\ Start.hosts = old
      /\ Start.set = conf.set /\ d.set = conf.set /\ Marked(ents, u, M) /\ EntryRead(d, e)
  BY StartIs DEF TypeInv, ParseInv, ParseTypes, HostRead, Contexts
<1>2. /\ HostsOf(u) = H /\ H \subseteq DOMAIN ents
      /\ DOMAIN u = DOMAIN ents
      /\ \A g \in H : Children(u, g, {<<"ether">>}) = Children(ents, g, {<<"ether">>})
      /\ \A g \in DOMAIN ents : /\ u[g].values = ents[g].values /\ u[g].parent = ents[g].parent
                                /\ ents[g].processed => u[g].processed
                                /\ u[g].processed => ents[g].processed \/ g \in M
  BY <1>1, MarkedFacts DEF HostsOf, Children
<1>3. /\ e \in H /\ ~ents[e].processed /\ u[e].processed /\ e \in Nat
      /\ \A g \in H : ~ents[g].processed => e <= g
      /\ H \subseteq Nat
  <2>1. H \subseteq Nat
    BY <1>1, <1>2, TreeFacts
  <2> QED
    BY <1>1, <2>1 DEF FirstLeft, HostsOf, Children, EntryRead
<1>4. \A g \in H : u[g].processed <=> ents[g].processed \/ g = e
  BY <1>2, <1>3, HostMarksOne
<1>5. \A g, k \in H : u[g].processed /\ ~u[k].processed => g < k
  <2> SUFFICES ASSUME NEW g \in H, NEW k \in H, u[g].processed, ~u[k].processed PROVE g < k
    OBVIOUS
  <2>1. ~ents[k].processed /\ k # e /\ k \in Nat /\ g \in Nat
    BY <1>3, <1>4
  <2>2. CASE g = e
    BY <1>3, <2>1, <2>2
  <2>3. CASE ents[g].processed
    BY <2>1, <2>3 DEF TableOK
  <2> QED
    BY <1>4, <2>2, <2>3
<1>6. /\ \A i \in DOMAIN old : old[i].entry \in H /\ ents[old[i].entry].processed
                               /\ old[i].entry < e /\ u[old[i].entry].processed
      /\ \A i, j \in DOMAIN old : i < j => old[i].name # old[j].name /\ old[i].entry < old[j].entry
      /\ \A g \in H : ents[g].processed /\ Len(ents[g].values) = 1 =>
            Won(old, g, ents[g].values[1]) \/ MayBeLost(ents, g, r)
  BY <1>2, <1>3 DEF TableOK
<1>7. \A g \in H : ~u[g].processed => Unread(u, g)
  <2> SUFFICES ASSUME NEW g \in H, ~u[g].processed, NEW x \in DOMAIN u, u[x].parent = g
               PROVE  ~u[x].processed
    BY DEF Unread
  <2>1. g # e /\ Unread(ents, g)
    BY <1>4 DEF TableOK
  <2>2. x \notin M
    BY <1>2, <1>3, <2>1, HostMarksOne
  <2> QED
    BY <1>2, <2>1, <2>2 DEF Unread
<1>8. \A g \in H : MayBeLost(ents, g, r) => MayBeLost(u, g, r)
  BY <1>2 DEF MayBeLost
<1>9. Len(ents[e].values) = 1 /\ Addressless(Start, e) => MayBeLost(u, e, r)
  <2> SUFFICES ASSUME Addressless(Start, e) PROVE MayBeLost(u, e, r)
    OBVIOUS
  <2>1. Unread(ents, e)
    BY <1>3 DEF TableOK
  <2>2. Children(ents, e, {<<"ether">>}) = {}
    BY <1>1, <2>1 DEF Addressless, Unread, Children
  <2> QED
    BY <1>1, <1>2, <1>3, <2>2 DEF MayBeLost, Addressless
<1>10. old \in Seq(ListedHosts) /\ Len(old) \in Nat /\ DOMAIN old = 1 .. Len(old)
  BY LenProperties DEF TypeInv, ConfTypes
<1>11. CASE new = old /\ (Len(ents[e].values) = 1 => Addressless(Start, e))
  <2>1. ASSUME NEW g \in H, u[g].processed, Len(u[g].values) = 1
        PROVE  Won(new, g, u[g].values[1]) \/ MayBeLost(u, g, r)
    <3>1. CASE g = e
      BY <1>2, <1>3, <1>9, <1>11, <2>1, <3>1
    <3>2. CASE g # e
      BY <1>2, <1>4, <1>6, <1>8, <1>11, <2>1, <3>2
    <3> QED
      BY <3>1, <3>2
  <2> QED
    BY <1>1, <1>2, <1>5, <1>6, <1>7, <1>11, <2>1 DEF TableOK
<1>12. ASSUME NEW h \in ListedHosts, h.entry = e,
             Len(ents[e].values) = 1 => h.name = ents[e].values[1],
             new = AddToList(old, h)
      PROVE  TableOK(u, new, r)
  <2>1. CASE \E i \in DOMAIN old : old[i].name = h.name
    <3>1. PICK i \in DOMAIN old : old[i].name = h.name
      BY <2>1
    <3>2. new = old
      BY <1>12, <2>1 DEF AddToList, Range
    <3>3. Won(new, e, h.name)
      <4>1. old[i].entry \in Nat /\ old[i].entry < e
        BY <1>3, <1>6, <3>1
      <4>2. old[i].entry <= e
        BY <1>3, <4>1
      <4> QED
        BY <3>1, <3>2, <4>2 DEF Won
    <3>4. ASSUME NEW g \in H, u[g].processed, Len(u[g].values) = 1
          PROVE  Won(new, g, u[g].values[1]) \/ MayBeLost(u, g, r)
      BY <1>2, <1>3, <1>4, <1>6, <1>8, <1>12, <3>2, <3>3, <3>4
    <3> QED
      BY <1>2, <1>5, <1>6, <1>7, <3>2, <3>4 DEF TableOK
  <2>2. CASE ~ \E i \in DOMAIN old : old[i].name = h.name
    <3>1. new = Append(old, h)
      BY <1>12, <2>2 DEF AddToList, Range
    <3>2. /\ DOMAIN new = 1 .. Len(old) + 1
          /\ \A i \in DOMAIN old : new[i] = old[i] /\ i \in DOMAIN new
          /\ new[Len(old) + 1] = h /\ Len(old) + 1 \in DOMAIN new
    <4>1. Len(new) = Len(old) + 1 /\ new \in Seq(ListedHosts)
      BY <1>10, <3>1, AppendProperties
    <4> QED
      BY <1>10, <3>1, <4>1, AppendProperties
    <3>3. \A i \in DOMAIN new : i \in DOMAIN old \/ i = Len(old) + 1
      BY <1>10, <3>2
    <3>4. Won(new, e, h.name)
      BY <1>3, <1>12, <3>2 DEF Won
    <3>5. ASSUME NEW g \in H, u[g].processed, Len(u[g].values) = 1
          PROVE  Won(new, g, u[g].values[1]) \/ MayBeLost(u, g, r)
      <4>1. CASE g = e
        BY <1>2, <1>12, <3>4, <3>5, <4>1
      <4>2. CASE g # e
        <5>1. Won(old, g, u[g].values[1]) \/ MayBeLost(u, g, r)
          BY <1>2, <1>4, <1>6, <1>8, <3>5, <4>2
        <5> QED
          BY <3>2, <5>1 DEF Won
      <4> QED
        BY <4>1, <4>2
    <3>6. \A i \in DOMAIN new : new[i].entry \in H /\ u[new[i].entry].processed
      BY <1>3, <1>6, <1>12, <3>2, <3>3
    <3>7. ASSUME NEW i \in DOMAIN new, NEW j \in DOMAIN new, i < j
          PROVE  new[i].name # new[j].name /\ new[i].entry < new[j].entry
      <4>1. i \in DOMAIN old
        BY <1>10, <3>2, <3>7
      <4>2. CASE j \in DOMAIN old
        BY <1>6, <3>2, <3>7, <4>1, <4>2
      <4>3. CASE j = Len(old) + 1
        BY <1>6, <1>12, <2>2, <3>2, <4>1, <4>3
      <4> QED
        BY <3>3, <4>2, <4>3
    <3> QED
      BY <1>2, <1>5, <1>7, <3>5, <3>6, <3>7 DEF TableOK
  <2> QED
    BY <2>1, <2>2
<1> QED
  BY <1>1, <1>11, <1>12 DEF HostRead

(* Before the hosts are read: what a step marks is no "host" statement.    *)
Spared(e, M) == e \notin M /\ \A g \in M \cap DOMAIN ents : ents[g].parent # e

LEMMA NotYet ==
  ASSUME TypeInv, NoHostsYet, NEW M, NEW d \in From(Start, M),
         \A e \in HostsOf(ents) : Spared(e, M)
  PROVE  d.hosts = <<>> /\ \A e \in HostsOf(d.ents) : Unread(d.ents, e)
<1>1. /\ ents \in Trees /\ d.ents \in Trees /\ Marked(ents, d.ents, M) /\ d.hosts = conf.hosts
  BY StartIs DEF From, Contexts, TypeInv, ParseInv, ParseTypes
<1>2. /\ HostsOf(d.ents) = HostsOf(ents)
      /\ DOMAIN d.ents = DOMAIN ents
      /\ \A e \in DOMAIN ents : /\ d.ents[e].processed => ents[e].processed \/ e \in M
                                /\ d.ents[e].parent = ents[e].parent
  BY <1>1, MarkedFacts DEF HostsOf
<1>3. \A e \in HostsOf(ents) : e \in DOMAIN ents /\ Unread(ents, e)
  BY DEF NoHostsYet, HostsOf, Children
<1>4. d.hosts = <<>>
  BY <1>1 DEF NoHostsYet
<1> QED
  BY <1>2, <1>3, <1>4 DEF Spared, Unread

LEMMA MadeTable ==
  ASSUME NEW d \in Contexts, NEW next, Becomes(d, next)
  PROVE  /\ ents' = d.ents /\ conf'.hosts = d.hosts /\ conf'.set = d.set
         /\ d.status # "running" => phase' \in {"exited", "killed", "undefined"}
         /\ d.status = "running" => phase' = next
BY DEF Becomes, Contexts, Statuses

LEMMA EarlyTable ==
  ASSUME TypeInv, NoHostsYet, NEW M, NEW d \in From(Start, M), NEW next \in {"basic", "services"},
         Becomes(d, next), \A e \in HostsOf(ents) : Spared(e, M)
  PROVE  HostTableInv'
<1>1. d \in Contexts
  BY DEF From
<1>2. NoHostsYet'
  BY <1>1, NotYet, MadeTable DEF NoHostsYet
<1> QED
  BY <1>1, <1>2, MadeTable DEF HostTableInv

LEMMA LogTable ==
  ASSUME TableInv, EvalLog
  PROVE  HostTableInv'
<1>1. PICK d, M : LogIs(Start, d, M) /\ Becomes(d, "basic")
  BY LogStep DEF TableInv
<1>2. d \in From(Start, M) /\ d \in Contexts /\ Start.ents = ents /\ ents \in Trees
      /\ NoHostsYet /\ TypeInv
  BY <1>1, StartIs DEF LogIs, From, TableInv, HostTableInv, EvalLog, TypeInv, ParseInv, ParseTypes
<1>3. CASE d.status # "running"
  BY <1>1, <1>2, <1>3, MadeTable DEF HostTableInv
<1>4. CASE d.status = "running" /\ d.ents = ents
  <2>1. NoHostsYet'
    BY <1>1, <1>2, <1>4, MadeTable, StartIs DEF NoHostsYet, From
  <2> QED
    BY <1>1, <1>2, <1>4, <2>1, MadeTable DEF HostTableInv
<1>5. ASSUME NEW e \in DOMAIN ents, ents[e].parent = Root, ents[e].name = <<"log">>,
             M = {e} \cup Children(ents, e, LogKeys)
      PROVE  HostTableInv'
  <2>1. ASSUME NEW g \in HostsOf(ents) PROVE Spared(g, M)
    <3>1. g \in DOMAIN ents /\ ents[g].parent = Root /\ ents[g].name = <<"host">>
      BY DEF HostsOf, Children
    <3>2. g # e
      BY <1>5, <3>1
    <3>3. e # Root
      BY <1>2, <1>5, TreeFacts
    <3>4. g # Root
      BY <1>2, <3>1, TreeFacts
    <3> QED
      BY <1>5, <3>1, <3>2, <3>3, <3>4 DEF Children, Spared
  <2> QED
    BY <1>1, <1>2, <2>1, EarlyTable
<1> QED
  BY <1>1, <1>2, <1>3, <1>4, <1>5 DEF LogIs

LEMMA BasicTable ==
  ASSUME TableInv, EvalBasic
  PROVE  HostTableInv'
<1>1. PICK d \in From(Start, Children(ents, Root, BasicNames)) : Becomes(d, "services")
  BY BasicStep DEF TableInv
<1>2. NoHostsYet /\ TypeInv /\ ents \in Trees
  BY DEF TableInv, HostTableInv, EvalBasic, TypeInv, ParseInv, ParseTypes
<1>3. ASSUME NEW g \in HostsOf(ents) PROVE Spared(g, Children(ents, Root, BasicNames))
  <2>1. g \in DOMAIN ents /\ ents[g].parent = Root /\ ents[g].name = <<"host">>
    BY DEF HostsOf, Children
  <2>2. g # Root
    BY <1>2, <2>1, TreeFacts
  <2> QED
    BY <2>1, <2>2 DEF Spared, Children, BasicNames
<1> QED
  BY <1>1, <1>2, <1>3, EarlyTable

LEMMA ServiceTable ==
  ASSUME TableInv, EvalService
  PROVE  HostTableInv'
<1>1. /\ NoHostsYet /\ TypeInv /\ Start.ents = ents /\ Start \in Contexts /\ ents \in Trees
      /\ Start.hosts = conf.hosts /\ Start.status = "running"
  BY StartIs DEF TableInv, HostTableInv, EvalService, TypeInv, ParseInv, ParseTypes
<1>2. CASE Becomes(Start, "hosts")
  <2>1. ents' = ents /\ conf'.hosts = conf.hosts /\ phase' = "hosts"
    BY <1>1, <1>2, MadeTable
  <2>2. NoHostsYet'
    BY <1>1, <2>1 DEF NoHostsYet
  <2>3. TableOK(ents', conf'.hosts, conf'.set.resolve_ether)
    <3>1. DOMAIN conf'.hosts = {}
      BY <2>2 DEF NoHostsYet
    <3> QED
      BY <2>2, <3>1 DEF NoHostsYet, TableOK, Unread
  <2> QED
    BY <2>1, <2>3 DEF HostTableInv
<1>3. ASSUME NEW e \in DOMAIN ents, NEW d \in From(Start, ServiceMarks(Start, e)),
             FirstLeft("service", e), Becomes(d, "services")
      PROVE  HostTableInv'
  <2>1. ASSUME NEW g \in HostsOf(ents) PROVE Spared(g, ServiceMarks(Start, e))
    <3>1. g \in DOMAIN ents /\ ents[g].parent = Root /\ ents[g].name = <<"host">>
      BY DEF HostsOf, Children
    <3>2. g # e
      BY <1>3, <3>1 DEF FirstLeft
    <3>3. e # Root /\ ents[e].parent = Root /\ g # Root
      BY <1>1, <1>3, <3>1, TreeFacts DEF FirstLeft
    <3> QED
      BY <1>1, <3>1, <3>2, <3>3 DEF Children, ServiceMarks, Spared
  <2> QED
    BY <1>1, <1>3, <2>1, EarlyTable
<1> QED
  BY <1>1, <1>2, <1>3, ServiceStep

LEMMA HostsTable ==
  ASSUME TableInv, EvalHost
  PROVE  HostTableInv'
<1>1. /\ TableOK(ents, conf.hosts, conf.set.resolve_ether) /\ TypeInv /\ Start.ents = ents
      /\ Start \in Contexts /\ Start.hosts = conf.hosts /\ Start.set = conf.set
      /\ Start.status = "running"
  BY StartIs DEF TableInv, HostTableInv, EvalHost
<1>2. CASE NoneOf("host") /\ Becomes(Start, "check")
  <2>1. ents' = ents /\ conf'.hosts = conf.hosts /\ conf'.set = conf.set /\ phase' = "check"
    BY <1>1, <1>2, MadeTable
  <2> QED
    BY <1>1, <1>2, <2>1 DEF HostTableInv, NoneOf, HostsOf
<1>3. ASSUME NEW e \in DOMAIN ents, NEW d \in Contexts,
             FirstLeft("host", e), Becomes(d, "hosts"), HostRead(Start, d, e)
      PROVE  HostTableInv'
  <2>1. CASE d.status = "running"
    <3>1. TableOK(d.ents, d.hosts, d.set.resolve_ether)
      BY <1>1, <1>3, <2>1, TableGrows
    <3> QED
      BY <1>3, <2>1, <3>1, MadeTable DEF HostTableInv
  <2>2. CASE d.status # "running"
    BY <1>3, <2>2, MadeTable DEF HostTableInv
  <2> QED
    BY <2>1, <2>2
<1> QED
  BY <1>1, <1>2, <1>3, HostStep

LEMMA CheckTable ==
  ASSUME TableInv, EvalCheck
  PROVE  HostTableInv'
<1>1. PICK d \in From(Start, {}) \cap Keeping(Start) : Becomes(d, "accepted") /\ d.ents = ents
  BY CheckStep DEF TableInv
<1>2. /\ TableOK(ents, conf.hosts, conf.set.resolve_ether)
      /\ \A e \in HostsOf(ents) : ents[e].processed
      /\ d \in Contexts /\ d.hosts = conf.hosts /\ d.set = conf.set
  BY StartIs DEF TableInv, HostTableInv, EvalCheck, From, Keeping
<1> QED
  BY <1>1, <1>2, MadeTable DEF HostTableInv

LEMMA ParseTable ==
  ASSUME TypeInv', TableInv, ParseStep, UNCHANGED conf
  PROVE  HostTableInv'
<1>1. Parsing /\ \A e \in DOMAIN ents : ~ents[e].processed
  BY DEF TableInv, TypeInv, ParseInv, Stack, Parsing, ParseStep, EndBlock, NewEntry, EndStatement,
         OpenBlock, Separator, Value, TooManyValues
<1>2. conf'.hosts = <<>>
  BY <1>1 DEF TableInv, HostTableInv, Parsing
<1>3. CASE EndBlock
  <2>1. PICK sub : ents' = [ents EXCEPT ![Last(open)].sub = sub]
    BY <1>3 DEF EndBlock
  <2>2. DOMAIN ents' = DOMAIN ents /\ \A e \in DOMAIN ents : ents'[e].processed = ents[e].processed
    <3>1. \A e \in DOMAIN ents : ents[e] \in Entries
      BY TreeFacts DEF TableInv, TypeInv, ParseInv, ParseTypes
    <3> QED
      BY <2>1, <3>1 DEF Entries
  <2>3. \A e \in HostsOf(ents') : Unread(ents', e)
    BY <1>1, <2>2 DEF HostsOf, Children, Unread
  <2>4. phase' \in {"name", "log"}
    BY <1>3 DEF EndBlock
  <2> QED
    BY <1>2, <2>3, <2>4 DEF HostTableInv, NoHostsYet
<1>4. CASE ~EndBlock
  <2>1. phase' \in {"name", "values", "exited"}
    BY <1>1, <1>4 DEF ParseStep, NewEntry, EndStatement, OpenBlock, Separator, Value, TooManyValues,
                      parseVars, Parsing
  <2> QED
    BY <1>2, <2>1 DEF HostTableInv
<1> QED
  BY <1>3, <1>4

LEMMA StepTable ==
  ASSUME TableInv, TypeInv', [Next]_vars
  PROVE  TableInv'
<1>1. CASE UNCHANGED vars
  BY <1>1 DEF vars, parseVars, TableInv, HostTableInv, NoHostsYet
<1>2. CASE ParseStep /\ UNCHANGED conf
  BY <1>2, ParseTable DEF TableInv
<1>3. CASE Eval
  BY <1>3, LogTable, BasicTable, ServiceTable, HostsTable, CheckTable DEF Eval, TableInv
<1> QED
  BY <1>1, <1>2, <1>3 DEF Next, Step, Done, Eval

LEMMA AlwaysTable == Spec => []TableInv
<1>1. Init => TableInv
  BY InitTypes DEF Init, ParseInit, TableInv, HostTableInv, Defaults
<1>2. TableInv /\ TypeInv' /\ [Next]_vars => TableInv'
  BY StepTable
<1> QED
  BY <1>1, <1>2, Types, PTL DEF Spec

(* Of several "host" statements with one name the first is in the table    *)
(* (host_add ignores the others), the table has the order of the file, and *)
(* no named host is lost, unless ethernet addresses are not resolved and   *)
(* its statement gives none.                                               *)
THEOREM FirstWins == Spec => []FirstStatementWins
<1>1. ASSUME TableInv PROVE FirstStatementWins
  <2> SUFFICES ASSUME phase = "accepted"
               PROVE  /\ \A e \in HostStatements :
                            \/ \E h \in Range(conf.hosts) :
                                  h.name = ents[e].values[1] /\ h.entry <= e
                            \/ ~conf.set.resolve_ether /\ EtherUnsaid(e)
                      /\ \A i, j \in DOMAIN conf.hosts : i < j =>
                            /\ conf.hosts[i].name # conf.hosts[j].name
                            /\ conf.hosts[i].entry < conf.hosts[j].entry
    BY DEF FirstStatementWins
  <2>1. /\ TableOK(ents, conf.hosts, conf.set.resolve_ether)
        /\ \A e \in HostsOf(ents) : ents[e].processed
    BY <1>1 DEF TableInv, HostTableInv
  <2>2. ASSUME NEW e \in HostStatements
        PROVE  \/ \E h \in Range(conf.hosts) : h.name = ents[e].values[1] /\ h.entry <= e
               \/ ~conf.set.resolve_ether /\ EtherUnsaid(e)
    <3>1. e \in HostsOf(ents) /\ Len(ents[e].values) = 1
      BY DEF HostStatements, HostsOf, Children
    <3>2. \/ Won(conf.hosts, e, ents[e].values[1])
          \/ MayBeLost(ents, e, conf.set.resolve_ether)
      BY <2>1, <3>1 DEF TableOK
    <3>3. MayBeLost(ents, e, conf.set.resolve_ether) =>
             ~conf.set.resolve_ether /\ EtherUnsaid(e)
      BY DEF MayBeLost, EtherUnsaid, Children
    <3> QED
      BY <3>2, <3>3 DEF Won, Range
  <2> QED
    BY <2>1, <2>2 DEF TableOK
<1> QED
  BY <1>1, AlwaysTable, PTL

(* Of the texts' tokens there are no more than when its end is reached.    *)
LEMMA LexedLongest ==
  ASSUME NEW s \in Tokens, NEW a, NEW b, NEW p, Lexed(s, a, Len(s) + 1), Lexed(s, b, p)
  PROVE  Len(b) <= Len(a)
<1>1. PICK at, bt : LexedAt(s, a, at, Len(s) + 1) /\ LexedAt(s, b, bt, p)
  BY DEF Lexed
<1>2. Len(a) \in Nat /\ Len(b) \in Nat /\ Len(s) \in Nat
  BY LenProperties DEF Lexed, Tokens
<1> SUFFICES ASSUME Len(a) < Len(b) PROVE FALSE
  BY <1>2
<1> DEFINE n == Len(a) + 1
           P == {i \in 1 .. n : at[i] = bt[i]}
<1>3. 1 \in P
  BY <1>1, <1>2 DEF LexedAt
<1>4. ASSUME NEW i \in 1 + 1 .. n, i - 1 \in P PROVE i \in P
  <2>1. i - 1 \in 1 .. Len(a) /\ i - 1 \in 1 .. Len(b) /\ (i - 1) + 1 = i /\ i \in 1 .. n
    BY <1>2
  <2>2. Lex(s, at[i - 1]).next = at[i] /\ Lex(s, bt[i - 1]).next = bt[i]
    BY <1>1, <2>1 DEF LexedAt
  <2> QED
    BY <1>4, <2>1, <2>2
<1>5. \A i \in 1 .. n : i \in P
  <2>1. 1 \in Int /\ n \in Int
    BY <1>2
  <2> HIDE DEF P, n
  <2> QED
    BY <1>3, <1>4, <2>1, Upwards
<1>6. at[n] = bt[n]
  BY <1>2, <1>5
<1>7. Lex(s, bt[n]).next = bt[n + 1] /\ bt[n + 1] \in 1 .. Len(s) + 1
  <2>1. n \in 1 .. Len(b) /\ n + 1 \in 1 .. Len(b) + 1
    BY <1>2
  <2> QED
    BY <1>1, <2>1 DEF LexedAt
<1>8. Lex(s, at[n]).next = 0
  <2>1. at[n] \in 1 .. Len(s) + 1
    BY <1>1, <1>2 DEF LexedAt
  <2>2. at[n] = Len(s) + 1 => Lex(s, at[n]).next = 0
    BY <2>1, LexFacts
  <2> QED
    BY <1>1, <2>2 DEF LexedAt
<1> QED
  BY <1>2, <1>6, <1>7, <1>8

----------------------------------------------------------------------------
(* The number of steps.                                                    *)
Over == Queue(z) = <<>> /\ z.pos = Len(text) + 1

LEMMA TakenFew ==
  ASSUME NEW s \in Tokens, NEW r, RingOK(s, r), NEW toks \in Seq(Tokens),
         Lexed(s, toks \o Queue(r), r.pos)
  PROVE  Len(toks) \in Nat /\ Len(s) \in Nat /\ Len(toks) <= Len(s)
<1>1. Queue(r) \in Seq(Tokens) /\ Len(Queue(r)) \in Nat
  BY QueueIs, LenProperties
<1>2. Len(toks \o Queue(r)) \in 0 .. Len(s)
  BY LexedBound
<1>3. Len(toks \o Queue(r)) = Len(toks) + Len(Queue(r))
  BY <1>1, ConcatProperties
<1> QED
  BY <1>1, <1>2, <1>3, LenProperties DEF Tokens

LEMMA TakenBound ==
  ASSUME TypeInv
  PROVE  Len(taken) \in Nat /\ Len(text) \in Nat /\ Len(taken) <= Len(text)
BY TakenFew DEF TypeInv, ParseInv, ParseTypes

(* At the end of the text there are no more tokens, now or later.          *)
LEMMA AtTheEnd ==
  ASSUME TypeInv, NEW held \in Tokens, Advance(held), text' = text
  PROVE  /\ Upcoming = NoToken => Over'
         /\ Over => Upcoming = NoToken
<1> DEFINE next == gen_tokenize_next(text, z)
<1>1. text \in Tokens /\ RingOK(text, z) /\ taken \in Seq(Tokens)
      /\ Lexed(text, taken \o Queue(z), z.pos)
  BY DEF TypeInv, ParseInv, ParseTypes
<1>2. /\ RingOK(text, next.z)
      /\ next.w = NoToken => Queue(next.z) = <<>> /\ next.z.pos = Len(text) + 1
      /\ next.w # NoToken => /\ next.w \in Tokens /\ Append(taken, next.w) \in Seq(Tokens)
                             /\ Lexed(text, Append(taken, next.w) \o Queue(next.z), next.z.pos)
  BY <1>1, NextIs
<1>3. z' = next.z /\ Upcoming = next.w
  BY DEF Advance, Upcoming
<1> HIDE DEF next
<1>4. ASSUME Over, next.w # NoToken PROVE FALSE
  <2>1. Lexed(text, taken, Len(text) + 1)
    BY <1>1, <1>4, ConcatEmptySeq DEF Over
  <2>2. Len(Append(taken, next.w) \o Queue(next.z)) <= Len(taken)
    BY <1>1, <1>2, <1>4, <2>1, LexedLongest
  <2>3. /\ Queue(next.z) \in Seq(Tokens) /\ Len(Queue(next.z)) \in Nat
        /\ Len(Append(taken, next.w)) = Len(taken) + 1 /\ Len(taken) \in Nat
    BY <1>1, <1>2, <1>4, QueueIs, LenProperties, AppendProperties
  <2>4. Len(Append(taken, next.w) \o Queue(next.z)) = Len(taken) + 1 + Len(Queue(next.z))
    BY <1>2, <1>4, <2>3, ConcatProperties
  <2> QED
    BY <2>2, <2>3, <2>4
<1>5. next.w = NoToken => Over'
  BY <1>2, <1>3 DEF Over
<1> QED
  BY <1>2, <1>3, <1>4, <1>5 DEF Over

Marks(t) == {e \in DOMAIN t : t[e].processed}

LEMMA MarksBound ==
  ASSUME NEW t \in Trees
  PROVE  /\ IsFiniteSet(Marks(t)) /\ Cardinality(Marks(t)) \in Nat
         /\ Root \notin Marks(t) => Cardinality(Marks(t)) <= Len(t) - 1
<1>1. DOMAIN t = 1 .. Len(t) /\ Len(t) \in Nat \ {0} /\ Root = 1
  BY TreeFacts
<1>2. IsFiniteSet(1 .. Len(t)) /\ Cardinality(1 .. Len(t)) = Len(t)
  BY <1>1, FS_Interval
<1>3. IsFiniteSet(Marks(t)) /\ Cardinality(Marks(t)) \in Nat
  BY <1>1, <1>2, FS_Subset, FS_CardinalityType DEF Marks
<1>4. ASSUME Root \notin Marks(t) PROVE Cardinality(Marks(t)) <= Len(t) - 1
  <2>1. Marks(t) \subseteq 2 .. Len(t)
    BY <1>1, <1>4 DEF Marks
  <2>2. IsFiniteSet(2 .. Len(t)) /\ Cardinality(2 .. Len(t)) = Len(t) - 1
    BY <1>1, FS_Interval
  <2> QED
    BY <2>1, <2>2, FS_Subset
<1> QED
  BY <1>3, <1>4

LEMMA MarksGrow ==
  ASSUME NEW t \in Trees, NEW u \in Trees, NEW M, Marked(t, u, M), Root \notin M
  PROVE  /\ Cardinality(Marks(t)) <= Cardinality(Marks(u))
         /\ Root \notin Marks(t) => Root \notin Marks(u)
         /\ \A e \in DOMAIN t : ~t[e].processed /\ u[e].processed =>
               Cardinality(Marks(t)) + 1 <= Cardinality(Marks(u))
<1>1. /\ DOMAIN u = DOMAIN t
      /\ \A e \in DOMAIN t : /\ t[e].processed => u[e].processed
                             /\ u[e].processed => t[e].processed \/ e \in M
  BY MarkedFacts
<1>2. Marks(t) \subseteq Marks(u)
  BY <1>1 DEF Marks
<1>3. IsFiniteSet(Marks(t)) /\ IsFiniteSet(Marks(u)) /\ Cardinality(Marks(t)) \in Nat
      /\ Cardinality(Marks(u)) \in Nat
  BY MarksBound
<1>4. Cardinality(Marks(t)) <= Cardinality(Marks(u))
  BY <1>2, <1>3, FS_Subset
<1>5. ASSUME NEW e \in DOMAIN t, ~t[e].processed, u[e].processed
      PROVE  Cardinality(Marks(t)) + 1 <= Cardinality(Marks(u))
  <2>1. e \notin Marks(t) /\ Marks(t) \cup {e} \subseteq Marks(u)
    BY <1>1, <1>2, <1>5 DEF Marks
  <2>2. IsFiniteSet(Marks(t) \cup {e}) /\ Cardinality(Marks(t) \cup {e}) = Cardinality(Marks(t)) + 1
    BY <1>3, <2>1, FS_AddElement
  <2> QED
    BY <1>3, <2>1, <2>2, FS_Subset
<1> QED
  BY <1>1, <1>4, <1>5 DEF Marks

Rank == CASE phase = "log" -> 0
          [] phase = "basic" -> 1
          [] phase = "services" -> 2
          [] phase = "hosts" -> 3
          [] phase = "check" -> 4
          [] OTHER -> 0

(* A token taken allows for three steps: one that takes it, one that ends  *)
(* the statement or opens a block, one that ends the block.  At the end of *)
(* the text the last word is a value again and again, until there are too  *)
(* many.                                                                   *)
NameTime == steps + Len(open) <= 3 * Len(taken) + 1

ValuesTime ==
    \/ steps + Len(open) + 2 <= 3 * Len(taken) + 1
    \/ /\ Over /\ IsValue(word)
       /\ steps + Len(open) + 2 <= 3 * Len(taken) + 1 + Len(Last(ents).values)

EvalTime ==
    /\ Root \notin Marks(ents)
    /\ steps <= 3 * Len(text) + 1 + Rank + Cardinality(Marks(ents))

TimesOK ==
    /\ Len(ents) <= Len(taken) + 1
    /\ phase = "name" => NameTime
    /\ phase = "values" => ValuesTime
    /\ phase \in EvalPhases => EvalTime
    /\ phase \in Final => EndsInTime

TimeInv == TypeInv /\ TimesOK

LEMMA OpenLength ==
  ASSUME TypeInv, Parsing
  PROVE  Len(open) \in Nat \ {0} /\ Last(open) \in DOMAIN ents /\ open \in Seq(DOMAIN ents)
         /\ Len(Pop) = Len(open) - 1
<1>1. open \in Seq(DOMAIN ents) /\ open # <<>>
  BY DEF TypeInv, ParseInv, Stack
<1>2. Len(open) \in Nat \ {0}
  BY <1>1, EmptySeq, LenProperties
<1>3. open[Len(open)] \in DOMAIN ents
  BY <1>1, <1>2, ElementOfSeq
<1>4. Len(SubSeq(open, 1, Len(open) - 1)) = Len(open) - 1
  <2>1. PICK n : n = Len(open) - 1 /\ n \in 0 .. Len(open)
    BY <1>2
  <2>2. Len(SubSeq(open, 1, n)) = n
    BY <1>1, <1>2, <2>1, SubSeqProperties
  <2> QED
    BY <2>1, <2>2
<1> QED
  BY <1>1, <1>2, <1>3, <1>4 DEF Last, Pop, Front

LEMMA EndBlockTime ==
  ASSUME TimeInv, TypeInv', EndBlock, Count
  PROVE  TimesOK'
<1>1. /\ TypeInv /\ phase = "name" /\ Parsing /\ Advance(word) /\ open' = Pop
      /\ phase' = (IF open' = <<>> THEN "log" ELSE "name") /\ text' = text
      /\ NameTime /\ Len(ents) <= Len(taken) + 1
  BY DEF EndBlock, TimeInv, TimesOK, Parsing
<1>2. steps' = steps + 1 /\ steps \in Nat
  BY <1>1 DEF Count, AtSeparator, TypeInv
<1>3. word \in Tokens /\ ents \in Trees /\ taken \in Seq(Tokens)
  BY <1>1 DEF TypeInv, ParseInv, ParseTypes
<1>4. Len(taken) \in Nat /\ Len(taken') \in Nat /\ Len(taken) <= Len(taken')
      /\ Len(taken') <= Len(text)
  <2>1. taken' = taken \/ \E w \in Tokens : taken' = Append(taken, w)
    BY <1>1, <1>3, AdvanceTypes DEF TypeInv
  <2>2. /\ text' \in Tokens /\ RingOK(text', z') /\ taken' \in Seq(Tokens)
        /\ Lexed(text', taken' \o Queue(z'), z'.pos)
    BY DEF TypeInv, ParseInv, ParseTypes
  <2>3. Len(taken) \in Nat /\ Len(taken') \in Nat /\ Len(taken') <= Len(text')
    BY <1>1, <2>2, TakenBound, TakenFew
  <2>4. Len(taken) <= Len(taken')
    BY <1>3, <2>1, <2>3, AppendProperties
  <2> QED
    BY <1>1, <2>3, <2>4
<1>5. Len(open) \in Nat \ {0} /\ Len(open') = Len(open) - 1
  BY <1>1, OpenLength
<1>6. PICK sub : ents' = [ents EXCEPT ![Last(open)].sub = sub]
  BY DEF EndBlock
<1>7. /\ DOMAIN ents' = DOMAIN ents /\ Len(ents') = Len(ents)
      /\ \A e \in DOMAIN ents' : ~ents'[e].processed
  <2>1. DOMAIN ents' = DOMAIN ents
    BY <1>6
  <2>2. \A e \in DOMAIN ents : ents[e] \in Entries /\ ~ents[e].processed
    BY <1>1, <1>3, TreeFacts DEF TypeInv, ParseInv, Stack
  <2>3. \A e \in DOMAIN ents : ents'[e].processed = ents[e].processed
    BY <1>6, <2>2 DEF Entries
  <2>4. ents' \in Trees
    BY DEF TypeInv, ParseInv, ParseTypes
  <2> QED
    BY <1>3, <2>1, <2>2, <2>3, <2>4, TreeFacts
<1>8. CASE open' = <<>>
  <2>1. Len(open') = 0 /\ phase' = "log"
    BY <1>1, <1>8
  <2>2. steps' <= 3 * Len(text) + 1
    BY <1>1, <1>2, <1>4, <1>5, <2>1, TakenBound DEF NameTime
  <2>3. Marks(ents') = {} /\ Cardinality(Marks(ents')) = 0
    BY <1>7, FS_EmptySet DEF Marks
  <2>4. Rank' = 0
    BY <2>1 DEF Rank
  <2>5. EvalTime'
    BY <1>1, <1>4, <2>2, <2>3, <2>4, TakenBound DEF EvalTime
  <2> QED
    BY <1>1, <1>4, <1>7, <2>1, <2>5 DEF TimesOK, Final
<1>9. CASE open' # <<>>
  <2>1. NameTime'
    BY <1>1, <1>2, <1>4, <1>5 DEF NameTime
  <2> QED
    BY <1>1, <1>4, <1>7, <1>9, <2>1 DEF TimesOK, Final, EvalPhases
<1> QED
  BY <1>8, <1>9

LEMMA NewEntryTime ==
  ASSUME TimeInv, TypeInv', NewEntry, Count
  PROVE  TimesOK'
<1>1. PICK first : first = gen_tokenize_next(text, z)
  OBVIOUS
<1>2. PICK second : second = gen_tokenize_next(text, first.z)
  OBVIOUS
<1>3. /\ Len(taken') \in {Len(taken) + 1, Len(taken) + 2}
      /\ ents' = Append(ents, Entry(first.w, Last(open)))
  BY <1>1, <1>2, NewEntryTypes DEF TimeInv, TypeInv
<1>4. /\ TypeInv /\ phase = "name" /\ phase' = "values" /\ open' = open
      /\ NameTime /\ Len(ents) <= Len(taken) + 1 /\ Parsing
  BY DEF NewEntry, TimeInv, TimesOK, Parsing
<1>5. steps' = steps + 1 /\ steps \in Nat /\ Len(taken) \in Nat /\ Len(open) \in Nat
  BY <1>4, TakenBound, OpenLength DEF Count, AtSeparator, TypeInv
<1>6. ents \in Seq(Entries) /\ Len(ents) \in Nat
  BY <1>4, TreeFacts DEF TypeInv, ParseInv, ParseTypes
<1>7. Len(ents') = Len(ents) + 1
  BY <1>3, <1>6
<1>8. ValuesTime'
  <2>1. steps + Len(open) <= 3 * Len(taken) + 1
    BY <1>4 DEF NameTime
  <2>2. steps' + Len(open') + 2 <= 3 * Len(taken') + 1
    BY <1>3, <1>4, <1>5, <2>1
  <2> QED
    BY <2>2 DEF ValuesTime
<1> QED
  BY <1>3, <1>4, <1>5, <1>6, <1>7, <1>8 DEF TimesOK, EvalPhases, Final

LEMMA ValueTime ==
  ASSUME TimeInv, TypeInv', Value, Count
  PROVE  TimesOK'
<1>1. /\ TypeInv /\ phase = "values" /\ phase' = phase /\ Parsing /\ Advance(word) /\ open' = open
      /\ IsValue(word) /\ text' = text
      /\ ents' = [ents EXCEPT ![Len(ents)].values = Append(@, word)]
      /\ ValuesTime /\ Len(ents) <= Len(taken) + 1
  BY DEF Value, TimeInv, TimesOK, Parsing
<1>2. steps' = steps + 1 /\ steps \in Nat /\ Len(open) \in Nat
  BY <1>1, OpenLength DEF Count, AtSeparator, IsValue, TypeInv
<1>3. word \in Tokens /\ ents \in Trees /\ taken \in Seq(Tokens) /\ Len(ents') = Len(ents)
      /\ Len(taken) \in Nat
  BY <1>1, ValueInv, TakenBound DEF TypeInv, ParseInv, ParseTypes
<1>4. Len(Last(ents').values) = Len(Last(ents).values) + 1 /\ Len(Last(ents).values) \in Nat
  <2> DEFINE e == Len(ents)
  <2>1. e \in DOMAIN ents /\ ents[e].values \in Seq(Tokens) /\ ents[e] \in Entries
    BY <1>3, TreeFacts
  <2>2. ents'[e].values = Append(ents[e].values, word)
    BY <1>1, <2>1 DEF Entries
  <2>3. Len(Append(ents[e].values, word)) = Len(ents[e].values) + 1 /\ Len(ents[e].values) \in Nat
    BY <1>3, <2>1, AppendProperties, LenProperties
  <2> QED
    BY <1>3, <2>2, <2>3 DEF Last
<1>5. CASE Upcoming = NoToken
  <2>1. word' = word /\ taken' = taken /\ Over'
    BY <1>1, <1>3, <1>5, AdvanceTypes, AtTheEnd DEF TypeInv
  <2>2. IsValue(word')
    BY <1>1, <2>1
  <2>3. steps' + Len(open') + 2 <= 3 * Len(taken') + 1 + Len(Last(ents').values)
    <3>1. PICK n, m : n = Len(Last(ents).values) /\ m = Len(Last(ents').values)
      OBVIOUS
    <3>2. m = n + 1 /\ n \in Nat
      BY <1>4, <3>1
    <3>3. \/ steps + Len(open) + 2 <= 3 * Len(taken) + 1
          \/ steps + Len(open) + 2 <= 3 * Len(taken) + 1 + n
      BY <1>1, <3>1, Zenon DEF ValuesTime
    <3>4. steps' + Len(open') + 2 <= 3 * Len(taken') + 1 + m
      BY <1>1, <1>2, <1>3, <2>1, <3>2, <3>3
    <3> QED
      BY <3>1, <3>4
  <2>4. ValuesTime'
    BY <2>1, <2>2, <2>3 DEF ValuesTime
  <2> QED
    BY <1>1, <1>3, <2>1, <2>4 DEF TimesOK, EvalPhases, Final
<1>6. CASE Upcoming # NoToken
  <2>1. taken' = Append(taken, Upcoming) /\ Upcoming \in Tokens /\ ~Over
    BY <1>1, <1>3, <1>6, AdvanceTypes, AtTheEnd DEF TypeInv
  <2>2. Len(taken') = Len(taken) + 1
    BY <1>3, <2>1, AppendProperties
  <2>3. steps + Len(open) + 2 <= 3 * Len(taken) + 1
    BY <1>1, <2>1 DEF ValuesTime
  <2>4. steps' + Len(open') + 2 <= 3 * Len(taken') + 1
    BY <1>1, <1>2, <1>3, <2>2, <2>3
  <2>5. ValuesTime'
    BY <2>4 DEF ValuesTime
  <2> QED
    BY <1>1, <1>3, <2>2, <2>5 DEF TimesOK, EvalPhases, Final
<1> QED
  BY <1>5, <1>6

LEMMA ValuesBound ==
  ASSUME TypeInv
  PROVE  Len(Last(ents).values) \in 0 .. ValuesMax /\ ValuesMax \in Nat
<1>1. ents \in Trees
  BY DEF TypeInv, ParseInv, ParseTypes
<1>2. Len(ents) \in DOMAIN ents
  BY <1>1, TreeFacts
<1> QED
  BY <1>1, <1>2, TreeFacts, ValuesMaxAssumption DEF Last

LEMMA OtherTime ==
  ASSUME TimeInv, TypeInv', EndStatement \/ OpenBlock \/ Separator \/ TooManyValues, Count
  PROVE  TimesOK'
<1>1. /\ TypeInv /\ phase = "values" /\ Parsing /\ ValuesTime /\ Len(ents) <= Len(taken) + 1
      /\ text' = text /\ ents' = ents /\ taken' = taken /\ word' = word /\ z' = z
  BY DEF EndStatement, OpenBlock, Separator, TooManyValues, TimeInv, TimesOK, Parsing, parseVars
<1>2. /\ steps \in Nat /\ Len(open) \in Nat /\ Len(taken) \in Nat /\ Len(text) \in Nat
      /\ Len(taken) <= Len(text) /\ open \in Seq(DOMAIN ents)
  BY <1>1, TakenBound, OpenLength DEF TypeInv
<1>3. CASE EndStatement
  <2>1. steps' = steps + 1 /\ open' = open /\ phase' = "name" /\ ~IsValue(word)
    BY <1>3 DEF EndStatement, Count, AtSeparator, Separators, IsValue
  <2>2. steps + Len(open) + 2 <= 3 * Len(taken) + 1
    BY <1>1, <2>1 DEF ValuesTime
  <2>3. steps' + Len(open') <= 3 * Len(taken') + 1
    BY <1>1, <1>2, <2>1, <2>2
  <2>4. NameTime'
    BY <2>3 DEF NameTime
  <2> QED
    BY <1>1, <2>1, <2>4 DEF TimesOK, EvalPhases, Final
<1>4. CASE OpenBlock
  <2>1. /\ steps' = steps + 1 /\ phase' = "name" /\ ~IsValue(word)
        /\ open' = Append(open, Len(ents))
    BY <1>4 DEF OpenBlock, Count, AtSeparator, Separators, IsValue
  <2>2. Len(open') = Len(open) + 1
    BY <1>2, <2>1
  <2>3. steps + Len(open) + 2 <= 3 * Len(taken) + 1
    BY <1>1, <2>1 DEF ValuesTime
  <2>4. steps' + Len(open') <= 3 * Len(taken') + 1
    BY <1>1, <1>2, <2>1, <2>2, <2>3
  <2>5. NameTime'
    BY <2>4 DEF NameTime
  <2> QED
    BY <1>1, <2>1, <2>5 DEF TimesOK, EvalPhases, Final
<1>5. CASE Separator
  <2>1. steps' = steps /\ phase' = phase /\ open' = open
    BY <1>5 DEF Separator, Count, AtSeparator, parseVars
  <2>2. ValuesTime'
    BY <1>1, <2>1 DEF ValuesTime, Over
  <2> QED
    BY <1>1, <2>1, <2>2 DEF TimesOK, EvalPhases, Final
<1>6. CASE TooManyValues
  <2>1. steps' = steps + 1 /\ phase' = "exited"
    BY <1>1, <1>6 DEF TooManyValues, Count, AtSeparator, IsValue
  <2>2. Len(Last(ents).values) \in 0 .. ValuesMax /\ ValuesMax \in Nat
    BY <1>1, ValuesBound
  <2>3. steps + 2 <= 3 * Len(taken) + 1 + ValuesMax
    <3>1. PICK n : n = Len(Last(ents).values)
      OBVIOUS
    <3>2. n \in 0 .. ValuesMax
      BY <2>2, <3>1
    <3>3. \/ steps + Len(open) + 2 <= 3 * Len(taken) + 1
          \/ steps + Len(open) + 2 <= 3 * Len(taken) + 1 + n
      BY <1>1, <3>1, Zenon DEF ValuesTime
    <3> QED
      BY <1>2, <2>2, <3>2, <3>3
  <2>4. EndsInTime'
    BY <1>1, <1>2, <2>1, <2>2, <2>3 DEF EndsInTime
  <2> QED
    BY <1>1, <2>1, <2>4 DEF TimesOK, EvalPhases, Final
<1> QED
  BY <1>3, <1>4, <1>5, <1>6

(* The evaluation: each step is of a later phase or marks an entry.        *)
LEMMA EvalBound ==
  ASSUME TimeInv, phase \in EvalPhases
  PROVE  /\ steps \in Nat /\ Len(text) \in Nat /\ Rank \in 0 .. 4
         /\ Cardinality(Marks(ents)) \in 0 .. Len(text)
         /\ steps <= 3 * Len(text) + 1 + Rank + Cardinality(Marks(ents))
         /\ Root \notin Marks(ents) /\ ents \in Trees /\ Start.ents = ents
         /\ Start.status = "running" /\ Start \in Contexts
<1>1. TypeInv /\ EvalTime /\ Len(ents) <= Len(taken) + 1 /\ ents \in Trees
  BY DEF TimeInv, TimesOK, TypeInv, ParseInv, ParseTypes
<1>2. Len(taken) \in Nat /\ Len(text) \in Nat /\ Len(taken) <= Len(text) /\ Len(ents) \in Nat
  BY <1>1, TakenBound, TreeFacts
<1>3. Cardinality(Marks(ents)) \in Nat /\ Cardinality(Marks(ents)) <= Len(ents) - 1
  BY <1>1, MarksBound DEF EvalTime
<1>4. Rank \in 0 .. 4
  BY DEF Rank, EvalPhases
<1> QED
  BY <1>1, <1>2, <1>3, <1>4, StartIs DEF EvalTime, TypeInv

LEMMA EvalMade ==
  ASSUME TimeInv, TypeInv', Count, phase \in EvalPhases,
         NEW d \in Contexts, NEW next, Becomes(d, next), DOMAIN d.ents = DOMAIN ents,
         d.status = "running" => next = "accepted" \/ EvalTime',
         next \in EvalPhases \cup {"accepted"}
  PROVE  TimesOK'
<1>1. /\ ents' = d.ents /\ taken' = taken /\ text' = text /\ steps' = steps + 1
      /\ phase' = (IF d.status = "running" THEN next ELSE d.status) /\ d.ents \in Trees
      /\ d.status \in Statuses
  BY DEF Becomes, Count, AtSeparator, EvalPhases, Contexts
<1>2. Len(ents') = Len(ents) /\ Len(ents) <= Len(taken) + 1
  BY <1>1, EvalBound, TreeFacts DEF TimeInv, TimesOK
<1>3. EndsInTime'
  BY <1>1, EvalBound, ValuesMaxAssumption DEF EndsInTime
<1>4. CASE d.status = "running"
  <2>1. phase' = next
    BY <1>1, <1>4
  <2> QED
    BY <1>1, <1>2, <1>3, <1>4, <2>1 DEF TimesOK, EvalPhases, Final
<1>5. CASE d.status # "running"
  <2>1. phase' \in {"exited", "killed", "undefined"}
    BY <1>1, <1>5 DEF Statuses
  <2> QED
    BY <1>1, <1>2, <1>3, <2>1 DEF TimesOK, EvalPhases, Final
<1> QED
  BY <1>4, <1>5

LEMMA LogTime ==
  ASSUME TimeInv, TypeInv', Count, EvalLog
  PROVE  TimesOK'
<1>1. phase = "log" /\ phase \in EvalPhases
  BY DEF EvalLog, EvalPhases
<1>2. PICK d, M : LogIs(Start, d, M) /\ Becomes(d, "basic")
  BY LogStep DEF TimeInv
<1>3. /\ steps \in Nat /\ Len(text) \in Nat /\ ents \in Trees /\ Root \notin Marks(ents)
      /\ Cardinality(Marks(ents)) \in Nat /\ steps <= 3 * Len(text) + 1 + 0 + Cardinality(Marks(ents))
      /\ Start.ents = ents
  BY <1>1, EvalBound DEF Rank
<1>4. /\ d \in Contexts /\ d.ents \in Trees /\ Marked(ents, d.ents, M)
      /\ DOMAIN d.ents = DOMAIN ents /\ text' = text /\ ents' = d.ents /\ steps' = steps + 1
      /\ d.status = "running" => phase' = "basic"
  BY <1>1, <1>2, <1>3 DEF LogIs, From, Contexts, Marked, Becomes, Count, AtSeparator
<1>5. ASSUME d.status = "running" PROVE EvalTime'
  <2>1. /\ Root \notin Marks(d.ents)
        /\ Cardinality(Marks(ents)) <= Cardinality(Marks(d.ents))
    <3>1. CASE d.ents = ents
      BY <1>3, <3>1
    <3>2. CASE d.ents # ents
      <4>1. PICK e \in DOMAIN ents : /\ ents[e].parent = Root
                                     /\ M = {e} \cup Children(ents, e, LogKeys)
        BY <1>2, <1>3, <1>5, <3>2 DEF LogIs
      <4>2. Root \notin M
        BY <1>3, <4>1, TreeFacts DEF Children
      <4> QED
        BY <1>3, <1>4, <4>2, MarksGrow
    <3> QED
      BY <3>1, <3>2
  <2>2. Rank' = 1
    BY <1>4, <1>5 DEF Rank
  <2>3. Cardinality(Marks(d.ents)) \in Nat
    BY <1>4, MarksBound
  <2>4. steps' <= 3 * Len(text') + 1 + Rank' + Cardinality(Marks(ents'))
    BY <1>3, <1>4, <2>1, <2>2, <2>3
  <2> QED
    BY <1>4, <2>1, <2>4 DEF EvalTime
<1> QED
  BY <1>1, <1>2, <1>4, <1>5, EvalMade DEF EvalPhases

LEMMA BasicTime ==
  ASSUME TimeInv, TypeInv', Count, EvalBasic
  PROVE  TimesOK'
<1> DEFINE M == Children(ents, Root, BasicNames)
<1>1. phase = "basic" /\ phase \in EvalPhases
  BY DEF EvalBasic, EvalPhases
<1>2. PICK d \in From(Start, M) : Becomes(d, "services")
  BY BasicStep DEF TimeInv
<1>3. /\ steps \in Nat /\ Len(text) \in Nat /\ ents \in Trees /\ Root \notin Marks(ents)
      /\ Cardinality(Marks(ents)) \in Nat /\ steps <= 3 * Len(text) + 1 + 1 + Cardinality(Marks(ents))
      /\ Start.ents = ents
  BY <1>1, EvalBound DEF Rank
<1>4. /\ d \in Contexts /\ d.ents \in Trees /\ Marked(ents, d.ents, M)
      /\ DOMAIN d.ents = DOMAIN ents /\ text' = text /\ ents' = d.ents /\ steps' = steps + 1
      /\ d.status = "running" => phase' = "services"
  BY <1>1, <1>2, <1>3 DEF From, Contexts, Marked, Becomes, Count, AtSeparator
<1>5. ASSUME d.status = "running" PROVE EvalTime'
  <2>1. Root \notin M
    BY <1>3, TreeFacts DEF Children
  <2> HIDE DEF M
  <2>2. /\ Root \notin Marks(d.ents)
        /\ Cardinality(Marks(ents)) <= Cardinality(Marks(d.ents))
    BY <1>3, <1>4, <2>1, MarksGrow
  <2>3. Rank' = 2
    BY <1>4, <1>5 DEF Rank
  <2>4. Cardinality(Marks(d.ents)) \in Nat
    BY <1>4, MarksBound
  <2>5. steps' <= 3 * Len(text') + 1 + Rank' + Cardinality(Marks(ents'))
    BY <1>3, <1>4, <2>2, <2>3, <2>4
  <2> QED
    BY <1>4, <2>2, <2>5 DEF EvalTime
<1> QED
  BY <1>1, <1>2, <1>4, <1>5, EvalMade DEF EvalPhases

(* A statement is read: one more entry is marked.                          *)
LEMMA EntryTime ==
  ASSUME TimeInv, TypeInv', Count, phase \in {"services", "hosts"},
         NEW e \in DOMAIN ents, ~ents[e].processed, NEW M, Root \notin M,
         NEW d \in Contexts, Marked(ents, d.ents, M), Becomes(d, phase),
         d.status = "running" => d.ents[e].processed
  PROVE  TimesOK'
<1>1. phase \in EvalPhases
  BY DEF EvalPhases
<1>2. /\ steps \in Nat /\ Len(text) \in Nat /\ ents \in Trees /\ Root \notin Marks(ents)
      /\ Cardinality(Marks(ents)) \in Nat /\ Rank \in Nat
      /\ steps <= 3 * Len(text) + 1 + Rank + Cardinality(Marks(ents))
  BY <1>1, EvalBound
<1>3. /\ d.ents \in Trees /\ DOMAIN d.ents = DOMAIN ents /\ text' = text /\ ents' = d.ents
      /\ steps' = steps + 1
      /\ d.status = "running" => phase' = phase
  BY DEF Contexts, Marked, Becomes, Count, AtSeparator
<1>4. ASSUME d.status = "running" PROVE EvalTime'
  <2>1. /\ Root \notin Marks(d.ents)
        /\ Cardinality(Marks(ents)) + 1 <= Cardinality(Marks(d.ents))
    BY <1>2, <1>3, <1>4, MarksGrow
  <2>2. Rank' = Rank
    BY <1>3, <1>4 DEF Rank
  <2>3. Cardinality(Marks(d.ents)) \in Nat
    BY <1>3, MarksBound
  <2>4. steps' <= 3 * Len(text') + 1 + Rank' + Cardinality(Marks(ents'))
    BY <1>2, <1>3, <2>1, <2>2, <2>3
  <2> QED
    BY <1>3, <2>1, <2>4 DEF EvalTime
<1> QED
  BY <1>1, <1>3, <1>4, EvalMade

(* No statement is left: the next phase.                                   *)
LEMMA PhaseTime ==
  ASSUME TimeInv, TypeInv', Count, NEW next,
         (phase = "services" /\ next = "hosts") \/ (phase = "hosts" /\ next = "check"),
         Becomes(Start, next)
  PROVE  TimesOK'
<1>1. phase \in EvalPhases /\ next \in EvalPhases
  BY DEF EvalPhases
<1>2. /\ steps \in Nat /\ Len(text) \in Nat /\ Root \notin Marks(ents)
      /\ Cardinality(Marks(ents)) \in Nat /\ Rank \in Nat
      /\ steps <= 3 * Len(text) + 1 + Rank + Cardinality(Marks(ents))
      /\ Start.ents = ents /\ Start.status = "running" /\ Start \in Contexts
  BY <1>1, EvalBound
<1>3. text' = text /\ ents' = ents /\ steps' = steps + 1 /\ phase' = next
  BY <1>2 DEF Becomes, Count, AtSeparator
<1>4. EvalTime'
  <2>1. Rank' = Rank + 1
    BY <1>3 DEF Rank
  <2>2. steps' <= 3 * Len(text') + 1 + Rank' + Cardinality(Marks(ents'))
    BY <1>2, <1>3, <2>1
  <2> QED
    BY <1>2, <1>3, <2>2 DEF EvalTime
<1> QED
  BY <1>1, <1>2, <1>4, EvalMade

LEMMA ServiceTime ==
  ASSUME TimeInv, TypeInv', Count, EvalService
  PROVE  TimesOK'
<1>1. phase = "services" /\ phase \in EvalPhases
  BY DEF EvalService, EvalPhases
<1>2. CASE Becomes(Start, "hosts")
  <2>1. PICK next : next = "hosts"
    OBVIOUS
  <2>2. Becomes(Start, next)
    BY <1>2, <2>1
  <2>3. (phase = "services" /\ next = "hosts") \/ (phase = "hosts" /\ next = "check")
    BY <1>1, <2>1
  <2> QED
    BY <2>2, <2>3, PhaseTime
<1>3. ASSUME NEW e \in DOMAIN ents, NEW d \in From(Start, ServiceMarks(Start, e)),
             FirstLeft("service", e), Becomes(d, "services"),
             d.status = "running" => d.ents[e].processed
      PROVE  TimesOK'
  <2>1. ents \in Trees /\ Start.ents = ents
    BY <1>1, EvalBound
  <2>2. Root \notin ServiceMarks(Start, e)
    BY <1>3, <2>1, TreeFacts DEF ServiceMarks, Children, FirstLeft
  <2>3. Marked(ents, d.ents, ServiceMarks(Start, e)) /\ d \in Contexts
    BY <2>1 DEF From
  <2>4. ~ents[e].processed
    BY <1>3 DEF FirstLeft
  <2> QED
    BY <1>1, <1>3, <2>2, <2>3, <2>4, EntryTime
<1> QED
  BY <1>2, <1>3, ServiceStep DEF TimeInv

LEMMA HostTime ==
  ASSUME TimeInv, TypeInv', Count, EvalHost
  PROVE  TimesOK'
<1>1. phase = "hosts" /\ phase \in EvalPhases
  BY DEF EvalHost, EvalPhases
<1>2. CASE Becomes(Start, "check")
  BY <1>1, <1>2, PhaseTime
<1>3. ASSUME NEW e \in DOMAIN ents, NEW d \in Contexts,
             FirstLeft("host", e), Becomes(d, "hosts"), HostRead(Start, d, e)
      PROVE  TimesOK'
  <2>1. ents \in Trees /\ Start.ents = ents
    BY <1>1, EvalBound
  <2>2. Root \notin HostMarks(Start, e)
    <3>1. e # Root
      BY <1>3, <2>1, TreeFacts DEF FirstLeft
    <3>2. ents[Root].parent = 0 /\ e \in Nat /\ e # 0
      BY <2>1, TreeFacts
    <3>3. ASSUME NEW f \in Children(ents, e, {<<"file">>}) PROVE f # 0
      BY <2>1, TreeFacts DEF Children
    <3> QED
      BY <2>1, <3>1, <3>2, <3>3 DEF HostMarks, FileMarks, Children
  <2>3. Marked(ents, d.ents, HostMarks(Start, e))
        /\ (d.status = "running" => d.ents[e].processed)
    BY <1>3, <2>1 DEF HostRead, EntryRead
  <2>4. ~ents[e].processed
    BY <1>3 DEF FirstLeft
  <2> QED
    BY <1>1, <1>3, <2>2, <2>3, <2>4, EntryTime
<1> QED
  BY <1>2, <1>3, HostStep DEF TimeInv

LEMMA CheckTime ==
  ASSUME TimeInv, TypeInv', Count, EvalCheck
  PROVE  TimesOK'
<1>1. phase = "check" /\ phase \in EvalPhases
  BY DEF EvalCheck, EvalPhases
<1>2. PICK d \in From(Start, {}) \cap Keeping(Start) : Becomes(d, "accepted") /\ d.ents = ents
  BY CheckStep DEF TimeInv
<1>3. d \in Contexts
  BY <1>2 DEF From
<1>4. PICK next : next = "accepted"
  OBVIOUS
<1>5. Becomes(d, next) /\ next \in EvalPhases \cup {"accepted"} /\ DOMAIN d.ents = DOMAIN ents
  BY <1>2, <1>4
<1>6. d.status = "running" => next = "accepted" \/ EvalTime'
  BY <1>4
<1> QED
  BY <1>1, <1>3, <1>5, <1>6, EvalMade

LEMMA StepTime ==
  ASSUME TimeInv, TypeInv', [Next]_vars
  PROVE  TimeInv'
<1>1. CASE UNCHANGED vars
  <2>1. TimesOK
    BY DEF TimeInv
  <2> QED
    BY <1>1, <2>1 DEF vars, parseVars, TimeInv, TimesOK, NameTime, ValuesTime, EvalTime, Over, Rank,
                      EndsInTime
<1>2. CASE Step
  <2>1. Count
    BY <1>2 DEF Step
  <2>2. CASE ParseStep
    BY <2>1, <2>2, EndBlockTime, NewEntryTime, ValueTime, OtherTime DEF ParseStep, TimeInv
  <2>3. CASE Eval
    BY <2>1, <2>3, LogTime, BasicTime, ServiceTime, HostTime, CheckTime DEF Eval, TimeInv
  <2> QED
    BY <1>2, <2>2, <2>3 DEF Step, Eval
<1> QED
  BY <1>1, <1>2 DEF Next, Done

LEMMA InitTime == Init => TimeInv
<1> SUFFICES ASSUME Init PROVE TimeInv
  OBVIOUS
<1>1. TypeInv
  BY InitTypes
<1>2. /\ phase = "name" /\ steps = 0 /\ Len(open) = 1 /\ taken = <<>> /\ Len(taken) = 0
      /\ Len(ents) = 1
  BY DEF Init, ParseInit
<1>3. NameTime
  BY <1>2 DEF NameTime
<1> QED
  BY <1>1, <1>2, <1>3 DEF TimeInv, TimesOK, EvalPhases, Final

LEMMA AlwaysTime == Spec => []TimeInv
<1>1. Init => TimeInv
  BY InitTime
<1>2. TimeInv /\ TypeInv' /\ [Next]_vars => TimeInv'
  BY StepTime
<1> QED
  BY <1>1, <1>2, Types, PTL DEF Spec

(* Parsing and evaluation come to an end: a file is accepted or refused    *)
(* within a number of steps that its length bounds, if the parser does not *)
(* meet a separator in the place of a value (parse_sub's continue).        *)
THEOREM EndsSoon == Spec => []EndsInTime
<1>1. ASSUME TimeInv PROVE EndsInTime
  <2>1. TypeInv /\ TimesOK /\ steps \in Nat /\ phase \in Phases
    BY <1>1 DEF TimeInv, TypeInv, ParseInv, ParseTypes
  <2>2. Len(taken) \in Nat /\ Len(text) \in Nat /\ Len(taken) <= Len(text)
        /\ ValuesMax \in Nat
    BY <2>1, TakenBound, ValuesMaxAssumption
  <2>3. CASE phase = "name"
    <3>1. Len(open) \in Nat
      BY <2>1, <2>3, OpenLength DEF Parsing
    <3> QED
      BY <2>1, <2>2, <2>3, <3>1 DEF TimesOK, NameTime, EndsInTime
  <2>4. CASE phase = "values"
    <3>1. Len(open) \in Nat
      BY <2>1, <2>4, OpenLength DEF Parsing
    <3>2. PICK n : n = Len(Last(ents).values)
      OBVIOUS
    <3>3. n \in 0 .. ValuesMax
      BY <2>1, <3>2, ValuesBound
    <3>4. \/ steps + Len(open) + 2 <= 3 * Len(taken) + 1
          \/ steps + Len(open) + 2 <= 3 * Len(taken) + 1 + n
      BY <2>1, <2>4, <3>2, Zenon DEF TimesOK, ValuesTime
    <3> QED
      BY <2>1, <2>2, <3>1, <3>3, <3>4 DEF EndsInTime
  <2>5. CASE phase \in EvalPhases
    BY <1>1, <2>2, <2>5, EvalBound DEF EndsInTime
  <2>6. CASE phase \in Final
    BY <2>1, <2>6 DEF TimesOK
  <2> QED
    BY <2>1, <2>3, <2>4, <2>5, <2>6 DEF Phases
<1> QED
  BY <1>1, AlwaysTime, PTL

----------------------------------------------------------------------------
(* The tokens of a plain text reach the parser as they are written, all of *)
(* them and in order, however the ring between the two is filled.          *)
THEOREM TokensKept == Spec => []TokensAsWritten
<1>1. ASSUME TypeInv PROVE TokensAsWritten
  <2>1. SUFFICES ASSUME Plain(text),
                        NEW starts, starts = InOrder(TokenStarts(text), Len(text))
                 PROVE  /\ Len(taken) <= Len(starts)
                        /\ \A i \in DOMAIN taken :
                              taken[i] = SubSeq(text, starts[i], RunEnd(text, starts[i]) - 1)
    BY Zenon DEF TokensAsWritten
  <2>2. /\ text \in Tokens /\ RingOK(text, z) /\ Lexed(text, taken \o Queue(z), z.pos)
        /\ taken \in Seq(Tokens)
    BY <1>1 DEF TypeInv, ParseInv, ParseTypes
  <2>3. InOrderSeq(starts, TokenStarts(text))
    <3>1. Len(text) \in Nat /\ TokenStarts(text) \in SUBSET (1 .. Len(text))
      BY <2>2, TextIs, TokenStartsIs DEF RunStarts, TextFacts
    <3> QED
      BY <2>1, <3>1, InOrderIs
  <2> PICK toks : toks = taken \o Queue(z)
    OBVIOUS
  <2>4. /\ Len(toks) <= Len(starts)
        /\ \A i \in 1 .. Len(toks) : toks[i] = SubSeq(text, starts[i], RunEnd(text, starts[i]) - 1)
    <3> PICK s, pos : s = text /\ pos = z.pos
      OBVIOUS
    <3>1. /\ s \in Tokens /\ Plain(s) /\ Lexed(s, toks, pos)
          /\ InOrderSeq(starts, TokenStarts(s))
      BY <2>1, <2>2, <2>3
    <3>2. Spelt(s, toks, starts)
      BY <3>1, LexedPlain
    <3> QED
      BY <3>2 DEF Spelt
  <2>5. /\ Len(toks) = Len(taken) + Len(Queue(z)) /\ Len(taken) \in Nat /\ Len(Queue(z)) \in Nat
        /\ \A i \in 1 .. Len(taken) : toks[i] = taken[i]
        /\ DOMAIN taken = 1 .. Len(taken)
    BY <2>2, QueueIs, ConcatProperties, LenProperties
  <2> QED
    BY <2>4, <2>5
<1> QED
  BY <1>1, Types, PTL

----------------------------------------------------------------------------
(* The files of a host, the better matches first.                          *)
Wildcard == <<"*">>
Matches(f, service, name) ==
    service \in f.service /\ (Mentions(f, name) \/ Mentions(f, Wildcard))

LEMMA MatchIs ==
  ASSUME NEW f, NEW service, NEW name, name # Unset
  PROVE  /\ i_file_match(f, service, name) \in 0 .. 4
         /\ i_file_match(f, service, name) # 0 <=> Matches(f, service, name)
         /\ i_file_match(f, service, name) \in 1 .. 3 <=> service \in f.service /\ Mentions(f, name)
         /\ i_file_match(f, service, name) = 1 <=> service \in f.service /\ f.path = name
<1> DEFINE aliased == name \in Range(f.aliases)
           wild == Wildcard \in {f.path, f.name} \cup Range(f.aliases)
<1>1. CASE service \notin f.service
  <2>1. i_file_match(f, service, name) = 0
    BY <1>1 DEF i_file_match
  <2> QED
    BY <1>1, <2>1 DEF Matches
<1>2. CASE service \in f.service /\ name = f.path
  <2>1. i_file_match(f, service, name) = 1
    BY <1>2 DEF i_file_match
  <2> QED
    BY <1>2, <2>1 DEF Matches, Mentions
<1>3. CASE service \in f.service /\ name # f.path /\ name = f.name
  <2>1. i_file_match(f, service, name) = 2
    BY <1>3 DEF i_file_match
  <2> QED
    BY <1>3, <2>1 DEF Matches, Mentions
<1>4. CASE service \in f.service /\ name # f.path /\ name # f.name
  <2>1. i_file_match(f, service, name) = IF aliased THEN 3 ELSE IF wild THEN 4 ELSE 0
    BY <1>4 DEF i_file_match, Wildcard
  <2>2. aliased <=> Mentions(f, name)
    BY <1>4 DEF Mentions
  <2>3. wild <=> Mentions(f, Wildcard)
    BY DEF Mentions
  <2> HIDE DEF aliased, wild
  <2> QED
    BY <1>4, <2>1, <2>2, <2>3 DEF Matches
<1> QED
  BY <1>1, <1>2, <1>3, <1>4

(* The members of S, each once, by rank.                                   *)
Sorted(s, S, rank, lo, hi) ==
    /\ s \in Seq(S)
    /\ \A k \in S : \E i \in 1 .. Len(s) : s[i] = k
    /\ \A i, j \in 1 .. Len(s) : i < j => s[i] # s[j] /\ rank[s[i]] <= rank[s[j]]
    /\ \A k \in S : rank[k] \in lo .. hi

LEMMA SortedRank ==
  ASSUME NEW n \in Nat, NEW rank, NEW r \in Nat, NEW S, S = {k \in 1 .. n : rank[k] = r}
  PROVE  Sorted(InOrder(S, n), S, rank, r, r)
<1> PICK s : s = InOrder(S, n)
  OBVIOUS
<1>1. InOrderSeq(s, S)
  BY InOrderIs
<1>2. s \in Seq(S) /\ Len(s) \in Nat /\ DOMAIN s = 1 .. Len(s)
      /\ \A i \in 1 .. Len(s) : s[i] \in S
  <2>1. s \in Seq(S)
    BY <1>1 DEF InOrderSeq
  <2> QED
    BY <2>1, LenProperties, ElementOfSeq
<1>3. \A k \in S : rank[k] = r /\ k \in Nat
  OBVIOUS
<1>4. \A i, j \in 1 .. Len(s) : i < j => s[i] < s[j]
  BY <1>1, <1>2 DEF InOrderSeq
<1>5. \A i, j \in 1 .. Len(s) : i < j => s[i] # s[j] /\ rank[s[i]] <= rank[s[j]]
  BY <1>2, <1>3, <1>4
<1>6. \A k \in S : \E i \in 1 .. Len(s) : s[i] = k
  BY <1>1, <1>2 DEF InOrderSeq
<1>7. \A k \in S : rank[k] \in r .. r
  BY <1>3
<1>8. Sorted(s, S, rank, r, r)
  BY <1>2, <1>5, <1>6, <1>7, Zenon DEF Sorted
<1> QED
  BY <1>8

LEMMA SortedConcat ==
  ASSUME NEW s, NEW t, NEW S, NEW T, NEW rank, NEW lo \in Nat, NEW mid \in Nat, NEW hi \in Nat,
         lo <= mid, mid < hi, Sorted(s, S, rank, lo, mid), Sorted(t, T, rank, hi, hi)
  PROVE  Sorted(s \o t, S \cup T, rank, lo, hi)
<1>1. /\ s \in Seq(S) /\ t \in Seq(T) /\ Len(s) \in Nat /\ Len(t) \in Nat
      /\ \A i \in 1 .. Len(s) : s[i] \in S
      /\ \A i \in 1 .. Len(t) : t[i] \in T
  BY LenProperties, ElementOfSeq DEF Sorted
<1>2. /\ \A k \in S : rank[k] \in lo .. mid
      /\ \A k \in T : rank[k] \in hi .. hi
      /\ \A k \in S : \E i \in 1 .. Len(s) : s[i] = k
      /\ \A k \in T : \E i \in 1 .. Len(t) : t[i] = k
      /\ \A i, j \in 1 .. Len(s) : i < j => s[i] # s[j] /\ rank[s[i]] <= rank[s[j]]
      /\ \A i, j \in 1 .. Len(t) : i < j => t[i] # t[j] /\ rank[t[i]] <= rank[t[j]]
  BY DEF Sorted
<1> PICK u : u = s \o t
  OBVIOUS
<1>3. /\ u \in Seq(S \cup T) /\ Len(u) = Len(s) + Len(t)
      /\ \A i \in 1 .. Len(s) + Len(t) : u[i] = IF i <= Len(s) THEN s[i] ELSE t[i - Len(s)]
  <2>1. s \in Seq(S \cup T) /\ t \in Seq(S \cup T)
    BY <1>1
  <2> QED
    BY <2>1, ConcatProperties
<1>4. ASSUME NEW k \in S \cup T PROVE \E i \in 1 .. Len(u) : u[i] = k
  <2>1. CASE k \in S
    BY <1>1, <1>2, <1>3, <2>1
  <2>2. CASE k \in T
    <3>1. PICK i \in 1 .. Len(t) : t[i] = k
      BY <1>2, <2>2
    <3>2. Len(s) + i \in 1 .. Len(u) /\ u[Len(s) + i] = k
      BY <1>1, <1>3, <3>1
    <3> QED
      BY <3>2
  <2> QED
    BY <2>1, <2>2
<1>5. ASSUME NEW i \in 1 .. Len(u), NEW j \in 1 .. Len(u), i < j
      PROVE  u[i] # u[j] /\ rank[u[i]] <= rank[u[j]]
  <2>1. CASE j <= Len(s)
    <3>1. i \in 1 .. Len(s) /\ j \in 1 .. Len(s) /\ u[i] = s[i] /\ u[j] = s[j]
      BY <1>1, <1>3, <1>5, <2>1
    <3> QED
      BY <1>2, <1>5, <3>1
  <2>2. CASE i <= Len(s) /\ Len(s) < j
    <3>1. i \in 1 .. Len(s) /\ j - Len(s) \in 1 .. Len(t) /\ u[i] = s[i] /\ u[j] = t[j - Len(s)]
      BY <1>1, <1>3, <2>2
    <3>2. u[i] \in S /\ u[j] \in T
      BY <1>1, <3>1
    <3>3. rank[u[i]] \in lo .. mid /\ rank[u[j]] \in hi .. hi
      BY <1>2, <3>2
    <3> QED
      BY <3>3
  <2>3. CASE Len(s) < i
    <3>1. /\ i - Len(s) \in 1 .. Len(t) /\ j - Len(s) \in 1 .. Len(t)
          /\ i - Len(s) < j - Len(s)
          /\ u[i] = t[i - Len(s)] /\ u[j] = t[j - Len(s)]
      BY <1>1, <1>3, <1>5, <2>3
    <3>2. PICK a, b : a = i - Len(s) /\ b = j - Len(s)
      OBVIOUS
    <3>3. a \in 1 .. Len(t) /\ b \in 1 .. Len(t) /\ a < b /\ u[i] = t[a] /\ u[j] = t[b]
      BY <3>1, <3>2
    <3>4. t[a] # t[b] /\ rank[t[a]] <= rank[t[b]]
      BY <1>2, <3>3
    <3> QED
      BY <3>3, <3>4
  <2>4. j <= Len(s) \/ (i <= Len(s) /\ Len(s) < j) \/ Len(s) < i
    BY <1>1, <1>3
  <2> QED
    BY <2>1, <2>2, <2>3, <2>4
<1>6. \A k \in S \cup T : rank[k] \in lo .. hi
  BY <1>2
<1> QED
  BY <1>3, <1>4, <1>5, <1>6 DEF Sorted

(* What util_name2file finds one after the other.                          *)
Finds(found, h, service, name) ==
    \A no : util_name2file(h, service, name, no) =
               IF no < Len(found) THEN h.files[found[no + 1]] ELSE NewFile

LEMMA FoundIs ==
  ASSUME NEW h, NEW service, NEW name, Len(h.files) \in Nat, DOMAIN h.files = 1 .. Len(h.files),
         name # Unset,
         NEW rank, rank = [k \in DOMAIN h.files |-> i_file_match(h.files[k], service, name)],
         NEW K, K = {k \in DOMAIN h.files : rank[k] # 0}
  PROVE  \E found : Sorted(found, K, rank, 1, 4) /\ Finds(found, h, service, name)
<1> DEFINE n == Len(h.files)
           R(r) == {k \in 1 .. n : rank[k] = r}
           L(r) == InOrder(R(r), n)
           found == ((L(1) \o L(2)) \o L(3)) \o L(4)
<1>1. \A no : util_name2file(h, service, name, no) =
                 IF no < Len(found) THEN h.files[found[no + 1]] ELSE NewFile
  <2>1. \A r : {k \in DOMAIN h.files : i_file_match(h.files[k], service, name) = r} = R(r)
    OBVIOUS
  <2> DEFINE Rank0(i) == InOrder({k \in DOMAIN h.files : i_file_match(h.files[k], service, name) = i},
                                 Len(h.files))
  <2>2. Rank0(1) = L(1) /\ Rank0(2) = L(2) /\ Rank0(3) = L(3) /\ Rank0(4) = L(4)
    BY <2>1
  <2>3. \A no : util_name2file(h, service, name, no) =
                 IF no < Len(Rank0(1) \o Rank0(2) \o Rank0(3) \o Rank0(4))
                 THEN h.files[(Rank0(1) \o Rank0(2) \o Rank0(3) \o Rank0(4))[no + 1]] ELSE NewFile
    BY Zenon DEF util_name2file
  <2> HIDE DEF Rank0, L
  <2> QED
    BY <2>2, <2>3
<1>2. n \in Nat
  OBVIOUS
<1>3. /\ Sorted(L(1), R(1), rank, 1, 1) /\ Sorted(L(2), R(2), rank, 2, 2)
      /\ Sorted(L(3), R(3), rank, 3, 3) /\ Sorted(L(4), R(4), rank, 4, 4)
  <2>1. ASSUME NEW r \in Nat PROVE Sorted(L(r), R(r), rank, r, r)
    <3> PICK S : S = R(r)
      OBVIOUS
    <3>1. S = {k \in 1 .. n : rank[k] = r}
      OBVIOUS
    <3>2. Sorted(InOrder(S, n), S, rank, r, r)
      <4> HIDE DEF n, R
      <4> QED
        BY <1>2, <3>1, SortedRank
    <3> QED
      BY <3>2
  <2> HIDE DEF L, R
  <2> QED
    BY <2>1
<1> HIDE DEF L, R, n
<1>4. Sorted(L(1) \o L(2), R(1) \cup R(2), rank, 1, 2)
  BY <1>3, SortedConcat
<1>5. Sorted((L(1) \o L(2)) \o L(3), (R(1) \cup R(2)) \cup R(3), rank, 1, 3)
  BY <1>3, <1>4, SortedConcat
<1>6. Sorted(found, ((R(1) \cup R(2)) \cup R(3)) \cup R(4), rank, 1, 4)
  BY <1>3, <1>5, SortedConcat
<1>7. ((R(1) \cup R(2)) \cup R(3)) \cup R(4) = K
  <2>1. \A k \in DOMAIN h.files : rank[k] \in 0 .. 4
    BY MatchIs
  <2>2. \A r \in 0 .. 4 : r # 0 <=> r \in {1, 2, 3, 4}
    OBVIOUS
  <2> QED
    BY <2>1, <2>2 DEF R, n
<1> HIDE DEF found
<1>8. Sorted(found, K, rank, 1, 4)
  BY <1>6, <1>7
<1> QED
  BY <1>1, <1>8 DEF Finds

LEMMA UpTo ==
  ASSUME NEW n \in Nat
  PROVE  IsFiniteSet(1 .. n) /\ Cardinality(1 .. n) = n
<1>1. 1 \in Int /\ n \in Int
  OBVIOUS
<1>2. IsFiniteSet(1 .. n) /\ Cardinality(1 .. n) = IF 1 > n THEN 0 ELSE n - 1 + 1
  BY <1>1, FS_Interval
<1>3. (IF 1 > n THEN 0 ELSE n - 1 + 1) = n
  OBVIOUS
<1> QED
  BY <1>2, <1>3

(* The promise of BestMatch for one host.                                  *)
Best(files, name, service, nth, matching) ==
    /\ \A no \in DOMAIN nth : nth[no] # NewFile <=> no <= Cardinality(matching)
    /\ Range(nth) \ {NewFile} = matching
    /\ \A i, j \in DOMAIN nth : i < j /\ nth[j] # NewFile =>
          /\ Mentions(nth[j], name) => Mentions(nth[i], name)
          /\ nth[j].path = name => nth[i].path = name

LEMMA HostBest ==
  ASSUME NEW h, NEW files, h.files = files, files \in FileLists,
         \A i \in DOMAIN files : files[i].path # Unset,
         NEW service, NEW name, name # Unset,
         NEW nth, nth = [no \in 1 .. Len(files) |-> util_name2file(h, service, name, no - 1)],
         NEW matching, matching = {f \in Range(files) : Matches(f, service, name)}
  PROVE  Best(files, name, service, nth, matching)
<1>1. Len(files) \in Nat /\ DOMAIN files = 1 .. Len(files)
  BY LenProperties DEF FileLists
<1> PICK rank : rank = [k \in DOMAIN files |-> i_file_match(files[k], service, name)]
  OBVIOUS
<1> PICK K : K = {k \in DOMAIN files : rank[k] # 0}
  OBVIOUS
<1>2. PICK found : Sorted(found, K, rank, 1, 4) /\ Finds(found, h, service, name)
  <2>1. /\ Len(h.files) \in Nat /\ DOMAIN h.files = 1 .. Len(h.files)
        /\ rank = [k \in DOMAIN h.files |-> i_file_match(h.files[k], service, name)]
        /\ K = {k \in DOMAIN h.files : rank[k] # 0}
    BY <1>1
  <2> QED
    BY <2>1, FoundIs
<1>3. /\ K \subseteq 1 .. Len(files)
      /\ \A k \in DOMAIN files : rank[k] = i_file_match(files[k], service, name)
      /\ \A k \in K : k \in DOMAIN files /\ Matches(files[k], service, name)
      /\ \A k \in DOMAIN files : Matches(files[k], service, name) => k \in K
  BY <1>1, MatchIs
<1> PICK m : m = Len(found)
  OBVIOUS
<1>4. /\ found \in Seq(K) /\ m \in Nat /\ \A i \in 1 .. m : found[i] \in K
      /\ \A k \in K : \E i \in 1 .. m : found[i] = k
      /\ \A i, j \in 1 .. m : i < j => found[i] # found[j] /\ rank[found[i]] <= rank[found[j]]
  <2>1. /\ found \in Seq(K)
        /\ \A k \in K : \E i \in 1 .. m : found[i] = k
        /\ \A i, j \in 1 .. m : i < j => found[i] # found[j] /\ rank[found[i]] <= rank[found[j]]
    BY <1>2, Zenon DEF Sorted
  <2> QED
    BY <2>1, LenProperties, ElementOfSeq
<1> DEFINE g == [i \in 1 .. m |-> files[found[i]]]
<1>5. g \in Bijection(1 .. m, matching)
  <2>1. \A i \in 1 .. m : files[found[i]] \in matching
    BY <1>3, <1>4 DEF Range
  <2>2. \A i, j \in 1 .. m : files[found[i]] = files[found[j]] => i = j
    <3>1. ASSUME NEW i \in 1 .. m, NEW j \in 1 .. m, files[found[i]] = files[found[j]] PROVE i = j
      <4>1. found[i] = found[j]
        BY <1>3, <1>4, <3>1 DEF FileLists
      <4> QED
        BY <1>4, <4>1
    <3> QED
      BY <3>1
  <2>3. \A f \in matching : \E i \in 1 .. m : files[found[i]] = f
    <3>1. ASSUME NEW f \in matching PROVE \E i \in 1 .. m : files[found[i]] = f
      <4>1. PICK k \in DOMAIN files : files[k] = f /\ Matches(f, service, name)
        BY DEF Range
      <4> QED
        BY <1>3, <1>4, <4>1
    <3> QED
      BY <3>1
  <2>4. g \in Injection(1 .. m, matching)
    BY <2>1, <2>2 DEF Injection, IsInjective
  <2>5. g \in Surjection(1 .. m, matching)
    BY <2>1, <2>3 DEF Surjection
  <2> QED
    BY <2>4, <2>5 DEF Bijection
<1>6. Cardinality(matching) = m
  <2>1. IsFiniteSet(1 .. m) /\ Cardinality(1 .. m) = m
    BY <1>4, UpTo
  <2>2. ExistsBijection(1 .. m, matching)
    BY <1>5 DEF ExistsBijection
  <2> QED
    BY <2>1, <2>2, FS_Bijection
<1>7. m <= Len(files)
  <2>1. /\ IsFiniteSet(1 .. Len(files)) /\ Cardinality(1 .. Len(files)) = Len(files)
        /\ Cardinality(1 .. m) = m
    BY <1>1, <1>4, UpTo
  <2>2. [i \in 1 .. m |-> found[i]] \in Injection(1 .. m, 1 .. Len(files))
    <3>1. \A i, j \in 1 .. m : found[i] = found[j] => i = j
      BY <1>4
    <3>2. \A i \in 1 .. m : found[i] \in 1 .. Len(files)
      BY <1>3, <1>4
    <3> QED
      BY <3>1, <3>2 DEF Injection, IsInjective
  <2> QED
    BY <2>1, <2>2, FS_Injection
<1>8. NewFile.path = Unset /\ \A k \in DOMAIN files : files[k] # NewFile
  BY DEF NewFile
<1>9. /\ DOMAIN nth = 1 .. Len(files)
      /\ \A no \in 1 .. Len(files) : no <= m => nth[no] = files[found[no]] /\ nth[no] # NewFile
      /\ \A no \in 1 .. Len(files) : ~(no <= m) => nth[no] = NewFile
  <2>1. ASSUME NEW no \in 1 .. Len(files)
        PROVE  nth[no] = IF no <= m THEN files[found[no]] ELSE NewFile
    <3>1. nth[no] = util_name2file(h, service, name, no - 1)
      OBVIOUS
    <3>2. (no - 1) + 1 = no /\ (no - 1 < m <=> no <= m)
      BY <1>1, <1>4
    <3> QED
      BY <1>2, <3>1, <3>2 DEF Finds
  <2>2. \A no \in 1 .. Len(files) : no <= m => no \in 1 .. m
    BY <1>1, <1>4
  <2>3. \A no \in 1 .. Len(files) : no <= m => files[found[no]] # NewFile
    BY <1>3, <1>4, <1>8, <2>2
  <2>4. DOMAIN nth = 1 .. Len(files)
    OBVIOUS
  <2> HIDE DEF g
  <2> QED
    BY <2>1, <2>3, <2>4
<1>10. \A no \in DOMAIN nth : nth[no] # NewFile <=> no <= Cardinality(matching)
  BY <1>6, <1>9
<1>11. Range(nth) \ {NewFile} = matching
  <2>1. ASSUME NEW no \in 1 .. Len(files), nth[no] # NewFile PROVE nth[no] \in matching
    <3>1. no \in 1 .. m /\ nth[no] = files[found[no]]
      BY <1>1, <1>4, <1>9, <2>1
    <3> PICK k : k = found[no]
      OBVIOUS
    <3>2. k \in DOMAIN files /\ Matches(files[k], service, name) /\ nth[no] = files[k]
      BY <1>3, <1>4, <3>1
    <3> QED
      BY <3>2 DEF Range
  <2>2. ASSUME NEW f \in matching PROVE f \in Range(nth) \ {NewFile}
    <3>1. PICK k \in DOMAIN files : files[k] = f /\ Matches(f, service, name)
      BY DEF Range
    <3>2. PICK i \in 1 .. m : found[i] = k
      BY <1>3, <1>4, <3>1
    <3>3. i \in 1 .. Len(files) /\ i <= m
      BY <1>1, <1>4, <1>7
    <3>4. nth[i] = f /\ f # NewFile
      BY <1>9, <3>1, <3>2, <3>3
    <3> QED
      BY <1>9, <3>3, <3>4 DEF Range
  <2> QED
    BY <1>9, <2>1, <2>2 DEF Range
<1>12. ASSUME NEW i \in DOMAIN nth, NEW j \in DOMAIN nth, i < j, nth[j] # NewFile
       PROVE  /\ Mentions(nth[j], name) => Mentions(nth[i], name)
              /\ nth[j].path = name => nth[i].path = name
  <2>1. /\ i \in 1 .. m /\ j \in 1 .. m /\ i \in 1 .. Len(files) /\ j \in 1 .. Len(files)
        /\ nth[i] = files[found[i]] /\ nth[j] = files[found[j]]
    BY <1>1, <1>4, <1>9, <1>12
  <2> PICK a, b : a = found[i] /\ b = found[j]
    OBVIOUS
  <2>2. a \in K /\ b \in K /\ rank[a] <= rank[b] /\ nth[i] = files[a] /\ nth[j] = files[b]
    BY <1>4, <1>12, <2>1
  <2>3. ASSUME NEW k \in K
        PROVE  /\ rank[k] \in 1 .. 4
               /\ rank[k] \in 1 .. 3 <=> Mentions(files[k], name)
               /\ rank[k] = 1 <=> files[k].path = name
    <3>1. service \in files[k].service /\ rank[k] = i_file_match(files[k], service, name) /\ rank[k] # 0
      BY <1>3 DEF Matches
    <3> QED
      BY <3>1, MatchIs
  <2>4. rank[a] \in 1 .. 4 /\ rank[b] \in 1 .. 4
    BY <2>2, <2>3
  <2> QED
    BY <2>2, <2>3, <2>4
<1> QED
  BY <1>10, <1>11, <1>12 DEF Best

(* Counting up, util_name2file finds each matching file of a host once,    *)
(* those that mention the name before those that only have a wildcard, and *)
(* the one with that path first.                                           *)
THEOREM BestFirst == Spec => []BestMatch
<1>1. ASSUME TypeInv PROVE BestMatch
  <2>1. ASSUME NEW h \in Range(conf.hosts), NEW service,
               NEW name \in UNION {{f.path, f.name} \cup Range(f.aliases) : f \in Range(h.files)},
               NEW nth, nth = [no \in 1 .. Len(h.files) |-> util_name2file(h, service, name, no - 1)],
               NEW matching,
               matching = {f \in Range(h.files) : Matches(f, service, name)}
        PROVE  Best(h.files, name, service, nth, matching)
    <3>1. h \in ListedHosts
      <4>1. conf.hosts \in Seq(ListedHosts)
        BY <1>1 DEF TypeInv, ConfTypes
      <4> QED
        BY <4>1, ElementOfSeq DEF Range
    <3>2. h.files \in FileLists /\ \A i \in DOMAIN h.files : h.files[i].path # Unset
      BY <3>1 DEF ListedHosts, Hosts
    <3>3. name # Unset
      <4>1. PICK f \in Range(h.files) : name \in {f.path, f.name} \cup Range(f.aliases)
        OBVIOUS
      <4>2. PICK i \in DOMAIN h.files : f = h.files[i]
        BY DEF Range
      <4>3. f \in Files /\ f.path # Unset /\ f.name # Unset
        BY <3>2, <4>2, ElementOfSeq DEF FileLists
      <4>4. f.aliases \in Seq(Tokens)
        BY <4>3 DEF Files
      <4>5. \A w \in Range(f.aliases) : w # Unset
        BY <4>4, ElementOfSeq, UnsetNoToken DEF Range
      <4> QED
        BY <4>1, <4>3, <4>5
    <3> PICK files : files = h.files
      OBVIOUS
    <3>4. /\ h.files = files /\ files \in FileLists /\ \A i \in DOMAIN files : files[i].path # Unset
          /\ nth = [no \in 1 .. Len(files) |-> util_name2file(h, service, name, no - 1)]
          /\ matching = {f \in Range(files) : Matches(f, service, name)}
      BY <2>1, <3>2
    <3>5. Best(files, name, service, nth, matching)
      BY <3>3, <3>4, HostBest
    <3> QED
      BY <3>5
  <2> DEFINE Nth(h, service, name) ==
               [no \in 1 .. Len(h.files) |-> util_name2file(h, service, name, no - 1)]
             Matching0(h, service, name) ==
               {f \in Range(h.files) : service \in f.service
                                         /\ (Mentions(f, name) \/ Mentions(f, <<"*">>))}
  <2>2. ASSUME NEW h \in Range(conf.hosts), NEW service \in {<<"tftp">>, <<"rmp">>},
               NEW name \in UNION {{f.path, f.name} \cup Range(f.aliases) : f \in Range(h.files)}
        PROVE  Best(h.files, name, service, Nth(h, service, name), Matching0(h, service, name))
    <3>1. PICK nth, matching : nth = Nth(h, service, name) /\ matching = Matching0(h, service, name)
      OBVIOUS
    <3>2. matching = {f \in Range(h.files) : Matches(f, service, name)}
      BY <3>1 DEF Matches, Wildcard
    <3>3. Best(h.files, name, service, nth, matching)
      BY <2>1, <3>1, <3>2
    <3> QED
      BY <3>1, <3>3
  <2> QED
    BY <2>2, Zenon DEF BestMatch, Best
<1> QED
  BY <1>1, Types, PTL

----------------------------------------------------------------------------
(* The tree of the statements, while every token so far is where a well    *)
(* formed file has it: between statements the entries are those of the     *)
(* tokens taken and the recursion of parse_sub stands in the blocks that   *)
(* are open; within one they are those of the tokens before the one in the *)
(* buffer.  A file that ends within a statement leaves its last token in   *)
(* the buffer, and the statement never ends.                               *)
AtEnd(p) == p = <<>> \/ p[Len(p)] \in Punctuation
Building(p, b) == taken = Append(p, word) /\ Written(p, ents) /\ Nested(p, open) /\ Current(p, b)
Stuck == Over /\ word # StmtEnd /\ word # BlockOpen

TreeOK ==
    /\ phase = "name" => Written(taken, ents) /\ AtEnd(taken) /\ (Over \/ Nested(taken, open))
    /\ phase = "values" => Stuck \/ \E p \in Seq(Tokens) : \E b \in Nat : Building(p, b)
    /\ phase = "log" => Written(taken, ents) /\ AtEnd(taken) /\ Over

TreeInv == Local(taken) => TreeOK

LEMMA TreeTypes ==
  ASSUME TypeInv
  PROVE  /\ taken \in Seq(Tokens) /\ word \in Tokens /\ ents \in Trees /\ text \in Tokens
         /\ phase \in Phases
         /\ Parsing => open \in Seq(DOMAIN ents) /\ open # <<>> /\ open \in Seq(Nat)
                       /\ Len(open) \in Nat \ {0}
<1>1. /\ taken \in Seq(Tokens) /\ word \in Tokens /\ ents \in Trees /\ text \in Tokens
      /\ phase \in Phases
      /\ Parsing => open \in Seq(DOMAIN ents) /\ open # <<>>
  BY DEF TypeInv, ParseInv, ParseTypes, Stack
<1>2. DOMAIN ents \subseteq Nat
  BY <1>1, TreeFacts
<1>3. ASSUME Parsing PROVE open \in Seq(Nat) /\ Len(open) \in Nat \ {0}
  <2>1. open \in Seq(DOMAIN ents) /\ open # <<>>
    BY <1>1, <1>3
  <2> QED
    BY <1>2, <2>1, SeqMonotonic, EmptySeq, LenProperties
<1> QED
  BY <1>1, <1>3

LEMMA EndBlockTree ==
  ASSUME TypeInv, TypeInv', TreeInv, EndBlock
  PROVE  TreeInv'
<1>1. /\ phase = "name" /\ Parsing /\ Advance(word) /\ open' = Pop
      /\ phase' = (IF open' = <<>> THEN "log" ELSE "name") /\ text' = text
      /\ Upcoming = NoToken \/ Upcoming = BlockClose
  BY Zenon DEF EndBlock, Parsing, BlockClose
<1>2. /\ taken \in Seq(Tokens) /\ word \in Tokens /\ ents \in Trees /\ text \in Tokens
      /\ open \in Seq(Nat) /\ ents' \in Trees /\ Len(open) \in Nat \ {0}
  <2>1. ents' \in Trees
    BY DEF TypeInv, ParseInv, ParseTypes
  <2> QED
    BY <1>1, <2>1, TreeTypes
<1>3. PICK sub : ents' = [ents EXCEPT ![Last(open)].sub = sub]
  BY DEF EndBlock
<1>4. /\ Len(ents') = Len(ents)
      /\ \A e \in 1 .. Len(ents) : /\ ents'[e].name = ents[e].name
                                   /\ ents'[e].values = ents[e].values
                                   /\ ents'[e].parent = ents[e].parent
  <2>1. DOMAIN ents' = DOMAIN ents /\ DOMAIN ents = 1 .. Len(ents)
        /\ DOMAIN ents' = 1 .. Len(ents') /\ Len(ents) \in Nat /\ Len(ents') \in Nat
    BY <1>2, <1>3, TreeFacts
  <2>2. \A e \in DOMAIN ents : ents[e] \in Entries
    BY <1>2, TreeFacts
  <2>3. Len(ents') = Len(ents)
    BY <2>1
  <2> QED
    BY <1>3, <2>1, <2>2, <2>3 DEF Entries
<1>5. SUFFICES ASSUME Local(taken') PROVE TreeOK'
  BY DEF TreeInv
<1>6. CASE Upcoming = NoToken
  <2>1. taken' = taken /\ Over'
    BY <1>1, <1>2, <1>6, AdvanceTypes, AtTheEnd DEF TypeInv
  <2>2. Written(taken, ents) /\ AtEnd(taken)
    BY <1>1, <1>5, <2>1 DEF TreeInv, TreeOK
  <2>3. Written(taken, ents')
    BY <1>4, <2>2, WrittenEdit
  <2> QED
    BY <1>1, <2>1, <2>2, <2>3 DEF TreeOK
<1>7. CASE Upcoming = BlockClose /\ Upcoming # NoToken
  <2>1. taken' = Append(taken, BlockClose) /\ BlockClose \in Tokens /\ ~Over
    BY <1>1, <1>2, <1>7, AdvanceTypes, AtTheEnd DEF TypeInv
  <2>2. PICK q : q = taken'
    OBVIOUS
  <2>3. PICK n : n = Len(taken)
    OBVIOUS
  <2>4. Local(taken) /\ Level(q, n + 1) >= 0
    BY <1>2, <1>5, <2>1, <2>2, <2>3, LocalBefore
  <2>5. Written(taken, ents) /\ AtEnd(taken) /\ Nested(taken, open)
    BY <1>1, <2>1, <2>4 DEF TreeInv, TreeOK
  <2>6. Written(taken, ents')
    BY <1>4, <2>5, WrittenEdit
  <2>7. BlockClose \in Punctuation
    BY PunctuationIs
  <2>8. Written(q, ents')
    BY <1>2, <2>1, <2>2, <2>6, <2>7, WrittenPunctuation
  <2>9. Nested(q, open') /\ open' # <<>>
    <3>1. open' = Front(open)
      BY <1>1 DEF Pop
    <3> QED
      BY <1>2, <2>1, <2>2, <2>3, <2>4, <2>5, <3>1, NestedClose
  <2>10. AtEnd(q)
    <3>1. q[Len(q)] = BlockClose
      BY <1>2, <2>1, <2>2, AppendProperties
    <3> QED
      BY <2>7, <3>1 DEF AtEnd
  <2>11. phase' = "name"
    BY <1>1, <2>9
  <2> QED
    BY <2>2, <2>8, <2>9, <2>10, <2>11 DEF TreeOK
<1> QED
  BY <1>1, <1>6, <1>7

LEMMA NewEntryTree ==
  ASSUME TypeInv, TypeInv', TreeInv, NewEntry
  PROVE  TreeInv'
<1>1. PICK first : first = gen_tokenize_next(text, z)
  OBVIOUS
<1>2. PICK second : second = gen_tokenize_next(text, first.z)
  OBVIOUS
<1>3. /\ phase = "name" /\ phase' = "values" /\ Parsing /\ open' = open /\ text' = text
      /\ Upcoming # NoToken /\ Upcoming # BlockClose
  BY Zenon DEF NewEntry, Parsing, BlockClose
<1>4. PICK p : p = Append(taken, first.w)
  OBVIOUS
<1>5. /\ first.w \in Tokens /\ first.w # NoToken /\ first.w # BlockClose
      /\ word' = (IF second.w = NoToken THEN first.w ELSE second.w)
      /\ ents' = Append(ents, Entry(first.w, Last(open)))
      /\ z' = second.z
      /\ taken' = IF second.w = NoToken THEN p ELSE Append(p, second.w)
  BY <1>1, <1>2, <1>3, <1>4, NewEntryTypes DEF TypeInv, Upcoming
<1>6. /\ taken \in Seq(Tokens) /\ ents \in Trees /\ text \in Tokens
      /\ open \in Seq(Nat) /\ Len(open) \in Nat \ {0}
      /\ RingOK(text, z) /\ Lexed(text, taken \o Queue(z), z.pos)
  BY <1>3, TreeTypes DEF TypeInv, ParseInv, ParseTypes
<1>7. p \in Seq(Tokens) /\ RingOK(text, first.z) /\ Lexed(text, p \o Queue(first.z), first.z.pos)
  BY <1>1, <1>4, <1>5, <1>6, NextIs
<1>8. /\ second.w = NoToken => Queue(second.z) = <<>> /\ second.z.pos = Len(text) + 1
      /\ second.w # NoToken => second.w \in Tokens
  BY <1>2, <1>6, <1>7, NextIs
<1>9. SUFFICES ASSUME Local(taken') PROVE TreeOK'
  BY DEF TreeInv
<1>10. Local(p)
  <2>1. CASE second.w = NoToken
    BY <1>5, <1>9, <2>1
  <2>2. CASE second.w # NoToken
    <3>1. PICK q, n, w : q = taken' /\ n = Len(p) /\ w = second.w
      OBVIOUS
    <3>2. q = Append(p, w) /\ w \in Tokens /\ Local(q)
      BY <1>5, <1>8, <1>9, <2>2, <3>1
    <3> QED
      BY <1>7, <3>1, <3>2, LocalBefore
  <2> QED
    BY <2>1, <2>2
<1>11. PICK n, w : n = Len(taken) /\ w = first.w
  OBVIOUS
<1>12. /\ Local(taken)
       /\ w \in {StmtEnd, BlockOpen} => n # 0 /\ taken[n] \notin Punctuation
  BY <1>4, <1>5, <1>6, <1>10, <1>11, LocalBefore
<1>13. n \in Nat /\ Written(taken, ents) /\ (n = 0 \/ taken[n] \in Punctuation)
  <2>1. Written(taken, ents) /\ AtEnd(taken)
    BY <1>3, <1>12 DEF TreeInv, TreeOK
  <2> QED
    BY <1>6, <1>11, <2>1, LenProperties DEF AtEnd
<1>14. w \notin Punctuation /\ w # StmtEnd /\ w # BlockOpen
  BY <1>5, <1>11, <1>12, <1>13, PunctuationIs
<1>15. ~Over
  <2>1. ASSUME Over PROVE FALSE
    <3>1. Lexed(text, taken, Len(text) + 1)
      BY <1>6, <2>1, ConcatEmptySeq DEF Over
    <3>2. Len(p \o Queue(first.z)) <= Len(taken)
      BY <1>6, <1>7, <3>1, LexedLongest
    <3>3. /\ Queue(first.z) \in Seq(Tokens) /\ Len(Queue(first.z)) \in Nat
          /\ Len(p) = n + 1
      BY <1>4, <1>5, <1>6, <1>7, <1>11, QueueIs, LenProperties, AppendProperties
    <3>4. Len(p \o Queue(first.z)) = n + 1 + Len(Queue(first.z))
      BY <1>7, <3>3, ConcatProperties
    <3> QED
      BY <1>11, <1>13, <3>2, <3>3, <3>4
  <2> QED
    BY <2>1
<1>16. Nested(taken, open)
  BY <1>3, <1>12, <1>15 DEF TreeInv, TreeOK
<1>17. PICK o : o = open
  OBVIOUS
<1>18. Nested(p, o) /\ ParentIn(p, n + 1, o[Len(o)])
  <2>1. w # BlockOpen /\ w # BlockClose /\ w \in Tokens /\ p = Append(taken, w)
    BY <1>4, <1>5, <1>11, <1>14
  <2> QED
    BY <1>6, <1>11, <1>16, <1>17, <2>1, NestedSame
<1>19. PICK x, t, u : x = Entry(first.w, Last(open)) /\ t = ents /\ u = ents'
  OBVIOUS
<1>20. x.name = w /\ x.values = <<>> /\ x.parent = o[Len(o)]
  BY <1>11, <1>17, <1>19 DEF Entry, Last
<1>21. Len(u) = Len(t) + 1 /\ u[Len(t) + 1] = x /\ \A e \in 1 .. Len(t) : u[e] = t[e]
  <2>1. ents' \in Trees
    BY DEF TypeInv, ParseInv, ParseTypes
  <2>2. u \in Seq(Entries) /\ t \in Seq(Entries) /\ u = Append(t, x)
    BY <1>5, <1>6, <1>19, <2>1, TreeFacts
  <2> QED
    BY <2>2
<1>22. Written(p, u) /\ Current(p, n + 1)
  <2>1. w \in Tokens /\ w \notin Punctuation /\ p = Append(taken, w) /\ Written(taken, t)
        /\ ParentIn(p, n + 1, x.parent)
    BY <1>4, <1>5, <1>11, <1>13, <1>14, <1>18, <1>19, <1>20
  <2> QED
    BY <1>6, <1>11, <1>13, <1>20, <1>21, <2>1, WrittenStart
<1>23. CASE second.w = NoToken
  <2>1. Over' /\ word' = w
    BY <1>3, <1>5, <1>8, <1>11, <1>23 DEF Over
  <2>2. Stuck'
    BY <1>14, <2>1 DEF Stuck
  <2> QED
    BY <1>3, <2>2 DEF TreeOK
<1>24. CASE second.w # NoToken
  <2>1. taken' = Append(p, word')
    BY <1>5, <1>24
  <2>2. n + 1 \in Nat /\ Building(p, n + 1)'
    BY <1>3, <1>13, <1>17, <1>18, <1>19, <1>22, <2>1 DEF Building
  <2> QED
    BY <1>3, <1>7, <2>2 DEF TreeOK
<1> QED
  BY <1>23, <1>24

(* The token in the buffer ends the statement or opens its block.          *)
LEMMA EndStatementTree ==
  ASSUME TypeInv, TreeInv, EndStatement
  PROVE  TreeInv'
<1>1. /\ phase = "values" /\ phase' = "name" /\ ents' = ents /\ open' = open /\ taken' = taken
      /\ word = StmtEnd
  BY Zenon DEF EndStatement, StmtEnd
<1>2. SUFFICES ASSUME Local(taken) PROVE TreeOK'
  BY <1>1 DEF TreeInv
<1>3. PICK p \in Seq(Tokens) : \E b \in Nat : Building(p, b)
  BY <1>1, <1>2 DEF TreeInv, TreeOK, Stuck
<1>4. PICK b \in Nat : Building(p, b)
  BY <1>3
<1>5. /\ taken = Append(p, word) /\ Written(p, ents) /\ Nested(p, open)
  BY <1>4 DEF Building
<1>6. word \in Tokens /\ word \in Punctuation /\ word # BlockOpen /\ word # BlockClose
  BY <1>1, TreeTypes, PunctuationIs
<1>7. Written(taken, ents)
  BY <1>5, <1>6, WrittenPunctuation
<1>8. Nested(taken, open)
  <2>1. PICK n, q, o, w : n = Len(p) /\ q = taken /\ o = open /\ w = word
    OBVIOUS
  <2>2. q = Append(p, w) /\ Nested(p, o) /\ w \in Tokens /\ w # BlockOpen /\ w # BlockClose
    BY <1>5, <1>6, <2>1
  <2> QED
    BY <2>1, <2>2, NestedSame
<1>9. AtEnd(taken)
  <2>1. taken[Len(taken)] = word
    BY <1>5, <1>6, AppendProperties
  <2> QED
    BY <1>6, <2>1 DEF AtEnd
<1> QED
  BY <1>1, <1>7, <1>8, <1>9 DEF TreeOK

LEMMA OpenBlockTree ==
  ASSUME TypeInv, TreeInv, OpenBlock
  PROVE  TreeInv'
<1>1. /\ phase = "values" /\ phase' = "name" /\ ents' = ents /\ open' = Append(open, Len(ents))
      /\ taken' = taken /\ word = BlockOpen
  BY Zenon DEF OpenBlock, BlockOpen
<1>2. SUFFICES ASSUME Local(taken) PROVE TreeOK'
  BY <1>1 DEF TreeInv
<1>3. PICK p \in Seq(Tokens) : \E b \in Nat : Building(p, b)
  BY <1>1, <1>2 DEF TreeInv, TreeOK, Stuck
<1>4. PICK b \in Nat : Building(p, b)
  BY <1>3
<1>5. /\ taken = Append(p, word) /\ Written(p, ents) /\ Nested(p, open) /\ Current(p, b)
  BY <1>4 DEF Building
<1>6. word \in Tokens /\ word \in Punctuation
  BY <1>1, TreeTypes, PunctuationIs
<1>7. Written(taken, ents)
  BY <1>5, <1>6, WrittenPunctuation
<1>8. Nested(taken, open')
  <2>1. PICK n, q, o, e, r : n = Len(p) /\ q = taken /\ o = open /\ e = Len(ents) /\ r = open'
    OBVIOUS
  <2>2. /\ q = Append(p, BlockOpen) /\ Nested(p, o) /\ BlockOpen \in Tokens /\ Current(p, b)
        /\ r = Append(o, e)
    BY <1>1, <1>5, <1>6, <2>1
  <2>3. o \in Seq(Nat) /\ e \in Nat /\ e = No(p, n)
    BY <1>1, <1>5, <2>1, TreeTypes, TreeFacts DEF Written, Parsing
  <2>4. Nested(q, r)
    BY <2>1, <2>2, <2>3, NestedOpen
  <2> QED
    BY <2>1, <2>4
<1>9. AtEnd(taken)
  <2>1. taken[Len(taken)] = word
    BY <1>5, <1>6, AppendProperties
  <2> QED
    BY <1>6, <2>1 DEF AtEnd
<1> QED
  BY <1>1, <1>7, <1>8, <1>9 DEF TreeOK

LEMMA ValueTree ==
  ASSUME TypeInv, TypeInv', TreeInv, Value
  PROVE  TreeInv'
<1>1. /\ phase = "values" /\ phase' = phase /\ Parsing /\ Advance(word) /\ open' = open
      /\ text' = text /\ word # StmtEnd /\ word # BlockOpen
      /\ ents' = [ents EXCEPT ![Len(ents)].values = Append(@, word)]
  BY Zenon DEF Value, IsValue, Parsing, StmtEnd, BlockOpen
<1>2. /\ taken \in Seq(Tokens) /\ word \in Tokens /\ ents \in Trees /\ text \in Tokens
      /\ ents' \in Trees
  <2>1. ents' \in Trees
    BY DEF TypeInv, ParseInv, ParseTypes
  <2> QED
    BY <2>1, TreeTypes
<1>3. /\ Upcoming = NoToken => word' = word /\ taken' = taken /\ Over'
      /\ Upcoming # NoToken => /\ taken' = Append(taken, Upcoming) /\ word' = Upcoming
                               /\ Upcoming \in Tokens /\ ~Over
  BY <1>1, <1>2, AdvanceTypes, AtTheEnd DEF TypeInv
<1>4. SUFFICES ASSUME Local(taken') PROVE TreeOK'
  BY DEF TreeInv
<1>5. CASE Upcoming = NoToken
  <2>1. Stuck'
    BY <1>1, <1>3, <1>5 DEF Stuck
  <2> QED
    BY <1>1, <2>1 DEF TreeOK
<1>6. CASE Upcoming # NoToken
  <2>1. Local(taken)
    <3>1. PICK q, n, w : q = taken' /\ n = Len(taken) /\ w = Upcoming
      OBVIOUS
    <3>2. q = Append(taken, w) /\ w \in Tokens /\ Local(q)
      BY <1>3, <1>4, <1>6, <3>1
    <3> QED
      BY <1>2, <3>1, <3>2, LocalBefore
  <2>2. PICK p \in Seq(Tokens) : \E b \in Nat : Building(p, b)
    BY <1>1, <1>3, <1>6, <2>1 DEF TreeInv, TreeOK, Stuck
  <2>3. PICK b \in Nat : Building(p, b)
    BY <2>2
  <2>4. taken = Append(p, word) /\ Written(p, ents) /\ Nested(p, open) /\ Current(p, b)
    BY <2>3 DEF Building
  <2> PICK n, q, w, o, t, u : n = Len(p) /\ q = taken /\ w = word /\ o = open /\ t = ents /\ u = ents'
    OBVIOUS
  <2>5. /\ q = Append(p, w) /\ w \in Tokens /\ Local(q) /\ Written(p, t) /\ Nested(p, o)
        /\ Current(p, b) /\ w # StmtEnd /\ w # BlockOpen
    BY <1>1, <1>2, <2>1, <2>4
  <2>6. w # BlockClose /\ w \notin Punctuation
    <3>1. w = BlockClose => p[n] \in Punctuation
      BY <2>5, LocalBefore
    <3>2. p[n] \notin Punctuation
      BY <2>5, CurrentIs
    <3> QED
      BY <2>5, <3>1, <3>2, PunctuationIs
  <2>7. Nested(q, o)
    BY <2>5, <2>6, NestedSame
  <2>8. ValueAdded(t, u, w)
    <3>1. /\ t \in Trees /\ u \in Trees /\ Len(u) = Len(t)
          /\ u = [t EXCEPT ![Len(t)].values = Append(@, w)]
      BY <1>1, <1>2, ValueInv DEF TypeInv
    <3>2. /\ DOMAIN t = 1 .. Len(t) /\ Len(t) \in Nat \ {0} /\ Len(t) \in DOMAIN t
          /\ \A e \in DOMAIN t : t[e] \in Entries
      BY <3>1, TreeFacts
    <3>3. \A e \in 1 .. Len(t) : e # Len(t) => u[e] = t[e]
      BY <3>1, <3>2
    <3>4. /\ u[Len(t)].name = t[Len(t)].name /\ u[Len(t)].parent = t[Len(t)].parent
          /\ u[Len(t)].values = Append(t[Len(t)].values, w)
      BY <3>1, <3>2 DEF Entries
    <3> QED
      BY <3>1, <3>3, <3>4 DEF ValueAdded
  <2>9. Written(q, u) /\ Current(q, b)
    BY <2>5, <2>6, <2>8, WrittenValue
  <2>10. Building(q, b)'
    BY <1>1, <1>3, <1>6, <2>7, <2>9 DEF Building
  <2>11. q \in Seq(Tokens)
    BY <1>2
  <2> QED
    BY <1>1, <2>10, <2>11 DEF TreeOK
<1> QED
  BY <1>5, <1>6

(* What the evaluation does is of no concern.                              *)
LEMMA EvalTree ==
  ASSUME TypeInv, Eval
  PROVE  TreeInv'
<1>1. \E d \in Contexts, next \in EvalPhases \cup {"accepted"} : Becomes(d, next) /\ next # "log"
  <2>1. CASE EvalLog
    BY <2>1, LogStep, StartIs DEF LogIs, From, EvalPhases
  <2>2. CASE EvalBasic
    BY <2>2, BasicStep, StartIs DEF From, EvalPhases
  <2>3. CASE EvalService
    BY <2>3, ServiceStep, StartIs DEF From, EvalPhases
  <2>4. CASE EvalHost
    BY <2>4, HostStep, StartIs DEF From, EvalPhases
  <2>5. CASE EvalCheck
    BY <2>5, CheckStep, StartIs DEF From, EvalPhases
  <2> QED
    BY <2>1, <2>2, <2>3, <2>4, <2>5 DEF Eval
<1>2. phase' \notin {"name", "values", "log"}
  BY <1>1 DEF Becomes, EvalPhases, Contexts, Statuses
<1> QED
  BY <1>2 DEF TreeInv, TreeOK

LEMMA StepTree ==
  ASSUME TypeInv, TypeInv', TreeInv, [Next]_vars
  PROVE  TreeInv'
<1>1. CASE UNCHANGED parseVars
  <2>1. /\ text' = text /\ z' = z /\ ents' = ents /\ open' = open /\ word' = word
        /\ phase' = phase /\ taken' = taken
    BY <1>1 DEF parseVars
  <2>2. \A p, b : Building(p, b)' <=> Building(p, b)
    BY <2>1 DEF Building
  <2>3. (Over' <=> Over) /\ (Stuck' <=> Stuck)
    BY <2>1 DEF Over, Stuck
  <2> QED
    BY <2>1, <2>2, <2>3 DEF TreeInv, TreeOK
<1>2. CASE TooManyValues
  <2>1. phase' = "exited"
    BY <1>2 DEF TooManyValues
  <2> QED
    BY <2>1 DEF TreeInv, TreeOK
<1>3. CASE Eval
  BY <1>3, EvalTree
<1>4. CASE ParseStep
  BY <1>1, <1>2, <1>4, EndBlockTree, NewEntryTree, EndStatementTree, OpenBlockTree, ValueTree
     DEF ParseStep, Separator
<1>5. \/ UNCHANGED parseVars
      \/ ParseStep
      \/ Eval
  BY DEF Next, Step, Done, Eval, vars
<1> QED
  BY <1>1, <1>3, <1>4, <1>5

LEMMA InitTree == Init => TreeInv
<1> SUFFICES ASSUME Init PROVE TreeInv
  OBVIOUS
<1>1. phase = "name" /\ taken = <<>> /\ open = <<Root>> /\ Len(ents) = 1
  BY DEF Init, ParseInit
<1>2. Written(<<>>, ents) /\ Nested(<<>>, open)
  BY <1>1, NoStatements
<1> QED
  BY <1>1, <1>2 DEF TreeInv, TreeOK, AtEnd

LEMMA AlwaysTree == Spec => [](TypeInv /\ TreeInv)
<1>1. Init => TypeInv /\ TreeInv
  BY InitTypes, InitTree
<1>2. TypeInv /\ TreeInv /\ [Next]_vars => (TypeInv /\ TreeInv)'
  BY StepTypes, StepTree
<1> QED
  BY <1>1, <1>2, PTL DEF Spec

(* At the end of a plain text all its tokens have been taken.              *)
LEMMA AllTaken ==
  ASSUME TypeInv, Over, Plain(text)
  PROVE  Len(taken) = Cardinality(TokenStarts(text))
<1>1. /\ text \in Tokens /\ RingOK(text, z) /\ Lexed(text, taken \o Queue(z), z.pos)
      /\ taken \in Seq(Tokens)
  BY DEF TypeInv, ParseInv, ParseTypes
<1>2. Lexed(text, taken, Len(text) + 1)
  BY <1>1, ConcatEmptySeq DEF Over
<1>3. PICK starts : starts = InOrder(TokenStarts(text), Len(text))
  OBVIOUS
<1>4. Len(text) \in Nat /\ TokenStarts(text) \in SUBSET (1 .. Len(text))
  BY <1>1, TextIs, TokenStartsIs DEF RunStarts, TextFacts
<1>5. InOrderSeq(starts, TokenStarts(text))
  BY <1>3, <1>4, InOrderIs
<1>6. Len(taken) = Len(starts)
  BY <1>1, <1>2, <1>5, LexedPlain
<1> QED
  BY <1>4, <1>5, <1>6, InOrderCount

(* A well formed file becomes the tree that is written in it (parse_sub):  *)
(* every statement, in order, with its values, in its block, and with      *)
(* nothing left unread.                                                    *)
THEOREM ParsesWhatIsWritten == Spec => []ParsedAsWritten
<1>1. ASSUME TypeInv, TreeInv PROVE ParsedAsWritten
  <2>1. SUFFICES ASSUME phase = "log", WellFormed
        PROVE  /\ Plain(text) => Len(taken) = Cardinality(TokenStarts(text))
               /\ Len(ents) = 1 + Cardinality({i \in DOMAIN taken : Begins(i)})
               /\ \A i \in DOMAIN taken : Begins(i) =>
                     LET e == ents[Number(i)]
                     IN  e.name = taken[i] /\ e.values = ValuesOf(i) /\ e.parent = ParentOf(i)
    BY Zenon DEF ParsedAsWritten
  <2> PICK p : p = taken
    OBVIOUS
  <2>2. /\ taken \in Seq(Tokens) /\ Len(p) \in Nat /\ DOMAIN taken = 1 .. Len(p)
        /\ Same(p) /\ Local(taken)
    BY <1>1, <2>1, TreeTypes, SameWords, LenProperties
  <2>3. Written(p, ents) /\ AtEnd(p) /\ Over
    BY <1>1, <2>1, <2>2 DEF TreeInv, TreeOK
  <2>4. Plain(text) => Len(taken) = Cardinality(TokenStarts(text))
    BY <1>1, <2>3, AllTaken
  <2>5. Len(ents) = 1 + Cardinality({i \in DOMAIN taken : Begins(i)})
    <3>1. {i \in DOMAIN taken : Begins(i)} = {i \in 1 .. Len(p) : Starting(p, i)}
      BY <2>2 DEF Same
    <3> QED
      BY <2>3, <3>1 DEF Written, No
  <2>6. ASSUME NEW i \in DOMAIN taken, Begins(i), NEW e, e = ents[Number(i)]
        PROVE  e.name = taken[i] /\ e.values = ValuesOf(i) /\ e.parent = ParentOf(i)
    <3>1. i \in 1 .. Len(p) /\ i \in 0 .. Len(p) /\ Starting(p, i) /\ Number(i) = No(p, i)
      BY <2>2, <2>6 DEF Same
    <3>2. IsEntry(p, i, e)
      BY <2>3, <2>6, <3>1 DEF Written
    <3>3. PICK end \in i .. Len(p) : EndsAt(p, i, end) /\ e.values = SubSeq(p, i + 1, end)
      BY <3>2 DEF IsEntry
    <3>4. e.name = p[i] /\ ParentIn(p, i, e.parent)
      BY <3>2 DEF IsEntry
    <3>5. p[Len(p)] \in Punctuation
      <4>1. p # <<>>
        BY <3>1
      <4> QED
        BY <2>3, <4>1 DEF AtEnd
    <3>6. ValuesOf(i) = SubSeq(p, i + 1, end)
      BY <2>2, <3>1, <3>3, <3>5, ValuesAre
    <3>7. ParentOf(i) = e.parent
      BY <2>2, <3>1, <3>4, ParentIs
    <3> QED
      BY <3>3, <3>4, <3>6, <3>7
  <2> QED
    BY <2>4, <2>5, <2>6
<1> QED
  BY <1>1, AlwaysTree, PTL
=============================================================================
