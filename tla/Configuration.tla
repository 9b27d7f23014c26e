--------------------------- MODULE Configuration ---------------------------
(***************************************************************************)
(* The evaluation of the parsed configuration (conf.c) into the settings,  *)
(* the services' devices and addresses, and the host and file tables       *)
(* (host.c, util.c).  The log and basic settings, each "service" and each  *)
(* "host" statement are one action; an entry is marked processed when it   *)
(* is found, so that a later search finds the next one.                    *)
(*                                                                         *)
(* An address is the word it is written as; all words are lower case.      *)
(* EtherOf and IpOf stand for /etc/ethers and the resolver.  A set of      *)
(* services is a set of their names; SERVICE_ALL has other bits too.       *)
(* The member "entry" of a host is not in the code: it is the statement    *)
(* the host comes from, for the properties.                                *)
(*                                                                         *)
(* MarkNothing, NoCheck, NameAsAddress, LastWins and WildcardFirst are     *)
(* faulty variants, used only to confirm that the properties can fail.     *)
(***************************************************************************)
EXTENDS ConfigFile

CONSTANTS
    AliasesMax,            \* FILE_ALIASES_MAX
    Numbers,               \* words that are numbers
    EtherWords, IpWords,   \* words that are addresses
    EtherOf, IpOf          \* the addresses of host names

Unset == <<"">>    \* a null pointer, an address of zeros

ASSUME AliasesMaxAssumption == AliasesMax \in Nat
ASSUME AddressAssumption ==
    /\ Unset \notin EtherWords \cup IpWords \cup DOMAIN EtherOf \cup DOMAIN IpOf
    /\ EtherOf \in [DOMAIN EtherOf -> EtherWords]
    /\ IpOf \in [DOMAIN IpOf -> IpWords]

VARIABLES
    conf,     \* log, settings, hosts in the order of g_hosts, what services listen on
    steps     \* history: the number of steps, those that skip a separator not counted

vars == <<parseVars, conf, steps>>

NewHost == [name |-> Unset, ether |-> Unset, ip |-> Unset, service |-> {}, files |-> <<>>,
            entry |-> 0]
NewFile == [path |-> Unset, name |-> Unset, server |-> Unset, aliases |-> <<>>, service |-> {}]

Defaults ==
    [log |-> [file |-> Unset, level |-> <<"debug">>],
     set |-> [chroot |-> Unset, directory |-> Unset, resolve_ether |-> TRUE,
              resolve_ip |-> TRUE, session_max |-> <<"5">>, session_timeout |-> <<"120">>],
     hosts |-> <<>>, asked |-> {}]

Init == ParseInit /\ conf = Defaults /\ steps = 0

----------------------------------------------------------------------------
(* The evaluation works on the record c: what conf holds, the entries, the *)
(* host h and the file f being built, and how the daemon fares.            *)
Start == [log |-> conf.log, set |-> conf.set, hosts |-> conf.hosts, asked |-> conf.asked,
          ents |-> ents, h |-> NewHost, f |-> NewFile, status |-> "running"]
Stop(c, status) == [c EXCEPT !.status = status]

(* d, unless the daemon has stopped or the search for it, in the block of  *)
(* b, follows a pointer that was never assigned.                           *)
Reading(c, b, d) ==
    IF c.status # "running" THEN c
    ELSE IF c.ents[b].sub = "garbage" THEN Stop(c, "undefined")
    ELSE d

(* The entries parse_entry_get finds one after the other.                  *)
Unprocessed(c, b) == {e \in DOMAIN c.ents : c.ents[e].parent = b /\ ~c.ents[e].processed}
Matching(c, b, key) ==
    InOrder({e \in Unprocessed(c, b) : c.ents[e].name = <<key>>}, Len(c.ents))

MarkNothing(c, es) == c

Mark(c, es) ==
    [c EXCEPT !.ents = [e \in DOMAIN @ |->
       IF e \in Range(es) THEN [@[e] EXCEPT !.processed = TRUE] ELSE @[e]]]

NoCheck(c, b) == c

(* i_assure_no_entry(block, NULL): "unknown keyword".                      *)
NoneLeft(c, b) == Reading(c, b, IF Unprocessed(c, b) = {} THEN c ELSE Stop(c, "exited"))

----------------------------------------------------------------------------
True == {<<"yes">>, <<"true">>, <<"ok">>, <<"1">>}
False == {<<"no">>, <<"false">>, <<"0">>}
Levels == {<<"debug">>, <<"info">>, <<"warn">>, <<"warning">>, <<"err">>, <<"error">>}

LinkNames == {<<"rarp">>, <<"mop">>, <<"rmp">>}
ServiceNames == LinkNames \cup {<<"dhcp">>, <<"tftp">>, <<"bootparam">>}
SERVICE_ALL == ServiceNames \cup {<<"other">>}

ServiceWords == ServiceNames \cup {<<"all">>, <<"none">>}
str_get_service(mask, w) ==
    CASE w = <<"all">> -> SERVICE_ALL
      [] w = <<"none">> -> {}
      [] OTHER -> mask \cup {w}

(* The first host of the list with that name or address.                   *)
Listed(c, key, v) == {i \in DOMAIN c.hosts : c.hosts[i][key] = v}
FirstListed(c, key, v) == c.hosts[Min(Listed(c, key, v))]

(* util_name2ether and util_name2ip: the address, Unset if there is none.  *)
Resolved(c, key, words, resolver, resolve, w) ==
    IF w \in words THEN w
    ELSE IF Listed(c, "name", w) # {} THEN FirstListed(c, "name", w)[key]
    ELSE IF resolve /\ w \in DOMAIN resolver THEN resolver[w]
    ELSE Unset
NameAsAddress(c, w) == IF w \in EtherWords \cup DOMAIN EtherOf THEN w ELSE Unset
util_name2ether(c, w) == Resolved(c, "ether", EtherWords, EtherOf, c.set.resolve_ether, w)
util_name2ip(c, w) == Resolved(c, "ip", IpWords, IpOf, c.set.resolve_ip, w)

(* What the word w of an entry means, and whether it is accepted: a host   *)
(* name for an address only if names are to be resolved.                   *)
Meaning(c, kind, w) ==
    CASE kind = "bool" -> w \in True
      [] kind = "ether" -> util_name2ether(c, w)
      [] kind = "ip" -> util_name2ip(c, w)
      [] OTHER -> w

Accepts(c, kind, w) ==
    CASE kind = "bool" -> w \in True \cup False
      [] kind = "int" -> w \in Numbers
      [] kind = "loglevel" -> w \in Levels
      [] kind = "ether" -> w \in EtherWords
                           \/ (c.set.resolve_ether /\ util_name2ether(c, w) # Unset)
      [] kind = "ip" -> w \in IpWords \/ (c.set.resolve_ip /\ util_name2ip(c, w) # Unset)
      [] kind = "string" -> TRUE

(* i_get_string and its like: the one entry with that key in the block of  *)
(* b, if any, gives c[dst][key] its value; a string must not have one.     *)
Get(c, b, dst, key, kind) ==
    LET es == Matching(c, b, key)
        w == c.ents[es[1]].values[1]
    IN  Reading(c, b,
          IF es = <<>> THEN c
          ELSE IF \/ Len(es) > 1
                  \/ Len(c.ents[es[1]].values) # 1
                  \/ ~Accepts(c, kind, w)
                  \/ kind = "string" /\ c[dst][key] # Unset
          THEN Stop(c, "exited")
          ELSE [Mark(c, es) EXCEPT ![dst][key] = Meaning(c, kind, w)])

Gets(c, b, dst, keys) ==
    LET got[i \in 0 .. Len(keys)] ==
          IF i = 0 THEN c ELSE Get(got[i - 1], b, dst, keys[i][1], keys[i][2])
    IN  got[Len(keys)]

Mask(start, words) ==
    LET mask[i \in 0 .. Len(words)] ==
          IF i = 0 THEN start ELSE str_get_service(mask[i - 1], words[i])
    IN  mask[Len(words)]

(* i_get_service: the words of all "service" entries, added to the mask.   *)
MaskOf(c, es, start) ==
    LET mask[i \in 0 .. Len(es)] ==
          IF i = 0 THEN start ELSE Mask(mask[i - 1], c.ents[es[i]].values)
    IN  mask[Len(es)]

GetService(c, b, dst) ==
    LET es == Matching(c, b, "service")
    IN  Reading(c, b,
          IF \A e \in Range(es) : Range(c.ents[e].values) \subseteq ServiceWords
          THEN [Mark(c, es) EXCEPT ![dst].service = MaskOf(c, es, @)]
          ELSE Stop(c, "exited"))

GetAliases(c, b) ==
    LET es == Matching(c, b, "alias")
    IN  Reading(c, b,
          IF Len(es) > AliasesMax \/ \E e \in Range(es) : Len(c.ents[e].values) # 1
          THEN Stop(c, "exited")
          ELSE [Mark(c, es) EXCEPT !.f.aliases = [i \in DOMAIN es |-> c.ents[es[i]].values[1]]])

Single(c, e) == IF Len(c.ents[e].values) = 1 THEN c.ents[e].values[1] ELSE Unset

----------------------------------------------------------------------------
i_eval_log_msg(c) ==
    LET es == Matching(c, Root, "log")
        e == es[1]
    IN  Reading(c, Root,
          IF es = <<>> THEN c
          ELSE IF Len(es) > 1 THEN Stop(c, "exited")
          ELSE NoneLeft(Gets(Mark(c, es), e, "log",
                             <<<<"file", "string">>, <<"level", "loglevel">>>>), e))

i_eval_basic(c) ==
    Gets(c, Root, "set",
         <<<<"chroot", "string">>, <<"directory", "string">>, <<"resolve_ether", "bool">>,
           <<"resolve_ip", "bool">>, <<"session_max", "int">>, <<"session_timeout", "int">>>>)

(* One "service" statement; what is not "device" or "bind" stays unread.   *)
EvalServiceEntry(c, e) ==
    LET w == Single(c, e)
        es == Matching(c, e, IF w \in LinkNames THEN "device" ELSE "bind")
        words == UNION {Range(c.ents[d].values) : d \in Range(es)}
    IN  IF w \notin ServiceNames THEN Stop(c, "exited")
        ELSE Reading(c, e, [Mark(c, <<e>> \o es) EXCEPT !.asked = @ \cup {<<w, v>> : v \in words}])

Slashes(w) == {i \in DOMAIN w : w[i] = "/"}
Basename(w) == IF Slashes(w) = {} THEN w ELSE SubSeq(w, Max(Slashes(w)) + 1, Len(w))

(* A file without a name is called like its first alias or its path; with  *)
(* none of them the null path is searched for a slash.                     *)
host_file_add(c) ==
    LET name == IF c.f.name # Unset THEN c.f.name
                ELSE IF c.f.aliases # <<>> THEN c.f.aliases[1]
                ELSE Basename(c.f.path)
    IN  IF c.status # "running" THEN c
        ELSE IF c.f.name = Unset /\ c.f.aliases = <<>> /\ c.f.path = Unset THEN Stop(c, "killed")
        ELSE IF \E f \in Range(c.h.files) : f.name = name THEN c
        ELSE [c EXCEPT !.h.files = Append(@, [c.f EXCEPT !.name = name])]

EvalFile(c, e) ==
    LET new == [Mark(c, <<e>>) EXCEPT !.f = [NewFile EXCEPT !.path = Single(c, e)]]
        named == Gets(new, e, "f", <<<<"path", "string">>, <<"name", "string">>>>)
        aliased == GetAliases(GetService(named, e, "f"), e)
    IN  IF c.status # "running" THEN c
        ELSE host_file_add(NoneLeft(Gets(aliased, e, "f", <<<<"server", "string">>>>), e))

EvalFiles(c, es) ==
    LET read[i \in 0 .. Len(es)] == IF i = 0 THEN c ELSE EvalFile(read[i - 1], es[i])
    IN  read[Len(es)]

i_eval_host_files(c, b) == Reading(c, b, EvalFiles(c, Matching(c, b, "file")))

(* util_ip2name, util_ether2name: from the table, the resolver, or the     *)
(* address as it is written.                                               *)
NameOf(c, key, resolver, resolve, addr) ==
    LET known == {n \in DOMAIN resolver : resolver[n] = addr}
    IN  IF Listed(c, key, addr) # {} THEN FirstListed(c, key, addr).name
        ELSE IF resolve /\ known # {} THEN CHOOSE n \in known : TRUE
        ELSE addr

LastWins(hosts, h) == Append(SelectSeq(hosts, LAMBDA n : n.name # h.name), h)

(* The end of host_add: an entry with the name of a listed one is ignored. *)
AddToList(hosts, h) ==
    IF \E n \in Range(hosts) : n.name = h.name THEN hosts ELSE Append(hosts, h)

(* host_add: the name from an address and the addresses from the name.  An *)
(* IP address that cannot be found ends the daemon, an ethernet address    *)
(* only if ethernet addresses are resolved; else the host is ignored.      *)
host_add(c, e) ==
    LET h == c.h
        name == IF h.name # Unset THEN h.name
                ELSE IF h.ip # Unset THEN NameOf(c, "ip", IpOf, c.set.resolve_ip, h.ip)
                ELSE NameOf(c, "ether", EtherOf, c.set.resolve_ether, h.ether)
        ip == IF h.ip # Unset THEN h.ip ELSE util_name2ip(c, name)
        ether == IF h.ether # Unset THEN h.ether ELSE util_name2ether(c, name)
        service == IF h.service = {} THEN SERVICE_ALL ELSE h.service
        files == [i \in DOMAIN h.files |-> IF h.files[i].service = {}
                                            THEN [h.files[i] EXCEPT !.service = service]
                                            ELSE h.files[i]]
    IN  IF c.status # "running" THEN c
        ELSE IF Unset = h.name /\ Unset = h.ip /\ Unset = h.ether THEN c
        ELSE IF ip = Unset THEN Stop(c, "exited")
        ELSE IF ether = Unset THEN IF c.set.resolve_ether THEN Stop(c, "exited") ELSE c
        ELSE IF \E f \in Range(files) : f.path = Unset THEN Stop(c, "killed")
        ELSE [c EXCEPT !.hosts = AddToList(@, [name |-> name, ip |-> ip, ether |-> ether,
                                     service |-> service, files |-> files, entry |-> e])]

(* One "host" statement.                                                   *)
EvalHostEntry(c, e) ==
    LET new == [Mark(c, <<e>>) EXCEPT !.h.name = Single(c, e)]
        addressed == Gets(new, e, "h", <<<<"name", "string">>, <<"ether", "ether">>,
                                         <<"ip", "ip">>>>)
        filed == i_eval_host_files(GetService(addressed, e, "h"), e)
    IN  host_add(NoneLeft(filed, e), e)

----------------------------------------------------------------------------
(* The step that made c of the entries and the configuration.              *)
Becomes(c, next) ==
    /\ ents' = c.ents
    /\ conf' = [log |-> c.log, set |-> c.set, hosts |-> c.hosts, asked |-> c.asked]
    /\ phase' = IF c.status = "running" THEN next ELSE c.status
    /\ UNCHANGED <<text, z, open, word, taken>>

EvalLog == phase = "log" /\ Becomes(i_eval_log_msg(Start), "basic")
EvalBasic == phase = "basic" /\ Becomes(i_eval_basic(Start), "services")

EvalService ==
    /\ phase = "services"
    /\ LET es == Matching(Start, Root, "service")
       IN  IF es = <<>> THEN Becomes(Start, "hosts")
           ELSE Becomes(EvalServiceEntry(Start, es[1]), "services")

EvalHost ==
    /\ phase = "hosts"
    /\ LET es == Matching(Start, Root, "host")
       IN  IF es = <<>> THEN Becomes(Start, "check")
           ELSE Becomes(EvalHostEntry(Start, es[1]), "hosts")

EvalCheck == phase = "check" /\ Becomes(NoneLeft(Start, Root), "accepted")

AtSeparator == phase = "values" /\ word \in Separators
Count == steps' = IF AtSeparator THEN steps ELSE steps + 1

Step ==
    /\ \/ ParseStep /\ UNCHANGED conf
       \/ EvalLog
       \/ EvalBasic
       \/ EvalService
       \/ EvalHost
       \/ EvalCheck
    /\ Count

Final == {"accepted", "exited", "killed", "undefined"}
Done == phase \in Final /\ UNCHANGED vars

Next == Step \/ Done

Spec == Init /\ [][Next]_vars
FairSpec == Spec /\ WF_vars(Next)
----------------------------------------------------------------------------
(* util_name2file, which the boot services call on the table: the file     *)
(* number no among those that match, the better matches first.             *)
WildcardFirst(f, service, name) ==
    IF service \notin f.service THEN 0
    ELSE IF <<"*">> \in {f.path, f.name} \cup Range(f.aliases) THEN 1
    ELSE IF name \in {f.path, f.name} \cup Range(f.aliases) THEN 2 ELSE 0

i_file_match(f, service, name) ==
    CASE service \notin f.service -> 0
      [] service \in f.service /\ name \in {Unset, f.path} -> 1
      [] service \in f.service /\ name \notin {Unset, f.path} /\ name = f.name -> 2
      [] OTHER -> IF name \in Range(f.aliases) THEN 3
                  ELSE IF <<"*">> \in {f.path, f.name} \cup Range(f.aliases) THEN 4
                  ELSE 0

util_name2file(h, service, name, no) ==
    LET Rank(i) == InOrder({k \in DOMAIN h.files : i_file_match(h.files[k], service, name) = i},
                           Len(h.files))
        found == Rank(1) \o Rank(2) \o Rank(3) \o Rank(4)
    IN  IF no < Len(found) THEN h.files[found[no + 1]] ELSE NewFile
----------------------------------------------------------------------------
Masks == SUBSET SERVICE_ALL
(* What is listed in the host table has a name, both addresses and at      *)
(* least one service, and so have its files, which all have a path.        *)
FileListed(f) ==
    /\ f.path # Unset /\ f.name # Unset
    /\ Len(f.aliases) <= AliasesMax
    /\ f.service \in Masks \ {{}}

TypeOK ==
    /\ phase \in {"name", "values", "log", "basic", "services", "hosts", "check"} \cup Final
    /\ z.ts \in Empty .. Lookahead /\ z.te \in 0 .. Lookahead
    /\ \A e \in DOMAIN ents : Len(ents[e].values) <= ValuesMax
    /\ \A h \in Range(conf.hosts) :
          /\ h.name # Unset
          /\ h.ether \in EtherWords /\ h.ip \in IpWords
          /\ h.service \in Masks \ {{}}
          /\ \A f \in Range(h.files) : FileListed(f)
    /\ \A a \in conf.asked : a[1] \in ServiceNames

(* The ring neither drops, repeats nor reorders a token, however far the   *)
(* parser is behind: what it has got are the first tokens of the text.     *)
TokensAsWritten ==
    Plain(text) =>
        LET starts == InOrder(TokenStarts(text), Len(text))
        IN  /\ Len(taken) <= Len(starts)
            /\ \A i \in DOMAIN taken :
                  taken[i] = SubSeq(text, starts[i], RunEnd(text, starts[i]) - 1)

(* A well-formed file becomes the tree that is written: it is read to its  *)
(* end, every statement is one entry, in order, with its values, in the    *)
(* block it is written in.                                                 *)
ParsedAsWritten ==
    phase = "log" /\ WellFormed =>
        /\ Plain(text) => Len(taken) = Cardinality(TokenStarts(text))
        /\ Len(ents) = 1 + Cardinality({i \in DOMAIN taken : Begins(i)})
        /\ \A i \in DOMAIN taken : Begins(i) =>
              LET e == ents[Number(i)]
              IN  e.name = taken[i] /\ e.values = ValuesOf(i) /\ e.parent = ParentOf(i)

(* A file is accepted or refused after a number of steps its length        *)
(* bounds, also when it ends in the middle of a statement or a block,      *)
(* unless the parser meets a separator in the place of a value (which the  *)
(* steps do not count).                                                    *)
EndsInTime == steps <= 4 * Len(text) + ValuesMax + 8

(* In an accepted file every statement of the file, of the log block, of a *)
(* host's and of a host's file's block has been evaluated: a misspelt or   *)
(* repeated one is never passed over.                                      *)
BlockRead(b) ==
    \/ b = Root
    \/ ents[b].parent = Root /\ ents[b].name \in {<<"log">>, <<"host">>}
    \/ /\ ents[b].name = <<"file">>
       /\ ents[ents[b].parent].name = <<"host">>
       /\ ents[ents[b].parent].parent = Root

NothingIgnored ==
    phase = "accepted" =>
        \A e \in DOMAIN ents \ {Root} : BlockRead(ents[e].parent) => ents[e].processed

(* Of several hosts with one name the first statement counts, and none is  *)
(* lost, except, without resolving, one whose own statement says nothing   *)
(* of its ethernet address: the next one of that name takes its place.     *)
HostStatements == {e \in DOMAIN ents \ {Root} :
    ents[e].parent = Root /\ ents[e].name = <<"host">> /\ Len(ents[e].values) = 1}

EtherUnsaid(e) ==
    /\ ents[e].values[1] \notin EtherWords
    /\ ~\E d \in DOMAIN ents : ents[d].parent = e /\ ents[d].name = <<"ether">>

FirstStatementWins ==
    phase = "accepted" =>
        /\ \A e \in HostStatements :
              \/ \E h \in Range(conf.hosts) : h.name = ents[e].values[1] /\ h.entry <= e
              \/ ~conf.set.resolve_ether /\ EtherUnsaid(e)
        /\ \A i, j \in DOMAIN conf.hosts : i < j =>
              /\ conf.hosts[i].name # conf.hosts[j].name
              /\ conf.hosts[i].entry < conf.hosts[j].entry

(* Counting up, util_name2file finds each file that is allowed to the      *)
(* service and matches once; those that mention the name come before those *)
(* that only have a wildcard, and the one with that path comes first.      *)
Mentions(f, name) == name \in {f.path, f.name} \cup Range(f.aliases)

BestMatch ==
    phase = "accepted" =>
        \A h \in Range(conf.hosts), service \in {<<"tftp">>, <<"rmp">>} :
        \A name \in UNION {{f.path, f.name} \cup Range(f.aliases) : f \in Range(h.files)} :
            LET nth == [no \in 1 .. Len(h.files) |-> util_name2file(h, service, name, no - 1)]
                matching == {f \in Range(h.files) : service \in f.service
                                /\ (Mentions(f, name) \/ Mentions(f, <<"*">>))}
            IN  /\ \A no \in DOMAIN nth : nth[no] # NewFile <=> no <= Cardinality(matching)
                /\ Range(nth) \ {NewFile} = matching
                /\ \A i, j \in DOMAIN nth : i < j /\ nth[j] # NewFile =>
                      /\ Mentions(nth[j], name) => Mentions(nth[i], name)
                      /\ nth[j].path = name => nth[i].path = name

----------------------------------------------------------------------------
(* What the repository says and the code does not do.                      *)

(* "accept blanks, ',', and '|' as separators" (parse_sub): a file with    *)
(* separators is read to its end.                                          *)
Terminates == <>(phase \in Final)
=============================================================================
