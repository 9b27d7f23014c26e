# A verification project for bootd

bootd is a netboot daemon: one process, one configuration, several boot
protocols (RARP, bootparam, TFTP, RMP). It is single-threaded. `main` reads the
configuration, creates the listeners and then calls `listener_select` for ever;
each packet is handled to the end before the next one is read. The difficulty is
therefore not data races but *order and failure*: packets of many clients arrive
in any order, late and twice; sessions are evicted as a side effect of somebody
else's request; descriptors are reused; and every system call can fail half-way
through a handler.

## Inventory

| Component | State | Operations | Talks to |
|---|---|---|---|
| Session table (`host.c`, `util.c`) | `h->session` of every host, `g_n_sessions` | `host_session_add`, `_delete`, `_check`, `_timeout`, `util_host_session_timeout_all` | called by TFTP and RMP; calls `listener_delete` |
| Listener list (`listener.c`) | `g_listeners`, the sockets | `listener_new_*`, `listener_add`, `listener_delete`, `listener_search_by_fd`, `listener_select` | calls the protocol handlers |
| TFTP (`tftp.c`) | `fd[0]` and `l` of a session | `tftp_handler` | session table, listener list, `util_name2file` |
| RMP (`rmp.c`) | `rmp_sid`, `fd[0]` of a session | `rmp_handler` | session table, host table |
| Host and file table (`host.c`, `util.c`) | `g_hosts`, `h->files` | `host_add`, `host_clone`, `host_file_add`, lookups | filled by the configuration, extended by RMP |
| Services (`service.c`, `device.c`) | `l_services`, device filters | `service_*_add`, `service_start` | listener list |
| Configuration (`tokenize.c`, `parse.c`, `conf.c`) | ring of tokens, parse tree | `gen_tokenize_*`, `parse_*`, `i_eval_*` | host table, services |
| RARP (`rarp.c`), bootparam (`bootparam.c`), DHCP (`dhcp.c`) | none (RARP: the kernel's ARP table) | one handler each | host table |
| Logging and strings (`log.c`, `str.c`, `ngenutil.c`) | the log file | formatting | `LOG_ERR` ends the process |

What makes them correct, and what is hard about it:

* *Session table.* The admission test reads a counter, not the table, so the
  counter has to be exact through every eviction, replacement and refusal. No
  timer runs: only a request evicts, so service after abandoned boots is a
  liveness question.
* *Listener list.* A handler creates listeners while the list is walked; a
  session's descriptors are looked up in it; `listener_delete` mishandles the head.
* *TFTP.* A request changes the session table, the listener list and the
  descriptor table in an order in which each step can fail without undoing
  the earlier ones; an acknowledgement is matched by host and port only.
* *RMP.* Session ids are 16 bits on the wire and `int` in memory; `BOOT_DONE`
  is not matched against a session; `host_clone` aliases sessions.
* *Link services.* RARP and RMP share the host table; a clone made at run time
  copies pointers that belong to another host; frame lengths.
* *Configuration.* Termination of the parser, a ring buffer at its limits;
  every statement is evaluated or refused; the order of statements matters for
  names and addresses.
* *Start-up and event loop.* Arrays walked to a terminator that a full array
  does not have; one filter joined from several services; a list that grows while
  it is walked, and a receive function that does not return without a frame.

The full list, at its lines, is in `PROJECT.json` under `hazards`.

## Modules

| Module | Models | State |
|---|---|---|
| `SessionPool` | abstract: what a session table promises | `active`, `stale` |
| `HostSession` | the session table | `session`, `g_n_sessions` |
| `HostSession_proofs` | proofs about it | |
| `Listener` | the listener list and the descriptor table | `listeners`, `fdtab`, `status` |
| `TransferGrant` | abstract: what a boot file server promises about its data | `grant`, `out` |
| `Tftp` | the TFTP server on `HostSession` and `Listener` | those, `held`, `sent` |
| `Tftp_proofs` | proofs about `Tftp`: table, descriptors and data | |
| `Transfer` | one TFTP transfer, block by block, with client and network | `session`, `peer`, `net`, `client`, `received` |
| `Transfer_proofs` | proofs about it | |
| `HostTable` | hosts and sessions as pointers, cloning | (operators on a record) |
| `LinkServices` | RARP and RMP on `HostTable` | `table`, `rmp_sid`, `arp`, `sent`, `opened` |
| `Tokenize` | the tokenizer and its ring | (operators) |
| `ConfigFile` | the parser on `Tokenize` | `text`, `z`, `ents`, `open`, `word`, `phase`, `taken` |
| `Configuration` | the evaluation of the parse tree | those, `conf`, `steps` |
| `ConfigFile_proofs`, `Configuration_proofs` | proofs about `Tokenize` and `ConfigFile`; about `Configuration` | |
| `Services` | service registry, device filters, start-up | `requests`, `known`, `bind`, `pending`, `listeners`, `used`, `status` |
| `EventLoop` | `listener_select` on `Services` | those, `wait`, `user`, `ready`, `at`, `served` |
| `EventLoop_proofs` | proofs about `Services` and `EventLoop` | |
| `Bootd` | TFTP, RMP and RARP together | those of `LinkServices`, `data`, `requested` |
| `Bootd_proofs`, `BootdServed_proofs` | proofs about `HostTable`, `LinkServices`, `Bootd`: sessions; what is served | |
| `MCTftp`, `MCBootd`, `MCConfiguration`, `MCEventLoop` | instances for TLC | |

**HostSession.** `session[h]` is `h->session`, with `NoSession` for null. Time
is kept as `idle`, the seconds since `atime`, frozen one past the timeout because
the code only compares. `Open`, `Continue` and `Close` are the three calls a service
makes; `Tick` is a second passing. `Gone(h)` is the set of sessions a request of `h`
deletes before the counter is tested; all of `host_session_add`, the timeout
scan included, is one action.

**Listener.** Its operators take and return the record of the three variables,
since a handler calls several of them in one step. `socket` and `open` return
the lowest free descriptor or fail. Descriptor 0 is standard input, which is
assumed open when the daemon starts; descriptors 1 and 2 and those of other services
are left out. `status` records how the process fares: `killed` by the store through a null
name, `undefined` when a listener is cleaned up twice. A build may drop or
keep the null store: `NullStoreOutcomes`.

**Tftp.** One action is one datagram, from `recvfrom` to the last send. The
continuations of a read request (`Killed`, `Busy`, `OpenFails`, `Opened`) are its ways
through `tftp_handler` after `listener_add`. The network is not a variable: a
handler may receive any datagram from any client at any time, which covers
loss, duplication, delay and reordering. `sent` holds the datagrams of the last step.
`held[h]` is `fd[0]` and `l` of the session. Abstracted: block
numbers, offsets, the end of a transfer, the text of errors, file name matching (a
read request carries the file found).

**Transfer.** What `Tftp` abstracts: one client, one file of `blocks` blocks, the
16-bit block number (`Wrap` values), the offset computed from it, and the listener
each answer leaves by. Here the network is a variable, because the property is
about a client that waits, repeats itself and begins again from a new port. The
client is external and follows RFC 1350. Losses, repetitions, timeouts of the session,
failed calls and impatience are counted together in `faults`. A failed read yields two
messages, the error and a runt (`RUNT`): the code goes on to send a data header of 4 - 1 bytes.

**HostTable.** `hosts` is the memory of `host_t` objects, `next` and `session`
are indices into memory, `g_hosts` the head of the list. `host_clone` copies a
whole record, as the code does with `memcpy`. `Walk` follows the `next` pointers;
a walk that does not end is the status `hung`, a read through a freed session
`undefined`. The walk of the timeouts is one expression: it deletes the sessions of the listed
hosts that are `TimedOut`, unless one of them points to memory that was freed, or two of
them to the same session. `HostSession` is the same table for a daemon that never clones.

**LinkServices.** One action is one captured frame (`Frame`), handled to the end:
RARP requests, RMP boot requests (probes and boots), read requests and `BOOT_DONE`.
`Found` is the common prologue of the handlers with its clone of the machine-type
host. `link_send` has the length test. `sent` holds the frames of the last step,
`opened` is a history of the files opened under each session id.

**Bootd.** `LinkServices` and a TFTP handler on the same table: one datagram of a host
or one frame of a station is one action. A session belongs to one service at a time, and its id is a
UDP port or an RMP counter. Listeners, descriptors and block numbers of the TFTP server are in
`Tftp` and `Transfer` and left out here. Each host name has one IP address.

**Tokenize, ConfigFile, Configuration.** A text is a sequence of atoms, each a
special character or a run of ordinary ones. `Lex` is the inner loop of the
tokenizer, `gen_tokenize_tokenize` fills the ring `z`, and each step of the parser
takes one token with `gen_tokenize_next`. `ents` is the parse tree as a sequence of
entries with their `parent`, `open` the stack of blocks being read. The evaluation is one
action for the log block, for the basic settings, for each `service` and for each
`host` statement; `ents[e].processed` is the code's flag. `util_name2file`, which the
boot services call later, is checked on the tables so built.

**Services, EventLoop.** A request is one `device` or `bind` value. `Configure` adds it
to the array of its service, `ServiceStart` computes filters and the list of
listeners to open, `OpenListener` opens one, which may fail at any call. In
`EventLoop` one step is `select` or one element of the walk, so packets arrive
between handlers (`Arrive`). `ready` is the descriptor set, `at` the position in
the list, `wait` the kernel's queues and `user` the frames libpcap has read but not
handed out. The variant of RPC reception modelled is the one with `svc_getreqset`;
`device_init` is the variant without `getifaddrs`.

**Composition.** `Tftp` EXTENDS `HostSession` and `Listener` and uses their
operators as the handler calls the functions; `TableRefinement` states that the
composition uses the table only as `HostSession` allows. `LinkServices` EXTENDS
`HostTable`, which both of its services share, and `Bootd` EXTENDS it with TFTP. `Configuration` EXTENDS `ConfigFile`
EXTENDS `Tokenize`: text goes in, host and file tables come out. `EventLoop` EXTENDS
`Services`: the loop runs over the listeners the start-up opened. The handlers that
appear in `EventLoop` are reduced to what they do to listeners and descriptors: TFTP lists data
listeners and opens files, RMP opens files.

## Runs

| Run | Instance | Shows |
|---|---|---|
| `sessions` | 3 hosts, 2 services, 2 ids, `session_max` 2, timeout 2 | type, exact counter, limit, the abstract pool, service unless others are busy |
| `tftp_transfers` | 2 clients, 2 ports, 2 files, 1 session, timeout 1, 5 descriptors | data goes where it was requested from and comes from the file opened then; the data listener is listed |
| `tftp_resources` | 3 clients, 1 port, 1 file, 2 sessions, timeout 0, 5 descriptors | descriptors keep their meaning until they run out; "busy" is said truthfully; refinement of the session table |
| `tftp_transfer` | files of 1, 3, 4 blocks, 3 block numbers, 2 client ports, 1 fault | blocks in order; a finished client has the whole file; a client whose session is kept gets to an end |
| `all_services` | 2 stations and a machine-type host in both orders, 2 sessions, timeout 0, 3 wire ids, a port that equals an RMP id | the counter counts allocated sessions, clones included; no sharing; no service serves the other's session and data come from what the id opened; only its own host ends a live session |
| `configuration` | all texts of up to 4 characters of 9, files of up to 3 statements of 18 | no token lost; the tree is what is written; no statement ignored; the first of several hosts with a name wins (without resolving, the first that gives an ethernet address); `util_name2file` finds every match once, best first; bounded number of steps |
| `daemon` | 12 lists of requests, arrays of 3, 5 descriptors | one link listener per device serves all its services; what `select` said still holds when it is used; every queue is read |
| `tftp_leak` | 2 clients | **violated**: a file outlives its session |
| `tftp_stdin` | 2 clients | **violated**: after a failed open an ACK is answered from standard input |
| `tftp_nameless` | 2 clients | **violated**: the store through the null name kills the daemon |
| `link_rarp` | as `all_services` | **violated**: a station entered into the ARP table gets no RARP reply |
| `config_separators` | one text with a comma between blanks | **violated**: the parser does not end |

Bounds. Three hosts and two sessions are the least at which a request of one
host evicts or is refused because of two others, one of them expired and one not. The
timeout of 2 lets sessions of three different ages coexist; in the TFTP runs,
where ages are studied less, 0 and 1 suffice for one session that is still valid and one that
has expired. Two ports let a stale acknowledgement of the same host occur. Five
descriptors cover the service port, several leaked listeners and files,
the reuse of a number, and exhaustion in the middle of a request. The descriptor
limit is the only bound that is not a configuration value; the real limit is the
process's. Hosts, ports and files are interchangeable, hence the symmetry sets; no
liveness property is checked under symmetry.

`tftp_transfer`: three block numbers make a file of fewer, of as many
and of more blocks than there are numbers, which is where the 16-bit field bites; one fault at any
point already yields a lost or repeated message, an expired session, a failed call, or a
second read request, each followed by recovery on either port.

`all_services`: three RMP sessions with three wire ids make the last session id one
that no read request matches; port 2 is also the first RMP session id; two names for the unknown
station give a clone that enters the list and one that is ignored, and `MaxHosts` 4 allows two
clones, so that an ignored clone is made again by a retransmission; with the machine-type host
first the list becomes a circle. The machine-type host and so its clones have RMP only.

`configuration`: nine atoms are one of each lexical class, so that every
text of four covers each pair of modes of the tokenizer; a ring of three tokens is
filled, emptied and wrapped by each of the longer files. The pool has at least one
statement for each branch of the evaluation and each reason to refuse a file.

`daemon`: arrays of three are filled by the longest lists, `device[]` (the daemon exits) and
`bindaddr[]` (the walk is undefined) alike; five descriptors let leaked
data listeners reach the end of the descriptor set; two queued frames are what it takes
for libpcap to keep one back.

`CHECK_DEADLOCK FALSE` appears where the system really stops: a daemon that was
killed, has exited or hangs (TFTP, `link_rarp`, `all_services` and daemon runs; the latter may also wait in `select`
for ever), and a client that is done.

Fairness.

* `sessions`: only the clock is fair (`WF(Tick)`). The liveness property
  `ServedUnlessOthersBusy` carries its own premise: the client in question keeps
  asking, as TFTP clients and boot ROMs do, and the event loop handles its request.
  Nothing forces a client to finish a transfer.
* `daemon`: `WF(StartUp)` and `WF(LoopStep)`: `main` does nothing else. Packets need
  not arrive.
* `tftp_transfer`: `WF` of the client's timeout, of the delivery of the request it
  keeps repeating, and of an answer it can use. The server has no timer, so nothing of
  it is assumed but that it handles what it gets. The network may lose only
  `MaxFaults` messages, which is what makes delivery of a repeated one fair.
* `config_separators`: `WF(Next)`: the parser is a loop that nothing interrupts.

## What is proved

For any finite set of hosts and any integer `session_max` (zero and negative
ones included) and any timeout, `HostSession_proofs` shows:

* `TypeCorrect`, `CounterCorrect`, `LimitKept`: types, the exact counter, the limit.
  The inductive invariant is their conjunction. The limit alone is not
  inductive: the test reads the counter, so the counter must be known to equal the
  number of sessions. The lemmas `DeleteActive` and `AddActive` say by how much each
  operation changes that set.
* `PoolImplemented`: every step of the table is a step of `SessionPool` or a stutter.

For any number of clients, ports, files and descriptors, `Tftp_proofs` shows:

* `TableImplemented`: every handler is one operation of the session table, so
  all of the above holds of the server (`TftpCounterCorrect`).
* `SessionFdsCorrect`, `ListenerFdsCorrect`, `NoDoubleCleanupEver`. The
  inductive invariant `FdInv` adds to the three properties that a host without
  a session holds nothing (the `memset` in `host_session_add`); otherwise a new
  session could inherit a descriptor. Its consequence `SessionsDropNothing` is worth
  knowing: a session descriptor is never a socket, so the listener
  clean-up in `host_session_delete` never finds a listener. That is why the double
  clean-up in `listener_delete` is never reached, and also why data listeners accumulate.
* `BusyIsFull`, `TftpTypeCorrect`.

Of its data it shows:

* `DataListenerCorrect`: the listener of a session is in the list, with an open socket
  connected to the client that opened the session.
* `GrantImplemented`: each step of the server is a step of `TransferGrant` or changes
  nothing of it. It needs besides that descriptor 0 stays standard input (`StdinOpen`):
  a session whose open failed reads from it.

For files of any length, any number of block numbers and any limits on the network,
`Transfer_proofs` shows:

* `TransferTypeCorrect`, `InOrderAlways`, `CompleteAlways`. What the client has received says
  nothing about the message that comes next. The invariant therefore says of *every* message
  under way what it has to do with the file: the number on a data message is that of the
  block it holds, up to the wrap, and it is short exactly if that block is. Of the client it
  says that only the last block it took may be short, and that it is done exactly then.

For any lists of requests, sizes of arrays and numbers of descriptors, `EventLoop_proofs` shows:

* `LoopTypeCorrect`: the walk stays within the list, and every listed descriptor is open.
* `OneListenerForAllAlways`: needs that the devices still to be opened are the ones without a
  listener, and that a filter is the join over all services whatever their order.
* `SelectStillHoldsAlways`: what `select` reported is still so when the walk gets there. It
  needs that no two listeners share a descriptor, that what is reported is in use, and that
  the kernel queues packets for listed descriptors only.

For any configured table, stations, resolver, ports, limits and width of the id on
the wire, `Bootd_proofs` and `BootdServed_proofs` show:

* `BootdTypeCorrect`, `CountIsLiveAlways`: no pointer leaves the table, and the counter is
  the number of allocated sessions, clones, timeouts and evictions included. The invariant is
  `Inv`: a table that is `Sound`, which every operation returns if it is given one.
* `SessionsStayUnshared`, `OnlyEndedByItsHost`, `ServedAsOpenedAlways`: ownership of
  sessions. `host_clone` copies the session pointer of its source, so they are false when
  the source has a session; the hypothesis `TemplatesStayOff` says that the hosts named like a machine type
  neither boot nor are TFTP clients, and that no clone gets such a name. The
  instance of the run `all_services` satisfies it (an ASSUME of `MCBootd`, which TLC evaluates).
  Their invariant adds that each session belongs to the one host that points to it
  (`Private`); each operation spares the sessions of others (`Spares`).
* `ServedAsOpenedAlways` needs besides that the search for a client's name gives the host that
  asked, however the list grows: `Fades` says what every operation but the opening of a file
  leaves as it was, the `next` pointers included, and `LookupStays` that the search then
  has the same result. `Walk` is a recursive function; `WalkIs` shows that it exists.

For any set of configuration files, any sizes of the ring, of the value list and of the alias
list, any addresses and any resolver, `Configuration_proofs` shows, on the lemmas of
`ConfigFile_proofs`, every invariant of the run `configuration`:

* `TypesOK`. The invariant `TypeInv` says that the ring is a bounded queue (`RingOK`), that
  what was taken and what is queued is what the inner loop yields from the start of the
  text to where the tokenizer stands (`Lexed`), that the entries form a tree (`Trees`), and that
  names, addresses and services in the table are of their kinds. The evaluation is a chain
  of functions of one record (`Contexts`); each has a lemma that says which entries it
  marks and what it may change (`MarkedFacts`, `From`, `GetsHost`, `FileIs`, `HostIs`).
* `TokensKept`: for a text without quotes, escapes and comments `PlainLex` says where the
  next token ends, and `LexedPlain` that the tokens so found are the runs of the text, in order,
  and at its end all of them.
* `ParsesWhatIsWritten`: `TreeInv`. Between statements the entries are those of the tokens
  taken (`Written`) and the stack of `parse_sub` holds the blocks that are open (`Nested`).
  Within a statement this is so of the tokens *before* the one in the buffer, and the last
  entry is the statement that goes on (`Current`). A file that ends there is `Stuck`: the
  buffer keeps a token that ends nothing, so the statement is never closed and the parser
  never reaches the evaluation. All of it under the condition that every token so far is where a
  well-formed file may have it (`Local`); an ill-formed file has no tree to compare with.
* `EndsSoon`: a bound on the steps. `NameTime` and `ValuesTime` charge each step of the parser to a
  token, to a block that is closed, or, at the end of the text, to a value
  (`ValuesMax` of them); `EvalTime` charges each step of the evaluation to an
  entry that it marks or to the passage to the next kind of statement (`Rank`).
* `NothingIsIgnored`: a block that was read has no unmarked entry (`ReadTree`), which
  is what the `i_assure_no_entry` calls establish and every later step keeps.
* `FirstWins`: every named `host` statement that was marked has its host or an earlier one of the
  same name in the table, and the order of the table is that of the statements (`TableOK`). There
  is one exception (`EtherUnsaid`): under `resolve_ether no`, `host_add` drops a host without an
  ethernet address, so a statement that has no `ether` entry and whose name is no address may
  leave nothing, and the next one of that name is the first to count. That no *other* statement is lost
  takes two facts: an `ether` entry that is read leaves the host with an address, whatever is
  evaluated after it (`EtherRound`, `Keeping`), and nothing in a statement's block is read before the statement
  is (`Unread`); otherwise its `ether` entry could have gone to another host.
* `BestFirst`: the four ranks of `i_file_match` partition the matching files, and each rank
  is listed in the order of the file table (`Sorted`).

Assumptions are the named ASSUMEs of the modules: a finite host set, an integer
limit, a natural timeout, null values and free memory that are not members of the types, TFTP
hosts among the configured ones, start-up requests and configured tables of their types, texts
that are sequences of characters, natural sizes, and addresses and resolver answers
that are addresses and never null.

Only model-checked: `ServedUnlessOthersBusy`, `DatagramServed` and `KeptSessionEnds`,
since liveness under fairness is beyond the proof system. What the inner loop
makes of quotes, escapes and comments is not stated separately from `Lex`: `TokensKept` is about
texts without them, and for the others `Lexed` says only that no token is lost between
the text and the parser. Where induction over the naturals was indispensable (the walk over the
host list, the recursive functions over texts and entries), the proofs take the least element of a set
of counterexamples instead (`Smallest`, `Upwards`).

The proofs found one thing to change in the model: the cases of `Consume` overlapped (a character in a
comment was also an ordinary one), and a CASE whose guards overlap chooses
either. They are disjoint now, as the code's `if`s are.

Each property was confirmed to fail on a faulty variant of the code; the variants
are the operators the module headers name, and `PROJECT.json` pairs them.

## Disagreements between the code and its comments

* A session's file is never closed (`host.c:196`; `host.h:23` calls `fd[]` its
  "file descriptors").
* After a failed open the session stays with `BF_FD = 0`, and the next ACK is
  answered from descriptor 0 (`tftp.c:80`; the comment at `tftp.c:136` expects such an
  ACK to be ignored).
* The null-name test of `listener_add`, "just to annoy the programmer", stores
  through the null pointer it tested (`listener.c:305`).
* A RARP reply has 60 bytes (`rarp.c:79`) and frames of less than 62 are refused
  (`listener.c:763`), although the comment above the test means the minimum without
  the checksum, which is 60 (`rmp.h:13`).
* The separators `,` and `|` are to be skipped, but the parser looks at the same token for
  ever (`parse.c:193`).

Other behaviours the models have, which nothing in the repository contradicts:

* RMP: the reply to a boot request for a file is prepared and never sent
  (`rmp.c:119`); a file that is not configured is logged through its null pointer
  (`rmp.c:155`); reply lengths leave the ethernet header out, so short replies are refused.
* Clones: a template host that boots itself while stations are cloned from it shares its
  session with the clones, and because `next` is copied too, the list can
  become a circle (`host.c:23`). A clone whose name is listed already is used but
  not listed, so its session is never timed out.
* Parser: `}` at top level ends the file silently; a last token without a blank
  behind it is dropped; a statement without its semicolon repeats its last value until the
  table is full and the daemon exits; an empty block has an uninitialised result.
* Evaluation: unknown words in a `service` block are passed over; a file without path and
  name is a null pointer; `service none` for a host means all services.
* Services: an address in front of a port is refused; an ethernet address never names a
  device; `*` without a port is looked up as a name; `all` before any device is known adds
  none; a full `device[]` ends the daemon, a full `bindaddr[]` is walked past its end;
  the filter of MOP does not compile, and takes the device's other link services with it.
* Loop: frames left in libpcap's buffer wait for the next frame of that device.
* TFTP: a file of more than 65536 blocks never ends; a late read request from an old port
  takes the session over.

## What is left

Every safety property that a run checks is also a theorem. Worth adding: what `Lex` yields for
quotes, escapes and comments, stated independently of it; the tables of strings and entries of
the parser with their fixed sizes; the bootparam procedures, if the port they mistake for a
descriptor is ever repaired.

## Not modelled

* The DHCP handler keeps no state and answers nothing. It can end the daemon, though: it compares the
  server name of a request with the name of its listener, which for sockets is null
  (`dhcp.c:32`). `DatagramServed` is about a daemon that is still running. The two bootparam procedures are stateless lookups;
  both use the port of the RPC transport as if it were a descriptor (`bootparam.c:54`,
  `bootparam.c:110`), so what they answer is decided by the RPC library. The registration,
  the listeners and the reception of both services are in `Services` and `EventLoop`.
* Logging, string formatting, command line arguments and the `getifaddrs` variant of
  device enumeration are input and output. That `LOG_ERR` ends the process is modelled
  everywhere it occurs.
* The `PF_ROUTE` variant of `rarp_updatetable` (routing messages to the kernel).
* NUL bytes, tokens and tables beyond their fixed sizes in the tokenizer.
* Absolute time, and so the overflow of the `int` in `atime`.

See `components` in `PROJECT.json` for each part.
