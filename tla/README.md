# A TLA+ model of ntgate

ntgate is a local HTTP proxy. Programs such as git, npm and curl connect to it on
the loopback address; it finds out which parent proxies lead to a destination (the
user's PAC script or system settings, or one fixed upstream), logs on to the parent
with the session of the current user, and copies bytes. This directory holds its
TLA+ model: what is specified, what TLC checks and what TLAPS proves.

## 1. The system

| part | source | state it keeps | operations |
|---|---|---|---|
| Gateway | `server.rs` | one task per connection: the request, `leftover` (bytes read past the request's head), the last error | accept, read a request, resolve, try each hop, answer 400 / 502 |
| Hop resolver | `resolve/mod.rs` | two mutexes shared by every task: `cache` (host to hops and deadline) and `blacklist` (proxy to deadline) | `hops_for`, `filter_blacklist`, `mark_bad`, `invalidate` |
| System lookup | `resolve/winhttp.rs` | none | asks WinHTTP for the hops of a URL: IE settings, PAC, WPAD |
| Hop lists | `hop.rs` | none | parses a PAC result or an IE proxy list |
| noproxy | `noproxy.rs` | none | does a host match a rule |
| WinHTTP upstream | `winhttp_up.rs` | a request handle per hop; `pump`'s buffer | `Tunnel::open`, `pump`, `read_response` (Windows) |
| Dialler | `dial.rs` | sockets of one attempt | four ways to connect on Windows, one elsewhere, over all addresses |
| Authentication | `auth/handshake.rs`, `auth/sspi.rs` | an SSPI session over at most six rounds | `authenticate_and_send` |
| Socket I/O, HTTP/1 | `io.rs`, `http1.rs` | `leftover` | heads, bodies by their framing, `splice` |
| Logon task | `service.rs` | a task in Task Scheduler | install, uninstall, status |
| Configuration, doctor, command line | `config.rs`, `doctor.rs`, `main.rs`, `error.rs` | a file | load, check, probe, dispatch |

**How they interact.** `server::run` spawns a task per accepted connection. The tasks
share nothing but the resolver, which they call from two kinds of thread: `hops_for`
on the blocking pool, `mark_bad` on the async one. A task calls everything else by
plain function calls and hands its sockets and `leftover` down by reference.

Processes of ntgate share a configuration file, a temporary file and the registered task.

**What is hard.** Tasks interleave inside `hops_for` (the cache mutex is dropped during
a lookup) and inside `mark_bad` (the clock is read before the lock is taken). The
answers of PAC, the network and the user's settings change at any time. A hop can fail
at any point, also when the client has already been answered, and handle_client goes on
with the next one whatever happened. Peers close, stall and send in pieces, and what follows
a message may come in the same read. Installs race for one temporary file, and a failed
accept ends the process, which only the logon task starts again.

`PROJECT.json` lists the components with what is modelled of each, and the hazards of
this code at the lines where they bite, with the property that would notice.

## 2. The modules

| module | models | role |
|---|---|---|
| `Failover` | nothing in particular: the promise | abstract specification of what the resolver gives the hop loop |
| `Resolver` | `resolve/mod.rs` and the calls handle_client makes of it | the shared component |
| `Gateway` | `server.rs`, `winhttp_up::forward`, the outcomes of what they call | EXTENDS `Resolver`: every connection runs through it |
| `Relay` | nothing in particular: the promise | abstract specification of what one call of `forward` gives `handle_client` |
| `Tunnel` | `winhttp_up.rs`: one call of `forward` | the detail behind a hop of `Gateway` on Windows |
| `Dial` | `dial.rs`: concurrent calls of `connect` | the detail behind a connection attempt of `Gateway` |
| `Handshake` | `auth/handshake.rs`, `auth/sspi.rs`, the parts of `http1.rs` and `io.rs` they call | the detail behind a hop that asks for a logon |
| `Lookup` | `resolve/winhttp.rs`, `Config::validate`, what `hops_for` decides around a lookup | EXTENDS `NoProxy` and `HopList`; the detail behind `Bypass`, `LookupOk`, `LookupErr` of `Resolver` |
| `NoProxy` | `noproxy.rs` | functions, with what a rule means beside what the code computes |
| `HopList` | `hop.rs` | functions, with what a text names beside what the parsers return |
| `Framing` | `io.rs`, the framing of `http1.rs` | the detail behind every read and copy of a message in `Gateway` and `Handshake` |
| `Service` | `main.rs`, `config.rs`, `service.rs`, `run` of `server.rs` | the processes around everything else |
| `MCResolver`, `MCGateway`, `MCDial`, `MCHandshake`, `MCLookup`, `MCFraming`, `MCService` | | instances for TLC |
| `MCDocumented` | | an instance of `Lookup` beside what the documentation promises of noproxy and of SOCKS |
| `ResolverProofs`, `GatewayProofs`, `TunnelProofs`, `DialProofs`, `HandshakeProofs`, `LookupProofs`, `FramingProofs`, `ServiceProofs` | | theorems |

### Resolver and Failover

A task goes through `hops_for` once: `Bypass` (noproxy), or `CacheHit`, or `CacheMiss`
then `LookupOk` / `LookupErr`, then `Insert`; `Filter` ends the call. These are the
pieces between two lock operations of the code, so every interleaving the mutexes allow
is there; `cacheLock` is held from `CacheHit` to `Filter` because the guard of
`self.cache` lives across the call of `filter_blacklist` in the code. The hop loop is
seen as `TryOk`, `DirectFails`, `ProxyFails`, `MarkBad`, `GiveUp`; `ProxyFails` and
`MarkBad` are the two halves of `mark_bad`, its clock reading and its insertion.
`Invalidate` is the public method; `PacChange` and `Tick` are the environment. A hop
list in a task's hands is PAC's answer `raw` and the positions `todo` still to be tried,
which is the `Vec` that `filter_blacklist` collects and the loop walks through.

`Failover` says what that amounts to for the loop: a task is offered one of its host's
lists, without some proxies that have failed before but never empty, tries it from the
front, and every failed proxy goes on record. `KeepsPromise` is the refinement; the cache,
the locks and the clock disappear in it.

### Gateway

`io[t]` is the place of a task in handle_client and try_hop: reading, resolving, then for
each hop dialling, waiting for the proxy's head, granting the tunnel, flushing the preface,
collecting an answer, copying. `Windows` selects the build: on Windows a proxy hop is WinHTTP's
(`winhttp_up::forward`), elsewhere it is a socket. What runs in `spawn_blocking` (`Blocking`) needs
one of the `Threads` of tokio's blocking pool, which all connections share: `SpawnBlocking` takes
one up, and it is kept until the closure returns, for the whole life of a tunnel through WinHTTP.
WinHTTP's answer to a plain request is read to its end (`Collect`) before any of it is written
(`Answer`). `heads` is everything that looks like a
status line on the client's connection, `preface` is where the bytes behind a CONNECT's
head are. `HopFails` is any error of try_hop: it performs `mark_bad` and moves on, as
handle_client does, whatever the cause (`fault` remembers it). The client may reset its
connection at any time (`ClientLeaves`).

### Tunnel and Relay

`forward` for one call: `OpenHandle` makes the three WinHTTP handles, `Resend` and
`SendRequest` are `send_with_resend`, `Receive` the response head. A CONNECT goes on to
`Grant` and the five places of `pump` (preface, recv, write, read, send); a plain request to
`ReadBody`, `BodyEnds` and `Answer`. Every way out leaves an order of handles to be closed
(`closing`), which `CloseHandle` does one by one: the two cleanups that `open` writes by hand while
there is no `Handles` yet (`MakeFails`), and elsewhere the fields of `Handles`, in the order of its
`drop` (`Dropped`). Each direction is four counters of bytes, because the
channels keep order: what the peer sent, what was read into the one buffer, what was written
out of it, what the other peer took. Peers send, read slowly, shut, close and reset at any
time.

`Relay` says what that amounts to: the proxy refuses or accepts, the bytes of either side are
passed on in their order, those behind the CONNECT first, and every end has a cause that one of
the peers gave. `KeepsRelay` is the refinement; the handles, the rounds of `send_with_resend`, the
buffer and the timeouts disappear in it, and a byte counts as passed on when it has been written.
That a client which "takes no bytes" is a cause in `Relay` (`ClientEnds`) is what the code does;
the documentation says otherwise, which is the finding `NoSelfDrop` of section 4.

`probe` is the beginning of `forward` (`open`) and needs no model of its own.

### Dial

`connect` for several tasks at once, one action per system call: resolve, open a socket,
bind a fixed port, connect, switch to non-blocking, wrap. `Fails` is where the code decides
between the next way (only WSAEACCES), the next address and the end. `owner` is which task
is bound to which local port of which family; other programs and excluded port ranges are the
choice that `PortTaken` always has. `tried` records the attempts, for the properties only.

### Handshake

`authenticate_and_send` for one connection to a proxy after another: write, read a head,
discard the body of a 407, choose a scheme and create the session (first 407 only), step the
session, write again, for `Rounds` steps. `wire` is everything the proxy has sent and the
function has not read, `leftover` and the socket together, since the code reads both alike.
`Respond` answers each request once with any status, any list of `Proxy-Authenticate`
headers, any framing and with or without `Connection: close`. `handles` is what the process
holds of SSPI. On Windows the proxy itself logs on through WinHTTP (`winhttp_up.rs`), so the
rounds are reached by users of the library; elsewhere `backend::create` fails, which is
`CreateFails`, and the function is what every proxy hop runs.

### Lookup, NoProxy and HopList

One call of `hops_for` without its cache: the noproxy rules (`Bypass`), then the mode.
`Upstream` and `Script` are the modes with a setting of their own; in the system mode
`ReadSettings` is `ie_config`, which may fail, and decides which sources the first call of
`proxy_for_url` names. That call is `Open`, then one of `Gives`, `FindsNothing` (error 12180,
detection found nothing, after which a script is asked on its own) and `GivesNothing`; when it
fails, `StaticList` has the settings' list or a last detection. `by` and `failed` record the
sources for the properties.

`NoProxy` has the operators of `noproxy.rs`, `wildcard_match` with its search for the first
occurrence and `cidr_contains` with its mask, and beside them what a rule means: `Means` counts
the letters that parts and asterisks may use up, and compares addresses bit by bit.
`BypassExact` relates the two for every host and rule of the instance, except for a pattern
that ends in letters which occur more than once in the host, such as `*.cn` and `www.cnki.cn`,
where the code's search stops too early (`EndsTwice`); a pattern that ends in an asterisk is not
excepted. `HopsAsSaid` does the same for lists: the hops of a text of PAC's notation or of the
settings' (`WellFormed`) are those that it names (`Listed`), except that a PAC text of SOCKS and HTTP
proxies alone is taken for a list of the settings (`Mistaken`), for which the property says what comes
out instead (`MistakenHops`); and no text, well-formed or not, gives an empty list or a proxy without
a port (`Dialable`). The two exceptions are findings of section 4. `HopList` has the parsers on
tokens (`pac_hop`, `ie_hop`).

Two things the model shows that nothing in the repository speaks of: settings that name no
proxy and no detection do not mean DIRECT, since `resolve_system` ends in a detection all the
same, and where that finds nothing every request fails; and one token that does not parse
costs the whole list.

### Framing

One message at a time is read off a connection by `read_client_request`, `discard_body` or
`forward_body` (`op`). A unit of the stream is a byte as far as the readers tell bytes apart.
`got` units have come out of the socket and `pos` are used up; `leftover` is what lies between.
`Parsed` is what httparse says of a head: its text, and the 64 headers it is given room for.
`More` and `Take` read any number of units the buffers allow, so a message is cut in every
place. `TakeHead` to `TakeTrailer` are the steps the readers take when they have a line or a
length complete; `EndOfStream` tells the loops that return `Ok` at an end of the stream from
those that fail. `sent_length` is the Content-Length that `encode_request` writes.

A message that counts as `sound` carries its chunks as records, and `Sound` says what makes them
right: each line ends at the first line end behind it and is the size of the data that follows
(`Ends`, `Sits`), and the next record begins where that ends. The readers never look at the
records; the properties do.

A trailer of a chunked body is where the readers differ: `copy_chunked` copies it,
`read_chunked` takes one line and leaves the rest, which `Exact` states. The answers that have
no body whatever their headers say (to HEAD, 204, 304) are not told apart by `forward_body`,
which sees headers only; they are not messages of the instance.

### Service

A process is at a step (`at`) with the path of its configuration file as it was typed (`path`); one
action is one call of the operating system. Which file a path is depends on the process (`Opens`): an
absolute path is the same file everywhere, a relative one belongs to the directory the process runs
in (`Dir`), and the code neither makes a path absolute nor gives the task a working directory.
Installs run `load_or_create`, write `ntgate-task.xml`, call `schtasks` and
remove the file, and share the file's name. The instance is the process of the task: it loads,
binds, serves, and ends with an error when an accept fails (`AcceptFails`), which Task Scheduler
answers with a restart while `retries` last (`RestartOnFailure`). `disturbed` remembers the installs
between whose writing and registering another one has changed the shared file: only those may
register a path that is not their own (`OwnTask`). `Logoff` ends every process
wherever it is. The behaviour of Task Scheduler is as the XML asks for (`IgnoreNew`, the logon
trigger, the count), and a task that is replaced or deleted does not restart an instance of
before. Not promised anywhere, and not the case, is that a file the user writes between the
look and the write of `write_example_if_missing` is kept, or that an install replaces an
instance that runs.

## 3. What TLC checks

| run | instance | question |
|---|---|---|
| `resolver` | 2 tasks, 2 cached hosts and a noproxy one, 2 proxies, clock to 4, fair | the inductive invariant; what a list handed to the hop loop may be and how old; how bans behave; refinement of `Failover`; `hops_for` always returns |
| `gateway_windows` | 2 connections, CONNECT with early bytes or a plain request, DIRECT first or last, 1 thread of the blocking pool, fair | the gateway's invariants, refinement of `Resolver`, termination of the failover loop |
| `gateway_ban_cause` | as `gateway_windows` | **violated**: a proxy is banned for the client's or the destination's fault |
| `gateway_preface` | as `gateway_windows` | **violated**: a second 200 and a tunnel without its first bytes |
| `tunnel` | 3 bytes up (1 of them preface), 4 down, buffers of 2, 3 sends, fair | every open handle is closed once and in order, no byte lost or misdirected, refinement of `Relay`, no starvation |
| `tunnel_drop` | the same | **violated**: a slow client loses its tunnel |
| `dial` | 2 dials, an IPv4 and an IPv6 address, 2 fixed ports, Windows | no socket or port leaks, nothing given up without a cause, IPv4 first |
| `handshake` | six rounds, seven kinds of challenge list, five framings, fair | SSPI handles, challenge chaining, failure only with a cause, termination |
| `lookup` | hosts of up to 4 letters and all addresses of 3 and 4 bits, 128 patterns and networks, 3 modes, all settings, lists of 2 tokens | noproxy rules mean what they say; hops are those the text names, and each has a port; sources in their order |
| `lookup_documented` | the rule `*.cn`, three hosts, three answers of a script | **violated**: a host that noproxy names is sent to a SOCKS proxy, in HTTP |
| `framing` | 21 messages, buffers of 3, limits of 7, 6 and 3, 2 headers | where a reader stops and what it has, what a client is given, when a reader fails or waits, the length sent on |
| `service` | 2 installs, of an absolute and of a relative path, 1 instance in another directory, 3 restarts, fair | what is registered was loaded; an install registers its own; a failed instance listens again |

**Bounds, and why they are enough.**

- *Tasks.* Two tasks give every pairwise race on the two mutexes, and a miss that is overwritten
  by the other's and then served to a third call is one task's second turn. The proofs are for
  any number.
- *Hosts and proxies.* Two hosts tell a wrong cache key from a right one, two proxies a ban of
  one from a ban of all; a noproxy host takes `Bypass`. `PacChange` needs one URL with two
  answers.
- *Time.* `CacheTtl` and `BlacklistTtl` stand for 60 s and 30 min. What matters is that an
  entry can be fresh, at its deadline and past it, that a ban can start and end while a list
  is in use, and that delays can exceed zero: periods of 2 with `MaxTime` 4 let an entry
  be made, expire and be made again. `LookupLimit` and `MarkLag` bound the time between two
  steps of the code that a scheduler may separate; both are 1, so both windows exist.
  `MaxTime` only stops the clock. In `gateway_windows` the clock stands still (`MaxTime` 1)
  and both limits are 0, as expiry is the resolver runs' question; bans still come and go,
  since they are made while lists are in use. One thread in the pool for two connections is the
  pool at its limit, which tokio's 512 threads reach with as many tunnels.
- *Tunnel.* Bytes up and down exceed `Chunk`, `Room` and `Window` (2 each), so every call can be
  short, full or empty, and the buffer is reused in either direction. `Rounds` is 3 for the
  code's 6 sends: first, middle, last.
- *Dial.* Two ports: a first and a last. Two addresses of different families, so that the
  order between the families and the loop's end are both reached, with four ways each.
- *Handshake.* The code's own six rounds. The lists cover one scheme with and without a
  challenge, two schemes in either order of rank, none known, none at all, and a header
  without a word, which ends `pick_proxy_auth` early.
- *Lookup.* Patterns of three parts have a middle, a front and an end; parts of two letters
  overlap themselves and the dot. The widths 3 and 4 stand for 32 and 128, with prefixes of 0, the
  width and beyond. Two tokens give an order, and a bad one beside a good one.
- *Framing.* Each message is there for one confusion: data that holds a line end or looks like a
  size, a head behind the body, both framings, a trailer of one line and of two, a length that is no
  number, a head that is none, one unit or header over each limit and one on it. Buffers of 3 cut marks of 2 and 4.
- *Service.* Two installs with a path each (`Typed`): the race needs each once, and either path is
  registered by its own install or by the other. A relative path is one file for the installs and
  another for the instance, an absolute one a single file for all. `Count` is the 3 of the XML: three
  failures in a row, each at the file, the port or an accept, and the end of the restarts.
- *Documented forms.* The host `www.cnki.cn` is cut to `w.cnk.cn`, which keeps the second `.cn`.

**Fairness.** `resolver`: weak fairness of `hops_for`, which runs on tokio's blocking
pool and takes mutexes that are only held for bounded sections; WinHTTP bounds the lookup.
`gateway_windows`: weak fairness of `Prompt`, which leaves out every read from a peer, because
the code sets no timeout on them, and every write that may have to wait until the peer has read:
the request to the destination, the answer's body, a second status line on a connection. Only the
first write on a client's connection, a status line or a head into an empty socket buffer, and the
preface on a new connection are taken to end, as dials and lookups are. A thread of the pool takes up
work when one is free (`SpawnBlocking`); `Settles` says that a connection may also have to wait for one
that others hold while they wait for their peers (`Starved`), since nothing in the code prevents it.
`Answered` of `resolver` is the question behind that: it is about a call that has its thread.

`tunnel`: weak fairness of `forward`, as WinHTTP's timeouts bound the calls towards the proxy and tokio has
made the client's socket non-blocking; nothing is assumed of the peers. `handshake`: weak
fairness of every call that does not wait for the proxy (`Waiting`). `service`: weak fairness of
the instance's own steps, none of which waits for another process, and of Task Scheduler's restart.
`lookup` and `framing` check safety only; `NeverWaits` says when a reader is right to wait.

`Tunnel`'s configurations switch the deadlock check off: `forward` returns, and when both
peers are gone and nothing is left to read, nothing happens any more. All other models run on
for ever.

## 4. What the code does differently from what is said of it

`PROJECT.json` has the five findings with their lines.

- `BannedForCause`: `handle_client` calls `mark_bad` on any error of `try_hop`, while the
  setting is documented as one for connect and authentication failures.
- `PrefaceAfter200`: once a 200 has been written, a failure still leads to the next hop, which
  writes another 200 and has no early bytes left.
- `NoSelfDrop`: `pump` treats a `send` that would block like a lost client.
- `NoproxyNeverSocks`: one trace with two findings. `*.cn` of noproxy does not match `www.cnki.cn`,
  since `wildcard_match` takes the first place of a part; and the script's `SOCKS s:1080` becomes the
  proxies `SOCKS:80` and `s:1080`, since a text without `DIRECT` or `PROXY ` goes to the parser of IE
  lists. The documentation says that the rule sends the host DIRECT in every mode and that SOCKS is
  skipped, so either of the two kept would spare the request that proxy. `config.example.toml:44-45`
  and `:30`, and the test `socks_is_skipped`, are the places.

Two more differences are read off the source and have no run. On Windows every plain
request becomes `GET http://host:port/` (`winhttp_up.rs:161-168`), while `lib.rs:3-4` says that requests are
forwarded; a model could only repeat the line. And `README.md:55` of the program documents `-c path.toml`,
a relative path, which the task hands to an instance in another directory: there it is another
file, and where it is missing the instance writes the example and runs with that. `Service` has both
files, and `TaskLoadable` says how far the promise goes.

## 5. What TLAPS proves

All theorems are for every value of the constants under the assumptions named in the modules
(`HostAssumption`, `AnswerAssumption`, `HopAssumption`, `TimeAssumption`,
`SizeAssumption`, `DialAssumption`, ...), which TLC evaluates in the runs.

- **Resolver** (`ResolverProofs`). `Invariance` shows `Inv` inductive. The safety properties are
  not inductive alone: that no answer reaches another host needs `CacheInv` (what is in the
  cache is its host's) and `LookupInv` (what is about to be inserted is); freshness needs the
  bound on an entry's deadline, kept by `Tick`'s limit; that bans hold needs `BanInv`, the
  distance between the clock and the deadline a task carries. `ImplementsFailover` maps each
  step to one of `Failover` or to a stutter under the mapping `F`.
- **Gateway** (`GatewayProofs`). `GatewayInvariance` for `GInv`. Its part `FlowInv` adds to
  the two promises what holds between the 200 and the tunnel (`FlushInv`, `HeadInv`); its part
  `HeardInv` says what a client has heard at each place: nothing but this hop's head as long as no
  hop was skipped or left behind (`FirstHop`), tunnels for a CONNECT and responses for the rest
  (`HeadsFit`), in the branch of `try_hop` that its method takes (`Branch`). `UsesResolver` shows that
  each step of the gateway is a step of the resolver or leaves it alone, so that the resolver's
  theorems hold in the gateway (`GatewaySkipsBad` is one), and `HeardInv` needs them: a hop that is
  left behind must have been in the list, which is `ListInv`. `EndsAreAnswered` is the action
  property. `OneHopIsComplete` marks off the finding `PrefaceAfter200`: early bytes are lost by
  failing over and in no other way, so a list of one hop loses none.
- **Tunnel** (`TunnelProofs`). `TunnelInvariance` for `Inv`: `CleanEnd` needs `NothingLost`, and
  that needs `CountersInv` (which places of `pump` hold bytes, and which belong to a CONNECT).
  `NoHandleLeaks` is about the three orders in
  which handles are closed: at each place the order left is exactly the handles that are open.
  `ImplementsRelay` shows `KeepsRelay` from it, action by action: what `open` and the reads do is a
  stutter of `Relay`, each write is a `PassUp` or `PassDown`, and each way out of `pump` is an end
  with its cause; that the proxy's good end leaves nothing over is `NothingLost`.
- **Dial** (`DialProofs`). `DialInvariance` for `Inv`. The properties speak of a dial that has
  failed; `ProgressInv` says what they will need while it is under way: every address taken
  from the list before the present one was given up, no IPv4 address is left once an IPv6 one
  is tried, and each way before the present one met with WSAEACCES. The proof treats one task
  at a time (`Good`, `Held`) and shows that a step keeps the others (`OthersKeep`).

- **Handshake** (`HandshakeProofs`). `TypeCorrect`, `HandlesReleased`, `ChallengesInOrder` and
  `GivesUpWithCause` come from one inductive invariant: at each place of the function, how many
  rounds are over, what is still on the wire and in `leftover` of the answer read last, whether
  a session exists and which handles it has made, and which token the challenge in hand answers.
- **Lookup** (`LookupProofs`). `LookupInvariance` for `Inv`: `InOrder` speaks of a call that is
  over, `CallInv` says on the way which sources the call under way names for its role and what
  has failed before it, and `ConfigSuffices`, that `validate` held at the start. `SaidKept`
  is about the parsers, for texts of any length: token by token they give what the text names, or what
  a mistaken one turns into (`MistakenToken`, `TextMeans`), and whatever the text, a hop has a port and a list is not empty (`Flattened`,
  `TextDialable`). `BypassIsExact` is about `noproxy.rs`, for hosts, patterns and networks of any
  length and width: that the first occurrence of each part is as good as any (`GreedyAll`), that
  what remains then decides about the last part, an empty one always and another unless it occurs
  twice (`PatternMeans`), and that
  the masks compare the bits of the prefix and no more (`NetworkMeans`). The recursive functions of
  `NoProxy` are unfolded by lemmas of this module (`RestsDef`, `ReachedDef`, `TwoToDef`), and the
  inductions take the least counterexample, which the library's well-foundedness of the natural
  numbers provides.
- **Framing** (`FramingProofs`). `LengthsAgree` for `Reframed`: while a body with a length is read,
  what has been collected and what is still needed add up to the length (`Counted`), however the
  reads fall; that needs `WithinReceived`, which places every line that is found, and every part
  that is taken, within what has come out of the socket. The four properties about sound messages
  (`StopsWhereItEnds`, `PassedOnAsItCame`, `GivenUpForCause`, `AsksForNoMore`) come from `Sure`,
  which says where in the message the reader is at each of its places: at the head's beginning,
  at a record's line, within its data, behind it, in the trailer; and that what it has collected or
  sent on so far is a copy of that part of the message. The step that carries it is that a reader looking for
  the first mark behind a place finds the one that `Ends` names, whatever else has been received.
  One assumption is about the messages: one that counts as sound is `Sound`.
- **Service** (`ServiceProofs`). `TasksLoad`: installs may overwrite each other's
  `ntgate-task.xml`, but whatever is in it was put there by an install past its
  `load_or_create` (`InstallInv`), in whatever directory that was. `OwnTaskRegistered`: as long as
  nobody else has changed the file in hand, it is empty before an install has written to it and names
  the install's own path afterwards (`OwnInv`), since it was created anew.

**Only model-checked**: liveness (`Answered`, `Settles`, `BothFlow`, `EndsOrWaits`, `Retried`),
which needs fairness and ENABLED, and the violations. Every other property of a passing run is
stated by a theorem.

## 6. What is not modelled

- Splitting of request lines, targets, header lines and addresses (`http1.rs`, `config.rs`
  `normalize_pac_url`, `parse_host_port`): string handling without state. What is decided from
  the results is in the models.
- `doctor.rs`: one sequential probe that prints; what it calls is modelled where requests call it.
- The width of `blacklist_timeout`: `blacklist_timeout * 60` and the addition to an `Instant` can
  overflow for a huge setting. The models' times are naturals, and nothing says which settings are
  meant to be possible.
- PAC's answer is shared between the URLs of one host (the cache's key is the host); the models
  have it so, and `AnswersStayOnHost` is about hosts.
- Logging, formatting, the command line and FFI plumbing carry no state that the properties could
  speak about.

Next would come an abstract specification for `Handshake`, whose requests and answers alternate
strictly, and the framing of answers whose request matters (HEAD, 204, 304), once the code hands
`forward_body` the request.
