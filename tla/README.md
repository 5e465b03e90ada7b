# addr.tools in TLA+

Specifications, model-checking runs and machine-checked proofs about `addrd`, the
DNS and HTTP server of this repository. The TLA+ modules are translated from the Go code
under `internal/`; paths below are relative to the repository's root.

## The system

`addrd` (`cmd/addrd`) reads a JSON configuration and starts, in one process, DNS
listeners (UDP, TCP, TLS, QUIC), HTTP listeners and the goroutines behind them
(`internal/config`). Each part is enabled by a section of the configuration.

| component | state | operations | interacts with |
|---|---|---|---|
| `ttlstore` in memory (`simple.go`) | map of keys to values with expiry, size, dirty flag, database file | Add, Set, Remove, Delete, readers, Prune, WriteFile, LoadFile | every zone; two loops and a deferred write started by `config.Run` |
| `ttlstore` on Valkey (`valkey.go`) | hashes in Valkey with a lifetime per field | the same interface, each call with a timeout | replaces the former when `ValkeyURL` is set |
| `probewatch` | inner hub, a stop channel per watcher id, a cursor per tail | Register, Unregister, a polling goroutine per tail | websocket handler; lists in Valkey written by the CoreDNS probe plugin (another program) |
| `dnscheck` watchers (`watcher.go`, `websocket.go`) | map of watchers with a limit; per connection a bounded channel, a WriteLoop, a deadline | ServeHTTP, Send, WriteLoop | the DNS handler, or `probewatch` |
| `dnscheck` DNS handler, options | prepared SOA signature, a key pair that signs badly, rate limiter | ServeDNS by options in the name | watchers, IP information service |
| `dnsutil` | prepared SOA signature, signing key, static records | SimpleHandler.ServeDNS, Sign, Prove, EDNS checks | record generators of the zones |
| `zones/myaddr` | records in the store: `<name>:reg`, `hash:<hash>`, `<name>:ip4/ip6`; challenges | register, update, delete, suspend | two stores, Turnstile |
| `zones/dyn`, `zones/challenges` | addresses, challenges in a store | update, delete | stores |
| `probereport` | none of its own; a counter and two lists in Valkey | Get, readings of observations, QNAMEMinimisation | the probe plugin |
| `netutil` | a channel of streams, a context | Accept, Close, two kinds of goroutine | quic-go |
| `odoh` | a key pair per process; a context per query | seal and open queries and responses | a library, used by no other part yet |
| `httputil` | the lazily parsed parts of a request | Values, GetString | the handlers of the zones; remote services |
| `dns2json`, `status` | none | lookups, counters | upstream resolvers |

What is hard: the locks of the watcher hubs are taken separately and connections with one id
race; stop channels are closed by whoever unregisters; the tail reads a store that fails; the
in-memory store keeps its count apart from its map and skips file writes by a flag; a process
may be killed, or end itself by `log.Fatal`, between any two steps; the myaddr handlers make up
to six store calls with nothing to tie them together; a call to Valkey that timed out may still
be carried out; the selects of the QUIC listener choose at random while it ends; signatures are
made in advance and cached elsewhere. `PROJECT.json` lists each such hazard at its line.

## Modules

| module | models | proofs |
|---|---|---|
| `TtlMap` | the abstract store: what the `TtlStore` interface promises to readers | |
| `TtlStore` | `simple.go` and the part of `config.Run` that drives it | `TtlStoreProofs` |
| `WatchHub` | `probewatch.Hub` over `SimpleWatcherHub` with the websocket handler | `WatchHubProofs` |
| `Myaddr` | the handlers of `zones/myaddr/api.go` over the two stores | `MyaddrProofs` |
| `ProbeReport` | `probereport.Store.Get` and `QNAMEMinimisation` against the plugin's writes | `ProbeReportProofs` |
| `DnsResponse` | one query through SimpleHandler.ServeDNS or DnscheckHandler.ServeDNS | `DnsResponseProofs` |
| `StreamListener` | what a net.Listener owes its user | |
| `QuicListener` | `netutil.QUICStreamListener`: its goroutines, its channel, its context | `QuicListenerProofs` |
| `RequestValues` | `httputil.RequestValues`: how a named value is found in a request | |
| `SecretZones` | the handlers of `zones/dyn` and `zones/challenges` over `ValkeyClient` | `SecretZonesProofs` |
| `OdohWire` | the encoding and decoding of `internal/odoh` | |
| `Odoh` | clients, a target and a proxy that exchange its messages | `OdohProofs` |
| `SoaSig` | the validity of prepared and fresh signatures, `initSoaSig` and `Sign` | the end of `DnsResponseProofs` |

Those that are run have an `MC` module that declares the model values. Beside the definitions
stand their mutants: variants with a plausible mistake, each of which breaks one property.

### TtlStore and TtlMap

A value in memory is a record of key, value, expiry and position of insertion (`entries`);
`size` and `dirty` are the fields of the same name, `disk` is the file. Add, Set, Remove,
Delete, Prune and WriteFile are one action each because each holds the store's lock
throughout. `WriteFilePeriodically` is two actions, since it reads `dirty` under the read
lock and writes later; the final write of `config.Run` is a third writer. A write may fail,
the process may crash at any point, and Restart loads the file. Two values that differ in
content are two model values; the byte format of the file is left out.
Width stands for the 32 bits of an expiry.
`MaxSize` is a limit of the library: `config.go` never sets it.

`TtlMap` knows only what readers can see. The refinement maps its `live` to the unexpired
values in memory and `saved` to those in the file; pruning, refused operations and the saver's
reads are stutters.

### WatchHub

A connection goes through `ServeHTTP` by its program counter: Check (the critical section
of IsRegistered), RegisterInner and RegisterTail (the two locks Hub.Register takes one after
the other), Serve, Leave, UnregisterTail, UnregisterInner. The tail is a second process of
the connection with its own counter: look at `stop`, fetch, send, advance, wait; the select
at its foot is a choice when both channels are ready. WriteLoop is a third; the unsynchronised
`ws.ch = nil` as it ends is a choice of what Send sees. The list in Valkey is written by
`PluginPush`, which is external; of an entry it matters whether it decodes. `maxSize` is the
field MaxSize of the inner hub, set when it is made: Init chooses it from `Limits`, where 0 is
no limit, as in the code.

### Myaddr

A request is the list of the store calls it has still to make, in the order of the code;
every call is a step of its own, between those of other requests, and returns early where
the handler does. `MayFail` lets any call return an error (the Valkey store; the in-memory
store never fails without a size limit), `Instant` lets the clock stand while a request is
served. Of the store only `TtlMap`'s promise is used: an expired value is gone.
A key and its hash are one value. Parameter checks and Turnstile come before
the first call and are the guards under which a request arrives; GET requests only read.

### ProbeReport

Store.Get is three reads, in between which the plugin counts and lists further
queries in either order and keys expire. The model drops the content of error reports.

### DnsResponse

`phase` names the part of ServeDNS that runs next: the checks, the keys, the records of the
apex and of the configuration, then the generator (SimpleHandler) or the options of the name
(DnscheckHandler), then the deferred functions in the order they run. A return goes to the
deferred function registered last, so where it stands decides what runs: an early refusal is
only written, a DNSKEY answer is signed and sized but gets no SOA record. The two handlers
share all actions but Generate and ServeOptions; SimpleHandler defers the answer to ANY,
DnscheckHandler gives it in its body.

A section is the set of types of its records (A stands for A and AAAA), and a signature names
the type it covers, its key and whether it was prepared, fresh or expired. ParseOptions is
modelled by the combinations of options it can return: one about signatures, one about the
content, one about truncation. `compress` changes no content and the random label concerns the
watchers only (`WatchHub`). What a generator reads from its stores is a choice: a valid name has
any of its records, or the read fails. The transport and the packed size matter in the resize
only and are chosen there. `WwwAssumption` says that only the apex has NS, SOA or DNSKEY records
(nothing is delegated); names between the apex and a name that exists are not modelled.

### SoaSig

The clock, the prepared signature, the time the refreshing goroutine wakes, and what each
resolver holds. A goroutine runs at most `Lag` late: this is the assumption on the scheduler
under which time may pass. A Restart signs anew, as `SigInit` does. The names `SigSpec`, `SigNext`
and so on let one module extend it and `DnsResponse`.

### QuicListener and StreamListener

`main` is acceptConns, `pc[c]` the acceptStreams of a connection, `apc[a]` a user of the
listener. A rendezvous on the unbuffered channel is one step of two parties (HandOver); a
select whose `ctx.Done()` is ready as well may take either branch. `cause` is
`context.Cause`, which keeps the first. The library may fail at any time, may hand out what it
has although its context is done, and leaves accepted connections alone when its listener is
closed: a stream that nobody took stays with its connection until that idles out.

`StreamListener` says what the DNS server may assume, in terms of arrived, given and shut
streams and of the calls. The refinement maps `arrived` to the streams past the first select
of acceptStreams and `waiting` to the calls past the first select of Accept. That first select is
what makes a call after Close fail; a call begun before it may still return a stream.

### RequestValues and SecretZones

A request is its method, media type, body and query; the body is given by what each of its
readers makes of it. `JSONObject` is the map that json.Unmarshal fills: of a name that the text
repeats the last value stays. `GetString` is translated with its loop, where the first string
counts and a second one or a value that is no string ends it. `Decide` is what the two handlers
make of a request before they touch the store: refused, shown, or a write. They call a value
"ip" and "txt"; the module has one name for both.

Every store call is a message to Valkey that is executed once, late, or never, and whose reply
arrives or does not (`Execute`, `Lose`, `Reply`, `Fail`). Set is a transaction of two commands,
Delete of both addresses is two calls one after the other. Several processes share a Valkey, so
nothing but the server orders their calls; a crash of a process is a `Fail` that nobody hears
of. The time of an update, which the TXT record shows, is left out, and so is List, which only
the administrator's page uses (`myaddr/api.go:140`). In memory (`TtlStore`) the same value added
twice is kept twice, in Valkey it is one field; readers cannot tell by their answers what TTL
the first had.

### OdohWire and Odoh

The encoding is translated byte by byte, to a smaller base: with `Base` 6 a length prefix ends
at 35, so messages cross it in a small instance as they do at 65535 in the code. What
cryptography makes is a number that opens only with the same key and data (`Opens`,
`secrets`). A Restart of the target makes a new key and forgets the contexts of queries; `net`
holds every message ever sent, so the proxy can repeat, delay and drop each.

## Runs

| run | question | size |
|---|---|---|
| `store` | safety, refinement and liveness of the store in one instance: two keys, two values, limit 2, three insertions, clock to 2 | 152k states |
| `hub_data` | one connection, four entries, reads of two, a channel of two, failing reads | 48k |
| `hub_live` | two connections on one id or two, without a limit and with a limit of one: two ids at once, refusal at the limit, everything ends | 180k |
| `myaddr_sequential` | eight requests, one at a time, one name, two keys | 79k, symmetric |
| `myaddr_concurrent` | four requests, two at a time, two names, two keys, failures, a running clock | 363k, symmetric |
| `myaddr_undelete` | an update and a deletion at a time; violated | |
| `report_polls` | three queries over a list of two, polled without end | 1.2M |
| `soa_sig` | TTL 5, skew 2, lag 1, clock to 40 | 10k |
| `quic` | two connections, with two streams and one, two users | 190k |
| `secret_zones` | 272,800 shapes of requests, three of which reach the store, clock to 1 | 2.1M |
| `odoh` | two clients, two keys, two queries, two responses, paddings below, at and beyond the limit | 31k |
| `dns_response` | every query to every zone of both handlers, static records of two kinds, three payload sizes, three response sizes | 917k |

The bounds let the interesting cases happen: three insertions exceed the limit of two, so Add
and Set are refused; lifetimes of 1 and 2 under a clock of 2 expire before, at and after a
prune; two connections allow an overwriting registration and a refusal at a limit of one, and
without a limit both ids are registered at once (any number of them is what `WatchHubProofs` is
about); four entries in reads of two into a channel of two fill the channel, and leave a tail
between two batches; two keys and lifetimes below the last clock value let a name expire and be
given away again; 40 ticks are four refresh cycles and more; a CAA record is a type that
NsecTypes need not list; one connection with two streams shows their order, a second that they
do not wait for each other, and two users a Close within an Accept; three requests are an
acknowledged one, one that is late, and one in between; the third client or response of `odoh`
would differ from the second in nothing; an alias answers every type, and the sizes lie below,
between and above the limits of 512, 1000 and 1400.

`CHECK_DEADLOCK FALSE` is stated where the system may come to rest: a connection is used
once, a query ends when it is answered, the requests of Myaddr and the clock are bounded.

### What the runs show

*store*: `size` is the number of values; the limit holds in memory and in the file; while
`dirty` is FALSE the file equals the memory, although the flag is read outside the critical
section that clears it; readers see `TtlMap`; every change is written unless the process
dies; no expired value stays.

*hub*: no stop channel is closed twice, no tail is orphaned, a stopped tail begins at most
one more read; ids do not interfere; the limit holds; each decodable entry is sent once,
in order, or dropped for want of room only; every registration ends with its tail and its
WriteLoop.

*myaddr*: whatever is interleaved or breaks off, a key writes only under the name it was
issued for, and a registration lasts as long as is shown. Requests served one after the other
keep one key per name, serve only what the holder wrote, and suspend and delete completely.
Interleaved requests do not: see the findings.

*report, signatures*: the number shown is never below the list and never above the queries
made, does not fall while nothing expires, and an undecodable entry hides no other; "observed"
is said only of a resolver that walks by NS. No resolver holds a signature outside its
validity, clocks off by the skew included.

*dns_response*: an empty answer is proved by SOA and NSEC, added by two deferred functions;
every set of records is signed once, with the key and the validity the name asks for; a
proof of absence denies no type the zone would answer; a response that fails carries
nothing that was collected before; over UDP the sizes fit.

*quic*: every stream taken from a connection is given to one call of Accept or closed, and
not both; a call that begins after the end fails, with the first cause; once the context is
done every goroutine ends and every call returns; before, no stream waits for ever while the
server calls Accept.

*secret_zones*: what was answered with success is served until it expires or gives way to a
request that was not itself acknowledged before that one began. A call that timed out can be
carried out after later ones: it was answered with an error, so it is never an acknowledged
value that comes back. A request is carried out only when all that counts in it agrees: every
secret, every value, in the query, a form, the last value of a name in JSON, or the body as far
as it was read. What it admits there are two of the divergences listed below.

*odoh*: a message is read as it was sent or refused, cut short or too long; the config is
found behind configs of other versions and suites; a query to a former key is told so, whatever
its content; a response is accepted for its own query only, of equal names too.

### Where the repository says something else

One run, `myaddr_undelete`, ends in a violation of a statement that `PROJECT.json` quotes: a
deletion is "immediately and permanently", but an update in flight writes the deleted
registration back.

What else was met while modelling, in which no property is stated of the words quoted:

- `website/myaddr.tools/index.html:52-53`: "If the name is available, you will be given a secret
  key. [...] If you lose the secret key, you lose the name." Two registrations at a time both
  find it free (`myaddr/api.go:368`) and are both answered with a key that works.
- `website/myaddr.tools/claim.html:166`: a registration "is pending until you make your first
  update", but `RegistrationRecord.Expires` (`myaddr/api.go:35`) takes equal timestamps for a
  pending one: after a first update in the second of the registration the date shown is an hour
  away, the real one 120 days. `LastsAsLongAsShown` is the half that holds.
- `probereport/qnamemin.go:35-36`: "A-based minimisation reads as "unknown", never as "no"";
  with a modified name in the list the function (and its test) answers "absent".
- `httputil/request.go`: Values "returns all request values" and GetString finds "differing
  values" (`:91`, `:128`), but of two secrets in one JSON object only the last is in the map
  (`:73`), and the request is carried out with it.
- `dyn/api.go:137` speaks of "the entire body"; the error of BodyText is dropped (`:140` and
  `challenges/api.go:91`), so where the media type is neither form nor JSON the part of a body
  that broke off counts. nginx, in front, buffers bodies.
- `probewatch/probewatch.go:113` says that registering an id that has a tail "should be
  impossible — the handler checks IsRegistered first". Two connections with one id both pass
  IsRegistered before either registers; the second stops the tail of the first, whose Unregister
  then stops the second, which is served without receiving anything. `StopChannelsAreSound` and
  `WatchesEnd` hold all the same. (`pc[c] = "inner"` with `tails[wid[c]] # None` is reached in
  `hub_live`.)
- `odoh/odoh.go:117-122` calls the bound in wireLen "unreachable given the entry-point checks".
  They check the DNS message and the padding; both may fit while the sealed text does not, and
  then the prefix is cut to 65535 and every receiver reports the message as malformed
  (`FramingIsExact` says so).
- `odoh/odoh.go:104-107` says a length that disagrees with its contents is what "every parser in
  this package treats as an attack"; parseConfigContents (246-250) passes over bytes after the
  public key.
- EncryptResponse takes an empty DNS message, which every client then refuses as malformed
  (`odoh.go:340`), where EncryptQuery refuses it at once.
- `probereport/report.go:329-332` says the third read is tolerated separately; line 335 returns
  its error for the whole report.
- `website/dnscheck.tools/help.html:75` says that a `nosig` name gets no signature; a negative
  answer under `nosig` has the prepared signature of its SOA record, and under `badsig` and
  `expiredsig` this one signature is good (`dnscheck/handler.go:268`). `SignedOnce` and
  `BrokenAsAsked` admit it and no other.

### Fairness

`TtlStore`: the loops of `config.Run` take their steps (weak fairness of Prune, SaverWake and of
SaverWrite or SaverFail). Nothing is assumed of callers, crashes, restarts or the clock.
`WatchHub`: goroutines that can run do, and reading from a connection that is closed fails;
clients need not leave and the plugin need not push. `hub_live` adds that the deadline of a
watch passes (the timer of `ServeHTTP`) and nothing of the store, which may fail for good
(`FairSpec`). `hub_data` adds instead that a read of Valkey that is tried again and again
succeeds some time (`Reads`, strong fairness of TailFetch, as failing disables it), and no
deadline, so that the feed is asked to work for as long as a watch may last (`FeedSpec`).
`QuicListener`: goroutines that can go on do, the DNS server calls Accept again until it fails,
and the waiting senders of a Go channel are served in their order, so that each HandOver that is
possible again and again happens (strong fairness). Nothing is assumed of peers, of errors or of
Close. The other modules state no liveness.

## Proofs

All theorems are checked by TLAPS, for all values of the constants, from
the named assumptions of the modules. One group of theorems has a hypothesis besides, named and
explained below: `Sequential` in `MyaddrProofs`. Before it
was proved inductive, each invariant was checked by TLC on the instances of the runs.

Three loops of the code run over data: over the values of a request (GetString), over the
entries of a list (Get) and over the configs of a list (ParseConfigs). What they compute is
proved for every length. The library's induction theorems take an operator and cannot be
instantiated, so `SetInduction` says of *sets* of numbers what they say of predicates, and is
proved from the pigeonhole principle of FiniteSetTheorems. A loop is a recursive function in its
module; the proofs show that a function with its equation exists (`LoopExists`, `JumpsExist`),
so that the definition stands for one, and then what it is at each place.

- `TtlStoreProofs`: *Inductive* proves the invariant `IInv`: types, finiteness of memory and
  file, positions unique below the stamp, the count, the limit and `dirty`. Finiteness is needed
  for the count to mean anything; the limit of the file follows because a write copies memory.
  *TypeCorrect*, *SizeCorrect* and *SkippedWritesAreSafe* are its parts; *Implements* shows that
  every step under the invariant is a step of `TtlMap` or a stutter.
- `WatchHubProofs`: *HubInductive* proves an invariant that relates the two maps to the program
  counters: a stop channel in the map is open and belongs to a running tail or one yet to start,
  one that is not in the map is closed or its connection has unregistered. From it
  *NeverClosedTwice* and *NeverOrphaned* (together *StopsOnce*), *StopsPromptly*, *Isolated*,
  *LimitHolds* and *TypeCorrect*, for any number of connections and ids. A second invariant,
  `FeedInv`, follows the entries: the cursor and the batch of a tail lie within its list, which
  only grows; the decodable entries before the place the tail has reached are those shown (on
  the page or still in the channel) and those dropped; and what is shown is in order, so that
  the next entry is larger than all before. *FeedInductive* and *FeedCorrect* give the feed,
  *DropsJustified* that nothing is dropped while there is room and a reader, which is the safety
  half of `NothingIsMissed`.
- `MyaddrProofs`, whatever is interleaved and fails: `IInv` says of each request what it knows
  (the key it has was issued for its name, a challenge or an address it is about to write is
  that key's), which no call of another request can undo because a key never changes its name.
  From it *TypeCorrect*, *KeysStay* and *LastsAsShown*, for the latter with the record a request
  has loaded. Under `Sequential` (one request after the other, no failing call, a clock that
  stands meanwhile) `SInv` says of each name whether it is settled: all that is stored for it,
  keys included, is the holder's and gone by the end of the registration, and nothing is there
  if there is no registration. It says this for every name but the one of a request under way,
  and of that one, for each place in each plan of calls, which part of it is left to do. From it
  *OneKey*, *HolderIsServed* and *DeletionIsForGood*. The hypothesis cannot go:
  `myaddr_undelete`, and the two registrations at a time listed above, are what happens without
  it.
- `DnsResponseProofs`: *Inductive* relates what is in the response to the phase: before Prove a
  negative response has its SOA record, and one that failed is bare and stays so
  (*NegativesProved*, *FailuresBare*). For *AnswersConsistent* the body is shown to end with
  NOERROR exactly for the names that exist and with their records only, so that the types Prove
  lists are those of the right name; the case of `badsig`, whose provider has no list of its
  own, rests on the names that can have options. *SizesFit* rests on two lemmas on GetMaxUdpSize
  and AddPadding, for all sizes. `SigInv` says that until Prove has run the only signatures are
  the prepared ones of a SOA record, and what Prove makes of them, whole or not at all: so none
  is doubled when Prove meets the SOA record that a later deferred function could have added
  (*EachSignedOnce*), and only the prepared one may be good where broken ones were asked for
  (*BrokenAsPromised*). *TypeCorrect* has an invariant of its own. The end of the module is
  about `SoaSig`: the prepared signature is at most a TTL old, so what is handed out has a TTL
  and a skew to go (*SignaturesValid*), for every TTL of at least 2; *SigTypeCorrect* is proved
  only.

- `QuicListenerProofs`: one invariant says for each connection which of its streams are given,
  shut or in hand, by the place of its goroutine; a stream number above `taken` has not been
  seen. *TypeCorrect* and *StreamsAreAccountedFor* follow; *ImplementsListener* takes each
  action to a step of `StreamListener` or a stutter.

- `SecretZonesProofs`: a call under way belongs to a request that waits for it or was given up,
  one call for each, and the requests that had been answered when another began stay answered;
  so a late call is never that of a request answered before. With what each call does to the
  cell it is about, this gives *AcknowledgedRequestsHold*, for any requests, lifetimes and
  clock; *TypeCorrect* is a part of it. The run stops the clock before a TXT value expires or is
  renewed: for that the theorem stands. For *RequestsClear*, `GetStringMeans` says what the loop
  over the values of a name amounts to: it returns a string only if all of them are that string;
  of a name in JSON there is one at most (`JSONObjectValues`), so two in one text are not told
  apart. The two handlers use it in turn on key, value and body (`DynIsClear`,
  `ChallengeIsClear`), for requests with any number of values.

- `ProbeReportProofs`: `RecordInv` bounds the counter and the list by the queries that one and
  the other record has taken, `KindInv` has every entry be of a query the resolver makes, and
  `PrefixInv` and `PollInv` follow what Get has seen from read to read: the decodable entries of
  a list that grew begin with those it had (`DecodableAppend`), and the number shown last is not
  above the counter or the list, one of which has it still unless a key expired. From these
  *TypeCorrect*, *ReportRight* and *ObservedTrue*, for any number of queries and any capacity of
  the list.

- `OdohProofs`: first what the parsers make of what was marshalled (*PlaintextFacts*,
  *MessageFacts*) and of what was cut short (*CutFacts*), for every base of the length prefixes
  and all lengths. Then `ExchangeInv`: every sealed query holds a name, every response the
  secrets of its query and the name that one asks for; the HPKE context in the secrets differs
  for each query, so what opens is the right one (*ResponsesMatch*). Then `TargetInv`: every
  message on the network is one of those sealed, under a key the target has or had, with the
  identifier of that key; this gives *TypeCorrect*, *StaleToldSo* and *FramingExact*. For all
  three a client must find the target's config behind whatever list precedes it, which is
  `ConfigsAreFound`: ParseConfigs, from the start of a config that is passed over, comes to the
  start of the next, by induction on the distance to the end. `ForeignAssumption` says what may
  precede: any list of configs of other versions, with any contents, and of well-formed ones of
  other suites, as long as the whole fits its prefix.

Only model-checked: liveness (`NothingIsMissed`, `EverythingEnds` and the like), which is out of
the prover's reach. Every invariant of a run that passes is stated by a theorem.

The assumptions on constants are those the code fixes: None is no value of the program
(`NoneAssumption`), the configured records, requests and bytes are of their types
(`RecordsAssumption`, `RequestAssumption`, `ByteAssumption`), a byte has two values at least
(`BaseAssumption`), what precedes a config is a list of configs (`ForeignAssumption`), bounds
are numbers.

## Not modelled

Byte formats (but those of `odoh`), cryptography, TLS and certificates, logging, pages and
scripts, remote services (Turnstile, IP information), the lookups of `dns2json`, and the rest of
start-up. Of that one thing was met: with `ProbeReportEnabled` and `DnscheckZones` both set,
`config.Run` registers `/watch/{watcher}` twice (`config.go:181` and `:243`), and http.Handle
panics. A tail whose list expires and is written anew (`probewatch.go:237`) skips as many
entries as its cursor has counted; the lifetime of the list is the plugin's, which is not in
this repository.

## Plan

1. Start-up: which handlers are registered under which configuration.
2. An expiring list in `WatchHub`; the admission of lookups in `dns2json` and the age it allows to caches.
3. `Myaddr` over the `ValkeyClient` of `SecretZones`, late calls included.
