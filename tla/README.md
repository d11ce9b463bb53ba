# TLA+ models of otun-kernel

otun-kernel is a sing-box fork: inbounds, a router with rules and rule sets,
outbounds and outbound groups, DNS and a set of services. What the fork adds is
the *realm* stack, which connects clients to egress nodes behind NATs, and a
failover mode of the URL-test group. The modules here model the realm stack in
full and, of the kernel around it, the parts whose state several goroutines
share or whose evaluation is intricate: the URL-test group, the DNS cache, the
fake-address store and rule matching. The rest is listed in `PROJECT.json` as not
modelled, with the reason.

## The system

| part | code | modules |
|---|---|---|
| rendezvous server | `protocol/hysteria2/realm_server.go` | `RealmRendezvous`, its abstract specification `RealmDirectory` |
| node: registration, heartbeats, event stream | `third_party/sing-quic/hysteria2/realm/server.go`, `control.go` | `RealmNode` |
| hole punching between client and node | `realm/punch_engine.go`, `punch_conn.go` | `PunchProtocol` |
| Hysteria2 client: one dial, with relay fallback | `hysteria2/client.go` (`offerNewRealm` and below), `realm_relay_fallback.go`, `realm/relay.go`, `realm/punch_select.go` | `Hy2Dial` |
| Hysteria2 client: the connection and its replacement | `hysteria2/client.go` (`offer`, `DialConn`, `CloseWithError`), `realm_direct_*.go`, `realm_idle_reconnect.go` | `Hy2Client` |
| kernel realm client, for the other protocols | `transport/realm/*.go`, `overlay/*` | `RealmDial` |
| URL-test group and its interrupt group | `protocol/group/urltest.go`, `common/interrupt` | `URLTestGroup` |
| DNS client cache and the cache file behind it | `dns/client.go`, `experimental/cachefile/dns_cache.go`, `rdrc.go` | `DNSCache` |
| fake addresses | `dns/transport/fakeip`, `experimental/cachefile/fakeip.go` | `FakeIP` |
| rule matching | `route/rule/rule_abstract.go`, `match_state.go`, `rule_dns.go`, rule sets | `RuleMatch` |

A node discovers its public addresses by STUN, registers its *realm* at the
rendezvous server and keeps the session alive by heartbeats. A client asks the
server to be connected; the server forwards the request on the node's event
stream and waits for the node's answer. Client and node then punch. If the
punch fails, or the QUIC handshake after it, the client joins a *relay* at which
the node waits with the same nonce. The Hysteria2 client on a relay probes the
direct path in the background and switches back once a direct connection is
*verified*. The other protocols dial through `transport/realm`, which on a NAT
that looks symmetric races the punch with the relays, and report every dial in a
*trace*. Above them a URL-test group chooses between nodes; names are resolved
through the DNS client's cache, or to fake addresses; rules decide on the route
and on the DNS server.

### Inventory: state, operations, and what is hard

* **Rendezvous server.** State: two tables (`realms`, `sessions`), a counter per
  user, per session a timer, a bounded event channel and a pending map. Hard:
  `handleConnect` takes the lock five times and the session can vanish between
  them; timers race heartbeats; channels are closed while handlers may send.
* **Node.** State: addresses and their age, the last published addresses, the
  session ID, a coalesced reset signal. Hard: requests or answers are lost,
  sessions expire, the network changes at any time.
* **Punching.** State: per side a small state machine, packets in flight, the
  node's attempt table and traffic watch. Hard: loss, reordering, NATs that pass
  one direction or only observed addresses, a bounded event buffer.
* **Dials** (both clients). State: up to three sockets (Hysteria2) or one per
  family and per relay (kernel), read deadlines, the stage; shared between
  Hysteria2 dials: failures, back-off and relay preference. Hard: many early
  returns, grace timers, watchers that set deadlines, and in the kernel client
  two nested races whose losers may have succeeded.
* **Hysteria2 client.** State: current connection, pending offer, `closed`, per
  connection a verifier, a prober, a stream count. Hard: five kinds of goroutine
  assign or close the current connection.
* **URL-test group.** State: the selected node per network, strikes, results,
  one round of tests at a time, a timer, a ticker. Hard: selection is not locked;
  rounds, forced rounds, dials and tests by other groups interleave.
* **DNS cache.** State: a turn per question, a memory cache or the file, a queue
  of unsaved answers with sequence numbers and flushing goroutines. Hard: answers
  are queued while older ones are saved; clearing meets both.
* **Fake addresses.** State: two tables that mirror each other, a turn per
  family, saved metadata, a timer. Hard: the ends of the range, crashes between
  writes, resets that fail, changed configurations.
* **Rule matching.** No shared state, but a subtle evaluation: sets of bit masks
  are carried through nested, logical and inverted rules, and DNS rules are
  evaluated twice, once before the answer is known.

## How the modules read the code

One action is one section that no other goroutine can interrupt: a critical
section of a mutex, or the code between two blocking operations. A handler that
locks several times is several actions. Where the code does not lock
(`selectedOutboundTCP`), every read and write is a step. A variable carries the
name of the field it stands for, and the comment at its declaration says which.
`PROJECT.json` maps every definition to its lines.

Abstractions common to all modules: addresses, nonces, tokens and domain names
are model values or small numbers; JSON, HTTP, obfuscation, logging and dial
observers are left out. Durations are abstracted to the order in which timers
may fire, with these exceptions, which are assumptions about time:

* `RealmRendezvous`: a timer armed with a deadline's duration fires when that
  deadline has passed.
* `RealmNode`: a session expires only after a heartbeat was missed or put off, or
  when nobody renews it (the heartbeat interval is half the time to live).
* `Hy2Client`: a retry timer of a minute or more does not fire before the offer
  that started it completes; a probe whose relay has ended is woken before the
  settle time of a verification is over.
* `Hy2Dial`: the relay preference counts down in units of `relayPreferBackoff`.

`RuleMatch` is an algorithm: one behaviour evaluates one rule, a turn of the loop
over nested rules per step, and history variables hold what the documented
reading gives for the same rules. `RealmNode` contains a small abstract of the
rendezvous server (`owner`, `served`); `RealmRendezvous` has that server in full.
`Hy2Client` treats a dial as one step; `Hy2Dial` has its steps. These two
correspondences are argued here and not checked. That `RealmRendezvous`
implements `RealmDirectory` is checked and proved.

## Runs

Every run finishes within three minutes on two cores. Deadlock is checked in
`dial` and `url_test`; the other systems may stop (a closed node, a punch or dial
that ended, a finite supply of connections, sessions, answers or program runs).
In modules without a type theorem, `TypeOK` is a conjunct of one of the
invariants.

### Rendezvous server

* `rendezvous_sessions` (2,331,822 states): two users, one limited to one realm,
  two realms, two sessions and a connect that may outlive the session it looked
  up. Tables, flags, quota counters and timers agree (`RegistryConsistent`,
  `QuotaExact`, `TimerCoverage`), and every step of the server is a step of the
  directory or invisible in it (`ImplementsDirectory`): a realm is claimed only
  when free and by a new session, and a request is answered only by the session
  it was directed to, while that session owns the realm. One node request is
  handled at a time; the proofs lift this bound, and all others.
* `rendezvous_connects` (302,852 states): two connects on one session with one
  pending slot and one event slot, so that both limits are hit, and up to four
  node requests at a time. `PendingExact`, `NoSendOnClosed`; every connect ends and
  every expired session is released (`ConnectTerminates`). Fairness: the steps of
  a connect handler, which never waits without a timer, the session timer, and
  the callback it starts.

### Node

* `node` (14,852 states): three addresses that do not recur, so that the network can
  change again while a change is being published, and two sessions (IDs are
  reused once nobody refers to them). `PublishesUntilServed`: the node stops
  publishing only when the server has its addresses. `Served`: a node with
  addresses gets registered with them and reads its events. `Released`: the
  session of a closed node goes away. Fairness is strong for discoveries,
  requests and answers (not every one of them is lost) and weak for goroutines
  and for the end of a removed session's stream.
* `node_recurring_address`: finding, below.

### Punching

* `punch` (52,927 states): both modes of the node, every combination of blocked
  ways, a network that loses and reorders and one that does not. If either side
  reports success, packets pass in both directions (`RoundTrip`); both sides end
  (`PunchEnds`); where the ways are open and nothing is lost both succeed
  (`BothWin`). Fairness is strong for tickers and the node's deadline, which recur
  whatever else happens, weak for goroutines and arrivals.

The event buffer is 2 instead of 16 so that it overflows. Tickers are held back
while three packets travel, which bounds the state space. On a network that
neither loses nor blocks, the deadlines (1.5 s and 10 s against a retransmission
interval of 100 ms) are taken not to be reached.

### Hysteria2 client

* `dial` (315,807 states): a shared dial and a background probe over both families,
  threshold 2, a maximum of 3 back-off units, 4 failures, so that the doubling
  passes the maximum. Every early return closes what was opened
  (`SocketsAccounted`); no successful punch is dropped while waiting for v6, a
  punched socket has no stale read deadline, and a relay is joined on a nonce no
  handshake has aged (`NoPunchWasted`); the relay is preferred when and as long as
  the failures say (`PreferenceJustified`); every dial returns (`DialEnds`).
  Fairness: every wait in a dial has a timeout.
* `hy2` (164,937 states): two connections, a relay and the direct connection that
  replaces it, and one caller. No connection dialled before a network change is
  current after it (`NoStaleConn`), a live relay is left only for a verified
  direct connection (`WorkingRelayKept`), a drain spares counted streams
  (`StreamsSurviveSwitch`), callers are answered (`CallersAnswered`), and relays
  are probed, idle connections redialled, drained relays closed (`Maintained`).
  Fairness is weak, per goroutine: each of their waits has a timeout. Connections
  are not reused, so behaviours end when they are used up; liveness is about what
  happens to those there are.

### Kernel realm client

* `realm_dial` (347,240 states): one dial in every mode with two families, two STUN
  servers each, two attempts and two relays, and a caller that may give up. Of
  all sockets only the one handed over stays open, whoever wins which race
  (`SocketsAccounted`); the discovery grace drops no family that has answered and
  leaves no deadline on a punched socket (`AnsweredFamilyKept`); the trace is sent
  once and names the path and the failure the caller sees (`TraceTrue`); the dial
  ends (`DialEnds`). Two of each is enough for every race to have a loser in every
  state. Fairness: goroutines run, and every read has a deadline or a watcher.

### URL-test group

* `url_test` (407,564 states): two nodes, the plain mode and the failover mode with
  two strikes, one connection, nodes that come and go, an outside probe. Strikes
  are failures in a row and the plain selection is within the tolerance
  (`SelectionSound`); the failover mode leaves the first node only after enough
  failures (`SwitchJustified`); connections that may be interrupted do not outlive
  a switch (`OldConnsInterrupted`); the failover mode ends up on the only node that
  works (`FindsWorkingNode`). Fairness: rounds and probes go on (tests have
  timeouts), the timer and the ticker's round recur although other rounds may
  hold the flag (strong), and the connection keeps being dialled, because an
  unused group stops testing on purpose.

### DNS cache

* `dns_cache` (319,397 states): two queries for one question, one with a response
  check, two answers of which the check refuses one, two flushing goroutines, one
  clear, restarts; with and without the cache file. The answer stored last is
  what a load returns (`StoredKept`), refused answers are cached only by queries
  without a check (`RefusedNotCached`), queries end and the queue drains
  (`QueriesEnd`). Two answers are enough for one to be saved while the other is
  queued. Fairness: transports have timeouts; a waiting query need not give up.

### Fake addresses

* `fakeip` (622,877 states up to symmetry): three domains, two callers, a
  configuration with two usable IPv4 and one usable IPv6 addresses and one with
  other IPv4 addresses only, two program runs that end orderly or by a crash.
  The tables mirror each other (`TablesAgree`), answers are usable addresses
  (`GivenUsable`), an address is given to another domain only when it is the
  oldest and all are given (`OldestFirst`), and an orderly restart goes on where it
  was (`RestartContinues`). Three domains on two addresses force reassignment.

### Rule matching

* `rules` (153,568 states): every default rule of at most two conditions over three
  groups, with or without rule sets and `rule_set_ip_cidr_match_source`, and every
  kind of logical rule; up to two nested rules out of all default rules of that
  size and the logical rules of two one-condition rules, all inverted or not. The
  states carried through nested rules compute the documented merging of rules
  (`RuleMatches`), the legacy DNS pre-match refuses a rule that would match only in
  two named cases (`PreMatchDefers`), and a rule applied to an answer matches it
  (`AppliedMatches`).

## Findings

* `node_recurring_address` (a run whose property, `Published`, is violated): the
  answer to a publishing heartbeat is lost and the node's address returns to the
  previous one; the server keeps handing out the other address.

The next ones are definitions of their modules that TLC refutes when they are
listed in a configuration; they are not part of a run.

* `NoOrphan` (`Hy2Client`, with three connections): a probe may install its
  connection while a redial is pending (`swapConn` looks only at `c.conn == old`,
  `realm_direct_probe.go:94`); `completeOffer` overwrites it and nobody closes it.
  The comment at line 67 says that the probe gives its connection up.
* `RelayAlwaysProbed` (`Hy2Client`, `FairSpec`): a network change sets `closed` for
  good (`outbound.go:203`); the client is used on, but its relay connections are
  not probed any more. `realm_direct_probe.go:10` promises the retries.
* `JoinedSocketClean` (`Hy2Dial`): the watcher of a relay join may set its read
  deadline after the socket has been handed on (`relay.go:207-213`, `237`); line
  149 says the socket must be clean.
* `RaceOnSymmetricNAT` (`RealmDial`): `guessNATType` (`probe_trace.go:369`) compares
  the mapped addresses of both families, so a dual-stack client whose NAT maps
  consistently counts as symmetric and takes the race that `relay_race.go:27`
  reserves for symmetric NATs; and since equal mappings are kept once, no NAT is
  ever `cone`.
* `BackToFirst` (`URLTestGroup`): when all nodes are condemned, the selection for
  TCP clears all strikes and returns to the first node (`urltest.go:495`); the
  selection for UDP, called next, finds its node no longer condemned and keeps it.
  `option/group.go:19` says that the group goes back to the first.
* `GivenInRange` (`FakeIP`): `FakeIPReset` fails as a whole when one family's bucket
  was never created (`cachefile/fakeip.go:192`), and `Store.Start` ignores it. After
  a change of the range, known domains keep addresses outside of it.
* `FilterSkips` (`RuleMatch`): `docs/configuration/dns/rule.md:626` says a rule is
  skipped when the answer does not match its address filter; `ip_cidr` shares a
  group with the domain items, so a rule with a matching domain never is.

Smaller ones, behaviours of the models that the properties except:

* `DialConn` opens a stream before it counts it (`client.go:767`, `771`). A switch in
  between lets the drain close the relay under it; `StreamsSurviveSwitch` therefore
  speaks of counted streams.
* A node whose first discovery fails does not try again until its network changes
  (`realm/server.go:433`); `Served` therefore speaks of nodes with addresses.
* After a failed punch, a relay handshake error replaces the punch error
  (`client.go:405`), although the comment at line 396 says that the punch error is
  returned (`RelayHandshakeError` in `Hy2Dial`). In the kernel client a dial that a
  relay rescued keeps the failed punch in its trace; `probe_trace.go:116` says so,
  `relay_race.go:30` reads as if it did not.
* In the URL-test group a first selection in the plain mode does not interrupt
  earlier connections; a forced recheck can be dropped between the load and the
  swap of `checking`; a delay of 0 ms counts as no result, and `uint16` sums may
  wrap; dial failures that recur before each selection keep the plain mode on a
  dead node, so `FindsWorkingNode` is about the failover mode.
* `ClearDNSCache` restarts the sequence numbers: a goroutine that was saving may
  take a new queue entry for its own and drop it, and an answer stored between
  the clearing of the queue and of the bucket is lost (`excused` in `DNSCache`).
  After a leader fails, all its waiters ask at once.
* The timer that saves fake-address metadata saves those of its first call, so a
  crash, or a timer that fires after `Close`, sets the turn back; a failed
  `FakeIPStore` only warns. Ranges of one or two addresses, excluded by
  `ConfigsAssumption`, give out addresses outside of the range.
* A logical rule inside a rule set forgets `rule_set_ip_cidr_match_source`, although
  `dns/rule.md:554` makes no such exception. In legacy DNS mode such source-matching
  `ip_cidr` items of rule sets are ignored before the lookup and not reported by
  `WithAddressLimit` after it (the exception in `AppliedMatches`).

## Proofs

TLAPS checks these for every value of the constants allowed by the named
assumptions of each module. Most proof modules extend one component. Two extend a
pair (`DNSProofs` has `FakeIP` and `DNSCache`, `RealmPeerProofs` has
`PunchProtocol` and `RealmNode`); the specification of one of the pair then has
its own name, `CacheSpec` and `PunchSpec`.

* `RealmRendezvousProofs`: all seven safety properties of the server. The inductive
  invariant is the conjunction of type correctness, "only created sessions are in
  use" (`Created`), the registry, quota and timer properties, and `PendingExact`
  with `Unanswered`. `RemoveSessions`, shared by deregistration, expiry and
  shutdown, has a lemma per property; the quota lemma uses the library's facts
  about cardinality. The two action properties follow from the invariant step by step.
  Last comes the refinement, `Spec => ImplementsDirectory`. A realm's
  owner is `realms`, a request's standing is read off its control state and
  channel. One step per action; the server's invariant supplies that a channel
  closed by a removal holds no answer, so that a removal is only a release, and
  that a request which is answered was directed to the answering, live session.
* `RealmPeerProofs`, hole punching: `RoundTrip` and type correctness. The invariant
  says what a packet is evidence of: a packet in flight proves its own direction,
  and an Ack, or QUIC traffic, also the opposite one. Success alone is not inductive
  because it is reached through packets sent earlier.
* `RealmPeerProofs`, the node: `PublishesUntilServed`, for any number of sessions and
  addresses, from the hypothesis `~Recurs`, without which it is false (see
  Findings). Addresses then only grow, and `OrderInv` orders the copies: what is
  believed published, what the server has, what the node knows, what the NAT
  gives. When the first and the third are equal, so is the second. `WireInv`
  supplies that one message is out at a time and which session it is for.
* `RealmDialProofs`: `SocketsAccounted`, `AnsweredFamilyKept` and `TraceTrue`, for any
  set of relays and any numbers of STUN servers and attempts. The properties speak
  of what the dial hands over; the invariant has to say who owns each socket until
  then. `FamilyInv` and `RelayInv` give, per stage and per outcome of the punch and
  of the relay join, the families and relays whose sockets are open; `StunInv`
  bounds the answers of a discovery by the servers still asked; `DeadlineInv` says
  that no socket which may still win has a deadline in the past; `OutcomeInv` ties
  the trace and the error to the stage.
* `Hy2DialProofs`: `PreferenceJustified`, from an invariant that ties the back-off to
  the failures and the preference to the back-off; `SocketsAccounted`, from an
  invariant that says for each stage which sockets are open (`Holds`); and
  `NoPunchWasted`, from `Untainted` beside it: a dial that goes to the relay over a
  failed punch has no family that worked, a nonce on which a handshake was tried is
  not used again, and the winner's socket has no deadline in the past. Last,
  `NoneGoesBack`, an action property: each step of a dial leaves it fewer stages
  (`StagesLeft`), or within a stage one family less to wait for, a watcher further
  on, or one more deadline set. A dial that preferred the relay and falls back to
  punching has more stages left than one that came to the relay from a failed
  punch, which is why the count depends on `why`.
* `Hy2ClientProofs`: `NoStaleConn`, `WorkingRelayKept` and `StreamsSurviveSwitch`, for
  any number of connections and callers, where the run has two and one. `OfferInv`
  says who can become the current connection: offers from before a
  `CloseWithError` are discarded, no probe swaps once the client was closed, and
  while an offer is pending the current connection has ended or is a direct one
  that a probe has installed. `ProbeInv` says that what a probe swaps in is
  verified, and `StreamsInv` that stream counts are the number of counted streams.
  `LookedAfter` says that a waiting caller has a pending offer, that a client on a
  live relay has its probe, and that no drain has the current connection. `CareInv`
  adds what makes it inductive: the connection an offer has built but not yet
  installed is probed already, and only relays are.
* `URLTestGroupProofs`: `SelectionSound`, `OldConnsInterrupted` and `SwitchJustified`,
  for any list of nodes, any delays and tolerance, any number of strikes and any
  connections. First come the two selections. What the loop over the outbounds has
  found (`Scan`) is a recursive function; `ScanFinds` shows by induction over its
  turns that a node with a result is found, and that none is faster by more than
  the tolerance (if no delay is 0 and no sum overflows, as the property says). `FailoverSound` says that the current node is left only when it
  is condemned. Then the state: strikes of the first node are at most its failed
  tests (`Failures`), only a round that holds the flag has replaced a selection
  (`RoundInv`), and an outside probe has a node (`ProbeInv`). The second is what
  `OldConnsInterrupted` needs: a probe that switches while no round runs
  interrupts for itself and for nobody else.
* `DNSProofs`, fake addresses: `TablesAgree`, `GivenUsable`, `OldestFirst`,
  `RestartContinues` and types, for all ranges, domains, callers and runs. The
  invariant adds where the turn may stand (from the address after the network
  address to the last usable one), that the table only holds addresses of the
  ranges in force unless a reset failed, and that the saved metadata, and those
  the timer will save, are turns of the current configuration. `OrderInv` says
  that the addresses given in this run are the last ones of the turn, in its
  order, so that the next one is the oldest; `SavedInv` that what an orderly end
  saved stays until the next start.
* `DNSProofs`, the cache: `StoredKept` and `RefusedNotCached`, for any queries,
  checks, flushing goroutines, answers and clears. A load looks at the queue and
  then at the file, so `Queued` says where the last answer is: at most one goroutine
  flushes, and only while something is queued; what it has read is what is queued
  unless the sequence numbers differ; what it has saved is in the file, or was
  cleaned up because it is dead. A clear that meets a flush, or a save that
  fails, breaks this; from then on nothing is claimed (`excused`). `Refusals`
  extends `RefusedNotCached` to the answers that goroutines hold.
  `NobodyWaitsInVain` says that the key is held by a query at work, that a query
  waits only for the holder (`Led`), and that what is queued has a goroutine that
  flushes it (`Flushed`). Given the types it is inductive as it stands.
* `RuleMatchProofs`: `RuleMatches`, `PreMatchDefers` and `AppliedMatches`, for any groups,
  rules and rule sets, of default and logical rules, inverted or not. `MergedInv`
  relates the states collected so far to the merged reading so far: one of them
  has all groups the outer rule requires exactly if the merged rule of some nested
  rule holds. `LogicalInv` says that the collected set is not empty exactly if the
  conjunction or disjunction holds so far. Neither property speaks of unfinished
  evaluations, hence the strengthening. A nested rule returns at most one state
  per default rule in it, namely what it inherits and contributes (`NestedMeans`).
  `EarlyInv` compares the two evaluations: without `ip_cidr` items they carry the
  same states, and without an item or an inversion that stands against it, what
  matches in full also matches before the lookup.

The library's induction theorems take a predicate as a parameter, which the
installed provers cannot instantiate. `IntervalInduction` in `URLTestGroupProofs`
replaces them for intervals: a set, and the well-founded inclusion of finite sets.

Only model-checked: all liveness, which is outside this prover's reach
(`ConnectTerminates`, `Served`, `Released`, `PunchEnds`, `BothWin`, `DialEnds`,
`CallersAnswered`, `Maintained`, `FindsWorkingNode`, `QueriesEnd`), and the
findings, which are counterexamples. For three of these the safety they rest on is
proved: `NoneGoesBack` for `DialEnds` of `Hy2Dial`, `LookedAfter` for
`CallersAnswered` and for the probe in `Maintained`, `NobodyWaitsInVain` for
`QueriesEnd`. What is left to TLC there is that fair steps are enabled and taken.

## What is not modelled

* Within the realm stack: STUN messages, a discovery of the node that straddles a
  network change, the expansion of candidate addresses, the packet format, the
  relay itself (its acknowledgement is an input), the node's window at the relay
  against the client's delays (dials and nodes have no common clock), connects
  that reuse a nonce, half-open event streams, stall detection beyond its effect,
  dials without a realm, and tuic, which punches inside an external library.
* URL-test group: `Close`, direct routes; the manual selector.
* DNS: message rewriting, strategies, the order of the two families, the router's
  loop over rules, `DisableOptimisticCache`, a query nested in its own transport.
* Rules: loading and updating rule sets, `match_response`,
  `rule_set_ip_cidr_accept_empty`, the items themselves.
* Everything else in sing-box: codecs, wrappers of external libraries, front ends
  and option parsing hold no shared state of their own or are generated; see the
  components in `PROJECT.json`.

## Plan

1. A composition of client, server and node for one connect, with the node's
   server replaced by `RealmDirectory`.
2. `StreamStall`; the windows of relay joins with a common clock; the candidate
   address operators against a reference definition.
3. Remote rule sets, the component managers' start and close order.
4. Proofs: the correspondence of the node's abstract server with `RealmDirectory`.
