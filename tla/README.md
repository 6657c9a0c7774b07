# Vana360: TLA+ models and proofs

Vana360 runs a recompiled Xbox 360 game client against an external
LandSandBoat server.  The guest code, the ReXGlue runtime and the server are
not in the repository; what is, and what is modelled here, is the C++ that
stands between them: the login and lobby client (`src/src/login`), the lobby
bridge (`src/src/runtime/lobby_bridge.*`) and the hooks that guest code calls
in the middle of its own functions (`src/src/runtime/revana_hooks.*`).

Hooks run on guest threads, in any number and at any moment; the bridge adds
host threads of its own.  They share a few dozen globals, some behind a mutex,
most of them lone atomics.  That is where this code is hard, and where the
models are.

## 1. Inventory

| Component | State | Operations | Module |
|---|---|---|---|
| Map key lifecycle (`revana_hooks.cpp` 79-84, 487-544, 1394-1567, 2102-2152) | session key, cipher key, mutex, `enabled`, `rollover_pending` | configure, roll over at 0x00B, end of rollover at 0x00A, hand the cipher to the guest, clear | `KeyMaterial`, `KeyCell`, `MapKey`, `MapHandoff` |
| View-login bootstrap (`revana_hooks.cpp` 2081-2100, 2410-2502; `lobby_bridge.cpp` 391-427) | the armed packet, `request_sent`, `response_ready`, `failed`, `bootstrap_view_login_pending` | arm, send once, peek for the response, release the receive, consume the guest's login | `ViewBootstrap` |
| Login data coordinator (`lobby_client.cpp`; `lobby_bridge.cpp` 337-390) | `data_coordination_started`, `data_thread_`, a socket | launch, bind, trigger, list, wait for selection, send the key, stop, join | `DataSession`, `LobbyData` |
| Bridge configuration (`lobby_bridge.cpp` 203-432, `app.h`) | `RevanaLobbyBridge::State` and its owners, the network hooks | configure, fail half-way, stop, destroy | `LobbyBridge` |
| Lobby packets (`lobby_packets.cpp`) | none | build, authenticate, parse | `LobbyPackets`; key operators in `KeyMaterial` |
| POL resolver (`revana_hooks.cpp` 191-450, 587-630) | service table slots, thunks, saved originals, PolCore's state | install, begin, poll, cancel, bring PolCore up | `PolResolver` |
| UI registration stub (`revana_hooks.cpp` 452-485) | one slot, one thunk | install | not modelled: stores one address |
| World endpoint (`revana_hooks.cpp` 1812-1865, 2154-2173) | `enabled`, port, address | configure, restore a missing target, clear | `LobbyBridge` |
| State trace (`revana_hooks.cpp` 546-577; `lobby_bridge.cpp` 443-517) | `lobby_controller_ready`, a thread, its last sample | start, wait for the controller, sample, stop, join | `LobbyBridge` |
| Trace budget (`revana_hooks.cpp` 143-160) | a counter | count | not modelled |
| Auth client (`auth_client.cpp`), auth protocol | TLS context, left-over ciphertext | connect, handshake, pin, send, receive records until the JSON is whole, decode | `LoginServer`, `RecordLogin`, `AuthClient` |
| Trace hooks | last value logged | log | not modelled |
| Character login (`revana_hooks.cpp`: the list and next-login peeks, `RestoreWorldLoginCharacterId`, an experiment) | one character id, `lobby_character_list_ready` | peek, restore the id in a world login | `CharacterLogin` |
| Descriptor synthesis, service-failure skip (experiments) | guest memory | rewrite | not modelled |
| Application shell (`app.h`, `main.cpp`) | the bridge object | order of configuration, shutdown and destruction | `LobbyBridge`, as far as the bridge is concerned |

How they interact:

* `RevanaApp::OnPreSetup` calls `RevanaLobbyBridge::Configure` before any guest
  thread exists.  It authenticates, makes the map session key, gives it to the
  hooks, arms the view bootstrap and installs network callbacks.
* A guest thread that connects to the view port enters `before_connect`, which
  launches the coordinator thread; the same thread, about to receive, enters
  `RevanaTraceFourByteSocketReceive`, which sends the bootstrap login.
* The coordinator sends the map session key to the data server at character
  selection.  The map server enciphers with the digest of that key; the guest
  fetches the same digest in `RevanaApplyDirectMapCipherKey`.
* Decoded map datagrams pass `RevanaTraceWorldReceiveDecodeResult`, which rolls
  the key over on 0x00B and allows the next rollover on 0x00A.
* `RevanaLobbyBridge` is destroyed with the application: `data_thread_` is
  stopped and joined, and `State`, when its last owner goes, clears the key.

What makes each component correct:

* key lifecycle: the cipher is always the digest of the session key; it changes
  at most once per world login, however often 0x00B is received and by however
  many threads; no thread copies a key that is wiped or half replaced; a wiped
  key stays wiped; guest, hook and map server agree on it;
* bootstrap: the one-time packet is sent once or not at all, on a connection
  the server sees one login; the hook always returns;
* coordinator: one data session at a time, never a flag that blocks the next
  one, the key only after the selection, prompt shutdown, no thread left over;
* auth client: no ciphertext is lost or decrypted twice between the loops; a
  whole answer is found however the stream is cut; the outcome says what
  happened; nothing is sent before the pin is compared;
* resolver: what it saves is the guest's resolver and never its own thunk; a
  request stays with the resolver that began it; the synthetic handle means
  that PolCore is up;
* bridge: a configuration that fails at any step leaves nothing enabled; what
  the send hook fills in is the configured endpoint, never one that is being
  cleared; the state trace ends before the runtime whose memory it reads;
* packets and character login: a guest packet that is stamped twice is the one
  stamped once; only a well-formed list counts as one; a world login keeps its
  character, and its check byte and digest fit it.

The hazards, with the line where each bites, are in `PROJECT.json`.

## 2. Modules and how they correspond to the code

`KeyMaterial` — a session key is 20 bytes of which only the last word ever
changes, so it is that word, modulo `WordMod`.  The digest is a constructor:
two session keys have different ciphers (no MD5 collisions).  The cut of the
digest at its first zero byte (`lobby_packets.cpp` 235-237) keeps this
abstraction except for a digest whose first byte is zero: its cipher is all
zero, indistinguishable from a wiped one in memory.

`KeyCell` — abstract: one key, opened once, rolled over at most once between
two logins, handed out whole, wiped.  No mutex and no flags.

`MapKey` — detailed: the five globals, the mutex, and for every thread a
program counter.  Each atomic load and store outside the mutex is a step; the
two arrays are written in two steps.  `Configure` is one step because no guest
thread exists before it returns (`app.h`, `OnPreSetup`).  The digest may fail in
`AdvanceFails`.  The rest of the program counters, one per comment:

| Action | Code |
|---|---|
| `Configure`, `ConfigureFails` | `RevanaConfigureDirectMapSessionKey` |
| `ReceiveDatagram`, `Walk*` | `RevanaTraceWorldReceiveDecodeResult`, one step per packet |
| `Advance*` | `AdvanceDirectMapSessionKey` |
| `Apply*` | `RevanaApplyDirectMapCipherKey` |
| `StartClear`, `Clear*` | `State::~State`, `RevanaClearDirectMapCipherKey` |

The hooks may run while the key is cleared.  Whether the runtime has stopped
every guest thread by then is decided outside the repository; the model
takes the harder case.  `g_direct_map_cipher_key_reported` only chooses what
is logged and is left out.

`MapHandoff` — the cell between the data server, the map server and the guest.
It uses `KeyCell`'s actions, which `MapKey` is proved to implement.  The server
adds two to its key when it sends a character on (what `AdvanceMapSessionKey`
mirrors), admits only a guest with a matching cipher, and its datagrams
are lost or the last one comes again.  The guest receives on one thread.

`ViewBootstrap` — one step per load, store, exchange, send and peek.  `torn`
marks a connection on which only part of the packet went out.  After the
bootstrap the real hook traces, and with an experimental switch stores a
character id; neither touches the bootstrap's state.  The injected packet does
not pass `before_send`/`consume_send`, which the runtime calls for the guest's
own sends.  The peek is taken to return at once when there is nothing to read
(the guest's view socket does not block), which the retry loop with its ten
milliseconds relies on as well.

`DataSession` — abstract: one login data session after another, with no threads,
polls or stop tokens.  A session is a conversation in which neither side gets
ahead of its turn (`Conversation`); it has one outcome, and its connection is not
used afterwards.  The server may say anything at any time.

`LobbyData` — detailed: the launch in `before_connect` (exchange, construct, and move
assignment as stop, join and move), the coordinator's calls in order, the wait
for the selection poll by poll, and the destruction of the bridge.  A message is
received whole or the receive fails; a receive that times out is `Fails`.
Data races on `data_thread_` are modelled by what its move assignment can do
when another thread has got in between: lose a thread or call
`std::terminate`.  `Shutdown` happens while no guest thread is inside
`before_connect`: the callback holds the bridge by `this`, so the code relies
on the runtime for that too.

`LoginServer` — what a server may send (records, of which the data ones carry the
text; how many of them make a whole JSON value; what it decodes to; the pin), and
when that is an answer within the limits.

`RecordLogin` — abstract: the client takes the server's records whole, one at a
time and in order, and asks of each only whether the step it is at has a place
for it.  It has no ciphertext, no buffers, no chunks and no addresses; it ends
with the decoded answer, a refused record, the end of the stream, or a fault of
the system or the network with an error of its step.

`AuthClient` — detailed: the server's records are cut by `recv` into arbitrary pieces; a
unit of ciphertext is its position in the stream, so a piece that is lost,
repeated or out of order shows.  A record is taken whole or not at all, which is
what `SEC_E_INCOMPLETE_MESSAGE` and `SECBUFFER_EXTRA` give; a ticket (the TLS
1.3 message behind `SEC_I_RENEGOTIATE`) stays in the buffer until
`ContinueHandshake` takes it.

| Action | Code |
|---|---|
| `Prepare` ... `StartHandshake`, `ConnectFails` | `Authenticate`, `OpenSocket`, `ConnectSocket`, `ToWide`, `Handshake` |
| `HandshakeMessage`, `FinishHandshake`, `TakeTicket` | `ContinueHandshake`, from both callers |
| `Receive`, `ReceiveFails` | `Receive` and its callers' errors |
| `DecryptData`, `DecryptTicket`, `RefuseRecord` | `ReceiveJson` |
| `CallFails` | any system call that fails, with the error its place reports |

A data record is one unit of text, and the text is a whole JSON value when it is
the first so many data records of what the server sent.  All records are of one size.  Left out:
the fields of request and answer, and the wiping of sensitive strings.

`PolResolver` — three table slots, three saved originals, three thunk
addresses, each load and store a step of the thread that runs the hook; the
three allocations and their check are one.  The guest fills its table whole,
perhaps with an empty slot, which ends the requests it had.  `overlap` remembers
that an installation was not alone: nothing in the code keeps two guest threads
out of it, so two properties are stated for installations that are alone, and
`ThunkHasOriginal` and `AcceptedMeansReady` for all.  `EnsureDirectPolNetworkState`
checks and initialises in separate steps.  The steps are taken in program
order; the relaxed stores would allow a compiler to move them.

`LobbyBridge` — the application's thread goes through `OnPreSetup`, `Configure`
step by step, `OnPostLoadXexImage`, `OnShutdown` and the destruction of the
bridge.  `owners` says who holds the `std::shared_ptr<State>`: the bridge, the
network hooks (one owner for the four callbacks, which come and go together) and
the coordinator; the last one runs the destructor, on its own thread, store by
store, while guest threads may be in the send hook.  In which order the SDK ends
the runtime and destroys the application is not in the repository, so both
orders are taken.

| Action | Code |
|---|---|
| `PreSetup`, `NothingConfigured`, `ConfigurationIncomplete`, `ReadConfiguration` | `OnPreSetup`, the first half of `Configure`, `ParsePort` |
| `Authenticated` ... `InstallHooks`, `ConfigureFails`, `PreSetupEnds` | the second half of `Configure`, and back in `OnPreSetup` |
| `DestroyKey`, `DestroyFlag`, `DestroyIpv4`, `DestroyPort` | `State::~State`, `RevanaClearDirectMapEndpoint` |
| `PostLoad`, `StopStateTrace`, `JoinStateTrace`, `EndRuntime`, `DestroyBridge` | `app.h`, `StartStateTrace`, `StopStateTrace`, `~RevanaLobbyBridge` |
| `Connect`, `CoordinatorEnds` | the coordinator's share of `State`; its work is `LobbyData` |
| `SendMissingPort`, `LoadPort`, `LoadIpv4` | the three loads of `RevanaTraceWorldSendTarget` |
| `StoreObject`, `StoreReady` | `RevanaTraceLobbyControllerEntry` |
| `FindModule` ... `CompareSample` | the state trace's thread, `ReadLobbyControlState` word by word |

The address of the view port, the pin and the version are read in the same
way as the data port and end in `ConfigurationIncomplete`.

`LobbyPackets` — a packet is the words the functions look at and a Boolean for
its identifier; the checks are in the order of the code, so the error of the
first one that fails is the result.  Of the packets that are sent it has the
fields that `MakeViewLogin` and `PrepareLobbySend` write; the two differ in the
other bytes, which the first fills with zeros and the second leaves to the guest.
`CharacterLogin` has the view server, whose packets TCP may split behind the
header, the hook that peeks at them, and the world login packet.

| Action | Code |
|---|---|
| `EnterReceive`, `PeekHeader`, `PeekNextLogin`, `PeekCharacterList`, `WaitForCharacterList` | the peeks of `RevanaTraceFourByteSocketReceive`, `ParseCharacterList` |
| `BuildLogin` | the guest's packet |
| `EnterSend` | the two loads and the comparison of `RestoreWorldLoginCharacterId` |
| `WriteLow`, `WriteHigh`, `WriteCheck`, `WriteDigest` | its stores into the guest's packet |
| `DigestFails`, `PutBackLow`, `PutBackHigh`, `PutBackCheck` | the stores that undo them |
| `SendLogin` | the end of `RevanaTraceWorldSendTarget` |

The packet is rewritten where it lies in the guest's buffer, so between two stores
it has a new id and an old check byte or digest, and the receive hook may store
another id meanwhile.  The guest sends the buffer again as the hook left it.  The low three bytes of
the id are one store in the model.  Packets that are no login, or too short, pass
the hook as they are and are left out.

The stored id may be that of an earlier choice: the next-login response is
looked at only once, and missed when it has not arrived whole.  The
guest's packet has the low 24 bits of an id; that two characters of an account
differ in them is an assumption about the server.

The MC modules only name model values and small sets.

## 3. Runs

| Run | Checks | Instance |
|---|---|---|
| `map_key` | key pair, wipe, handoff, one rollover per login, the clear ends, refinement of `KeyCell` | 2 receivers, 1 handoff thread, word of 2 bits, datagrams of 0-1 packets |
| `map_key_one_receiver` | the pending flag is exact | 1 receiver, 1 handoff, datagrams of 0-3 packets |
| `map_handoff` | both sides share the key, every zone change is completed | word of 3 bits, 5 zone changes, 1 selection |
| `map_relogin` (violation) | the same invariant with a second selection | 2 selections, 1 zone change |
| `view_bootstrap` | the packet goes out once, one login on the first connection, ready and release are earned, the hook returns | 2 threads, 2 connections, 2 peeks |
| `view_gate` (violation) | the receive is gated on the response | 1 thread, 1 connection |
| `view_consume` (violation) | only a duplicate login is consumed | 1 thread, 2 connections |
| `lobby_data` | one session at a time, no stuck flag, the key after the selection, cancellation, no orphan, a stop is seen, refinement of `DataSession` (one session after another), shutdown completes | 2 guest threads, 2 coordinators, 2 polls |
| `auth_client` | ciphertext is conserved, buffers bounded, pin before credentials, an answer is found, the result explained, refinement of `RecordLogin`, the login ends | all bodies of 0-4 records, all prefixes of their text, records of 2 units, chunks of 1-5, limit of 2 records of text, 2 addresses |
| `pol_resolver` | originals are current, thunks have one, requests stay home, accepted means ready | 2 threads (symmetric), 2 tables, 2 calls of the hook, every initial state of PolCore |
| `lobby_bridge` | all or nothing, the restored target is whole, the tracer stays inside the runtime and catches up | 2 guest threads, hosts none / 0 / loopback, data ports none / 0 / 65534 / 65535 / 65536, 2 words of 2 values, 2 reports |
| `character_login` | ready means a list, a login keeps its character and leaves whole | lists of 0 and 16 characters and malformed ones, 3 server packets, 2 peeks, 2 characters |

The runs do not repeat the type invariants: section 5 proves the one of every
module (of `MapHandoff` with one selection).

Why the bounds are enough: two receivers are enough for a check and a store of
one to be split by another, and the proofs below lift the bound altogether.  A
word of `n` bits wraps after `2^(n-1)` rollovers; five zone changes pass that
for three bits.  Two peeks and two polls give a first, a last and the one
past the end.  Two connections cover a retry after a failed send, two
coordinators a replacement and a race.  A chunk of five units takes
two records and a half, so a record is cut at every place and several are left
over; three data records pass the limit of two.  Two tables and two calls of the
hook give a second installation over a new table and one that finds the thunks
in place; symmetry of the threads is sound for invariants.  65535 is the port that
`ParsePort` accepts and the endpoint refuses, with one port on each side of
it; two reports give the state trace a first, a last and a full budget; two
words are the fewest a sample can mix.  Two server packets make the stored
character id stale and a third replaces it while a login is rewritten; two peeks
are a first and a last one.  Deadlock is not checked: the
system ends (key wiped, host gone, bounds reached).

## 4. Fairness

Weak fairness only.  A thread inside a hook or a coordinator keeps running; a
mutex promises no turn, so no lock step gets strong fairness, and `ClearFinishes`
holds because the flag is lowered first and callers stop coming.
`CoordStep` is fair because every socket call of it has a time limit
(`SO_RCVTIMEO`, `SO_SNDTIMEO`, the 100 ms poll): `Fails` or `SelectTimeout` is
always possible; that the data server closes its end is not assumed.  `AuthClient` is
one thread whose `connect`, `send` and `recv` have the same limits.
In `LobbyBridge` the application's thread joins, the state trace's thread keeps
polling (`Tracer`), and a guest thread that is inside
`RevanaTraceLobbyControllerEntry` comes out of it (`ControllerEntry`); guest and
application owe nothing else.
Servers and the guest owe nothing, except in
`MapHandoff`, where a server that is asked answers and what it keeps sending
is received in the end; without that no handoff could be promised.

## 5. Proofs

`MapKeyProofs` proves, for any sets of receivers and handoff threads, any word
width and any packet bound:

* `Invariance`: `Spec => []IInv`, where `IInv` is `TypeOK`, `MutexInv` (a thread
  is between lock and unlock exactly when it holds the mutex) and `KeyInv` (what
  each step has established under the mutex: a key exists, no rollover is owed,
  the wipe is as far as the owner's program counter says).  `CipherMatchesSession` and
  the others are not inductive: a state with two threads in the critical section
  satisfies them and its successor does not.  The step is split into
  `TypeStep`, `MutexStep` and `KeyStep`, one case per action.
* `TypeCorrect`, `CipherAgrees`, `WipeIsFinal` from `IInv`.
* `HandoffInForce`, `RolloverOncePerLogin`: action properties, from `IInv`
  in the state before.
* `MapKeyImplementsCell`: `Spec => ImplementsCell`, step by step; most steps
  stutter, `AdvanceCipher` is the rollover, `ApplyCopy` the handoff,
  `ClearCipher` the wipe.
* `OneReceiverOwes`: with one receiving thread the pending flag is up exactly when a
  rollover is owed, except between the rollover and the store of the flag
  (`PendingMeansOwed`).  `IInv` has one direction for any number of threads; `MarkInv`
  adds the other, which two receivers break.

Assumptions: `KeyAssumption`, `ThreadsAssumption` and `PacketsAssumption`, which
TLC evaluates in the runs.

`MapHandoffProofs` proves `KeyShared`: with at most one selection, any word
width and any number of zone changes, guest, hooks and server agree on the key
(`SharedKeyLifecycle`).  `SharedKeyLifecycle` says nothing while the guest is
between two zones; `HandoffInv` names the five states of a handoff and, in each,
which datagrams may still come: an unread one is always the last, and a
0x00B can come again only while its rollover is owed.  The word may wrap: an old
datagram under an equal cipher is not among them.

`AuthClientProofs` proves, for any record, chunk and limit sizes in which a
record and a chunk fit together (`SizesAssumption`, `LimitAssumption`), any servers
(`ServersAssumption`) and any number of addresses:

* `Invariance`: `Spec => []IInv`, where `IInv` is `NumbersInv` (less than a record
  and a chunk is ever buffered), `BuffersInv` (which of the two buffers holds the
  rest of the stream at each step, and that the other is empty) and `PinInv`.
  `Conserved` alone is not inductive: with something in both buffers it holds and
  the next move of one over the other breaks it.  The lemmas on `Positions` say
  how stretches of the stream are joined and cut; `TakeRecord` and the case
  `Receive` use them.
* `Conservation`, `RoomForEveryRecord`, `PinBeforeCredentials`: the invariants
  `Conserved`, `BuffersBounded` and `CredentialsAfterPin` of the run.
* `FullInvariance`: `IInv` with `StreamInv` (the client is never ahead of the
  server), `TextInv` (the text is exactly that of the data records opened, and
  while the login goes on neither whole nor over the limit), `ShakeInv` (the
  handshake is over with the first record that is no hello, and a ticket that was
  recognized is still at the head of the buffer), `EarnInv` and `CourseInv`.
* `AnswerFound`, `OutcomeExplained`: `AnswerIsFound` and `ResultExplained`.  Both
  speak of the end only; what they need on the way is that a whole record at the
  head of the buffer is the next one of the stream (`HeadIsNext`), that a server
  that answers has a next record the step accepts (`AnswerGoesOn`), and that a
  `recv` that fails without a fault has nothing left to get (`ReceiveFailsAtEnd`).
* `AnswersAreEarned` and `TypeCorrect`.
* `RecordsRefined`: `Spec => ImplementsLogin`, step by step.  `Receive`, the choice
  of an address and the recognition of a ticket stutter; taking a record is the
  record's step; a call that fails is `Fault`, because the record it fails on is
  in its place; a `recv` that fails is `Fault` or `StreamEnds`.

`IsCompleteJson` and `Lists` say what the text is by the set of the data records,
not by filtering the stream one record after the other, so that nothing here
needs an induction over the stream.

`LobbyBridgeProofs`, for any guest threads, hosts, ports and words: `TypeCorrect`,
`WholeConfiguration` (`AllOrNothing`), `WholeTarget` (`RestoredTargetIsWhole`) and
`TraceEndsFirst` (`TracerInsideRuntime`).  `IInv` is `TypeOK`, `ConfigInv` (what
each step of `Configure` has enabled, and what each set of owners implies),
`SendInv` and `TraceInv`.  `AllOrNothing` is not inductive, for it says nothing of the
inside of `Configure`; and a guest thread between two of its loads is safe only
because the hooks own `State` while guest code runs, which is `OwnersInv`.

`CharacterLoginProofs`, for any characters with distinct low bits and any
packets: exactly what `ParseCharacterList` and `IsCompleteKeyResponse` accept
(`ParsedListIsList`, `CompleteKeyResponse`), that stamping twice is stamping once
(`StampedOnce`), `TypeOK` and the three invariants of the run.  `LoginStaysWhole` speaks of
packets that have left; what makes it inductive is `HalfWritten`: while the hook
is `Restoring`, id, check byte and digest are each the full id's or the guest's
own, depending on the step, and what was saved is the guest's pair.
`OwnCharacter` shows that the full id is that of the packet's own character.

`PolResolverProofs`, for any guest threads and any number of tables and
dispatches: the four invariants of the run.  `OriginalInv` (whoever stores slots
has saved an original for each) and `AcceptedInv` (which parts of PolCore a
request has seen) hold whatever overlaps; `AloneInv` says how far an
installation is that is alone, which the two properties about such
installations need.

`ViewBootstrapProofs`, for any threads and connections: `TypeOK` and the four
invariants of the run.  `IInv` adds who has made the claim to the packet
(`AttemptInv`, `ClaimInv`), that no thread copies the array after it was wiped
(`NoZeros`), and what each connection has seen (`OneLogin`, `FirstInv`,
`AnswerInv`, `OutcomeInv`); `BootstrapSentOnce` alone does not survive a step of a
second thread that is about to send.

`LobbyDataProofs`, for any guest threads, coordinators and polls: `TypeOK` and the six
invariants of the run.  `SessionInv` ties the flag to the one coordinator that is
under way or the one thread about to launch it, `TalkInv` follows the
conversation, `LateInv` the polls after a stop; `AloneInv`, for executions in
which two launches have not raced, says which coordinator `data_thread_` owns.
`SessionRefined` is `Spec => ImplementsSession`, races included: `Construct` begins a
session, `ClearStarted` closes it, each stage of a coordinator is a turn of the conversation
(`TurnOfStage`, from `TalkInv`), and the move assignment, the stop, the joins and
the polls that end in nothing stutter.  What it needs beyond the other invariants is
`ReportInv`: the outcome is stored when the conversation is over, and only the
coordinator launched last can have a session.

Only model-checked: liveness (`ClearFinishes`, `HandoffCompletes`, `HookReturns`,
`ShutdownCompletes`, `Terminates`, `TraceCatchesUp`), which is out of the prover's
reach.

## 6. What the checks found

* `map_relogin`: the bridge sends its own, never advanced, copy of the session
  key at every selection (`lobby_bridge.cpp:358`), while the hooks keep the
  advanced one.  After a zone change, a logout and another selection in the
  same process the guest is given a cipher the server does not use.
* `view_gate`: the comment on `IsCompleteKeyResponse` says the guest's receive is
  not released before the response is complete; the hook reports that it
  "remains gated" and returns.
* `view_consume`: the login that is consumed as a duplicate may be the only one.
* With two receiving threads `PendingMeansOwed` does not hold: the unlocked
  store of a 0x00A can be overwritten by a rollover in progress on the other
  thread, and the next zone change is then ignored.  With one
  receiving thread, which is what the client seems to use, it holds.
* `LobbyData` keeps `raced` out of two properties: if a coordinator ends before
  the guest thread that launched it has stored it, and a second guest thread
  launches, both assign the same `std::jthread`.
* `PolResolver` keeps `overlap` out of two properties: two guest threads in the
  dispatch hook at once can both pass the check of the installed thunk, and the
  second saves a thunk of the first as the original, which then calls itself.
* `LobbyBridge`: when the bootstrap is refused, `Configure` returns without
  `state_.reset()` (`lobby_bridge.cpp` 307-312): key, endpoint and session would stay
  enabled with no network.  The branch cannot be reached, since the port is
  checked before and the packet is always of the right size, so it is not in the
  model; `AllOrNothing` is what it would break.
* `REVANA_LOBBY_STATE_TRACE` is not read when host, user and password are all
  unset, while `scripts/packaging/README.txt:53` names it without that condition.
* The network hooks hold `State`, but `before_connect` also uses the bridge through
  `this`.  Nothing but the order in which the SDK ends the runtime keeps a
  guest thread from connecting after the bridge is destroyed (`Connect`).
* Port 65535 passes `ParsePort` and is refused by the endpoint, after the
  account was authenticated; the failure is clean (`AllOrNothing`).
* `ViewBootstrap`: that one login goes over a connection holds for the one the bootstrap
  was armed for (`FirstConnectionLogsInOnce`).  The code arms a port, and the model reaches two
  on a second connection: the guest's login is consumed on the first, which is
  closed before a receive; on the second the guest logs in again, and its receive
  sends the bootstrap.
* `CharacterLogin`: a next-login response that is cut behind its header leaves the previous id
  stored; the comparison of the low 24 bits is what keeps that harmless
  (`LoginKeepsCharacter`).

What the properties leave out, for a reader who looks for it:

* `OneRolloverPerLogin` counts any 0x00A as a world login, as the code does, and in `MapHandoff`
  only the last datagram is repeated: an old 0x00A that comes after a newer 0x00B
  would end the rollover too early, and is kept out by the guest's sequence numbers, if by
  anything.
* The races named above (`raced`, `overlap`, two receivers) are excluded from the
  properties that they break; they are hazards without a property in `PROJECT.json`.
* `ShutdownCompletes` assumes that a receive ends (`SO_RCVTIMEO`), `Terminates` that
  streams are finite: an endless run of tickets or empty records is not covered.
* `RestoredTargetIsWhole` rests on the hooks' ownership of `State` and on guest threads
  that end with the hooks, not on the order of the hook's loads.
* In `PolResolver` the guest fills all slots of a table at once; that only the poll or the
  cancel slot is filled again is not covered.
* In `LobbyBridge` the guest enters its controller once, so `TraceCatchesUp` does not speak
  of a second entry.

## 7. Not modelled

* Trace hooks and the event budget: they read registers and log, and
  `g_guest_trace_hooks_enabled` turns that on.  One thing besides logging hangs on the
  budget: the receive hook peeks at the character list and the next-login response
  while it lasts or the restore experiment is on (`revana_hooks.cpp` 2503-2506).  Once
  it is used up without the experiment, `g_lobby_next_login_character_id` and
  the list's ready flag are not set any more; nothing but the experiment and the trace reads the
  first.  `CharacterLogin` has the experiment on.
* The UI registration stub of slot +1852: one thunk, one store, no second actor.
* Descriptor synthesis and the skip of a failed service (`revana_hooks.cpp` 1061-1222
  and 1268-1281), experiments that rewrite guest memory: of its layout the repository shows
  a few offsets, and what makes a descriptor right is the guest's code.
* The fields of the login request and of its response, the text of errors and the
  wiping of sensitive strings: pure conversions that the unit tests cover.
* The recompiled guest, the ReXGlue SDK and the servers, which are not in the
  repository: each module has the part of them that the code relies on as its environment.
* Build, packaging and the tests themselves.
* The time limits themselves: a wait is counted in polls.  That the selection wait ends
  after 300 seconds, with the guest perhaps still at its list, is a hazard
  without a property, since nothing says how long a player may take.

What could be added: a second selection in `MapHandoff` once the bridge keeps its
key in step with the hooks.
