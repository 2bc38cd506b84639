# A TLA+ verification of icesmtp

icesmtp is a Go library for the server side of SMTP sessions. The library runs
one session at a time on a connection it is given; the embedding program listens,
starts sessions, and supplies the policies, the mailboxes and the storage. This
directory holds TLA+ models of the library, the TLC configurations that check
them, and TLAPS proofs. File names and line numbers below refer to `src/`.

## The system

| Part | Files | State | Operations | Module |
|---|---|---|---|---|
| protocol state machine | `statemachine.go`, `state.go`, `command.go` | `sm.state` | `Transition`, `TransitionForCommand`, `Connect`, `Greet`, `Reset`, `DataComplete`, `TLSComplete`, `Terminate`, `Abort`; the two command tables | `StateMachine` |
| session engine | `engine.go`, `session.go`, `limits.go`, `reply.go` | `e.state` (its own copy of the protocol state, hostname, TLS flag, error count), `e.envelope`, `e.stats`, `e.closed` | `Run`, `processOneCommand`, one handler per verb, `streamData`, `performTLSUpgrade`, `handleDisconnect`, `Close` | `Engine` |
| connections | `conn.go` | socket or pipe, `bufio.Reader`, deadlines, closed | `ReadLine`, `Write`, `Close`, `UpgradeTLS`, `ResetReader` | `ConnTLS`, and in `Engine` |
| parser | `parser.go` | none | `ParseCommand`, `ParseMailPath`, `ParseHeloHostname`, dot stuffing | `CommandText`, `DataText`; in `Engine`, which lines are refused |
| envelope builder | `envelope_builder.go`, `envelope.go` | sender, recipients, buffer, writer, `finalized` | `SetMailFrom`, `AddRecipient`, `DataWriter`, `Write`, `Close`, `Finalize`, `Reset`, `Build` | `EnvelopeBuilder`, and in `Engine` |
| in-memory storage | `mem/storage.go` | message map, metrics | `Store`, `StoreStream`, `Delete`, `Clear` | `MemStorage` |
| in-memory mailbox | `mem/mailbox.go` | addresses, domains, catch-all | `AddAddress`, `RemoveAddress`, `AddDomain`, `RemoveDomain`, `SetCatchAll`, `ValidateRecipient` | `MemMailbox`, `MailSystem` |
| TLS configuration | `tls.go`, `tls_provider.go` | `p.config`, certificates by name, default | `GetConfig`, `Reload`, `AddCertificate`, `SetDefaultCertificate`, `GetCertificate` | `TLSProvider`; the policies in `Engine` |
| test harness | `harness/harness.go` | `PipeBuffer`: buffer, condition variable, deadline | `Read`, `Write`, `SetReadDeadline`, `ReadLine`, `Close`; `SendData`, `readResponse` | `PipeBuffer`, `DataText`, `ReplyText` |
| interfaces and hooks | `storage.go`, `mailbox.go`, `session.go` | of the embedding program | callbacks | nondeterministic answers |
| logging | `logger.go` | none | formatting | not modelled |

**How the parts interact.** `Engine.Run` is one goroutine. It reads a line from
the connection's buffered reader, parses it, asks the `OnCommand` hook, asks the
state machine whether the command is allowed, runs the handler, and writes the
response. The handlers call the state machine and *drop every error it returns*,
keep a second copy of the state in `e.state.State`, build the envelope through
the builder, and call out to `SenderPolicy`, `Mailbox` and `Storage`. Three other
actors act at any moment: the client (sends, falls silent, hangs up, breaks the
connection, stops reading), whoever cancels the context, and whoever calls
`Close`, which writes `e.closed` under a mutex but aborts the state machine and
closes the connection without one. STARTTLS reaches below the buffered reader to
the socket, takes its configuration from a provider that may be reloaded
meanwhile, and then has to forget what the reader holds. Sessions share only the
mailbox and the storage, each of which locks itself for one call at a time.

**What is hard.** The data race between `Close` and a handler's transition; the
recovery of both state copies when DATA fails after the 354 reply; body lines
that arrive after the engine gave up the body; the classification of errors
into those that end the session and those that do not; reads with a deadline and
writes without one; limits that are checked long before the thing they bound;
metadata copied at MAIL and used at the end of DATA; message data that the
builder, the envelope and the storage share without copying it; what the
buffered reader holds when the connection changes under it; deadlines that stay on
a socket until someone removes them; certificate files renewed one after the other
while they are read; a registry that changes between RCPT and the end of DATA.
`PROJECT.json` lists these hazards with their lines and the properties about them.

**What makes each part correct.**

* State machine: the two command tables agree; an accepted command's transition
  is never refused.
* Engine: the envelope is present, with sender and recipients, wherever it is
  dereferenced; nothing of an abandoned body is executed; limits and the TLS
  policy hold of whatever reaches storage; the copies of the state agree; the end
  is reported; cancellation, hang-up, QUIT, silence and `Close` end the session.
* Envelope builder and storage: what was finalized or stored holds the data of one
  transaction and never changes, unless its own builder is reset for another.
* The session as a whole: its answers tell the truth. A yes took effect, a no
  changed nothing, and what is delivered is what was acknowledged.
* Connections: no line received before the handshake is executed after it; no
  deadline outlives the read, the message or the handshake it was set for; every
  upgrade ends.
* TLS configuration: a certificate is served with its own key, by the name asked
  for, and not an outdated one; a renewal that was announced is installed.
* Mailbox: in a local domain, what was registered, and nothing else without
  catch-all, accepts mail in every spelling; a message goes only
  to mailboxes that were acceptable during its own transaction.
* Parser: exactly the intended paths and host names are accepted, and the functions
  that look at one text from two sides agree.
* Harness: no byte lost or reordered; EOF only at the end; a reader with a deadline
  returns, and one with data or a closed pipe too.

## The modules

* `StateMachine` – the transition table, the methods of `StateMachine` as
  operators from state to next state (a refused transition returns the state
  unchanged, which is all a caller that drops the error sees), and the command
  tables of `command.go` and `statemachine.go`.
* `Engine` – one session (below). `MCEngine` is its instance for TLC.
* `SmtpService` – the abstract session: requests heard and answered, a transaction,
  a delivered message. `EngineService` instantiates it with the variables of
  `Engine` (below).
* `TLSProvider` – the certificate providers: the two files, `p.config`, a `Reload` in
  its three steps, the signal channel of `docs/tls.md`, the certificates by name.
* `ConnTLS` – extends `TLSProvider` with one session's connection through STARTTLS:
  `wire` and `reader` are what the socket and the `bufio.Reader` hold, `pc` is where
  the session is in `readLine`, `streamData` or `performTLSUpgrade`, each of which sets
  deadlines of its own, `failed` the error `crypto/tls` keeps. `MCConnTLS` is its instance.
* `Text` – the functions of Go's `strings` that the rest uses, on sequences of
  characters. `CommandText` – `parser.go` on the text of command lines, beside the
  grammars it is compared with. `DataText` – message data from the harness's
  `SendData` through `streamData`, beside the lines it should amount to
  (`PlainLines`, `Joined`, `Canonical`). `ReplyText` – replies from `Response.String` to the
  harness's `readResponse`. `WireText` puts the three together: its actions type a
  text, character by character, transmit it and read it. `MCWireText` is its instance.
* `MemMailbox` – the registry of `mem.Mailbox` and `mem.DomainPolicy`. `MailSystem` –
  several sessions over one registry and one store; `handleRCPT` is two actions, since
  the mailbox is locked for the question only. `MCMailSystem` is its instance.
* `EnvelopeBuilder` – the builder, its writer and the envelopes it issued. The
  arrays behind `bytes.Buffer` are kept in `heap`, apart from the slices that
  refer to them: `Finalize` hands out a slice, `Reset` empties the buffer and
  keeps its array, a write that has no room moves to a new array. `recycled` is
  history: the identifiers of envelopes whose builder was reset after `Finalize`,
  which `Reset` does not refuse.
* `MemStorage` – extends `EnvelopeBuilder` with `mem.Storage`, so the builder
  and the store share the heap as in the program. `MCMemStorage` is its instance.
* `PipeBuffer` – the harness's pipe: one reader, in `Read` or in `ReadLine`, and
  the goroutines that write, close, and broadcast when a deadline passes. `pc` and
  `locked` are the reader's place and whether it holds the mutex; `timers` counts
  the sleeping goroutines; `sent` and `got` are history. `MCPipeBuffer` is its
  instance.
* `EngineProofs`, `EngineServiceProofs`, `ConnTLSProofs`, `MailSystemProofs`,
  `MemStorageProofs`, `PipeBufferProofs`, `WireTextProofs`, `CommandTextProofs` – the
  theorems about these modules (see Proofs).

### Engine: state and actions

`run` is the program counter of `Run`; it has a value for every point where the
goroutine can block or another goroutine can be noticed, and what lies between
two such points is one action.

| `run` | where the code is | actions from there |
|---|---|---|
| `start`, `greet` | `Run` 121–142 | `Start`, `SendGreeting` |
| `loop` | top of the loop, 147–167 | `Loop` |
| `read` | `readLine` in `processOneCommand` | `ReadCommand`, `ReadCommandFails` |
| `exec` | `handleCommand` | `HandleGreeting` (HELO, EHLO), `HandleMAIL`, `HandleRCPT`, `HandleDATA`, `HandleRSET`, `HandleQUIT`, `HandleVRFY`, `HandleHELP`, `HandleOther`, `HandleSTARTTLS` |
| `reply` | `writeResponse`, then the end of `processOneCommand` and Run's error handling | `Reply` |
| `tls` | `performTLSUpgrade` | `PerformTLSUpgrade` |
| `data354` | the 354 reply and `DataWriter` | `SendStartMailInput` |
| `stream`, `streamread` | `streamData`: context check, line | `StreamCheck`, `StreamLine`, `StreamReadFails` |
| `store` | `Close`, `Finalize`, `Store` | `FinishMessage` |
| `done` | `Run` has returned | – |

`sm`, `st`, `host`, `tls`, `envelope`, `errs`, `txns` are the fields of the same
meaning; `cmd`, `resp`, `ret` are locals of `processOneCommand`; `closed` and
`reason` belong to `handleDisconnect`; `closer` is the goroutine in `Close`;
`ctxDone`, `conn`, `ahead` are the context, the connection and the lines still
buffered when it is gone. `inBody` (the client has not finished a body it was
asked for) and `stored` (the last envelope given to `Storage`) are history.

The write of `sm.state` in `Transition` and the one in `Close` are unsynchronised.
`SmMove` models that race: while `Close` stands before its `Abort` and the abort
would be allowed, a handler's transition may be overwritten by `Aborted` or may
overwrite it.

### Engine as a service

`EngineService!ImplementsService` maps a session to `SmtpService`: `request` is the
verb of `cmd`, `answer` the sign of the response while `run = "reply"`, `txn` the
envelope without what the client does not see of it (an envelope whose sender
failed is none), `delivered` the last message given to `Storage`, `leaving` a
terminal state of the machine, `over` that `Run` returned. The detailed steps between
hearing and answering (policies, hooks, the lines of a body) map to `Receive`, `Leave`
or stutter; the race on `sm.state` shows as `leaving` turning true in any step.
What the mapping rules out: a 250 whose effect was not recorded, a refusal that changed
the transaction (other than a failed DATA giving it up), a message that differs
from the acknowledged transaction, a
command heard before the last was answered or after the end. A policy of the
embedding program that refuses with a positive code makes the session say yes to
what did not happen, so the theorem assumes that the codes of refusals are not
positive (`PoliciesRefuse`).

### What the engine model leaves out

I/O errors are kept as the class `Run` sorts them into: `timeout`, `io`, `other`.
A plain socket reports a reset once and then EOF; `crypto/tls` remembers it and
returns it for ever; a `NetConn` closed here returns `net.ErrClosed` (`other`) and
a `PipeConn` `io.ErrClosedPipe` (`io`).

Command lines are a verb, a form of argument (absent, malformed, well formed)
and a flag for exceeding the maximal length; body lines are lengths, with the dot
of a stuffed line removed; callbacks answer anything: a `SenderPolicy` or `Mailbox`
that does not accept chooses the code (`PolicyCodes`), which the engine passes on
unread, be it zero or positive. Response texts, statistics other than the
transaction count, and log attributes are left out.

## Runs

| Run | What it checks | What it shows |
|---|---|---|
| `engine_tls_required` | `TypeOK`, `EnvelopeReady`, `BodyNeverExecuted`, `EnvelopeMatchesSession`, `StoredUnderTLS`, `StoredWithinLimits`, `StateAgreement`, `EndReported`, `ImplementsService` | safety and the refinement of `SmtpService` with TLS required, all limits low, hook errors and every kind of event |
| `engine_pipe` | `CloseEnds` | a `PipeConn` session without a TLS provider, limits or timeouts: `Close` ends `Run` even when the race loses its abort |
| `engine_ends` | `CancelEnds`, `HangupEnds`, `QuitEnds`, `IdleEnds`, `PlainBreakEnds` | sessions on a `NetConn` end when they are cancelled, left, quit, silent or reset in the clear, unless the client stops reading and leaves `Run` in a reply |
| `mem_storage` | `TypeOK`, `FinalizedUnchanged`, `StoredIntact`, `MetricsCover` | shared message data stays intact, but for the envelope of a builder that was reset after `Finalize` |
| `pipe_buffer` | `TypeOK`, `NothingLost`, `EOFIsFinal`, `CallsReturn`, `DeadlineEnds` | the pipe loses and reorders nothing, and its calls return when a byte, the end or the deadline comes; the one wake-up that can be missed is the timer's before `cond.Wait` |
| `conn_tls` | `TypeOK`, `ClearNeverExecuted`, `DeadlinesScoped`, `ServedCurrent`, `UpgradeEnds`, `RenewalInstalled` | lines pipelined behind STARTTLS are never executed under TLS; deadlines end with the read, message or handshake they bound; reloads, renewals and upgrades meet in every order |
| `wire_text` | `BlanksMakeNoDifference`, `ArgumentsExact`, `PathAndParamsMeet`, `DataRoundTrip`, `DataLimitsExact`, `RepliesFramed` | every text of up to six characters: the parser accepts what its grammar says, addresses with several `@` apart, message data survives stuffing and streaming, replies are read back whole |
| `mail_system` | `TypeOK`, `DeliveredWasAcceptable`, `AcknowledgedDelivered`, `RegistrationHolds` | two sessions deliver into one store while the registry changes under them |
| `finding_wedge` | `CommandLoopReady` | after a failed DATA the machine stays in `Data`: every later command, QUIT too, gets 503 |
| `finding_error_limit` | `ErrorsBelowLimit` | 503 answers raise the error count without comparing it with `MaxErrors` |
| `finding_tls_break` | `BrokenEnds` | when a connection breaks under TLS, `Run` loops on the error `crypto/tls` repeats |
| `finding_close_race` | `CloseEnds` | on a `NetConn`, `Close` can lose its abort, and `Run` loops on `net.ErrClosed` |

The `finding_*` runs each check one statement of a comment or document that the
code does not keep and are expected to be violated; `PROJECT.json` quotes the
statements.

**Bounds.** The limits of the session are 1 or 2, and the client may go one step
beyond each of them (`ErrBound`, `TxnBound`, `RcptBound`, `SizeBound`), so each
limit is met, exceeded and refused. Two transactions are enough for anything one
leaves behind to show in the next. `LineLengths` has lengths below, at and above
`MaxLineLength`; `DeclaredSizes` has none, one above `MaxMessageSize` and one
above `Int64Max`, which `fmt.Sscanf` leaves at zero. `AheadBound` lines stay
buffered when the client is gone. Two hostnames and the null sender tell stale
metadata from fresh. The refusals of the policies have code 0, 4xx and 5xx in the run
that checks the refinement, and a positive one in `engine_ends`. In `MemStorage` two
identifiers, three pieces and an initial array of one make a buffer grow twice, be
emptied and be written over, by the next builder or by the one that was reset; with
three calls of the store a message is stored, stored again and streamed in between.
Pieces of data are interchangeable, hence the symmetry. In
`PipeBuffer` three calls, two bytes and two instants let a call that timed out, was
cancelled or read only part be followed by one that finds the rest, with old timers
still asleep.

In `ConnTLS` the four lines are STARTTLS, one injected behind it, a hello and a line
under TLS, in any order and with any share of them in one read; two versions of the
files make a renewal that a `Reload` can fall into, and two names one that is
registered and one that is not. In `WireText` small numbers stand for 512, 255, 63 and
998, so that each limit is met and passed by texts of that length; `MCStarts` begins
some texts with a route or a complete path, which would otherwise need more
characters. Verbs, prefixes and the key SIZE are single characters, in upper and lower
case, because no code looks into them. In `MailSystem` two transactions of two sessions meet or follow one another; three
changes of the registry are enough to add a mailbox, accept it and remove it, with
a second mailbox or catch-all besides; sessions and users are interchangeable.

**Deadlock** is not checked: `Run` returns, a client may stay silent when no
timeout is configured, texts end, and the bounds stop clients and callers.

**Fairness.** The Go scheduler runs every runnable goroutine, callbacks return,
and an enforced deadline passes: weak fairness of the steps of `Run` that need no
input and of the steps of `Close`. No client has to send anything, so reading a
line is fair only once the client is gone and the line lies in the buffer. A
stalled connection disables writes altogether; nothing assumes it recovers. No write
has a deadline, and a read has none where none is configured: `Blocked` names the
places where `Run` then stays, and `CancelEnds`, `QuitEnds` and `IdleEnds` make it
the exception, in the formula.
In `PipeBuffer` the steps of a call, the clock and the timers are fair, writers and
closers are not. In `ConnTLS` the steps of the session, whose reads have a deadline
or data, and those of a `Reload` once a signal waits are fair; the client, the
operator and the signals are not.

**Mutants.** For each property of a passing run, a definition `...` marked
`Mutant:` next to the original changes the model the way a slip in the code would,
and TLC finds the property violated.

## Proofs

Every invariant of the runs and the refinement are theorems of TLAPS: they hold for
every value of the constants – any limits, policies and sets of addresses, any number
of sessions, lines, bytes, messages and renewals, texts of any length.

| Module | Theorem | Property |
|---|---|---|
| `EngineProofs` | `TypeCorrect` | `TypeOK` |
| | `EnvelopeAlwaysReady` | `EnvelopeReady` |
| | `BodySafety` | `BodyNeverExecuted` |
| | `MetadataFresh` | `EnvelopeMatchesSession` |
| | `TLSEnforced` | `StoredUnderTLS` |
| | `LimitsEnforced` | `StoredWithinLimits` |
| | `CopyAgrees` | `StateAgreement` |
| | `EndsReported` | `EndReported` |
| `EngineServiceProofs` | `EngineImplementsService` | `ImplementsService` |
| `ConnTLSProofs` | `ConnTypeCorrect` | `TypeOK` |
| | `NothingInjected` | `ClearNeverExecuted` |
| | `DeadlinesEnd` | `DeadlinesScoped` |
| | `CertificatesCurrent` | `ServedCurrent` |
| `MailSystemProofs` | `SystemTypeCorrect` | `TypeOK` |
| | `DeliveryWasAcceptable` | `DeliveredWasAcceptable` |
| | `AcknowledgedStays` | `AcknowledgedDelivered` |
| | `RegistrationKept` | `RegistrationHolds` |
| `MemStorageProofs` | `StorageTypeCorrect` | `TypeOK` |
| | `EnvelopesImmutable` | `FinalizedUnchanged` |
| | `StoredMessagesIntact` | `StoredIntact` |
| | `MetricsNeverBehind` | `MetricsCover` |
| `PipeBufferProofs` | `PipeTypeCorrect` | `TypeOK` |
| | `PipeLosesNothing` | `NothingLost` |
| | `PipeEndsOnce` | `EOFIsFinal` |
| `WireTextProofs` | `DataArrives` | `DataRoundTrip` |
| | `LimitsExact` | `DataLimitsExact` |
| | `RepliesWhole` | `RepliesFramed` |
| `CommandTextProofs` | `BlanksHarmless` | `BlanksMakeNoDifference` |
| | `GrammarsAccepted` | `ArgumentsExact` |
| | `PathAndParamsAgree` | `PathAndParamsMeet` |

`TablesAgree` (the two command tables are the same relation) and
`AcceptedCommandMoves` (an allowed command's transition is never refused) are
facts of the state machine by themselves.

**Assumptions.** Each module names those on its constants, and TLC evaluates them in
the runs. `ConfigAssumption` (limits are naturals, flags are Booleans, a `NetConn`
enforces deadlines), `ClientAssumption` (line lengths are positive), `SentinelAssumption`
and `TransactionAssumption` (a sentinel is none of the values it stands beside); the
bounds are naturals (`ConnAssumption`, `ProviderAssumption`, `SystemAssumption`,
`BuilderAssumption`, `StorageAssumption`, `PipeAssumption`, `TextAssumption`,
`DataAssumption`); codes have three digits and no line of a reply has a line feed in it
(`ReplyAssumption`: the code does not split such a text, and would not be read back
whole); texts are made of `Chars`,
which has the characters the code itself writes (`WireAssumption`).

One theorem has a hypothesis besides: `EngineImplementsService` assumes `PoliciesRefuse`.
The theorems of `MemStorageProofs` hold however a caller uses builders; the exception
for builders reset after `Finalize` is part of the properties.

### The arguments

No property is inductive alone. Each proof module proves `Init => Inv` and that every
action preserves `Inv`, with one lemma or step per action, and reads the properties off
`Inv`, which TLC had confirmed on the runs' instances.

* **Engine.** Even `TypeOK` is not inductive: the update of `envelope.size` needs an
  envelope, so typing depends on `EnvelopeReady`, which depends on where `Run` is relative
  to the protocol state. `RunInv` has, for each point of `Run`, the states the machine
  can be in: a command in execution was allowed or the session has been aborted since;
  reception runs in `Data` or `Aborted`; `StartTLS` occurs only between its reply and the
  upgrade. `BodyInv`: an unfinished body keeps the machine in `Data` or `Aborted`, where
  no command is allowed. (So the failure that wedges the session is also what keeps
  the rest of the body from being executed: a repair of the first must drain the body.)
  `EnvelopeInv`: `MailFrom` implies an envelope with a sender, `RcptTo` and reception one
  with a recipient. `SessionInv`, `LimitInv`: the hostname is set from `Identified` on, the
  metadata is fresh, the envelope in progress respects every limit, with room for one more
  transaction. `EndInv`: the closed flag is down while `Run` goes on and nobody called
  `Close`. The tables are settled first (`WhereAllowed`, `Moves`, `AbortedStays`,
  `SmMoves`); `RefuseStep`, `FailDataStep` and `ReceiveOnStep` are shared by the handlers.
* **The refinement.** Under the mapping of `EngineService`, the initial states are initial
  states of the service, and each action of `Engine` is a step of `SmtpService` or a
  stutter; a step in which `Close` or the race terminates the machine is a `Leave` or the
  part of a step that lets `leaving` rise. Beyond `Inv` this needs `ServiceInv`: the verb a
  session holds fits the place where `Run` is (`RequestInv`), and no transaction is open
  where MAIL may begin one (`NoneOpen`), since the mapping takes an envelope whose sender
  was refused for none.
* **ConnTLS.** A line in the buffered reader is sealed exactly if the session speaks TLS,
  and a sealed line waits in the socket only if it does (`SealInv`): that is what
  `ResetReader` restores. Certificates only grow newer from the file through `reload` to
  `p.config` (`VersionInv`), and what an upgrade holds is no older than what there was
  when it was asked for (`UpgradeInv`).
* **MailSystem.** Identifiers of open transactions are distinct and not yet used
  (`IdInv`), so no session overwrites another's message; the recipients of an envelope are
  those answered 250, each acceptable at a moment of its transaction, and the answer that
  `handleRCPT` carries across the unlock was true at one (`EnvelopeInv`); the registry
  holds lower-case spellings only (`RegistryInv`).
* **MemStorage.** Ownership of arrays: a slice that an envelope, the store or a stream
  holds lies within its array, since arrays keep their lengths, and the array is one
  the builder no longer writes, or the builder is that envelope's own, finalized, or
  the envelope is `recycled` (`BuilderInv`, `StorageInv`, with `WithinArray` and
  `Unshared`). A `Reset` of a finalized builder moves the envelope from the second case
  to the third. The metrics need none of that: the bytes held are
  the set `Held` of pairs of a message and a position, so their sum is a cardinality and
  a store adds at most the length of one message to it (`CountInv`, with the lengths that
  `LengthInv` types for every caller).
* **PipeBuffer.** `PipeInv` adds to the properties only that a call in progress has no
  result yet (`ResultInv`), so that no answer of EOF stands while later bytes are taken.
  `TypeOK` includes that the mutex is held exactly inside the locked section.
* **WireText.** `DataInv` says that a number of lines has been read, that the store is
  those lines joined, and that the rest is still to come (`HasRead`); `ReplyInv` cuts the
  output into the replies not yet read (`Framing`). What `Joined` and `Split` compute for
  every length needs induction; the prover has no rule for it, so the lemmas take
  the least counterexample (`LeastNumber`, from the well-foundedness of the naturals)
  and refute it. `StuffedLine` is the heart: a stuffed line is never the terminator and
  unstuffing returns it.
* **CommandText.** Facts about a single text. `Similar` texts differ in the blanks at their
  ends, and `ParseCommand` strips every line to a similar one. A path ends at the first
  `>` of the trimmed text, which `PathEndsOnce` finds again in the untrimmed argument. The
  pieces of `Split` are the stretches between neighbouring dots (`SplitIsPiece`,
  `PieceIsSplit`), which turns the conditions on labels into conditions on neighbouring
  characters.

**Only model-checked.** The liveness properties, because the prover handles neither
fairness nor `ENABLED`: `CloseEnds`, `CancelEnds`, `HangupEnds`, `QuitEnds`, `IdleEnds`,
`PlainBreakEnds`, `CallsReturn`, `DeadlineEnds`, `UpgradeEnds`, `RenewalInstalled`.

## Disagreements noted without a run

* `session.go:229` calls `DisconnectNormal` a QUIT; an aborted session is
  reported with it too.
* `tls.go:25-27` describes `TLSImmediate` as TLS from the start; the engine treats
  it like `TLSOptional`.
* `state.go:56-57` lists timeouts and I/O errors as causes of `Aborted`; `Run`
  disconnects without moving the machine.
* `session.go:199` has `OnDisconnect` called when a session ends; a session ended by
  `Close` is not reported. `EndReported` states what holds: unless `Close` was called.
* `docs/security.md:17` promises cancellation "for all operations"; a reply to a client
  that stopped reading blocks past it, as does a read where no timeout is configured.
  `CancelEnds` states the exception (`Blocked`); without it TLC finds it violated.
* `parser.go:273` says an address has exactly one `@`; `isValidAddress` looks for the
  last, so `a@b@c` is accepted, with the local part `a@b`. `ArgumentsExact` speaks of
  addresses with one `@`; without that TLC finds it violated.
* `command.go:80` says `Raw` includes the CRLF; it is stored without.
* `mailbox.go:152` calls local domains those mail is accepted for; `RemoveDomain` leaves
  the addresses of the domain, which stay accepted, and `IsLocalDomain` then denies
  it. `RegistrationHolds` leaves open what holds of them. `MailboxEntry.Enabled` is
  set and never cleared, so "Mailbox disabled" cannot be answered.
* `Reload` reads the files outside its lock: two concurrent calls could leave the older
  certificate installed. `docs/tls.md` calls it from one goroutine, as `TLSProvider` does.
* A line of a single dot ended by a bare line feed ends the data too (`parser.go:394`).
* HELP (`engine.go:666-667`) and EHLO advertise STARTTLS under different conditions.
* `docs/security.md:15` suggests `DataTimeout` bounds the message; it is applied to
  each line.
* A SIZE parameter that overflows an `int64` reads as 0 and is not refused at MAIL;
  the streamed size is still bounded (`StoredWithinLimits`).
* `envelope.go:117` and `120` promise an envelope that does not change once finalized;
  `Reset` (`envelope_builder.go:158`) keeps the array `Finalize` handed out, and the next
  message overwrites it. The engine takes a new builder for each transaction, so it
  is not exposed. `FinalizedUnchanged` and `StoredIntact` except such envelopes
  (`recycled`); without the exception TLC finds both violated.
* `PipeBuffer.Read` starts its timer before `cond.Wait` joins the waiters, and the
  timer broadcasts without the mutex: a broadcast in between is lost and the
  reader waits on. `DeadlineEnds` allows for exactly this case (`missed`); without the
  allowance TLC finds it violated.
* `PipeBuffer.Read` copies the deadline once, so `SetReadDeadline` wakes a waiting
  reader "to re-check deadline" (`harness.go:422`) that then looks at the old one.
* `PipeBuffer.ReadLine` looks at its context only between bytes: while it waits for
  one, a cancelled context or an expired `ExpectWithTimeout` does not end it.

## Not modelled

Logging, byte statistics, the wording of responses, cipher and version tables of
`tls.go`, the rate limiter and the other policy interfaces without a caller, the
harness's options, transcript and scripted conversations, the examples, and
`TimeoutReader` (`conn.go`), which nothing in the repository uses. The
handshake of `crypto/tls` is a hello that is answered or a failure. AUTH and EXPN have no handler and are answered 502.

## Plan

Modelled and checked: everything listed above. Proved: every invariant and the
refinement. Left, in this order: the action properties the invariants imply (a stored
message changes only by `Delete` and `Clear`; a session that left takes no command); a
composition of `ConnTLS` with `Engine`, so that the upgrade's two models are shown to agree.
