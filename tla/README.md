# A formal model of IotServer

TLA+ modules, TLC configurations and TLAPS proofs for the IoT platform of this
repository: a Go server, a PHP server, the device simulator and the firmware of
the devices. The source under `src/` is the reference. Where a document and the
code differ, the model follows the code and the difference is a finding (below).
`PROJECT.json` maps every definition to the lines it stands for and lists the
runs, the mutants of each property, the hazards and the theorems.

## 1. The system

Devices measure, post one telemetry over HTTP, read commands and the next sleep
interval from the answer, acknowledge the commands and sleep. An operator queues
commands through the dashboard. The system exists twice: the Go server with the
simulator (and the middleware under `src/edge`), and a PHP server for shared
hosting with an ESP32 firmware.

| component | state | operations | interacts with | what is hard |
|---|---|---|---|---|
| **Go server, commands** (`server/api/handlers/telemetry_handler.go`, `server/storage`) | table `commands` (or slices in memory), map `deviceSleepConfigs`, pool of one connection | the second half of `HandleTelemetry`, `HandleQueueCommand`, `HandleAckCommand`, `GetPendingCommands`, `QueueCommand`, `AckCommand` | devices (HTTP), operator, SQLite | one goroutine per request, no transaction around SELECT and UPDATEs, errors discarded, the map is lost in a restart |
| **Go server, TLS to decoder** (`config.go`, `mtls_auth.go`, `proto_decoder.go`, first half of `HandleTelemetry`) | one connection, one request | handshake, middleware, body, decoding, id check | devices (HTTPS), ingest | three places decide whose row a payload writes; a decoder written by hand |
| **Telemetry serializers** (`edge/middleware/serializer`) | none | `serialize_telemetry_protobuf`, `serialize_telemetry_json` | the decoder above | varint and buffer boundaries, sign extension, absent fields |
| **Go server, ingest** (`sql_repository.go`, `rule_engine.go`, event and query handlers) | tables `telemetries`, `devices`, `events`; webhook goroutines | `SaveTelemetry`, `EvaluateAndAlert`, `SaveEvent`, `ListDevices`, history | the same pool, webhooks | a transaction beside single statements on one connection, failure between telemetry and alert, asynchronous notification |
| **Simulator** (`tools/simulator/main.go`) | one goroutine per device, firmware version, sleep interval | `Run`, `ExecuteCommand`, acknowledgement, `PerformOTA` | Go server | timeout of 5 s, three attempts, acknowledgement sent once, a download that fails at any of five places |
| **PHP server** (`iot_gmo_package/api.php`) | one SQLite file | POST telemetry, commands, ack, clear; two reading endpoints | ESP32, dashboard | one process per request, no transaction, read-modify-write of the total |
| **ESP32 firmware** (`edge/platform/esp32/main.cpp`) | RTC memory (boot count, interval), PSRAM buffer | one pass of `setup()` per wake-up | PHP server | deep sleep forgets all but the RTC memory, answers and acknowledgements get lost |
| **Telemetry ring buffer** (`edge/middleware/telemetry`) | slots, string storage, head, tail, count | init/clear, push, peek, pop, count, is_empty | edge application | overwriting, pointers into slots that are used again |
| **OSAL queue** (`edge/osal/mock`) | slots, indices, mutex, two condition variables | create, send, send_from_isr, receive, delete | tasks | lost wake-ups, spurious wake-ups, timeouts, wrap-around |
| Edge application (`edge/app`) | state, event queue, offline buffer | dispatch, main event loop | the two above, HAL | blocking dispatch, flush interrupted half-way |
| OTA client, OTA HAL | flash session | perform_update, begin, write, end, abort | server's download | a step of several failing |
| OSAL timers, tasks, mutexes | threads | create, start, stop, delete | applications | a timer thread racing with stop and delete |
| HALs (mock, ESP32, STM32), FreeRTOS OSAL, dashboards, tools, tests | none or the platform's | – | – | – |

### What makes them correct

* A command is handed to its device, is executed at most once under SQLite, is
  confirmed only after it was executed, and stays confirmed. An answer has the
  commands of its own device, each once, in the order they were queued, and its
  interval agrees with them.
* The newest interval reaches the device even if the answer with its command is
  lost.
* No request waits for the single connection for ever.
* What is stored is the sender's own and what it measured, whichever encoder and
  whichever version of the schema wrote it.
* Totals, device rows, alerts and notifications agree with the stored telemetry
  whatever statement fails. A list shows a device as it was at one moment, and
  misses a stored one only after an error.
* An offered firmware is installed in the end, and once.
* The ring buffer is an overwriting FIFO, the OSAL queue a bounded FIFO channel
  that never leaves a thread asleep beside work.

## 2. The modules

| module | models | with |
|---|---|---|
| `CommandLedger` | abstract: what remote control promises an operator | – |
| `GoCommands` | commands and intervals of the Go server, both stores | – |
| `GoSystem` | `GoCommands` with simulated devices and a network | refines `CommandLedger` |
| `TelemetryWire` | the binary form of a telemetry: serializer and decoder as functions on bytes | – |
| `TelemetryJson` | the text form of a telemetry: what is printed, and what is read of it | extends `TelemetryWire` |
| `Uplink` | TLS connection, middleware, decoding and id check of the Go server | uses `TelemetryWire`, `TelemetryJson` |
| `GoIngest` | telemetry, alerts, events and reads of the Go server, both stores | – |
| `CloudApi` | the PHP server, statement by statement | – |
| `CloudSystem` | `CloudApi` with ESP32 devices and a network | refines `CommandLedger` |
| `OverwriteFifo` | abstract: bounded FIFO that gives up its oldest record | – |
| `TelemetryBuffer` | the ring buffer of the edge middleware | refines `OverwriteFifo` |
| `MessageChannel` | abstract: bounded FIFO between threads | – |
| `OsalQueue` | the POSIX and Windows message queue | refines `MessageChannel` |
| `GoCommandsProofs`, `GoSystemProofs`, `GoIngestProofs`, `TelemetryWireProofs`, `UplinkProofs`, `CloudSystemProofs`, `TelemetryBufferProofs`, `OsalQueueProofs` | the theorems | extend their module; `GoSystemProofs` also `GoCommandsProofs`, `UplinkProofs` also `TelemetryWireProofs` |
| `MC*` | values of the constants for TLC | extend their module |

Definitions marked "Mutant:" are plausible slips of the code beside the action
they replace. No specification uses them; substituting one for its action must
make the property named in `PROJECT.json` fail.

### How the state corresponds to the code

**GoCommands.** `status`, `order` and `rows` are the table `commands`: the status
column, the rows by `created_at` and the rows as they were inserted. The two orders
differ, because `QueueCommand` takes `created_at` (`sql_repository.go:339`) before its
INSERT (`:341`) waits for the connection; the SELECT (`:353`) goes by the first. For
the in-memory store the PENDING entries are
what is left in the slices, and ACKED means "removed from the list". `repo` is
`cfg.DBDriver`. `sleepConfigs` is `deviceSleepConfigs`, `conns` the connections
the pool has given away for longer than one statement (open `rows`), `job[h]`
the local variables of a `HandleTelemetry` goroutine with `pc` as the place it
has come to. One action is one statement or one critical section, because
nothing is locked between them: `ReadConfig`, `Select`, `CloseRows`, one `Mark`
per row, one `Apply` per turn of the loop, `EndApply` for the low-battery rule,
`Respond`. Each has its failing twin where the code goes on after an error
(`SelectFails`, `RowsFail`, `MarkFails`, `QueueFails`). `HandleQueueCommand` is
three actions: it writes the map (`QueueConfig`), takes `created_at` (`QueueStamp`)
and inserts the row (`QueueInsert`), each of which may come before or after those of
another POST; in memory the last two are one (`QueueAppend`). `Restart` keeps
the table of SQLite and forgets everything else. The clients are arbitrary.
`sleep_interval_sec` is kept in tenths so that the cut by `uint32()` is visible:
0.5 s passes `> 0` and becomes 0, which the map reads as "no setting".

**GoSystem.** `sim[d]` is one `SimulatedDevice`: ready to post, waiting for the
answer of handler `at`, downloading a firmware, or executing `inbox`. `fw` is its
`FirmwareVersion`, which it sends with every telemetry and which both sides
compare with the offered one; `InstallOta` and `OtaFails` are the two ends of
`PerformOTA`. `acks` are acknowledgements under way; each is sent once. Requests,
answers and acknowledgements can be lost. `Timeout` is `http.Client.Timeout`. With
`OverlappingRetries = FALSE` the client gives up only when no handler serves it
any more, with `TRUE` at any time. `executed`, `updates` and `told` are history
for the properties.

**TelemetryWire, Uplink.** Bytes are numbers, a 64-bit integer is its ten groups
of seven bits (TLC's integers have 32), a float its four bytes. `Encode` is
`serialize_telemetry_protobuf` with its three nested sections; `Decode` is
`DecodeTelemetryProtobuf` with its switch statements as the table `Schema`, the
conversions `uint32()` and `int32()`, `skipField`, and what each failing read
leads to. `TelemetryData` is `telemetry_data_t`: any values its types hold, null
pointers included. `Rest` is the loop of `DecodeTelemetryProtobuf` and of each
`parse` function, from any position on. The code limits no string; `MaxString`
(1000 bytes) keeps every message below `MaxSize` (16384), up to where lengths are
told apart. The arrays of the serializer end earlier: `EncodedFits` says how long
the strings may be for that, and beyond it `Encode` still is what the code writes,
wherever it writes it.

`TelemetryJson` is `serialize_telemetry_json` and the buffer of
`transmit_telemetry_item`. `Hundredths` rounds a float as `%.2f` does, to the nearest
hundredth of its exact value and to the even one of two; from 2^23 on a float is whole
and printed in full. `Json` is what is read back: `Printed` measurements, or `Invalid`
when one of them is `inf` or `nan` or a string has a quote, a backslash or a control
character, which `%s` does not escape (`IsSayable`). A text that does not fit into 512
bytes is not sent (`FitsBuffer`). `Uplink` sends through one connection what different writers make of a
telemetry: the edge serializer, a library that leaves default values out, one
that orders the fields otherwise, a later schema with more fields, a JSON client,
and a body that was cut anywhere. `requireMTLS` is `REQUIRE_MTLS`; `row` is what
the request has handed to `SaveTelemetry`.

**GoIngest.** The transaction of `SaveTelemetry` is four actions that keep
`conn`; its rows become visible at `Commit`, so `rows` is in the order of the
commits. `devices` has the columns total_telemetries, last_seq_no and
current_interval_sec; `Upsert` is the UPSERT with the 60 s that replace a missing
interval. `Alert` is one turn of the loop in `EvaluateAndAlert` and starts a
webhook goroutine (`hooks`), which ends in `SendAlert` or `SendAlertFails`.
Readings keep the connection from `Query...` to `EndListing` or `EndScan`. A list of
devices is kept as the entry of one device, `job[h].dev`, which somebody looks for:
`found` tells whether it is in the list, `asked` and `before` are its total and the
number of errors when the request came. A failed query is answered with 200 and an
empty list (`QueryDevicesFails`), and so is what was read before the iteration
failed (`RowsFail`) and what is left without the rows that did not scan
(`ScanFails`). In memory `ListDevices` collects pointers, and `EndListing` reads what is behind them
without the mutex: every column as it was at some moment since.

**CloudApi, CloudSystem.** One action per SQL statement; `req[w]` are the local
variables of a PHP process. `Throw` and `Killed` end a request at any statement
and leave what it wrote. `esp[d]` is the device: `interval` and `boots` are its
RTC memory, `buffered` tells whether the PSRAM buffer has the telemetry of this
boot, which is all it can ever have, because every wake-up allocates it anew.
The ESP32 obeys only the interval and acknowledges only the first command of an
answer; it executes no other action. `taken` counts that. A command may come before
others in `order` that were inserted earlier: `created_at` is taken before the INSERT,
which may wait for the file.

**TelemetryBuffer.** `seq` stands for the fields copied by value and `text` for
the strings copied into the slot; `Cut` is `strncpy`. `peeked` is the copy a
client got, with its pointer into a slot, until that slot is popped,
overwritten or cleared.

**OsalQueue.** Everything between the lock and the unlock (or the wait) is one
action. `build` is the branch of the `#if`: the POSIX branch has no timed wait,
so only the Windows branch has `Timeout`. A thread that waits can wake for no
reason. `MessageChannel` sees a sender's item as "offered" until it returns.

## 3. The runs

Every passing run also checks the type invariant of its module.

| run | instance | checks |
|---|---|---|
| `go_commands` | 2 handlers, 2 devices, 2 commands (0.5 s and 30.5 s) for one of them, batteries 19 and 20 %, both stores, 2 failing statements, 1 restart | types, `AnsweredIsMarked`, `AnswerIsConsistent`, `AnswerKeepsOrder`, `NoHoldAndWait` |
| `go_system` | both stores, 1 device, 2 settings, 1 handler, 1 restart, a firmware on offer, lossy network, fairness | `ImplementsLedger`, `SettingIsKept`, `UpdatesOnce`, `SettingReachesDevice`, `AcceptedIsConfirmed`, `DeviceUpdates` |
| `go_acked_final` | as above with a client timeout that overlaps its handler | **violated**: `AckedIsFinal` |
| `go_setting_restart` | as above with a restart | **violated**: `SettingSurvives` |
| `uplink` | 2 certificates, with and without mTLS, 8 telemetries by 6 kinds of writers and every cut of each | `StoredIsOwn`, `StoredAsMeasured`, `OwnDataIsAccepted`, `CutIsNotMisread`, `EncodedFits` |
| `go_ingest` | 2 handlers, a payload with two alerts and one next to every threshold with none, 2 posts, 1 read, 1 fault, 1 restart, both stores, fairness | `TotalsAgree`, `DeviceShowsLastRow`, `ListIsCurrent`, `AlertsAreAccounted`, `NotifiedIsStored`, `EveryRequestEnds` |
| `cloud_system` | 1 device, 2 PHP processes, 2 commands (30 s and an interval the device refuses), 2 overlapping timeouts, 1 fault | `TotalNeverAhead`, `ImplementsLedger` |
| `cloud_progress` | 1 process, 1 fault, 1 overlap, 1 power cycle, fairness | `IntervalConverges`, `PendingIsTaken` |
| `cloud_lost_command` | no faults at all | **violated**: `DeliveredWasAnswered` |
| `cloud_lost_telemetry` | a wake-up without a network | **violated**: `BufferedIsKept` |
| `telemetry_buffer` | 3 slots, 2 values, 3 strings of which two share their beginning | `IsOverwriteFifo` |
| `osal_queue` | 3 threads, 2 messages, 3 slots, both builds, every kind of timeout | `NoLostWakeup`, `IsChannel` |

### Why the bounds are enough

* Two handlers or processes are what a race between requests needs; more of them
  only repeat the pairs, and the connection is one.
* Two commands give an order, a last one and an overtaken one, and each may be
  stamped first and stored last; both the settings
  they carry are at an edge. The second device of `go_commands` has no command
  and must never see one. The proofs cover any number.
* `MaxFaults` and `MaxRestarts` bound what goes wrong, at any place. In `go_commands`
  two faults let one handler lose two statements, or two handlers one each; in
  `go_ingest` one fault meets two posts and a read, and the theorems allow any
  number.
* In `go_ingest` the payload with the smaller sequence number may come last, and
  one payload has no interval, so that a row can go back and an interval be filled in.
* The telemetries of `uplink` are an ordinary one, one of zeros and null pointers
  (with and without an id), one of the largest values with the longest id that fits,
  one at the edges of the varint lengths and between two hundredths with the largest
  rssi, and three that JSON cannot say: a `nan`, a quote, and a version that overflows
  the buffer. The added
  fields have every wire type, look like fields themselves, and make a section
  longer than 127 bytes, so that its length needs two.
* `MaxSeq`, `MaxCount`, `MaxRuns` and `MaxPosts` only say from where on counts
  are not told apart (or posts stop). `MaxRuns = 2` tells "once" from "again".
* Three slots let head and tail wrap at different times with an empty, partly
  filled and full ring. In `osal_queue` three threads allow two to wait while
  the third signals.
* Deadlock is checked in every run but `go_ingest`, where the clients stop when
  `MaxPosts` and `MaxReads` are used up; there `EveryRequestEnds` takes its place.
* Handlers, PHP processes and threads are declared symmetric in the runs without
  temporal progress properties.

### Fairness

`go_commands`, `uplink`, `cloud_system`, `telemetry_buffer` and `osal_queue` state
none: their properties are about safety.

* *Handlers.* The Go scheduler runs every goroutine and `database/sql` serves
  those who wait for a connection in turn: strong fairness of a handler's step.
  A PHP process never waits for another: weak fairness.
* *Devices.* The simulator loops for ever and the ESP32 always wakes again.
* *Network.* Fair-lossy: any message may be lost, but of those sent again and
  again some arrive (strong fairness of `Poll` or `Post`, of `Deliver`, of
  `ServeAck` and of the download `InstallOta`). A command or an acknowledgement
  that is sent once may be lost. A download ends one way or the other (weak
  fairness of `InstallOta \/ OtaFails`).
* *Operator.* A POST of a command that has begun ends (`QueueStamp`, `QueueInsert`,
  `QueueAppend`).
* *Faults, restarts, timeouts that overlap and power cycles* are never forced
  and are bounded, as the operator never has to queue anything.

### Findings

1. `go_acked_final` – a command that the device has acknowledged becomes SENT
   again when a client timeout made two handlers overlap: the UPDATE in
   `sql_repository.go:380` names the row only, not the status it replaces. The
   ledger refinement of `go_system` (and its theorem) holds exactly because it
   leaves that timeout out. The PHP server has the same overlap (`cloud_system` includes it)
   and keeps the ledger, since its UPDATE asks for `status = 'PENDING'`.
2. `go_setting_restart` – the "persistent" interval lives in a map and is lost
   with the process, while the command that set it is ACKED and is not repeated.
   `SettingIsKept` states what is true: an interval of at least one second
   survives until a restart (a shorter one becomes 0, see above).
3. `cloud_lost_command` – a command queued between SELECT and UPDATE of a
   telemetry request is marked DELIVERED and never sent.
4. `cloud_lost_telemetry` – what the ESP32 buffers while it is offline is
   dropped at the next deep sleep.

In three places the repository contradicts itself about a single value, with no
behaviour behind it. The model follows the code and the properties leave the value out:

* At exactly 35 degrees the comment in `rule_engine.go:34` ("35 degrees or more")
  wants an alert; the code and `docs/03_server_requirements.md:107` (`> 35.0`) do not.
* At a battery level of 0 `docs/03_server_requirements.md:109` (`< 20%`) wants an alert;
  `rule_engine.go:76` takes 0 for "not measured". `IsAgreed` in `AlertsAreAccounted`
  is about these two; for every other value the rules of that document are checked.
* A state that a protobuf client leaves out is NORMAL by `iot_message.proto:31` and
  is stored as the empty string (`proto_decoder.go` sets nothing,
  `sql_repository.go:140-160` stores what is there): `LeavesStateOut` in
  `StoredAsMeasured`.

## 4. What is proved

Theorems hold for every value of the constants under the named assumptions of the
modules, which type them and make the sets of handlers, processes and threads
finite. `UplinkAssumption` adds that no certificate has an empty common name, that
what is sent are values of `telemetry_data_t`, and that unknown fields have a number
above 6 (no message here has that many), a wire type that protobuf still uses and a
content of it. `NullIsNoState` and `NoneIsNoPayload` say that the values which stand
for the C pointer and for "nothing stored" are none of a telemetry.

**GoCommandsProofs** (any numbers of devices, commands and handlers, either
store, any size of the pool, any number of faults and restarts):

* `TypeCorrect`. `TypeOK` is not inductive: the bound on `next` after a SELECT
  needs that the handler has not moved it before. `TypeInv` adds `JobOK`: no
  commands are held before the SELECT and `next` is 1 until the rows are closed.
* `NeverHoldAndWait` from `ConnsHeld`: the kept connections are those of the
  handlers whose rows are open, no more and no less.
* `AnswersAreOrdered` from `OrderOK`: the list of a handler is a selection of the
  table in the order of `created_at` (there are increasing positions for it), in
  whatever order the rows were inserted. `TableStep` shows that stamps never move, and `PendingListType` that a SELECT gives such a list;
  a failed iteration keeps a beginning of it (`PrefixType`).
* `AnswersAreMarked` from `MarkedOK`: while marking, the first `next - 1` commands
  are SENT or ACKED or are among those whose UPDATE failed. It needs `TableStep`
  again: no step of another handler, of an operator or of a restart takes a row back to
  PENDING.
* `AnswersAreConsistent` from `SettingOK`: in the loop over the commands the
  interval is the one of the last setting so far.

**GoSystemProofs** (any numbers of devices, commands and handlers):

* `SystemIsServer`: `SystemSpec => Spec`. The devices are some of the arbitrary
  clients of `GoCommands`, so every theorem above holds in the system too.
* `SystemTypeCorrect`, and `FirmwareIsInstalledOnce` from `OtaInv`: a device that
  has installed the firmware names the new version, and one that downloads does
  not.
* `CommandsKeepLedger`: the refinement of `CommandLedger`, under `MaxFaults = 0` and
  `~ OverlappingRetries`; restarts and losses are allowed. `LedgerInv` says where
  a command can be: in the table, in the list of the one handler that serves its
  device, or in the answer the device works through, each with the status that
  goes with it (`HandlerOK`, `DeviceOK`, `CommandOK`). Both assumptions are needed:
  `go_acked_final` breaks the ledger without the second, and a failed UPDATE sends
  a command twice.
* `AcknowledgedIsFinal` (`AckedIsFinal`) under the same assumptions, for both stores:
  the UPDATE of `Mark` finds its row PENDING (`HandlerOK`), and the in-memory store
  never comes to it (`NoRows`). With overlapping retries it is what `go_acked_final`
  violates.
* `NewestIntervalIsKept` (`SettingIsKept`), under the same assumptions: the interval
  is in three places at different times, the row, `deviceSleepConfigs` and the
  variables of a handler, and `KeptInv` follows it. The newest interval is the one
  that was both stamped and inserted last, with none on its way (`IsLatestSetting`):
  when two POSTs cross, so that one is stamped later and the other inserted later,
  the repository does not say which is newer, and nothing is claimed. The rows of a device are handed
  over oldest first (`TableInOrder`, for rows in the same order in both respects), and a list that has one of them has all that
  are due before it and all behind it that are SENT (`ListIsWhole`), because a
  SELECT returns every PENDING row (`PendingListWhole`, by the pigeonhole
  principle). So the newest interval is the last one that a list applies
  (`ConfigOK`), and after its execution no list has another one (`ReplyOK`). Neither
  assumption can be dropped: TLC refutes `SettingIsKept` when one statement may
  fail (an INSERT that fails leaves the interval of its command behind) and when
  retries overlap (the slower handler answers with the interval it read before).

**GoIngestProofs** (any numbers of handlers, payloads, posts, reads, faults,
restarts; either store):

* `TypeCorrect`, with `JobOK`: a handler past `Receive` has a payload.
* `TotalsAreRows` and `LastRowIsShown` from `TablesChangeTogether`: a step leaves
  rows and devices alone, adds a row with its UPSERT, or empties both.
* `ListsAreCurrent` from `ListInv`: what a SELECT returns is a snapshot, and
  appending rows keeps it one. An entry that is missing although the device was
  stored has an error behind it, later than the request (`FaultsGrow`, `ListFault`).
* `EveryAlertIsAccounted` and `NoticesAreStored` are about sums, and every
  step moves at most one unit of them. `NextAccount` says so once: for each
  payload and rule a step is `Untouched`, `RowAdded` (one more row, one more
  handler that owes the alert), `Alerted` (one handler less, one event and one
  webhook more, or a fault) or `Restarted`. Both invariants follow by
  arithmetic. `Accounted` is about the rules of the code (`Triggers`), and
  `AlertsAsDocumented` compares them with those of `docs/03_server_requirements.md`.

**TelemetryWireProofs** (any telemetry whose strings have at most `MaxString` bytes,
any length of a cut): serializer and decoder were written apart from each other, and
these theorems are about every byte between them.

* `EdgeTelemetryIsRead`: `Decode(Encode(d)) = Received(d)`. From below: `VarintForm`
  and `VarintIsRead` (a number of 64 bits is read back from its varint, in any place
  of a message), `WordOfInt` and `Uint32IsKept` (the conversions undo the widening,
  also of a negative rssi), the same for strings and floats; then `Yields` (a chunk
  of bytes is read as these fields wherever it stands) and `Carries` (the fields of a
  chunk tell the values of these names), which are closed under concatenation.
* `CutTelemetryIsNotMisread`: a message that ends early is refused or is `Part` of the
  telemetry. A tag that is cut off ends a nested message without an error, but a
  nested message is never cut: its length is read before it, and the root fails.

The loop of the decoder is a recursive function, and the functions of the library
that flatten sequences are folds, so the proofs need induction. The induction
theorems of the library take an operator, which the provers cannot instantiate;
`SetInduction` states induction over a set of numbers instead and follows from
`WFMin`. `RestDef` and `FlattenDef` unfold the two recursions with it.

**UplinkProofs** (any devices, any telemetries and unknown fields, every sender):

* `OnlyOwnIsStored` from `OwnInv`: the id of a request is the owner of its
  connection from the middleware to the check. This part holds for any bytes.
* `UplinkInv` adds `ConnHolds`: the request is one that a sender writes, the payload
  is what it is decoded to, and the answer and the row go with it (`Answered`).
  `UplinkTypes` follows from it.
* `StoredIsMeant` and `OwnDataIsStored` from `WholePayload`, one lemma per sender:
  fields that a proto3 library leaves out are zero for the server (`SparseIsRead`),
  the order of the fields does not matter (`ReversedIsRead`), and what is unknown is
  skipped in the root and in every section (`NewerIsRead`). For a text it is
  `PrintedIsNear`: what is read differs from what was measured by half a hundredth at
  most, for every finite float (`RoundedIsNear` is the arithmetic of it).
  `OwnDataIsStored` says too which texts are refused: those that are not `IsSayable`,
  and no others.
* `StoredCutIsMeant` from `CutPayload`, with the theorem about cuts.
* `SerializerHasRoom` from `EncodedDataFits`: with `FlattenFits` the lengths add up to
  22 bytes and the two strings, 38 and 14; 6 more for the root.

**CloudSystemProofs** (any numbers of devices, commands and PHP processes, any
number of faults, overlaps and power cycles):

* `SystemTypeCorrect`, which includes that no device takes over an interval it
  must refuse.
* `TotalIsNeverAhead`: a request may carry a total it read long ago. `CounterInv`
  adds the requests between their INSERT and their UPDATE: neither the row nor
  any total that was read, plus these, is ahead of what was inserted.
* `CommandsKeepLedger`: without any restriction, in contrast to the Go server.
  Several requests may list the same command, but a device takes commands only
  from the answer it waits for, and none that is in it was taken before
  (`ListOK`, `WaitOK`, `TakenOK`).

**TelemetryBufferProofs** (any capacity from 1 up, any records):

* `TypeCorrect` from `IInv`, which adds that slots in use are written and that a
  peeked record is the one at `head`. `ModOnce` and the slot lemmas say what
  `% Capacity` does to indices.
* `RingIsFifo`: `Spec => IsOverwriteFifo`, a refinement with the ring read out
  from `head` as the queue. Each operation maps to the operation of the same name.

**OsalQueueProofs** (any capacity, any threads and messages, both builds):

* `TypeCorrect`, where the indices agree: `tail` is `count` after `head`.
* `WakeupsAreKept`: `NoLostWakeup` is inductive. A send or a receive makes at most
  one more thread able to go on and signals one; a woken thread that finds
  nothing to do leaves the place to the one that took its turn.
* `QueueIsChannel`: `Spec => IsChannel`, with the ring read out from `head` as the
  channel and the item of a call as what is offered. `IdleCalls` (an idle thread
  offers nothing) is needed for it.

**Only model-checked:** liveness, which is out of the prover's reach
(`EveryRequestEnds`, `SettingReachesDevice`, `AcceptedIsConfirmed`, `DeviceUpdates`,
`IntervalConverges`, `PendingIsTaken`). Every invariant and every refinement that a
passing run checks is a theorem.

## 5. What is not modelled

* The edge application (`app_state_machine.c`): only the mock test calls it, every
  `app_state_machine_init` empties the offline buffer, and the loop takes one boot
  event between two of them. So the flush of its line 143 never has anything to
  send, in no sequence of calls, and a model would have no two steps that meet.
  `TelemetryBuffer` and `OsalQueue`, which it uses, have arbitrary clients instead.
* The OTA client over the OTA HAL and the OSAL timers have no caller; the HAL of the
  former is a mock that cannot fail. The update that does run is in `GoSystem`.
* `devices` columns that repeat a payload like last_seq_no (battery, firmware,
  last_seen and the ONLINE/OFFLINE rule computed from it), the events' contents,
  and the history's limit. `GetDevice`, which no handler calls.
* JSON character by character: `TelemetryJson` has the values that are printed and
  whether the text is one that `json.Unmarshal` takes. Not considered are strings
  that continue as JSON behind a quote (and would set fields), bytes above 127 that
  are not UTF-8, states other than plain names, and the exact number of digits of a
  float from 2^23 on (seven are counted, so such a text is never sent when the least
  it can take is too long).
* The slice that `proto_decoder.go` makes for a length before it reads: a length that
  no slice can have would panic there, and is a 400 here. Certificates are their
  common names.
* `rows.Scan` failing for a command: its columns are text that the server wrote.
* The dialect of the SQL is SQLite's; no other driver is linked, so `repo = "sql"`
  means one connection.
* Failing statements in the `GoSystem` runs (`MaxFaults = 0`): a failing UPDATE
  leaves a command PENDING and it is sent twice, which `go_commands` and its
  theorem account for (`missed`).
* An UPDATE for an acknowledgement that fails changes nothing, so it has no action.
* `psram_buffer_push` with a capacity of 0 (no PSRAM); the ESP32's clock, portal,
  stored credentials and display. The battery of a simulated device.
* `osal_queue_delete`, which nobody calls.
* HALs, the FreeRTOS mapping, STM32 stubs, dashboards and tools have no state of
  their own or only call a platform.

Hazards without a property are in `PROJECT.json` with the reason.

## 6. Plan

Everything that runs concurrently, keeps state across steps or meets a failure in
this code has its module now. What could be added, in the order of its weight:

1. last_seen and the ONLINE/OFFLINE rule at its boundary (`GetDevice` and
   `ListDevices`), with a clock in `GoIngest`.
2. The edge application and the OTA client, as soon as something calls them.
