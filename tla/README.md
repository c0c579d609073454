# TLA+ model of the ESP32-S2 Wi-Fi to USB bridge firmware

This directory models the control logic of the firmware in `src/`: how Wi-Fi
credentials are tried, proven, saved and forgotten, how scans share the radio
with connection attempts, how the board moves between configuration mode and
bridge mode, how its settings survive errors and power loss, and how the web
server takes forms apart and puts texts together. Paths below are relative to
the repository root, with the C files in `src/src/`, the documents in
`src/docs/` and the web page in `src/web/`.

Contents

1. The system and its components
2. The modules and how they correspond to the code
3. The runs: what is checked, with which bounds
4. Fairness
5. What is proved
6. Where the code and its documents part
7. What is only model-checked, and what is not modelled
8. Plan

## 1. The system and its components

The board is a USB network card for its host. It has two modes, chosen at
boot. In *configuration mode* it serves a web page over USB on which a user
scans for networks, tests credentials and saves them. In *bridge mode* it
joins the saved network and passes Ethernet frames between USB and Wi-Fi.

Everything runs on one core under FreeRTOS. The tasks, with their priority:

| task | priority | what it does |
|---|---|---|
| default event loop | 20 | `wifi_connect_event_handler`, `scan_done_handler` (configuration), `event_handler` (bridge) |
| HTTP server | 5 | every handler of `manual_config.c`, one request at a time |
| validation tasks | 5 | `wifi_connect_validation_task`, one per attempt |
| `wifi_retry` | 4 | `wifi_retry_task` |
| `boot_button` | 4 | `button_task`, in both modes |
| debug console | 2 | commands typed at the UART |
| `app_main` | 1 | boot, the choice of mode, the wait for an end, the restart |

A higher task preempts a lower one anywhere, and a lower one runs whenever the
higher ones block, so the models interleave them between any two accesses to
state that they share, and do not rely on priorities.

**Connection attempts** (`manual_config.c` 351-644, 1150-1298). State:
`s_connect_status` under `s_connect_mutex`; the driver's storage mode, its
configuration in RAM and in flash, its link; the queue of driver events; the
LED state; the tasks' own positions. Operations: the handlers that test, reconnect, connect
to a profile, save, list and delete; the validation task (poll for 15 s, hang
up, persist, verdict, signal); the handlers of GOT_IP and STA_DISCONNECTED.
Hard: the mutex guards only the status, so the driver calls of a handler, of
an older validation task and of the console interleave freely; driver events
carry no attempt number; a validation task acts on a snapshot that is old by
the time of its verdict; the BOOT button borrows the LED. Correct means: an attempt is decided once and always;
success, the announcement of a restart and the success bit are earned; flash
and the profile list hold proven credentials, or what a user insisted on; a
superseded task is silent; the LED tells whether an attempt runs.

**Saved profiles** (`wifi_profiles.c`). State: one NVS blob, an ordered list
of at most `WIFI_PROFILE_MAX` networks. Operations: save (to the front),
delete by index, load, and the import of the current configuration. Hard:
each rewrite is a read, a change of a copy and a write, without a lock and
from two tasks; writes fail; power goes. Correct means: each rewrite is one
atomic change of the list, no network appears twice, nothing else is lost.

**Scan** (`manual_config.c` 431-438, 870-910, 1057-1148; console `run_scan`).
State: `s_scan_seq`, `s_scan_state` and the records under `s_scan_mutex`, the
driver's scan and results, SCAN_DONE events. Hard: "is an attempt running"
and "is a scan running" are each asked under one mutex and acted on after it
is released; SCAN_DONE carries no number; timed mutex waits may end without
the mutex. Correct means: a running scan has somebody to end it, a scan and
an attempt never share the radio, the published list is the latest scan's.

**Boot and restart, the BOOT button** (`sta2eth_main.c`). State: the event
group, the reset reason, a word in RAM that no reset clears
(`s_reconfigure_requested`), `app_main`'s position. Hard: power loss, panics
and console reboots between any two steps; bits set while a task waits or
before it does; both end bits at once. Correct means: a provisioned board
enters configuration when, and only when, it was asked to.

**Bridge Wi-Fi** (`sta2eth_main.c` 66-147). State: the packet gate
`s_wifi_is_connected`, the CONNECTED bit, the retry task. Hard: the retry
task and the event handler both request connections, and the console hangs up
beneath them. Correct means: the gate follows the link, a bridge without a
link keeps trying, the LED does not lie for ever.

**Config access mode** (`config_access.c`). State: the NVS key `mode` and the
marker `safe_v1`, which says that the key was written since captive stopped
being the default. Operations: read, which replaces anything without the
marker by the safe default and saves that; set by name. `app_main`, the HTTP
server and the console do both. Hard: a save is two writes and a commit, any
of which may fail or be the last thing before power goes; a read writes too;
nothing is locked. Correct means: captive is always somebody's choice, and a
confirmed choice is what every later start and reader get.

**Status LED** (`status_led.c`). The mode (in RAM and in NVS) is set by the
server and the console; the state is one variable that five tasks write, and
`button_task` also saves and restores it. Correct means: as for the access
mode, and identify is never the mode of the next start.

**Forms and JSON** (`provisioning_http.c`, `form_profile_policy.c`). State:
buffers of one request, all on the stack of the one server task. Operations:
receive a body piece by piece, find a field, decode it, parse an index, send a
text as a JSON string in chunks. Hard: ends of buffers, broken escapes, bytes
of value 0, indices near the limit, a connection that breaks anywhere, an
empty chunk (which would end the response). Correct means: no loop leaves its
buffers, what is accepted is what was sent, a response with an end is whole.

**Debug console** (`debug_console.c`). Its commands scan, disconnect,
reconnect, reprovision, reboot, config and led are actions of the other
modules.

**USB NCM** (`usb_ncm_iface.c`), **the page** (`web/src`), **scripts**: see
section 7.

How they interact: the page calls the handlers over HTTP; handlers start
validation tasks and call the driver; the driver answers through the event
loop; validation tasks write flash and the profile list, and a successful
reconnect sets PROV_SUCCESS_BIT in the event group that `app_main` waits on;
the button and the console set RECONFIGURE_BIT in the same group; `app_main`
restarts the board, and only flash and the word in RAM survive.

## 2. The modules and how they correspond to the code

| module | models | kind |
|---|---|---|
| `ProfileList` | what the profile list promises | abstract specification |
| `ProfileStore` | the list as a value: save, delete, validity | operators |
| `WifiProfiles` | `wifi_profiles.c` and the tasks that call it | state machine, implements `ProfileList` |
| `ConnectAttempt` | what a poller of the connection status is promised | abstract specification |
| `WifiConnect` | attempts in configuration mode | state machine, implements `ConnectAttempt` |
| `WifiScan` | scans and their exclusion of attempts | state machine |
| `AppLifecycle` | `app_main`, bridge mode, button, console requests | state machine |
| `Settings` | access mode and LED mode in NVS | state machine |
| `HttpForms` | form bodies, fields, indices, JSON strings | state machine, checked against reference definitions |
| `MCHttpForms` | the forms and texts of its run | instance |
| `*Proofs` | theorems about all six state machines | proofs |

The modules are cut along the shared state. They meet at four places, where
the neighbour is an action with an open outcome: `WifiConnect` has a scan that
starts and ends (`ScanStarts`, `ScanEnds`), `WifiScan` an attempt that runs
and ends (`StartAttempt`, `AttemptEnds`), `AppLifecycle` a session that stores
credentials, sets the LED and succeeds (`Session`), and `WifiConnect` has the
profile list as a set, its order and eviction being in `WifiProfiles`.

### ProfileStore, WifiProfiles, ProfileList

`blob` is what `read_store` answers: a sequence of profiles, newest first.
`SaveProfile` is lines 99-127: the slot of the network, or a new last slot, or
the last one of a full list, is freed, everything before it moves down and the
profile goes to the front. `DeleteProfile` is lines 153-157. `task[t]` is the
call a task is in, and for a task between `read_store` and `write_store` the
copy it is about to write. `Write` and `WriteFails` are the two outcomes of
`write_store`; `Restart` forgets the tasks and keeps the blob. `nvs_set_blob`
is taken to replace the blob as a whole, which is what ESP-IDF's NVS promises.

`ProfileList` has the list alone and two whole operations. It says by positions
what a list is afterwards: `Picks(after, before, kept)` holds if `after` is
what stood at the positions `kept`, in their order. `Remember(p)` puts p before
the positions of the other networks, less the last one of a full list;
`Forget(q)` keeps the positions where q does not stand.

### WifiConnect, ConnectAttempt

| variable | code |
|---|---|
| `status` | `s_connect_status` without the texts |
| `fresh` | `now - started_us < 1000000`, which the disconnect handler asks |
| `httpd` | the position in the handler, with the request it serves |
| `validator[q]`, `late` | the validation task of attempt q; whether its deadline passed |
| `storage`, `ramCfg`, `flashCfg`, `link` | the driver |
| `events` | driver events that wait for the event loop |
| `led`, `button`, `reconfigure` | the last `status_led_set_state`; `button_task` with the state it saved; RECONFIGURE_BIT |
| `profiles`, `provSuccess` | the saved networks as a set; PROV_SUCCESS_BIT |
| `validated`, `persisted`, `ipSeen` | history: what got an address, which attempts wrote everything, which had an address handled |
| `saveAsked`, `imported` | history: what a client asked to save untested, what a listing found in RAM |
| `ledLost` | history: the LED was overwritten or set too late |

One action is what a task does between two points at which another task may
run: a section under `s_connect_mutex`, or one call into the driver or NVS.
`start_wifi_connection_attempt` (529-573) is therefore `StartAttempt` or
`Reject`, `AttemptStorage`, `ApplySetConfig`, `HangUpBefore`, `Begin`,
`ShowConnecting`, `RequestLink`, `Spawn` and the errors beside them;
`wifi_connect_validation_task` (472-527) is `Poll`, `TimeOut`, `HangUpAfter`,
`PersistSetStorage`, `PersistSetConfig`, `PersistSaveProfile`, `Finish`,
`Signal`. The driver is external: `esp_wifi_set_config` writes flash exactly
if the storage mode of that moment is FLASH, `esp_wifi_disconnect` reports
ASSOC_LEAVE if there was a link, an association may succeed, fail, never
answer or break. Where the second of the two calls fails, the storage mode stays
as the first one left it.

`button_task` (`sta2eth_main.c` 156-191) runs in configuration mode too. It
reads the LED state and shows "held" in two calls (`ButtonPressed`,
`ButtonShown`), and after less than 2 s writes back what it read
(`ButtonReleased`); a longer press sets RECONFIGURE_BIT when it ends. `ledLost`
becomes true where a state that an attempt had set is overwritten in this way,
where a failure is handled before line 558 sets "connecting", and where a
refused request replaces a running attempt; the next state that an attempt
shows makes it false again.

Two constants say what is assumed of the environment, and both can be off.
`ClientWaits` lets no attempt be requested while one runs. The page disables
its Save, Test and Connect buttons while it polls
(`web/src/app.ts` 133, 190-206); the Connect button of a saved profile
disables itself only (line 604), a second tab or `curl` does not wait at all,
and the firmware does not enforce it. `EventsDrain` says that the 100 ms pause
after the hang-up (line 541) is long enough for the event loop to handle what
was queued; it is, at priority 20, unless the driver is slower than that.

`ConnectAttempt` is the same without tasks: four variables, attempts that are
numbered, may get an address, and are decided once. It may fail a running
attempt at any time: that an attempt is failed too early, by an event that is
not its own, is no matter of this refinement.

### WifiScan

`scan` is the published state with the number of the driver scan its records
came from; `task[t]` the position in `provisioning_scan_start` or in the start
of an attempt, of the HTTP server or the console; `radio`, `results`, `done`
the driver. Each question under a mutex is one action and what is done about
it is another. After its start, accepted or not, a starter looks at the
published state (`Look`): the handler of the server once, since its answer is
that state, RUNNING or not; `run_scan` until it is not RUNNING, or until it has
looked 80 times (`GiveUp`). The GETs by which the page then asks again
(`web/src/app.ts` 374) only read and are not modelled. Every timed wait has an outcome in which it ends without the mutex.
`connect_validation_is_running` and `scan_is_running` then answer "no",
`provisioning_scan_start` gives up, and `scan_done_handler` drops the only
event that ends the scan.

Three history variables let the properties say what holds until when.
`missed`: a timed wait ended without its mutex, which takes a task that is kept
from running for 100 ms inside a section of a few instructions. `overlapped`:
two requests, one of the page and one of the console, were under way at once.
`news`: the tasks since whose request the state was written. A driver
assumption: once Wi-Fi runs in station mode, setting that mode again does not
fail.

### AppLifecycle

`app_main` is a chain of actions from `Boot` to `Restart`; `mode` and `app`
say where it is. Each mode has its own places (`AppPc`). `SetBit` models
`xEventGroupSetBits`: a task that waits is released with the bits of the
moment at which they are set, and the last wait of `app_main` takes its two
bits away as it is released (`pdTRUE` in line 281). `Reset` starts everything
anew but flash and `noinit`; `PowerCycle` also scrambles `noinit`. The event
handler is two actions, since its connect request can block before it clears
CONNECTED (lines 107-110). DISCONNECTED_BIT is left out: nobody waits on it
or reads it.

### Settings

One action is one NVS call. `nvs[k]` is what `nvs_get_u8` answers at the
moment for the namespace k, `trail[k]` every contents that a loss of power may
leave: NVS applies writes in their order, so it is what each write since the
last commit made, and a commit leaves only the newest. `task[t]` is the call
that `app_main`, the server or the console is in: `open`, `marker`, `mode` for
a read, `write`, `mark`, `commit` for a save, which a read begins too when it
finds no marker or no mode that is known. Every call may fail. `Restart` keeps
one element of the trail. `Init` allows any contents, those of an older
firmware without the marker among them. Of the LED modes "on" is left out: it
is kept and saved like "off".

Three histories. `chosen[k]` is the last mode whose saving was confirmed by a
task that saved alone; the start of the next set makes it "unclear" until that
is confirmed, and so does a set that failed, after which the user cannot tell
what the mode is. `overlapped[k]`: two tasks were saving at once. `misread[k]`:
since the mode was confirmed, one `nvs_get_u8` of it has failed. For the
access mode that is enough for the reader to save local in its place
(`config_access.c` 29-33, 38-43), so a failing read does not make `chosen`
unclear: the properties say what it may do to a confirmed choice.

### HttpForms

One action is one turn of a loop, so that what a loop keeps can be stated and
proved: `Receive` (`httpd_req_recv`), `Field` (`form_value_get`), `Decode`
(`decode_form_component`), `Digit` (`form_profile_index_get`), `Text`
(`provisioning_http_send_json_string`); around them what the callers do with
the outcome. Bytes are numbers, the C string of the body ends at its first 0
(`Char`). `sent` is what `httpd_resp_send_chunk` was given so far, and `ended`
whether an empty chunk was among it. What the loops compute is compared with
definitions that have no loop: `Named` and `Raw` say what a field is, `Strict`
and `Plain` what its value means, `Denotes` which index a text names.
`Unescape` is how a JSON parser reads a string: `CharAt` says what stands at a
byte of it and `WidthAt` how many bytes that takes, and whatever a parser would
refuse (a bare quote, a control byte, a broken escape) is read as `NoChar`,
which is no byte of a text.

## 3. The runs

| run | states | question |
|---|---|---|
| `WifiProfiles_single` | 7652 | is every rewrite one atomic change of the list, with one task inside? |
| `WifiProfiles_two` | violation | and with two? |
| `WifiConnect_free` | 5883632 | what holds whatever clients, the BOOT button and the radio do? |
| `WifiConnect_waits` | 8519876 | what holds if clients wait and events drain? |
| `WifiConnect_live` | 400935 | does every attempt end or give way, is every announced restart signalled? |
| `WifiConnect_overlap` | violation | do only proven credentials reach flash when clients do not wait? |
| `WifiScan` | 157047 | exclusion, own and new records, owners and ends of scans |
| `AppLifecycle` | 425756 | requests, gate, retries and LED over all boots and accidents |
| `AppLifecycle_led` | violation | does the LED show the link? |
| `Settings` | 3532652 | do modes that were chosen survive, and no others appear? |
| `HttpForms` | 943545 | is what is accepted what was sent, and a finished response whole? |
| `HttpForms_strict` | violation | are credentials with a malformed password refused? |

**WifiProfiles_single**: four networks, two passwords, three slots. Four
networks overflow three slots, two passwords tell an update from a save, and
three slots have a first, a middle and a last one. `TypeOK`,
`OneProfilePerNetwork` (in flash and in every copy about to be written),
`OnlyTheRequestedGoes` (a write loses only the deleted network, or the oldest
of a full list), and the refinement of `ProfileList`.

**WifiConnect_free**: test, reconnect, saved profile, list, delete and the
BOOT button, overlapping attempts and events at any time. Two attempts are what
one task needs to be superseded by another; one pair of credentials suffices
since no property of this run compares credentials. "save" and the console are
left out to keep the run small, the theorems of section 5 have them too.
`RunningHasOwner`, `SuccessHasAddress`, `PendingIsPersisted`,
`SuccessBitIsEarned`, `SupersededIsSilent`, `LedShowsAttempt`, and the
refinement of `ConnectAttempt`. `SupersededIsSilent` is about the status and
the LED: a superseded task still hangs up and persists. `LedShowsAttempt` names
four exceptions, all of which the code makes: the moment between the start of an
attempt and line 558; the BOOT button, while it is held, after it asked for a
restart, and what a short press leaves behind; a failure handled before line
558; a refused request that replaces a running attempt.

**WifiConnect_waits**: two networks, two attempts, one event in the queue when
the driver adds another; reconnects, saved profiles, saves and listings. Its
invariants fail when either switch is off, which is why they are there: with
`ClientWaits` FALSE `OnlyValidatedInFlash` and `PendingIsInFlash` fail (run
`WifiConnect_overlap`), with `EventsDrain` FALSE `AddressIsOwn` does. All three
writers of the profiles are at work. `OnlyValidatedInFlash` says that flash
holds what obtained an address or what a client asked to save untested;
`SavedForAReason` that a profile is one of these, or was found in RAM by a
listing, which is the one way around what `docs/debugging.md` 100 says. The
console is left out: its reconnect during an attempt makes the address another
attempt's.

**WifiConnect_live**: reconnects and the console, overlapping, with nothing
assumed of clients, access points, the console or the radio. `EveryAttemptEnds`
is per attempt: each one comes to a result or is replaced by a newer one. A
client that starts an attempt every few seconds may keep the status at RUNNING
for ever, and nothing is said against that. `PendingIsSignalled` follows the
announced restart to its bit.

**WifiScan**: the server starts scans and attempts, the console scans. Five
scans allow one that waits, one whose results are late, one after, and a
refusal between them. `ScanAndAttemptExclude` and `DoneHasOwnRecords` hold
until two requests overlap: the console may ask whether an attempt runs before
the server starts one, and scan after. `RunningScanHasOwner` and
`EveryScanEnds` hold until a mutex is missed. `ResultIsNew`: whoever asks for
a scan is never shown the list of before; a refused or failed scan replaces it
by an error.

**AppLifecycle**: power loss, panics and console reboots. `MaxEvents` is 1, so
that in this run never more than one event waits; `GateFollows` of section 5
proves `GateFollowsLink` for a queue of any length. `GateFollowsLink`, `ConfigOnlyOnRequest`, `KeepsTrying`,
`RequestServed`, `LedAdmitsLoss`. `RequestServed` makes an exception that the
code needs: a long press in the second between `app_main`'s choice to restart
and `esp_restart` (line 290) is lost.

**Settings** has no bound at all: three tasks, two keys, every NVS error, power
loss anywhere, any number of restarts. `CaptiveIsChosen`; `ChoiceSurvives` and
`ChoiceShown`: a mode that was confirmed to a task that saved alone is what each
later start and each reader get, except that after one failed read the access
mode may be local with its marker, which never puts captive in the place of
local, and the LED mode of that one start "status".

**HttpForms**: every form of up to four of twelve pieces, which are chosen so
that fields, parts of keys, whole, broken and zero escapes, separators and
zero bytes meet in every order; every text of up to four of six bytes, one for
each way of escaping. The buffers are as small as the texts make interesting
(a body of 9, a value of 3, an index of 4 bytes below 11), so that each is
exactly full, one short and one over. `InBounds`, `ValueAsSent`,
`IndexAsSent`, `TextArrives`, `ServerComesToEnd`. `ValueAsSent` says nothing of
a password that is malformed or too long: `MalformedRefused`, which says that
credentials with a malformed password are refused, is what **HttpForms_strict**
finds violated on the same bodies. `ServerComesToEnd` leaves out the wait for
the client: wherever the server need not receive, its loops come to an end.

Every property has a mutant of the code in `PROJECT.json` that breaks it; the
mutated operators stand in the modules, named after the operator they replace
and marked "Mutated". They are part of no specification.

Bounds on counters: `MaxSeq` attempts and `MaxScan` scans per session;
`MaxEvents` driver events that wait in `AppLifecycle`, and that may be in the
queue of `WifiConnect` when the driver adds another. The
counters of the code are 32 bits wide and one session ends with a restart, so
they do not wrap.

## 4. Fairness

`Settings` needs no fairness; it states no liveness. `HttpForms` assumes weak
fairness of the server's own steps, parsing and sending, and nothing of the
client: the loop over `httpd_req_recv` goes on after a timeout
(`provisioning_http.c` 243), so a client that stays silent keeps the server for
ever, and no property says otherwise.

`WifiConnect` and `WifiScan` assume weak fairness of each task's own steps, of
the event loop and of time (`DeadlineExpires`, `SecondPasses`): FreeRTOS runs
a ready task, no task here loops without blocking, and timed waits end.
Nothing is assumed of clients, access points, the button or the console: in
`WifiConnect` an association may stay without an answer for ever, and the
deadline of the validation task ends the attempt. `WifiScan` also
assumes that the driver ends every scan with an event, as ESP-IDF documents.
`AppLifecycle` assumes weak fairness of `app_main`, the event loop and the
retry task, and one strong fairness: the driver does not refuse every request
of the retry task for ever. The weak form would not do, because the retry task
leaves the request after a refusal. Nothing is assumed of the button.

## 5. What is proved

TLAPS proves the following for every value of the constants, from the named
assumptions in the modules (bounds are natural numbers, `NoCred` is no pair of
credentials, the HTTP server is among the starters).

The argument is each time an inductive invariant, which the summaries below
name, with one lemma per action or group of actions. All the safety properties
of the passing runs are theorems, the two refinements among them.

**WifiProfilesProofs.** `StoreIntact`: with any number of tasks, networks and
slots, the blob and every copy about to be written are well-formed and without
duplicates. The lemmas `SaveProfileCorrect` and `DeleteProfileCorrect` say what
the two rewrites do with a valid list; the invariant is inductive as it stands
because a stale copy is still a valid list. That is also why it holds of two
tasks although the other two theorems do not: `OnlyTheRequested` (the action
property `OnlyTheRequestedGoes`) and `Refinement` (`ProfileList` is
implemented) have the hypothesis `OneCaller`, at most one task, which is what
`WifiProfiles_single` checks and `WifiProfiles_two` shows to be needed. Their
invariant is `CopyIsFresh`: the copy that a lone task writes is what its
operation makes of the blob that is still there. `SaveIsRemember` and
`DeleteIsForget` give the positions that `Remember` and `Forget` ask for.

**WifiConnectProofs.** `Inductive` proves `IInv`, which strengthens the
invariants of `WifiConnect_free` by what the tasks know: the server holds the
newest number between `Begin` and `Spawn` (`ServerKnowsAttempt`), a validation
task exists only for an attempt already spawned (`ValidatorsAreSpawned`), and a
task with a snapshot has seen an address, so that if its attempt is still
active the status still has it (`SnapshotIsOwn`). The last one is what makes a
verdict under the mutex safe after a second of flash writes: nothing but a
failure takes the address away, and a failed attempt is not active. `BitIsEarned` keeps for the
success bit what the task that set it had. For the LED, `LedIsKept` says what
it shows or will show again: while the button is up, or has only read it, the
LED tells whether an attempt runs (`Tells`); while the button is held, the state
that it saved does, unless a task has written over "held" meanwhile. From
`IInv` follow `TypeCorrect`, `RunningOwned`, `SuccessEarned`, `PendingEarned`,
`SuccessBitEarned`, `LedTruthful`, `SupersededSilent` and `Refinement` (each
step is one of `ConnectAttempt` or a stutter). Neither switch is assumed, and
every kind of request is allowed.

**WifiConnectWaitsProofs.** The invariants of `WifiConnect_waits` for any
networks, attempts and queue, from the named assumption `Waiting`: both
switches are on, and nobody uses the console meanwhile. Saves, listings,
deletions and the button are allowed at any time. `WInv`
says whose the shared driver is at each moment. No attempt runs while the
server prepares the next (`NoneRunsBefore`), so no validation task touches the
storage mode between its two calls (`ServerOwnsDriver`); the link is down and
the queue empty when an attempt gets its number, so every later address is its
own (`LinkIsOwn`); once it has an address only its own validation task can end
it, so the snapshot stays current (`SnapshotIsCurrent`) and its writes reach
the flash in order (`SnapshotIsWritten`). `IInv` is used for who owns the
running attempt. `ProvenInFlash`, `ProvenSaved` (`SavedForAReason`),
`OwnAddress` and `PendingInFlash` are its parts.

**WifiScanProofs.** `TypeCorrect`; `ScanOwned`, until a mutex is missed;
`ResultsAreNew`, an action property; `Exclusion` and `OwnRecords`, until two
requests overlap. For the last two the invariant `Alone` says that what a
lone request found out stays true until it acts, and `Current` that the
driver's scan, its results and the published records all belong to the last
number. The first two invariants are proved before them and used as facts.

**AppLifecycleProofs.** `TypeCorrect`, by a type invariant that says where the
configuration pattern may come from; `OnlyOnRequest`, by `Requests` (whatever
can still lead to configuration stands for a request since the last boot,
unless power loss scrambled the word) and `AtRest` (nothing acts in reset);
`GateFollows`, by `Gates` (the newest queued event says what the link is; with
none queued the gate does).

**SettingsProofs.** `TypeCorrect`, `CaptiveChosen`, `SurvivesRestart` and
`ShownToReaders`, for the three tasks and two keys that there are and any
contents of the flash. TLC visits all those states too; the proof says why. A
reader that finds no marker saves only the safe default, and a mark is put onto
nothing but a mode that a save has just written (`Places`), so wherever captive
may come to count it was asked for (`Asked`). While it is clear which mode was
chosen last nobody saves but readers whose read failed, who have been noted in
`misread` and write nothing but local and its marker (`Settled`); one who saves
alone finds at its commit what it wrote (`Alone`); the confirmation is therefore
about what is in the flash.

**HttpFormsProofs.** `TypeCorrect` and `StaysInBounds`, for bodies of any
length and any bytes, any two keys and any sizes of buffers. The step that
needs an argument is `Digit`: `FitsBounds` shows that the comparison made
before the multiplication keeps the parsed index below the limit. `Blank`
strengthens them by the positions a request starts with.

**HttpFormsSentProofs.** The loops compute what the definitions without a loop
say, for texts and buffers of any length. `TakenAsSent` (`ValueAsSent`) has the
invariant `Progress`: the loop over the fields has gone past no field of its
name, so that the one at which it stops is the first (`Looking`), and the loop
over a value has put out the meaning of the bytes behind the cursor, which ends
at no broken escape (`Midway`, `DecodedTo`). That a value ends exactly if the
whole of it is well-formed and short enough is then a matter of what lies
behind the cursor at the end. `SelectedAsSent` (`IndexAsSent`) has `Counted`:
the number of the loop is the only one whose digits were read. `FitsIsNeeded`
is the other half of `FitsBounds`, no index below the limit is refused, and
`NoneBelow` says that no further digit helps. `TextComesWhole` (`TextArrives`)
has `Sending`: the string so far consists of pieces, each of which reads as one
byte of what lies behind the cursor (`Cuts`); pieces put one after the other
are still read piece by piece (`JoinedReads`), since none is ever read beyond
its end, and no chunk but the last is empty (`RestReads`).

These are inductions over the length of a text. The theorems of the library
that would give them take an operator, which none of the provers can
instantiate, so `Smallest` (every set of naturals has a least element) takes
their place: the least counterexample has a predecessor that is none. For the
two functions that are defined by recursion, `Format` and the reader of
`Unescape`, there is first to be shown that such a function exists
(`FormatIsWritten`, `CanBeRead`): parts of it on ever longer intervals do.

## 6. Where the code and its documents part

Four runs end in a violation of what a document says.

- `WifiProfiles_two`: `wifi_profiles_save` and `wifi_profiles_delete` are not
  locked. In the trace the server task and a validation task each save a
  network: both read the same list, and the one that writes last writes it with
  its own network only. What is lost is the network that was written first;
  the two may write in either order, and if the server task is the later one it
  is the network that was just validated (`README.md` 253). A delete that read
  before a save loses it in the same way.
- `WifiConnect_overlap`: the storage mode and the configuration are set by two
  calls. A validation task that persists (line 495) sets FLASH between the two
  calls of the next request, whose unproven credentials go to flash
  (`docs/debugging.md` 100).
- `AppLifecycle_led`: the BOOT button saves the LED state when it goes down and
  restores it after a short press, over what the event handler set in between
  (`README.md` 332).
- `HttpForms_strict`: a password that is malformed counts as empty and the
  request goes on (`provisioning_http.c` 286), where `docs/P2_SCOPE.md` 10 wants
  malformed input handled strictly and an encoded NUL rejected. One that is too
  long goes the same way.

More that no run states as a violation, most of it because no document promises
otherwise:

- reading the profile list imports the configuration in RAM, which during or
  after a test is not a proven one (`manual_config.c` 1151), against
  `docs/debugging.md` 100; `SavedForAReason` names it as the only way around
  that sentence;
- the BOOT button does in configuration mode what `AppLifecycle_led` shows for
  the bridge: a short press during an attempt leaves "connecting" after its end,
  or wipes it; `LedShowsAttempt` excepts it (`ledLost`);
- a client that keeps its connection open and sends nothing holds the one
  server task for ever (`provisioning_http.c` 243);
- an SSID of 32 characters is cut to 31 and a key of 64 hex digits to 63 before
  they are tried and written to flash (`manual_config.c` 355-356), while the
  profile keeps them whole;
- one `nvs_get_u8` that fails in a mere poll of the status makes the reader save
  local over a captive that was confirmed (`config_access.c` 29-33, 38-43);
- a long press of BOOT in the second before `esp_restart` is lost
  (`sta2eth_main.c` 290);
- a page and a console that ask for an attempt and a scan at once may both get
  them (`manual_config.c` 532, 1063);
- a new request wipes the status of a success whose restart is under way, so
  the board restarts while the status says no restart is pending
  (`manual_config.c` 546);
- a validator that timed out hangs up the driver even if a newer attempt uses
  it (490);
- after a missed mutex in `scan_done_handler` (877) scans and attempts are
  refused until the next restart;
- a `set` of captive that the console confirms while `app_main`, before it
  starts the server, is migrating an old board is undone by the migration
  (`config_access.c` 29-35): the case that `overlapped` sets apart in
  `Settings`;
- a set of either mode may answer an error although the mode is changed, for
  the LED at once (`status_led.c` 146), for the access mode if only the marker
  or the commit failed;
- a board that starts in the saved LED mode "on" keeps its LED dark:
  `status_led_init` switches it off (127) and `status_led_task` starts in the
  belief that it is lit (97), so it sees nothing to change until another mode
  or a dark phase comes.

## 7. What is only model-checked, and what is not modelled

Liveness is checked by TLC and not proved, since it needs fairness and ENABLED:
`EveryAttemptEnds`, `PendingIsSignalled`, `EveryScanEnds`, `KeepsTrying`,
`RequestServed`, `LedAdmitsLoss` and `ServerComesToEnd`. So are the four
violations of section 6, which are counterexamples.

Not modelled:

- the texts, RSSI, channel and addresses in the statuses, the sorting of scan
  records, counters and logs: nothing depends on them;
- the length of credentials: they are model values, so that their being cut
  short (section 6) cannot be seen;
- the names of form fields, the list of profiles as a whole and number fields
  in responses: they put together what `HttpForms` models;
- what the access mode changes in the DHCP and DNS servers;
- the page's polling loops, of a scan and of an attempt: section 8;
- `usb_ncm_iface.c`, packet copies and the coredump download: glue to
  libraries, with no state that the rest reads;
- the blinking task of `status_led.c` and its patterns (see section 6 for
  what it makes of the mode "on");
- host scripts and the build.

`is_provisioned` is the flag `provisioned` of `AppLifecycle`, the SSID that
the driver keeps in flash.

## 8. Plan

Done, in this order: the profile list, connection attempts, scans, boot and
bridge; settings; forms and JSON; proofs of each. The order followed the risk:
credentials first, since a board that saves wrong ones is lost to its user
until it is reset by hand.

Next:

1. Compose the page's loop with `WifiConnect`: when does `ClientWaits` hold?
   The delete by index belongs here: the list that the user sees is older than
   the one that is deleted from.
2. The blinking task, so that "the LED shows its mode" becomes a property.
3. `Waiting` without the restriction on the console, for the properties that may
   not need it (`OnlyValidatedInFlash`, `SavedForAReason`).
4. `CaptiveIsChosen` for any number of tasks.
