# Smart switch: models, checks and proofs

The program (`src/app`) is the firmware of a two-relay WiFi switch for the
ESP8266. This directory holds TLA+ modules for its components, TLC
configurations that check them on small instances, and TLAPS proofs for all
instances. `PROJECT.json` lists the components, the runs, the mutants that show
that each property can fail, the source lines behind each definition, the
findings, the hazards and the theorems.

## The system

| Component | State | Operations | Talks to |
|---|---|---|---|
| `relay/relay.c` | `EepromParameter_st` (the mask), its copy, `lastRelaySwitchMask`, two pins, the NVS blob | `relay_task`: load, then every 10 ms latch, save, refresh the pins; `toggle_relay` | key, parseJSON (mask), clock (timer, event group) |
| `clock/clock.c` | `SysTimerMs[]`, `system_event_group` | `clock_task` counts down every 10 ms; `SetTimer`, `GetTimer`; `sntp_task` | relay, key, parseJSON; wifi starts SNTP |
| `key/key.c` | statics of `key_scan`, four report flags | `key_task`: scan every 10 ms, toggle and report, or erase and restart | relay, parseJSON, clock, router |
| `led/led.c` | `LedParameters_st`, statics | `led_task`: dispatch, drive every 10 ms; `set_led_strobe` | wifi, xMqtt, smart set the speed |
| `parseJSON/parseJSON.c` | `user_data`, the queue, `isConnect2Server` | `Task_ParseJSON`; `post_data_to_clouds` | xMqtt (queue), relay, clock, MQTT client |
| `xMqtt/xMqtt.c` | `client` | `MqttCloudsCallBack`, `TaskXMqttRecieve` | esp-mqtt, parseJSON, led |
| `wifi/wifi.c` | task handles, `wifi_event_group` | `event_handler`, `wifi_init_config` | smart, xMqtt, parseJSON, led, clock |
| `router/router.c` | `ssid`, `password` in NVS | clean, save, connect | key, smart |
| `smart/smart.c` | SmartConfig task, discovery socket | `sc_callback`, two tasks | router, wifi, led |
| `main/app_main.c` | - | creates the tasks | all |
| `common/common.c` | - | `itoaa` (unused) | - |
| SDK: `nvs_flash` | the pages of the partition, in RAM two lists of pages | `nvs_flash_init`, `nvs_set_*`, `nvs_erase_all` | relay, router, main |
| SDK: lwIP, `tcp_transport`, `sc_ack_send_task` | ten sockets | open, close, connect | smart, MQTT client |

The tasks are FreeRTOS tasks under a preemptive scheduler with a tick of 10 ms.
`app_main` asks for priorities 13 (clock), 14 (key), 15 (led) and 16 (relay);
the SDK has 15 levels, so that 15 and more are capped to 14 and key, led and
relay are time-sliced. The event loop runs at 10, MQTT at 5, the parser and
SmartConfig at 3. No component uses a lock: the mask, the timers and the flags
are plain globals.

What is hard here: the unlocked sharing of the mask, the timer and the refresh
bit between four tasks; a save that is triggered by a timer being exactly 1; one
message buffer behind a queue of pointers; one output buffer of the MQTT client
for three tasks; resets at any moment, with only flash surviving; counters whose
initial value is not their reset value; events of WiFi, MQTT and SmartConfig in
any order; a partition of flash that must survive a loss of power between any
two writes; ten sockets for all. `PROJECT.json` lists these under `hazards`, each at its line.

What makes each component correct:
- relay: no change is lost on its way to flash or to the pins;
- clock: a timer ends when it was set to end, or later if set again;
- key: one press, one toggle; credentials are erased by a long press only;
- led: the LED shows the speed it was given, at once and for as long;
- parseJSON and xMqtt: the last command wins, the server knows the mask;
- wifi, router, smart: the device ends up connected or provisionable, with
  credentials that belong together;
- nvs_flash: each call is atomic and durable, and flash can always be opened
  again;
- sockets: each is closed by the one who opened it, and there is one left for
  the MQTT client.

## The modules

### RelayControl, DurableMask

`RelayControl` models four tasks: key, relay, clock and the parser, as far as
they touch the mask, the save timer, the refresh bit, the pins and the NVS
blob. A step is one access to shared memory (`toggle_relay` is a read, a store
and an event bit; `if (S) S--` is a test, a load and a store; the save is a
clear, a copy and a write). Each task has its own program counter. `CanRun` is
the scheduler: a task steps only when no task of a higher priority is ready;
tasks of equal priority interleave. `Tick` ends the delays of one tick. Resets
(`PowerLoss`, `KeyRestart`) put all RAM back to its initial value and keep
`nvs`. Flash calls fail nondeterministically, as the code ignores the failure.
At a start that has a worse effect than a lost save (relay.c:116-120): when
`nvs_get_blob` fails for any reason, the code takes it that there is no blob and
writes the mask in RAM (0, or toggled by an early press) over the one in flash, so
that one failed read may lose it for good. `RelayLoad` has this step. A read
that destroys what it reads (a CRC mismatch makes NVS erase the item) is not modelled.
The scan of the button is abstracted to what it may report, which `KeyScan`
justifies: both reports at once only on the first scan after a boot.

`lost` and `undone` are history variables: `lost` records that a flash error
dropped a change or hid the stored mask, or that `delay_tick_init` cleared an armed timer; `undone` that
a command put back the latched mask before `relay_dispatch` had seen the change.
Both name a known weakness of the code, so that the properties say what holds
in all other cases.

`DurableMask` is the abstract promise: a current mask, a snapshot on its way to
flash, a durable mask. A device that starts has no current mask and takes the
durable one (`Restore`), or creates it (`Create`); only when a flash call failed
may it come up with another and overwrite what it could not read (`Unread`, noted in
`lost`). After that flash only takes what the mask was when a save began.
`RelayControl` implements it (`ImplementsDurableMask`): the current mask is there
once relay_task has loaded, and the snapshot is the copy between `RelayCopy` and
`RelayWrite`. One mutant does not read the blob, another does not copy the mask.

### KeyScan, Button

`KeyScan` has every static of `key_scan` and the reports, with the code's own
times (50, 300, 300, 5) in the runs. The environment moves the finger at any
time; the contact bounces after each move and may read as anything for one
scan. That bound (a bounce is over before the next scan, 10 ms later) is an
assumption about the hardware. `Button` is the abstract promise in terms of the
number of scans a press has lasted; `KeyScan` implements it. The branch for the
long click (key.c:131) is never taken: a press of 301 scans is a hold, and a
hold restarts the device.

On the ESP8266 GPIO 0 also selects the boot mode at reset; a button that is
already down then starts the loader instead. The first scan comes some hundred
milliseconds later, and what the model says of a button that is down at the
first scan is about a press in this time.

### LedStrobe

`led_dispatch` and `led_driver` are one step: those who set the speed have lower
priorities. `still` is a history variable, the number of scans at the current
speed since the LED last changed. `LedStrobe` is checked as a part of
`StatusLed` and proved on its own.

### CommandChannel

The MQTT task, the parser and `key_task`, the buffer `user_data`, the queue (a
number: all pointers are the same), the output buffer of the client. A step is
what a task does between two points at which it may block or be preempted by
another task of the module. `ParseRead` reads `user_data` as it is, or as any
message if it has changed since the pointer was taken. A write sends the output
buffer as it is when the write gets through, or fails. `told`, `missed`,
`wanted` and `toggled` are history variables. JSON is abstracted to three kinds
of messages: `update` (AT_UP_DATA with a mask), `sync` (AT____SYNC) and `msg`
(everything the parser drops). The save timer and the pins are in
`RelayControl`, where `CommandArrives`, `ParseStore` and `ParseArm` stand for
this module's `update`.

`mqtt_process_receive` looks at the first packet of a read only and drops what TCP
has delivered behind it: a command in such a place never reaches the program, and
is no message here. So `LastCommandWins` and `CommandsTakeEffect` speak of commands
that the client has dispatched, and a subscription counts as acknowledged
(`MqttSession`) when its SUBACK is the first of its read. A message that TCP delivers
in parts is dispatched in parts, neither of which the parser understands: two
messages `msg`.

### MqttSession

The station, its interface, the event loop with `event_handler`, the MQTT task
with its callback, and the server. Events are handled in the order in which
they were posted; `event_handler` for a lost link is two steps, since
`esp_wifi_connect` comes before the LED and the flag are set, and the driver may
already connect again in between. The parts of the SDK that decide the outcome
are modelled from their source: `esp_mqtt_task` (connect, process, wait and try
again), `tcpip_adapter_down`, the start of DHCP. The WiFi driver has no source;
it is assumed to report each link that it loses or cannot have once.

There are two who ask for a link. Beside `event_handler`, `sc_callback` disconnects
and connects at each SC_STATUS_LINK (`SmartDisconnect`, `SmartConnect`, with
everything else in between): for the link it has cut `event_handler` will ask again.
`smart` is where SmartConfig is; the session begins with stored credentials, or
with SmartConfig listening, which may find, time out and start over any number of
times, and may itself cut the link then. One thing is assumed of that library,
which has no source: it takes tens of seconds to give up a link, in which the event
task, of priority 10, has once worked off its queue (`SmartTimeout`).
`esp_mqtt_abort_connection` closes the connection and then calls back: two steps
(`Abort`, `MqttAborted`), in between of which `isConnect2Server` is still set.
`MqttSession` is checked as a part of `StatusLed` and proved on its own.

### StatusLed

`StatusLed` composes `LedStrobe` and `MqttSession`: whoever sets the speed calls
`set_led_strobe` in the step in which `MqttSession` says so, and `led_task` scans
between any two steps. `station` is what comes before the session: STA_START
with the medium strobe, then `TaskSmartConfigAirKiss2Net`, which connects with
what is stored, or starts SmartConfig with its fast strobe; what these two do to
the link from then on is in `MqttSession`.
So the properties speak of the pin, not of the speed that was asked for.

### Provisioning

`TaskSmartConfigAirKiss2Net`, `sc_callback`, `router.c` and the long press, one
call of NVS a step: a reset may come between any two, and each may fail. The
lock that NVS holds during `nvs_erase_all` (two steps, one entry after the
other) keeps the other calls out. At a start `routerStartConnect` opens, gets the
ssid and gets the password in three steps, and keeps the ssid in `found`. A network
stands for its ssid and password: two entries belong together when they are of the
same network. `Length` says how long they are, which decides what storing makes of
them. `wifi_config_t` has 32 and 64 bytes and no room for an end: the `strlen` of a
ssid of 32 bytes goes on into the password (`Chars`); with a password of more than 32
that overflows `data[65]` (`Overflows`; what is stored then, if anything, and how the
device goes on is open, and a restart may follow). `nvs_get_str` wants room for the end
too, so that such a ssid and a password of 64 bytes do not come back (`Fits`).
SmartConfig has no source: it may call back with what a phone sent, time out and start over, or
report that it is done (smart.c:182 also asks for `pdata == NULL`, as
`esp_smartconfig.h` allows; the task that calls back, `smartconfig_ack.c`, is in the
tree and always passes a pointer, so that this branch is left out). `spoiled` and
`held` are history variables: a save that failed, overflowed or was cut off, and a long press since SmartConfig was last started.
`KeyScan` has the same erasure as one step; there it matters only that it is
done before the restart.

### NvsStorage, DurableMap

The library of the SDK that both flash users rely on: `RelayControl` takes a
write of the mask as one step, and `Provisioning` takes a write of an entry and
the erasure of one entry as one step each, also when the power fails.
`DurableMap` states that promise, and `NvsStorage`, which models Storage,
PageManager and Page down to single writes of flash, implements it. Each
function of the library queues the flash operations it comes down to (`todo`);
`DoFlash` does them one by one; `PowerLoss` comes between two, `TornFlash` within
one, also while `nvs_flash_init` repairs what an earlier loss has left. What RAM
holds of a page is a function of its flash; the two lists of pages are
variables. Space is an issue in the runs: items do not fit, pages are moved and
freed, the partition is full.

What is assumed of flash: an operation succeeds while there is power; a word is
written whole or not at all; a page whose erasure was cut off is taken for a
corrupt one (see below); sequence numbers do not wrap (they are the order of the pages).
What is left out: reading a value, which follows from `KeysUnique` and
`ItemsWhole`; the numbers of the namespaces, which are entries like others;
iterators and `nvs_flash_deinit`. The hash list is taken to be exact, that is,
no two keys of a page have the same 24 bits of hash. `findItem` would go on searching
after a collision, but `mLoadEntryTable` (nvs_page.cpp:539-559), which looks for
an older copy of each item, compares hashes only and would erase the item of the other key.
The program has three keys and two namespaces of its own; the collision is not
modelled.

The assumption on erasures is stronger than the code makes sure of. `Page::load`
finds a page corrupt when the CRC of its header is wrong or, if the header is
blank, when one of the first four words of a line of eight is not
(nvs_page.cpp:56). An erasure that was cut off so that it left the header
as it was and damaged entries, or that left only words the test does not look at,
would be taken for a good or an empty page. Which cells an erasure clears
first is up to the chip; the model, and with it `WritesErasedFlash` and
`ImplementsDurableMap`, holds for those that damage the header, or leave a trace where the
test looks.

### LocalFind

The tasks of a device that is being provisioned by AirKiss, as far as they open
and close sockets: the acknowledgement of SmartConfig, `TaskCreatSocket`, the
transport of the MQTT client. The descriptors are those of lwIP as it is built
here, 54 to 63 (`LWIP_SOCKET_OFFSET`), given out from the lowest. Packets, their
contents and the errors that are ignored are abstracted away.

## The runs

| Run | Bounds | Shows |
|---|---|---|
| `relay_core` | masks up to 256, save after 2 ticks, restart after 1 | all safety properties of RelayControl, refinement of DurableMask, and that the last mask reaches flash and pins |
| `relay_settled` | one command, same delays | violated: finding 1 |
| `key_scan` | the code's times | reports, one toggle per press, a held button restarts |
| `key_erase` | the code's times | violated: finding 2 |
| `status_led` | half periods of 2, 10 and 20 scans | the timing of the LED, what the flag and the LED say, that the switch gets connected and the LED tells so |
| `channel` | two commands, queue of 2 | the last command wins, the MQTT task is never stuck |
| `channel_commands`, `channel_reports` | one command, queue of 2 | violated: findings 3 and 4 |
| `provisioning` | five networks, NVS may fail | credentials belong together and are read back as those in use |
| `provision_hold` | one network, NVS works | violated: finding 5 |
| `nvs` | three pages of four entries, three keys in two namespaces | every call of NVS is atomic and durable, refinement of DurableMap |
| `local_find` | the code's numbers | sockets are closed by those who own them and one is left for MQTT |

Why the bounds are enough. The mask matters through its two low bits, whether
it fits a byte, and whether two masks are equal: 0, 1, 3, 256 and the toggles of
these tell all cases apart. The delay of the save matters relative to 1 (the
deadline), 2 (the first value that is not it) and to the restart delay, which
may come before or after it; 2 and 1 are the least that have both, and let the
device restart while a countdown runs. The proofs are for all values. A queue of 2 has all
cases of empty, partly filled and full. `KeyScan` and `LocalFind` run with the numbers
of the code. `StatusLed` has the half periods of the code (10, 50, 100 scans)
divided by five, still longer than any wait for the clamp to matter; with the
periods of the code it passes too, in 1.1 million states and more time than is
worth spending again. Its session has no bound: the queue is unbounded and
`EventsBounded` shows that it stays short: eight events do occur, when SmartConfig
and the driver cut links while the event task is in `esp_wifi_connect`. In `NvsStorage` the least partition
that can be full and still move a page has three pages, one of them free; four
entries of which two share a word of the table, an item of four, one of three
and one of a single entry give items that fit a page, a rest of a page, or
neither, and states that take one word, two, or end within one. It was also
run with five entries a page, and with one state a word. The networks of
`Provisioning`, whose properties compare two entries at a time, are two that fit (with
31 and 63 bytes, the most that do), one whose password does not, one whose
ssid does not (with 32 bytes of password it just fits `data`), and one that overflows.

Fairness. `RelayControl`: the tick keeps coming, a publish ends (the client has
a network timeout), and all tasks are blocked again and again, since a scan
takes microseconds of a tick of 10 ms. `KeyScan`: the task runs on; it has the
highest priority and sleeps for a tick. `CommandChannel`: writes end;
the MQTT task runs when ready; the parser, of the lowest priority, gets the
processor again and again while it has work (strong fairness), since the tasks
above it block on the network, the queue and their delays. `StatusLed`: the
station is started, the LED is scanned on, each attempt to connect ends, the
tasks run, a server that can be reached answers. SmartConfig is under no fairness:
`ReachesServer` says what follows once it is over, or was never needed.
`Provisioning`: only the waiting task has to run; that phones come or that
SmartConfig succeeds is not assumed. `LocalFind`: only the MQTT client, whose
attempts and waits end; discovery may wait for ever, as it does when nobody
looks for the device. Its `MqttComesBack` is about a device that does not go on
restarting (`FindFallsOut`) with credentials it cannot read back.
Properties that something is finally saved
or shown assume that inputs end.

## Findings

1. `relay_settled`: a press that falls between the latch and the refresh of one
   scan is shown on the pins but not latched; a command that puts the old mask
   back before the next scan is then invisible, and the pins stay wrong until
   the next change.
2. `key_erase`: `LongKeyTimer` starts at 0, so that a button that is down at
   the first scan erases the credentials at once.
3. `channel_commands`: a command is lost when another message (a sync, or one
   that is ignored) overwrites `user_data` before the parser gets to run.
4. `channel_reports`: a report in the output buffer is overwritten before it is
   written (in the trace by an acknowledgement); a report of an old mask may
   also follow a newer one, since the mask is read long before the packet is
   built.
5. `provision_hold`: SmartConfig goes on during the 2.5 s between the erasure of
   the credentials and the restart; what it saves then is used after it.

More that need no run. The commands that `src/app/main/README.md:49-56`
documents, `{"msg": 1}` and `{"msg": 0}`, are dropped, since `Task_ParseJSON`
wants `AT_CMD` and `RelaySwitchMask`. `xMqtt.c:56` logs the subscription as
successful whatever it returned: when its write fails, the switch is connected
and reports, but hears no command until the next connection (`ReachesServer`
leaves this case open).

A ssid of 32 bytes, or a password of 64 (a key in hex), is used by the device that a
phone has sent it to, but cannot be read back (router.c:54-61 and 88-94): after
the next restart the device waits for a phone again. With 32 bytes of ssid and more
than 32 of password `router_wifi_save_info` writes past the end of `data`.
`StoresWhatItUses` holds for what fits, and its premise says so. A mask that
could not be read at a start is overwritten (relay.c:120, see `RelayControl`).
A command that TCP delivers right behind another packet is dropped
(mqtt_client.c:569-665, see `CommandChannel`).

`TaskCreatSocket` closes `sock_fd`, which nothing ever sets (smart.c:141), instead
of `sock_server`. With lwIP as it is built here descriptor 0 is no socket, so
that nothing is closed and one of the ten sockets stays open until the next
restart; `SocketsOwned` and `OneSocketEach` say that this is all. With
descriptors from 0 on it would be somebody else's socket (the mutant of
`SocketsOwned`). It answers 32 times where `COUNTS_BOACAST` is 30 (`counts++ >`,
smart.c:138), it sizes the buffer of `mbedtls_base64_encode` by the `strlen` of an
uninitialised array, so that it may end before it has answered anybody, and when
`recvfrom` fails it leaves the loop and then its function, which a task must not.

## The proofs

`RelayControl_proofs`. The inductive invariant is `TypeInv`: the types and
`Deadline`. While the clock is between its test, its load and its store, the
timer and the value it holds are at least 2; and the timer is 1 only while clock
and relay sleep, or while relay is on its way to the check that will see it. A
decrement therefore never starts from 1, and neither wraps (`CountdownBounded`)
nor skips the deadline (`OnlySaveEndsCountdown`). What makes it inductive is that
relay outranks clock: it has looked at the timer between any two steps of clock
to 1 and to 0. On top of it: `CopyFresh` (what is copied but not written is the mask or
the timer is armed) for `SavePending`, `BootPins` and `PinFollows` for the pins.
The refinement maps each step to one of DurableMask or to a stutter; the step that
loads the mask is a `Restore`, a `Create` or an `Unread`.

`KeyScan_proofs`. `Counters`: while the button is down `LongKeyTimer` and
`longKeyBuff` add up to `HoldTime`; a hold ends the scans, so that no release
sees more than `HoldTime`. The reports follow from it case by case. `Toggles`
says where a reported press may be while the contact settles.

`CommandChannel_proofs`. `OnItsWay` follows the last command from the buffer to
the mask; it needs that a buffer that changed under the parser will be read
again (`ReadAgain`).

The type invariant is proved part by part (`MasksOK`, `QueueOK`, `FlagsOK`,
`PlacesOK`), each inductive on the others.

`StatusLed_proofs`, about `LedStrobe`, `MqttSession` and their composition. Of
`LedStrobe`: the time left never exceeds the period of the speed it was loaded for;
the clamp does the rest. Of `MqttSession`: `Queues` says that the event queue is, behind
the event that is being handled, what is left of a link that was lost (`s`), all of
another (`m`) and what there is of the present one (`t`), each of at most four events
(`Closed`, `Open`). There is never a fourth part because there are never more than
two requests for a link: each link uses one up, `event_handler` makes one for each
`lost` it handles, and `sc_callback` one more, but only when the queue has been
empty since its last one. `Rules` is that count, together with what addresses
add: no address outlives its link, so that a link gets one `got_ip` for each time
its interface came up. It holds whatever the lengths; that they sum up to eight at
most (`QueuesShort`) needs that the longest parts do not occur together.
`ReportsOnlyWhileConnected` is inductive by itself. The composition is proved from
its parts: a step of the whole is, for `MqttSession`, a step or a stutter
(`SessionMoves`), and for `LedStrobe` one too (`StrobeMoves`, `StatusIsStrobe`), so
that the invariants of both hold of the whole without being proved again.

`LocalFind_proofs`. `Places` says who holds a descriptor at which place of his
task, and that discovery starts once, before which it has opened nothing;
`Each` and `Owned` relate the table of lwIP to the holders in both directions.
They need each other: an open keeps them because what is free is held by nobody,
a close because two users never hold the same descriptor.

`Provisioning_proofs`. The inductive invariant says what flash holds at each
step of a save and of an erasure, unless a save was spoiled (`Saves`): two equal
entries or a missing one, except between the two writes, where the ssid is the
new one or has been erased; after the writes, what the station uses. That it is
read back follows for what fits, whatever `Length` is. An erasure
takes entries away and never adds one. `Reading`: the ssid that has been read is
the one in flash while the password is read, since only a long press comes between. `Using`: from the callback on, the station
uses what the phone sent last. `Phases`: a done bit means that the callback came.

`NvsStorage_proofs`. The inductive invariant `PagesInv` is about pages as wholes
(and has been checked by TLC on the run before it was proved).
`Headers` says what holds of flash whenever the power fails: one page at most is
ACTIVE and it is the last one by sequence number, one at most is FREEING, and
while one is FREEING there is another page without items. `Phases` says which
pages the two lists hold in each phase and what may be left to do. What is left
has one of a few shapes: writes inside pages (`Plain`), a header first
(`Opening`), a page marked as full (`Closing`), a page erased before it is used
(`Wiping`), and a page moved: marked (`Marking`), copied and erased
(`Freeing`), or started again after a power loss (`Redoing`). Each step of
`DoFlash` leads from a shape to what follows it, so that every power loss
between two writes or within one finds flash as `Headers` has it. From this:
`NvsTypeCorrect`, `NeverOutOfPages` (a start never fails for want of a page, on
which `app_main` would erase the partition), `OneActivePage`, and
`HeadersAreWrittenOnce`, the half of `WritesErasedFlash` that is about headers.

Over it stands `DataInv`, about the entries of the pages. The pages that count
are `Kept`: not the one into which another is being moved, since a start erases
that one. A page is `Sound` when its items do not overlap, each WRITTEN entry
belongs to one, each item is whole, and the page that takes writes has nothing
programmed behind what its table knows of. A power loss leaves less than that,
and how much less is what makes the invariant inductive: kept pages are always
`Steady`, which means that items still do not overlap and that what the table
does not know of is what one write began (entries of one item whose header is
written, or one header that `Page::load` can see). Between two functions they are
sound; within one, `todo` makes them so: `Erasing` (a start, the old item, or
`nvs_erase_all`: no item loses some of its entries only, its header goes after
the others), `Writing` (one item into the room behind the rest: header programmed,
marked, then the parts), or `Moves` (the new page becomes a sound one by the
writes left, each entry programmed once). `ErasingStep`, `WritingStep` and
the like are one lemma for each kind of step; `LoadPagesErase`, `ItemWriting`
and `FreedMoves` say that what the library queues has these shapes. From this:
`OnlyWholeItems` (what a start leaves behind are whole items, so that the move of
a page drops nothing) and `OnlyErasedFlash` (no write hits what a power loss left
behind). Without the erasure of half-written entries in `mLoadEntryTable` the
second fails, as its mutant shows.

The third level, in `NvsKeys_proofs`, is `KeyInv`, about keys that are in flash
twice (`Twins`), which they are whenever a value is being replaced, and may still
be after a power loss. Two facts hold of flash always. `Recoverable`: of two whole
items with the same key one is the last item of the page that takes writes; that
is the item for which `PageManager::load` looks for an older copy. `Shadow`: while
a page is FREEING, the page that takes writes has keys of that page only; so
moving it again from the start loses nothing. The rest says, phase by phase, that
what is left to do takes one of the two away: the erasures that `Page::load` has
queued leave no twins within one page (`SinglePages`), those of
`PageManager::load`, of the end of a move and of `eraseItem` leave none at all
(`SingleAfter`), the copies of a move are the items of the page that is then
erased (`KeyMoves`), and `findPage`, which the code reads before the new item is
written and uses after it, still is where the old item is, even if a page was
moved in between (`Finds`). From this: `OneOfEachKey`.

The functions of the library concatenate the writes for each entry or each page
(`FlattenSeq`), and a scan of a page depends on what it read before (`Visited`).
The induction this needs is done by hand, from the least number for which a claim
would fail (`Least`): there is a sequence of the partial concatenations
(`JoinedExists`), it is the only one, and its last member is what `FlattenSeq`
returns (`FlattenSteps`); a set that satisfies the equation of `Visited` is built
the same way (`VisitedIs`). The other lemmas about operators say what the
library's functions do to the lists of pages (`FirstIsThere`, `WithoutRange`,
`InOrderRange`, `AppendRange`).

The assumptions are those of the constants: commands are natural numbers, the
save delay is 2..65535, the other delays are positive, `HoldTime` is at most
`LongTime` (both 300 in the code), periods are bytes, the queue has room for one,
there are more descriptors than sockets, so that 0 is none of them, ssids have at
most 32 and passwords at most 64 bytes, and in
`NvsStorage` there are two pages at least, every value fits into a page, and `None`,
which stands for the null pointer, is neither a value nor a page.

Only model-checked: all liveness properties, also `SmartConfigStops` and
`HoldRestarts` (fairness is out of the prover's reach), the violations, and of
`NvsStorage` the refinement `ImplementsDurableMap`. That needs a fourth level: of
the twins a power loss leaves, which one the next start keeps.

## Not modelled, and the plan

What could be added:

1. `SmartSwitch`: Provisioning, StatusLed and KeyScan composed over one flash:
   what a long press does to a connected switch. The parts meet in few places
   (the credentials, CONNECTED_BIT, the restart), which each module has as an
   environment action; the composition has too many states for TLC without a
   coarser `Provisioning`.
2. `Session`, the abstract promise of MqttSession and CommandChannel together
   (connected or trying; reports in order). It needs `CommandChannel` without the
   weaknesses of findings 3 and 4 to be worth stating.
3. That the save wins against the restart: 200 ticks against 250, with a press
   and a hold in one scan schedule. `ImplementsDurableMask` allows both orders.

What is left out of components that are modelled in part: `sntp_task` and
`obtain_time` wait for SNTP without a limit, and nobody uses the time;
`wifi_init_config` and the start of the tasks happen once, in one order; a second
GOT_IP before the MQTT task has created its client would use a null handle
(wifi.c:77), but takes a loss of the link, a new one and DHCP within the
milliseconds in which the new task runs first; a task or a queue that cannot be
created for want of memory. `common.c` (`itoaa` and two more) is called by nobody.

Nearly all of the tree is the vendored ESP8266_RTOS_SDK: of its 600 thousand
lines the program itself has 2,400. FreeRTOS, lwIP, mbedTLS, WPA, mDNS, the
console, the drivers and the tools are other programs, most of which this one
never calls (there is no TLS, no mDNS, no console in it). A share of the whole
tree that would mean anything would be a model of them and not of the switch, and
is not attempted. What the switch rests on and what decides whether it works is
modelled from the source of the SDK: the storage (`NvsStorage`), the sockets
(`LocalFind`), the states of the MQTT client and the event loop (`MqttSession`),
its output buffer (`CommandChannel`), the scheduler (`RelayControl`).

Not planned either: log output, and the airkiss and WiFi libraries, which come
without source. What a call of the SDK may do is taken from how `src/app` uses it
and, where the outcome depends on it, from its source
(`components/mqtt/esp-mqtt/mqtt_client.c`, `components/tcpip_adapter`,
`components/esp_event`, `components/nvs_flash`, `components/lwip`,
`components/tcp_transport`).
