# A verification of the hamster wireless keyboard and its USB dongle

TLA+ modules, TLC runs and TLAPS proofs for the firmware under `src/tlsdk`: a
battery-powered 2.4 GHz keyboard (`__PROJECT_REMINGTON_KEYBOARD__`, chip 8368) and
the USB dongle it talks to (`__PROJECT_DONGLE__`, chip 8366, which also serves a
mouse). Paths below are relative to `src/tlsdk`.

## 1. The system

### 1.1 Parts, their state, their operations

| Part | Files | State | Operations |
|---|---|---|---|
| Host frequency hopping | `vendor/link_layer/rf_ll.c`, `rf_ll.h` | `chn_mask` (two channels), `host_channel`, `ll_chn_sel`, per-channel hit counters, hold time, `frq_hp_mode` | tick of timer 1 (`irq_host_timer1`: choose the other channel, `update_channel_mask`, `frq_hopping_mode_switch`), reception (`irq_host_rx`) |
| Keyboard main loop and lock key | `vendor/keyboard_remington/kb.c` | `kb_status.kb_mode`, `kb_is_lock_pressed`, `kb_lock_status` | `user_init`, `main_loop`, `kb_lock_func` |
| Keyboard radio | `kb_rf.c`, `kb_rf.h` | `pkt_km`, `km_dat_sending`, `kb_tx_retry_thresh`, `pipe1_send_id_flg`, `no_ack`, `mode_link` | `kb_paring_and_syncing_proc`, `kb_rf_proc`, `device_send_packet`, `irq_device_rx`, `rf_rx_process` |
| Keyboard power | `kb_pm.c`, `kb_info.c` | `kb_sleep.mode` and counters, the registers that survive deep sleep | `kb_pm_proc`, `kb_slp_mode_machine`, `kb_info_save`, `kb_info_load` |
| Key matrix | `proj/drivers/keyboard.c` | ring of matrices, `keyEvt_buf`, debounce and ghost-key state | `kb_scan_key`, `kb_remap_key_code`, `key_buf_merge` |
| Keyboard LEDs, battery, factory modes | `kb_led.c`, `kb_batt.c`, `kb_emi.c`, `kb_custom.c`, `kb_test.c` | blink counters, filtered voltage | called once per loop |
| Dongle dispatch and callbacks | `vendor/dongle/dongle.c` | `custom_binding`, `binding_device`, `seq_no_keyboard`, types of the prepared answers | `rf_rx_response`, `callback_pairing`, `callback_mouse`, `callback_keyboard` |
| Dongle configuration | `dongle_custom.c`, `dongle_emi.c` | binding table in OTP or flash, pairing mode and timer | `custom_init`, `set_device_id_in_firmware`, `paring_time_check`, `usb_host_cmd_proc` |
| Dongle suspend | `dongle_suspend.c` | `resume_host_flg` | `suspend_and_wakeup`, `usb_resume_host` |
| USB keyboard reports | `proj/app/usbkb.c` | `usbkb_not_released`, report time, `last_data` | `usbkb_hid_report`, `usbkb_release_check` |
| USB mouse reports | `proj/app/usbmouse.c` | ring of mouse frames, smoothing, button debounce | `usbmouse_add_frame`, `usbmouse_report_frame`, `usbmouse_hid_report` |
| USB control | `proj/drivers/usb.c` | control transfer, suspend | `usb_handle_irq` |
| Containers | `proj/common/mempool.c`, `mmem.c`, `ringbuffer.h`, `list.c` | | |
| BLE link layer | `proj_lib/blt_ll` | connection state | nothing here calls it |
| Chip support, AES, other drivers | `proj_lib`, `proj/mcu*`, `proj/drivers` | | registers and tables |

### 1.2 How they interact

```
 key matrix -> kb_scan_key -> kb_lock_func -> kb_rf_proc -> device_send_packet
                                                   |  frame        ^ answer
                                                   v               |
   dongle, radio interrupt:  irq_host_rx -> rf_rx_response (queues the answer)
                                                   |
                              callback_pairing / callback_keyboard / callback_mouse
                                                   |
                              usbkb_hid_report     |    usbmouse_add_frame
                                    |              |          |
   dongle, main loop:    usbkb_release_check   usbmouse_report_frame
                                    |              |
                            keyboard endpoint, mouse endpoint -> USB host
   dongle, timer interrupt: irq_host_timer1 (hops, rewrites chn_mask; the mask
                            travels to the keyboard in every answer)
```

Keyboard: one loop, every 12 ms, and an interrupt that only runs inside its own
transmission window. Dongle: radio and timer share one interrupt handler that does
not nest; the main loop runs beside it without locks. The two sides share nothing
but frames and answers, any of which may be lost. The keyboard forgets its RAM in
deep sleep (all but the link and the lock, which `kb_info_save` puts into
registers), the dongle forgets everything when unplugged (with automatic pairing).

### 1.3 What is hard, and what makes each part correct

* **Hopping.** The mask is rewritten while it is in use, from counters, silences
  and two modes. Correct: two distinct channels, counters booked on the right one,
  the channel in use survives, a silent dongle comes by every channel.
* **Link.** Lost frames, lost and stale answers, retries on three levels, restarts
  of either side, an eight-bit sequence number, an id that shares bytes with
  keycodes. Correct: a key report is typed at most once, in order, and is called
  delivered only if it was; the binding is stable; no budget drops a report early.
* **Power.** Correct: no transmitting into a dead link for ever, no state that
  neither sends nor sleeps.
* **Meeting on a channel.** The keyboard follows a mask it was told of while the
  dongle rewrites it; its search and the dongle's alternation may be in step.
  Correct: a burst that starts from a shared mask gets through, and after any outage
  the two meet again within a bound.
* **Power.** A blinking LED keeps the keyboard awake, and a low battery makes it
  blink. Correct: unused, it sleeps; in use, it does tell of the battery; the LED ends
  dark and tells the truth about pairing.
* **USB reports.** An interrupt and a main loop write the same endpoints and the
  same bit set, and advance the same pointer of the ring of mouse samples. Correct: no
  key or button stays down on the host, samples are sent once and in order. For keys
  the code does not keep this where the two meet (finding 2).
* **Key buffers.** Ghost keys, debouncing, overwriting and merging rings while the
  link is down. Correct: no key is reported that is not down, the last report tells
  what is down now, and nothing but a stuck buffer loses what was typed.
* **Binding in flash.** Power loss and failed verification between bytes. Correct:
  the dongle answers only to devices that were paired with it.

The list of hazards with source lines and the properties that cover them is in
`PROJECT.json`.

## 2. Modules

| Module | Models | Role |
|---|---|---|
| `HostHop` | hopping of the dongle | component |
| `HostHopProofs` | | theorems about `HostHop` |
| `KeyDelivery` | what a typist may expect of the link | abstract specification |
| `KbLink` | one keyboard and its dongle: `kb.c`, `kb_rf.c`, `kb_pm.c`, `kb_info.c`, `dongle.c` | composition; implements `KeyDelivery` |
| `KbLinkProofs` | | theorems about `KbLink` |
| `UsbKb` | keyboard reports to the USB host: `usbkb.c` with the shared endpoint of `usbmouse.c` | component, two contexts |
| `UsbKbProofs` | | theorems about `UsbKb` |
| `BindingStore` | what the table of paired devices promises | abstract specification |
| `PairFlash` | that table in OTP memory or flash: `dongle_custom.c`, the pairing half of `dongle.c` | component, two contexts; implements `BindingStore` |
| `PairFlashProofs` | | theorems about `PairFlash` |
| `KeyBuf` | from the key contacts to the reports: `proj/drivers/keyboard.c` | component |
| `KeyBufProofs` | | theorems about `KeyBuf` |
| `UsbMouse` | mouse samples to the USB host: `usbmouse.c`, `callback_mouse` | component, two contexts |
| `UsbMouseProofs` | | theorems about `UsbMouse` |
| `ChannelSync` | `HostHop` with the channel choice of the keyboard, `kb_rf.c` | composition; EXTENDS `HostHop` |
| `ChannelSyncProofs` | | theorems about `ChannelSync` |
| `KbIdle` | manual pairing, LED, battery warning and sleep: `kb_led.c`, `kb_batt.c`, `kb_pm.c` | component |
| `KbIdleProofs` | | theorems about `KbIdle` |
| `MCHostHop`, `MCKbLink`, `MCUsbKb`, `MCPairFlash`, `MCKeyBuf`, `MCUsbMouse`, `MCChannelSync`, `MCKbIdle` | | instances for TLC |

Operators marked `mutant` in a module are deliberately wrong variants of the
operator that follows them: a plausible slip in the code. Each one makes TLC refute
the property `PROJECT.json` pairs it with, which shows that the property notices.

### 2.1 HostHop

`mask` is `chn_mask` as a function of the nibble, `chan` is `host_channel`, `sel` is
`ll_chn_sel`, `pkt` is `ll_chn_pkt`, `hold` is `ll_chn_hold`, `selChg` is
`ll_chn_sel_chg`. `HostTimer` is the whole of `irq_host_timer1` with the functions
it calls, `HostRx` is `irq_host_rx` with what `rf_rx_response` notes. Time is counted
in ticks of timer 1: `idle` stands for the age of `tick_fh`. `MouseAges` is the five
seconds of `MOUSE_PKT_5S_NO_COME`. `heard` distinguishes "more than one" because the
code counts a hit only when exactly one frame came in the slot. Left out: the debug
beacon and the debug variable `chn_mask_fix`.

### 2.2 KbLink and KeyDelivery

One loop of the keyboard is cut where the world can interfere: `Loop` (scan, lock,
pairing and the first half of `kb_rf_proc`), then one step per transmission of
`device_send_packet` (`TxLost`, `TxPairing`, `TxKeyboard`), then one of `Suspend`,
`WaitDeep`, `DeepSleep` (`kb_pm_proc`). The dongle answers inside the window of the
transmission, so frame, callback and answer are one step, and a value of `Fate` says
what became of the answer: lost, received but carrying the tick of the answer before
(`irq_device_rx` does not take it for an acknowledgement), or received. The answer
may go out before or after `callback_keyboard` changes its type, and `TxKeyboard`
allows both. `Wake`, `BatteryChange`, `Replug` are the restarts.

Abstractions. A report is a kind (`zero`, `narrow`, `wide`, `lock`) and a running
number `ev`; kinds are told apart because the id lies over keycodes 2 to 5 and the
lock key toggles the lock. `STATE_SYNCING` and `STATE_PAIRING` differ only in flags
of the pairing frame and are one mode (`KbIdle` tells them apart). Which channel is
used is left to `ChannelSync`: here a frame on the wrong channel is a lost frame.
Scans (a key is down or not, a new report or not; `KeyBuf` has them), LED activity
(`KbIdle`) and signal strength are free choices. `tx_retry` is a
constant although the code raises it to 5 when the link is lost: the number of
transmissions of a loop plays no part in the properties.

`KeyDelivery` knows three things: how many reports were handed in, which of them the
host has received since it was plugged in, and which one was confirmed last. A report
may be left out, but not repeated, reordered, or confirmed without being there. The
refinement maps `popped`, `log` and `acked` to them. It allows one exception, a
confirmation at a host that has received nothing: `callback_keyboard` skips the first
report after the dongle is plugged in if its number happens to be 0, the value
`seq_no_keyboard` starts with.

### 2.3 UsbKb

The interrupt (`Frame` up to the report of the normal keys, then `FrameRest` for system
and media keys) and the main loop (`MouseTest`, `MouseWrite`, `ReleaseCheck`, and per
class the test of the bit, the test of the endpoint, the write, and the load and store
of `BM_CLR`) take turns. The main loop does not move while the interrupt is active; the
interrupt comes between any two steps of the main loop, as no code masks it there. The
host fetches reports at any time, also between two writes of the interrupt. The timeout
is read once in a pass of the main loop, and a pass takes far less than its 200 ms, so
`Expire` falls between two passes.

A write of the main loop is one step, `Put`, although the code writes byte by byte. If
the interrupt has written to the endpoint since the main loop found it free (`mixed`),
two outcomes are allowed: it came before the first byte and its report is overwritten, or
later, and its report stands; the bytes still to come then go behind it and are not taken
for a report. `crossed` is a history variable. It holds the classes whose last report met
the other context: written by the interrupt between the busy test of the main loop and
the end of its `BM_CLR`, or by the main loop into an endpoint that is `mixed`. A later
report of the class that meets nothing takes it out again, and so does a reset of the bus.

What holds in spite of the races is stated relative to `crossed`: `StuckOnlyIfCrossed`
and `ReleasedUnlessCrossed` leave out those classes and no others, `LostOnlyIfMixed` a
report written into an endpoint the main loop had tested. What does not hold is
`AllReleased`, the promise of `usbkb.c:126` without exception (finding 2).

Left out: suspend (the main loop then sends nothing), a host that disconnects, the
repeat filter over `dongle_send_release_flg`, which can never run because
`last_normal_key_cnt` is always 0, and `usbkb_report_frame`, whose ring nothing fills.

### 2.4 PairFlash and BindingStore

`slots` is the memory from `DID_PARING` on, `idx` is `custom_binding_idx`, `binding`
is `custom_binding`, `open` is `rf_paring_enable`, `enabled` holds the types whose
`mouse_paring_enable` or `keyboard_paring_enable` is set, `ok` is
`host_cmd_paring_ok`, `working` the types for which `binding_device` is set. A byte is
the set of its bits that are one, erased is all of them, and programming takes bits
away. `PairingFrame` is `callback_pairing` up to the call of
`set_device_id_in_firmware`, `Program` one byte of it, `Verify` its comparison and the
rest of `callback_pairing`. `HostCommand` and `OpenWindow` are the steps of
`usb_host_cmd_proc`, between which the radio interrupt may come; `TimeCheck` is
`paring_time_check`. `Restart` is a loss of power at any time, also between two bytes,
followed by `custom_init`. While the interrupt handler runs (`irq # "idle"`) the main
loop does not move.

`Weak` says whether programming may leave a bit uncleared; a loss of power within the
programming of one byte is not modelled otherwise. `junk` is the uninitialized
`cavy_rssi_pair`. Signal strength and the power-on flag of a frame are free choices.
Left out: the golden dongle, the other bytes of the customization area, `auto_m2`
pairing (automatic pairing is in `KbLink`).

`BindingStore` knows what a restart would serve and what is served now. A device is
served only after it has been stored, and while one type is being stored a restart may
find anything for that type but nothing new for the other. The refinement maps
`stored` to what `custom_init` would read from `slots`, and `served` to `binding`.

### 2.5 KeyBuf

One action, `ScanKey`, is a whole call of `kb_scan_key`; `Touch` is the typist. `down`
is what is physically held, `Wired` what the contacts then show (with three corners of
a rectangle closed the fourth reads as closed), `Clean` what `kb_rmv_ghost_key` leaves
of it. `pre` and `last` are `mtrx_pre` and `mtrx_last`, `rel` is `release_cnt`, `same`
is `data_same_cnt`, `ring` is `matrix_buff` between its pointers, `buf` is
`keyEvt_buf`, `told` the `kb_event` last returned to be sent. What the caller brings
(the host status known or not, locked or not, `read_key`, num lock) is a free choice
in every scan; `KbLink` has where it comes from. A key map is a constant: a key has a
code or a modifier, for each state of Fn and num lock. Left out: the lock key (it is in
`KbLink`), the keys that switch between layouts, and the variants of the scan for other
boards. Merging is modelled as the code does it, from the oldest pair to the youngest.

### 2.6 UsbMouse

The interrupt (`Frame`, then one `AddSample` per sample of the frame, with
`mouse_button_debounce` in it) and the main loop (`Report`, `Send`, and the load and
store of `usbmouse_rptr` as two steps, then `Release`) take turns as in `UsbKb`. When
the ring is full the interrupt advances `usbmouse_rptr`, too. Samples carry their
number, so that order and loss can be told; of their contents only matters whether a
report says "no button, no motion". The radio interrupt brings at most one frame
during a pass of the main loop: frames are milliseconds apart, a pass takes
microseconds. Left out: suspend, a disconnected host, and what the smoother makes of
the motion (a sample that moves stays one that moves).

### 2.7 ChannelSync

The module extends `HostHop` and adds the keyboard's side: `known` is its
`ll_chn_mask`, `devChan` its `device_channel`, `miss` its `ack_miss_no`. `Loop` starts
`device_send_packet`; `Answered` is a transmission whose answer brings the mask and
stops the burst, `Missed` one without, after which the keyboard goes to the other
channel of its mask, or walks on when it has none. `Tick` is `irq_host_timer1`, that is, `HostTimer` of `HostHop`.

Time. A loop of the keyboard takes 12 ms, a slot of the dongle 8 ms, so one and two
ticks in turn fall between two loops. Where in the burst a tick falls depends on two
clocks nobody locks; the model lets it fall after any number of transmissions
(`phase`), chosen anew each time. An outage (`kind`) loses frames, or answers only, or
is a keyboard with nothing to send, which may fall into deep sleep and forget the mask.
An answer that repeats the tick of the one before counts as lost.

### 2.8 KbIdle

A pass of `main_loop` is `Pass` (scan, lock key, pairing, the outcome of sending, LED,
battery) and then one of `Suspend`, `WaitDeep`, `DeepSleep` (`kb_pm_proc`). `led` is
`kb_device_led` with its times in loops; `detect` and `batt` are `batt_detect_cnt` and
`batt_det_count`; `age` is `loop_cnt` while it matters. The tables and thresholds are
constants; the assumption keeps of them what the code has: the patterns for the end of
pairing and for its success have a higher priority than its blinking, and manual
pairing (10 s) ends before quick sleep is allowed (20 s). Whether the battery is low is
a free choice that lasts until it is changed; the converter is left out. Answers, keys,
lock key and ESC with Q are free choices in every loop, but a key pressed while the
host status is unknown gives a report at once, as `kb_scan_key` does.

## 3. Runs

| Run | Shows | Bounds |
|---|---|---|
| `MCHostHop` | types, two channels, counters, alternation, the channel in use is spared, silence sweeps all eight channels | from a custom mask with an odd channel; thresholds 4/5 packets instead of 8/10, difference 1/4 instead of 2/8, hold 1 tick instead of 4, silence after 2/3 ticks instead of 15/375 |
| `MCKbLink` | the safety of the link, the refinement of `KeyDelivery`, and that the keyboard stops transmitting into a dead link, leaves `STATE_WAIT_DEEP`, hands over its id | 2 key reports, 1 restart of the keyboard, 2 of the dongle, `seq_no` modulo 3 |
| `MCKbLinkIdAsKeys` | violation, finding 1 | 2 reports, no restart |
| `MCUsbKb` | interrupts anywhere: a key is down without its bit, a report written over, or a key left by the timeout only where interrupt and main loop met | one report of each class of keys, all frames, interrupts between any two steps |
| `MCUsbKbRace` | violation, finding 2 | the same without a system key |
| `MCPairFlash` | types, every byte programmed once, the counter for the host, a restart finds what the dongle is bound to, the refinement of `BindingStore` | 2 slots, ids of two bytes of two bits, 3 devices, both pairing types, sound cells |
| `MCPairFlashFull` | violation, finding 3 | software pairing, 2 devices, sound cells |
| `MCPairFlashFar` | violation, finding 4 | manual pairing, 2 devices, sound cells |
| `MCKeyBuf` | types, the newest entry of the buffers is the state of the keys, releases are noticed, no ghosts, only stuck buffers lose, held keys are told at last | 4 keys (two letters, a modifier, Fn), ring and buffer of 2, 2 keys a report, 3 moves of the typist |
| `MCUsbMouse` | samples once and in order, nothing stays pressed without its timeout, a silent mouse ends still | ring of 4, frames of 1 and 2 samples, 6 samples |
| `MCChannelSync` | one burst is enough from a shared mask; after an outage the two meet within 22 loops of clear air | all eight channels, a custom mask with an odd one, 2 outages of up to 9 loops, search after 9 misses instead of 60, silence after 6/12 ticks |
| `MCKbIdle` | an unused keyboard sleeps, the LED tells the truth and ends dark, a low battery is told | times shortened in the order the code has; the pairing pattern blinks 6 times, the signs of success and of a low battery twice, the others once |

Why the bounds are enough. The constants of `KbLink` keep the order the code has:
`NoLink < RetryThresh` (400 < 1024), `SilenceLoops < BasicLoops` (1 s is 84 loops of
12 ms, below 166), `1 < LongLoops` (19). The behaviour depends on which budget runs
out first, not on how long it takes; the proofs hold for all values that satisfy
`LinkAssumption`. Two reports, the empty ones between them and a sequence number modulo
3 let a number come back while an old report is still in the dongle's memory;
`MaxBoots` of 1 and `MaxReplugs` of 2 give a restart of either side before, between and
after the reports, and both in either order. The second matters for `IdHandedOver`: a
dongle has to be plugged in once to ask at all, and once more for the keyboard to lose
the request, as the new dongle answers before it asks. `MaxEvents` matters for `IdHandedOver`: a typist who never stops sending
wide reports can hold the id back as long as he types, because a new wide report
needs the bytes; the bound says that typing pauses. In `HostHop` the eight channels
are not cut; the thresholds and times keep their order, and the proofs hold for all
values. `UsbKb` has no counters. In `PairFlash` two slots let the table be
empty, begun, half full and full, and let one type be stored before and after the
other; two bits of a byte are the one that tells the type and one that does not; the
proofs hold for every size. In `KeyBuf` buffers of two fill, merge, stick and drop
within three moves of the typist, and four keys make the one rectangle a ghost needs.
In `UsbMouse` six samples wrap a ring of four and overrun it. `ChannelSync` keeps all
eight channels and two outages, the second while the first has just been overcome; the
outage may last until the dongle has hopped and the keyboard has begun to search.
`MeetsSoon` depends on the shortened times and is no bound in milliseconds: its value
is that there is one. In `KbIdle` what matters is the order of the times: a judgement
of the battery comes later than warning and idling together take (400 loops against
120 + 166), and `SilenceLoops < BasicLoops`.

The type invariants of `UsbMouse`, `ChannelSync` and `KbIdle` are proved and not run
again; TLC checked them while the modules were written.

Some runs do not check for deadlock. In `KbLink` a keyboard in deep sleep whose user
never comes back, with the bounded restarts used up, stays there; in `KeyBuf` nothing
is scanned while no key is down; in `UsbMouse` nothing happens once the mouse is silent
and the ring empty.

### Fairness

* `HostHop`: timer 1 keeps ticking (`WF(HostTimer)`), a hardware timer.
* `KbLink`: the processor keeps running its loop, and a transmission ends (it is a
  loop with a fixed number of windows of 550 µs). Nothing is assumed of the radio,
  the user, restarts or the dongle; the liveness properties carry their own
  assumptions ("no acknowledgement any more", "keys up").
* `UsbKb`: the main loop keeps running, the host polls its endpoints, and time passes
  (`SF(Expire)`: the timeout is asked for between two passes, again and again). Nothing is
  assumed of frames or the mouse, nor of the interrupt handler; that frames and mouse
  fall silent in the end is the antecedent `Quiet` of the two liveness properties.
* `KeyBuf`: the main loop keeps scanning (`WF(ScanKey)`). That the radio takes a report
  now and then, and that the typist holds still, are antecedents of `HeldIsTold`.
* `UsbMouse`: a frame that has come is added, the main loop runs, the host polls, and
  time passes (`SF(Expire)`: the timeout starts anew with each report, and is due again
  and again only if reports keep coming). Nothing is assumed of the mouse.
* `KbIdle`: the processor runs its loop (`WF(Run)`, `WF(Pm)`). Nobody has to press a
  key, and no frame has to be answered.
* `ChannelSync`, `PairFlash`: none, their properties are safety; `MeetsSoon` counts
  loops instead.

## 4. Proofs

All theorems hold for every value of the constants that satisfies the assumption of
the component (`HopAssumption`, `LinkAssumption`, `UsbAssumption`, `PairAssumption`,
`KeyAssumption`, `MouseAssumption`, `SyncAssumption`, `IdleAssumption`). Two more are
used by one theorem each: `SilenceAssumption` (`HopSweeps`; the counters a silence
pretends differ by enough for a hit, 2 < 8 and 8 < 10) and `LengthAssumption`
(`IdleUnusedSleeps`; the sign of success is the longest pattern, and a battery warning
with the idling after it is over before the voltage is judged again, 120 + 166 < 400).
TLC evaluates all of them for the instances.

**HostHop** (`HostHopProofs`). The five invariants and action properties follow from
`IInv`, the conjunction of the invariants with one strengthening: the counter of the
nibble just left is strictly below the ceiling. `CountersFit` alone is not inductive,
since a tick increments that counter before it compares. The lemma about
`Replacement` (it differs from both the old channel and the one in use) carries
`TwoChannels`.

`HopSweeps` is the variant behind `SilenceSweepsAll`. `Steps(a, c)` is the number of
hops from channel `a` to the even channel `c`, from the walk of `LL_NEXT_CHANNEL` by
three of the eight. In silence, at each tick that does not listen on `c`, one of three
numbers falls and those before it stay: hits counted before the silence that may still
replace the other nibble (at most one such hop), the hops until `c` is in the mask, the
ticks until the next hop or, with `c` in the mask, until the dongle is on it. A hop may
land on the channel in use and skip it, which shortens the way, too (`HopNears`). The
theorem says so of every step and every threshold; that the ticks do come is the
fairness of `SilenceSweepsAll`, which TLC checks.

**KbLink** (`KbLinkProofs`). `IInv` has, beside the types:

* `Numbering`: the report in the packet is the newest one, the log holds nothing
  newer, and once the host has that report the dongle remembers its number;
* `InStep`: while the host status is known, nothing is being sent and the dongle has
  passed something on, the dongle's number is the keyboard's. Real keys are read only
  in such states (`Forced` and `read_key` in `kb_scan_key`), and the next one gets the
  next number;
* `FreshSequence` itself, which these two make inductive: after a restart the first
  frame is the forced empty report, because the host status is unknown, so the number
  the dongle remembered from before is replaced before a real report is numbered;
* `Budget`: while a report is being sent, loops left plus loops without answer cover
  `RetryThresh`, from which `NeverGivesUp` follows as `NoLink < RetryThresh`;
* `Idling`, `Quiet`: loops without radio make the host status stale before they lead
  to long suspend, a key pressed with a stale status forces a report, and a lock key
  held down counts as activity, so no path leads into `STATE_WAIT_DEEP` with a living
  link;
* `AskOnlyUnbound` (the dongle asks for an id only while it knows none, which makes
  `BindingStable` hold on the path over the data pipe), `WaitDeepOnlyWhenLost`.

`LinkDelivers` maps each step to `Submit`, `Exchange` or `Replug` of `KeyDelivery`, or
to a stutter; the transmission steps need `InStep` and `FreshSequence` to show that a
skipped frame is one the host has, and a frame passed on is one it has not. What
`KeyDelivery` is worth is proved of it alone: `DeliveryInOrder` shows that the reports
the host has had are strictly increasing (none twice, none out of order) and that one
counted as delivered is among them, unless the host was plugged in since and has had
newer ones only. `LinkInOrder` is the same of the link, by the refinement.

`LinkTiresOut` is the variant behind `DeadRadioSleeps`. `Patience` counts the loops of
transmissions a keyboard has left without an answer: up to `HOST_NO_LINK` and, while it
is pairing, up to the end of the time without quick sleep. Each such loop costs one, and
only an answer, a key or a restart gives any back.

`LinkOnlySleepEndsWait` is the step behind `WaitDeepEnds`, from `Quiet`: as long as no
power is lost, a keyboard in `STATE_WAIT_DEEP` sends nothing, leaves dongle and log
alone, and is asleep after the first loop that ends with all keys up, also if the dongle
has come back or a key was struck meanwhile.

`LinkRequestStays` holds the steps behind `IdHandedOver`. The next loop of a keyboard
that has been asked loads its id, unless it reads a new wide report, which needs the same
bytes (`LoopSendsId`). `Asks` says of the dongle that, bound to none, it goes on asking
from the first frame it hears; so the first frame with an id that it hears binds it
(`HeardBinds`), and an answer that does not ask, which makes the keyboard forget, comes
only from a dongle that is bound or was plugged in since.

**UsbKb** (`UsbKbProofs`). Everything is proved with the interrupt between any two steps
of the main loop; there is no assumption on its timing. `IInv` is `TypeOK`,
`StuckOnlyIfCrossed` and `Contexts`, which says what the main loop may rely on at each
step: the endpoint it has tested is still free, or has been used and holds a report of a
crossed class (`Tested`); the release it has written is what the host has or will have, or
its class is crossed (`Released`); the bits it has loaded are current but for crossed
classes (`Current`). `IsrKeeps` shows that a report of the interrupt keeps all of this
wherever it falls, `ReleaseStep` that a release does, step by step. Without `crossed`
none of the three is invariant, which is finding 2. `UsbLostOnlyIfMixed` follows from
`Tested`.

`UsbOnlySettles` holds the steps behind `ReleasedUnlessCrossed`. When no interrupt is at
work, no key goes down on the host, no bit is set, and no class becomes crossed but by a
write that is mixed already; and the end of `BM_CLR` takes the bit of the class released
and leaves every other bit as it is. Only crossed classes are excepted, whose bits a
stale store may bring back or take away.

**PairFlash** (`PairFlashProofs`). `TypeInv` holds whatever the cells do: the types and
`Stage` (the interrupt programs only a slot of the table, and the job it works on is one).
That a start finds a place in every table, however damaged, is `EndExists`.
`PairTypeCorrect` and `PairOkNeverWraps` need nothing more. The latter counts what is left
to count: `ok` and the windows in `enabled` and `toOpen` are never more than four
together, and the type being paired is one whose window is still in `enabled`.

The others need `Reliable`, that is, sound cells or verification: an unverified type byte
that stays erased hides its slot and all later ones. `IInv` then adds

* `Table`: all slots before `idx` have a type, and all after `idx` are erased; the
  slot at `idx` may be half written, or left behind by a pairing that failed;
* `Written`: between two bytes, what is done of the slot is the job's and the rest is
  erased;
* `Agree`: the last slot of each type before `idx` holds the device the dongle is
  bound to. It speaks of the slots alone, not of what `custom_init` would find, and so
  it survives a half-written slot after them.

`PairRestartKeeps` and `PairRestartChangesOne` follow: a loss of power, in the middle of
a pairing, too, leaves the bindings alone but for the one type whose slot was being
written. `PairProgramsErased`, `PairStores` and `PairOkMeansBound` are stated for sound
cells, since a slot that failed verification is programmed a second time and its
unverified id counts at the next start. `PairStores` maps `Program` to `Store` (the type
byte of a slot makes it count, so that only this type changes), `Verify` and `Restart` to
`Serve`, everything else to a stutter. `PairOkMeansBound` says how far finding 3 goes:
unless a cell fails, the host is told of a pairing that bound nothing only when the table
is full. For this the device being paired is another one than the dongle is bound to
(`Another`).

**KeyBuf** (`KeyBufProofs`). The loops come first, each by what it keeps:

* `NoGhostLeft`: what `Clean` leaves of the contacts is physically held. A ghost closes a
  rectangle with a key of its column in another row, so the two rows share two columns,
  and `mix_final` has both. It holds for any matrix and any set of held keys.
* `RemapFits`: a translation has no more keys than `kb_data_t` has room for. The keys
  taken are those of rank below `MaxKeys`, and ranks within a matrix are distinct.
* `MergedKeeps`: `key_buf_merge` keeps what the buffer types, in order. `Merged` is a fold
  over the buffer; the proof is an induction over its length (`SetInduction`, from the
  well-foundedness of the naturals) with the pair being merged as the accumulator, and
  its step is that joining two mergeable neighbours types the same (`MergeStepKeeps`).
* `MakeRoomKeeps`: after it there is room, and nothing is lost but the oldest report, and
  that only when no two neighbours could be joined (`Stuck`).

`IInv` is `Types`, `Releasing` and `LastTellsNow`. `Releasing` says that of the last
scans, two at least have seen the keys up, from which `ReleaseNoticed` follows.
`LastTellsNow` is inductive as it stands once the types are there: a scan puts every
changed matrix into the ring, and full buffers drop or merge at the old end
(`FitKeepsNewest`, `FilledTells`). `KeyLosesOnlyWhenStuck` adds `MakeRoomKeeps` to each
outcome of a scan.

`KeyHeldComesNearer` is the variant behind `HeldIsTold`. `Within(p, n, i)` says that but
for the `i` oldest, all that waits in the buffer and behind it in the ring tells the keys
`p`. While `p` is held that stays true (`HeldStays`): what a scan puts into the ring tells
`p`, and dropping and merging move entries to the front only (`BeyondMerged`, an induction
over the buffer; two reports of the same keys joined tell the same keys, `AlikeJoined`).
Every report the radio takes lowers `i` by one (`HeldComesOn`), and at zero nothing but
`p` is told, by the next report taken if one waits or is due (`HeldTold`).

**UsbMouse** (`UsbMouseProofs`). `Window`: the ring holds the youngest samples in order.
`Behind`: what was sent is older than all of it, and directly before it if nothing was
dropped. `Loaded`: the sample the main loop holds is the oldest of the ring, or has been
overtaken by the one frame that may come during its pass. `Order` says which of these
hold at which step, and that the loaded `usbmouse_rptr` is current or one behind, in
which case storing it skips nothing that was not sent. `MouseOnlyReadsOn`, the step behind
`EndsStill`, needs `Loaded` as well: were the stored pointer more than one entry behind,
the ring would go round.

**ChannelSync** (`ChannelSyncProofs`). Every step is one of `HostHop` or leaves it alone,
so its `IInv` carries over. `Shares` says that in a burst that began with the dongle's
mask the two still have a channel in common; `BeforeTick` and `AfterTick` say which of
the three transmissions reaches it: before the tick, the alternation is caught by the
second at the latest, and the tick, which spares the channel just tuned to
(`HopKeepsCurrent`), leaves one for the third.

**KbIdle** (`KbIdleProofs`). `LampOK` says of the LED driver that its counters are in
range and that it is dark when no repetition is left; setting up any pattern at any
moment preserves it. `Young` says that pairing is over before quick sleep is allowed, so
that a blinking keyboard never falls into `STATE_WAIT_DEEP`.

`IdleUnusedSleeps` needs `SleepInv`, in which `idle`, the loops since the keyboard was
last used or answered, is bounded in each mode by what is counted there:

* `Searching`: without a link, by `noAck` and by `age`, so that quick sleep comes after
  `NoLink` loops or when the time without it is over;
* `Sending`: with a report under way, by `noAck`;
* `Resting`: with a link and nothing to send, `idle + Budget <= Rest`. `Budget` is what
  may still pass before deep sleep: what is left of the pattern, the idling after it,
  the long suspends, and one battery warning if the voltage can be judged before
  that. Each pass spends one (`LoopSpends`, `SuspendSpends`); a second warning does
  not fit, by `LengthAssumption`;
* `LampRuns`, `Modes`, `Stale`, `Pressed`, `Blinking`: what these rely on. A host status
  becomes stale before long suspend, so that a key held down then makes a frame or is
  the lock key, and the keyboard is not unused.

`IdleWarningComes` holds the steps behind `LowBatteryTold`, for tables in which only the
sign of success is as urgent as the warning (`WarningFirst`, as `kb_led.c:15` has it and
the run's table with it). While the battery is low,
every pass of the loop is one nearer to the next judgement; the first judgement at rest
sets up the warning, and only the sign of success may refuse it (`JudgedShows`), which
only the end of a pairing begins (`SuccessShows`).

**What TLC alone checks.** The eight liveness properties (`SilenceSweepsAll`,
`DeadRadioSleeps`, `WaitDeepEnds`, `IdHandedOver`, `ReleasedUnlessCrossed`, `EndsStill`,
`HeldIsTold`, `LowBatteryTold`): fairness is defined by ENABLED, which the prover does
not handle. What the steps do on the way is proved for each of them (in this order:
`HopSweeps`, `LinkTiresOut`, `LinkOnlySleepEndsWait`, `LinkRequestStays`,
`UsbOnlySettles`, `MouseOnlyReadsOn`, `KeyHeldComesNearer`, `IdleWarningComes`), and TLC
checks that the steps come. `MeetsSoon`: its bound is one of
the shortened times, not a function of the constants, as the walk of the search may be
in step with the dongle's alternation for as long as the dongle does not hop. And the
four runs whose property the code violates. Every other invariant and action property
that a run checks is a theorem. The inductive invariants and the variants were run
through TLC before they were proved.

## 5. Findings

1. `NoIdAsKeys` (`kb_rf.c:414`). The comment at `kb_rf.c:409` relies on the dongle
   rejecting a repeated `seq_no`. When every transmission of a wide report was lost,
   the number is new to the dongle and the id bytes are typed. It takes an answer
   that asks for the id, a wide report, and a loop in which all frames are lost.
2. `AllReleased` (`usbmouse.c:212`, `usbkb.c:87`). No code masks the radio interrupt
   between the main loop's test of an endpoint and the end of `BM_CLR`. The main
   loop tests the mouse endpoint, the interrupt writes the release of a media key
   and clears its bit, the main loop writes a mouse report over the release. The key
   stays down on the host until it is pressed again.
3. `OkMeansBound` (`dongle.c:283`). `callback_pairing` does not look at what
   `set_device_id_in_firmware` returns. With a full table, or after a failed
   verification, the host is told that pairing succeeded (`usb.c:438`, "For binding
   OK") although nothing was bound.
4. `OnlyNearPairs` (`dongle.c:267`). `cavy_rssi_pair` is set only for mice of the
   older family and read for all. If the uninitialized byte is not zero, manual
   pairing accepts a device of any signal strength, against the condition at
   `dongle.c:264`.

Two of these need an accident of the build or of the cells: 4 depends on what the
compiler leaves in the register or stack byte, and the second case of 3 on a cell that
does not take what it is given.

Seen while modelling, without a run:

* Dongle, link: a first report numbered 0 is skipped by a dongle just plugged in
  (`dongle.c:379`), and acknowledged.
* Dongle, keys: pressing another key while a media key is held sends the media report
  again (`usbkb.c:345`), against the comment at `usbkb.c:286`. The timeout is read once
  for three releases (`usbkb.c:125`).
* Dongle, mouse: the debounced button survives the release by timeout
  (`usbmouse.c:93`), so the next motion of a mouse whose release frame was lost clicks
  for two samples. `diff` in `usbmouse_report_frame` may be that of a ring the interrupt
  has meanwhile overrun; the report is still the right one.
* Dongle, pairing: the slot of a pairing whose verification failed counts at the next
  start if its type byte was programmed. A window opened by an earlier command stays
  open, with a new limit, when a command names the other type (`dongle_emi.c:116`).
* Keys: releases that are still in the key buffer when scanning stops are read only
  after the next key press (`keyboard.c:1049`); the dongle's timeout releases the keys.
  A merged report may name a code twice. The empty report forced while the host is
  unknown makes a held key be typed again. A matrix is translated with the Fn and num
  lock state of the scan that takes it out of the ring (`keyboard.c:1046`).
* Channels: the walk of the search visits even channels only and so never an odd one of
  a custom mask, and it may be in step with the dongle's alternation. What brings the
  two together is the hop of the silent dongle (`CHANNEL_HOPPING_ALWAYS`, 3 s in the slow
  mode); `MeetsSoon` even holds without the search.
* Battery: `first_flg` in `kb_batt_det_adc_sample` is never set, so the filter over the
  samples is never used. A battery warning cuts the pairing blink off, and the sign of a
  successful pairing is refused while the warning runs. A keyboard without a link always
  transmits and so never measures. Were a voltage judged before warning and idling are over
  (286 loops; it is 400), a low battery would keep the keyboard awake for good.

## 6. Not modelled, and the plan

Every module above comes with proofs. What is left, in order:

1. `AutoPair`: two keyboards at one dongle, whose dedup number they share.
2. Dongle suspend: the resume request the interrupt sets and the main loop serves
   (`dongle_suspend.c`), with the timeouts that stop meanwhile.
3. USB control transfers (`usb.c`), as far as they have state; the smoothing of mouse
   motion, a numerical question.
4. `MemPool`: general-purpose containers the link does not use.

The BLE link layer is not planned: nothing in the tree calls `blt_brx` or
`blt_send_adv`, and the code that would is guarded by `__PROJECT_BLUELIGHT__`, which no
project defines. More to prove: what the search of `ChannelSync` guarantees of itself, and that the hop of
the silent dongle brings the two together.

Left out for good: chip registers and timing, USB descriptors, AES, drivers of other
products, factory tests, the older keyboard project; `PROJECT.json` lists each with its
reason.
