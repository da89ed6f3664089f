----------------------------- MODULE PairFlash -----------------------------
(***************************************************************************)
(* Pairing that survives a restart: the table of paired devices the dongle *)
(* keeps in OTP memory or flash, dongle_custom.c, written by               *)
(* callback_pairing (dongle.c) when it is customized for manual or for     *)
(* software pairing.                                                       *)
(*                                                                         *)
(* A slot is DID_PARING_MAX times six bytes: a type byte, a byte that is   *)
(* never written, and the device id.  Programming only clears bits, one    *)
(* byte at a time, inside the radio interrupt; power may fail between two  *)
(* bytes.  custom_init reads the table up to the first slot without a      *)
(* type.  The host opens the pairing windows of a software-paired dongle   *)
(* with commands that the main loop serves (usb_host_cmd_proc) and the     *)
(* radio interrupt interrupts.                                             *)
(***************************************************************************)
EXTENDS Integers, FiniteSets

CONSTANTS
  Modes,      \* pairing types: "soft" (paring_type 0xcf), "manual" (0xfb)
  MaxSlots,   \* DID_PARING_MAX
  IdBytes,    \* bytes of a device id, 4
  Bits,       \* bits of a byte; bit 0 of a type byte tells the type
  Ids,        \* ids of the devices
  IdCheck,    \* id_check_flg: read back what was programmed
  Weak,       \* programming may leave bits uncleared
  Cavy        \* work_with_cavy_mouse: set up for mice of the older family

Type == {"mouse", "keyboard"}
Byte == SUBSET Bits                  \* a byte is the set of its bits that are one
Slot == 0..(MaxSlots - 1)
Cell == 0..IdBytes                   \* the bytes of a slot: 0 the type, then the id
Id   == [1..IdBytes -> Byte]
NoId == [b \in 1..IdBytes |-> Bits]  \* U32_MAX
Blank == [b \in Cell |-> Bits]

ASSUME PairAssumption ==
  /\ Modes \subseteq {"soft", "manual"}
  /\ MaxSlots \in Nat \ {0} /\ IdBytes \in Nat \ {0}
  /\ {0, 1} \subseteq Bits /\ Ids \subseteq Id \ {NoId}
  /\ IdCheck \in BOOLEAN /\ Weak \in BOOLEAN /\ Cavy \in BOOLEAN

VARIABLES
  mode,     \* soft_paring_enable or manual_paring_enable
  slots,    \* the table: [Slot -> [Cell -> Byte]]
  idx,      \* custom_binding_idx, the slot to program next
  binding,  \* custom_binding: [Type -> Id], NoId if none
  open,     \* rf_paring_enable, the window of manual pairing
  enabled,  \* mouse_paring_enable and keyboard_paring_enable, the types set
  expired,  \* the time limit has passed since rf_paring_tick
  ok,       \* host_cmd_paring_ok, eight bits
  working,  \* types with binding_device set: data was received
  toOpen,   \* types usb_host_cmd_proc has still to enable
  irq,      \* callback_pairing: "idle", "program" or "verify"
  at,       \* the byte it programs next
  job       \* the device it pairs

ram  == <<idx, binding, open, enabled, expired, ok, working>>
vars == <<mode, slots, ram, toOpen, irq, at, job>>

NoJob == [type |-> "mouse", id |-> NoId, near |-> TRUE]

\* What goes into byte b of the slot.
Content(j, b) == IF b = 0 THEN (IF j.type = "keyboard" THEN {0} ELSE {}) ELSE j.id[b]
TypeOf(byte)  == IF 0 \in byte THEN "keyboard" ELSE "mouse"
IdOf(slot)    == [b \in 1..IdBytes |-> slot[b]]
-----------------------------------------------------------------------------
(* custom_init *)

\* The first slot without a type ends the table.
IsEnd(t, n) ==
  /\ \A s \in Slot : s < n => t[s][0] # Bits
  /\ n \in Slot => t[n][0] = Bits
End(t) == CHOOSE n \in 0..MaxSlots : IsEnd(t, n)

\* Later slots take precedence.
Earliest(own) == CHOOSE s \in own : \A r \in own : s <= r  \* mutant: the first slot wins
Latest(own) == CHOOSE s \in own : \A r \in own : r <= s
SlotsOf(t, n, ty) == {s \in Slot : s < n /\ TypeOf(t[s][0]) = ty}
Found(t, n) ==
  [ty \in Type |->
     LET own == SlotsOf(t, n, ty)
     IN  IF own = {} THEN NoId ELSE IdOf(t[Latest(own)])]

\* The state after power-up with table t.
PowerUp(t) ==
  /\ idx' = End(t)
  /\ binding' = Found(t, End(t))
  /\ open' = (mode = "manual")
  /\ enabled' = {} /\ expired' = FALSE /\ ok' = 0 /\ working' = {}
  /\ toOpen' = {}
  /\ irq' = "idle" /\ at' = 0 /\ job' = NoJob

Init ==
  /\ mode \in Modes
  /\ slots = [s \in Slot |-> Blank]
  /\ idx = 0 /\ binding = [ty \in Type |-> NoId]
  /\ open = (mode = "manual")
  /\ enabled = {} /\ expired = FALSE /\ ok = 0 /\ working = {}
  /\ toOpen = {}
  /\ irq = "idle" /\ at = 0 /\ job = NoJob

\* Power fails and comes back, at any time.
Restart ==
  /\ PowerUp(slots)
  /\ UNCHANGED <<mode, slots>>
-----------------------------------------------------------------------------
(* The radio interrupt *)

Frame == [type : Type, id : Ids, near : BOOLEAN, pairing : BOOLEAN, powerOn : BOOLEAN]

\* callback_pairing after set_device_id_in_firmware, whatever that returned.
PairedStaysOpen(ty) ==  \* mutant: the window is left open
  IF mode = "soft" THEN ok' = (ok + 1) % 256 /\ UNCHANGED <<open, enabled>>
                   ELSE open' = FALSE /\ UNCHANGED <<ok, enabled>>
Paired(ty) ==
  IF mode = "soft" THEN /\ enabled' = enabled \ {ty}
                        /\ ok' = (ok + 1) % 256
                        /\ UNCHANGED open
                   ELSE open' = FALSE /\ UNCHANGED <<ok, enabled>>

\* Conditions of manual pairing.  cavy_rssi_pair is only set for the older family
\* and read for both: junk is what the uninitialized byte holds.
Manual(f, junk) ==
  /\ mode = "manual" /\ open /\ f.pairing
  /\ Cavy \/ junk \/ f.near
  /\ ~(binding[f.type] # NoId /\ f.powerOn)

Soft(f) == mode = "soft" /\ f.pairing /\ f.near /\ f.type \in enabled

\* The table has a slot left.
RoomOffByOne == idx <= MaxSlots  \* mutant: one slot too many
Room == idx < MaxSlots

\* rf_rx_response answers a device it is bound to itself, and ignores the others
\* once a device of that type works; set_device_id_in_firmware begins.
PairingFrame(f, junk) ==
  /\ irq = "idle"
  /\ f.id # binding[f.type] /\ f.type \notin working
  /\ Manual(f, junk) \/ Soft(f)
  /\ IF Room
     THEN /\ irq' = "program" /\ at' = 0
          /\ job' = [type |-> f.type, id |-> f.id, near |-> f.near]
          /\ UNCHANGED <<open, enabled, ok>>
     ELSE Paired(f.type) /\ UNCHANGED <<irq, at, job>>
  /\ UNCHANGED <<mode, slots, idx, binding, expired, working, toOpen>>

\* The byte programmed after n others: the type, then the id.
NthTypeLast(n) == (n + 1) % (IdBytes + 1)  \* mutant: the id, then the type
Nth(n) == n

\* device_program: ones become zeros, all of them that should or, on a weak cell, some.
Program ==
  /\ irq = "program"
  /\ LET old  == slots[idx][Nth(at)]
         good == old \cap Content(job, Nth(at))
     IN  \E byte \in Byte :
           /\ good \subseteq byte /\ byte \subseteq old
           /\ Weak \/ byte = good
           /\ slots' = [slots EXCEPT ![idx][Nth(at)] = byte]
  /\ at' = at + 1
  /\ irq' = IF at = IdBytes THEN "verify" ELSE "program"
  /\ UNCHANGED <<mode, ram, toOpen, job>>

\* The comparison of the bytes read back, if id_check_flg is set.
VerifiedIdOnly == ~IdCheck \/ IdOf(slots[idx]) = job.id  \* mutant: the type is not compared
Verified == ~IdCheck \/ \A b \in Cell : slots[idx][b] = Content(job, b)

Verify ==
  /\ irq = "verify"
  /\ IF Verified
     THEN binding' = [binding EXCEPT ![job.type] = job.id] /\ idx' = idx + 1
     ELSE UNCHANGED <<binding, idx>>
  /\ Paired(job.type)
  /\ irq' = "idle" /\ at' = 0 /\ job' = NoJob
  /\ UNCHANGED <<mode, slots, expired, working, toOpen>>

\* A frame on a data pipe: from now on the dongle does not pair that type.
DataFrame(ty) ==
  /\ irq = "idle"
  /\ working' = working \cup {ty}
  /\ UNCHANGED <<mode, slots, idx, binding, open, enabled, expired, ok, toOpen, irq, at, job>>
-----------------------------------------------------------------------------
(* The main loop, which runs while the interrupt handler does not *)

\* usb_host_cmd_proc, commands 13 to 15.
HostCommand(c) ==
  /\ irq = "idle" /\ toOpen = {}
  /\ ok' = 0 /\ expired' = FALSE
  /\ toOpen' = c
  /\ UNCHANGED <<mode, slots, idx, binding, open, enabled, working, irq, at, job>>

\* ... which then sets mouse_paring_enable and keyboard_paring_enable.
OpenWindow(ty) ==
  /\ irq = "idle" /\ ty \in toOpen
  /\ "mouse" \in toOpen => ty = "mouse"
  /\ enabled' = enabled \cup {ty}
  /\ toOpen' = toOpen \ {ty}
  /\ UNCHANGED <<mode, slots, idx, binding, open, expired, ok, working, irq, at, job>>

\* paring_time_check.
TimeCheck ==
  /\ irq = "idle" /\ toOpen = {} /\ expired
  /\ IF mode = "soft" THEN enabled' = {} /\ UNCHANGED open
                      ELSE open' = FALSE /\ UNCHANGED enabled
  /\ UNCHANGED <<mode, slots, idx, binding, expired, ok, working, toOpen, irq, at, job>>

Expire ==
  /\ ~expired
  /\ expired' = TRUE
  /\ UNCHANGED <<mode, slots, idx, binding, open, enabled, ok, working, toOpen, irq, at, job>>
-----------------------------------------------------------------------------
Command == {{"mouse", "keyboard"}, {"mouse"}, {"keyboard"}}

Next ==
  \/ \E f \in Frame, junk \in BOOLEAN : PairingFrame(f, junk)
  \/ Program \/ Verify
  \/ \E ty \in Type : DataFrame(ty)
  \/ \E c \in Command : HostCommand(c)
  \/ \E ty \in Type : OpenWindow(ty)
  \/ TimeCheck \/ Expire \/ Restart

Spec == Init /\ [][Next]_vars
-----------------------------------------------------------------------------
TypeOK ==
  /\ mode \in Modes
  /\ slots \in [Slot -> [Cell -> Byte]]
  /\ idx \in 0..MaxSlots /\ binding \in [Type -> Id]
  /\ open \in BOOLEAN /\ enabled \subseteq Type
  /\ expired \in BOOLEAN /\ ok \in 0..255
  /\ working \subseteq Type /\ toOpen \subseteq Type
  /\ irq \in {"idle", "program", "verify"} /\ at \in 0..(IdBytes + 1)
  /\ irq # "idle" => idx \in Slot
  /\ job.type \in Type /\ job.id \in Ids \cup {NoId} /\ job.near \in BOOLEAN

\* Every byte of the table is programmed at most once: the byte callback_pairing
\* is about to program and those after it are still erased, whatever was
\* interrupted by a loss of power before.  (With cells that hold what they are
\* given; a slot that failed verification is programmed again.)
ProgramsErased ==
  irq = "program" => \A n \in Cell : n >= at => slots[idx][Nth(n)] = Bits

\* A device that works after a restart worked before it and the other way round,
\* once the slot of a failed pairing is not in the way: what custom_init finds in
\* the table is what the dongle is bound to, even if cells are weak.
RestartKeeps ==
  irq = "idle" /\ (idx \in Slot => slots[idx] = Blank)
    => End(slots) = idx /\ Found(slots, idx) = binding

\* host_cmd_paring_ok, eight bits, never wraps to 0, which would tell the host that
\* nothing was paired: between two commands, at most the windows that were open
\* and those the command opens can count.
OkNeverWraps == ok <= 4

\* What the table promises, see BindingStore: a device is served only after a
\* restart would serve it, and an interrupted pairing leaves the other type alone.
Store == INSTANCE BindingStore
  WITH Type <- Type, Value <- Id, None <- NoId,
       stored <- Found(slots, End(slots)), served <- binding
Stores == Store!Spec

\* usb.c:438, "For binding OK": what the host is told means that the dongle is
\* bound to another device.
OkMeansBound == [][ok' > ok => binding' # binding]_vars

\* dongle.c:264, the third condition of manual pairing: the signal is strong.
OnlyNearPairs == irq # "idle" /\ ~Cavy => job.near
=============================================================================
