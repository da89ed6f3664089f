-------------------------- MODULE PairFlashProofs --------------------------
(***************************************************************************)
(* Proofs about PairFlash, for tables, ids and bytes of every size: types, *)
(* the counter the host reads, and what a restart finds; with cells that   *)
(* hold what they are given, that no byte is programmed twice and that the *)
(* table implements BindingStore.                                          *)
(***************************************************************************)
EXTENDS PairFlash, TLAPS, NaturalsInduction, WellFoundedInduction

USE DEF Type

-----------------------------------------------------------------------------
(* The bytes of a slot *)

LEMMA ContentByte ==
  ASSUME NEW j, j.type \in Type, j.id \in Id, NEW b \in Cell
  PROVE  /\ Content(j, b) \in Byte
         /\ TypeOf(Content(j, 0)) = j.type
         /\ Content(j, 0) # Bits
<1>1. {0, 1} \subseteq Bits
  BY PairAssumption
<1>2. b # 0 => b \in 1..IdBytes
  BY PairAssumption DEF Cell
<1>3. Content(j, b) \in Byte
  BY <1>1, <1>2 DEF Content, Byte, Id
<1>4. TypeOf(Content(j, 0)) = j.type
  BY DEF Content, TypeOf
<1>5. Content(j, 0) \subseteq {0}
  BY DEF Content
<1>6. QED
  BY <1>1, <1>3, <1>4, <1>5

LEMMA TypeOfType == \A byte : TypeOf(byte) \in Type
  BY DEF TypeOf

LEMMA IdRanges == Ids \subseteq Id /\ NoId \in Id /\ NoId \notin Ids
  BY PairAssumption DEF NoId, Id, Byte

LEMMA BlankSlot ==
  /\ Blank \in [Cell -> Byte] /\ 0 \in Cell
  /\ \A b \in Cell : Blank[b] = Bits
  BY PairAssumption DEF Blank, Byte, Cell
-----------------------------------------------------------------------------
(* Reading the table *)

\* A table has one end.
LEMMA EndIs ==
  ASSUME NEW t, NEW n \in 0..MaxSlots, IsEnd(t, n)
  PROVE  End(t) = n
<1>1. ASSUME NEW m \in 0..MaxSlots, IsEnd(t, m)
      PROVE  m = n
  <2>1. ~(m < n)
    BY <1>1, PairAssumption DEF IsEnd, Slot
  <2>2. ~(n < m)
    BY <1>1, PairAssumption DEF IsEnd, Slot
  <2>3. QED
    BY <2>1, <2>2, PairAssumption
<1>2. QED
  BY <1>1 DEF End

\* Among slots there is a latest one: the least of their distances to the end.
LEMMA LatestOf ==
  ASSUME NEW own \in SUBSET Slot, own # {}
  PROVE  Latest(own) \in own /\ \A r \in own : r <= Latest(own)
<1> DEFINE far == {MaxSlots - s : s \in own}
<1>1. far \subseteq Nat /\ far # {}
  <2>1. \A s \in own : MaxSlots - s \in Nat
    BY PairAssumption DEF Slot
  <2>2. PICK s \in own : TRUE
    OBVIOUS
  <2>3. MaxSlots - s \in far
    BY <2>2
  <2>4. QED
    BY <2>1, <2>3
<1> DEFINE R == OpToRel(<, Nat)
<1>2. IsWellFoundedOn(R, Nat)
  BY NatLessThanWellFounded
<1> HIDE DEF R
<1>3. PICK x \in far : \A y \in far : <<y, x>> \notin R
  BY <1>1, <1>2, WFMin
<1>4. PICK s \in own : x = MaxSlots - s
  BY <1>3
<1>5. ASSUME NEW r \in own
      PROVE  r <= s
  <2>1. MaxSlots - r \in far /\ MaxSlots - r \in Nat /\ x \in Nat
    BY <1>1
  <2>2. <<MaxSlots - r, x>> \notin R
    BY <1>3, <2>1
  <2>3. ~(MaxSlots - r < x)
    BY <2>1, <2>2 DEF R, OpToRel
  <2>4. QED
    BY <1>4, <2>3, PairAssumption DEF Slot
<1>6. QED
  BY <1>5 DEF Latest

\* Every table has an end: the first slot without a type, or none.
LEMMA EndExists ==
  ASSUME NEW t
  PROVE  End(t) \in 0..MaxSlots
<1> DEFINE ends == {n \in 0..MaxSlots : n \in Slot => t[n][0] = Bits}
<1>1. ends \subseteq Nat /\ MaxSlots \in ends
  BY PairAssumption DEF Slot
<1> DEFINE R == OpToRel(<, Nat)
<1>2. IsWellFoundedOn(R, Nat)
  BY NatLessThanWellFounded
<1> HIDE DEF R
<1>3. PICK n \in ends : \A m \in ends : <<m, n>> \notin R
  BY <1>1, <1>2, WFMin
<1>4. ASSUME NEW s \in Slot, s < n
      PROVE  t[s][0] # Bits
  <2>1. s \in Nat /\ n \in Nat /\ s \in 0..MaxSlots
    BY <1>1, PairAssumption DEF Slot
  <2>2. s \notin ends
    BY <1>3, <1>4, <2>1 DEF R, OpToRel
  <2>3. QED
    BY <2>1, <2>2
<1>5. IsEnd(t, n) /\ n \in 0..MaxSlots
  BY <1>4 DEF IsEnd
<1>6. QED
  BY <1>5, EndIs

\* The latest slot is the only one later than all.
LEMMA LatestIs ==
  ASSUME NEW own \in SUBSET Slot, NEW s \in own, \A r \in own : r <= s
  PROVE  Latest(own) = s
<1>1. own # {}
  OBVIOUS
<1>2. Latest(own) \in own /\ \A r \in own : r <= Latest(own)
  BY <1>1, LatestOf
<1>3. Latest(own) \in Slot /\ s \in Slot /\ s <= Latest(own) /\ Latest(own) <= s
  BY <1>2
<1>4. QED
  BY <1>3, PairAssumption DEF Slot

\* Found depends on the slots before n only.
LEMMA FoundSame ==
  ASSUME NEW t, NEW u, NEW n, \A s \in Slot : s < n => u[s] = t[s]
  PROVE  Found(u, n) = Found(t, n)
<1>1. ASSUME NEW ty \in Type
      PROVE  Found(u, n)[ty] = Found(t, n)[ty]
  <2>1. SlotsOf(u, n, ty) = SlotsOf(t, n, ty)
    BY DEF SlotsOf
  <2>2. SlotsOf(t, n, ty) # {} => LET l == Latest(SlotsOf(t, n, ty)) IN u[l] = t[l]
    <3>1. SlotsOf(t, n, ty) \in SUBSET Slot
      BY DEF SlotsOf
    <3>2. SlotsOf(t, n, ty) # {} => Latest(SlotsOf(t, n, ty)) \in SlotsOf(t, n, ty)
      BY <3>1, LatestOf
    <3>3. QED
      BY <3>2 DEF SlotsOf
  <2>3. QED
    BY <2>1, <2>2 DEF Found, IdOf
<1>2. QED
  BY <1>1 DEF Found

\* One more slot replaces the device of its type.
LEMMA FoundNext ==
  ASSUME NEW t, NEW n \in Slot
  PROVE  Found(t, n + 1) = [Found(t, n) EXCEPT ![TypeOf(t[n][0])] = IdOf(t[n])]
<1> DEFINE new == TypeOf(t[n][0])
<1>1. ASSUME NEW ty \in Type \ {new}
      PROVE  Found(t, n + 1)[ty] = Found(t, n)[ty]
  <2>1. SlotsOf(t, n + 1, ty) = SlotsOf(t, n, ty)
    BY PairAssumption DEF SlotsOf, Slot
  <2>2. QED
    BY <2>1 DEF Found
<1>2. Found(t, n + 1)[new] = IdOf(t[n])
  <2>1. SlotsOf(t, n + 1, new) \in SUBSET Slot
    BY DEF SlotsOf
  <2>2. n \in SlotsOf(t, n + 1, new)
    BY PairAssumption DEF SlotsOf, Slot
  <2>3. \A r \in SlotsOf(t, n + 1, new) : r <= n
    BY PairAssumption DEF SlotsOf, Slot
  <2>4. Latest(SlotsOf(t, n + 1, new)) = n
    BY <2>1, <2>2, <2>3, LatestIs
  <2>5. QED
    BY <2>2, <2>4, TypeOfType DEF Found
<1>3. QED
  BY <1>1, <1>2, TypeOfType DEF Found

LEMMA FoundType ==
  ASSUME NEW t \in [Slot -> [Cell -> Byte]], NEW n
  PROVE  Found(t, n) \in [Type -> Id]
<1>1. ASSUME NEW s \in Slot
      PROVE  IdOf(t[s]) \in Id
  BY PairAssumption DEF IdOf, Id, Cell
<1>2. ASSUME NEW ty \in Type, SlotsOf(t, n, ty) # {}
      PROVE  IdOf(t[Latest(SlotsOf(t, n, ty))]) \in Id
  <2>1. SlotsOf(t, n, ty) \in SUBSET Slot
    BY DEF SlotsOf
  <2>2. QED
    BY <1>1, <1>2, <2>1, LatestOf
<1>3. QED
  BY <1>2, IdRanges DEF Found
-----------------------------------------------------------------------------
(* The invariant *)

\* Where a pairing is, and what it is about.
Stage ==
  /\ irq = "program" => at \in Cell
  /\ irq = "verify" => at = IdBytes + 1
  /\ irq # "idle" => idx \in Slot /\ job.id \in Ids

\* Slots before idx have a type, slots after it are blank.
Table ==
  /\ \A s \in Slot : s < idx => slots[s][0] # Bits
  /\ \A s \in Slot : s > idx => slots[s] = Blank

\* Slot idx holds the bytes programmed so far, if cells hold what they are given.
Written ==
  ~Weak =>
    /\ irq = "idle" /\ idx \in Slot => slots[idx] = Blank
    /\ irq # "idle" =>
         \A b \in Cell : slots[idx][b] = IF b < at THEN Content(job, b) ELSE Bits

\* The slots before idx say what the dongle is bound to.
Agree == Found(slots, idx) = binding

\* What is programmed is either read back or programmed without fault.
Reliable == IdCheck \/ ~Weak

TypeInv == TypeOK /\ Stage

IInv == Reliable /\ TypeInv /\ Table /\ Written /\ Agree

LEMMA InitTypeInv == Init => TypeInv
<1> SUFFICES ASSUME Init
             PROVE  TypeInv
  OBVIOUS
<1>1. open \in BOOLEAN
  BY Zenon DEF Init
<1>2. slots \in [Slot -> [Cell -> Byte]] /\ binding \in [Type -> Id]
  BY BlankSlot, IdRanges DEF Init
<1>3. /\ mode \in Modes /\ enabled = {} /\ expired = FALSE /\ ok = 0
      /\ working = {} /\ toOpen = {} /\ irq = "idle" /\ idx = 0 /\ at = 0
      /\ job = NoJob
  BY DEF Init
<1>4. job.type \in Type /\ job.id = NoId /\ job.near \in BOOLEAN
  BY <1>3 DEF NoJob
<1>5. idx \in 0..MaxSlots /\ at \in 0..(IdBytes + 1) /\ ok \in 0..255
  BY <1>3, PairAssumption
<1>6. QED
  BY <1>1, <1>2, <1>3, <1>4, <1>5 DEF TypeInv, TypeOK, Stage

LEMMA InitIInv == Reliable /\ Init => IInv
<1> SUFFICES ASSUME Reliable, Init
             PROVE  IInv
  OBVIOUS
<1>1. Table /\ Written
  BY PairAssumption DEF Init, Table, Written, Slot
<1>2. \A ty \in Type : SlotsOf(slots, 0, ty) = {}
  BY PairAssumption DEF SlotsOf, Slot
<1>3. Agree
  BY <1>2 DEF Init, Agree, Found
<1>4. QED
  BY <1>1, <1>3, InitTypeInv DEF IInv

\* The end of the table: slot idx, or the next one if slot idx has a type.
LEMMA EndAtIdx ==
  ASSUME TypeOK, Table
  PROVE  /\ (idx \in Slot => slots[idx][0] = Bits) => End(slots) = idx
         /\ idx \in Slot /\ slots[idx][0] # Bits => End(slots) = idx + 1
<1>1. ASSUME idx \in Slot => slots[idx][0] = Bits
      PROVE  End(slots) = idx
  <2>1. idx \in 0..MaxSlots /\ IsEnd(slots, idx)
    BY <1>1 DEF TypeOK, Table, IsEnd
  <2>2. QED
    BY <2>1, EndIs
<1>2. ASSUME idx \in Slot, slots[idx][0] # Bits
      PROVE  End(slots) = idx + 1
  <2>1. idx + 1 \in 0..MaxSlots
    BY <1>2, PairAssumption DEF Slot
  <2>2. \A s \in Slot : s < idx + 1 => slots[s][0] # Bits
    BY <1>2, PairAssumption DEF Table, Slot
  <2>3. idx + 1 \in Slot => slots[idx + 1][0] = Bits
    BY <1>2, BlankSlot, PairAssumption DEF Table, Slot
  <2>4. QED
    BY <2>1, <2>2, <2>3, EndIs DEF IsEnd
<1>3. QED
  BY <1>1, <1>2

LEMMA RestartTypeInv ==
  ASSUME TypeInv, Restart
  PROVE  TypeInv'
<1>1. /\ idx' = End(slots) /\ binding' = Found(slots, End(slots)) /\ slots' = slots
      /\ irq' = "idle" /\ at' = 0 /\ job' = NoJob
  BY DEF Restart, PowerUp
<1>2. idx' \in 0..MaxSlots /\ binding' \in [Type -> Id]
  BY <1>1, EndExists, FoundType DEF TypeInv, TypeOK
<1>3. open' \in BOOLEAN
  BY Zenon DEF Restart, PowerUp
<1>4. /\ mode' = mode /\ enabled' = {} /\ expired' = FALSE /\ ok' = 0
      /\ working' = {} /\ toOpen' = {}
  BY DEF Restart, PowerUp
<1>5. job'.type \in Type /\ job'.id = NoId /\ job'.near \in BOOLEAN
  BY <1>1 DEF NoJob
<1>6. at' \in 0..(IdBytes + 1) /\ ok' \in 0..255
  BY <1>1, <1>4, PairAssumption
<1>7. QED
  BY <1>1, <1>2, <1>3, <1>4, <1>5, <1>6 DEF TypeInv, TypeOK, Stage

LEMMA RestartIInv ==
  ASSUME IInv, Restart
  PROVE  IInv'
<1> USE DEF IInv, TypeInv
<1>1. /\ idx' = End(slots) /\ binding' = Found(slots, End(slots)) /\ slots' = slots
      /\ irq' = "idle" /\ at' = 0 /\ job' = NoJob
  BY DEF Restart, PowerUp
<1>2. \/ idx' = idx /\ (idx \in Slot => slots[idx][0] = Bits)
      \/ idx' = idx + 1 /\ idx \in Slot /\ slots[idx][0] # Bits
  BY <1>1, EndAtIdx
<1>3. Table'
  BY <1>1, <1>2, PairAssumption DEF TypeOK, Table, Slot
<1>4. Written'
  <2>1. SUFFICES ASSUME ~Weak, idx' \in Slot
                 PROVE  slots[idx'] = Blank
    BY <1>1 DEF Written
  <2>2. CASE idx' = idx + 1 /\ idx \in Slot
    BY <2>1, <2>2, PairAssumption DEF Table, Slot, TypeOK
  <2>3. CASE idx' = idx /\ (idx \in Slot => slots[idx][0] = Bits)
    <3>1. irq = "idle" => slots[idx] = Blank
      BY <2>1, <2>3 DEF Written
    <3>2. ASSUME irq # "idle"
          PROVE  slots[idx] = Blank
      <4>1. 0 \in Cell /\ slots[idx][0] = Bits /\ job.type \in Type /\ job.id \in Id
        BY <2>1, <2>3, BlankSlot, IdRanges DEF TypeOK
      <4>2. ~(0 < at)
        BY <2>1, <3>2, <4>1, ContentByte DEF Written
      <4>3. \A b \in Cell : slots[idx][b] = Bits
        BY <2>1, <3>2, <4>2, PairAssumption DEF Written, TypeOK, Cell
      <4>4. slots[idx] \in [Cell -> Byte]
        BY <2>1, <2>3 DEF TypeOK
      <4>5. QED
        BY <4>3, <4>4, BlankSlot DEF Blank
    <3>3. QED
      BY <2>3, <3>1, <3>2
  <2>4. QED
    BY <1>2, <2>2, <2>3
<1>5. Agree'
  BY <1>1 DEF Agree
<1>6. QED
  BY <1>3, <1>4, <1>5, RestartTypeInv

LEMMA PairedType ==
  ASSUME TypeOK, NEW ty \in Type, Paired(ty)
  PROVE  open' \in BOOLEAN /\ enabled' \subseteq Type /\ ok' \in 0..255
<1>1. CASE mode = "soft"
  <2>1. enabled' = enabled \ {ty} /\ ok' = (ok + 1) % 256 /\ open' = open
    BY <1>1 DEF Paired
  <2>2. (ok + 1) % 256 \in 0..255
    BY DEF TypeOK
  <2>3. QED
    BY <2>1, <2>2 DEF TypeOK
<1>2. CASE mode # "soft"
  BY <1>2 DEF Paired, TypeOK
<1>3. QED
  BY <1>1, <1>2

LEMMA PairingFrameTypeInv ==
  ASSUME TypeInv, NEW f \in Frame, NEW junk \in BOOLEAN, PairingFrame(f, junk)
  PROVE  TypeInv'
<1> USE DEF TypeInv
<1>1. f.type \in Type /\ f.id \in Ids /\ f.near \in BOOLEAN
  BY DEF Frame
<1>2. UNCHANGED <<mode, slots, idx, binding, expired, working, toOpen>>
  BY DEF PairingFrame
<1>3. CASE Room
  <2>1. /\ irq' = "program" /\ at' = 0 /\ idx \in Slot
        /\ job' = [type |-> f.type, id |-> f.id, near |-> f.near]
        /\ UNCHANGED <<open, enabled, ok>>
    BY <1>3, PairAssumption DEF PairingFrame, Room, Slot, TypeOK
  <2>2. job'.type \in Type /\ job'.id \in Ids /\ job'.near \in BOOLEAN
    BY <1>1, <2>1
  <2>3. at' \in 0..(IdBytes + 1)
    BY <2>1, PairAssumption
  <2>4. TypeOK'
    BY <1>2, <2>1, <2>2, <2>3 DEF TypeOK
  <2>5. QED
    BY <1>2, <2>1, <2>2, <2>4, BlankSlot DEF Stage
<1>4. CASE ~Room
  <2>1. Paired(f.type) /\ UNCHANGED <<irq, at, job>>
    BY <1>4 DEF PairingFrame
  <2>2. open' \in BOOLEAN /\ enabled' \subseteq Type /\ ok' \in 0..255
    BY <1>1, <2>1, PairedType
  <2>3. QED
    BY <1>2, <2>1, <2>2 DEF TypeOK, Stage
<1>5. QED
  BY <1>3, <1>4

LEMMA PairingFrameIInv ==
  ASSUME IInv, NEW f \in Frame, NEW junk \in BOOLEAN, PairingFrame(f, junk)
  PROVE  IInv'
<1> USE DEF IInv
<1>1. irq = "idle" /\ UNCHANGED <<slots, idx, binding>>
  BY DEF PairingFrame
<1>2. Table' /\ Agree'
  BY <1>1 DEF Table, Agree
<1>3. CASE Room
  <2>1. irq' = "program" /\ at' = 0 /\ idx \in Slot
    BY <1>3, PairAssumption DEF PairingFrame, Room, Slot, TypeInv, TypeOK
  <2>2. SUFFICES ASSUME ~Weak, NEW b \in Cell
                 PROVE  slots[idx][b] = Bits /\ ~(b < 0)
    BY <1>1, <1>2, <2>1, PairingFrameTypeInv DEF Written
  <2>3. slots[idx] = Blank
    BY <1>1, <2>1, <2>2 DEF Written
  <2>4. QED
    BY <2>3, BlankSlot, PairAssumption DEF Cell
<1>4. CASE ~Room
  <2>1. UNCHANGED <<irq, at, job>>
    BY <1>4 DEF PairingFrame
  <2>2. Written'
    BY <1>1, <2>1 DEF Written
  <2>3. QED
    BY <1>2, <2>2, PairingFrameTypeInv
<1>5. QED
  BY <1>3, <1>4

\* What one step of programming does to the table.
LEMMA ProgramStep ==
  ASSUME TypeOK, Stage, Program
  PROVE  \E byte \in Byte :
           /\ slots' = [slots EXCEPT ![idx][at] = byte]
           /\ ~Weak => byte = slots[idx][at] \cap Content(job, at)
           /\ idx \in Slot /\ at \in Cell /\ irq = "program" /\ at' = at + 1
           /\ irq' = IF at = IdBytes THEN "verify" ELSE "program"
           /\ UNCHANGED <<mode, ram, toOpen, job>>
BY DEF Program, Stage, Nth

LEMMA ProgramTypeInv ==
  ASSUME TypeInv, Program
  PROVE  TypeInv'
<1> USE DEF TypeInv
<1>1. PICK byte \in Byte :
        /\ slots' = [slots EXCEPT ![idx][at] = byte]
        /\ idx \in Slot /\ at \in Cell /\ irq = "program" /\ at' = at + 1
        /\ irq' = IF at = IdBytes THEN "verify" ELSE "program"
        /\ UNCHANGED <<mode, ram, toOpen, job>>
  BY ProgramStep
<1>2. /\ UNCHANGED <<mode, idx, binding, open, enabled, expired, ok, working>>
      /\ UNCHANGED <<toOpen, job>>
  BY <1>1 DEF ram
<1>3. slots' \in [Slot -> [Cell -> Byte]]
  BY <1>1 DEF TypeOK
<1>4. at' \in 0..(IdBytes + 1) /\ (at # IdBytes => at' \in Cell)
  BY <1>1, PairAssumption DEF Cell
<1>5. TypeOK'
  BY <1>1, <1>2, <1>3, <1>4 DEF TypeOK
<1>6. Stage'
  BY <1>1, <1>2, <1>4 DEF Stage
<1>7. QED
  BY <1>5, <1>6

LEMMA ProgramIInv ==
  ASSUME IInv, Program
  PROVE  IInv'
<1> USE DEF IInv, TypeInv
<1>1. PICK byte \in Byte :
        /\ slots' = [slots EXCEPT ![idx][at] = byte]
        /\ ~Weak => byte = slots[idx][at] \cap Content(job, at)
        /\ idx \in Slot /\ at \in Cell /\ irq = "program" /\ at' = at + 1
        /\ irq' = IF at = IdBytes THEN "verify" ELSE "program"
        /\ UNCHANGED <<mode, ram, toOpen, job>>
  BY ProgramStep
<1>2. /\ UNCHANGED <<mode, idx, binding, open, enabled, expired, ok, working>>
      /\ UNCHANGED <<toOpen, job>>
  BY <1>1 DEF ram
<1>3. \A s \in Slot : s # idx => slots'[s] = slots[s]
  BY <1>1 DEF TypeOK
<1>4. Table'
  BY <1>2, <1>3, PairAssumption DEF Table, TypeOK, Slot
<1>5. Agree'
  <2>1. Found(slots', idx) = Found(slots, idx)
    <3>1. \A s \in Slot : s < idx => slots'[s] = slots[s]
      BY <1>3, PairAssumption DEF TypeOK, Slot
    <3>2. QED
      BY <3>1, FoundSame
  <2>2. QED
    BY <1>2, <2>1 DEF Agree
<1>6. Written'
  <2>1. SUFFICES ASSUME ~Weak, NEW b \in Cell
                 PROVE  slots'[idx][b] = IF b < at + 1 THEN Content(job, b) ELSE Bits
    BY <1>1, <1>2 DEF Written
  <2>2. slots[idx][b] = IF b < at THEN Content(job, b) ELSE Bits
    BY <1>1, <2>1 DEF Written
  <2>3. CASE b = at
    <3>1. slots[idx][at] = Bits
      BY <2>2, <2>3, <1>1, PairAssumption DEF Cell
    <3>2. Content(job, at) \subseteq Bits
      BY <1>1, ContentByte, IdRanges DEF Byte, TypeOK
    <3>3. slots'[idx][at] = Content(job, at)
      BY <1>1, <2>1, <3>1, <3>2 DEF TypeOK
    <3>4. QED
      BY <1>1, <2>3, <3>3, PairAssumption DEF Cell
  <2>4. CASE b # at
    <3>1. slots'[idx][b] = slots[idx][b]
      BY <1>1, <2>4 DEF TypeOK
    <3>2. b < at + 1 <=> b < at
      BY <1>1, <2>4, PairAssumption DEF Cell
    <3>3. QED
      BY <2>2, <3>1, <3>2
  <2>5. QED
    BY <2>3, <2>4
<1>7. QED
  BY <1>4, <1>5, <1>6, ProgramTypeInv

\* A slot that passed verification, or was written without fault, is the device's.
LEMMA VerifiedSlot ==
  ASSUME IInv, irq = "verify", Verified
  PROVE  /\ slots[idx][0] # Bits
         /\ Found(slots, idx + 1) = [binding EXCEPT ![job.type] = job.id]
<1> USE DEF IInv, TypeInv
<1>1. idx \in Slot /\ 0 \in Cell /\ job.type \in Type /\ job.id \in Id
  BY BlankSlot, IdRanges DEF Stage, TypeOK
<1>2. ASSUME NEW b \in Cell
      PROVE  slots[idx][b] = Content(job, b)
  <2>1. CASE IdCheck
    BY <2>1 DEF Verified
  <2>2. CASE ~Weak
    <3>1. b < at
      BY PairAssumption DEF Stage, Cell
    <3>2. QED
      BY <2>2, <3>1 DEF Written
  <2>3. QED
    BY <2>1, <2>2 DEF Reliable
<1>3. slots[idx][0] # Bits /\ TypeOf(slots[idx][0]) = job.type
  BY <1>1, <1>2, ContentByte
<1>4. IdOf(slots[idx]) = job.id
  <2>1. \A b \in 1..IdBytes : slots[idx][b] = job.id[b]
    BY <1>2, PairAssumption DEF Content, Cell
  <2>2. QED
    BY <1>1, <2>1 DEF IdOf, Id
<1>5. QED
  BY <1>1, <1>3, <1>4, FoundNext DEF Agree

LEMMA VerifyTypeInv ==
  ASSUME TypeInv, Verify
  PROVE  TypeInv'
<1> USE DEF TypeInv
<1>1. /\ irq = "verify" /\ irq' = "idle" /\ at' = 0 /\ job' = NoJob
      /\ UNCHANGED <<mode, slots, expired, working, toOpen>> /\ Paired(job.type)
  BY DEF Verify
<1>2. /\ idx \in Slot /\ job.type \in Type /\ job.id \in Id
      /\ idx + 1 \in 0..MaxSlots
  BY <1>1, IdRanges, PairAssumption DEF TypeOK, Stage, Slot
<1>3. \/ idx' = idx + 1 /\ binding' = [binding EXCEPT ![job.type] = job.id]
      \/ UNCHANGED <<idx, binding>>
  BY DEF Verify
<1>4. open' \in BOOLEAN /\ enabled' \subseteq Type /\ ok' \in 0..255
  BY <1>1, <1>2, PairedType
<1>5. idx' \in 0..MaxSlots /\ binding' \in [Type -> Id]
  BY <1>2, <1>3 DEF TypeOK
<1>6. job'.type \in Type /\ job'.id = NoId /\ job'.near \in BOOLEAN
  BY <1>1 DEF NoJob
<1>7. at' \in 0..(IdBytes + 1)
  BY <1>1, PairAssumption
<1>8. QED
  BY <1>1, <1>4, <1>5, <1>6, <1>7 DEF TypeOK, Stage

LEMMA VerifyIInv ==
  ASSUME IInv, Verify
  PROVE  IInv'
<1> USE DEF IInv
<1>1. irq = "verify" /\ irq' = "idle" /\ slots' = slots
  BY DEF Verify
<1>2. idx \in Slot /\ TypeInv'
  BY <1>1, VerifyTypeInv DEF TypeInv, Stage
<1>3. \/ Verified /\ idx' = idx + 1 /\ binding' = [binding EXCEPT ![job.type] = job.id]
      \/ ~Verified /\ UNCHANGED <<idx, binding>>
  BY DEF Verify
<1>4. CASE Verified
  <2>1. idx' = idx + 1 /\ slots[idx][0] # Bits /\ Found(slots, idx + 1) = binding'
    BY <1>1, <1>3, <1>4, VerifiedSlot
  <2>2. Table'
    BY <1>1, <1>2, <2>1, PairAssumption DEF Table, Slot
  <2>3. Agree'
    BY <1>1, <2>1 DEF Agree
  <2>4. Written'
    BY <1>1, <1>2, <2>1, PairAssumption DEF Written, Table, Slot
  <2>5. QED
    BY <1>2, <2>2, <2>3, <2>4
<1>5. CASE ~Verified
  <2>1. Table' /\ Agree'
    BY <1>1, <1>3, <1>5 DEF Table, Agree
  <2>2. Weak
    <3>1. ASSUME ~Weak, NEW b \in Cell
          PROVE  slots[idx][b] = Content(job, b)
      <4>1. b < at
        BY <1>1, PairAssumption DEF TypeInv, Stage, Cell
      <4>2. QED
        BY <1>1, <3>1, <4>1 DEF Written
    <3>2. QED
      BY <1>5, <3>1 DEF Verified
  <2>3. QED
    BY <1>2, <2>1, <2>2 DEF Written
<1>6. QED
  BY <1>4, <1>5

\* The steps that leave the table and the pairing in progress alone.
Aside ==
  \/ \E ty \in Type : DataFrame(ty) \/ OpenWindow(ty)
  \/ \E c \in Command : HostCommand(c)
  \/ TimeCheck \/ Expire \/ UNCHANGED vars

LEMMA AsideLeaves ==
  ASSUME Aside
  PROVE  UNCHANGED <<mode, slots, idx, binding, irq, at, job>>
<1>1. ASSUME NEW ty \in Type, DataFrame(ty) \/ OpenWindow(ty)
      PROVE  UNCHANGED <<mode, slots, idx, binding, irq, at, job>>
  BY <1>1 DEF DataFrame, OpenWindow
<1>2. ASSUME NEW c \in Command, HostCommand(c)
      PROVE  UNCHANGED <<mode, slots, idx, binding, irq, at, job>>
  BY <1>2 DEF HostCommand
<1>3. ASSUME TimeCheck \/ Expire \/ UNCHANGED vars
      PROVE  UNCHANGED <<mode, slots, idx, binding, irq, at, job>>
  BY <1>3 DEF TimeCheck, Expire, vars, ram
<1>4. QED
  BY <1>1, <1>2, <1>3 DEF Aside

LEMMA AsideTypeInv ==
  ASSUME TypeInv, Aside
  PROVE  TypeInv'
<1> DEFINE Rest == /\ open \in BOOLEAN /\ enabled \subseteq Type /\ expired \in BOOLEAN
                   /\ ok \in 0..255 /\ working \subseteq Type /\ toOpen \subseteq Type
<1>1. Rest'
  <2> USE DEF TypeInv, TypeOK
  <2>1. ASSUME NEW ty \in Type, DataFrame(ty) \/ OpenWindow(ty)
        PROVE  Rest'
    <3>1. CASE DataFrame(ty)
      BY <3>1 DEF DataFrame
    <3>2. CASE OpenWindow(ty)
      BY <3>2 DEF OpenWindow
    <3>3. QED
      BY <2>1, <3>1, <3>2
  <2>2. ASSUME NEW c \in Command, HostCommand(c)
        PROVE  Rest'
    <3>1. c \subseteq Type
      BY DEF Command
    <3>2. open' = open /\ expired' \in BOOLEAN
      BY <2>2, Zenon DEF HostCommand
    <3>3. ok' = 0 /\ toOpen' = c /\ UNCHANGED <<enabled, working>>
      BY <2>2 DEF HostCommand
    <3>4. QED
      BY <3>1, <3>2, <3>3
  <2>3. CASE TimeCheck \/ Expire
    BY <2>3 DEF TimeCheck, Expire
  <2>4. CASE UNCHANGED vars
    BY <2>4 DEF vars, ram
  <2>5. QED
    BY <2>1, <2>2, <2>3, <2>4 DEF Aside
<1>2. UNCHANGED <<mode, slots, idx, binding, irq, at, job>>
  BY AsideLeaves
<1>3. QED
  BY <1>1, <1>2 DEF TypeInv, TypeOK, Stage

LEMMA AsideIInv ==
  ASSUME IInv, Aside
  PROVE  IInv'
BY AsideLeaves, AsideTypeInv DEF IInv, Table, Written, Agree

LEMMA NextTypeInv ==
  ASSUME TypeInv, [Next]_vars
  PROVE  TypeInv'
<1>1. ASSUME NEW f \in Frame, NEW junk \in BOOLEAN, PairingFrame(f, junk)
      PROVE  TypeInv'
  BY <1>1, PairingFrameTypeInv
<1>2. QED
  BY <1>1, ProgramTypeInv, VerifyTypeInv, RestartTypeInv, AsideTypeInv DEF Next, Aside

LEMMA NextIInv ==
  ASSUME IInv, [Next]_vars
  PROVE  IInv'
<1>1. ASSUME NEW f \in Frame, NEW junk \in BOOLEAN, PairingFrame(f, junk)
      PROVE  IInv'
  BY <1>1, PairingFrameIInv
<1>2. QED
  BY <1>1, ProgramIInv, VerifyIInv, RestartIInv, AsideIInv DEF Next, Aside

THEOREM PairInvariant == Reliable /\ Spec => []IInv
<1>1. Reliable /\ Init => IInv
  BY InitIInv
<1>2. IInv /\ [Next]_vars => IInv'
  BY NextIInv
<1>3. QED
  BY <1>1, <1>2, PTL DEF Spec

\* The types are right whatever fails and whenever power does: custom_init finds an
\* end of any table, and no slot beyond the last is written.
THEOREM PairTypeCorrect == Spec => []TypeOK
<1>1. TypeInv /\ [Next]_vars => TypeInv'
  BY NextTypeInv
<1>2. TypeInv => TypeOK
  BY DEF TypeInv
<1>3. QED
  BY <1>1, <1>2, InitTypeInv, PTL DEF Spec

\* A restart finds in the table what the dongle is bound to, with weak cells too.
THEOREM PairRestartKeeps == Reliable /\ Spec => []RestartKeeps
<1>1. IInv => RestartKeeps
  <2>1. SUFFICES ASSUME IInv, idx \in Slot => slots[idx] = Blank
                 PROVE  End(slots) = idx /\ Found(slots, idx) = binding
    BY DEF RestartKeeps
  <2>2. idx \in Slot => slots[idx][0] = Bits
    BY <2>1, BlankSlot
  <2>3. QED
    BY <2>1, <2>2, EndAtIdx DEF IInv, TypeInv, Agree
<1>2. QED
  BY <1>1, PairInvariant, PTL

\* If cells hold what they are given, every byte is programmed once.
THEOREM PairProgramsErased ==
  ASSUME ~Weak
  PROVE  Spec => []ProgramsErased
<1>1. IInv => ProgramsErased
  <2>1. SUFFICES ASSUME IInv, irq = "program", NEW n \in Cell, n >= at
                 PROVE  slots[idx][n] = Bits
    BY DEF ProgramsErased, Nth
  <2>2. ~(n < at)
    BY <2>1, PairAssumption DEF IInv, TypeInv, TypeOK, Cell
  <2>3. QED
    BY <2>1, <2>2 DEF IInv, Written
<1>2. Reliable
  BY DEF Reliable
<1>3. QED
  BY <1>1, <1>2, PairInvariant, PTL

\* A loss of power at any moment, in the middle of a pairing and with cells that do
\* not take what they are given, changes the device of one type at most.
RestartChangesOne ==
  [][Restart => \E ty \in Type : \A u \in Type \ {ty} : binding'[u] = binding[u]]_vars

LEMMA RestartOne ==
  ASSUME IInv, Restart
  PROVE  \E ty \in Type : \A u \in Type \ {ty} : binding'[u] = binding[u]
<1> USE DEF IInv, TypeInv
<1>1. binding' = Found(slots, End(slots)) /\ binding \in [Type -> Id]
  BY DEF Restart, PowerUp, TypeOK
<1>2. CASE idx \in Slot => slots[idx][0] = Bits
  <2>1. binding' = binding
    BY <1>1, <1>2, EndAtIdx DEF Agree
  <2>2. QED
    BY <2>1
<1>3. CASE idx \in Slot /\ slots[idx][0] # Bits
  <2>1. binding' = [binding EXCEPT ![TypeOf(slots[idx][0])] = IdOf(slots[idx])]
    BY <1>1, <1>3, EndAtIdx, FoundNext DEF Agree
  <2>2. TypeOf(slots[idx][0]) \in Type
    BY TypeOfType
  <2>3. \A u \in Type \ {TypeOf(slots[idx][0])} : binding'[u] = binding[u]
    BY <1>1, <2>1
  <2>4. QED
    BY <2>2, <2>3
<1>4. QED
  BY <1>2, <1>3

THEOREM PairRestartChangesOne == Reliable /\ Spec => RestartChangesOne
<1>1. IInv => (Restart => \E ty \in Type : \A u \in Type \ {ty} : binding'[u] = binding[u])
  BY RestartOne
<1>2. QED
  BY <1>1, PairInvariant, PTL DEF RestartChangesOne
-----------------------------------------------------------------------------
(* The counter the host reads *)

Count(S) == (IF "mouse" \in S THEN 1 ELSE 0) + (IF "keyboard" \in S THEN 1 ELSE 0)

\* A window counts at most once before it closes; the pairing in progress has one.
OkInv ==
  /\ ok + Count(enabled) + Count(toOpen) <= 4
  /\ mode = "soft" /\ irq # "idle" => job.type \in enabled

LEMMA CountRange ==
  ASSUME NEW S
  PROVE  Count(S) \in 0..2
  BY DEF Count

LEMMA CountRemove ==
  ASSUME NEW S, NEW ty \in Type, ty \in S
  PROVE  Count(S \ {ty}) = Count(S) - 1
  BY DEF Count

LEMMA CountAdd ==
  ASSUME NEW S, NEW ty \in Type
  PROVE  Count(S \cup {ty}) <= Count(S) + 1
  BY DEF Count

LEMMA PairedOk ==
  ASSUME TypeOK, OkInv, NEW ty \in Type, Paired(ty),
         mode = "soft" => ty \in enabled, toOpen' = toOpen
  PROVE  ok' + Count(enabled') + Count(toOpen') <= 4
<1>1. /\ Count(enabled) \in 0..2 /\ Count(toOpen) \in 0..2 /\ ok \in 0..255
      /\ ok + Count(enabled) + Count(toOpen) <= 4
  BY CountRange DEF OkInv, TypeOK
<1>2. CASE mode = "soft"
  <2>1. enabled' = enabled \ {ty} /\ ok' = (ok + 1) % 256
    BY <1>2 DEF Paired
  <2>2. Count(enabled') = Count(enabled) - 1
    BY <1>2, <2>1, CountRemove
  <2>3. ok' = ok + 1
    BY <1>1, <2>1
  <2>4. QED
    BY <1>1, <2>2, <2>3
<1>3. CASE mode # "soft"
  BY <1>1, <1>3 DEF Paired
<1>4. QED
  BY <1>2, <1>3

LEMMA NextOkInv ==
  ASSUME TypeOK, OkInv, [Next]_vars
  PROVE  OkInv'
<1>1. /\ Count(enabled) \in 0..2 /\ Count(toOpen) \in 0..2 /\ ok \in 0..255 
      /\ ok + Count(enabled) + Count(toOpen) <= 4
  BY CountRange DEF OkInv, TypeOK
<1>2. ASSUME NEW f \in Frame, NEW junk \in BOOLEAN, PairingFrame(f, junk)
      PROVE  OkInv'
  <2>1. f.type \in Type /\ (mode = "soft" => f.type \in enabled)
    BY <1>2 DEF Frame, PairingFrame, Manual, Soft
  <2>2. CASE Room
    <3>1. job' = [type |-> f.type, id |-> f.id, near |-> f.near]
      BY <1>2, <2>2 DEF PairingFrame
    <3>2. job'.type = f.type
      BY <3>1
    <3>3. UNCHANGED <<mode, open, enabled, ok, toOpen>>
      BY <1>2, <2>2 DEF PairingFrame
    <3>4. QED
      BY <1>1, <2>1, <3>2, <3>3 DEF OkInv
  <2>3. CASE ~Room
    <3>1. /\ irq = "idle" /\ Paired(f.type)
          /\ UNCHANGED <<irq, mode, toOpen>>
      BY <1>2, <2>3 DEF PairingFrame
    <3>2. QED
      BY <1>1, <2>1, <3>1, PairedOk DEF OkInv
  <2>4. QED
    BY <2>2, <2>3
<1>3. CASE Program
  <2>1. UNCHANGED <<mode, open, enabled, ok, toOpen, job>> /\ irq # "idle"
    BY <1>3 DEF Program, ram
  <2>2. QED
    BY <2>1 DEF OkInv
<1>4. CASE Verify
  <2>1. irq # "idle" /\ irq' = "idle" /\ Paired(job.type) /\ UNCHANGED <<mode, toOpen>>
    BY <1>4 DEF Verify
  <2>2. job.type \in Type
    BY DEF TypeOK
  <2>3. QED
    BY <1>1, <2>1, <2>2, PairedOk DEF OkInv
<1>5. ASSUME NEW ty \in Type, DataFrame(ty)
      PROVE  OkInv'
  BY <1>5 DEF OkInv, DataFrame
<1>6. ASSUME NEW c \in Command, HostCommand(c)
      PROVE  OkInv'
  <2>1. ok' = 0 /\ irq' = "idle"
    BY <1>6 DEF HostCommand
  <2>2. Count(enabled') \in 0..2 /\ Count(toOpen') \in 0..2
    BY CountRange
  <2>3. QED
    BY <2>1, <2>2 DEF OkInv
<1>7. ASSUME NEW ty \in Type, OpenWindow(ty)
      PROVE  OkInv'
  <2>1. /\ irq' = "idle" /\ ok' = ok /\ ty \in toOpen
        /\ enabled' = enabled \cup {ty} /\ toOpen' = toOpen \ {ty}
    BY <1>7 DEF OpenWindow
  <2>2. Count(toOpen') = Count(toOpen) - 1 /\ Count(enabled') <= Count(enabled) + 1
    BY <2>1, CountRemove, CountAdd
  <2>3. Count(enabled') \in 0..2
    BY CountRange
  <2>4. QED
    BY <1>1, <2>1, <2>2, <2>3 DEF OkInv
<1>8. CASE TimeCheck
  <2>1. irq' = "idle" /\ ok' = ok /\ toOpen' = toOpen /\ (enabled' = {} \/ enabled' = enabled)
    BY <1>8 DEF TimeCheck
  <2>2. Count({}) = 0
    BY DEF Count
  <2>3. QED
    BY <1>1, <2>1, <2>2 DEF OkInv
<1>9. CASE Expire
  BY <1>9 DEF OkInv, Expire
<1>10. CASE Restart
  <2>1. ok' = 0 /\ enabled' = {} /\ toOpen' = {} /\ irq' = "idle"
    BY <1>10 DEF Restart, PowerUp
  <2>2. QED
    BY <2>1 DEF OkInv, Count
<1>11. CASE UNCHANGED vars
  BY <1>11 DEF vars, ram, OkInv
<1>12. QED
  BY <1>2, <1>3, <1>4, <1>5, <1>6, <1>7, <1>8, <1>9, <1>10, <1>11 DEF Next

\* host_cmd_paring_ok stays far from its eight bits, whatever the cells do.
THEOREM PairOkNeverWraps == Spec => []OkNeverWraps
<1>1. Init => OkInv
  BY DEF Init, OkInv, Count
<1>2. TypeOK /\ OkInv /\ [Next]_vars => OkInv'
  BY NextOkInv
<1>3. TypeOK /\ OkInv => OkNeverWraps
  <2>1. SUFFICES ASSUME TypeOK, OkInv
                 PROVE  ok <= 4
    BY DEF OkNeverWraps
  <2>2. Count(enabled) \in 0..2 /\ Count(toOpen) \in 0..2 /\ ok \in 0..255
    BY <2>1, CountRange DEF TypeOK
  <2>3. QED
    BY <2>1, <2>2 DEF OkInv
<1>4. QED
  BY <1>1, <1>2, <1>3, PairTypeCorrect, PTL DEF Spec

\* What is true of usb.c:438, "For binding OK": as long as the table has room and its
\* cells hold what they are given, what the host is told means that the dongle is
\* bound to another device.
OkMeansBoundWithRoom == [][ok' > ok => binding' # binding \/ idx = MaxSlots]_vars

\* The device being paired is another one than the dongle is bound to.
Another == irq # "idle" => job.id # binding[job.type]

LEMMA NextAnother ==
  ASSUME TypeInv, Another, [Next]_vars
  PROVE  Another'
<1>1. ASSUME NEW f \in Frame, NEW junk \in BOOLEAN, PairingFrame(f, junk)
      PROVE  Another'
  <2>1. f.id # binding[f.type] /\ irq = "idle" /\ binding' = binding
    BY <1>1 DEF PairingFrame
  <2>2. CASE Room
    <3>1. job' = [type |-> f.type, id |-> f.id, near |-> f.near]
      BY <1>1, <2>2 DEF PairingFrame
    <3>2. job'.type = f.type /\ job'.id = f.id
      BY <3>1
    <3>3. QED
      BY <2>1, <3>2 DEF Another
  <2>3. CASE ~Room
    BY <1>1, <2>1, <2>3 DEF PairingFrame, Another
  <2>4. QED
    BY <2>2, <2>3
<1>2. CASE Program
  BY <1>2 DEF Program, ram, Another
<1>3. CASE Verify
  BY <1>3 DEF Verify, Another
<1>4. CASE Restart
  BY <1>4 DEF Restart, PowerUp, Another
<1>5. CASE Aside
  BY <1>5, AsideLeaves DEF Another
<1>6. QED
  BY <1>1, <1>2, <1>3, <1>4, <1>5 DEF Next, Aside

LEMMA PairedCounts ==
  ASSUME IInv, ~Weak, Another, [Next]_vars, ok' > ok
  PROVE  binding' # binding \/ idx = MaxSlots
<1> USE DEF IInv, TypeInv
<1>1. ASSUME NEW f \in Frame, NEW junk \in BOOLEAN, PairingFrame(f, junk)
      PROVE  idx = MaxSlots
  <2>1. CASE Room
    BY <1>1, <2>1 DEF PairingFrame, TypeOK
  <2>2. CASE ~Room
    BY <2>2, PairAssumption DEF Room, TypeOK
  <2>3. QED
    BY <2>1, <2>2
<1>2. CASE Verify
  <2>1. irq = "verify" /\ job.id # binding[job.type] /\ job.type \in Type
    BY <1>2 DEF Verify, Another, TypeOK
  <2>2. Verified
    <3>1. \A b \in Cell : slots[idx][b] = Content(job, b)
      <4>1. \A b \in Cell : b < at
        BY <2>1, PairAssumption DEF Stage, Cell
      <4>2. QED
        BY <2>1, <4>1 DEF Written
    <3>2. QED
      BY <3>1 DEF Verified
  <2>3. binding' = [binding EXCEPT ![job.type] = job.id]
    BY <1>2, <2>2 DEF Verify
  <2>4. QED
    BY <2>1, <2>3 DEF TypeOK
<1>3. ~Restart
  BY PairAssumption DEF Restart, PowerUp, TypeOK
<1>4. ~Program
  BY DEF Program, ram, TypeOK
<1>5. ~Aside
  <2>1. ASSUME NEW ty \in Type
        PROVE  ~DataFrame(ty) /\ ~OpenWindow(ty)
    BY DEF DataFrame, OpenWindow, TypeOK
  <2>2. ASSUME NEW c \in Command
        PROVE  ~HostCommand(c)
    BY DEF HostCommand, TypeOK
  <2>3. ~TimeCheck /\ ~Expire /\ ~UNCHANGED vars
    BY DEF TimeCheck, Expire, vars, ram, TypeOK
  <2>4. QED
    BY <2>1, <2>2, <2>3 DEF Aside
<1>6. QED
  BY <1>1, <1>2, <1>3, <1>4, <1>5 DEF Next, Aside

THEOREM PairOkMeansBound ==
  ASSUME ~Weak
  PROVE  Spec => OkMeansBoundWithRoom
<1>1. Reliable
  BY DEF Reliable
<1>2. Init => Another
  BY DEF Init, Another
<1>3. IInv /\ Another /\ [Next]_vars => Another'
  BY NextAnother DEF IInv
<1>4. IInv /\ Another /\ [Next]_vars => (ok' > ok => binding' # binding \/ idx = MaxSlots)
  BY PairedCounts
<1>5. QED
  BY <1>1, <1>2, <1>3, <1>4, PairInvariant, PTL DEF Spec, OkMeansBoundWithRoom
-----------------------------------------------------------------------------
(* The table implements BindingStore *)

\* What a restart would find.
InStep ==
  Found(slots, End(slots)) =
    IF irq = "idle" \/ at = 0 THEN binding
    ELSE [binding EXCEPT ![job.type] = IdOf(slots[idx])]

LEMMA IInvInStep ==
  ASSUME IInv, ~Weak
  PROVE  InStep
<1> USE DEF IInv, TypeInv, InStep
<1>1. CASE irq = "idle" \/ at = 0
  <2>1. idx \in Slot => slots[idx][0] = Bits
    <3>1. CASE irq = "idle"
      BY <3>1, BlankSlot DEF Written
    <3>2. CASE irq # "idle"
      BY <1>1, <3>2, BlankSlot DEF Written
    <3>3. QED
      BY <3>1, <3>2
  <2>2. End(slots) = idx
    BY <2>1, EndAtIdx
  <2>3. QED
    BY <1>1, <2>2 DEF Agree
<1>2. CASE irq # "idle" /\ at # 0
  <2>1. idx \in Slot /\ 0 \in Cell /\ job.type \in Type /\ job.id \in Id
    BY <1>2, BlankSlot, IdRanges DEF TypeOK
  <2>2. 0 < at
    BY <1>2, PairAssumption DEF TypeOK
  <2>3. slots[idx][0] = Content(job, 0)
    BY <1>2, <2>1, <2>2 DEF Written
  <2>4. slots[idx][0] # Bits /\ TypeOf(slots[idx][0]) = job.type
    BY <2>1, <2>3, ContentByte
  <2>5. End(slots) = idx + 1
    BY <2>1, <2>4, EndAtIdx
  <2>6. QED
    BY <1>2, <2>1, <2>4, <2>5, FoundNext DEF Agree
<1>3. QED
  BY <1>1, <1>2

\* A byte more of an id: only the type being paired is out of step.
LEMMA ProgramStores ==
  ASSUME IInv, IInv', InStep, InStep', ~Weak, Program
  PROVE  Store!Store(job.type)
<1>1. /\ irq = "program" /\ irq' # "idle" /\ at' = at + 1 /\ at \in Cell
      /\ UNCHANGED <<binding, job>>
  BY ProgramStep DEF IInv, TypeInv, ram
<1>2. at' # 0
  BY <1>1, PairAssumption DEF Cell
<1>3. binding \in [Type -> Id] /\ job.type \in Type
  BY DEF IInv, TypeInv, TypeOK
<1>4. Found(slots, End(slots))' = [binding EXCEPT ![job.type] = IdOf(slots[idx])']
  BY <1>1, <1>2 DEF InStep
<1>5. \A u \in Type \ {job.type} : Found(slots, End(slots))[u] = binding[u]
  BY <1>3 DEF InStep
<1>6. \A u \in Type \ {job.type} :
        Found(slots, End(slots))'[u] = Found(slots, End(slots))[u]
  BY <1>3, <1>4, <1>5
<1>7. Found(slots, End(slots))' \in [Type -> Id]
  BY FoundType DEF IInv, TypeInv, TypeOK
<1>8. QED
  BY <1>1, <1>5, <1>6, <1>7 DEF Store!Store

LEMMA NextStores ==
  ASSUME IInv, IInv', InStep, InStep', ~Weak, [Next]_vars
  PROVE  [Store!Next]_<<Found(slots, End(slots)), binding>>
<1>1. job.type \in Type
  BY DEF IInv, TypeInv, TypeOK
<1>2. CASE Program
  BY <1>1, <1>2, ProgramStores DEF Store!Next
<1>3. CASE Verify
  <2>1. irq = "verify" /\ at = IdBytes + 1 /\ slots' = slots
    BY <1>3 DEF Verify, IInv, TypeInv, Stage
  <2>2. irq' = "idle"
    BY <1>3 DEF Verify
  <2>3. (Found(slots, End(slots)) = binding)'
    BY <2>2 DEF InStep
  <2>4. QED
    BY <2>1, <2>3 DEF Store!Next, Store!Serve
<1>4. CASE Restart
  BY <1>4 DEF Restart, PowerUp, Store!Next, Store!Serve
<1>5. CASE UNCHANGED <<slots, binding>>
  BY <1>5
<1>6. ASSUME NEW f \in Frame, NEW junk \in BOOLEAN, PairingFrame(f, junk)
      PROVE  UNCHANGED <<slots, binding>>
  BY <1>6 DEF PairingFrame
<1>7. ASSUME NEW ty \in Type, DataFrame(ty) \/ OpenWindow(ty)
      PROVE  UNCHANGED <<slots, binding>>
  BY <1>7 DEF DataFrame, OpenWindow
<1>8. ASSUME NEW c \in Command, HostCommand(c)
      PROVE  UNCHANGED <<slots, binding>>
  BY <1>8 DEF HostCommand
<1>9. TimeCheck \/ Expire \/ UNCHANGED vars => UNCHANGED <<slots, binding>>
  BY DEF TimeCheck, Expire, vars, ram
<1>10. QED
  BY <1>2, <1>3, <1>4, <1>5, <1>6, <1>7, <1>8, <1>9 DEF Next

\* If cells hold what they are given, with power failing at any time: the dongle
\* serves a device only after a restart would serve it, and a pairing that is
\* interrupted leaves the device of the other type alone.
THEOREM PairStores ==
  ASSUME ~Weak
  PROVE  Spec => Stores
<1>1. Reliable
  BY DEF Reliable
<1>2. Init => Store!Init
  <2>1. SUFFICES ASSUME Init
                 PROVE  Store!Init
    OBVIOUS
  <2>2. IInv /\ irq = "idle"
    BY <1>1, <2>1, InitIInv DEF Init
  <2>3. Found(slots, End(slots)) = binding
    BY <2>2, IInvInStep DEF InStep
  <2>4. QED
    BY <2>1, <2>3 DEF Init, Store!Init
<1>3. IInv => InStep
  BY IInvInStep
<1>4. /\ IInv /\ IInv' /\ InStep /\ InStep' /\ [Next]_vars
      => [Store!Next]_<<Found(slots, End(slots)), binding>>
  BY NextStores
<1>5. QED
  BY <1>1, <1>2, <1>3, <1>4, PairInvariant, PTL DEF Spec, Stores, Store!Spec
=============================================================================
