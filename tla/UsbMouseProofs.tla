--------------------------- MODULE UsbMouseProofs ---------------------------
(***************************************************************************)
(* Theorems about UsbMouse, for every size of the ring and of a frame.     *)
(***************************************************************************)
EXTENDS UsbMouse, Integers, TLAPS

USE MouseAssumption

\* The way from slot i to the write pointer, the entries of the ring, and the number
\* of the oldest of them (of the next one, if there is none).
Ahead(i) == IF wptr >= i THEN wptr - i ELSE wptr - i + Size
Length == Ahead(rptr)
Oldest == count + 1 - Length

\* The ring holds the youngest samples, in order.
Window == \A i \in 0 .. Size - 1 :
            Ahead(i) \in 1 .. Length => ring[i].n = count + 1 - Ahead(i)

\* What has been sent is older than all that is in the ring, and directly before it
\* if nothing was dropped.
Behind == sent < Oldest /\ (~dropped => sent = Oldest - 1)

\* The sample the main loop has loaded is the oldest of the ring, or has been
\* dropped since, by the one frame that may come meanwhile.
Loaded ==
  \/ data.n = Oldest /\ Length >= 1
  \/ data.n = Oldest - 1 /\ came /\ left = 0 /\ dropped /\ Length = Size - 1

Order ==
  /\ task \in {"idle", "release"} => Behind
  /\ task = "send" => Behind /\ data.n > sent /\ Loaded
  /\ task \in {"load", "store"} => sent = data.n /\ Loaded
  /\ task = "store" => reg = rptr \/ (rptr = Inc(reg) /\ data.n < Oldest)

\* What the main loop sends is what the host will see, until the bits are stored.
Sending == task \in {"load", "store"} /\ data.still => Pending

IInv ==
  /\ TypeOK /\ count + left <= MaxSamples /\ (left > 0 => came)
  /\ Window /\ Order /\ NothingStuck /\ Sending

LEMMA IncType == \A p \in 0 .. Size - 1 : Inc(p) \in 0 .. Size - 1
BY DEF Inc

LEMMA InitIInv == Init => IInv
<1> SUFFICES ASSUME Init PROVE IInv
  OBVIOUS
<1>1. TypeOK
  <2>1. Still \in Entry /\ ring \in [0 .. Size - 1 -> Entry]
    BY DEF Init, Entry, Still
  <2>2. /\ wptr \in 0 .. Size - 1 /\ rptr \in 0 .. Size - 1 /\ reg \in 0 .. Size - 1
        /\ btnCnt \in 0 .. DebounceLen /\ count \in 0 .. MaxSamples
        /\ left \in 0 .. FrameMax /\ sent \in 0 .. MaxSamples
    BY DEF Init
  <2>3. /\ data \in Entry /\ ep \in Entry \cup {Free} /\ btn \in BOOLEAN /\ host \in BOOLEAN
        /\ came \in BOOLEAN /\ dropped \in BOOLEAN /\ task = "idle"
        /\ {notReleased, timedOut, recent} \subseteq BOOLEAN
    BY <2>1, Zenon DEF Init
  <2> QED  BY <2>1, <2>2, <2>3 DEF TypeOK
<1>2. Length = 0 /\ Oldest = 1
  BY DEF Init, Length, Ahead, Oldest
<1>3. Window /\ Order
  BY <1>2 DEF Init, Window, Order, Behind
<1> QED  BY <1>1, <1>3 DEF Init, IInv, NothingStuck, Sending, Pending, Busy, Free

\* Slots the write pointer has not reached keep their distance plus one.
LEMMA AddIInv ==
  ASSUME IInv, NEW b \in BOOLEAN, NEW moves \in BOOLEAN, AddSample(b, moves)
  PROVE  IInv'
<1> USE DEF IInv
<1>1. wptr \in 0 .. Size - 1 /\ rptr \in 0 .. Size - 1 /\ count \in Nat /\ left \in Nat
  BY DEF TypeOK
<1>2. wptr' = Inc(wptr) /\ count' = count + 1 /\ left > 0
  BY DEF AddSample
<1>3. UNCHANGED <<came, mainVars, usbVars>>
  BY DEF AddSample
<1>4. BtnAfter(b) \in BOOLEAN /\ CntAfter(b) \in 0 .. DebounceLen
  BY DEF TypeOK, BtnAfter, CntAfter, Settled
<1>5. [n |-> count + 1, still |-> ~btn' /\ ~moves] \in Entry
  BY <1>1, <1>2 DEF Entry, TypeOK
<1>6. ring' = [ring EXCEPT ![wptr] = [n |-> count + 1, still |-> ~btn' /\ ~moves]]
  BY DEF AddSample
<1>7. /\ ring' \in [0 .. Size - 1 -> Entry] /\ ring'[wptr].n = count + 1
      /\ \A i \in 0 .. Size - 1 : i # wptr => ring'[i] = ring[i]
  BY <1>1, <1>5, <1>6 DEF TypeOK
<1>10. NothingStuck' /\ Sending'
  BY <1>3 DEF NothingStuck, Sending, Pending, Busy, mainVars, usbVars
<1>8. CASE wptr' = rptr
  <2>1. rptr' = Inc(rptr) /\ left' = 0 /\ dropped' = TRUE
    BY <1>8 DEF AddSample, Overruns
  <2>2. TypeOK'
    BY <1>1, <1>2, <1>3, <1>4, <1>7, <2>1, IncType DEF TypeOK, AddSample, mainVars, usbVars
  <2>3. Length = Size - 1 /\ Length' = Size - 1 /\ Oldest' = Oldest + 1
    BY <1>1, <1>2, <1>8, <2>1 DEF Length, Ahead, Oldest, Inc
  <2>4. Window'
    <3> SUFFICES ASSUME NEW i \in 0 .. Size - 1, Ahead(i)' \in 1 .. Size - 1
                 PROVE  ring'[i].n = count' + 1 - Ahead(i)'
      BY <2>3 DEF Window
    <3>1. CASE i = wptr
      BY <1>1, <1>2, <1>7, <3>1 DEF Ahead, Inc
    <3>2. CASE i # wptr
      <4>1. Ahead(i)' = Ahead(i) + 1 /\ Ahead(i) \in 1 .. Size - 1
        BY <1>1, <1>2, <3>2 DEF Ahead, Inc
      <4>2. ring[i].n = count + 1 - Ahead(i)
        BY <2>3, <4>1 DEF Window
      <4>3. Ahead(i) \in Nat
        BY <4>1
      <4> QED  BY <1>1, <1>2, <1>7, <3>2, <4>1, <4>2, <4>3
    <3> QED  BY <3>1, <3>2
  <2>5. Behind => Behind'
    BY <1>1, <1>3, <2>1, <2>3 DEF Behind, usbVars, Oldest, TypeOK
  <2>6. Order'
    <3>1. came /\ came' /\ ~(left = 0)
      BY <1>1, <1>2, <1>3
    <3>2. CASE task \in {"idle", "release"}
      BY <1>3, <2>5, <3>2 DEF Order, mainVars
    <3>3. CASE task \in {"send", "load", "store"}
      <4>1. data.n = Oldest
        BY <1>2, <3>1, <3>3 DEF Order, Loaded
      <4>2. data'.n = Oldest' - 1 /\ Loaded'
        BY <1>1, <1>3, <2>1, <2>3, <3>1, <4>1 DEF Loaded, mainVars, Oldest, Length, Ahead
      <4>3. task = "store" => reg = rptr
        BY <1>1, <3>3, <4>1 DEF Order, Oldest, Length, Ahead
      <4>4. task' = task /\ data' = data /\ reg' = reg /\ sent' = sent
        BY <1>3 DEF mainVars, usbVars
      <4>5. data'.n < Oldest'
        BY <1>1, <2>1, <2>3, <4>1, <4>4 DEF Oldest, Length, Ahead
      <4> QED  BY <2>1, <2>5, <3>3, <4>2, <4>3, <4>4, <4>5 DEF Order
    <3> QED  BY <1>3, <3>2, <3>3 DEF Order, TypeOK, mainVars
  <2> QED  BY <1>1, <1>2, <1>3, <2>1, <2>2, <2>4, <2>6, <1>10 DEF AddSample
<1>9. CASE wptr' # rptr
  <2>1. rptr' = rptr /\ left' = left - 1 /\ dropped' = dropped
    BY <1>9 DEF AddSample, Overruns
  <2>2. TypeOK'
    BY <1>1, <1>2, <1>3, <1>4, <1>7, <2>1, IncType DEF TypeOK, AddSample, mainVars, usbVars
  <2>3. Length' = Length + 1 /\ Oldest' = Oldest
    BY <1>1, <1>2, <1>9, <2>1 DEF Length, Ahead, Oldest, Inc
  <2>4. Window'
    <3> SUFFICES ASSUME NEW i \in 0 .. Size - 1, Ahead(i)' \in 1 .. Length'
                 PROVE  ring'[i].n = count' + 1 - Ahead(i)'
      BY DEF Window
    <3>1. CASE i = wptr
      BY <1>1, <1>2, <1>7, <3>1 DEF Ahead, Inc
    <3>2. CASE i # wptr
      <4>1. Ahead(i)' = Ahead(i) + 1 /\ Ahead(i) \in 1 .. Length
        BY <1>1, <1>2, <2>3, <3>2 DEF Ahead, Inc, Length
      <4> QED  BY <1>1, <1>2, <1>7, <3>2, <4>1 DEF Window
    <3> QED  BY <3>1, <3>2
  <2>5. Order'
    <3>1. UNCHANGED <<task, data, reg, sent, came>>
      BY <1>3 DEF mainVars, usbVars
    <3>2. Loaded => Loaded'
      BY <1>1, <1>2, <2>1, <2>3, <3>1 DEF Loaded, Length, Ahead
    <3>3. Behind => Behind'
      BY <2>1, <2>3, <3>1 DEF Behind
    <3> QED  BY <2>1, <2>3, <3>1, <3>2, <3>3 DEF Order
  <2> QED  BY <1>1, <1>2, <1>3, <2>1, <2>2, <2>4, <2>5, <1>10 DEF AddSample
<1> QED  BY <1>8, <1>9

\* Everything else leaves the ring alone, except that it takes its oldest entry.
LEMMA RingStays ==
  ASSUME UNCHANGED <<wptr, rptr, ring, count>>
  PROVE  Length' = Length /\ Oldest' = Oldest /\ Window' = Window
<1>1. \A i : Ahead(i)' = Ahead(i)
  BY DEF Ahead
<1>2. Length' = Length /\ Oldest' = Oldest
  BY DEF Length, Ahead, Oldest
<1> QED  BY <1>1, <1>2 DEF Window

LEMMA ReportIInv == IInv /\ Report => IInv'
<1> SUFFICES ASSUME IInv, Report PROVE IInv'
  OBVIOUS
<1> USE DEF IInv
<1>1. /\ UNCHANGED <<wptr, ring, btn, btnCnt, count, left, dropped, rptr, reg, ep, host,
                     sent, notReleased, timedOut>>
      /\ left = 0 /\ task = "idle" /\ recent' = (recent \/ Busy) /\ came' = FALSE
  BY DEF Report
<1>2. wptr \in 0 .. Size - 1 /\ rptr \in 0 .. Size - 1 /\ count \in Nat
  BY DEF TypeOK
<1>3. Length' = Length /\ Oldest' = Oldest /\ Window'
  BY <1>1, RingStays
<1>4. Behind /\ Behind'
  BY <1>1, <1>3 DEF Order, Behind
<1>5. CASE task' = "release" /\ UNCHANGED data
  <2>1. TypeOK'
    BY <1>1, <1>5 DEF TypeOK, Busy
  <2>2. Order' /\ NothingStuck' /\ Sending'
    BY <1>1, <1>4, <1>5 DEF Order, NothingStuck, Sending, Pending, Busy
  <2> QED  BY <1>1, <1>3, <2>1, <2>2
<1>6. CASE wptr # rptr /\ task' = "send" /\ data' = ring[rptr]
  <2>1. TypeOK'
    BY <1>1, <1>6 DEF TypeOK, Busy
  <2>2. Length \in 1 .. Size - 1
    BY <1>2, <1>6 DEF Length, Ahead
  <2>3. data'.n = Oldest
    BY <1>2, <1>6, <2>2 DEF Window, Length, Oldest
  <2>4. Loaded' /\ data'.n > sent'
    BY <1>1, <1>2, <1>3, <1>4, <2>2, <2>3 DEF Loaded, Behind, TypeOK, Oldest
  <2>5. Order'
    BY <1>4, <1>6, <2>4 DEF Order
  <2>6. NothingStuck' /\ Sending'
    BY <1>1, <1>6 DEF NothingStuck, Sending, Pending, Busy
  <2> QED  BY <1>1, <1>3, <2>1, <2>5, <2>6
<1> QED  BY <1>5, <1>6 DEF Report

LEMMA SendIInv == IInv /\ Send => IInv'
<1> SUFFICES ASSUME IInv, Send PROVE IInv'
  OBVIOUS
<1> USE DEF IInv
<1>1. UNCHANGED <<irqVars, rptr, data, reg, host, recent>> /\ left = 0 /\ task = "send"
  BY DEF Send
<1>2. Length' = Length /\ Oldest' = Oldest /\ Window'
  BY <1>1, RingStays DEF irqVars
<1>3. Behind /\ data.n > sent /\ Loaded /\ Loaded'
  BY <1>1, <1>2 DEF Order, Loaded, irqVars
<1>4. CASE Busy
  <2>1. task' = "release" /\ notReleased' = TRUE /\ timedOut' = FALSE /\ UNCHANGED <<ep, sent>>
    BY <1>4 DEF Send
  <2>2. TypeOK'
    BY <1>1, <2>1 DEF TypeOK, irqVars
  <2>3. Order' /\ NothingStuck' /\ Sending'
    BY <1>1, <1>2, <1>3, <2>1 DEF Order, Behind, NothingStuck, Sending, irqVars
  <2> QED  BY <1>1, <1>2, <2>2, <2>3 DEF irqVars
<1>5. CASE ~Busy
  <2>1. task' = "load" /\ ep' = data /\ sent' = data.n /\ UNCHANGED <<notReleased, timedOut>>
    BY <1>5 DEF Send
  <2>2. TypeOK'
    BY <1>1, <2>1 DEF TypeOK, irqVars, Entry
  <2>3. ep' # Free
    <3>1. data.n > 0
      BY <1>3 DEF TypeOK, Entry
    <3> QED  BY <2>1, <3>1 DEF Free
  <2>4. Order' /\ NothingStuck' /\ Sending'
    BY <1>1, <1>3, <2>1, <2>3 DEF Order, NothingStuck, Sending, Pending, Busy
  <2> QED  BY <1>1, <1>2, <2>2, <2>4 DEF irqVars
<1> QED  BY <1>4, <1>5

\* The store of usbmouse_rptr takes the entry that was sent, or nothing if the
\* interrupt has dropped it between load and store.  If the interrupt dropped it
\* before the load, one more entry goes, but the ring has been full then.
LEMMA StoreIInv == IInv /\ Store => IInv'
<1> SUFFICES ASSUME IInv, Store PROVE IInv'
  OBVIOUS
<1> USE DEF IInv
<1>1. /\ UNCHANGED <<irqVars, data, reg, ep, host, sent, recent>>
      /\ left = 0 /\ task = "store" /\ task' = "release" /\ rptr' = Inc(reg)
      /\ notReleased' = ~data.still /\ timedOut' = (timedOut /\ data.still)
  BY DEF Store, AfterSend
<1>2. wptr \in 0 .. Size - 1 /\ rptr \in 0 .. Size - 1 /\ reg \in 0 .. Size - 1 /\ count \in Nat
  BY DEF TypeOK
<1>3. TypeOK'
  BY <1>1, <1>2, IncType DEF TypeOK, irqVars, Entry
<1>4. sent = data.n /\ Loaded /\ (reg = rptr \/ (rptr = Inc(reg) /\ data.n < Oldest))
  BY <1>1 DEF Order
<1>5. wptr' = wptr /\ ring' = ring /\ count' = count /\ dropped' = dropped
  BY <1>1 DEF irqVars
<1>8. NothingStuck' /\ Sending'
  BY <1>1 DEF NothingStuck, Sending, Pending, Busy
<1>6. CASE reg = rptr
  <2>1. Length >= 1
    BY <1>4 DEF Loaded
  <2>2. Length' = Length - 1 /\ Oldest' = Oldest + 1
    BY <1>1, <1>2, <1>5, <1>6, <2>1 DEF Length, Ahead, Oldest, Inc
  <2>3. Window'
    <3> SUFFICES ASSUME NEW i \in 0 .. Size - 1, Ahead(i)' \in 1 .. Length'
                 PROVE  ring'[i].n = count' + 1 - Ahead(i)'
      BY DEF Window
    <3>1. Ahead(i)' = Ahead(i) /\ Ahead(i) \in 1 .. Length
      BY <1>2, <1>5, <2>2 DEF Ahead, Length
    <3> QED  BY <1>5, <3>1 DEF Window
  <2>4. Behind'
    BY <1>1, <1>2, <1>4, <1>5, <2>2 DEF Behind, Loaded, Oldest, Length, Ahead
  <2> QED  BY <1>1, <1>3, <2>3, <2>4, <1>8 DEF Order, irqVars
<1>7. CASE reg # rptr
  <2>1. rptr' = rptr /\ data.n < Oldest
    BY <1>1, <1>4, <1>7
  <2>2. Length' = Length /\ Oldest' = Oldest /\ Window'
    BY <1>5, <2>1, RingStays
  <2>3. Behind'
    <3>1. Oldest \in Int
      BY <1>2 DEF Oldest, Length, Ahead
    <3>2. dropped
      BY <1>4, <2>1, <3>1 DEF Loaded
    <3> QED  BY <1>1, <1>4, <1>5, <2>1, <2>2, <3>2 DEF Behind
  <2> QED  BY <1>1, <1>3, <2>2, <2>3, <1>8 DEF Order, irqVars
<1> QED  BY <1>6, <1>7

\* A frame that comes while the main loop holds an entry is the first of the pass.
LEMMA FrameIInv == IInv /\ Frame => IInv'
<1> SUFFICES ASSUME IInv, Frame PROVE IInv'
  OBVIOUS
<1> USE DEF IInv
<1>1. /\ left = 0 /\ (task = "idle" \/ ~came) /\ came' = TRUE
      /\ left' \in 1 .. FrameMax /\ count + left' <= MaxSamples
      /\ UNCHANGED <<wptr, ring, btn, btnCnt, count, dropped, rptr, mainVars, usbVars>>
  BY DEF Frame
<1>2. TypeOK'
  BY <1>1 DEF TypeOK, mainVars, usbVars
<1>3. Length' = Length /\ Oldest' = Oldest /\ Window'
  BY <1>1, RingStays
<1>4. Order'
  <2>1. task # "idle" => ~came
    BY <1>1
  <2>2. task # "idle" /\ Loaded => Loaded'
    BY <1>1, <1>3, <2>1 DEF Loaded, mainVars
  <2> QED  BY <1>1, <1>3, <2>2 DEF Order, Behind, mainVars, usbVars
<1> QED  BY <1>1, <1>2, <1>3, <1>4 DEF NothingStuck, Sending, Pending, Busy, mainVars, usbVars

LEMMA LoadIInv == IInv /\ Load => IInv'
<1> SUFFICES ASSUME IInv, Load PROVE IInv'
  OBVIOUS
<1> USE DEF IInv
<1>1. /\ left = 0 /\ task = "load" /\ task' = "store" /\ reg' = rptr
      /\ UNCHANGED <<irqVars, rptr, data, usbVars>>
  BY DEF Load
<1>2. TypeOK'
  BY <1>1 DEF TypeOK, irqVars, usbVars
<1>3. Length' = Length /\ Oldest' = Oldest /\ Window'
  BY <1>1, RingStays DEF irqVars
<1>4. Order'
  BY <1>1, <1>3 DEF Order, Loaded, irqVars, usbVars
<1> QED  BY <1>1, <1>2, <1>3, <1>4 DEF NothingStuck, Sending, Pending, Busy, irqVars, usbVars

LEMMA ReleaseIInv == IInv /\ Release => IInv'
<1> SUFFICES ASSUME IInv, Release PROVE IInv'
  OBVIOUS
<1> USE DEF IInv
<1>1. /\ left = 0 /\ task = "release" /\ task' = "idle"
      /\ UNCHANGED <<irqVars, rptr, data, reg, host, sent, timedOut, recent>>
      /\ \/ ep' = Still /\ notReleased' = FALSE
         \/ UNCHANGED <<ep, notReleased>>
  BY DEF Release
<1>2. Still \in Entry /\ Still # Free /\ Still.still
  BY DEF Still, Free, Entry
<1>3. TypeOK'
  BY <1>1, <1>2 DEF TypeOK, irqVars
<1>4. Length' = Length /\ Oldest' = Oldest /\ Window'
  BY <1>1, RingStays DEF irqVars
<1>5. Order'
  BY <1>1, <1>4 DEF Order, Behind, irqVars
<1>6. NothingStuck' /\ Sending'
  BY <1>1, <1>2 DEF NothingStuck, Sending, Pending, Busy
<1> QED  BY <1>1, <1>3, <1>4, <1>5, <1>6 DEF irqVars

LEMMA HostIInv == IInv /\ (HostFetch \/ BusReset \/ Expire \/ Pause) => IInv'
<1> SUFFICES ASSUME IInv, HostFetch \/ BusReset \/ Expire \/ Pause PROVE IInv'
  OBVIOUS
<1> USE DEF IInv
<1>1. UNCHANGED <<irqVars, rptr, mainVars, sent>>
  BY DEF HostFetch, BusReset, Expire, Pause
<1>2. TypeOK'
  <2>1. CASE HostFetch
    <3>1. ep.still \in BOOLEAN
      <4>1. Free \in Entry
        BY DEF Free, Entry
      <4>2. ep \in Entry
        BY <4>1 DEF TypeOK
      <4> QED  BY <4>2 DEF Entry
    <3> QED  BY <2>1, <3>1 DEF HostFetch, TypeOK, irqVars, mainVars
  <2>2. CASE BusReset
    BY <2>2 DEF BusReset, TypeOK, irqVars, mainVars
  <2>3. CASE Expire
    BY <2>3 DEF Expire, TypeOK, irqVars, mainVars
  <2>4. CASE Pause
    BY <2>4 DEF Pause, TypeOK, irqVars, mainVars
  <2> QED  BY <2>1, <2>2, <2>3, <2>4
<1>3. Length' = Length /\ Oldest' = Oldest /\ Window'
  BY <1>1, RingStays DEF irqVars
<1>4. Order'
  BY <1>1, <1>3 DEF Order, Behind, Loaded, irqVars, mainVars
<1>5. NothingStuck' /\ Sending'
  BY DEF HostFetch, BusReset, Expire, Pause, NothingStuck, Sending, Pending, Busy, mainVars
<1> QED  BY <1>1, <1>2, <1>3, <1>4, <1>5 DEF irqVars

LEMMA NextIInv == IInv /\ [Next]_vars => IInv'
<1> SUFFICES ASSUME IInv, [Next]_vars PROVE IInv'
  OBVIOUS
<1>1. CASE Add
  BY <1>1, AddIInv DEF Add
<1>2. CASE Main
  BY <1>2, ReportIInv, SendIInv, LoadIInv, StoreIInv, ReleaseIInv DEF Main
<1>3. CASE Frame \/ HostFetch \/ BusReset \/ Expire \/ Pause
  BY <1>3, FrameIInv, HostIInv
<1>4. CASE UNCHANGED vars
  <2>1. Length' = Length /\ Oldest' = Oldest /\ Window' = Window
    BY <1>4, RingStays DEF vars, irqVars
  <2> QED  BY <1>4, <2>1 DEF vars, irqVars, mainVars, usbVars, IInv, TypeOK, Order, Behind,
              Loaded, NothingStuck, Sending, Pending, Busy
<1> QED  BY <1>1, <1>2, <1>3, <1>4 DEF Next

LEMMA Invariance == Spec => []IInv
BY InitIInv, NextIInv, PTL DEF Spec

\* The variables keep their types: no pointer leaves the ring.
THEOREM MouseTypeOK == Spec => []TypeOK
<1>1. IInv => TypeOK
  BY DEF IInv
<1> QED  BY <1>1, Invariance, PTL

\* No button or motion that the host has seen, or will see, is without a release
\* that the timeout will send.
THEOREM MouseNothingStuck == Spec => []NothingStuck
<1>1. IInv => NothingStuck
  BY DEF IInv
<1> QED  BY <1>1, Invariance, PTL

\* However the interrupt and the main loop share the read pointer, the samples reach
\* the endpoint once and in order, and all of them while the ring is never full.
THEOREM MouseSentInOrder == Spec => SentInOrder
<1> DEFINE InOrder == ep' # ep /\ ep'.n # 0 => ep'.n > sent /\ (~dropped => ep'.n = sent + 1)
<1>1. IInv /\ [Next]_vars => [InOrder]_vars
  <2> SUFFICES ASSUME IInv, Next, ep' # ep, ep'.n # 0
               PROVE  ep'.n > sent /\ (~dropped => ep'.n = sent + 1)
    OBVIOUS
  <2>1. ~Frame /\ ~Add /\ ~Report /\ ~Load /\ ~Store /\ ~Expire /\ ~Pause
    BY DEF Frame, Add, AddSample, Report, Load, Store, Expire, Pause, usbVars
  <2>2. ~Release /\ ~HostFetch /\ ~BusReset
    BY DEF Release, HostFetch, BusReset, Still, Free
  <2>3. Send
    BY <2>1, <2>2 DEF Next, Main
  <2>4. task = "send" /\ ep' = data
    BY <2>3 DEF Send
  <2>5. Behind /\ data.n > sent /\ Loaded
    BY <2>4 DEF IInv, Order
  <2>6. ~dropped => data.n = Oldest /\ sent = Oldest - 1
    BY <2>5 DEF Behind, Loaded
  <2>7. Oldest \in Int
    BY DEF IInv, TypeOK, Oldest, Length, Ahead
  <2> QED  BY <2>4, <2>5, <2>6, <2>7
<1> QED  BY <1>1, Invariance, PTL DEF Spec, SentInOrder

\* usbmouse_rptr never goes back and moves on by one entry at most, though the main loop may
\* store a value it loaded before the interrupt moved the pointer.  Without samples the
\* backlog never grows, and a pass that has sent a sample leaves it behind, whichever of
\* the two took it out: a silent mouse's ring runs empty, never round, behind EndsStill.
ReadsOn ==
  /\ rptr' \in {rptr, Inc(rptr)}
  /\ left = 0 => Length' = IF rptr' = rptr THEN Length ELSE Length - 1
  /\ task = "store" /\ task' # "store" => sent' < Oldest'
OnlyReadsOn == [][ReadsOn]_vars

LEMMA StoreReadsOn == IInv /\ Store => ReadsOn
<1> SUFFICES ASSUME IInv, Store PROVE ReadsOn
  OBVIOUS
<1>1. wptr \in 0 .. Size - 1 /\ rptr \in 0 .. Size - 1
  BY DEF IInv, TypeOK
<1>2. /\ task = "store" /\ task' = "release" /\ rptr' = Inc(reg)
      /\ UNCHANGED <<irqVars, sent>>
  BY DEF Store
<1>3. Loaded /\ (reg = rptr \/ rptr = Inc(reg))
  BY <1>2 DEF IInv, Order
<1>4. Length >= 1
  BY <1>3 DEF Loaded
<1>5. wptr' = wptr
  BY <1>2 DEF irqVars
<1>6. CASE reg = rptr
  <2>1. Length' = Length - 1 /\ rptr' # rptr /\ rptr' = Inc(rptr)
    BY <1>1, <1>2, <1>4, <1>5, <1>6 DEF Length, Ahead, Inc
  <2> QED  BY <1>2, <2>1, StoreIInv DEF ReadsOn, IInv, Order, Behind
<1>7. CASE rptr = Inc(reg)
  <2>1. rptr' = rptr /\ Length' = Length
    BY <1>2, <1>5, <1>7 DEF Length, Ahead
  <2> QED  BY <1>2, <2>1, StoreIInv DEF ReadsOn, IInv, Order, Behind
<1> QED  BY <1>3, <1>6, <1>7

THEOREM MouseOnlyReadsOn == Spec => OnlyReadsOn
<1>1. IInv /\ [Next]_vars => [ReadsOn]_vars
  <2> SUFFICES ASSUME IInv, Next PROVE ReadsOn
    OBVIOUS
  <2>1. ASSUME NEW b \in BOOLEAN, NEW moves \in BOOLEAN, AddSample(b, moves)
        PROVE  ReadsOn
    <3>1. left # 0 /\ rptr' \in {rptr, Inc(rptr)} /\ task' = task
      BY <2>1 DEF AddSample, mainVars, IInv, TypeOK
    <3> QED  BY <3>1 DEF ReadsOn
  <2>2. CASE Store
    BY <2>2, StoreReadsOn
  <2>3. ASSUME UNCHANGED <<wptr, rptr>>, task = "store" => task' = task
        PROVE  ReadsOn
    BY <2>3 DEF ReadsOn, Length, Ahead
  <2>4. CASE Frame \/ HostFetch \/ BusReset \/ Expire \/ Pause
    BY <2>3, <2>4 DEF Frame, HostFetch, BusReset, Expire, Pause, irqVars, mainVars
  <2>5. CASE Report \/ Send \/ Load \/ Release
    BY <2>3, <2>5 DEF Report, Send, Load, Release, irqVars
  <2> QED  BY <2>1, <2>2, <2>4, <2>5 DEF Next, Add, Main
<1> QED  BY <1>1, Invariance, PTL DEF Spec, OnlyReadsOn
=============================================================================
