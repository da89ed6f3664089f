------------------------------ MODULE UsbMouse ------------------------------
(***************************************************************************)
(* Mouse reports from the dongle to the USB host: usbmouse_add_frame of    *)
(* src/tlsdk/proj/app/usbmouse.c, called by callback_mouse in the radio    *)
(* interrupt, and usbmouse_report_frame and usbmouse_release_check in the  *)
(* main loop.  Both contexts advance the read pointer of the ring between  *)
(* them, without a lock: the interrupt when the ring is full, the main     *)
(* loop when it has sent an entry.  The main loop runs only when the       *)
(* interrupt handler does not.                                             *)
(***************************************************************************)
EXTENDS Naturals

CONSTANTS
  Size,        \* USBMOUSE_BUFF_DATA_NUM, 8
  FrameMax,    \* MOUSE_FRAME_DATA_NUM, the samples of a frame, 4
  DebounceLen, \* MOUSE_BUTTON_DEBOUNCE - 1
  MaxSamples   \* bound: samples the mouse sends

ASSUME MouseAssumption ==
  /\ Size \in Nat /\ Size >= 4
  /\ FrameMax \in Nat \ {0} /\ DebounceLen \in Nat /\ MaxSamples \in Nat

\* A report is "still" when it says no button, no motion: a word of zeros.  Samples
\* are numbered as they enter the ring; a report that is no sample has number 0.
Entry == [n : 0 .. MaxSamples, still : BOOLEAN]
Still == [n |-> 0, still |-> TRUE]
Free  == [n |-> 0, still |-> FALSE]

VARIABLES
  ring, wptr, rptr, \* mouse_dat_buff, usbmouse_wptr, usbmouse_rptr
  btn, btnCnt,      \* btn_bak, btn_cnt of mouse_button_debounce
  count,            \* samples put into the ring so far
  left,             \* samples of the frame usbmouse_add_frame has still to add
  came,             \* a frame came during this pass of the main loop
  task, data, reg,  \* the main loop: its step, the sample it sends, rptr as loaded
  ep, host,         \* the endpoint (Free or a report) and whether the host sees still
  sent,             \* the number of the newest sample sent
  dropped,          \* the ring has been full
  notReleased,      \* usbmouse_not_released
  timedOut,         \* USB_MOUSE_RELEASE_TIMEOUT since usbmouse_data_report_time
  recent            \* the endpoint was busy within the last 5 ms

irqVars  == <<wptr, ring, btn, btnCnt, count, left, came, dropped>>
mainVars == <<task, data, reg>>
usbVars  == <<ep, host, sent, notReleased, timedOut, recent>>
vars     == <<irqVars, rptr, mainVars, usbVars>>

Init ==
  /\ ring = [i \in 0 .. Size - 1 |-> Still] /\ wptr = 0 /\ rptr = 0
  /\ btn = FALSE /\ btnCnt = 0
  /\ count = 0 /\ left = 0 /\ came = FALSE /\ dropped = FALSE
  /\ task = "idle" /\ data = Still /\ reg = 0
  /\ ep = Free /\ host = TRUE /\ sent = 0
  /\ notReleased = FALSE /\ timedOut = FALSE /\ recent = FALSE
-----------------------------------------------------------------------------
Inc(p) == IF p + 1 = Size THEN 0 ELSE p + 1   \* BOUND_INC_POW2
Busy == ep # Free
-----------------------------------------------------------------------------
(* The radio interrupt *)

\* callback_mouse with a packet whose seq_no is new.  The mouse sends a frame every
\* few milliseconds, a pass of the main loop takes microseconds: at most one frame
\* comes during a pass.
Frame ==
  /\ left = 0 /\ (task = "idle" \/ ~came)
  /\ left' \in 1 .. FrameMax /\ count + left' <= MaxSamples
  /\ came' = TRUE
  /\ UNCHANGED <<wptr, ring, btn, btnCnt, count, dropped, rptr, mainVars, usbVars>>

\* mouse_button_debounce: the state after a sample with buttons b.
Settled(b) == b # btn /\ btnCnt >= DebounceLen
BtnAfter(b) == IF Settled(b) THEN b ELSE btn
CntAfter(b) == IF Settled(b) \/ b = btn THEN 0 ELSE btnCnt + 1

\* One turn of the loop of usbmouse_add_frame: b is the button, moves whether any
\* motion is left after adaptive_smoother.  On a full ring the oldest entry goes,
\* and the rest of the frame with it.
OverrunsNever(p) == FALSE  \* mutant: writes on over the oldest entry
Overruns(p) == p = rptr
AddSample(b, moves) ==
  /\ left > 0
  /\ btn' = BtnAfter(b) /\ btnCnt' = CntAfter(b)
  /\ ring' = [ring EXCEPT ![wptr] = [n |-> count + 1, still |-> ~btn' /\ ~moves]]
  /\ count' = count + 1
  /\ wptr' = Inc(wptr)
  /\ IF Overruns(wptr') THEN rptr' = Inc(rptr) /\ left' = 0 /\ dropped' = TRUE
                     ELSE left' = left - 1 /\ UNCHANGED <<rptr, dropped>>
  /\ UNCHANGED <<came, mainVars, usbVars>>
-----------------------------------------------------------------------------
(* The main loop: usb_data_report_proc *)

\* diff of usbmouse_report_frame, which counts wrongly when the ring has wrapped.
Diff == IF rptr > wptr THEN rptr - wptr + Size - 1 ELSE wptr - rptr

\* usbmouse_report_frame up to the load of the oldest entry.  Few entries wait until
\* the endpoint has been free for 5 ms.
WaitsForMore(busyLately) == Diff < 3  \* mutant: few entries wait for more of them
Waits(busyLately) == Diff < 3 /\ busyLately
Report ==
  /\ left = 0 /\ task = "idle"
  /\ recent' = (recent \/ Busy)
  /\ IF Waits(recent') \/ wptr = rptr
     THEN task' = "release" /\ UNCHANGED data
     ELSE task' = "send" /\ data' = ring[rptr]
  /\ came' = FALSE
  /\ UNCHANGED <<wptr, ring, btn, btnCnt, count, left, dropped, rptr, reg, ep, host, sent,
                 notReleased, timedOut>>

\* usbmouse_hid_report: nothing while the host has not fetched the last report; the
\* caller then counts on the release timeout and tries again in the next pass.
Send ==
  /\ left = 0 /\ task = "send"
  /\ IF Busy THEN /\ task' = "release" /\ notReleased' = TRUE /\ timedOut' = FALSE
                  /\ UNCHANGED <<ep, sent>>
             ELSE /\ task' = "load" /\ ep' = data /\ sent' = data.n
                  /\ UNCHANGED <<notReleased, timedOut>>
  /\ UNCHANGED <<irqVars, rptr, data, reg, host, recent>>

\* BOUND_INC_POW2(usbmouse_rptr): a load and a store.
Load ==
  /\ left = 0 /\ task = "load"
  /\ reg' = rptr /\ task' = "store"
  /\ UNCHANGED <<irqVars, rptr, data, usbVars>>

AfterSendLate(d) == d.still  \* mutant: set when the button is up, cleared when it is down
AfterSend(d) == ~d.still
Store ==
  /\ left = 0 /\ task = "store"
  /\ rptr' = Inc(reg) /\ task' = "release"
  /\ notReleased' = AfterSend(data)
  /\ timedOut' = (timedOut /\ data.still)
  /\ UNCHANGED <<irqVars, data, reg, ep, host, sent, recent>>

\* usbmouse_release_check, the end of the pass.
Release ==
  /\ left = 0 /\ task = "release"
  /\ task' = "idle"
  /\ IF notReleased /\ timedOut /\ ~Busy
     THEN ep' = Still /\ notReleased' = FALSE
     ELSE UNCHANGED <<ep, notReleased>>
  /\ UNCHANGED <<irqVars, rptr, data, reg, host, sent, timedOut, recent>>
-----------------------------------------------------------------------------
(* The host and the clock *)

HostFetch ==
  /\ Busy
  /\ ep' = Free /\ host' = ep.still
  /\ UNCHANGED <<irqVars, rptr, mainVars, sent, notReleased, timedOut, recent>>

\* A USB reset, as usb_handle_irq serves it at the top of the main loop.
BusReset ==
  /\ left = 0 /\ task = "idle"
  /\ ep' = Free /\ host' = TRUE
  /\ UNCHANGED <<irqVars, rptr, mainVars, sent, notReleased, timedOut, recent>>

\* 200 ms do not pass within one pass of the main loop.
Expire ==
  /\ task = "idle"
  /\ notReleased /\ ~timedOut /\ timedOut' = TRUE
  /\ UNCHANGED <<irqVars, rptr, mainVars, ep, host, sent, notReleased, recent>>

Pause ==
  /\ recent /\ ~Busy /\ recent' = FALSE
  /\ UNCHANGED <<irqVars, rptr, mainVars, ep, host, sent, notReleased, timedOut>>
-----------------------------------------------------------------------------
Add  == \E b, moves \in BOOLEAN : AddSample(b, moves)
Main == Report \/ Send \/ Load \/ Store \/ Release
Next == Frame \/ Add \/ Main \/ HostFetch \/ BusReset \/ Expire \/ Pause

Spec == Init /\ [][Next]_vars

\* A frame that has come is added, the main loop keeps running, the host keeps
\* polling and time passes; nothing is assumed of the mouse.
FairSpec ==
  /\ Spec
  /\ WF_vars(Add) /\ WF_vars(Main) /\ WF_vars(HostFetch)
  /\ SF_vars(Expire) /\ WF_vars(Pause)
-----------------------------------------------------------------------------
TypeOK ==
  /\ ring \in [0 .. Size - 1 -> Entry]
  /\ wptr \in 0 .. Size - 1 /\ rptr \in 0 .. Size - 1 /\ reg \in 0 .. Size - 1
  /\ btn \in BOOLEAN /\ btnCnt \in 0 .. DebounceLen
  /\ count \in 0 .. MaxSamples /\ left \in 0 .. FrameMax
  /\ came \in BOOLEAN /\ dropped \in BOOLEAN
  /\ task \in {"idle", "send", "load", "store", "release"}
  /\ data \in Entry /\ ep \in Entry \cup {Free} /\ host \in BOOLEAN
  /\ sent \in 0 .. MaxSamples
  /\ {notReleased, timedOut, recent} \subseteq BOOLEAN

\* No sample reaches the host twice or after a younger one, although interrupt and
\* main loop advance usbmouse_rptr without a lock; and none is left out as long as
\* the ring has never been full.
SentInOrder ==
  [][ep' # ep /\ ep'.n # 0 => ep'.n > sent /\ (~dropped => ep'.n = sent + 1)]_vars

\* When the host sees a button or motion, or will once it has fetched what is
\* pending, usbmouse_not_released is set or about to be: the timeout will end it.
Pending == IF Busy THEN ep.still ELSE host
NothingStuck == Pending \/ notReleased \/ task \in {"load", "store"}

\* When the mouse falls silent, with or without a release in its last frame, with or
\* without overflow, the ring runs empty and the host sees every button up.
EndsStill == <>[](wptr = rptr /\ host)
=============================================================================
