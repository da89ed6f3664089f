-------------------------------- MODULE UsbKb --------------------------------
(***************************************************************************)
(* Keyboard reports from the dongle to the USB host, src/tlsdk/proj/app    *)
(* usbkb.c and the parts of usbmouse.c it shares the mouse endpoint with.  *)
(*                                                                         *)
(* Two contexts run this code without a lock: usbkb_hid_report inside the  *)
(* radio interrupt (callback_keyboard), and usb_data_report_proc in the    *)
(* main loop, which sends mouse reports and, when no key report came for   *)
(* USB_KEYBOARD_RELEASE_TIMEOUT, releases what usbkb_not_released says is  *)
(* down.  The main loop only runs when the interrupt handler does not; the *)
(* interrupt may come between any two of its steps, as nothing masks it.   *)
(* The host empties the endpoints at any time.                             *)
(*                                                                         *)
(* There are three classes of keys: normal keys with their modifiers have  *)
(* an endpoint of their own, system keys (power, sleep, wake-up) and media *)
(* keys go through the mouse endpoint.                                     *)
(***************************************************************************)
EXTENDS Naturals

CONSTANT
  Keys          \* [Class -> set of reports with a key down]; "up" is none of them

Class == {"normal", "sys", "media"}
Endpoint == {"kb", "mouse"}         \* USB_EDP_KEYBOARD_IN, USB_EDP_MOUSE
EpOfMixed(c) == IF c = "media" THEN "mouse" ELSE "kb"  \* mutant: system keys on the keyboard endpoint
EpOf(c) == IF c = "normal" THEN "kb" ELSE "mouse"

ASSUME UsbAssumption ==
  /\ DOMAIN Keys = Class
  /\ \A c \in Class : "up" \notin Keys[c]

View(c) == Keys[c] \cup {"up"}
Free    == [id |-> "free", val |-> "up"]
Moved   == [id |-> "mouse", val |-> "up"]
Report  == UNION {[id : {c}, val : View(c)] : c \in Class}

\* What a frame (kb_data_t) says is down; it holds at most one system or media
\* key, the last of its keycodes in that range.
Data  == {d \in [normal : View("normal"), sys : View("sys"), media : View("media")] :
            d.sys = "up" \/ d.media = "up"}
AllUp == [normal |-> "up", sys |-> "up", media |-> "up"]

VARIABLES
  ep,       \* [Endpoint -> report the host has not fetched yet, or Free]
  host,     \* [Class -> what the host believes is down]
  notReleased, \* usbkb_not_released, the set of its bits
  timedOut, \* USB_KEYBOARD_RELEASE_TIMEOUT has passed since usbkb_data_report_time
  last,     \* last_data of usbkb_check_repeat_and_save
  isr,      \* the class usbkb_hid_report handles next, "off" outside the interrupt
  data,     \* what usbkb_hid_report has still to report of its frame
  task,     \* what the main loop is at: "idle", "mouse", or the class it releases
  step,     \* "test", "busy", "write", then "load" and "store" of BM_CLR
  reg,      \* the value of usbkb_not_released the main loop has loaded, until stored
  mixed,    \* the interrupt has used the endpoint the main loop is writing
  crossed   \* (history) the classes whose last report met the other context: written
            \* by the interrupt while the main loop stood between usbhw_is_ep_busy and
            \* the end of BM_CLR, or by the main loop into such an endpoint

irqVars  == <<last, isr, data>>
mainVars == <<task, step, reg>>
meetVars == <<mixed, crossed>>
vars     == <<ep, host, notReleased, timedOut, irqVars, mainVars, meetVars>>

Init ==
  /\ ep = [e \in Endpoint |-> Free]
  /\ host = [c \in Class |-> "up"]
  /\ notReleased = {} /\ timedOut = FALSE
  /\ last = AllUp
  /\ isr = "off" /\ data = AllUp
  /\ task = "idle" /\ step = "test" /\ reg = {}
  /\ mixed = FALSE /\ crossed = {}
-----------------------------------------------------------------------------
(* The radio interrupt *)

\* A frame with keys that are down already: usbkb_check_repeat_and_save.
Repeat(d) == d # AllUp /\ d = last /\ notReleased # {}

\* Reports are written only to an endpoint that is not busy.
IdleUnchecked(c) == TRUE  \* mutant: usbhw_is_ep_busy not asked
Idle(c) == ep[EpOf(c)] = Free

\* usbkb_report_normal_key, usbkb_report_sys_key, usbkb_report_media_key: report
\* what is down, or release what was reported before; nothing if the host has
\* not fetched the last report.
Reports(c, v) == Idle(c) /\ (v # "up" \/ c \in notReleased)
IsrWriteForgets(c, v) ==  \* mutant: the bit is cleared though the endpoint was busy
  /\ ep' = IF Reports(c, v) THEN [ep EXCEPT ![EpOf(c)] = [id |-> c, val |-> v]] ELSE ep
  /\ notReleased' = IF v = "up" THEN notReleased \ {c} ELSE notReleased \cup {c}
IsrWrite(c, v) ==
  IF Reports(c, v)
  THEN /\ ep' = [ep EXCEPT ![EpOf(c)] = [id |-> c, val |-> v]]
       /\ notReleased' = IF v = "up" THEN notReleased \ {c} ELSE notReleased \cup {c}
  ELSE UNCHANGED <<ep, notReleased>>

\* Where the interrupt meets the main loop, and what it writes to.
Within == step \in {"write", "load", "store"}
Target == IF task \in Class THEN EpOf(task) ELSE "mouse"
Meets(c) ==
  /\ mixed' = (mixed \/ (step = "write" /\ ep'[Target] # ep[Target]))
  /\ crossed' = IF ep' = ep THEN crossed
                ELSE IF Within THEN crossed \cup {c} ELSE crossed \ {c}

IsrNext == [normal |-> "sys", sys |-> "media", media |-> "off"]
IsrReport(c, v) ==
  /\ IsrWrite(c, v) /\ Meets(c)
  /\ isr' = IsrNext[c]
  /\ UNCHANGED <<host, mainVars>>

\* usbkb_hid_report up to the first report: what the host fetches before that it could as
\* well have fetched before the frame came.  usbkb_data_report_time is set when the handler
\* ends, but nobody looks at it earlier.  (The block that removes keys seen in the
\* previous frame never runs: last_normal_key_cnt is always 0.)
Frame(d) ==
  /\ isr = "off" /\ timedOut' = FALSE
  /\ IF Repeat(d)
     THEN UNCHANGED <<ep, host, notReleased, irqVars, mainVars, meetVars>>
     ELSE /\ last' = IF d = AllUp THEN last ELSE d
          /\ data' = [d EXCEPT !.normal = "up"]
          /\ IsrReport("normal", d.normal)

\* The reports that share the mouse endpoint; the host may fetch one between the two.
FrameRest(c) ==
  /\ isr = c
  /\ data' = [data EXCEPT ![c] = "up"]
  /\ IsrReport(c, data[c])
  /\ UNCHANGED <<timedOut, last>>
-----------------------------------------------------------------------------
(* The main loop: usb_data_report_proc *)

mainFrame == <<host, timedOut, irqVars>>

\* usbmouse_hid_report, usbkb_hid_report_normal: byte by byte into the endpoint.  Had
\* the interrupt come before the first byte, its report is written over; had it come
\* later, its report stands, and what was left of this one goes behind it for nothing.
Put(e, r) ==
  \/ ep' = [ep EXCEPT ![e] = r]
  \/ mixed /\ ep' = ep

\* usbmouse_report_frame (or usbmouse_release_check) finds something to send and the
\* endpoint free.
MouseTest ==
  /\ isr = "off" /\ task = "idle" /\ Idle("sys")
  /\ task' = "mouse" /\ step' = "write"
  /\ UNCHANGED <<ep, notReleased, reg, mainFrame, meetVars>>

MouseWrite ==
  /\ isr = "off" /\ task = "mouse"
  /\ Put("mouse", Moved) /\ mixed' = FALSE
  /\ task' = "check" /\ step' = "test"
  /\ UNCHANGED <<notReleased, reg, crossed, mainFrame>>

\* usbkb_release_check, after a mouse report, or when there is none to send.
Due == notReleased # {} /\ timedOut
ReleaseCheck ==
  /\ isr = "off" /\ task \in {"idle", "check"}
  /\ task' = IF Due THEN "sys" ELSE "idle"
  /\ UNCHANGED <<ep, notReleased, step, reg, mainFrame, meetVars>>

\* The order of usbkb_release_keys.
AfterTaskShort == [sys |-> "normal", normal |-> "idle", media |-> "idle"]  \* mutant: media keys left out
AfterTask == [sys |-> "normal", normal |-> "media", media |-> "idle"]

\* usbkb_release_normal_key, usbkb_release_sys_key, usbkb_release_media_key: the bit,
\* the endpoint, the report.
ReleaseTest(c) ==
  /\ isr = "off" /\ task = c /\ step = "test"
  /\ IF c \in notReleased THEN step' = "busy" /\ UNCHANGED task
                         ELSE task' = AfterTask[c] /\ UNCHANGED step
  /\ UNCHANGED <<ep, notReleased, reg, mainFrame, meetVars>>

BusyTest(c) ==
  /\ isr = "off" /\ task = c /\ step = "busy"
  /\ IF Idle(c) THEN step' = "write" /\ UNCHANGED task
                ELSE step' = "test" /\ task' = AfterTask[c]
  /\ UNCHANGED <<ep, notReleased, reg, mainFrame, meetVars>>

ReleaseWrite(c) ==
  /\ isr = "off" /\ task = c /\ step = "write"
  /\ Put(EpOf(c), [id |-> c, val |-> "up"]) /\ mixed' = FALSE
  /\ crossed' = IF mixed THEN crossed \cup {c} ELSE crossed \ {c}
  /\ step' = "load"
  /\ UNCHANGED <<notReleased, task, reg, mainFrame>>

\* BM_CLR(usbkb_not_released, ...) is a load, an and, and a store.
ClearLoad(c) ==
  /\ isr = "off" /\ task = c /\ step = "load"
  /\ reg' = notReleased \ {c}
  /\ step' = "store"
  /\ UNCHANGED <<ep, notReleased, task, mainFrame, meetVars>>

ClearStore(c) ==
  /\ isr = "off" /\ task = c /\ step = "store"
  /\ notReleased' = reg /\ reg' = {}
  /\ step' = "test" /\ task' = AfterTask[c]
  /\ UNCHANGED <<ep, mainFrame, meetVars>>

Release(c) ==
  ReleaseTest(c) \/ BusyTest(c) \/ ReleaseWrite(c) \/ ClearLoad(c) \/ ClearStore(c)
-----------------------------------------------------------------------------
(* The host and the clock *)

HostFetch(e) ==
  /\ ep[e] # Free
  /\ ep' = [ep EXCEPT ![e] = Free]
  /\ host' = IF ep[e].id \in Class THEN [host EXCEPT ![ep[e].id] = ep[e].val] ELSE host
  /\ UNCHANGED <<notReleased, timedOut, irqVars, mainVars, meetVars>>

\* A USB reset, as usb_handle_irq serves it at the top of the main loop: the
\* endpoints are emptied and the host starts from nothing.
BusReset ==
  /\ isr = "off" /\ task = "idle"
  /\ ep' = [e \in Endpoint |-> Free]
  /\ host' = [c \in Class |-> "up"]
  /\ crossed' = {}
  /\ UNCHANGED <<notReleased, timedOut, irqVars, mainVars, mixed>>

\* 200 ms do not pass within one pass of the main loop, which asks for them once.
Expire ==
  /\ isr = "off" /\ task = "idle" /\ ~timedOut /\ notReleased # {}
  /\ timedOut' = TRUE
  /\ UNCHANGED <<ep, host, notReleased, irqVars, mainVars, meetVars>>
-----------------------------------------------------------------------------
Irq  == (\E d \in Data : Frame(d)) \/ \E c \in {"sys", "media"} : FrameRest(c)
Main == MouseWrite \/ ReleaseCheck \/ \E c \in Class : Release(c)
Next ==
  \/ Irq \/ MouseTest \/ Main
  \/ (\E e \in Endpoint : HostFetch(e)) \/ BusReset \/ Expire

Spec == Init /\ [][Next]_vars

\* The main loop keeps running, the host keeps polling and time passes; nothing is
\* assumed of frames and mouse.
FairSpec ==
  /\ Spec
  /\ WF_vars(Main) /\ SF_vars(Expire) /\ \A e \in Endpoint : WF_vars(HostFetch(e))
-----------------------------------------------------------------------------
TypeOK ==
  /\ ep \in [Endpoint -> Report \cup {Free, Moved}]
  /\ ep["kb"].id \in {"free", "normal"} /\ ep["mouse"].id # "normal"
  /\ DOMAIN host = Class /\ \A c \in Class : host[c] \in View(c)
  /\ notReleased \subseteq Class /\ timedOut \in BOOLEAN
  /\ last \in Data /\ data \in Data
  /\ isr \in {"sys", "media", "off"}
  /\ task \in Class \cup {"idle", "mouse", "check"}
  /\ step \in {"test", "busy", "write", "load", "store"}
  /\ reg \subseteq Class /\ mixed \in BOOLEAN /\ crossed \subseteq Class

\* What the host will believe of class c once it has fetched what is pending.
Seen(c) == IF ep[EpOf(c)].id = c THEN ep[EpOf(c)].val ELSE host[c]

\* Whatever the host believes is down has its bit in usbkb_not_released, so the
\* timeout or the next frame will release it, unless the last report of that class met
\* the other context: dropped reports, suppressed repeats, interrupts anywhere else and
\* the two release paths never leave a key down for good.
StuckOnlyIfCrossed == \A c \in Class : Seen(c) # "up" => c \in notReleased \cup crossed

\* A report the host has not fetched is never written over by another one (a reset of
\* the bus throws reports away), unless the interrupt put it there after the main loop
\* had found the endpoint free.
LostOnlyIfMixed ==
  [][\A e \in Endpoint :
       ep[e] # Free => ep'[e] \in {ep[e], Free} \/ (mixed /\ ep[e].id \in crossed)]_vars

\* usbkb.c:126, "release keys": when frames stop coming (the keyboard is gone, or its
\* release report was lost) and the mouse is still, the host ends up with every key
\* released.  The code keeps this promise for the classes whose last report did not meet
\* the other context, and breaks it for the others (MCUsbKbRace).
Quiet == <>[](isr = "off" /\ task # "mouse") /\ <>[][timedOut => timedOut']_vars
ReleasedUnlessCrossed == Quiet => <>[](\A c \in Class : host[c] = "up" \/ c \in crossed)
AllReleased == Quiet => <>[](\A c \in Class : host[c] = "up")
=============================================================================
