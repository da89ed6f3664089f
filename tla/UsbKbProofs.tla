----------------------------- MODULE UsbKbProofs -----------------------------
(***************************************************************************)
(* Proofs about UsbKb, for all sets of keys and with the interrupt between *)
(* any two steps of the main loop: the types; that a key is left down, or  *)
(* a report lost, only where the two contexts met; and what the main loop  *)
(* does to keys and bits when no interrupt comes.                          *)
(***************************************************************************)
EXTENDS UsbKb, TLAPS

\* What a frame says of a class of keys.
LEMMA DataView ==
  ASSUME NEW d \in Data, NEW c \in Class
  PROVE  d[c] \in View(c)
<1>1. c = "normal" \/ c = "sys" \/ c = "media"
  BY DEF Class
<1>2. QED
  BY <1>1 DEF Data

\* A report as it is written to an endpoint.
LEMMA Written ==
  ASSUME NEW c \in Class, NEW v \in View(c)
  PROVE  /\ [id |-> c, val |-> v] \in Report
         /\ [id |-> c, val |-> v] # Free
  BY DEF Report, Class, Free

\* What the host fetches belongs to the class it names.
LEMMA Fetched ==
  ASSUME NEW r \in Report
  PROVE  r.id \in Class /\ r.val \in View(r.id)
<1>1. PICK c \in Class : r \in [id : {c}, val : View(c)]
  BY DEF Report
<1>2. QED
  BY <1>1

\* The two tables of successors stay within the classes.
LEMMA Tables ==
  ASSUME NEW c \in Class
  PROVE  IsrNext[c] \in Class \cup {"off"} /\ AfterTask[c] \in Class \cup {"idle"}
  BY DEF Class, IsrNext, AfterTask

LEMMA UpData == AllUp \in Data
  BY DEF AllUp, Data, View

\* A write of a class c to its endpoint keeps the endpoints' type.
EpType(x) ==
  /\ x \in [Endpoint -> Report \cup {Free, Moved}]
  /\ x["kb"].id \in {"free", "normal"} /\ x["mouse"].id # "normal"

LEMMA WriteType ==
  ASSUME EpType(ep), NEW c \in Class, NEW v \in View(c)
  PROVE  EpType([ep EXCEPT ![EpOf(c)] = [id |-> c, val |-> v]])
<1>1. [id |-> c, val |-> v] \in Report
  BY Written
<1>2. CASE c = "normal"
  <2>1. EpOf(c) = "kb"
    BY <1>2 DEF EpOf
  <2>2. QED
    BY <1>1, <1>2, <2>1 DEF EpType, Endpoint
<1>3. CASE c # "normal"
  <2>1. EpOf(c) = "mouse"
    BY <1>3 DEF EpOf
  <2>2. QED
    BY <1>1, <1>3, <2>1 DEF EpType, Endpoint
<1>4. QED
  BY <1>2, <1>3

LEMMA TypeInit == Init => TypeOK
<1>1. SUFFICES ASSUME Init PROVE TypeOK
  OBVIOUS
<1>2. AllUp \in Data
  BY UpData
<1>3. QED
  BY <1>1, <1>2 DEF Init, TypeOK, Endpoint, Class, Free, View

\* One report of the interrupt.
LEMMA IsrType ==
  ASSUME TypeOK, NEW c \in Class, NEW v \in View(c), IsrReport(c, v)
  PROVE  /\ EpType(ep') /\ notReleased' \subseteq Class
         /\ mixed' \in BOOLEAN /\ crossed' \subseteq Class
         /\ isr' \in {"sys", "media", "off"} /\ UNCHANGED <<host, mainVars>>
<1>1. EpType(ep)
  BY DEF TypeOK, EpType
<1>2. EpType(ep') /\ notReleased' \subseteq Class
  BY <1>1, WriteType DEF IsrReport, IsrWrite, TypeOK
<1>3. crossed' \subseteq Class
  BY DEF IsrReport, Meets, TypeOK
<1>4. mixed' \in BOOLEAN
  BY Zenon DEF IsrReport, Meets, TypeOK
<1>5. isr' \in {"sys", "media", "off"}
  BY DEF IsrReport, IsrNext, Class
<1>6. QED
  BY <1>2, <1>3, <1>4, <1>5 DEF IsrReport

\* TypeOK is kept by every step.
LEMMA TypeStep == TypeOK /\ [Next]_vars => TypeOK'
<1>1. SUFFICES ASSUME TypeOK, [Next]_vars PROVE TypeOK'
  OBVIOUS
<1> USE <1>1
<1>2. EpType(ep)
  BY DEF TypeOK, EpType
<1>3. CASE UNCHANGED vars
  BY <1>3 DEF TypeOK, vars, irqVars, mainVars, meetVars, Endpoint, View
<1>4. ASSUME NEW d \in Data, Frame(d) PROVE TypeOK'
  <2>1. CASE Repeat(d)
    BY <1>4, <2>1 DEF Frame, TypeOK, irqVars, mainVars, meetVars, View
  <2>2. CASE ~Repeat(d)
    <3>1. d["normal"] \in View("normal") /\ "normal" \in Class
      BY DataView DEF Class
    <3>2. IsrReport("normal", d["normal"])
      BY <1>4, <2>2 DEF Frame
    <3>3. last' \in Data /\ data' \in Data /\ timedOut' = FALSE
      BY <1>4, <2>2 DEF Frame, TypeOK, Data, View
    <3>4. QED
      BY <3>1, <3>2, <3>3, IsrType DEF TypeOK, EpType, mainVars, View
  <2>3. QED
    BY <2>1, <2>2
<1>5. ASSUME NEW c \in {"sys", "media"}, FrameRest(c) PROVE TypeOK'
  <2>1. c \in Class /\ data[c] \in View(c)
    BY DataView DEF TypeOK, Class
  <2>2. IsrReport(c, data[c]) /\ UNCHANGED <<timedOut, last>>
    BY <1>5 DEF FrameRest
  <2>3. data' \in Data
    BY <1>5 DEF FrameRest, TypeOK, Data, View
  <2>4. QED
    BY <2>1, <2>2, <2>3, IsrType DEF TypeOK, EpType, mainVars, View
<1>6. CASE MouseTest
  BY <1>6 DEF MouseTest, TypeOK, mainFrame, irqVars, meetVars, View
<1>7. CASE MouseWrite
  <2>1. EpType(ep')
    BY <1>2, <1>7 DEF MouseWrite, Put, EpType, Endpoint, Moved
  <2>2. QED
    BY <1>7, <2>1 DEF MouseWrite, TypeOK, EpType, mainFrame, irqVars, View
<1>8. CASE ReleaseCheck
  BY <1>8 DEF ReleaseCheck, TypeOK, mainFrame, irqVars, meetVars, View, Class
<1>9. ASSUME NEW c \in Class, Release(c) PROVE TypeOK'
  <2>1. AfterTask[c] \in Class \cup {"idle"} /\ "up" \in View(c)
    BY Tables DEF View
  <2>2. CASE ReleaseTest(c)
    BY <2>1, <2>2 DEF ReleaseTest, TypeOK, mainFrame, irqVars, meetVars, View
  <2>3. CASE BusyTest(c)
    BY <2>1, <2>3 DEF BusyTest, TypeOK, mainFrame, irqVars, meetVars, View
  <2>4. CASE ReleaseWrite(c)
    <3>1. EpType(ep')
      BY <1>2, <2>1, <2>4, WriteType DEF ReleaseWrite, Put
    <3>2. crossed' \subseteq Class
      BY <2>4 DEF ReleaseWrite, TypeOK
    <3>3. QED
      BY <2>4, <3>1, <3>2 DEF ReleaseWrite, TypeOK, EpType, mainFrame, irqVars, View
  <2>5. CASE ClearLoad(c)
    BY <2>5 DEF ClearLoad, TypeOK, mainFrame, irqVars, meetVars, View
  <2>6. CASE ClearStore(c)
    BY <2>1, <2>6 DEF ClearStore, TypeOK, mainFrame, irqVars, meetVars, View
  <2>7. QED
    BY <1>9, <2>2, <2>3, <2>4, <2>5, <2>6 DEF Release
<1>10. ASSUME NEW e \in Endpoint, HostFetch(e) PROVE TypeOK'
  <2>1. EpType(ep')
    BY <1>2, <1>10 DEF HostFetch, EpType, Endpoint, Free
  <2>2. DOMAIN host' = Class /\ \A c \in Class : host'[c] \in View(c)
    <3>1. CASE ep[e].id \in Class
      <4>1. ep[e] \in Report
        BY <1>2, <3>1 DEF EpType, Free, Moved, Class
      <4>2. ep[e].val \in View(ep[e].id)
        BY <4>1, Fetched
      <4>3. QED
        BY <1>10, <3>1, <4>2 DEF HostFetch, TypeOK
    <3>2. CASE ep[e].id \notin Class
      BY <1>10, <3>2 DEF HostFetch, TypeOK
    <3>3. QED
      BY <3>1, <3>2
  <2>3. QED
    BY <1>10, <2>1, <2>2 DEF HostFetch, TypeOK, EpType, irqVars, mainVars, meetVars
<1>11. CASE BusReset
  BY <1>11 DEF BusReset, TypeOK, irqVars, mainVars, Endpoint, Free, View
<1>12. CASE Expire
  BY <1>12 DEF Expire, TypeOK, irqVars, mainVars, meetVars, View
<1>13. QED
  BY <1>3, <1>4, <1>5, <1>6, <1>7, <1>8, <1>9, <1>10, <1>11, <1>12
     DEF Next, Irq, Main

\* The variables keep their types for all sets of keys and any interrupt timing.
THEOREM UsbTypeCorrect == Spec => []TypeOK
  BY TypeInit, TypeStep, PTL DEF Spec
-----------------------------------------------------------------------------
(* Where the two contexts meet *)

\* What the main loop may rely on wherever the interrupt has come: the endpoint it has
\* tested is still free, or has been used by a class that is now crossed; the release it
\* has written is what the host has or will have, or its class is crossed; the bits it
\* has loaded are still current but for crossed classes.
Tested ==
  step = "write" => ep[Target] = Free \/ (mixed /\ ep[Target].id \in crossed)
Released ==
  step \in {"load", "store"} => Seen(task) = "up" \/ task \in crossed
Current ==
  step = "store" => /\ notReleased \ {task} \subseteq reg \cup crossed
                    /\ reg \subseteq notReleased \cup crossed /\ task \notin reg
Steps ==
  /\ step \in {"busy", "load", "store"} => task \in Class
  /\ step = "write" => task \in Class \cup {"mouse"}
  /\ task = "mouse" => step = "write"
  /\ mixed => step = "write"
Contexts == Steps /\ Tested /\ Released /\ Current

IInv == TypeOK /\ Contexts /\ StuckOnlyIfCrossed

LEMMA IInvInit == Init => IInv
<1>1. SUFFICES ASSUME Init PROVE IInv
  OBVIOUS
<1>2. TypeOK
  BY <1>1, TypeInit
<1>3. \A c \in Class : Seen(c) = "up"
  BY <1>1 DEF Init, Seen, EpOf, Endpoint, Free, Class
<1>4. Contexts
  BY <1>1 DEF Init, Contexts, Steps, Tested, Released, Current
<1>5. QED
  BY <1>2, <1>3, <1>4 DEF IInv, StuckOnlyIfCrossed

\* A report written to its endpoint is what the host will see of its class.
LEMMA WriteSeen ==
  ASSUME TypeOK, NEW c \in Class, NEW v,
         ep' = [ep EXCEPT ![EpOf(c)] = [id |-> c, val |-> v]]
  PROVE  Seen(c)' = v
<1>1. EpOf(c) \in Endpoint
  BY DEF EpOf, Endpoint
<1>2. ep'[EpOf(c)] = [id |-> c, val |-> v]
  BY <1>1 DEF TypeOK
<1>3. QED
  BY <1>2 DEF Seen

\* What the host will see of another class changes only if a report of that class is
\* written over.
LEMMA OthersSeen ==
  ASSUME TypeOK, NEW e \in Endpoint, NEW r, ep' = [ep EXCEPT ![e] = r], host' = host,
         NEW b \in Class, r.id # b, ep[e].id # b
  PROVE  Seen(b)' = Seen(b)
<1>1. EpOf(b) \in Endpoint
  BY DEF EpOf, Endpoint
<1>2. CASE EpOf(b) = e
  <2>1. ep'[EpOf(b)] = r
    BY <1>1, <1>2 DEF TypeOK
  <2>2. QED
    BY <1>2, <2>1 DEF Seen
<1>3. CASE EpOf(b) # e
  <2>1. ep'[EpOf(b)] = ep[EpOf(b)]
    BY <1>1, <1>3 DEF TypeOK
  <2>2. QED
    BY <2>1 DEF Seen
<1>4. QED
  BY <1>2, <1>3

\* Fetching a report changes nothing of what the host will see.
LEMMA FetchSeen ==
  ASSUME TypeOK, NEW e \in Endpoint, HostFetch(e), NEW b \in Class
  PROVE  Seen(b)' = Seen(b)
<1>1. EpOf(b) \in Endpoint /\ ep[e] # Free
  BY DEF EpOf, Endpoint, HostFetch
<1>2. CASE EpOf(b) = e
  <2>1. ep'[EpOf(b)] = Free /\ Free.id # b
    BY <1>1, <1>2 DEF HostFetch, TypeOK, Free, Class
  <2>2. Seen(b)' = host'[b]
    BY <2>1 DEF Seen
  <2>3. host'[b] = IF ep[e].id = b THEN ep[e].val ELSE host[b]
    BY DEF HostFetch, TypeOK
  <2>4. QED
    BY <1>2, <2>2, <2>3 DEF Seen
<1>3. CASE EpOf(b) # e
  <2>1. ep'[EpOf(b)] = ep[EpOf(b)]
    BY <1>1, <1>3 DEF HostFetch, TypeOK
  <2>2. ep[e].id # b
    <3>1. b = "normal" \/ b = "sys" \/ b = "media"
      BY DEF Class
    <3>2. e = "kb" \/ e = "mouse"
      BY DEF Endpoint
    <3>3. QED
      BY <1>3, <3>1, <3>2 DEF EpOf, TypeOK
  <2>3. host'[b] = host[b]
    BY <2>2 DEF HostFetch, TypeOK
  <2>4. QED
    BY <2>1, <2>3 DEF Seen
<1>4. QED
  BY <1>2, <1>3

\* Steps that write no report and leave the host alone.
LEMMA StillSeen ==
  ASSUME UNCHANGED <<ep, host>>, NEW b \in Class
  PROVE  Seen(b)' = Seen(b)
  BY DEF Seen

\* One report of the interrupt, wherever the main loop is.
LEMMA IsrKeeps ==
  ASSUME IInv, NEW c \in Class, NEW v \in View(c), IsrReport(c, v)
  PROVE  Contexts' /\ StuckOnlyIfCrossed'
<1>1. TypeOK /\ Steps /\ Tested /\ Released /\ Current /\ StuckOnlyIfCrossed
  BY DEF IInv, Contexts
<1>2. UNCHANGED <<host, task, step, reg>> /\ IsrWrite(c, v) /\ Meets(c)
  BY DEF IsrReport, mainVars
<1>3. CASE ~Reports(c, v)
  <2>1. UNCHANGED <<ep, notReleased, crossed>>
    BY <1>2, <1>3 DEF IsrWrite, Meets
  <2>2. mixed' <=> mixed
    BY <1>2, <2>1, Zenon DEF Meets
  <2>3. \A b \in Class : Seen(b)' = Seen(b)
    BY <1>2, <2>1, StillSeen
  <2>4. Target' = Target
    BY <1>2 DEF Target
  <2>5. Steps'
    BY <1>1, <1>2, <2>2 DEF Steps
  <2>6. Tested'
    BY <1>1, <1>2, <2>1, <2>2, <2>4 DEF Tested
  <2>7. Released'
    BY <1>1, <1>2, <2>1, <2>3 DEF Released, Steps
  <2>8. Current'
    BY <1>1, <1>2, <2>1 DEF Current
  <2>9. StuckOnlyIfCrossed'
    BY <1>1, <2>1, <2>3 DEF StuckOnlyIfCrossed
  <2>10. QED
    BY <2>5, <2>6, <2>7, <2>8, <2>9 DEF Contexts
<1>4. CASE Reports(c, v)
  <2> DEFINE r == [id |-> c, val |-> v]
  <2>1. /\ ep' = [ep EXCEPT ![EpOf(c)] = r]
        /\ notReleased' = IF v = "up" THEN notReleased \ {c} ELSE notReleased \cup {c}
    BY <1>2, <1>4 DEF IsrWrite
  <2>2. EpOf(c) \in Endpoint /\ ep[EpOf(c)] = Free /\ r # Free /\ r.id = c
    BY <1>4, Written DEF Reports, Idle, EpOf, Endpoint
  <2>3. ep'[EpOf(c)] = r /\ \A e \in Endpoint : e # EpOf(c) => ep'[e] = ep[e]
    BY <1>1, <2>1, <2>2 DEF TypeOK
  <2>4. crossed' = IF Within THEN crossed \cup {c} ELSE crossed \ {c}
    BY <1>2, <2>2, <2>3 DEF Meets
  <2>5. mixed' <=> (mixed \/ (step = "write" /\ ep'[Target] # ep[Target]))
    BY <1>2, Zenon DEF Meets
  <2>6. Seen(c)' = v
    BY <1>1, <2>1, WriteSeen
  <2>7. ASSUME NEW b \in Class, b # c PROVE Seen(b)' = Seen(b)
    <3>1. ep[EpOf(c)].id # b
      BY <2>2, <2>7 DEF Free, Class
    <3>2. host' = host
      BY <1>2
    <3>3. QED
      BY <1>1, <2>1, <2>2, <2>7, <3>1, <3>2, OthersSeen
  <2> HIDE DEF r
  <2>8. Target \in Endpoint /\ Target' = Target
    BY <1>2 DEF Target, Endpoint, EpOf
  <2>9. Steps'
    BY <1>1, <1>2, <2>5 DEF Steps
  <2>10. Tested'
    <3>1. SUFFICES ASSUME step = "write"
                   PROVE ep'[Target] = Free \/ (mixed' /\ ep'[Target].id \in crossed')
      BY <1>2, <2>8 DEF Tested
    <3>2. crossed' = crossed \cup {c}
      BY <2>4, <3>1 DEF Within
    <3>3. CASE Target = EpOf(c)
      <4>1. ep'[Target] = r /\ ep'[Target] # ep[Target]
        BY <2>2, <2>3, <3>3
      <4>2. mixed'
        BY <2>5, <3>1, <4>1
      <4>3. QED
        BY <2>2, <3>2, <4>1, <4>2
    <3>4. CASE Target # EpOf(c)
      <4>1. ep'[Target] = ep[Target]
        BY <2>3, <2>8, <3>4
      <4>2. ep[Target] = Free \/ (mixed /\ ep[Target].id \in crossed)
        BY <1>1, <3>1 DEF Tested
      <4>3. QED
        BY <2>5, <3>2, <4>1, <4>2
    <3>5. QED
      BY <3>3, <3>4
  <2>11. Released'
    <3>1. SUFFICES ASSUME step \in {"load", "store"}
                   PROVE Seen(task)' = "up" \/ task \in crossed'
      BY <1>2 DEF Released
    <3>2. crossed' = crossed \cup {c} /\ task \in Class
      BY <1>1, <2>4, <3>1 DEF Within, Steps
    <3>3. Seen(task) = "up" \/ task \in crossed
      BY <1>1, <3>1 DEF Released
    <3>4. task # c => Seen(task)' = Seen(task)
      <4>1. SUFFICES ASSUME task # c PROVE Seen(task)' = Seen(task)
        OBVIOUS
      <4>2. ep[EpOf(c)].id # task /\ host' = host /\ task' = task
        BY <1>2, <2>2, <3>2 DEF Free, Class
      <4>3. PICK b \in Class : b = task
        BY <3>2
      <4>4. Seen(b)' = Seen(b)
        BY <2>7, <4>1, <4>3
      <4>5. QED
        BY <4>2, <4>3, <4>4 DEF Seen
    <3>5. QED
      BY <3>2, <3>3, <3>4
  <2>12. Current'
    <3>1. SUFFICES ASSUME step = "store"
                   PROVE /\ notReleased' \ {task} \subseteq reg \cup crossed'
                         /\ reg \subseteq notReleased' \cup crossed' /\ task \notin reg
      BY <1>2 DEF Current
    <3>2. crossed' = crossed \cup {c}
      BY <2>4, <3>1 DEF Within
    <3>3. QED
      BY <1>1, <2>1, <3>1, <3>2 DEF Current
  <2>13. StuckOnlyIfCrossed'
    <3>1. SUFFICES ASSUME NEW b \in Class, Seen(b)' # "up"
                   PROVE b \in notReleased' \cup crossed'
      BY DEF StuckOnlyIfCrossed
    <3>2. CASE b = c
      BY <2>1, <2>6, <3>1, <3>2
    <3>3. CASE b # c
      <4>1. b \in notReleased \cup crossed
        BY <1>1, <2>7, <3>1, <3>3 DEF StuckOnlyIfCrossed
      <4>2. QED
        BY <2>1, <2>4, <3>3, <4>1
    <3>4. QED
      BY <3>2, <3>3
  <2>14. QED
    BY <2>9, <2>10, <2>11, <2>12, <2>13 DEF Contexts
<1>5. QED
  BY <1>3, <1>4

\* Steps that touch neither endpoints nor bits, and stay where the main loop is.
LEMMA Elsewhere ==
  ASSUME IInv, UNCHANGED <<ep, host, notReleased, mainVars, meetVars>>
  PROVE  Contexts' /\ StuckOnlyIfCrossed'
<1>1. UNCHANGED <<ep, host, notReleased, task, step, reg, mixed, crossed>>
  BY DEF mainVars, meetVars
<1>2. \A b : Seen(b)' = Seen(b)
  BY <1>1 DEF Seen
<1>3. Steps' /\ Tested' /\ Current'
  BY <1>1 DEF IInv, Contexts, Steps, Tested, Current, Target
<1>4. Released'
  BY <1>1, <1>2 DEF IInv, Contexts, Released, Steps
<1>5. StuckOnlyIfCrossed'
  BY <1>1, <1>2 DEF IInv, StuckOnlyIfCrossed
<1>6. QED
  BY <1>3, <1>4, <1>5 DEF Contexts

\* The radio interrupt, between any two steps of the main loop.
LEMMA IrqStep == IInv /\ Irq => Contexts' /\ StuckOnlyIfCrossed'
<1>1. SUFFICES ASSUME IInv, Irq PROVE Contexts' /\ StuckOnlyIfCrossed'
  OBVIOUS
<1>2. ASSUME NEW d \in Data, Frame(d) PROVE Contexts' /\ StuckOnlyIfCrossed'
  <2>1. CASE Repeat(d)
    BY <1>1, <1>2, <2>1, Elsewhere DEF Frame
  <2>2. CASE ~Repeat(d)
    <3>1. "normal" \in Class /\ d["normal"] \in View("normal")
      BY DataView DEF Class
    <3>2. IsrReport("normal", d["normal"])
      BY <1>2, <2>2 DEF Frame
    <3>3. QED
      BY <1>1, <3>1, <3>2, IsrKeeps
  <2>3. QED
    BY <2>1, <2>2
<1>3. ASSUME NEW c \in {"sys", "media"}, FrameRest(c) PROVE Contexts' /\ StuckOnlyIfCrossed'
  <2>1. c \in Class /\ data[c] \in View(c)
    BY <1>1, DataView DEF IInv, TypeOK, Class
  <2>2. IsrReport(c, data[c])
    BY <1>3 DEF FrameRest
  <2>3. QED
    BY <1>1, <2>1, <2>2, IsrKeeps
<1>4. QED
  BY <1>1, <1>2, <1>3 DEF Irq

\* What a write of the main loop does to what the host will see: a report it puts where
\* it has found the endpoint free covers at most a report of a class that is crossed.
LEMMA PutKeeps ==
  ASSUME IInv, step = "write", NEW r, Put(Target, r), host' = host,
         NEW b \in Class, r.id # b, b \notin crossed
  PROVE  Seen(b)' = Seen(b)
<1>1. CASE ep' = ep
  BY <1>1 DEF Seen
<1>2. CASE ep' = [ep EXCEPT ![Target] = r]
  <2>1. ep[Target] = Free \/ ep[Target].id \in crossed
    BY DEF IInv, Contexts, Tested
  <2>2. ep[Target].id # b
    BY <2>1 DEF Free, Class
  <2>3. Target \in Endpoint /\ TypeOK
    BY DEF IInv, Target, Endpoint, EpOf
  <2>4. QED
    BY <1>2, <2>2, <2>3, OthersSeen
<1>3. QED
  BY <1>1, <1>2 DEF Put

LEMMA MouseStep ==
  IInv /\ (MouseTest \/ MouseWrite) => Contexts' /\ StuckOnlyIfCrossed'
<1>1. SUFFICES ASSUME IInv, MouseTest \/ MouseWrite PROVE Contexts' /\ StuckOnlyIfCrossed'
  OBVIOUS
<1>2. TypeOK /\ Steps /\ Tested /\ StuckOnlyIfCrossed
  BY <1>1 DEF IInv, Contexts
<1>3. CASE MouseTest
  <2>1. /\ task' = "mouse" /\ step' = "write" /\ ep["mouse"] = Free
        /\ UNCHANGED <<ep, host, notReleased, mixed, crossed>>
    BY <1>3 DEF MouseTest, Idle, EpOf, mainFrame, meetVars
  <2>2. Target' = "mouse"
    BY <2>1 DEF Target, Class
  <2>3. Contexts'
    BY <2>1, <2>2 DEF Contexts, Steps, Tested, Released, Current
  <2>4. \A b \in Class : Seen(b)' = Seen(b)
    BY <2>1, StillSeen
  <2>5. QED
    BY <1>2, <2>1, <2>3, <2>4 DEF StuckOnlyIfCrossed
<1>4. CASE MouseWrite
  <2>1. /\ task = "mouse" /\ Put("mouse", Moved) /\ mixed' = FALSE
        /\ task' = "check" /\ step' = "test"
        /\ UNCHANGED <<host, notReleased, crossed>>
    BY <1>4 DEF MouseWrite, mainFrame
  <2>2. step = "write" /\ Target = "mouse"
    BY <1>2, <2>1 DEF Steps, Target, Class
  <2>3. Contexts'
    BY <2>1 DEF Contexts, Steps, Tested, Released, Current
  <2>4. ASSUME NEW b \in Class, Seen(b)' # "up" PROVE b \in notReleased' \cup crossed'
    <3>1. CASE b \in crossed
      BY <2>1, <3>1
    <3>2. CASE b \notin crossed
      <4>1. Moved.id # b
        BY DEF Moved, Class
      <4>2. Seen(b)' = Seen(b)
        BY <1>1, <2>1, <2>2, <3>2, <4>1, PutKeeps
      <4>3. QED
        BY <1>2, <2>1, <2>4, <4>2 DEF StuckOnlyIfCrossed
    <3>3. QED
      BY <3>1, <3>2
  <2>5. QED
    BY <2>3, <2>4 DEF StuckOnlyIfCrossed
<1>5. QED
  BY <1>1, <1>3, <1>4

\* One step of the release of a class.
LEMMA ReleaseStep ==
  ASSUME IInv, NEW c \in Class, Release(c)
  PROVE  Contexts' /\ StuckOnlyIfCrossed'
<1>1. /\ TypeOK /\ Steps /\ Tested /\ Released /\ Current /\ StuckOnlyIfCrossed
      /\ task = c /\ UNCHANGED host
  BY DEF IInv, Contexts, Release, ReleaseTest, BusyTest, ReleaseWrite, ClearLoad,
         ClearStore, mainFrame
<1>2. AfterTask[c] \in Class \cup {"idle"} /\ c # "mouse"
  BY Tables DEF Class
<1>3. CASE ReleaseTest(c) \/ BusyTest(c)
  <2>1. step \in {"test", "busy"} /\ UNCHANGED <<ep, notReleased, reg, mixed, crossed>>
    BY <1>3 DEF ReleaseTest, BusyTest, meetVars
  <2>2. /\ task' \in Class \cup {"idle"} /\ step' \in {"test", "busy", "write"}
        /\ step' # "test" => task' = c
        /\ step' = "write" => Idle(c)
    BY <1>1, <1>2, <1>3 DEF ReleaseTest, BusyTest
  <2>3. ~mixed'
    BY <1>1, <2>1 DEF Steps
  <2>4. Steps'
    BY <2>2, <2>3 DEF Steps, Class
  <2>5. Tested'
    <3>1. SUFFICES ASSUME step' = "write" PROVE ep'[Target'] = Free
      BY DEF Tested
    <3>2. Target' = EpOf(c)
      BY <2>2, <3>1 DEF Target, EpOf
    <3>3. QED
      BY <2>1, <2>2, <3>1, <3>2 DEF Idle
  <2>6. Released' /\ Current'
    BY <2>2 DEF Released, Current
  <2>7. \A b \in Class : Seen(b)' = Seen(b)
    BY <1>1, <2>1, StillSeen
  <2>8. QED
    BY <1>1, <2>1, <2>4, <2>5, <2>6, <2>7 DEF Contexts, StuckOnlyIfCrossed
<1>4. CASE ReleaseWrite(c)
  <2> DEFINE r == [id |-> c, val |-> "up"]
  <2>1. /\ step = "write" /\ Put(EpOf(c), r) /\ step' = "load" /\ task' = c
        /\ crossed' = IF mixed THEN crossed \cup {c} ELSE crossed \ {c}
        /\ UNCHANGED notReleased
    BY <1>1, <1>4 DEF ReleaseWrite
  <2>2. mixed' = FALSE
    BY <1>4, Zenon DEF ReleaseWrite
  <2>3. Target = EpOf(c)
    BY <1>1 DEF Target
  <2>4. Seen(c)' = "up" \/ c \in crossed'
    <3>1. CASE mixed
      BY <2>1, <3>1
    <3>2. CASE ~mixed
      <4>1. ep' = [ep EXCEPT ![EpOf(c)] = r]
        BY <2>1, <3>2 DEF Put
      <4>2. "up" \in View(c)
        BY DEF View
      <4>3. QED
        BY <1>1, <4>1, <4>2, WriteSeen
    <3>3. QED
      BY <3>1, <3>2
  <2>5. ASSUME NEW b \in Class, b # c, b \notin crossed PROVE Seen(b)' = Seen(b)
    <3>1. r.id # b
      BY <2>5
    <3>2. Put(Target, r)
      BY <2>1, <2>3
    <3> HIDE DEF r
    <3>3. QED
      BY <1>1, <2>1, <2>5, <3>1, <3>2, PutKeeps
  <2>6. Steps' /\ Tested' /\ Current'
    BY <2>1, <2>2 DEF Steps, Tested, Current, Class
  <2>7. Released'
    <3>1. (Seen(task) = "up" \/ task \in crossed)'
      BY <2>1, <2>4 DEF Seen
    <3>2. QED
      BY <3>1 DEF Released
  <2>8. ASSUME NEW b \in Class, Seen(b)' # "up" PROVE b \in notReleased' \cup crossed'
    <3>1. CASE b = c
      BY <2>4, <2>8, <3>1
    <3>2. CASE b # c /\ b \in crossed
      BY <2>1, <3>2
    <3>3. CASE b # c /\ b \notin crossed
      <4>1. Seen(b)' = Seen(b)
        BY <2>5, <3>3
      <4>2. b \in notReleased
        BY <1>1, <2>8, <3>3, <4>1 DEF StuckOnlyIfCrossed
      <4>3. QED
        BY <2>1, <4>2
    <3>4. QED
      BY <3>1, <3>2, <3>3
  <2>9. StuckOnlyIfCrossed'
    BY <2>8 DEF StuckOnlyIfCrossed
  <2>10. QED
    BY <2>6, <2>7, <2>9 DEF Contexts
<1>5. CASE ClearLoad(c) \/ ClearStore(c)
  <2>1. UNCHANGED <<ep, mixed, crossed>> /\ step \in {"load", "store"}
    BY <1>5 DEF ClearLoad, ClearStore, meetVars
  <2>2. ~mixed' /\ \A b : Seen(b)' = Seen(b)
    BY <1>1, <2>1 DEF Steps, Seen
  <2>3. Seen(c) = "up" \/ c \in crossed
    BY <1>1, <2>1 DEF Released
  <2>4. CASE ClearLoad(c)
    <3>1. step' = "store" /\ task' = c /\ reg' = notReleased \ {c} /\ UNCHANGED notReleased
      BY <1>1, <2>4 DEF ClearLoad
    <3>2. Steps' /\ Tested' /\ Current'
      BY <2>1, <2>2, <3>1 DEF Steps, Tested, Current, Class
    <3>3. Released'
      <4>1. Seen(c)' = "up" \/ c \in crossed'
        BY <2>1, <2>2, <2>3
      <4>2. (Seen(task) = "up" \/ task \in crossed)'
        BY <3>1, <4>1 DEF Seen
      <4>3. QED
        BY <4>2 DEF Released
    <3>4. StuckOnlyIfCrossed'
      BY <1>1, <2>1, <2>2, <3>1 DEF StuckOnlyIfCrossed
    <3>5. QED
      BY <3>2, <3>3, <3>4 DEF Contexts
  <2>5. CASE ClearStore(c)
    <3>1. /\ step = "store" /\ step' = "test" /\ task' \in Class \cup {"idle"}
          /\ notReleased' = reg
      BY <1>2, <2>5 DEF ClearStore
    <3>2. Steps' /\ Tested' /\ Released' /\ Current'
      BY <2>2, <3>1 DEF Steps, Tested, Released, Current, Class
    <3>3. notReleased \ {c} \subseteq reg \cup crossed
      BY <1>1, <3>1 DEF Current
    <3>4. StuckOnlyIfCrossed'
      BY <1>1, <2>1, <2>2, <2>3, <3>1, <3>3 DEF StuckOnlyIfCrossed
    <3>5. QED
      BY <3>2, <3>4 DEF Contexts
  <2>6. QED
    BY <1>5, <2>4, <2>5
<1>6. QED
  BY <1>3, <1>4, <1>5 DEF Release

LEMMA CheckStep == IInv /\ ReleaseCheck => Contexts' /\ StuckOnlyIfCrossed'
<1>1. SUFFICES ASSUME IInv, ReleaseCheck PROVE Contexts' /\ StuckOnlyIfCrossed'
  OBVIOUS
<1>2. /\ task \in {"idle", "check"} /\ task' \in {"sys", "idle"}
      /\ UNCHANGED <<ep, host, notReleased, step, mixed, crossed>>
  BY <1>1 DEF ReleaseCheck, mainFrame, meetVars
<1>3. step = "test" /\ ~mixed
  BY <1>1, <1>2 DEF IInv, Contexts, Steps, TypeOK, Class
<1>4. Contexts'
  BY <1>2, <1>3 DEF Contexts, Steps, Tested, Released, Current, Class
<1>5. \A b \in Class : Seen(b)' = Seen(b)
  BY <1>2, StillSeen
<1>6. QED
  BY <1>1, <1>2, <1>4, <1>5 DEF IInv, StuckOnlyIfCrossed

\* Host and clock.
LEMMA WorldStep ==
  ASSUME IInv, (\E e \in Endpoint : HostFetch(e)) \/ BusReset \/ Expire \/ UNCHANGED vars
  PROVE  Contexts' /\ StuckOnlyIfCrossed'
<1>1. TypeOK /\ Steps /\ Tested /\ Released /\ Current /\ StuckOnlyIfCrossed
  BY DEF IInv, Contexts
<1>2. ASSUME NEW e \in Endpoint, HostFetch(e) PROVE Contexts' /\ StuckOnlyIfCrossed'
  <2>1. /\ ep' = [ep EXCEPT ![e] = Free]
        /\ UNCHANGED <<notReleased, task, step, reg, mixed, crossed>>
    BY <1>2 DEF HostFetch, mainVars, meetVars
  <2>2. \A b \in Class : Seen(b)' = Seen(b)
    BY <1>1, <1>2, FetchSeen
  <2>3. ep'[Target'] \in {ep[Target], Free} /\ Target' = Target
    BY <1>1, <2>1 DEF TypeOK, Target, Endpoint, EpOf
  <2>4. Tested'
    BY <1>1, <2>1, <2>3 DEF Tested
  <2>5. Released'
    <3>1. task \in Class => (Seen(task))' = Seen(task)
      <4>1. SUFFICES ASSUME NEW b \in Class, task = b PROVE (Seen(task))' = Seen(task)
        OBVIOUS
      <4>2. QED
        BY <2>1, <2>2, <4>1 DEF Seen
    <3>2. QED
      BY <1>1, <2>1, <3>1 DEF Released, Steps
  <2>6. Steps' /\ Current'
    BY <1>1, <2>1 DEF Steps, Current
  <2>7. QED
    BY <1>1, <2>1, <2>2, <2>4, <2>5, <2>6 DEF Contexts, StuckOnlyIfCrossed
<1>3. CASE BusReset
  <2>1. /\ task = "idle" /\ ep' = [e \in Endpoint |-> Free]
        /\ host' = [c \in Class |-> "up"] /\ UNCHANGED <<task, step, reg, mixed>>
    BY <1>3 DEF BusReset, mainVars
  <2>2. \A b \in Class : Seen(b)' = "up"
    BY <2>1 DEF Seen, EpOf, Endpoint, Free, Class
  <2>3. step = "test" /\ ~mixed
    BY <1>1, <2>1 DEF Steps, TypeOK, Class
  <2>4. Contexts'
    BY <2>1, <2>3 DEF Contexts, Steps, Tested, Released, Current, Class
  <2>5. QED
    BY <2>2, <2>4 DEF StuckOnlyIfCrossed
<1>4. CASE Expire \/ UNCHANGED vars
  <2>1. UNCHANGED <<ep, host, notReleased, mainVars, meetVars>>
    BY <1>4 DEF Expire, vars
  <2>2. QED
    BY <2>1, Elsewhere
<1>5. QED
  BY <1>2, <1>3, <1>4

LEMMA IInvStep == IInv /\ [Next]_vars => IInv'
<1>1. SUFFICES ASSUME IInv, [Next]_vars PROVE IInv'
  OBVIOUS
<1>2. TypeOK'
  BY <1>1, TypeStep DEF IInv
<1>3. Contexts' /\ StuckOnlyIfCrossed'
  BY <1>1, IrqStep, MouseStep, CheckStep, ReleaseStep, WorldStep DEF Next, Main
<1>4. QED
  BY <1>2, <1>3 DEF IInv

\* Wherever the interrupt comes, a key the host believes is down has its bit in
\* usbkb_not_released, unless the last report of its class met the other context.
THEOREM UsbStuckOnlyIfCrossed == Spec => []StuckOnlyIfCrossed
<1>1. IInv => StuckOnlyIfCrossed
  BY DEF IInv
<1>2. QED
  BY IInvInit, IInvStep, <1>1, PTL DEF Spec

\* Wherever the interrupt comes, a report the host has not fetched is written over only
\* if the interrupt put it where the main loop had found the endpoint free.
THEOREM UsbLostOnlyIfMixed == Spec => LostOnlyIfMixed
<1>1. IInv /\ [Next]_vars =>
        [\A e \in Endpoint :
           ep[e] # Free => ep'[e] \in {ep[e], Free} \/ (mixed /\ ep[e].id \in crossed)]_vars
  <2>1. SUFFICES ASSUME IInv, [Next]_vars, NEW e \in Endpoint, ep[e] # Free
                 PROVE ep'[e] \in {ep[e], Free} \/ (mixed /\ ep[e].id \in crossed)
    OBVIOUS
  <2>2. TypeOK /\ Steps /\ Tested
    BY <2>1 DEF IInv, Contexts
  <2>3. ASSUME NEW c, NEW v, IsrWrite(c, v) PROVE ep'[e] = ep[e]
    BY <2>1, <2>2, <2>3 DEF IsrWrite, Reports, Idle, TypeOK
  <2>4. ASSUME NEW r, step = "write", Put(Target, r)
        PROVE  ep'[e] \in {ep[e], Free} \/ (mixed /\ ep[e].id \in crossed)
    <3>1. ep'[e] = ep[e] \/ e = Target
      BY <2>2, <2>4 DEF Put, TypeOK
    <3>2. QED
      BY <2>1, <2>2, <2>4, <3>1 DEF Tested
  <2>5. CASE Irq
    BY <2>3, <2>5 DEF Irq, Frame, FrameRest, IsrReport
  <2>6. CASE MouseWrite
    <3>1. task = "mouse" /\ Put("mouse", Moved)
      BY <2>6 DEF MouseWrite
    <3>2. step = "write" /\ Target = "mouse"
      BY <2>2, <3>1 DEF Steps, Target, Class
    <3>3. QED
      BY <2>4, <3>1, <3>2
  <2>7. ASSUME NEW c \in Class, Release(c)
        PROVE  ep'[e] \in {ep[e], Free} \/ (mixed /\ ep[e].id \in crossed)
    <3>1. CASE ReleaseWrite(c)
      <4>1. step = "write" /\ Put(EpOf(c), [id |-> c, val |-> "up"]) /\ Target = EpOf(c)
        BY <3>1 DEF ReleaseWrite, Target
      <4>2. QED
        BY <2>4, <4>1
    <3>2. CASE ~ReleaseWrite(c)
      BY <2>7, <3>2 DEF Release, ReleaseTest, BusyTest, ClearLoad, ClearStore
    <3>3. QED
      BY <3>1, <3>2
  <2>8. ASSUME NEW x \in Endpoint, HostFetch(x) PROVE ep'[e] \in {ep[e], Free}
    BY <2>2, <2>8 DEF HostFetch, TypeOK
  <2>9. CASE MouseTest \/ ReleaseCheck \/ Expire \/ UNCHANGED vars
    BY <2>9 DEF MouseTest, ReleaseCheck, Expire, vars
  <2>10. CASE BusReset
    BY <2>10 DEF BusReset
  <2>11. QED
    BY <2>1, <2>5, <2>6, <2>7, <2>8, <2>9, <2>10 DEF Next, Main
<1>2. QED
  BY IInvInit, IInvStep, <1>1, PTL DEF Spec, LostOnlyIfMixed
-----------------------------------------------------------------------------
\* With no interrupt at work the keys only come up: no class gets its bit or is pressed
\* again, none becomes crossed unless a write is mixed already, and when the main loop
\* ends its BM_CLR the bit of the class it releases is gone and no other bit has changed,
\* except where the two contexts have met before.
Settles ==
  isr = "off" /\ isr' = "off" =>
    /\ notReleased' \subseteq notReleased \cup crossed
    /\ \A c \in Class \ crossed : Seen(c)' \in {Seen(c), "up"}
    /\ ~mixed => ~mixed' /\ crossed' \subseteq crossed
    /\ step = "store" /\ step' # "store" =>
         /\ task \notin notReleased'
         /\ \A c \in Class \ (crossed \cup {task}) : c \in notReleased' <=> c \in notReleased
OnlySettles == [][Settles]_vars

\* Steps other than the last of BM_CLR, of the interrupt and of the main loop's writes.
LEMMA QuietSettles ==
  ASSUME UNCHANGED <<notReleased, mixed>>, crossed' \subseteq crossed,
         step = "store" => step' = "store",
         \A c \in Class : Seen(c)' \in {Seen(c), "up"}
  PROVE  Settles
<1>1. ~mixed => ~mixed'
  BY Zenon
<1>2. QED
  BY <1>1 DEF Settles

LEMMA SettlesStep == IInv /\ [Next]_vars => Settles
<1>1. SUFFICES ASSUME IInv, [Next]_vars, isr = "off", isr' = "off" PROVE Settles
  BY DEF Settles
<1>2. TypeOK /\ Steps /\ Tested /\ Current
  BY <1>1 DEF IInv, Contexts
<1>3. CASE Irq
  <2>1. \A c \in {"sys", "media"} : ~FrameRest(c)
    BY <1>1 DEF FrameRest
  <2>2. PICK d \in Data : Frame(d)
    BY <1>3, <2>1 DEF Irq
  <2>3. Repeat(d)
    BY <1>1, <2>2 DEF Frame, IsrReport, IsrNext
  <2>4. UNCHANGED <<ep, host, notReleased, step, mixed, crossed>>
    BY <2>2, <2>3 DEF Frame, mainVars, meetVars
  <2>5. QED
    BY <2>4, StillSeen, QuietSettles
<1>4. CASE MouseTest \/ ReleaseCheck \/ Expire \/ UNCHANGED vars
  <2>1. /\ UNCHANGED <<ep, host, notReleased, mixed, crossed>>
        /\ step = "store" => step' = "store"
    BY <1>2, <1>4 DEF MouseTest, ReleaseCheck, Expire, vars, mainFrame, mainVars, meetVars,
                      Steps, Class
  <2>2. QED
    BY <2>1, StillSeen, QuietSettles
<1>5. CASE MouseWrite
  <2>1. /\ task = "mouse" /\ Put("mouse", Moved) /\ mixed' = FALSE
        /\ UNCHANGED <<host, notReleased, crossed>>
    BY <1>5 DEF MouseWrite, mainFrame
  <2>2. step = "write" /\ Target = "mouse"
    BY <1>2, <2>1 DEF Steps, Target, Class
  <2>3. \A c \in Class \ crossed : Seen(c)' = Seen(c)
    <3>1. SUFFICES ASSUME NEW c \in Class, c \notin crossed PROVE Seen(c)' = Seen(c)
      OBVIOUS
    <3>2. Moved.id # c
      BY DEF Moved, Class
    <3>3. QED
      BY <1>1, <2>1, <2>2, <3>1, <3>2, PutKeeps
  <2>4. QED
    BY <2>1, <2>2, <2>3 DEF Settles
<1>6. ASSUME NEW c \in Class, Release(c) PROVE Settles
  <2>1. CASE ReleaseTest(c) \/ BusyTest(c) \/ ClearLoad(c)
    <3>1. /\ UNCHANGED <<ep, host, notReleased, mixed, crossed>>
          /\ step = "store" => step' = "store"
      BY <2>1 DEF ReleaseTest, BusyTest, ClearLoad, mainFrame, meetVars
    <3>2. QED
      BY <3>1, StillSeen, QuietSettles
  <2>2. CASE ReleaseWrite(c)
    <3> DEFINE r == [id |-> c, val |-> "up"]
    <3>1. /\ step = "write" /\ Put(Target, r) /\ step' = "load"
          /\ crossed' = IF mixed THEN crossed \cup {c} ELSE crossed \ {c}
          /\ UNCHANGED <<host, notReleased>>
      BY <2>2 DEF ReleaseWrite, Target, mainFrame
    <3>2. mixed' = FALSE
      BY <2>2, Zenon DEF ReleaseWrite
    <3>3. Seen(c)' \in {Seen(c), "up"}
      <4>1. CASE ep' = ep
        BY <3>1, <4>1 DEF Seen
      <4>2. CASE ep' = [ep EXCEPT ![EpOf(c)] = r]
        <5>1. "up" \in View(c)
          BY DEF View
        <5>2. QED
          BY <1>2, <4>2, <5>1, WriteSeen
      <4>3. QED
        BY <2>2, <4>1, <4>2 DEF ReleaseWrite, Put
    <3>4. ASSUME NEW b \in Class, b # c, b \notin crossed PROVE Seen(b)' = Seen(b)
      <4>1. r.id # b
        BY <3>4
      <4> HIDE DEF r
      <4>2. QED
        BY <1>1, <3>1, <3>4, <4>1, PutKeeps
    <3>5. QED
      BY <3>1, <3>2, <3>3, <3>4 DEF Settles
  <2>3. CASE ClearStore(c)
    <3>1. /\ step = "store" /\ task = c /\ notReleased' = reg
          /\ UNCHANGED <<ep, host, mixed, crossed>>
      BY <2>3 DEF ClearStore, mainFrame, meetVars
    <3>2. /\ notReleased \ {c} \subseteq reg \cup crossed
          /\ reg \subseteq notReleased \cup crossed /\ c \notin reg
      BY <1>2, <3>1 DEF Current
    <3>3. \A b \in Class : Seen(b)' = Seen(b)
      BY <3>1, StillSeen
    <3>4. ~mixed => ~mixed'
      BY <3>1, Zenon
    <3>5. QED
      BY <3>1, <3>2, <3>3, <3>4 DEF Settles
  <2>4. QED
    BY <1>6, <2>1, <2>2, <2>3 DEF Release
<1>7. ASSUME NEW e \in Endpoint, HostFetch(e) PROVE Settles
  <2>1. UNCHANGED <<notReleased, step, mixed, crossed>>
    BY <1>7 DEF HostFetch, mainVars, meetVars
  <2>2. \A c \in Class : Seen(c)' = Seen(c)
    BY <1>2, <1>7, FetchSeen
  <2>3. QED
    BY <2>1, <2>2, QuietSettles
<1>8. CASE BusReset
  <2>1. UNCHANGED <<notReleased, step, mixed>> /\ crossed' \subseteq crossed
    BY <1>8 DEF BusReset, mainVars
  <2>2. \A c \in Class : Seen(c)' = "up"
    BY <1>8 DEF BusReset, Seen, EpOf, Endpoint, Free, Class
  <2>3. QED
    BY <2>1, <2>2, QuietSettles
<1>9. QED
  BY <1>1, <1>3, <1>4, <1>5, <1>6, <1>7, <1>8 DEF Next, Main

\* The step behind ReleasedUnlessCrossed, for all sets of keys and wherever interrupts
\* have come before: left alone, the main loop releases keys and never sets a bit, and
\* its BM_CLR loses the bit of no class whose last report did not meet it.
THEOREM UsbOnlySettles == Spec => OnlySettles
<1>1. IInv /\ [Next]_vars => [Settles]_vars
  BY SettlesStep
<1>2. QED
  BY IInvInit, IInvStep, <1>1, PTL DEF Spec, OnlySettles
=============================================================================
