------------------------------- MODULE KeyBuf -------------------------------
(***************************************************************************)
(* From the contacts of the key matrix to the reports kb_scan_key hands to *)
(* the main loop: src/tlsdk/proj/drivers/keyboard.c.  The contacts are     *)
(* read row by row, ghost keys removed, the rest debounced; every change   *)
(* (and every 200 ms a key that is held) goes into a ring of matrices;     *)
(* while the host is known, one matrix per scan is translated into a       *)
(* report and put into a buffer that merges reports, or drops the oldest,  *)
(* when it is full; the radio takes a report when it has sent the last.    *)
(* Nothing is scanned once all keys have been up for some scans.           *)
(***************************************************************************)
EXTENDS Naturals, FiniteSets, Sequences, SequencesExt

CONSTANTS
  Drive, Scan,  \* the rows (drive_pins) and columns (scan_pins), sets of numbers
  KeyMap,       \* KeyMap[fn, num][key], what a key stands for: [code, ctrl]
  None,         \* the code of a key that types nothing by itself
  NumLock,      \* what the host may tell of num lock, a subset of BOOLEAN
  FnKey,        \* the key VK_FN
  Presses,      \* the sets of keys a typist may hold
  RingSize,     \* 4, matrix_buff
  BufSize,      \* 8, KEY_BUF_SIZE
  MaxKeys,      \* 6, KB_RETURN_KEY_MAX
  ReleaseScans, \* 6, release_cnt
  RepeatScans,  \* 16, 200 ms of loops
  MaxTouches    \* bound: how often the typist moves

Key    == Drive \X Scan
Matrix == SUBSET Key
Nothing == [keys |-> <<>>, ctrl |-> {}]

ASSUME KeyAssumption ==
  /\ Drive \subseteq Nat /\ Scan \subseteq Nat
  /\ IsFiniteSet(Drive) /\ IsFiniteSet(Scan)
  /\ Presses \subseteq Matrix /\ NumLock \subseteq BOOLEAN
  /\ {RingSize, BufSize, MaxKeys, ReleaseScans, RepeatScans} \subseteq Nat \ {0}
  /\ ReleaseScans >= 3
  /\ MaxTouches \in Nat

VARIABLES
  down,    \* the keys the typist holds down
  pre,     \* mtrx_pre: the matrix read by the last scan
  last,    \* mtrx_last: the debounced matrix
  rel,     \* release_cnt
  same,    \* data_same_cnt
  ring,    \* matrix_buff from matrix_rptr to matrix_wptr
  buf,     \* keyEvt_buf
  told,    \* kb_event as last returned for sending
  touches  \* how often the typist has moved

vars == <<down, pre, last, rel, same, ring, buf, told, touches>>
-----------------------------------------------------------------------------
(* What the contacts show *)

\* Current finds every way through the contacts: with three corners of a rectangle
\* closed the fourth reads as closed, too.
Rectangular(m) ==
  \A a, b \in Drive, c, d \in Scan :
    <<a, c>> \in m /\ <<b, c>> \in m /\ <<b, d>> \in m => <<a, d>> \in m
Wired[held \in Presses] ==
  {k \in Key : \A m \in Matrix : held \subseteq m /\ Rectangular(m) => k \in m}

Row(m, a) == {c \in Scan : <<a, c>> \in m}

\* kb_rmv_ghost_key: rows are taken in order, and mix_final collects what two rows
\* share, unless both hold nothing but the one key in the same column.
Ghost(m, a, b) ==
  LET mix == Row(m, a) \cap Row(m, b) IN
  IF Cardinality(mix) >= 2 \/ Row(m, a) # Row(m, b) THEN mix ELSE {}
CleanOwnPairs(m) ==  \* mutant: mix_final starts anew in every row
  {k \in m : \A b \in Drive : b > k[1] => k[2] \notin Ghost(m, k[1], b)}
Clean(m) ==
  {k \in m : \A a, b \in Drive : a <= k[1] /\ a < b => k[2] \notin Ghost(m, a, b)}

Contacts == [held \in Presses |-> Clean(Wired[held])]

\* key_debounce_filter: a key goes down or up when two scans agree.
Debounced(m) == ((pre \cap m) \ last) \cup (last \cap (pre \cup m))
-----------------------------------------------------------------------------
(* Reports *)

Before(j, k) == j[1] < k[1] \/ (j[1] = k[1] /\ j[2] < k[2])

\* kb_remap_key_code, kb_remap_key_row: rows in order, columns in order, until the
\* report is full; what comes after is left out, modifiers too.
Layers == BOOLEAN \X NumLock
Typed(m, layer) == {k \in m : KeyMap[layer][k].code # None}
Rank(k, keys) == Cardinality({j \in keys : Before(j, k)})
Taken(m, layer) == {k \in m : Rank(k, Typed(m, layer)) < MaxKeys}
Remap(m, layer) ==
  LET taken == Taken(m, layer)
      typed == Typed(taken, layer)
  IN [keys |-> [i \in 1 .. Cardinality(typed) |->
                  KeyMap[layer][CHOOSE k \in typed : Rank(k, typed) = i - 1].code],
      ctrl |-> UNION {KeyMap[layer][k].ctrl : k \in taken}]

\* KEY_SPECIAL: releases and reports with modifiers keep their place.
Plain(r) == r.keys # <<>> /\ r.ctrl = {}

\* key_buf_merge, key_merge: neighbours are joined from the left as long as they fit.
JoinsTight(r, s) == Plain(r) /\ Plain(s) /\ Len(r.keys) + Len(s.keys) < MaxKeys  \* mutant
Joins(r, s) == Plain(r) /\ Plain(s) /\ Len(r.keys) + Len(s.keys) <= MaxKeys
Merged(b) ==
  FoldLeft(LAMBDA acc, r : IF acc # <<>> /\ Joins(Last(acc), r)
                           THEN Append(Front(acc), [Last(acc) EXCEPT !.keys = @ \o r.keys])
                           ELSE Append(acc, r),
           <<>>, b)
RoomMerged(b) == Merged(b)  \* mutant: nothing is dropped when nothing merges
Room(b) == IF Len(Merged(b)) < Len(b) THEN Merged(b) ELSE Tail(b)

\* Advancing matrix_rptr when the ring is full.
FitOldest(q) == IF Len(q) > RingSize THEN Front(q) ELSE q  \* mutant: the newest is dropped
Fit(q) == IF Len(q) > RingSize THEN Tail(q) ELSE q

-----------------------------------------------------------------------------
(* user_init scans once.  At power-on that scan bypasses the filter and what it
   reads is forgotten; after deep sleep it fills mtrx_pre. *)
Init ==
  /\ down \in Presses
  /\ pre \in {{}, Contacts[down]}
  /\ rel = IF down = {} THEN 0 ELSE ReleaseScans - 1
  /\ last = {} /\ same = 0 /\ ring = <<>> /\ buf = <<>> /\ told = Nothing
  /\ touches = 0

Touch ==
  /\ touches < MaxTouches
  /\ down' \in Presses \ {down}
  /\ touches' = touches + 1
  /\ UNCHANGED <<pre, last, rel, same, ring, buf, told>>

\* What kb_scan_key is told: the host status is unknown, in STATE_NORMAL and not
\* locked (it then returns an empty report at once); the last report is sent; the
\* keyboard is locked; num lock is on.
Status == {s \in [forced : BOOLEAN, read : BOOLEAN, locked : BOOLEAN, num : BOOLEAN] :
             s.num \in NumLock /\ (s.forced => ~s.locked /\ ~s.read)}

RelShort == 2  \* mutant: release_cnt just covers the debouncing
RelFull == ReleaseScans
RelAfter == (IF down # {} THEN RelFull ELSE rel) - 1

\* A key held for RepeatScans scans is reported again.
Due == same + 1 >= RepeatScans
AgainNever(s) == FALSE  \* mutant: a change is reported once
Again(s) == Due /\ ~s.locked

\* kb_scan_key
KbScanKey(s) ==
  /\ down # {} \/ rel > 0
  /\ LET raw   == Wired[down]
         m     == Contacts[down]
         now   == Debounced(m)
         push  == now # last \/ Again(s)
         queue == IF push THEN Fit(Append(ring, now)) ELSE ring
         new   == Remap(Head(queue), <<FnKey \in raw, s.num>>)
         full  == IF queue = <<>> THEN buf
                  ELSE Append(IF Len(buf) = BufSize THEN Room(buf) ELSE buf, new)
     IN /\ pre' = m /\ last' = now
        /\ same' = IF now # last \/ Due THEN 0 ELSE same + 1
        /\ IF s.forced THEN /\ ring' = queue /\ buf' = buf
                            /\ told' = Nothing
           ELSE /\ ring' = IF queue = <<>> THEN queue ELSE Tail(queue)
                /\ IF s.read /\ full # <<>> THEN told' = Head(full) /\ buf' = Tail(full)
                                            ELSE told' = told /\ buf' = full
  /\ rel' = RelAfter
  /\ UNCHANGED <<down, touches>>

ScanKey == \E s \in Status : KbScanKey(s)
Next == Touch \/ ScanKey

Spec     == Init /\ [][Next]_vars
FairSpec == Spec /\ WF_vars(ScanKey)
-----------------------------------------------------------------------------
Tells(m) == {Remap(m, layer) : layer \in Layers}
Codes    == {KeyMap[l][k].code : l \in Layers, k \in Key}
Ctrls    == UNION {KeyMap[l][k].ctrl : l \in Layers, k \in Key}
Reports  == [keys : Seq(Codes), ctrl : SUBSET Ctrls]

TypeOK ==
  /\ down \in Presses /\ pre \in Matrix /\ last \in Matrix
  /\ rel \in 0 .. ReleaseScans /\ same \in 0 .. RepeatScans
  /\ ring \in Seq(Matrix) /\ Len(ring) <= RingSize
  /\ buf \in Seq(Reports) /\ Len(buf) <= BufSize
  /\ \A r \in Range(buf) \cup {told} : r \in Reports /\ Len(r.keys) <= MaxKeys
  /\ touches \in 0 .. MaxTouches

\* Whatever ring and buffer drop or merge while the link is slow or lost, the
\* newest entry in them is the state of the keys now; when both are empty the
\* report told last is, or it is the empty one told when the host was unknown.
LastTellsNow ==
  /\ ring # <<>> => Last(ring) = last
  /\ ring = <<>> /\ buf # <<>> => Last(buf) \in Tells(last)
  /\ ring = <<>> /\ buf = <<>> => told \in Tells(last) \cup {Nothing}

\* After the last key has gone up the matrix is scanned long enough (release_cnt) for
\* the release to get through the filter: when scanning stops, no key is down in
\* the debounced matrix, and by LastTellsNow the release is told or in the buffers.
ReleaseNoticed == down = {} /\ rel = 0 => last = {}

\* A key is never reported down that is not: whatever set of keys is held, one that
\* comes new into the debounced matrix is physically down.
NoGhosts == [][last' \ last \subseteq down]_vars

\* What the reports of the buffer type, in order: keys one by one, a release or a
\* report with modifiers as a whole.
Typing(b) ==
  FoldLeft(LAMBDA acc, r : IF Plain(r) THEN acc \o [i \in DOMAIN r.keys |-> [r EXCEPT !.keys = <<r.keys[i]>>]]
                                       ELSE Append(acc, r), <<>>, b)
Stuck(b) ==
  \A i \in 1 .. Len(b) - 1 :
    \/ {b[i].keys, b[i + 1].keys} \cap {<<>>} # {} \/ b[i].ctrl \cup b[i + 1].ctrl # {}
    \/ Len(b[i].keys) + Len(b[i + 1].keys) > MaxKeys

\* Merging neither loses nor reorders what is typed, and no release: the oldest
\* report, and nothing else, is dropped, and only from a full buffer in which no two
\* neighbours fit into one report (key_buf_merge).
LosesOnlyWhenStuck ==
  [][\E out \in {buf', <<told'>> \o buf'} :
       LET new  == {<<>>} \cup {<<r>> : r \in IF out = <<>> THEN {} ELSE {Last(out)}}
           kept == {buf} \cup IF Len(buf) = BufSize /\ Stuck(buf) THEN {Tail(buf)} ELSE {}
       IN \E b \in kept, n \in new : Typing(out) = Typing(b) \o Typing(n)]_vars

Says(m) == \E r \in Tells(m) : Range(told.keys) = Range(r.keys) /\ told.ctrl = r.ctrl

\* While the typist holds still, the host is known and the keyboard not locked.
HoldStep == \E s \in Status : ~s.forced /\ ~s.locked /\ KbScanKey(s)
ReadStep == \E s \in Status : ~s.forced /\ s.read /\ KbScanKey(s)

\* Keys that are held are told at last, however late: also when the link was lost
\* and an empty report was told meanwhile (KB_NUMLOCK_STATUS_INVALID), and however
\* seldom the radio takes a report.
HeldIsTold ==
  \A p \in Presses \ {{}} :
    (<>[](down = p) /\ <>[][HoldStep]_vars /\ []<><<ReadStep>>_vars)
      => <>[]Says(Contacts[p])
=============================================================================
