------------------------------ MODULE SndStream ------------------------------
(***************************************************************************)
(* The PCM stream of virtio-snd and the three threads that share it: the   *)
(* emulator thread, which runs the guest and its control requests, the TX  *)
(* thread, which takes PCM messages off the TX queue, and the PortAudio    *)
(* callback, which plays them.                                             *)
(*                                                                         *)
(* Between a lock and its unlock a thread is at a step that holds lock.    *)
(* Ring indices count modulo IdxMod (65536 in the code) and the guest      *)
(* posts at most QNum messages at a time, each with one payload of Period  *)
(* frames.  A frame is a unit of data.                                     *)
(***************************************************************************)
EXTENDS Naturals, FiniteSets

CONSTANTS
  QNum,      \* QueueNum of the TX queue, and the number of descriptor chains
  IdxMod,    \* modulus of the ring indices
  Period,    \* frames of a message
  CbFrames,  \* frames the callback asks for at a time
  MaxKick,   \* bound on tx_ev_notify
  MaxNotify, \* bound on buf_ev_notify
  AfterOverlap  \* whether the guest goes on after an overlap (see below)

ASSUME ConstAssumption ==
  /\ QNum \in Nat \ {0} /\ IdxMod \in Nat /\ IdxMod % QNum = 0 /\ IdxMod > QNum
  /\ Period \in Nat \ {0} /\ CbFrames \in Nat /\ MaxKick \in Nat \ {0}
  /\ MaxNotify \in Nat /\ MaxNotify > QNum /\ AfterOverlap \in BOOLEAN

Slot == 0 .. QNum - 1
Index == 0 .. IdxMod - 1

VARIABLES
  code, pa,            \* pp.hdr.hdr.code; the PortAudio stream
  lock, notify, releasing, list,  \* lock.lock and what it guards
  tx_ev,               \* tx_ev_notify
  qnum, failed, irq,   \* the device: QueueNum (0 after a reset), status, interrupt
  last_avail,          \* shared by the TX thread and a flush
  availIdx, availRing, usedIdx, usedRing,  \* the queue in guest RAM
  tx, txAvail, txUsed, txMsg,  \* the TX thread: where it is, new_avail, new_used
  emu, emAvail, emUsed,        \* the emulator thread, the same in a flush
  cb,                  \* the callback
  seen, outstanding,   \* the guest: used index seen, messages not yet returned
  foreign,             \* of those the TX thread has, the ones for no stream
  overlap,             \* history: a flush, reset or prepare overlapped TX work
  openFailed,          \* history: the last Pa_OpenStream failed
  wrong                \* history: what must not happen and did

streamVars == <<code, pa, openFailed>>
guarded == <<notify, releasing, list>>
device == <<qnum, failed, irq>>
ram == <<availIdx, availRing, usedIdx, usedRing>>
txVars == <<tx, txAvail, txUsed, txMsg>>
emVars == <<emu, emAvail, emUsed>>
guest == <<seen, outstanding, foreign>>
vars == <<code, pa, lock, notify, releasing, list, tx_ev, qnum, failed, irq, last_avail,
          availIdx, availRing, usedIdx, usedRing, tx, txAvail, txUsed, txMsg,
          emu, emAvail, emUsed, cb, seen, outstanding, foreign, overlap, openFailed, wrong>>

\* vsnd_props and virtio_snd_init, and a driver that has set up its queues
Init ==
  /\ code = "set_params" /\ pa = "none" /\ openFailed = FALSE
  /\ lock = "free" /\ notify = 0 /\ releasing = FALSE /\ list = 0
  /\ tx_ev = 0 /\ qnum = QNum /\ failed = "no" /\ irq = FALSE /\ last_avail = 0
  /\ availIdx = 0 /\ availRing = [s \in Slot |-> 0]
  /\ usedIdx = 0 /\ usedRing = [s \in Slot |-> 0]
  /\ tx = "idle" /\ txAvail = 0 /\ txUsed = 0 /\ txMsg = 0
  /\ emu = "guest" /\ emAvail = 0 /\ emUsed = 0
  /\ cb = "idle" /\ seen = 0 /\ outstanding = {} /\ foreign = {}
  /\ overlap = FALSE /\ wrong = {}

Inc(i) == (i + 1) % IdxMod
Running == tx # "crashed"

\* The guest runs; after an overlap only if AfterOverlap.
AtGuest == Running /\ emu = "guest" /\ (overlap => AfterOverlap)
TxBusy == tx # "idle"

-----------------------------------------------------------------------------
(* The guest's driver (external).                                          *)

\* A message for a prepared stream goes into the available ring ...
GuestPost(m) ==
  /\ AtGuest /\ qnum # 0 /\ code \in {"prepare", "start", "stop"}
  /\ m \notin outstanding /\ \A k \in Slot : k < m => k \in outstanding
  /\ availRing' = [availRing EXCEPT ![availIdx % QNum] = m]
  /\ availIdx' = Inc(availIdx)
  /\ outstanding' = outstanding \cup {m}
  /\ UNCHANGED <<streamVars, lock, guarded, tx_ev, device, last_avail, usedIdx, usedRing,
                 txVars, emVars, cb, seen, foreign, overlap, wrong>>

\* ... and QueueNotify tells the TX thread.
NotifyTx ==
  /\ AtGuest /\ qnum # 0 /\ code \in {"prepare", "start", "stop"}
  /\ tx_ev < MaxKick
  /\ tx_ev' = tx_ev + 1
  /\ UNCHANGED <<streamVars, lock, guarded, device, last_avail, ram, txVars, emVars, cb,
                 guest, overlap, wrong>>

\* The interrupt: acknowledged, and all new used elements taken.
GuestInterrupt ==
  /\ AtGuest /\ irq /\ irq' = FALSE
  /\ LET n == (usedIdx + IdxMod - seen) % IdxMod
         ids == [k \in 0 .. n - 1 |-> usedRing[(seen + k) % QNum]]
         back == {ids[k] : k \in 0 .. n - 1}
     IN  /\ outstanding' = outstanding \ back
         /\ wrong' = IF back \subseteq outstanding /\ Cardinality(back) = n
                     THEN wrong ELSE wrong \cup {"completion"}
  /\ seen' = usedIdx
  /\ UNCHANGED <<streamVars, lock, guarded, tx_ev, qnum, failed, last_avail, ram, txVars,
                 emVars, cb, foreign, overlap>>

\* After a reset: rings zeroed, QueueNum, QueueReady and DRIVER_OK written.
GuestSetup ==
  /\ AtGuest /\ qnum = 0
  /\ qnum' = QNum /\ last_avail' = 0
  /\ availIdx' = 0 /\ availRing' = [s \in Slot |-> 0]
  /\ usedIdx' = 0 /\ usedRing' = [s \in Slot |-> 0]
  /\ seen' = 0 /\ outstanding' = {}
  /\ UNCHANGED <<streamVars, lock, guarded, tx_ev, failed, irq, txVars, emVars, cb, foreign,
                 overlap, wrong>>

(***************************************************************************)
(* Status 0: the device is cleared under the TX thread; the stream and     *)
(* tx_ev_notify are not.                                                   *)
(***************************************************************************)
Reset ==
  /\ AtGuest /\ qnum # 0
  /\ qnum' = 0 /\ failed' = "no" /\ irq' = FALSE /\ last_avail' = 0
  /\ overlap' = (overlap \/ TxBusy \/ tx_ev > 0)
  /\ UNCHANGED <<streamVars, lock, guarded, tx_ev, ram, txVars, emVars, cb, guest, wrong>>

-----------------------------------------------------------------------------
(* Control requests, on the emulator thread.  One that its state does not  *)
(* allow changes nothing (and is answered like the others).                *)

\* The control queue is served if the device is up.
Request == AtGuest /\ failed = "no" /\ qnum # 0

\* A PortAudio call; onOpen: the stream it is for is open.
Calls(onOpen) ==
  wrong' = IF onOpen \/ openFailed THEN wrong ELSE wrong \cup {"stream"}

SetParams ==
  /\ Request /\ code \in {"release", "set_params", "prepare"}
  /\ code' = "set_params"
  /\ UNCHANGED <<pa, openFailed, lock, guarded, tx_ev, device, last_avail, ram, txVars,
                 emVars, cb, guest, overlap, wrong>>

\* An operation the device does not know fails it.
Unsupported ==
  /\ Request
  /\ failed' = "unsupported"
  /\ UNCHANGED <<streamVars, lock, guarded, tx_ev, qnum, irq, last_avail, ram, txVars, emVars,
                 cb, guest, overlap, wrong>>

\* PREPARE: the list is made anew, then the flags, without the lock.
Prepare ==
  /\ Request /\ code \in {"release", "set_params", "prepare"}
  /\ code' = "prepare" /\ list' = 0
  /\ emu' = "prepare"
  /\ overlap' = (overlap \/ TxBusy)
  /\ UNCHANGED <<pa, openFailed, lock, notify, releasing, tx_ev, device, last_avail, ram,
                 txVars, emAvail, emUsed, cb, guest, wrong>>

PrepareOpen(ok) ==
  /\ Running /\ emu = "prepare" /\ emu' = "guest"
  /\ releasing' = FALSE /\ notify' = 0
  /\ pa' = IF ok THEN "open" ELSE pa
  /\ openFailed' = ~ok
  /\ UNCHANGED <<code, lock, list, tx_ev, device, last_avail, ram, txVars, emAvail, emUsed,
                 cb, guest, overlap, wrong>>

\* START; Pa_StartStream may fail.
Start(ok) ==
  /\ Request /\ code \in {"prepare", "stop"}
  /\ code' = "start"
  /\ Calls(pa \in {"open", "running"})
  /\ pa' = IF ok /\ pa = "open" THEN "running" ELSE pa
  /\ UNCHANGED <<openFailed, lock, guarded, tx_ev, device, last_avail, ram, txVars, emVars,
                 cb, guest, overlap>>

\* STOP: Pa_StopStream, which may fail, waits for the callback to return.
Stop(ok) ==
  /\ Request /\ code = "start"
  /\ code' = "stop"
  /\ Calls(pa \in {"open", "running"})
  /\ IF ok /\ pa = "running" THEN pa' = "stopping" /\ emu' = "stop"
     ELSE UNCHANGED <<pa, emu>>
  /\ UNCHANGED <<openFailed, lock, guarded, tx_ev, device, last_avail, ram, txVars, emAvail,
                 emUsed, cb, guest, overlap>>

StopReturn ==
  /\ Running /\ emu = "stop" /\ cb = "idle"
  /\ pa' = "open" /\ emu' = "guest"
  /\ UNCHANGED <<code, openFailed, lock, guarded, tx_ev, device, last_avail, ram, txVars,
                 emAvail, emUsed, cb, guest, overlap, wrong>>

\* RELEASE: first the flag, under the lock, and both conditions ...
Release ==
  /\ Request /\ code \in {"prepare", "stop"}
  /\ code' = "release" /\ emu' = "releasing"
  /\ UNCHANGED <<pa, openFailed, lock, guarded, tx_ev, device, last_avail, ram, txVars,
                 emAvail, emUsed, cb, guest, overlap, wrong>>

\* As if the flag were set without the lock.
ReleaseFlag_NoLock ==
  /\ Running /\ emu = "releasing"
  /\ releasing' = TRUE
  /\ tx' = IF tx = "wait" THEN "enqueue" ELSE tx
  /\ cb' = IF cb = "wait" THEN "dequeue" ELSE cb
  /\ emu' = "freeing"
  /\ UNCHANGED <<streamVars, lock, notify, list, tx_ev, device, last_avail, ram, txAvail,
                 txUsed, txMsg, emAvail, emUsed, guest, overlap, wrong>>

\* As if only the TX thread were woken.
ReleaseFlag_WritersOnly ==
  /\ Running /\ emu = "releasing" /\ lock = "free"
  /\ releasing' = TRUE
  /\ tx' = IF tx = "wait" THEN "enqueue" ELSE tx
  /\ emu' = "freeing"
  /\ UNCHANGED <<streamVars, lock, notify, list, tx_ev, device, last_avail, ram, txAvail,
                 txUsed, txMsg, emAvail, emUsed, cb, guest, overlap, wrong>>

ReleaseFlag ==
  /\ Running /\ emu = "releasing" /\ lock = "free"
  /\ releasing' = TRUE
  /\ tx' = IF tx = "wait" THEN "enqueue" ELSE tx
  /\ cb' = IF cb = "wait" THEN "dequeue" ELSE cb
  /\ emu' = "freeing"
  /\ UNCHANGED <<streamVars, lock, notify, list, tx_ev, device, last_avail, ram, txAvail,
                 txUsed, txMsg, emAvail, emUsed, guest, overlap, wrong>>

\* ... then the list is freed without it, ...
ReleaseFree ==
  /\ Running /\ emu = "freeing"
  /\ list' = 0 /\ emu' = "closing"
  /\ UNCHANGED <<streamVars, lock, notify, releasing, tx_ev, device, last_avail, ram, txVars,
                 emAvail, emUsed, cb, guest, overlap, wrong>>

\* ... the stream closed, which waits for a callback that still runs, ...
ReleaseClose ==
  /\ Running /\ emu = "closing" /\ emu' = "close"
  /\ Calls(pa \in {"open", "running"})
  /\ pa' = IF pa = "running" THEN "stopping" ELSE pa
  /\ UNCHANGED <<code, openFailed, lock, guarded, tx_ev, device, last_avail, ram, txVars,
                 emAvail, emUsed, cb, guest, overlap>>

CloseReturn ==
  /\ Running /\ emu = "close" /\ cb = "idle"
  /\ pa' = "closed" /\ emu' = "flush"
  /\ UNCHANGED <<code, openFailed, lock, guarded, tx_ev, device, last_avail, ram, txVars,
                 emAvail, emUsed, cb, guest, overlap, wrong>>

-----------------------------------------------------------------------------
(* virtio_queue_notify_handler on the TX queue, by two threads.            *)

TooMany == availIdx > last_avail + qnum

\* ... and the queue flushed: what is pending is completed unplayed.
FlushBegin ==
  /\ Running /\ emu = "flush"
  /\ overlap' = (overlap \/ TxBusy)
  /\ failed' = IF failed = "no" /\ TooMany THEN "queue" ELSE failed
  /\ IF failed # "no" \/ TooMany \/ last_avail = availIdx
     THEN emu' = "guest" /\ UNCHANGED <<emAvail, emUsed>>
     ELSE emu' = "message" /\ emAvail' = availIdx /\ emUsed' = usedIdx
  /\ UNCHANGED <<streamVars, lock, guarded, tx_ev, qnum, irq, last_avail, ram, txVars, cb,
                 guest, wrong>>

FlushMessage ==
  /\ Running /\ emu = "message"
  /\ usedRing' = [usedRing EXCEPT ![emUsed % QNum] = availRing[last_avail % QNum]]
  /\ emUsed' = Inc(emUsed)
  /\ last_avail' = Inc(last_avail)
  /\ emu' = IF Inc(last_avail) = emAvail THEN "publish" ELSE "message"
  /\ UNCHANGED <<streamVars, lock, guarded, tx_ev, device, availIdx, availRing, usedIdx,
                 txVars, emAvail, cb, guest, overlap, wrong>>

FlushPublish ==
  /\ Running /\ emu = "publish" /\ emu' = "guest"
  /\ usedIdx' = emUsed /\ irq' = TRUE
  /\ emAvail' = 0 /\ emUsed' = 0
  /\ UNCHANGED <<streamVars, lock, guarded, tx_ev, qnum, failed, last_avail, availIdx,
                 availRing, usedRing, txVars, cb, guest, overlap, wrong>>

\* func: the TX thread is told, and looks at the queue.
TxWake ==
  /\ tx = "idle" /\ tx_ev > 0
  /\ tx_ev' = tx_ev - 1
  /\ failed' = IF failed = "no" /\ (qnum = 0 \/ TooMany) THEN "queue" ELSE failed
  /\ IF failed # "no" \/ qnum = 0 \/ TooMany \/ last_avail = availIdx
     THEN UNCHANGED <<tx, txAvail, txUsed>>
     ELSE tx' = "take" /\ txAvail' = availIdx /\ txUsed' = usedIdx
  /\ overlap' = (overlap \/ emu \in {"prepare", "message", "publish"})
  /\ UNCHANGED <<streamVars, lock, guarded, qnum, irq, last_avail, ram, txMsg, emVars, cb,
                 guest, wrong>>

(***************************************************************************)
(* The next message.  exists: it names a stream there is; otherwise it is  *)
(* only completed, with an error.                                          *)
(***************************************************************************)
TxTake(exists) ==
  /\ tx = "take"
  /\ IF qnum = 0 THEN tx' = "crashed" /\ UNCHANGED <<txMsg, foreign>>
     ELSE /\ txMsg' = availRing[last_avail % qnum]
          /\ foreign' = IF exists THEN foreign ELSE foreign \cup {txMsg'}
          /\ tx' = IF exists THEN "enqueue" ELSE "complete"
  /\ UNCHANGED <<streamVars, lock, guarded, tx_ev, device, last_avail, ram, txAvail, txUsed,
                 emVars, cb, seen, outstanding, overlap, wrong>>

\* As if the TX thread did not wait for the callback.
TxEnqueue_NoWait ==
  /\ Running /\ tx = "enqueue" /\ lock = "free"
  /\ IF releasing THEN tx' = "notify" /\ UNCHANGED lock
     ELSE tx' = "push" /\ lock' = "tx"
  /\ UNCHANGED <<streamVars, guarded, tx_ev, device, last_avail, ram, txAvail, txUsed, txMsg,
                 emVars, cb, guest, overlap, wrong>>

\* __virtio_snd_frame_enqueue up to the wait, and after a wakeup
TxEnqueue ==
  /\ Running /\ tx = "enqueue" /\ lock = "free"
  /\ IF releasing THEN tx' = "notify" /\ UNCHANGED lock
     ELSE IF notify > 0 THEN tx' = "wait" /\ UNCHANGED lock
     ELSE tx' = "push" /\ lock' = "tx"
  /\ UNCHANGED <<streamVars, guarded, tx_ev, device, last_avail, ram, txAvail, txUsed, txMsg,
                 emVars, cb, guest, overlap, wrong>>

\* The frames go to the end of the list, if there is memory.
TxPush(mem) ==
  /\ Running /\ tx = "push"
  /\ list' = IF mem THEN list + Period ELSE list
  /\ lock' = "free" /\ tx' = "notify"
  /\ UNCHANGED <<streamVars, notify, releasing, tx_ev, device, last_avail, ram, txAvail,
                 txUsed, txMsg, emVars, cb, guest, overlap, wrong>>

\* buf_ev_notify, and the callback is woken.
TxNotify ==
  /\ Running /\ tx = "notify" /\ lock = "free" /\ notify < MaxNotify
  /\ notify' = notify + 1
  /\ cb' = IF cb = "wait" THEN "dequeue" ELSE cb
  /\ tx' = "complete"
  /\ UNCHANGED <<streamVars, lock, releasing, list, tx_ev, device, last_avail, ram, txAvail,
                 txUsed, txMsg, emVars, guest, overlap, wrong>>

\* As if last_avail were left for the end of the batch.
TxComplete_KeepAvail ==
  /\ Running /\ tx = "complete"
  /\ IF qnum = 0 THEN tx' = "crashed" /\ UNCHANGED <<usedRing, txUsed, last_avail>>
     ELSE /\ usedRing' = [usedRing EXCEPT ![txUsed % qnum] = txMsg]
          /\ txUsed' = Inc(txUsed)
          /\ tx' = "publish" /\ UNCHANGED last_avail
  /\ UNCHANGED <<streamVars, lock, guarded, tx_ev, device, availIdx, availRing, usedIdx,
                 txAvail, txMsg, emVars, cb, guest, overlap, wrong>>

\* The used element, and the loop condition.
TxComplete ==
  /\ Running /\ tx = "complete"
  /\ IF qnum = 0 THEN tx' = "crashed" /\ UNCHANGED <<usedRing, txUsed, last_avail>>
     ELSE /\ usedRing' = [usedRing EXCEPT ![txUsed % qnum] = txMsg]
          /\ txUsed' = Inc(txUsed)
          /\ last_avail' = Inc(last_avail)
          /\ tx' = IF Inc(last_avail) = txAvail THEN "publish" ELSE "take"
  /\ UNCHANGED <<streamVars, lock, guarded, tx_ev, device, availIdx, availRing, usedIdx,
                 txAvail, txMsg, emVars, cb, guest, overlap, wrong>>

TxPublish ==
  /\ Running /\ tx = "publish" /\ tx' = "idle"
  /\ usedIdx' = txUsed /\ irq' = TRUE
  /\ txAvail' = 0 /\ txUsed' = 0 /\ txMsg' = 0 /\ foreign' = {}
  /\ UNCHANGED <<streamVars, lock, guarded, tx_ev, qnum, failed, last_avail, availIdx,
                 availRing, usedRing, emVars, cb, seen, outstanding, overlap, wrong>>

-----------------------------------------------------------------------------
(* The callback.                                                           *)

\* PortAudio asks for frames (external).
CbCall ==
  /\ Running /\ cb = "idle" /\ pa = "running"
  /\ cb' = "dequeue"
  /\ UNCHANGED <<streamVars, lock, guarded, tx_ev, device, last_avail, ram, txVars, emVars,
                 guest, overlap, wrong>>

\* __virtio_snd_frame_dequeue up to the wait, and after a wakeup
CbDequeue ==
  /\ Running /\ cb = "dequeue" /\ lock = "free"
  /\ IF releasing THEN cb' = "idle" /\ UNCHANGED lock
     ELSE IF notify < 1 THEN cb' = "wait" /\ UNCHANGED lock
     ELSE cb' = "play" /\ lock' = "cb"
  /\ UNCHANGED <<streamVars, guarded, tx_ev, device, last_avail, ram, txVars, emVars, guest,
                 overlap, wrong>>

\* As if the TX thread were not woken.
CbPlay_Silent ==
  /\ Running /\ cb = "play"
  /\ list' = IF list < CbFrames THEN 0 ELSE list - CbFrames
  /\ notify' = notify - 1
  /\ lock' = "free" /\ cb' = "idle"
  /\ UNCHANGED <<streamVars, releasing, tx_ev, device, last_avail, ram, txVars, emVars, guest,
                 overlap, wrong>>

\* Frames off the front of the list, and the TX thread is woken.
CbPlay ==
  /\ Running /\ cb = "play"
  /\ list' = IF list < CbFrames THEN 0 ELSE list - CbFrames
  /\ notify' = notify - 1
  /\ tx' = IF tx = "wait" THEN "enqueue" ELSE tx
  /\ lock' = "free" /\ cb' = "idle"
  /\ UNCHANGED <<streamVars, releasing, tx_ev, device, last_avail, ram, txAvail, txUsed,
                 txMsg, emVars, guest, overlap, wrong>>

-----------------------------------------------------------------------------
EmuStep ==
  \/ \E ok \in BOOLEAN : PrepareOpen(ok)
  \/ StopReturn \/ ReleaseFlag \/ ReleaseFree \/ ReleaseClose \/ CloseReturn
  \/ FlushBegin \/ FlushMessage \/ FlushPublish
TxStep ==
  \/ TxWake \/ TxEnqueue \/ TxNotify \/ TxComplete \/ TxPublish
  \/ \E b \in BOOLEAN : TxTake(b) \/ TxPush(b)
CbStep == CbCall \/ CbDequeue \/ CbPlay
GuestStep ==
  \/ \E m \in Slot : GuestPost(m)
  \/ NotifyTx \/ GuestInterrupt \/ GuestSetup \/ Reset
  \/ SetParams \/ Unsupported \/ Prepare \/ Release
  \/ \E ok \in BOOLEAN : Start(ok) \/ Stop(ok)

Next == EmuStep \/ TxStep \/ CbStep \/ GuestStep

Spec == Init /\ [][Next]_vars

\* Every thread keeps running.  Each of its steps changes what it is subscripted with.
FairSpec == Spec /\ WF_<<emu, last_avail>>(EmuStep) /\ WF_<<tx, tx_ev>>(TxStep) /\ WF_cb(CbStep)

-----------------------------------------------------------------------------
\* The type invariant.
TypeOK ==
  /\ code \in {"set_params", "prepare", "start", "stop", "release"}
  /\ pa \in {"none", "open", "running", "stopping", "closed"} /\ openFailed \in BOOLEAN
  /\ lock \in {"free", "tx", "cb"} /\ notify \in 0 .. MaxNotify /\ releasing \in BOOLEAN
  /\ list \in Nat /\ tx_ev \in 0 .. MaxKick
  /\ qnum \in {0, QNum} /\ failed \in {"no", "unsupported", "queue"} /\ irq \in BOOLEAN
  /\ last_avail \in Index /\ availIdx \in Index /\ usedIdx \in Index
  /\ availRing \in [Slot -> Slot] /\ usedRing \in [Slot -> Slot]
  /\ tx \in {"idle", "take", "enqueue", "wait", "push", "notify", "complete", "publish", "crashed"}
  /\ txAvail \in Index /\ txUsed \in Index /\ txMsg \in Slot
  /\ emu \in {"guest", "prepare", "stop", "releasing", "freeing", "closing", "close", "flush",
              "message", "publish"}
  /\ emAvail \in Index /\ emUsed \in Index
  /\ cb \in {"idle", "dequeue", "wait", "play"}
  /\ seen \in Index /\ outstanding \subseteq Slot /\ foreign \subseteq Slot
  /\ overlap \in BOOLEAN /\ wrong \subseteq {"completion", "stream"}

(***************************************************************************)
(* While RELEASE frees the list without the lock, neither the TX thread    *)
(* nor the callback is in it, and neither gets in until PREPARE: the flag  *)
(* was set under the lock.                                                 *)
(***************************************************************************)
FreeExclusive ==
  emu \in {"freeing", "closing", "close"} => lock = "free" /\ tx # "push" /\ cb # "play"

(***************************************************************************)
(* Every PortAudio call is for a stream that is open, in any order of      *)
(* requests, unless opening it failed.                                     *)
(***************************************************************************)
StreamUsedOpen == "stream" \notin wrong

(***************************************************************************)
(* With periods no longer than what the callback takes, the list never     *)
(* holds more than one message: the TX thread runs ahead of the callback   *)
(* by one period, whatever allocations fail.                               *)
(***************************************************************************)
QueueBounded == Period <= CbFrames /\ ~overlap => list <= Period

\* The used elements the guest has not seen yet.
Unseen == {usedRing[(seen + k) % QNum] : k \in 0 .. ((usedIdx + IdxMod - seen) % IdxMod) - 1}

(***************************************************************************)
(* When a RELEASE has been answered, every message of the stream has been  *)
(* completed.                                                              *)
(***************************************************************************)
ReleaseCompletes ==
  code = "release" /\ emu = "guest" /\ failed = "no" /\ qnum # 0 =>
    outstanding \ foreign \subseteq Unseen

(***************************************************************************)
(* Unless a flush, a reset or a PREPARE overlapped the TX thread's work,   *)
(* a message is completed once and by the end of RELEASE, the device does  *)
(* not fail on its queue and the TX thread does not divide by a QueueNum   *)
(* of 0.                                                                   *)
(***************************************************************************)
CompletedOnce ==
  ~overlap => /\ "completion" \notin wrong /\ failed # "queue" /\ Running
              /\ ReleaseCompletes

\* Nothing that the callback could be waiting for is on its way.
Starved == emu = "stop" /\ cb = "wait" /\ notify = 0 /\ tx = "idle" /\ tx_ev = 0

(***************************************************************************)
(* Every control request returns to the guest, a RELEASE also while the    *)
(* callback or the TX thread waits; the exception is a STOP while the      *)
(* callback waits for frames and no message is left to feed it.            *)
(***************************************************************************)
ControlReturns ==
  [](emu # "guest" => <>(emu = "guest" \/ Starved \/ (overlap /\ emu = "message") \/ ~Running))

(***************************************************************************)
(* The TX thread does not wait for the callback for ever while the stream  *)
(* runs.                                                                   *)
(***************************************************************************)
TxServed == [](tx = "wait" => <>(tx # "wait" \/ pa # "running"))
=============================================================================
