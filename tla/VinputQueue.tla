----------------------------- MODULE VinputQueue -----------------------------
(***************************************************************************)
(* Host input events on their way from the window thread (SDL, the main    *)
(* thread) to the emulator thread: one single-producer single-consumer     *)
(* ring per device, the vinput_cmd_wake_pending gate that coalesces        *)
(* wake-ups, and the pipe whose bytes unblock poll().                      *)
(*                                                                         *)
(* Each action is one atomic access of virtio-input-event.c, so that every *)
(* interleaving of the two threads is a behaviour.  The memory order is    *)
(* sequentially consistent: the gate accesses are SEQ_CST, and the ring    *)
(* indices are release/acquire pairs.                                      *)
(***************************************************************************)
EXTENDS Naturals, Sequences

CONSTANTS
  NDev,      \* VINPUT_DEV_CNT; device 0 is the keyboard, 1 the mouse
  QSize,     \* VINPUT_CMD_QUEUE_SIZE
  Cmd,       \* the host events
  NoCmd,     \* "no event yet"
  PipeCap    \* bytes the wake pipe holds

ASSUME ConstAssumption ==
  /\ NDev \in Nat \ {0}
  /\ QSize \in Nat \ {0, 1}
  /\ PipeCap \in Nat \ {0}
  /\ NoCmd \notin Cmd

Dev == 0 .. NDev - 1
Slot == 0 .. QSize - 1

VARIABLES
  head, tail, entries,  \* vinput_cmd_queues[d]
  wake_pending,         \* vinput_cmd_wake_pending
  pipe,                 \* bytes in the wake pipe
  wpc, wdev, wcmd,      \* window thread inside vinput_push_cmd(wdev, wcmd)
  epc, eop, edev, ecmd, \* emulator thread inside a drain or a reset
  popped,               \* popped[d]: what vinput_pop_cmd(d) last returned
  accepted,             \* what vinput_push_cmd last returned
  owed                  \* history: a wake byte was read since the last rearm

queueVars == <<head, tail, entries>>
winVars == <<wpc, wdev, wcmd>>
emuVars == <<epc, eop, edev, ecmd>>
vars == <<head, tail, entries, wake_pending, pipe, wpc, wdev, wcmd,
          epc, eop, edev, ecmd, popped, accepted, owed>>

(***************************************************************************)
(* (i + 1) & VINPUT_CMD_QUEUE_MASK, the queue size being a power of two.   *)
(***************************************************************************)
NextIdx(i) == IF i = QSize - 1 THEN 0 ELSE i + 1

Empty(d) == tail[d] = head[d]

\* Mutant: the queue counts as full one entry too early.
Full_Early(d) ==
  NextIdx(head[d]) = tail[d] \/ NextIdx(NextIdx(head[d])) = tail[d]

Full(d) == NextIdx(head[d]) = tail[d]

Init ==
  /\ head = [d \in Dev |-> 0]
  /\ tail = [d \in Dev |-> 0]
  /\ entries = [d \in Dev |-> [s \in Slot |-> NoCmd]]
  /\ wake_pending = FALSE
  /\ pipe = 0
  /\ wpc = "idle" /\ wdev = 0 /\ wcmd = NoCmd
  /\ epc = "idle" /\ eop = "drain" /\ edev = 0 /\ ecmd = NoCmd
  /\ popped = [d \in Dev |-> NoCmd]
  /\ accepted = TRUE
  /\ owed = FALSE

-----------------------------------------------------------------------------
(* The window thread: vinput_push_cmd.                                     *)

\* Mutant: the full check is dropped.
PushBegin_NoFullCheck(d, c) ==
  /\ wpc = "idle"
  /\ wpc' = "write" /\ wdev' = d /\ wcmd' = c
  /\ UNCHANGED <<queueVars, wake_pending, pipe, emuVars, popped, accepted, owed>>

PushBegin(d, c) ==
  /\ wpc = "idle"
  /\ ~Full(d)
  /\ wpc' = "write" /\ wdev' = d /\ wcmd' = c
  /\ UNCHANGED <<queueVars, wake_pending, pipe, emuVars, popped, accepted, owed>>

PushFull(d) ==
  /\ wpc = "idle"
  /\ Full(d)
  /\ accepted' = FALSE
  /\ UNCHANGED <<queueVars, wake_pending, pipe, winVars, emuVars, popped, owed>>

PushWrite ==
  /\ wpc = "write"
  /\ entries' = [entries EXCEPT ![wdev][head[wdev]] = wcmd]
  /\ wpc' = "publish"
  /\ UNCHANGED <<head, tail, wake_pending, pipe, wdev, wcmd, emuVars, popped,
                 accepted, owed>>

PushPublish ==
  /\ wpc = "publish"
  /\ head' = [head EXCEPT ![wdev] = NextIdx(@)]
  /\ accepted' = TRUE
  /\ wpc' = "gate"
  /\ UNCHANGED <<tail, entries, wake_pending, pipe, wdev, wcmd, emuVars, popped,
                 owed>>

PushGate ==
  /\ wpc = "gate"
  /\ wake_pending' = TRUE
  /\ wpc' = IF wake_pending THEN "idle" ELSE "wake"
  /\ UNCHANGED <<queueVars, pipe, wdev, wcmd, emuVars, popped, accepted, owed>>

(***************************************************************************)
(* window_wake_backend: the write end is non-blocking, a byte that does    *)
(* not fit is discarded.                                                   *)
(***************************************************************************)
WriteWakeByte == pipe' = IF pipe < PipeCap THEN pipe + 1 ELSE pipe

PushWake ==
  /\ wpc = "wake"
  /\ WriteWakeByte
  /\ wpc' = "idle"
  /\ UNCHANGED <<queueVars, wake_pending, wdev, wcmd, emuVars, popped, accepted,
                 owed>>

-----------------------------------------------------------------------------
(* The emulator thread: poll() reads one byte, the peripheral tick drains  *)
(* every queue, and a guest that resets a device drains that device only.  *)

PollRead ==
  /\ epc = "idle"
  /\ pipe > 0
  /\ pipe' = pipe - 1
  /\ owed' = TRUE
  /\ UNCHANGED <<queueVars, wake_pending, winVars, emuVars, popped, accepted>>

TickDrain ==
  /\ epc = "idle"
  /\ wake_pending
  /\ epc' = "check" /\ eop' = "drain" /\ edev' = 0
  /\ UNCHANGED <<queueVars, wake_pending, pipe, winVars, ecmd, popped, accepted,
                 owed>>

ResetBegin(d) ==
  /\ epc = "idle"
  /\ epc' = "check" /\ eop' = "reset" /\ edev' = d
  /\ UNCHANGED <<queueVars, wake_pending, pipe, winVars, ecmd, popped, accepted,
                 owed>>

(***************************************************************************)
(* vinput_pop_cmd, and the loops around it: a drain empties the devices    *)
(* one after the other, a reset only its own.                              *)
(***************************************************************************)
PopCheck ==
  /\ epc = "check"
  /\ \/ /\ ~Empty(edev)
        /\ epc' = "copy" /\ edev' = edev
     \/ /\ Empty(edev)
        /\ \/ eop = "drain" /\ edev + 1 < NDev /\ epc' = "check" /\ edev' = edev + 1
           \/ ~(eop = "drain" /\ edev + 1 < NDev) /\ epc' = "rearm" /\ edev' = edev
  /\ UNCHANGED <<queueVars, wake_pending, pipe, winVars, eop, ecmd, popped,
                 accepted, owed>>

PopCopy ==
  /\ epc = "copy"
  /\ ecmd' = entries[edev][tail[edev]]
  /\ epc' = "advance"
  /\ UNCHANGED <<queueVars, wake_pending, pipe, winVars, eop, edev, popped,
                 accepted, owed>>

PopAdvance ==
  /\ epc = "advance"
  /\ tail' = [tail EXCEPT ![edev] = NextIdx(@)]
  /\ popped' = [popped EXCEPT ![edev] = ecmd]
  /\ epc' = "check"
  /\ UNCHANGED <<head, entries, wake_pending, pipe, winVars, eop, edev, ecmd,
                 accepted, owed>>

\* Mutant: the gate is cleared and the queues are not looked at again.
Rearm_NoRescan ==
  /\ epc = "rearm"
  /\ wake_pending' = FALSE
  /\ owed' = FALSE
  /\ epc' = "idle" /\ edev' = 0
  /\ UNCHANGED <<queueVars, pipe, winVars, eop, ecmd, popped, accepted>>

(***************************************************************************)
(* The gate store of vinput_rearm_cmd_wake and of vinput_reset_host_events.*)
(***************************************************************************)
Rearm ==
  /\ epc = "rearm"
  /\ wake_pending' = FALSE
  /\ owed' = FALSE
  /\ epc' = "scan" /\ edev' = 0
  /\ UNCHANGED <<queueVars, pipe, winVars, eop, ecmd, popped, accepted>>

\* Mutant: the answer of the second look is ignored.
Scan_Ignored ==
  /\ epc = "scan"
  /\ IF edev + 1 < NDev
     THEN epc' = "scan" /\ edev' = edev + 1
     ELSE epc' = "idle" /\ edev' = edev
  /\ UNCHANGED <<queueVars, wake_pending, pipe, winVars, eop, ecmd, popped,
                 accepted, owed>>

(***************************************************************************)
(* vinput_all_queues_empty, one queue per step, and what its caller does   *)
(* with the answer: a drain starts over, a reset sets the gate again.      *)
(***************************************************************************)
Scan ==
  /\ epc = "scan"
  /\ \/ /\ ~Empty(edev)
        /\ epc' = IF eop = "drain" THEN "check" ELSE "exchange"
        /\ edev' = 0
     \/ /\ Empty(edev)
        /\ IF edev + 1 < NDev
           THEN epc' = "scan" /\ edev' = edev + 1
           ELSE epc' = "idle" /\ edev' = edev
  /\ UNCHANGED <<queueVars, wake_pending, pipe, winVars, eop, ecmd, popped,
                 accepted, owed>>

\* Mutant: the reset sets the gate again without a byte behind it.
ResetGate_NoByte ==
  /\ epc = "exchange"
  /\ wake_pending' = TRUE
  /\ epc' = "idle"
  /\ UNCHANGED <<queueVars, pipe, winVars, eop, edev, ecmd, popped, accepted,
                 owed>>

ResetGate ==
  /\ epc = "exchange"
  /\ wake_pending' = TRUE
  /\ epc' = IF wake_pending THEN "idle" ELSE "wake"
  /\ UNCHANGED <<queueVars, pipe, winVars, eop, edev, ecmd, popped, accepted,
                 owed>>

ResetWake ==
  /\ epc = "wake"
  /\ WriteWakeByte
  /\ epc' = "idle"
  /\ UNCHANGED <<queueVars, wake_pending, winVars, eop, edev, ecmd, popped,
                 accepted, owed>>

-----------------------------------------------------------------------------
PushStep == PushWrite \/ PushPublish \/ PushGate \/ PushWake

DrainStep ==
  \/ PopCheck \/ PopCopy \/ PopAdvance
  \/ Rearm \/ Scan \/ ResetGate \/ ResetWake

Next ==
  \/ \E d \in Dev : (\E c \in Cmd : PushBegin(d, c)) \/ PushFull(d)
  \/ PushStep
  \/ PollRead \/ TickDrain
  \/ \E d \in Dev : ResetBegin(d)
  \/ DrainStep

Spec == Init /\ [][Next]_vars

(***************************************************************************)
(* Both threads keep running what they have begun.  The peripheral tick    *)
(* comes round every 65 scheduling slices whatever the guest does between  *)
(* two ticks, resets included, hence strong fairness (SmpLoop shows that   *)
(* the slices themselves keep coming).  Nothing obliges the host to press  *)
(* keys or the guest to reset a device.                                    *)
(***************************************************************************)
Fairness ==
  /\ WF_vars(PushStep)
  /\ WF_vars(DrainStep)
  /\ SF_vars(TickDrain)

FairSpec == Spec /\ Fairness
-----------------------------------------------------------------------------
TypeOK ==
  /\ head \in [Dev -> Slot]
  /\ tail \in [Dev -> Slot]
  /\ entries \in [Dev -> [Slot -> Cmd \cup {NoCmd}]]
  /\ wake_pending \in BOOLEAN
  /\ pipe \in 0 .. PipeCap
  /\ wpc \in {"idle", "write", "publish", "gate", "wake"}
  /\ wdev \in Dev
  /\ wcmd \in Cmd \cup {NoCmd}
  /\ epc \in {"idle", "check", "copy", "advance", "rearm", "scan", "exchange",
              "wake"}
  /\ eop \in {"drain", "reset"}
  /\ edev \in Dev
  /\ ecmd \in Cmd \cup {NoCmd}
  /\ popped \in [Dev -> Cmd \cup {NoCmd}]
  /\ accepted \in BOOLEAN
  /\ owed \in BOOLEAN

(***************************************************************************)
(* No published event is left behind a clear gate.  The peripheral tick    *)
(* looks at the queues only while wake_pending is set                      *)
(* (vinput_may_have_pending_cmds), so an event in a queue must be covered: *)
(* the gate is set, or the producer that published it is about to set it,  *)
(* or the emulator thread has still to look at that queue before it rests. *)
(* The comment of vinput_push_cmd argues for this from the total order of  *)
(* the exchange and the store.                                             *)
(***************************************************************************)
NoLostWake ==
  \A d \in Dev :
    ~Empty(d) =>
      \/ wake_pending
      \/ wpc = "gate" /\ wdev = d
      \/ epc \in {"check", "copy", "advance", "rearm", "exchange"}
      \/ epc = "scan" /\ edev <= d

(***************************************************************************)
(* The wake-gate invariant in the comment of vinput_reset_host_events:     *)
(* wake_pending is set only while a pipe byte is in flight (or about to be *)
(* written by the thread that set the gate), or the consumer took the byte *)
(* and has not rearmed since.  Without it a later push would skip its byte *)
(* and poll() would sleep on a non-empty queue.                            *)
(***************************************************************************)
GateBacked ==
  wake_pending => pipe > 0 \/ owed \/ wpc = "wake" \/ epc = "wake"

(***************************************************************************)
(* The two threads never touch one ring slot at the same time: the slot    *)
(* the producer fills is not the slot the consumer copies out.  The code   *)
(* has no lock; the unused slot and the index publication order keep them  *)
(* apart.                                                                  *)
(***************************************************************************)
NoSlotRace ==
  (wpc \in {"write", "publish"} /\ epc \in {"copy", "advance"} /\ wdev = edev)
    => head[wdev] # tail[edev]

(***************************************************************************)
(* The rings implement the abstract queue: in order, at most once, a loss  *)
(* only while the queue holds QSize - 1 events.                            *)
(***************************************************************************)
RingCount(h, t) == IF h >= t THEN h - t ELSE h + QSize - t

RingSlot(t, i) == IF t + i - 1 < QSize THEN t + i - 1 ELSE t + i - 1 - QSize

RingSeq(h, t, e) == [i \in 1 .. RingCount(h, t) |-> e[RingSlot(t, i)]]

Fifo == INSTANCE LossyFifo WITH
  q <- [d \in Dev |-> RingSeq(head[d], tail[d], entries[d])],
  Cap <- QSize - 1

(***************************************************************************)
(* Everything the two threads observe of vinput_push_cmd and               *)
(* vinput_pop_cmd is a behaviour of the abstract queue.                    *)
(***************************************************************************)
ImplementsFifo == Fifo!Spec

(***************************************************************************)
(* An event that was published is eventually popped, provided no drain or  *)
(* reset runs forever (a host that outpaced the emulator for good would    *)
(* keep virtio_input_drain_host_events in its loop).                       *)
(***************************************************************************)
EventsReachGuest ==
  []<>(epc = "idle") =>
    \A d \in Dev : \A s \in Slot :
      (tail[d] = s /\ head[d] # s) ~> (tail[d] # s)
=============================================================================
