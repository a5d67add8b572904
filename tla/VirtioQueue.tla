----------------------------- MODULE VirtioQueue -----------------------------
(***************************************************************************)
(* One virtqueue of a virtio-mmio device: the available and used rings in  *)
(* guest RAM, the device's registers, its notify handler, and the PLIC     *)
(* line its InterruptStatus drives (emu_update_*_interrupts).  dev says    *)
(* which device: the handlers look alike and differ in their checks, in    *)
(* how they fail and in who starts them.                                   *)
(*                                                                         *)
(* The driver is the guest's (external): it follows the virtio protocol,   *)
(* on any hart, so its steps interleave with each other and with the       *)
(* emulator's peripheral tick.  A register access is one step.  A          *)
(* descriptor chain is its outcome: the device serves it ("ok"), refuses   *)
(* it ("bad"), or answers it and then gives up ("soft").                   *)
(***************************************************************************)
EXTENDS Naturals, Integers, Sequences, FiniteSets

CONSTANTS
  Devices,   \* the queues to consider
  QNum,      \* QueueNum
  IdxMod,    \* 2^16: the ring indices are 16 bits wide
  Buf,       \* heads of descriptor chains
  Packets    \* numbers of events in a virtio-input packet

ASSUME ConstAssumption ==
  /\ Devices \subseteq {"blk", "fs", "gpu", "rng", "statusq", "eventq", "tx", "rx"}
  /\ QNum \in Nat \ {0} /\ IdxMod \in Nat \ {0}
  /\ IdxMod % QNum = 0 /\ QNum < IdxMod
  /\ Buf \subseteq 0 .. QNum - 1
  /\ Packets \subseteq Nat \ {0}

Idx == 0 .. IdxMod - 1
Ring == 0 .. QNum - 1
Kind == {"ok", "bad", "soft"}

VARIABLES
  dev,                             \* which device this is
  driver_ok, needs_reset, isr,     \* Status and InterruptStatus
  ready, last_avail,               \* the queue's registers
  fd_ready,                        \* virtio-net: the host end is ready
  shared_dir,                      \* virtio-fs: a directory is shared
  line,                            \* the device's bit of plic.active
  avail_idx, avail, no_intr,       \* the available ring in RAM
  used_idx, used,                  \* the used ring in RAM
  drv, got, seen, owe, free, kind, \* the driver
  excuse                           \* history: see FailsOnlyIfRefused

regVars == <<driver_ok, needs_reset, isr, ready, last_avail, fd_ready, line>>
availVars == <<avail_idx, avail>>
usedVars == <<used_idx, used>>
drvVars == <<drv, got, seen, owe, free, kind, excuse>>
vars == <<dev, driver_ok, needs_reset, isr, ready, last_avail, fd_ready,
          shared_dir, line, avail_idx, avail, no_intr, used_idx, used,
          drv, got, seen, owe, free, kind, excuse>>

Init ==
  /\ dev \in Devices
  /\ driver_ok = FALSE /\ needs_reset = FALSE /\ isr = {}
  /\ ready = FALSE /\ last_avail = 0 /\ fd_ready = FALSE
  /\ shared_dir \in (IF dev = "fs" THEN BOOLEAN ELSE {TRUE})
  /\ line = FALSE
  /\ avail_idx = 0 /\ avail = [p \in Ring |-> 0] /\ no_intr = FALSE
  /\ used_idx = 0 /\ used = [p \in Ring |-> 0]
  /\ drv = "down" /\ got = {} /\ seen = 0 /\ owe = FALSE
  /\ free = Buf /\ kind = [b \in Buf |-> "ok"] /\ excuse = FALSE

-----------------------------------------------------------------------------
(* The device's side of the rings.                                         *)

\* The low 16 bits of an index, and the ring entry it names.
U16(i) == i % IdxMod
Entry(i) == U16(i) % QNum

\* Buffers the device has not looked at; the i-th of them, from 0.
Pending == U16(avail_idx - last_avail)
Chain(i) == avail[Entry(last_avail + i)]

\* Of the next n chains, how many are served before one is not "ok".
ServedOf(n) ==
  CHOOSE k \in 0 .. n :
    /\ \A i \in 0 .. k - 1 : kind[Chain(i)] = "ok"
    /\ k = n \/ kind[Chain(k)] # "ok"

(***************************************************************************)
(* n buffers leave the available ring, their elements are written to the   *)
(* used ring.  They are the driver's only once used.idx is published.      *)
(***************************************************************************)
Consume(n) ==
  /\ last_avail' = U16(last_avail + n)
  /\ used' = [p \in Ring |->
       IF \E i \in 0 .. n - 1 : Entry(used_idx + i) = p
       THEN Chain(CHOOSE i \in 0 .. n - 1 : Entry(used_idx + i) = p)
       ELSE used[p]]

\* Mutant: used.idx counts on without wrapping to 16 bits.
Publish_NoWrap(n) ==
  /\ Consume(n)
  /\ used_idx' = used_idx + n
  /\ isr' = IF no_intr THEN isr ELSE isr \cup {"used"}

\* Mutant: a batch that ends early publishes but does not interrupt.
Publish_QuietPart(n) ==
  /\ Consume(n)
  /\ used_idx' = U16(used_idx + n)
  /\ isr' = IF no_intr \/ n < Pending THEN isr ELSE isr \cup {"used"}

Publish(n) ==
  /\ Consume(n)
  /\ used_idx' = U16(used_idx + n)
  /\ isr' = IF no_intr THEN isr ELSE isr \cup {"used"}

\* virtio_*_set_fail
SetFail ==
  /\ needs_reset' = TRUE
  /\ isr' = IF driver_ok THEN isr \cup {"conf"} ELSE isr

Ignore == UNCHANGED <<needs_reset, isr, last_avail, usedVars>>

\* The handler gives up before it has looked at a buffer.
Refuse == SetFail /\ UNCHANGED <<last_avail, usedVars>>

(***************************************************************************)
(* The entry checks of the handlers: in blk, fs and net the number of new  *)
(* buffers is an int, in gpu and input 16 bits.                            *)
(***************************************************************************)
TooManyInt == avail_idx - last_avail > QNum
\* Mutant: the difference is taken in 32 unsigned bits.
TooMany16_Unsigned32 == avail_idx < last_avail \/ avail_idx - last_avail > QNum

TooMany16 == U16(avail_idx - last_avail) > QNum

Checked(tooMany, Handle) ==
  IF needs_reset THEN Ignore
  ELSE IF ~(driver_ok /\ ready) \/ tooMany THEN Refuse
  ELSE IF last_avail = avail_idx THEN Ignore
  ELSE Handle

-----------------------------------------------------------------------------
(* The handlers, one per device.                                           *)

(***************************************************************************)
(* virtio-blk: a request that fails ends the handler, and what it served   *)
(* before is not published.                                                *)
(***************************************************************************)
NotifyBlk ==
  Checked(TooManyInt,
    LET n == ServedOf(Pending) IN
    \/ n = Pending /\ Publish(n) /\ UNCHANGED needs_reset
    \/ n < Pending /\ Consume(n) /\ SetFail /\ UNCHANGED used_idx)

\* virtio-fs: every FUSE request is answered, if only with an error.
NotifyFs ==
  Checked(TooManyInt, Publish(Pending) /\ UNCHANGED needs_reset)

(***************************************************************************)
(* virtio-gpu: as blk, and a command that answers and then gives up is     *)
(* published before the handler ends.                                      *)
(***************************************************************************)
NotifyGpu ==
  Checked(TooMany16,
    LET n == ServedOf(Pending) IN
    \/ n = Pending /\ Publish(n) /\ UNCHANGED needs_reset
    \/ /\ n < Pending /\ kind[Chain(n)] = "bad"
       /\ Consume(n) /\ SetFail /\ UNCHANGED used_idx
    \/ /\ n < Pending /\ kind[Chain(n)] = "soft"
       /\ Consume(n + 1) /\ used_idx' = U16(used_idx + n + 1)
       /\ needs_reset' = TRUE
       /\ isr' = isr \cup (IF driver_ok THEN {"conf"} ELSE {})
                     \cup (IF no_intr THEN {} ELSE {"used"}))

\* virtio-rng: one buffer for one notification, nothing is checked.
NotifyRng == Publish(1) /\ UNCHANGED needs_reset

\* virtio-input's status queue: silent unless the driver and the queue are up.
NotifyStatusq ==
  IF ~driver_ok \/ ~ready THEN Ignore
  ELSE IF TooMany16 THEN Refuse
  ELSE IF Pending = 0 THEN Ignore
  ELSE Publish(Pending) /\ UNCHANGED needs_reset

(***************************************************************************)
(* handle_read and handle_write: fd_ready after a packet that did not go   *)
(* through.  The host end would block; vmnet's other read errors leave the *)
(* flag set.                                                               *)
(***************************************************************************)
FdAfterStop == IF dev = "rx" THEN {FALSE, TRUE} ELSE {FALSE}

(***************************************************************************)
(* virtio_net_try_rx and _tx: n packets go through, and then one does not  *)
(* or the buffers run out.  used.idx is published and the interrupt raised *)
(* even if n is 0.                                                         *)
(***************************************************************************)
TryNet(n, fd) ==
  /\ n <= Pending
  /\ IF fd THEN Checked(TooManyInt, Publish(n) /\ UNCHANGED needs_reset) ELSE Ignore
  /\ LET stopped == fd /\ ~needs_reset /\ driver_ok /\ ready /\ n < Pending IN
       fd_ready' \in IF stopped THEN FdAfterStop ELSE {fd}

Notify ==
  \/ /\ dev \in {"tx", "rx"}
     /\ \E n \in 0 .. Pending : TryNet(n, fd_ready)
  \/ /\ dev \notin {"tx", "rx"}
     /\ \/ dev = "blk" /\ NotifyBlk
        \/ dev = "fs" /\ NotifyFs
        \/ dev = "gpu" /\ NotifyGpu
        \/ dev = "rng" /\ NotifyRng
        \/ dev = "statusq" /\ NotifyStatusq
        \/ dev = "eventq" /\ Ignore
     /\ UNCHANGED fd_ready

-----------------------------------------------------------------------------
(* The peripheral tick.                                                    *)

\* A store to a device sets its line from InterruptStatus; the tick only raises it.
SetLine == line' = (isr' # {})
RaiseLine == line' = (line \/ isr' # {})

\* Mutant: the queue is marked ready and not tried again.
Refresh_FlagOnly(n) ==
  /\ dev \in {"tx", "rx"}
  /\ driver_ok /\ ~needs_reset
  /\ n <= Pending
  /\ fd_ready' = TRUE
  /\ line' = (line \/ isr # {})
  /\ UNCHANGED <<dev, driver_ok, needs_reset, isr, ready, last_avail, usedVars,
                 shared_dir, availVars, no_intr, drvVars>>

\* virtio_net_refresh_queue: the host end is ready, for n packets.
Refresh(n) ==
  /\ dev \in {"tx", "rx"}
  /\ driver_ok /\ ~needs_reset
  /\ TryNet(n, TRUE)
  /\ RaiseLine
  /\ UNCHANGED <<dev, driver_ok, ready, shared_dir, availVars, no_intr, drvVars>>

(***************************************************************************)
(* virtio_net_recv_from_peer, called by the single-hart loop when slirp    *)
(* has a packet: it asks neither for the driver nor for the queue, and     *)
(* leaves the line to the next tick.                                       *)
(***************************************************************************)
RecvFromPeer(n) ==
  /\ dev = "rx"
  /\ TryNet(n, TRUE)
  /\ excuse' = (excuse \/ ~driver_ok)
  /\ UNCHANGED <<dev, driver_ok, ready, shared_dir, line, availVars, no_intr,
                 drv, got, seen, owe, free, kind>>

\* Mutant: the tick passes on virtio-net's interrupt only after a refresh.
Tick_NoNet ==
  /\ dev \notin {"gpu", "tx", "rx"}
  /\ isr # {}
  /\ line' = TRUE
  /\ UNCHANGED <<dev, driver_ok, needs_reset, isr, ready, last_avail, fd_ready,
                 shared_dir, availVars, no_intr, usedVars, drvVars>>

\* What else the tick does for a device: virtio-gpu has no such poll.
Tick ==
  /\ dev # "gpu"
  /\ isr # {}
  /\ line' = TRUE
  /\ UNCHANGED <<dev, driver_ok, needs_reset, isr, ready, last_avail, fd_ready,
                 shared_dir, availVars, no_intr, usedVars, drvVars>>

\* Mutant: a packet is delivered as soon as there is any buffer.
HostEvent_AnyRoom(n) ==
  /\ dev = "eventq"
  /\ ~needs_reset /\ driver_ok /\ ready
  /\ IF TooMany16 THEN Refuse
     ELSE IF last_avail = avail_idx THEN Ignore
     ELSE Publish(n) /\ UNCHANGED needs_reset
  /\ RaiseLine
  /\ UNCHANGED <<dev, driver_ok, ready, fd_ready, shared_dir, availVars, no_intr,
                 drvVars>>

(***************************************************************************)
(* virtio_input_update_eventq and virtio_input_desc_handler: a packet of n *)
(* events, SYN_REPORT included, is delivered if there are n buffers, and   *)
(* dropped otherwise.  The indices are compared after unfolding a wrap.    *)
(***************************************************************************)
HostEvent(n) ==
  /\ dev = "eventq"
  /\ ~needs_reset /\ driver_ok /\ ready
  /\ IF TooMany16 THEN Refuse
     ELSE LET end == last_avail + n
              flattened ==
                IF avail_idx < last_avail THEN avail_idx + IdxMod ELSE avail_idx
          IN  IF last_avail = avail_idx \/ flattened < end THEN Ignore
              ELSE Publish(n) /\ UNCHANGED needs_reset
  /\ RaiseLine
  /\ UNCHANGED <<dev, driver_ok, ready, fd_ready, shared_dir, availVars, no_intr,
                 drvVars>>

-----------------------------------------------------------------------------
(* The driver's register writes.                                           *)

Kick ==
  /\ drv \notin {"down", "setup"} /\ owe
  /\ owe' = FALSE
  /\ Notify
  /\ SetLine
  /\ UNCHANGED <<dev, driver_ok, ready, shared_dir, availVars, no_intr,
                 drv, got, seen, free, kind, excuse>>

(***************************************************************************)
(* Writing 0 to Status: memset of the device, except that virtio-fs        *)
(* without a shared directory returns before it.  The driver takes all     *)
(* its buffers back.                                                       *)
(***************************************************************************)
WriteStatusZero ==
  /\ drv # "down"
  /\ drv' = "down" /\ free' = Buf /\ owe' = FALSE /\ got' = {} /\ excuse' = FALSE
  /\ kind' = [b \in Buf |-> "ok"]
  /\ \/ /\ shared_dir
        /\ driver_ok' = FALSE /\ needs_reset' = FALSE /\ isr' = {}
        /\ ready' = FALSE /\ last_avail' = 0 /\ fd_ready' = FALSE
     \/ /\ ~shared_dir
        /\ UNCHANGED <<driver_ok, needs_reset, isr, ready, last_avail, fd_ready>>
  /\ SetLine
  /\ UNCHANGED <<dev, shared_dir, availVars, no_intr, usedVars, seen>>

(***************************************************************************)
(* The driver sets up its rings, empty, and writes 1 to QueueReady:        *)
(* last_avail is taken from the available ring, and virtio-net suppresses  *)
(* the interrupts of its receive queue.                                    *)
(***************************************************************************)
WriteQueueReady ==
  /\ drv = "down"
  /\ drv' = "setup"
  /\ avail_idx' = 0 /\ avail' = [p \in Ring |-> 0] /\ no_intr' = (dev = "rx")
  /\ used_idx' = 0 /\ used' = [p \in Ring |-> 0] /\ seen' = 0
  /\ ready' = TRUE /\ last_avail' = avail_idx'
  /\ UNCHANGED <<dev, driver_ok, needs_reset, isr, fd_ready, shared_dir, line,
                 got, owe, free, kind, excuse>>

\* DRIVER_OK is set; the driver looks at the used ring once unasked.
WriteDriverOk ==
  /\ drv = "setup"
  /\ drv' = "reap"
  /\ driver_ok' = TRUE
  /\ UNCHANGED <<dev, needs_reset, isr, ready, last_avail, fd_ready, shared_dir,
                 line, availVars, no_intr, usedVars, got, seen, owe, free, kind,
                 excuse>>

\* The interrupt handler reads InterruptStatus and writes it to InterruptACK.
ReadIsr ==
  /\ drv = "idle" /\ line
  /\ drv' = "ack" /\ got' = isr
  /\ UNCHANGED <<dev, regVars, shared_dir, availVars, no_intr, usedVars, seen, owe,
                 free, kind, excuse>>

WriteAck ==
  /\ drv = "ack"
  /\ isr' = isr \ got /\ got' = {}
  /\ drv' = "reap"
  /\ SetLine
  /\ UNCHANGED <<dev, driver_ok, needs_reset, ready, last_avail, fd_ready,
                 shared_dir, availVars, no_intr, usedVars, seen, owe, free, kind,
                 excuse>>

-----------------------------------------------------------------------------
(* The driver's accesses to the rings.                                     *)

\* Chains a device of this kind can meet from a driver that obeys the rules.
Kinds ==
  IF dev = "gpu" THEN Kind ELSE IF dev = "blk" THEN {"ok", "bad"} ELSE {"ok"}

(***************************************************************************)
(* A buffer is made available.  The entropy driver has one buffer at a     *)
(* time and notifies for each.                                             *)
(***************************************************************************)
Add(b, k) ==
  /\ drv \notin {"down", "setup"}
  /\ b \in free
  /\ dev = "rng" => ~owe
  /\ avail' = [avail EXCEPT ![avail_idx % QNum] = b]
  /\ avail_idx' = U16(avail_idx + 1)
  /\ free' = free \ {b} /\ kind' = [kind EXCEPT ![b] = k]
  /\ owe' = TRUE
  /\ excuse' = (excuse \/ k # "ok")
  /\ UNCHANGED <<dev, regVars, shared_dir, no_intr, usedVars, drv, got, seen>>

\* The driver polls and does not want to be interrupted meanwhile.
DisableInterrupts ==
  /\ drv = "reap" /\ ~no_intr
  /\ no_intr' = TRUE
  /\ UNCHANGED <<dev, regVars, shared_dir, availVars, usedVars, drvVars>>

Collect ==
  /\ drv = "reap" /\ seen # used_idx
  /\ LET b == used[seen % QNum] IN
       free' = free \cup {b} /\ kind' = [kind EXCEPT ![b] = "ok"]
  /\ seen' = U16(seen + 1)
  /\ UNCHANGED <<dev, regVars, shared_dir, availVars, no_intr, usedVars, drv, got,
                 owe, excuse>>

\* Interrupts are enabled first and the used ring is looked at once more.
EnableInterrupts ==
  /\ drv = "reap" /\ seen = used_idx
  /\ drv' = "recheck" /\ no_intr' = FALSE
  /\ UNCHANGED <<dev, regVars, shared_dir, availVars, usedVars, got, seen, owe,
                 free, kind, excuse>>

Recheck ==
  /\ drv = "recheck"
  /\ drv' = IF seen # used_idx THEN "reap" ELSE "idle"
  /\ UNCHANGED <<dev, regVars, shared_dir, availVars, no_intr, usedVars, got, seen,
                 owe, free, kind, excuse>>

-----------------------------------------------------------------------------
DriverStep ==
  \/ WriteQueueReady \/ WriteDriverOk \/ ReadIsr \/ WriteAck
  \/ Collect \/ EnableInterrupts \/ Recheck

Next ==
  \/ DriverStep \/ Kick \/ WriteStatusZero \/ DisableInterrupts
  \/ \E b \in Buf, k \in Kinds : Add(b, k)
  \/ \E n \in 0 .. QNum : Refresh(n) \/ RecvFromPeer(n)
  \/ Tick
  \/ \E n \in Packets : HostEvent(n)

Spec == Init /\ [][Next]_vars

(***************************************************************************)
(* The driver goes on with what it has begun and notifies what it has      *)
(* added, the tick comes, and the host end of the network is ready again   *)
(* and again.                                                              *)
(***************************************************************************)
Fairness ==
  /\ WF_vars(DriverStep) /\ WF_vars(Kick) /\ WF_vars(Tick)
  /\ SF_vars(\E n \in 1 .. QNum : Refresh(n))

FairSpec == Spec /\ Fairness
-----------------------------------------------------------------------------
TypeOK ==
  /\ dev \in Devices
  /\ driver_ok \in BOOLEAN /\ needs_reset \in BOOLEAN /\ isr \subseteq {"used", "conf"}
  /\ ready \in BOOLEAN /\ last_avail \in Idx /\ fd_ready \in BOOLEAN
  /\ shared_dir \in BOOLEAN /\ line \in BOOLEAN
  /\ avail_idx \in Idx /\ avail \in [Ring -> Ring] /\ no_intr \in BOOLEAN
  /\ used_idx \in Idx /\ used \in [Ring -> Ring]
  /\ drv \in {"down", "setup", "idle", "ack", "reap", "recheck"}
  /\ got \subseteq {"used", "conf"} /\ seen \in Idx /\ owe \in BOOLEAN
  /\ free \subseteq Buf /\ kind \in [Buf -> Kind] /\ excuse \in BOOLEAN

(***************************************************************************)
(* The rings as sequences.  While the queue is down its rings mean nothing.*)
(***************************************************************************)
Given ==
  IF drv = "down" THEN <<>> ELSE [i \in 1 .. Pending |-> Chain(i - 1)]

Returned ==
  IF drv = "down" THEN <<>>
  ELSE [i \in 1 .. U16(used_idx - seen) |-> used[Entry(seen + i - 1)]]

Loop == INSTANCE BufferLoop WITH
  given <- Given, returned <- Returned, broken <- needs_reset

(***************************************************************************)
(* Every handler implements the abstract buffer loop: a buffer comes back  *)
(* exactly once and in order, through the wrap of the 16-bit indices,      *)
(* resets, partial batches and would-block returns, and a device that has  *)
(* given up touches nothing until it is reset.                             *)
(***************************************************************************)
ImplementsBufferLoop == Loop!Spec

(***************************************************************************)
(* A driver that sleeps is woken for what it has not collected: if the     *)
(* used ring has news, the device's line into the PLIC is up, whatever mix *)
(* of acknowledgements, polling and batches led there.  Only a packet from *)
(* slirp may still wait for the tick to raise it.                          *)
(***************************************************************************)
UsedRaisesLine ==
  (drv = "idle" /\ Returned # <<>>) => "used" \in isr /\ (line \/ dev = "rx")

(***************************************************************************)
(* A device gives up only with an excuse since its reset: a chain it       *)
(* refuses, or a packet pushed by slirp before DRIVER_OK.  The checks on   *)
(* the 16-bit indices never mistake a driver that keeps the rules for one  *)
(* that does not.                                                          *)
(***************************************************************************)
FailsOnlyIfRefused == needs_reset => excuse

(***************************************************************************)
(* Every request is answered: what the driver hands to a device that works *)
(* on request comes back, unless the device gives up.                      *)
(***************************************************************************)
RequestsAnswered ==
  dev \in {"blk", "fs", "gpu", "rng", "statusq", "tx"} =>
    \A b \in Buf : (b \notin free) ~> (b \in free \/ needs_reset)

(***************************************************************************)
(* What any device returns is collected: no buffer stays in the used ring  *)
(* because an interrupt was suppressed, acknowledged early or not passed   *)
(* on to the PLIC.                                                         *)
(***************************************************************************)
UsedCollected ==
  \A b \in Buf :
    (\E i \in DOMAIN Returned : Returned[i] = b) ~> (b \in free)
=============================================================================
