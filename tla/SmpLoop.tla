------------------------------- MODULE SmpLoop -------------------------------
(***************************************************************************)
(* The emulator thread in SMP mode: the scheduler loop of semu_run, the    *)
(* hart coroutines it resumes (hart_exec_loop, wfi_handler, the UART wait),*)
(* the peripheral tick, the timer and software interrupt updates, and the  *)
(* SBI calls that touch another hart, against a host that closes the       *)
(* window, sends signals and input, and lets time pass.                    *)
(*                                                                         *)
(* A step is one poll, one resume, one slice start or one instruction of   *)
(* the running hart; host events fall between any two of them.  Guest      *)
(* instructions are what they do to this state, everything else is "nop".  *)
(* The guest keeps all three supervisor interrupts enabled in sie.         *)
(***************************************************************************)
EXTENDS Naturals, FiniteSets

CONSTANTS
  NHart,        \* vm->n_hart, more than one
  Slices,       \* slices in a batch: 64 / SEMU_SMP_SLICE_STEPS
  SliceSteps,   \* SEMU_SMP_SLICE_STEPS
  TickPeriod,   \* the reload value of peripheral_update_ctr, 64
  BootSettle,   \* BOOT_SETTLE_ITERATIONS, 5000
  PipeCap,      \* bytes the wake pipe holds
  NoHart,       \* uart.waiting_hart_id when nobody waits
  Insns,        \* the instructions the guest uses, beside nop
  HostEvents    \* what the host does, beside the 1 ms timer

ASSUME ConstAssumption ==
  /\ NHart \in Nat \ {0, 1}
  /\ Slices \in Nat \ {0} /\ SliceSteps \in Nat \ {0}
  /\ TickPeriod \in Nat /\ BootSettle \in Nat /\ TickPeriod < BootSettle
  /\ PipeCap \in Nat \ {0}
  /\ Insns \subseteq {"wfi", "ipi", "sip", "msip", "timer", "start", "stop",
                      "suspend", "uart", "device", "reset", "error"}
  /\ HostEvents \subseteq {"close", "signal", "input", "stdin", "time"}

Hart == 0 .. NHart - 1

VARIABLES
  pc, cur,        \* the loop: "head", "poll", "resume", "run" or "exit"; hart
  at, slice, left,\* each coroutine: where it is, its slice, steps left in it
  hsm, in_wfi,    \* hart->hsm_status, hart->in_wfi
  ssi, sti, sei,  \* the bits of hart->sip
  ssip, msip,     \* sswi.ssip[], mswi.msip[]
  due,            \* due[h]: mtime >= mtimer.mtimecmp[h]
  waiting,        \* uart.waiting_hart_id, or NoHart if !has_waiting_hart
  ctr,            \* peripheral_update_ctr
  stopped,        \* emu->stopped
  timer,          \* the 1 ms timer descriptor is readable
  pipe,           \* bytes in the wake pipe
  gate,           \* vinput_cmd_wake_pending
  stdin,          \* input is waiting on the UART's descriptor
  closed, signal  \* window_is_closed(), signal_received

loopVars == <<pc, cur>>
coroVars == <<at, slice, left>>
irqVars == <<in_wfi, ssi, sti, sei>>
hostVars == <<timer, pipe, gate, stdin, closed, signal>>
vars == <<pc, cur, at, slice, left, hsm, in_wfi, ssi, sti, sei, ssip, msip, due,
          waiting, ctr, stopped, timer, pipe, gate, stdin, closed, signal>>

(***************************************************************************)
(* Hart 0 runs, the others wait for HART_START; mtimecmp is 0.             *)
(***************************************************************************)
Init ==
  /\ pc = "head" /\ cur = 0
  /\ at = [h \in Hart |-> "top"]
  /\ slice = [h \in Hart |-> 0] /\ left = [h \in Hart |-> 0]
  /\ hsm = [h \in Hart |-> IF h = 0 THEN "started" ELSE "stopped"]
  /\ in_wfi = [h \in Hart |-> FALSE]
  /\ ssi = [h \in Hart |-> FALSE]
  /\ sti = [h \in Hart |-> FALSE]
  /\ sei = [h \in Hart |-> FALSE]
  /\ ssip = [h \in Hart |-> FALSE] /\ msip = [h \in Hart |-> FALSE]
  /\ due = [h \in Hart |-> TRUE]
  /\ waiting = NoHart /\ ctr = 0 /\ stopped = FALSE
  /\ timer = FALSE /\ pipe = 0 /\ gate = FALSE /\ stdin = FALSE
  /\ closed = FALSE /\ signal = FALSE

-----------------------------------------------------------------------------
(* The scheduler: what it polls and for how long.                          *)

Started == {h \in Hart : hsm[h] = "started"}

Idle == {h \in Started : in_wfi[h] \/ waiting = h}

\* Mutant: the boot phase does end, as the comments expect.
BootComplete_Reached == Started = Hart

BootComplete == Started = Hart /\ ctr > BootSettle

WatchTimer == ~BootComplete \/ Idle = {}

WatchUart == ~BootComplete \/ Idle = {} \/ waiting # NoHart

\* The wake pipe is always watched, so poll() never runs without descriptors.
PollTimeout ==
  IF Started = {} \/ Idle = Started THEN "forever"
  ELSE IF Idle # {} THEN "10ms"
  ELSE "none"

\* Mutant: a signal does not break the loop.
LoopHead_NoSignal ==
  /\ pc = "head"
  /\ pc' = IF stopped THEN "exit" ELSE "poll"
  /\ UNCHANGED <<cur, coroVars, hsm, irqVars, ssip, msip, due, waiting, ctr,
                 stopped, hostVars>>

(***************************************************************************)
(* The head of the loop: stop, break on a signal, or go to poll().         *)
(***************************************************************************)
LoopHead ==
  /\ pc = "head"
  /\ pc' = IF stopped \/ signal THEN "exit" ELSE "poll"
  /\ UNCHANGED <<cur, coroVars, hsm, irqVars, ssip, msip, due, waiting, ctr,
                 stopped, hostVars>>

(***************************************************************************)
(* poll() returns on an event or its timeout; the expirations of the timer *)
(* and one wake byte are consumed, then the round of resumes begins.       *)
(***************************************************************************)
Poll ==
  /\ pc = "poll"
  /\ \/ PollTimeout # "forever"
     \/ timer /\ WatchTimer
     \/ stdin /\ WatchUart
     \/ pipe > 0
  /\ timer' = (timer /\ ~WatchTimer)
  /\ pipe' = IF pipe > 0 THEN pipe - 1 ELSE pipe
  /\ pc' = "resume" /\ cur' = 0
  /\ UNCHANGED <<coroVars, hsm, irqVars, ssip, msip, due, waiting, ctr, stopped,
                 gate, stdin, closed, signal>>

(***************************************************************************)
(* coro_yield: the loop resumes the next hart, or starts over.             *)
(***************************************************************************)
Yield ==
  IF cur + 1 \in Hart THEN pc' = "resume" /\ cur' = cur + 1
  ELSE pc' = "head" /\ cur' = 0

-----------------------------------------------------------------------------
(* The coroutine of one hart: hart_exec_loop.                              *)

(***************************************************************************)
(* plic_update_interrupts (module Plic), whatever is pending by now: some  *)
(* harts have an enabled source and wake up, the others lose SEI.          *)
(***************************************************************************)
PlicPending == IF "device" \in Insns THEN SUBSET Hart ELSE {{}}

(***************************************************************************)
(* emu_tick_peripherals, emu_update_timer_interrupt and                    *)
(* emu_update_swi_interrupt, in this order.  Every TickPeriod + 1 calls    *)
(* the tick drains the host input (VinputQueue), looks at the devices and  *)
(* updates the PLIC, and looks at the window.  The SSWI update comes last  *)
(* and overrides what MSWI did to SSI.                                     *)
(***************************************************************************)
Service(h) ==
  /\ IF ctr = 0
     THEN /\ ctr' = TickPeriod
          /\ gate' = FALSE
          /\ stopped' = (stopped \/ closed)
          /\ \E pending \in PlicPending :
               /\ sei' = [k \in Hart |-> k \in pending]
               /\ in_wfi' = [k \in Hart |->
                    /\ in_wfi[k] /\ k \notin pending
                    /\ k = h => ~due[h] /\ ~msip[h] /\ ~ssip[h]]
     ELSE /\ ctr' = ctr - 1
          /\ in_wfi' = [in_wfi EXCEPT
               ![h] = @ /\ ~due[h] /\ ~msip[h] /\ ~ssip[h]]
          /\ UNCHANGED <<gate, stopped, sei>>
  /\ sti' = [sti EXCEPT ![h] = due[h]]
  /\ ssi' = [ssi EXCEPT ![h] = ssip[h]]

\* coro_resume_hart(cur), the coroutine being suspended at one of these places.
Resume(places) == pc = "resume" /\ at[cur] \in places

(***************************************************************************)
(* At the top of its loop a coroutine returns if the emulator has stopped, *)
(* services and yields if its hart is not started, or begins a batch; one  *)
(* that yielded in WFI or in the UART goes on with its slice, its in_wfi   *)
(* flag still set.                                                         *)
(***************************************************************************)
ResumeStopped ==
  /\ Resume({"top"})
  /\ stopped
  /\ at' = [at EXCEPT ![cur] = "dead"]
  /\ Yield
  /\ UNCHANGED <<slice, left, hsm, irqVars, ssip, msip, due, waiting, ctr,
                 stopped, hostVars>>

ResumeParked ==
  /\ Resume({"top"})
  /\ ~stopped /\ hsm[cur] # "started"
  /\ Service(cur)
  /\ Yield
  /\ UNCHANGED <<coroVars, hsm, ssip, msip, due, waiting, timer, pipe, stdin,
                 closed, signal>>

ResumeBatch ==
  /\ Resume({"top"})
  /\ ~stopped /\ hsm[cur] = "started"
  /\ at' = [at EXCEPT ![cur] = "slice"]
  /\ slice' = [slice EXCEPT ![cur] = 0]
  /\ pc' = "run"
  /\ UNCHANGED <<cur, left, hsm, irqVars, ssip, msip, due, waiting, ctr, stopped,
                 hostVars>>

ResumeYielded ==
  /\ Resume({"wfi", "uart"})
  /\ waiting' = IF at[cur] = "uart" THEN NoHart ELSE waiting
  /\ stdin' = IF at[cur] = "uart" THEN FALSE ELSE stdin
  /\ at' = [at EXCEPT ![cur] = "insn"]
  /\ pc' = "run"
  /\ UNCHANGED <<cur, slice, left, hsm, irqVars, ssip, msip, due, ctr, stopped,
                 timer, pipe, gate, closed, signal>>

SliceBegin ==
  /\ pc = "run" /\ at[cur] = "slice"
  /\ Service(cur)
  /\ left' = [left EXCEPT ![cur] = SliceSteps]
  /\ at' = [at EXCEPT ![cur] = "insn"]
  /\ UNCHANGED <<loopVars, slice, hsm, ssip, msip, due, waiting, timer, pipe,
                 stdin, closed, signal>>

(***************************************************************************)
(* vm_step_many has used up its steps, or the hart is no longer started:   *)
(* next slice, or end of the batch.                                        *)
(***************************************************************************)
SliceEnd ==
  /\ pc = "run" /\ at[cur] = "insn"
  /\ left[cur] = 0 \/ hsm[cur] # "started"
  /\ IF slice[cur] + 1 < Slices
     THEN /\ at' = [at EXCEPT ![cur] = "slice"]
          /\ slice' = [slice EXCEPT ![cur] = @ + 1]
          /\ UNCHANGED loopVars
     ELSE /\ at' = [at EXCEPT ![cur] = "top"]
          /\ Yield
          /\ UNCHANGED slice
  /\ UNCHANGED <<left, hsm, irqVars, ssip, msip, due, waiting, ctr, stopped,
                 hostVars>>

-----------------------------------------------------------------------------
(* Guest instructions: vm_step_many with semu_step_chunk around it.        *)

(***************************************************************************)
(* The running hart executes one instruction.  An SBI call made once the   *)
(* emulator has stopped ends the slice.                                    *)
(***************************************************************************)
Executing == pc = "run" /\ at[cur] = "insn" /\ left[cur] > 0 /\ cur \in Started

Retire == left' = [left EXCEPT ![cur] = @ - 1]

RetireEcall == left' = [left EXCEPT ![cur] = IF stopped THEN 0 ELSE @ - 1]

Nop ==
  /\ Executing /\ Retire
  /\ UNCHANGED <<loopVars, at, slice, hsm, irqVars, ssip, msip, due, waiting,
                 ctr, stopped, hostVars>>

(***************************************************************************)
(* vm_handle_pending_interrupt taking a software interrupt, the lowest of  *)
(* the three: it consumes ssip.  The traps for STI and SEI change nothing  *)
(* here.                                                                   *)
(***************************************************************************)
TrapSsi ==
  /\ Executing /\ Retire
  /\ ssi[cur] /\ ~sti[cur] /\ ~sei[cur]
  /\ ssip' = [ssip EXCEPT ![cur] = FALSE]
  /\ UNCHANGED <<loopVars, at, slice, hsm, irqVars, msip, due, waiting, ctr,
                 stopped, hostVars>>

\* Mutant: the pending bits are not looked at.
Wfi_NoCheck ==
  /\ "wfi" \in Insns
  /\ Executing /\ Retire
  /\ in_wfi' = [in_wfi EXCEPT ![cur] = TRUE]
  /\ at' = [at EXCEPT ![cur] = "wfi"]
  /\ Yield
  /\ UNCHANGED <<slice, hsm, ssi, sti, sei, ssip, msip, due, waiting, ctr,
                 stopped, hostVars>>

(***************************************************************************)
(* wfi_handler.                                                            *)
(***************************************************************************)
Wfi ==
  /\ "wfi" \in Insns
  /\ Executing /\ Retire
  /\ IF ssi[cur] \/ sti[cur] \/ sei[cur]
     THEN /\ in_wfi' = [in_wfi EXCEPT ![cur] = FALSE]
          /\ UNCHANGED <<loopVars, at>>
     ELSE /\ in_wfi' = [in_wfi EXCEPT ![cur] = TRUE]
          /\ at' = [at EXCEPT ![cur] = "wfi"]
          /\ Yield
  /\ UNCHANGED <<slice, hsm, ssi, sti, sei, ssip, msip, due, waiting, ctr,
                 stopped, hostVars>>

(***************************************************************************)
(* SBI_IPI__SEND_IPI, for the harts its mask and base select.              *)
(***************************************************************************)
SendIpi(targets) ==
  /\ "ipi" \in Insns
  /\ Executing /\ RetireEcall
  /\ ssip' = [h \in Hart |-> ssip[h] \/ h \in targets]
  /\ UNCHANGED <<loopVars, at, slice, hsm, irqVars, msip, due, waiting, ctr,
                 stopped, hostVars>>

\* A store to the MSWI register of hart h.
WriteMsip(h, value) ==
  /\ "msip" \in Insns
  /\ Executing /\ Retire
  /\ msip' = [msip EXCEPT ![h] = value]
  /\ UNCHANGED <<loopVars, at, slice, hsm, irqVars, ssip, due, waiting, ctr,
                 stopped, hostVars>>

\* A write of 0 to SSI in the sip CSR, the only bit of it a guest can write.
ClearSsi ==
  /\ "sip" \in Insns
  /\ Executing /\ Retire
  /\ ssi' = [ssi EXCEPT ![cur] = FALSE]
  /\ UNCHANGED <<loopVars, at, slice, hsm, in_wfi, sti, sei, ssip, msip, due,
                 waiting, ctr, stopped, hostVars>>

(***************************************************************************)
(* SBI_TIMER__SET_TIMER, to a time to come or one already past: STI falls  *)
(* until the next update.                                                  *)
(***************************************************************************)
SetTimer(past) ==
  /\ "timer" \in Insns
  /\ Executing /\ RetireEcall
  /\ due' = [due EXCEPT ![cur] = past]
  /\ sti' = [sti EXCEPT ![cur] = FALSE]
  /\ UNCHANGED <<loopVars, at, slice, hsm, in_wfi, ssi, sei, ssip, msip, waiting,
                 ctr, stopped, hostVars>>

(***************************************************************************)
(* SBI_HSM__HART_START of any hart, HART_STOP and HART_SUSPEND of oneself. *)
(***************************************************************************)
SetHsm(h, status) ==
  /\ Executing /\ RetireEcall
  /\ hsm' = [hsm EXCEPT ![h] = status]
  /\ UNCHANGED <<loopVars, at, slice, irqVars, ssip, msip, due, waiting, ctr,
                 stopped, hostVars>>

HartStart(h) == "start" \in Insns /\ SetHsm(h, "started")

HartStop == "stop" \in Insns /\ SetHsm(cur, "stopped")

HartSuspend == "suspend" \in Insns /\ SetHsm(cur, "suspended")

(***************************************************************************)
(* A load of the UART's receive register: u8250_handle_in.                 *)
(***************************************************************************)
UartRead ==
  /\ "uart" \in Insns
  /\ Executing /\ Retire
  /\ stdin' = FALSE
  /\ IF stdin THEN UNCHANGED <<waiting, at, loopVars>>
     ELSE /\ waiting' = cur
          /\ at' = [at EXCEPT ![cur] = "uart"]
          /\ Yield
  /\ UNCHANGED <<slice, hsm, irqVars, ssip, msip, due, ctr, stopped, timer, pipe,
                 gate, closed, signal>>

(***************************************************************************)
(* A load or store of a device register (virtio, UART, PLIC) in mem_load   *)
(* or mem_store, most of which end with an update of the PLIC.             *)
(***************************************************************************)
DeviceAccess ==
  /\ "device" \in Insns
  /\ Executing /\ Retire
  /\ \E pending \in PlicPending :
       /\ sei' = [h \in Hart |-> h \in pending]
       /\ in_wfi' = [h \in Hart |-> in_wfi[h] /\ h \notin pending]
  /\ UNCHANGED <<loopVars, at, slice, hsm, ssi, sti, ssip, msip, due, waiting, ctr,
                 stopped, hostVars>>

\* SBI_RST__SYSTEM_RESET.
SystemReset ==
  /\ "reset" \in Insns
  /\ Executing
  /\ left' = [left EXCEPT ![cur] = 0]
  /\ stopped' = TRUE
  /\ UNCHANGED <<loopVars, at, slice, hsm, irqVars, ssip, msip, due, waiting, ctr,
                 hostVars>>

\* Mutant: the failed coroutine is left as if it were running.
FatalError_StillRunning ==
  /\ "error" \in Insns
  /\ Executing /\ Retire
  /\ stopped' = TRUE
  /\ Yield
  /\ UNCHANGED <<at, slice, hsm, irqVars, ssip, msip, due, waiting, ctr, hostVars>>

(***************************************************************************)
(* An instruction the emulator cannot continue from: the coroutine ends.   *)
(***************************************************************************)
FatalError ==
  /\ "error" \in Insns
  /\ Executing /\ Retire
  /\ stopped' = TRUE
  /\ at' = [at EXCEPT ![cur] = "dead"]
  /\ Yield
  /\ UNCHANGED <<slice, hsm, irqVars, ssip, msip, due, waiting, ctr, hostVars>>

-----------------------------------------------------------------------------
(* The host.                                                               *)

emuVars == <<pc, cur, at, slice, left, hsm, in_wfi, ssi, sti, sei, ssip, msip,
             waiting, ctr, stopped>>

WakeByte == pipe' = IF pipe < PipeCap THEN pipe + 1 ELSE pipe

\* Every millisecond the timer descriptor becomes, or stays, readable.
TimerFire ==
  /\ timer' = TRUE
  /\ UNCHANGED <<emuVars, due, pipe, gate, stdin, closed, signal>>

\* window_shutdown_sw
CloseWindow ==
  /\ "close" \in HostEvents
  /\ closed' = TRUE
  /\ WakeByte
  /\ UNCHANGED <<emuVars, due, timer, gate, stdin, signal>>

\* signal_handler
Signal ==
  /\ "signal" \in HostEvents
  /\ signal' = TRUE
  /\ WakeByte
  /\ UNCHANGED <<emuVars, due, timer, gate, stdin, closed>>

\* vinput_push_cmd, in one step.
HostInput ==
  /\ "input" \in HostEvents
  /\ gate' = TRUE
  /\ IF gate THEN UNCHANGED pipe ELSE WakeByte
  /\ UNCHANGED <<emuVars, due, timer, stdin, closed, signal>>

StdinData ==
  /\ "stdin" \in HostEvents
  /\ stdin' = TRUE
  /\ UNCHANGED <<emuVars, due, timer, pipe, gate, closed, signal>>

\* mtime reaches mtimecmp[h].
TimePasses(h) ==
  /\ "time" \in HostEvents
  /\ ~due[h]
  /\ due' = [due EXCEPT ![h] = TRUE]
  /\ UNCHANGED <<emuVars, timer, pipe, gate, stdin, closed, signal>>

-----------------------------------------------------------------------------
Insn ==
  \/ Nop \/ TrapSsi \/ Wfi \/ ClearSsi \/ HartStop \/ HartSuspend
  \/ UartRead \/ DeviceAccess \/ SystemReset \/ FatalError
  \/ \E past \in BOOLEAN : SetTimer(past)
  \/ \E targets \in SUBSET Hart : SendIpi(targets)
  \/ \E h \in Hart : HartStart(h)
  \/ \E h \in Hart, value \in BOOLEAN : WriteMsip(h, value)

EmuStep ==
  \/ LoopHead \/ Poll
  \/ ResumeStopped \/ ResumeParked \/ ResumeBatch
  \/ ResumeYielded
  \/ SliceBegin \/ SliceEnd \/ Insn

Host ==
  \/ TimerFire \/ CloseWindow \/ Signal \/ HostInput \/ StdinData
  \/ \E h \in Hart : TimePasses(h)

Done == pc = "exit" /\ UNCHANGED vars

Next == EmuStep \/ Host \/ Done

Spec == Init /\ [][Next]_vars

(***************************************************************************)
(* The emulator thread runs, and the periodic timer descriptor fires.      *)
(* Nothing else is assumed of the guest or of the host.                    *)
(***************************************************************************)
FairSpec == Spec /\ WF_vars(EmuStep) /\ WF_vars(TimerFire)
-----------------------------------------------------------------------------
TypeOK ==
  /\ pc \in {"head", "poll", "resume", "run", "exit"} /\ cur \in Hart
  /\ at \in [Hart -> {"top", "slice", "insn", "wfi", "uart", "dead"}]
  /\ slice \in [Hart -> 0 .. Slices - 1]
  /\ left \in [Hart -> 0 .. SliceSteps]
  /\ hsm \in [Hart -> {"started", "stopped", "suspended"}]
  /\ in_wfi \in [Hart -> BOOLEAN]
  /\ ssi \in [Hart -> BOOLEAN]
  /\ sti \in [Hart -> BOOLEAN]
  /\ sei \in [Hart -> BOOLEAN]
  /\ ssip \in [Hart -> BOOLEAN] /\ msip \in [Hart -> BOOLEAN]
  /\ due \in [Hart -> BOOLEAN]
  /\ waiting \in Hart \cup {NoHart}
  /\ ctr \in 0 .. TickPeriod
  /\ stopped \in BOOLEAN /\ timer \in BOOLEAN
  /\ pipe \in 0 .. PipeCap
  /\ gate \in BOOLEAN /\ stdin \in BOOLEAN
  /\ closed \in BOOLEAN /\ signal \in BOOLEAN

(***************************************************************************)
(* Only the hart the scheduler resumed is executing: every other coroutine *)
(* is at one of its yields, whatever order WFI, UART waits, HSM calls and  *)
(* fatal errors come in.                                                   *)
(***************************************************************************)
OneHartRuns ==
  \A h \in Hart :
    at[h] \in {"slice", "insn"} <=> (pc = "run" /\ cur = h)

(***************************************************************************)
(* The scheduler never counts as idle a hart that has an interrupt to take *)
(* (main.c: "Clear WFI flag when interrupt is injected"): a hart marked    *)
(* in_wfi has no pending bit in sip, from the WFI that found none to the   *)
(* update that raises one.                                                 *)
(***************************************************************************)
NoSleepOnPending ==
  \A h \in Hart : in_wfi[h] => ~ssi[h] /\ ~sti[h] /\ ~sei[h]

\* An IPI reaches its target, a parked hart too.
IpiDelivered ==
  \A h \in Hart : ssip[h] ~> (ssi[h] \/ stopped \/ pc = "exit")

\* A timer that expires raises STI, unless the guest sets it again before.
TimerDelivered ==
  \A h \in Hart : due[h] ~> (sti[h] \/ ~due[h] \/ stopped \/ pc = "exit")

(***************************************************************************)
(* Every IPI reaches its target and every timer that expires raises STI.   *)
(* SEND_IPI only sets ssip, the target's sip follows when its own          *)
(* coroutine starts a slice, and in between the scheduler may have gone to *)
(* sleep with the target in WFI; nothing wakes it at mtimecmp either: only *)
(* the periodic timer descriptor bounds its sleep.                         *)
(***************************************************************************)
InterruptsDelivered == IpiDelivered /\ TimerDelivered

\* Closing the window and a signal end the loop, idle or not.
CloseStops == closed ~> pc = "exit"
SignalStops == signal ~> pc = "exit"

\* Host input is drained.
InputDrained == gate ~> (~gate \/ stopped \/ pc = "exit")

(***************************************************************************)
(* What the host asks for happens: closing the window and a signal end the *)
(* emulator, and input is drained.  The close flag and the input queues    *)
(* are looked at in the peripheral tick only, which takes many slices to   *)
(* come round, while the loop consumes the wake byte long before: it must  *)
(* not fall asleep in between.                                             *)
(***************************************************************************)
HostHeard == CloseStops /\ SignalStops /\ InputDrained
=============================================================================
