---------------------------- MODULE SmpLoopProofs ----------------------------
(***************************************************************************)
(* The safety of the SMP scheduler for any number of harts, any batch and  *)
(* slice length and any tick period.                                       *)
(*                                                                         *)
(* The checked invariants are inductive together with the types.  A yield  *)
(* (YieldLeaves) takes the loop out of "run" and the caller has put its    *)
(* coroutine at a yield point; Service, which every slice begins with, may *)
(* raise interrupt bits of its own hart and of others, and clears in_wfi   *)
(* wherever it does (ServiceKeeps).                                        *)
(***************************************************************************)
EXTENDS SmpLoop, TLAPS

IInv == TypeOK /\ OneHartRuns /\ NoSleepOnPending

-----------------------------------------------------------------------------
LEMMA HartZero == 0 \in Hart /\ NHart \in Nat
BY ConstAssumption DEF Hart

LEMMA InitIInv == Init => IInv
<1> SUFFICES ASSUME Init PROVE IInv
  OBVIOUS
<1>1. /\ in_wfi \in [Hart -> BOOLEAN] /\ ssi \in [Hart -> BOOLEAN]
      /\ sti \in [Hart -> BOOLEAN] /\ sei \in [Hart -> BOOLEAN]
      /\ ssip \in [Hart -> BOOLEAN] /\ msip \in [Hart -> BOOLEAN]
      /\ due \in [Hart -> BOOLEAN]
      /\ stopped \in BOOLEAN /\ timer \in BOOLEAN /\ gate \in BOOLEAN
      /\ stdin \in BOOLEAN /\ closed \in BOOLEAN /\ signal \in BOOLEAN
  BY Zenon DEF Init
<1>2. /\ slice \in [Hart -> 0 .. Slices - 1] /\ left \in [Hart -> 0 .. SliceSteps]
      /\ ctr \in 0 .. TickPeriod /\ pipe \in 0 .. PipeCap
      /\ hsm \in [Hart -> {"started", "stopped", "suspended"}]
      /\ at \in [Hart -> {"top", "slice", "insn", "wfi", "uart", "dead"}]
      /\ waiting = NoHart /\ pc = "head" /\ cur \in Hart
  BY HartZero, ConstAssumption DEF Init
<1>3. TypeOK
  BY <1>1, <1>2 DEF TypeOK
<1>4. OneHartRuns
  BY DEF Init, OneHartRuns
<1>5. NoSleepOnPending
  BY Zenon DEF Init, NoSleepOnPending
<1> QED BY <1>3, <1>4, <1>5 DEF IInv

\* A yield keeps the types of the loop variables and leaves "run".
LEMMA YieldLeaves ==
  ASSUME cur \in Hart, Yield
  PROVE  pc' \in {"resume", "head"} /\ cur' \in Hart
BY HartZero DEF Yield

(***************************************************************************)
(* The tick and the interrupt updates keep the types, and clear in_wfi of  *)
(* every hart whose bit they raise.                                        *)
(***************************************************************************)
LEMMA ServiceKeeps ==
  ASSUME TypeOK, NoSleepOnPending, NEW h \in Hart, Service(h)
  PROVE  /\ ctr' \in 0 .. TickPeriod
         /\ gate' \in BOOLEAN /\ stopped' \in BOOLEAN
         /\ sti' \in [Hart -> BOOLEAN] /\ ssi' \in [Hart -> BOOLEAN]
         /\ sei' \in [Hart -> BOOLEAN] /\ in_wfi' \in [Hart -> BOOLEAN]
         /\ NoSleepOnPending'
<1>1. ctr' \in 0 .. TickPeriod
  <2>1. ctr \in 0 .. TickPeriod /\ TickPeriod \in Nat
    BY ConstAssumption DEF TypeOK
  <2>2. ctr' = IF ctr = 0 THEN TickPeriod ELSE ctr - 1
    BY DEF Service
  <2> QED BY <2>1, <2>2
<1>2. gate' \in BOOLEAN /\ stopped' \in BOOLEAN
  BY Zenon DEF Service, TypeOK
<1>3. sti' \in [Hart -> BOOLEAN] /\ ssi' \in [Hart -> BOOLEAN]
  BY Zenon DEF Service, TypeOK
<1>4. sei' \in [Hart -> BOOLEAN] /\ in_wfi' \in [Hart -> BOOLEAN]
  <2>1. CASE ctr = 0
    <3>1. PICK pending \in PlicPending :
            /\ sei' = [k \in Hart |-> k \in pending]
            /\ in_wfi' = [k \in Hart |->
                 /\ in_wfi[k] /\ k \notin pending
                 /\ k = h => ~due[h] /\ ~msip[h] /\ ~ssip[h]]
      BY <2>1, Zenon DEF Service
    <3>2. \A k \in Hart : (/\ in_wfi[k] /\ k \notin pending
                            /\ k = h => ~due[h] /\ ~msip[h] /\ ~ssip[h]) \in BOOLEAN
      BY Zenon
    <3>3. in_wfi' \in [Hart -> BOOLEAN]
      BY <3>1, <3>2, Zenon
    <3>4. sei' \in [Hart -> BOOLEAN]
      BY <3>1, SMT
    <3> QED BY <3>3, <3>4
  <2>2. CASE ctr # 0
    <3>1. sei' = sei /\ in_wfi' = [in_wfi EXCEPT ![h] = @ /\ ~due[h] /\ ~msip[h] /\ ~ssip[h]]
      BY <2>2, Zenon DEF Service
    <3>2. (in_wfi[h] /\ ~due[h] /\ ~msip[h] /\ ~ssip[h]) \in BOOLEAN
      BY Zenon
    <3>3. sei \in [Hart -> BOOLEAN] /\ in_wfi \in [Hart -> BOOLEAN]
      BY Zenon DEF TypeOK
    <3> QED BY <3>1, <3>2, <3>3, Zenon
  <2> QED BY <2>1, <2>2
<1>5. ASSUME NEW k \in Hart, in_wfi'[k] PROVE ~ssi'[k] /\ ~sti'[k] /\ ~sei'[k]
  <2>1. in_wfi[k] /\ (k = h => ~due[h] /\ ~ssip[h]) /\ ~sei'[k]
    <3>1. CASE ctr = 0
      <4>1. PICK pending \in PlicPending :
              /\ sei' = [j \in Hart |-> j \in pending]
              /\ in_wfi' = [j \in Hart |->
                   /\ in_wfi[j] /\ j \notin pending
                   /\ j = h => ~due[h] /\ ~msip[h] /\ ~ssip[h]]
        BY <3>1, Zenon DEF Service
      <4> QED BY <1>5, <4>1, Zenon
    <3>2. CASE ctr # 0
      <4>1. sei' = sei /\ in_wfi' = [in_wfi EXCEPT ![h] = @ /\ ~due[h] /\ ~msip[h] /\ ~ssip[h]]
        BY <3>2, Zenon DEF Service
      <4>2. in_wfi \in [Hart -> BOOLEAN]
        BY Zenon DEF TypeOK
      <4> QED BY <1>5, <4>1, <4>2, Zenon DEF NoSleepOnPending
    <3> QED BY <3>1, <3>2
  <2>2. /\ sti' = [sti EXCEPT ![h] = due[h]] /\ ssi' = [ssi EXCEPT ![h] = ssip[h]]
        /\ sti \in [Hart -> BOOLEAN] /\ ssi \in [Hart -> BOOLEAN]
    BY Zenon DEF Service, TypeOK
  <2> QED BY <2>1, <2>2, Zenon DEF NoSleepOnPending
<1> QED BY <1>1, <1>2, <1>3, <1>4, <1>5, Zenon DEF NoSleepOnPending

-----------------------------------------------------------------------------
\* The steps of the loop and of a hart that is not executing keep IInv.
LEMMA LoopStep ==
  ASSUME IInv, LoopHead \/ Poll \/ ResumeStopped \/ ResumeBatch \/ ResumeYielded \/ SliceEnd
  PROVE  IInv'
<1> USE DEF coroVars, irqVars, hostVars, loopVars
<1>1. CASE LoopHead
  <2>1. pc' \in {"exit", "poll"} /\ pc = "head"
    BY <1>1 DEF LoopHead
  <2>2. UNCHANGED <<cur, at, slice, left, hsm, in_wfi, ssi, sti, sei, ssip, msip, due,
                     waiting, ctr, stopped, timer, pipe, gate, stdin, closed, signal>>
    BY <1>1 DEF LoopHead
  <2>3. TypeOK'
    BY <2>1, <2>2 DEF IInv, TypeOK
  <2>4. OneHartRuns' /\ NoSleepOnPending'
    BY <2>1, <2>2 DEF IInv, OneHartRuns, NoSleepOnPending
  <2> QED BY <2>3, <2>4 DEF IInv
<1>2. CASE Poll
  <2>1. pc' = "resume" /\ cur' = 0 /\ pc = "poll" /\ pipe' \in 0 .. PipeCap
    BY <1>2, ConstAssumption DEF Poll, IInv, TypeOK
  <2>2. timer' \in BOOLEAN
    BY <1>2, Zenon DEF Poll
  <2>3. UNCHANGED <<at, slice, left, hsm, in_wfi, ssi, sti, sei, ssip, msip, due, waiting,
                     ctr, stopped, gate, stdin, closed, signal>>
    BY <1>2 DEF Poll
  <2>4. TypeOK'
    BY <2>1, <2>2, <2>3, HartZero DEF IInv, TypeOK
  <2>5. OneHartRuns' /\ NoSleepOnPending'
    BY <2>1, <2>3 DEF IInv, OneHartRuns, NoSleepOnPending
  <2> QED BY <2>4, <2>5 DEF IInv
<1>3. CASE ResumeStopped
  <2>1. /\ pc = "resume" /\ at' = [at EXCEPT ![cur] = "dead"] /\ Yield
        /\ UNCHANGED <<slice, left, hsm, in_wfi, ssi, sti, sei, ssip, msip, due, waiting,
                        ctr, stopped, timer, pipe, gate, stdin, closed, signal>>
    BY <1>3 DEF ResumeStopped, Resume
  <2>2. pc' \in {"resume", "head"} /\ cur' \in Hart
    BY <2>1, YieldLeaves DEF IInv, TypeOK
  <2>3. TypeOK'
    BY <2>1, <2>2 DEF IInv, TypeOK
  <2>4. OneHartRuns'
    BY <2>1, <2>2 DEF IInv, TypeOK, OneHartRuns
  <2>5. NoSleepOnPending'
    BY <2>1 DEF IInv, NoSleepOnPending
  <2> QED BY <2>3, <2>4, <2>5 DEF IInv
<1>4. CASE ResumeBatch
  <2>1. /\ pc = "resume" /\ pc' = "run" /\ at' = [at EXCEPT ![cur] = "slice"]
        /\ slice' = [slice EXCEPT ![cur] = 0]
        /\ UNCHANGED <<cur, left, hsm, in_wfi, ssi, sti, sei, ssip, msip, due, waiting,
                        ctr, stopped, timer, pipe, gate, stdin, closed, signal>>
    BY <1>4 DEF ResumeBatch, Resume
  <2>2. TypeOK'
    BY <2>1, ConstAssumption DEF IInv, TypeOK
  <2>3. OneHartRuns'
    BY <2>1 DEF IInv, TypeOK, OneHartRuns
  <2>4. NoSleepOnPending'
    BY <2>1 DEF IInv, NoSleepOnPending
  <2> QED BY <2>2, <2>3, <2>4 DEF IInv
<1>5. CASE ResumeYielded
  <2>1. /\ pc = "resume" /\ pc' = "run" /\ at' = [at EXCEPT ![cur] = "insn"]
        /\ waiting' \in {NoHart, waiting}
        /\ UNCHANGED <<cur, slice, left, hsm, in_wfi, ssi, sti, sei, ssip, msip, due,
                        ctr, stopped, timer, pipe, gate, closed, signal>>
    BY <1>5 DEF ResumeYielded, Resume
  <2>2. stdin' \in BOOLEAN
    BY <1>5, Zenon DEF ResumeYielded, IInv, TypeOK
  <2>3. TypeOK'
    BY <2>1, <2>2 DEF IInv, TypeOK
  <2>4. OneHartRuns'
    BY <2>1 DEF IInv, TypeOK, OneHartRuns
  <2>5. NoSleepOnPending'
    BY <2>1 DEF IInv, NoSleepOnPending
  <2> QED BY <2>3, <2>4, <2>5 DEF IInv
<1>6. CASE SliceEnd
  <2>1. /\ pc = "run"
        /\ UNCHANGED <<left, hsm, in_wfi, ssi, sti, sei, ssip, msip, due, waiting,
                        ctr, stopped, timer, pipe, gate, stdin, closed, signal>>
    BY <1>6 DEF SliceEnd
  <2>2. CASE slice[cur] + 1 < Slices
    <3>1. /\ at' = [at EXCEPT ![cur] = "slice"] /\ UNCHANGED <<pc, cur>>
          /\ slice' = [slice EXCEPT ![cur] = slice[cur] + 1]
      BY <1>6, <2>2 DEF SliceEnd
    <3>2. TypeOK'
      BY <2>1, <2>2, <3>1, ConstAssumption DEF IInv, TypeOK
    <3>3. OneHartRuns' /\ NoSleepOnPending'
      BY <2>1, <3>1 DEF IInv, TypeOK, OneHartRuns, NoSleepOnPending
    <3> QED BY <3>2, <3>3 DEF IInv
  <2>3. CASE ~(slice[cur] + 1 < Slices)
    <3>1. at' = [at EXCEPT ![cur] = "top"] /\ Yield /\ UNCHANGED slice
      BY <1>6, <2>3 DEF SliceEnd
    <3>2. pc' \in {"resume", "head"} /\ cur' \in Hart
      BY <3>1, YieldLeaves DEF IInv, TypeOK
    <3>3. TypeOK'
      BY <2>1, <3>1, <3>2 DEF IInv, TypeOK
    <3>4. OneHartRuns' /\ NoSleepOnPending'
      BY <2>1, <3>1, <3>2 DEF IInv, TypeOK, OneHartRuns, NoSleepOnPending
    <3> QED BY <3>3, <3>4 DEF IInv
  <2> QED BY <2>2, <2>3
<1> QED BY <1>1, <1>2, <1>3, <1>4, <1>5, <1>6

\* A service, of a parked hart or at the start of a slice, keeps IInv.
LEMMA ServiceStep ==
  ASSUME IInv, ResumeParked \/ SliceBegin
  PROVE  IInv'
<1>1. Service(cur) /\ cur \in Hart
  BY DEF ResumeParked, SliceBegin, IInv, TypeOK
<1>2. /\ ctr' \in 0 .. TickPeriod
      /\ gate' \in BOOLEAN /\ stopped' \in BOOLEAN
      /\ sti' \in [Hart -> BOOLEAN] /\ ssi' \in [Hart -> BOOLEAN]
      /\ sei' \in [Hart -> BOOLEAN] /\ in_wfi' \in [Hart -> BOOLEAN]
      /\ NoSleepOnPending'
  BY <1>1, ServiceKeeps DEF IInv
<1>3. CASE ResumeParked
  <2>1. /\ pc = "resume" /\ Yield
        /\ UNCHANGED <<at, slice, left, hsm, ssip, msip, due, waiting, timer, pipe, stdin,
                        closed, signal>>
    BY <1>3 DEF ResumeParked, Resume, coroVars
  <2>2. pc' \in {"resume", "head"} /\ cur' \in Hart
    BY <1>1, <2>1, YieldLeaves
  <2>3. TypeOK'
    BY <1>2, <2>1, <2>2 DEF IInv, TypeOK
  <2>4. OneHartRuns'
    BY <2>1, <2>2 DEF IInv, OneHartRuns
  <2> QED BY <1>2, <2>3, <2>4 DEF IInv
<1>4. CASE SliceBegin
  <2>1. /\ pc = "run" /\ at[cur] = "slice" /\ at' = [at EXCEPT ![cur] = "insn"]
        /\ left' = [left EXCEPT ![cur] = SliceSteps]
        /\ UNCHANGED <<pc, cur, slice, hsm, ssip, msip, due, waiting, timer, pipe, stdin,
                        closed, signal>>
    BY <1>4 DEF SliceBegin, loopVars
  <2>2. TypeOK'
    BY <1>2, <2>1, ConstAssumption DEF IInv, TypeOK
  <2>3. OneHartRuns'
    BY <2>1 DEF IInv, TypeOK, OneHartRuns
  <2> QED BY <1>2, <2>2, <2>3 DEF IInv
<1> QED BY <1>3, <1>4

-----------------------------------------------------------------------------
\* An instruction uses up one step, or all that are left.
LEMMA RetireKeeps ==
  ASSUME TypeOK, Executing,
         Retire \/ RetireEcall \/ left' = [left EXCEPT ![cur] = 0]
  PROVE  left' \in [Hart -> 0 .. SliceSteps]
<1>1. /\ left \in [Hart -> 0 .. SliceSteps] /\ cur \in Hart /\ left[cur] > 0
      /\ SliceSteps \in Nat
  BY ConstAssumption DEF TypeOK, Executing
<1>2. left' \in {[left EXCEPT ![cur] = left[cur] - 1], [left EXCEPT ![cur] = 0]}
  BY DEF Retire, RetireEcall
<1>3. left[cur] - 1 \in 0 .. SliceSteps /\ 0 \in 0 .. SliceSteps
  BY <1>1
<1> QED BY <1>1, <1>2, <1>3

\* The instructions that leave the coroutine and the pending bits alone.
LEMMA PlainInsn ==
  ASSUME IInv,
         \/ Nop \/ TrapSsi \/ HartStop \/ HartSuspend \/ SystemReset
         \/ \E targets \in SUBSET Hart : SendIpi(targets)
         \/ \E h \in Hart : HartStart(h)
         \/ \E h \in Hart, value \in BOOLEAN : WriteMsip(h, value)
  PROVE  IInv'
<1>1. UNCHANGED <<pc, cur, at, slice, in_wfi, ssi, sti, sei, due, waiting, ctr, timer, pipe,
                  gate, stdin, closed, signal>>
  BY DEF Nop, TrapSsi, HartStop, HartSuspend, SystemReset, SendIpi, HartStart, WriteMsip,
         SetHsm, loopVars, irqVars, hostVars
<1>2. left' \in [Hart -> 0 .. SliceSteps]
  BY RetireKeeps, ZenonT(30) DEF IInv, Nop, TrapSsi, HartStop, HartSuspend, SystemReset, SendIpi,
     HartStart, WriteMsip, SetHsm
<1>3. hsm' \in [Hart -> {"started", "stopped", "suspended"}]
  <2>1. \/ hsm' = hsm
        \/ \E h \in Hart, status \in {"started", "stopped", "suspended"} :
             hsm' = [hsm EXCEPT ![h] = status]
    BY DEF IInv, TypeOK, Nop, TrapSsi, HartStop, HartSuspend, SystemReset, SendIpi, HartStart,
           WriteMsip, SetHsm
  <2> QED BY <2>1 DEF IInv, TypeOK
<1>4. ssip' \in [Hart -> BOOLEAN]
  <2>1. ssip \in [Hart -> BOOLEAN] /\ cur \in Hart
    BY DEF IInv, TypeOK
  <2>2. CASE \E targets \in SUBSET Hart : SendIpi(targets)
    <3>1. PICK targets \in SUBSET Hart : ssip' = [h \in Hart |-> ssip[h] \/ h \in targets]
      BY <2>2 DEF SendIpi
    <3>2. \A h \in Hart : (ssip[h] \/ h \in targets) \in BOOLEAN
      BY Zenon
    <3> QED BY <3>1, <3>2, Zenon
  <2>3. CASE TrapSsi
    <3>1. ssip' = [ssip EXCEPT ![cur] = FALSE]
      BY <2>3 DEF TrapSsi
    <3> QED BY <2>1, <3>1, Zenon
  <2>4. CASE ssip' = ssip
    BY <2>1, <2>4, Zenon
  <2> QED BY <2>2, <2>3, <2>4 DEF Nop, HartStop, HartSuspend, SystemReset, HartStart,
             WriteMsip, SetHsm
<1>5. msip' \in [Hart -> BOOLEAN]
  <2>1. msip \in [Hart -> BOOLEAN]
    BY DEF IInv, TypeOK
  <2>2. CASE \E h \in Hart, value \in BOOLEAN : WriteMsip(h, value)
    <3>1. PICK h \in Hart, value \in BOOLEAN : msip' = [msip EXCEPT ![h] = value]
      BY <2>2, Zenon DEF WriteMsip
    <3> QED BY <2>1, <3>1, Zenon
  <2>3. CASE msip' = msip
    BY <2>1, <2>3, Zenon
  <2> QED BY <2>2, <2>3 DEF Nop, TrapSsi, HartStop, HartSuspend, SystemReset, SendIpi,
             HartStart, SetHsm
<1>6. stopped' \in BOOLEAN
  <2>1. stopped' = stopped \/ stopped' = TRUE
    BY ZenonT(30) DEF Nop, TrapSsi, HartStop, HartSuspend, SystemReset, SendIpi, HartStart, WriteMsip,
           SetHsm
  <2> QED BY <2>1, Zenon DEF IInv, TypeOK
<1>7. TypeOK'
  BY <1>1, <1>2, <1>3, <1>4, <1>5, <1>6 DEF IInv, TypeOK
<1>8. OneHartRuns' /\ NoSleepOnPending'
  BY <1>1, ZenonT(30) DEF IInv, OneHartRuns, NoSleepOnPending
<1> QED BY <1>7, <1>8 DEF IInv

\* The instructions that lower an interrupt bit of the hart they run on.
LEMMA LoweringInsn ==
  ASSUME IInv, ClearSsi \/ \E past \in BOOLEAN : SetTimer(past)
  PROVE  IInv'
<1>1. /\ cur \in Hart /\ in_wfi \in [Hart -> BOOLEAN] /\ ssi \in [Hart -> BOOLEAN]
      /\ sti \in [Hart -> BOOLEAN] /\ due \in [Hart -> BOOLEAN]
  BY DEF IInv, TypeOK
<1>2. UNCHANGED <<pc, cur, at, slice, hsm, in_wfi, sei, ssip, msip, waiting, ctr, stopped,
                  timer, pipe, gate, stdin, closed, signal>>
  BY DEF ClearSsi, SetTimer, loopVars, hostVars
<1>3. left' \in [Hart -> 0 .. SliceSteps]
  BY RetireKeeps DEF IInv, ClearSsi, SetTimer
<1>4. /\ ssi' = ssi \/ ssi' = [ssi EXCEPT ![cur] = FALSE]
      /\ sti' = sti \/ sti' = [sti EXCEPT ![cur] = FALSE]
      /\ due' = due \/ \E past \in BOOLEAN : due' = [due EXCEPT ![cur] = past]
  BY DEF ClearSsi, SetTimer
<1>5. /\ ssi' \in [Hart -> BOOLEAN] /\ sti' \in [Hart -> BOOLEAN]
      /\ due' \in [Hart -> BOOLEAN]
  BY <1>1, <1>4, Zenon
<1>6. \A h \in Hart : (ssi'[h] => ssi[h]) /\ (sti'[h] => sti[h])
  BY <1>1, <1>4
<1>7. TypeOK'
  BY <1>2, <1>3, <1>5 DEF IInv, TypeOK
<1>8. OneHartRuns'
  BY <1>2 DEF IInv, OneHartRuns
<1>9. NoSleepOnPending'
  BY <1>2, <1>6 DEF IInv, NoSleepOnPending
<1> QED BY <1>7, <1>8, <1>9 DEF IInv

\* An access of a device raises and lowers SEI of any hart, and wakes those it raises.
LEMMA DeviceInsn ==
  ASSUME IInv, DeviceAccess
  PROVE  IInv'
<1>1. UNCHANGED <<pc, cur, at, slice, hsm, ssi, sti, ssip, msip, due, waiting, ctr, stopped,
                  timer, pipe, gate, stdin, closed, signal>>
  BY DEF DeviceAccess, loopVars, hostVars
<1>2. left' \in [Hart -> 0 .. SliceSteps]
  BY RetireKeeps DEF IInv, DeviceAccess
<1>3. PICK pending \in PlicPending :
        /\ sei' = [h \in Hart |-> h \in pending]
        /\ in_wfi' = [h \in Hart |-> in_wfi[h] /\ h \notin pending]
  BY DEF DeviceAccess
<1>4. sei' \in [Hart -> BOOLEAN]
  BY <1>3, SMT
<1>5. \A h \in Hart : (in_wfi[h] /\ h \notin pending) \in BOOLEAN
  BY Zenon
<1>6. in_wfi' \in [Hart -> BOOLEAN]
  BY <1>3, <1>5, Zenon
<1>7. TypeOK'
  BY <1>1, <1>2, <1>4, <1>6 DEF IInv, TypeOK
<1>8. OneHartRuns'
  BY <1>1 DEF IInv, OneHartRuns
<1>9. \A h \in Hart : in_wfi'[h] => in_wfi[h] /\ ~sei'[h]
  BY <1>3, Zenon
<1>10. NoSleepOnPending'
  BY <1>1, <1>9 DEF IInv, NoSleepOnPending
<1> QED BY <1>7, <1>8, <1>10 DEF IInv

\* The instructions that may give up the processor.
LEMMA YieldingInsn ==
  ASSUME IInv, Wfi \/ UartRead \/ FatalError
  PROVE  IInv'
<1>1. /\ pc = "run" /\ at[cur] = "insn" /\ cur \in Hart
      /\ at \in [Hart -> {"top", "slice", "insn", "wfi", "uart", "dead"}]
      /\ in_wfi \in [Hart -> BOOLEAN] /\ TypeOK
  BY ZenonT(30) DEF IInv, TypeOK, Wfi, UartRead, FatalError, Executing
<1>2. left' \in [Hart -> 0 .. SliceSteps]
  BY <1>1, RetireKeeps, Zenon DEF Wfi, UartRead, FatalError
<1>3. UNCHANGED <<slice, hsm, ssi, sti, sei, ssip, msip, due, ctr, timer, pipe, gate, closed,
                  signal>>
  BY DEF Wfi, UartRead, FatalError, irqVars, hostVars
<1>4. \/ UNCHANGED <<pc, cur, at>>
      \/ Yield /\ \E place \in {"wfi", "uart", "dead"} : at' = [at EXCEPT ![cur] = place]
  BY ZenonT(30) DEF Wfi, UartRead, FatalError, loopVars
<1>5. /\ OneHartRuns' /\ cur' \in Hart
      /\ pc' \in {"head", "poll", "resume", "run", "exit"}
      /\ at' \in [Hart -> {"top", "slice", "insn", "wfi", "uart", "dead"}]
  <2>1. CASE UNCHANGED <<pc, cur, at>>
    <3>1. OneHartRuns'
      BY <2>1 DEF IInv, OneHartRuns
    <3> QED BY <1>1, <2>1, <3>1
  <2>2. CASE Yield /\ \E place \in {"wfi", "uart", "dead"} : at' = [at EXCEPT ![cur] = place]
    <3>1. pc' \in {"resume", "head"} /\ cur' \in Hart
      BY <1>1, <2>2, YieldLeaves
    <3>2. at' \in [Hart -> {"top", "slice", "insn", "wfi", "uart", "dead"}]
      BY <1>1, <2>2
    <3>3. OneHartRuns'
      BY <1>1, <2>2, <3>1 DEF IInv, OneHartRuns
    <3> QED BY <3>1, <3>2, <3>3
  <2> QED BY <1>4, <2>1, <2>2
<1>6. \/ in_wfi' = in_wfi
      \/ in_wfi' = [in_wfi EXCEPT ![cur] = FALSE]
      \/ /\ in_wfi' = [in_wfi EXCEPT ![cur] = TRUE]
         /\ ~ssi[cur] /\ ~sti[cur] /\ ~sei[cur]
  BY DEF Wfi, UartRead, FatalError, irqVars
<1>7. in_wfi' \in [Hart -> BOOLEAN]
  BY <1>1, <1>6, Zenon
<1>8. NoSleepOnPending'
  BY <1>1, <1>3, <1>6, ZenonT(30) DEF IInv, NoSleepOnPending
<1>9. stopped' \in BOOLEAN /\ stdin' \in BOOLEAN
  <2>1. (stopped' = stopped \/ stopped' = TRUE) /\ (stdin' = stdin \/ stdin' = FALSE)
    BY DEF Wfi, UartRead, FatalError, hostVars
  <2> QED BY <1>1, <2>1, Zenon DEF TypeOK
<1>10. waiting' \in Hart \cup {NoHart}
  BY <1>1 DEF TypeOK, Wfi, UartRead, FatalError
<1>11. TypeOK'
  BY <1>1, <1>2, <1>3, <1>5, <1>7, <1>9, <1>10 DEF TypeOK
<1> QED BY <1>5, <1>8, <1>11 DEF IInv

\* The host touches no hart.
LEMMA HostStep ==
  ASSUME IInv, Host \/ UNCHANGED vars
  PROVE  IInv'
<1>1. UNCHANGED <<pc, cur, at, slice, left, hsm, in_wfi, ssi, sti, sei, ssip, msip,
                  waiting, ctr, stopped>>
  BY DEF Host, TimerFire, CloseWindow, Signal, HostInput, StdinData, TimePasses, emuVars, vars
<1>2. pipe' \in 0 .. PipeCap
  <2>1. pipe' = pipe \/ WakeByte
    BY DEF Host, TimerFire, CloseWindow, Signal, HostInput, StdinData, TimePasses, vars
  <2> QED BY <2>1, ConstAssumption DEF WakeByte, IInv, TypeOK
<1>3. due' \in [Hart -> BOOLEAN]
  <2>1. due' = due \/ \E h \in Hart : due' = [due EXCEPT ![h] = TRUE]
    BY DEF Host, TimerFire, CloseWindow, Signal, HostInput, StdinData, TimePasses, vars
  <2> QED BY <2>1, Zenon DEF IInv, TypeOK
<1>4. /\ timer' \in BOOLEAN /\ gate' \in BOOLEAN /\ stdin' \in BOOLEAN
      /\ closed' \in BOOLEAN /\ signal' \in BOOLEAN
  <2>1. /\ timer' = timer \/ timer' = TRUE
        /\ gate' = gate \/ gate' = TRUE
        /\ stdin' = stdin \/ stdin' = TRUE
        /\ closed' = closed \/ closed' = TRUE
        /\ signal' = signal \/ signal' = TRUE
    BY DEF Host, TimerFire, CloseWindow, Signal, HostInput, StdinData, TimePasses, vars
  <2> QED BY <2>1, Zenon DEF IInv, TypeOK
<1>5. TypeOK'
  BY <1>1, <1>2, <1>3, <1>4, ZenonT(30) DEF IInv, TypeOK
<1>6. OneHartRuns' /\ NoSleepOnPending'
  BY <1>1, ZenonT(30) DEF IInv, OneHartRuns, NoSleepOnPending
<1> QED BY <1>5, <1>6 DEF IInv

-----------------------------------------------------------------------------
(***************************************************************************)
(* The inductive invariant of the scheduler (semu_run, hart_exec_loop,     *)
(* wfi_handler and the interrupt updates).                                 *)
(***************************************************************************)
THEOREM Invariant == Spec => []IInv
<1>1. IInv /\ [Next]_vars => IInv'
  BY LoopStep, ServiceStep, PlainInsn, LoweringInsn, DeviceInsn, YieldingInsn, HostStep
  DEF Next, EmuStep, Insn, Done
<1> QED BY InitIInv, <1>1, PTL DEF Spec

(***************************************************************************)
(* The variables of the loop, the coroutines and the interrupt registers   *)
(* keep their types, whatever the guest and the host do.                   *)
(***************************************************************************)
THEOREM TypeCorrect == Spec => []TypeOK
BY Invariant, PTL DEF IInv

(***************************************************************************)
(* The boot phase of semu_run never ends: peripheral_update_ctr, which the *)
(* loop compares with BOOT_SETTLE_ITERATIONS, counts down from 64 and      *)
(* never comes near it.                                                    *)
(***************************************************************************)
THEOREM BootNeverEnds == Spec => []~BootComplete
<1>1. IInv => ~BootComplete
  BY ConstAssumption DEF IInv, TypeOK, BootComplete
<1> QED BY Invariant, <1>1, PTL

(***************************************************************************)
(* Only the hart the scheduler has resumed executes, for any number of     *)
(* harts: a coroutine that gave up the processor in WFI, in the UART or by *)
(* a fatal error is at a yield point.                                      *)
(***************************************************************************)
THEOREM OneHartAtATime == Spec => []OneHartRuns
BY Invariant, PTL DEF IInv

(***************************************************************************)
(* No hart is marked in_wfi while an interrupt of its own is pending, with *)
(* any number of harts raising each other's.                               *)
(***************************************************************************)
THEOREM NoSleepWithPending == Spec => []NoSleepOnPending
BY Invariant, PTL DEF IInv
=============================================================================
