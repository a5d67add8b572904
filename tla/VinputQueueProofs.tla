-------------------------- MODULE VinputQueueProofs --------------------------
(***************************************************************************)
(* Machine-checked proofs about VinputQueue, for every number of devices,  *)
(* every queue size and every pipe capacity.                               *)
(***************************************************************************)
EXTENDS VinputQueue, SequenceTheorems, TLAPS

(***************************************************************************)
(* What the threads know between two accesses: the producer that passed    *)
(* its full check still has room, and the consumer that saw an entry still *)
(* has it.  NoSlotRace is a consequence.                                   *)
(***************************************************************************)
RingInv ==
  /\ wpc \in {"write", "publish"} => ~Full(wdev)
  /\ epc \in {"copy", "advance"} => ~Empty(edev)

IInv == TypeOK /\ RingInv /\ NoLostWake /\ GateBacked

(* The ring successor of a slot is a slot, and successors are injective.   *)
LEMMA NextIdxFacts ==
  ASSUME NEW i \in Slot, NEW j \in Slot
  PROVE  NextIdx(i) \in Slot /\ (NextIdx(i) = NextIdx(j) => i = j) /\ NextIdx(i) # i
BY ConstAssumption DEF NextIdx, Slot

LEMMA InitIInv == Init => IInv
<1> SUFFICES ASSUME Init PROVE IInv OBVIOUS
<1>1. TypeOK
  <2>1. 0 \in Dev /\ 0 \in Slot /\ 0 \in 0 .. PipeCap
    BY ConstAssumption DEF Dev, Slot
  <2>2. head \in [Dev -> Slot] /\ tail \in [Dev -> Slot]
    BY <2>1 DEF Init
  <2>3. entries \in [Dev -> [Slot -> Cmd \cup {NoCmd}]]
    BY DEF Init
  <2> QED BY <2>1, <2>2, <2>3, Zenon DEF Init, TypeOK
<1>2. RingInv /\ NoLostWake /\ GateBacked
  BY DEF Init, RingInv, NoLostWake, GateBacked, Empty
<1> QED BY <1>1, <1>2 DEF IInv

(* Every step keeps the type invariant.                                    *)
LEMMA TypeStep == TypeOK /\ [Next]_vars => TypeOK'
<1> SUFFICES ASSUME TypeOK, [Next]_vars PROVE TypeOK' OBVIOUS
<1> USE ConstAssumption, NextIdxFacts DEF TypeOK, Dev, queueVars, winVars, emuVars
<1>1. ASSUME NEW d \in Dev, NEW c \in Cmd, PushBegin(d, c) PROVE TypeOK'
  BY <1>1 DEF PushBegin
<1>2. ASSUME NEW d \in Dev, PushFull(d) PROVE TypeOK'
  BY <1>2, ZenonT(60) DEF PushFull
<1>3. CASE PushWrite
  BY <1>3 DEF PushWrite
<1>4. CASE PushPublish
  BY <1>4 DEF PushPublish
<1>5. CASE PushGate
  BY <1>5 DEF PushGate
<1>6. CASE PushWake
  BY <1>6 DEF PushWake, WriteWakeByte
<1>7. CASE PollRead
  BY <1>7 DEF PollRead
<1>8. CASE TickDrain
  BY <1>8 DEF TickDrain
<1>9. ASSUME NEW d \in Dev, ResetBegin(d) PROVE TypeOK'
  BY <1>9 DEF ResetBegin
<1>10. CASE PopCheck
  BY <1>10 DEF PopCheck
<1>11. CASE PopCopy
  BY <1>11 DEF PopCopy
<1>12. CASE PopAdvance
  BY <1>12 DEF PopAdvance
<1>13. CASE Rearm
  <2>1. 0 \in Dev
    OBVIOUS
  <2>2. wake_pending' \in BOOLEAN
    BY <1>13, Zenon DEF Rearm
  <2>3. owed' \in BOOLEAN
    BY <1>13, Zenon DEF Rearm
  <2> QED BY <2>1, <2>2, <2>3, <1>13 DEF Rearm
<1>14. CASE Scan
  BY <1>14 DEF Scan
<1>15. CASE ResetGate
  BY <1>15 DEF ResetGate
<1>16. CASE ResetWake
  BY <1>16 DEF ResetWake, WriteWakeByte
<1>17. CASE UNCHANGED vars
  BY <1>17 DEF vars
<1> QED
  BY <1>1, <1>2, <1>3, <1>4, <1>5, <1>6, <1>7, <1>8, <1>9, <1>10, <1>11,
     <1>12, <1>13, <1>14, <1>15, <1>16, <1>17, ZenonT(30) DEF Next, PushStep, DrainStep

(* Every step keeps what the two threads know about the ring.              *)
LEMMA RingStep == TypeOK /\ RingInv /\ [Next]_vars => RingInv'
<1> SUFFICES ASSUME TypeOK, RingInv, [Next]_vars PROVE RingInv' OBVIOUS
<1> USE NextIdxFacts DEF RingInv, Full, Empty, TypeOK, queueVars, winVars, emuVars
<1>1. ASSUME NEW d \in Dev, NEW c \in Cmd, PushBegin(d, c) PROVE RingInv'
  BY <1>1 DEF PushBegin
<1>2. ASSUME NEW d \in Dev, PushFull(d) PROVE RingInv'
  BY <1>2 DEF PushFull
<1>3. CASE PushWrite
  BY <1>3 DEF PushWrite
<1>4. CASE PushPublish
  BY <1>4 DEF PushPublish
<1>5. CASE PushGate \/ PushWake
  BY <1>5 DEF PushGate, PushWake
<1>6. CASE PollRead \/ TickDrain
  BY <1>6 DEF PollRead, TickDrain
<1>7. ASSUME NEW d \in Dev, ResetBegin(d) PROVE RingInv'
  BY <1>7 DEF ResetBegin
<1>8. CASE PopCheck
  BY <1>8 DEF PopCheck
<1>9. CASE PopCopy
  BY <1>9 DEF PopCopy
<1>10. CASE PopAdvance
  BY <1>10 DEF PopAdvance
<1>11. CASE Rearm \/ ResetGate \/ ResetWake
  BY <1>11 DEF Rearm, ResetGate, ResetWake
<1>12. CASE Scan
  BY <1>12 DEF Scan
<1>13. CASE UNCHANGED vars
  BY <1>13 DEF vars
<1> QED
  BY <1>1, <1>2, <1>3, <1>4, <1>5, <1>6, <1>7, <1>8, <1>9, <1>10, <1>11,
     <1>12, <1>13 DEF Next, PushStep, DrainStep

(* Every step keeps each published event covered by the gate or by a       *)
(* thread that will still act on it.                                       *)
LEMMA NoLostWakeStep == IInv /\ [Next]_vars => NoLostWake'
<1> SUFFICES ASSUME TypeOK, RingInv, NoLostWake, [Next]_vars PROVE NoLostWake'
  BY DEF IInv
<1> USE DEF NoLostWake, Empty, TypeOK, queueVars, winVars, emuVars
<1>1. ASSUME NEW e \in Dev,
             (\E c \in Cmd : PushBegin(e, c)) \/ PushFull(e)
      PROVE  NoLostWake'
  BY <1>1 DEF PushBegin, PushFull
<1>2. CASE PushWrite
  BY <1>2 DEF PushWrite
<1>3. CASE PushPublish
  BY <1>3 DEF PushPublish
<1>4. CASE PushGate
  BY <1>4 DEF PushGate
<1>5. CASE PushWake \/ PollRead
  BY <1>5 DEF PushWake, PollRead
<1>6. CASE TickDrain \/ PopCopy \/ PopAdvance
  BY <1>6 DEF TickDrain, PopCopy, PopAdvance
<1>7. ASSUME NEW e \in Dev, ResetBegin(e) PROVE NoLostWake'
  BY <1>7 DEF ResetBegin
<1>8. CASE PopCheck
  BY <1>8 DEF PopCheck
<1>9. CASE Rearm
  BY <1>9 DEF Rearm, Dev
<1>10. CASE Scan
  BY <1>10, ConstAssumption DEF Scan, Dev
<1>11. CASE ResetGate \/ ResetWake
  BY <1>11 DEF ResetGate, ResetWake
<1>12. CASE UNCHANGED vars
  BY <1>12 DEF vars
<1> QED
  BY <1>1, <1>2, <1>3, <1>4, <1>5, <1>6, <1>7, <1>8, <1>9, <1>10, <1>11,
     <1>12 DEF Next, PushStep, DrainStep

(* Every step keeps the gate backed by a byte or by a rearm that is due.   *)
LEMMA GateBackedStep == TypeOK /\ GateBacked /\ [Next]_vars => GateBacked'
<1> SUFFICES ASSUME TypeOK, GateBacked, [Next]_vars PROVE GateBacked' OBVIOUS
<1> USE ConstAssumption DEF GateBacked, TypeOK, queueVars, winVars, emuVars
<1>1. ASSUME NEW d \in Dev,
             (\E c \in Cmd : PushBegin(d, c)) \/ PushFull(d) \/ ResetBegin(d)
      PROVE  GateBacked'
  BY <1>1, Zenon DEF PushBegin, PushFull, ResetBegin
<1>2. CASE PushWrite \/ PushPublish
  BY <1>2, Zenon DEF PushWrite, PushPublish
<1>3. CASE PushGate \/ ResetGate
  BY <1>3 DEF PushGate, ResetGate
<1>4. CASE PushWake \/ ResetWake
  <2>1. pipe' > 0
    BY <1>4 DEF PushWake, ResetWake, WriteWakeByte
  <2> QED BY <2>1
<1>5. CASE PollRead
  BY <1>5 DEF PollRead
<1>6. CASE TickDrain \/ PopCheck \/ PopCopy \/ PopAdvance
  BY <1>6, Zenon DEF TickDrain, PopCheck, PopCopy, PopAdvance
<1>7. CASE Rearm \/ Scan
  BY <1>7, Zenon DEF Rearm, Scan
<1>8. CASE UNCHANGED vars
  BY <1>8 DEF vars
<1> QED
  BY <1>1, <1>2, <1>3, <1>4, <1>5, <1>6, <1>7, <1>8 DEF Next, PushStep, DrainStep

(* The inductive invariant holds in every reachable state.                 *)
THEOREM Inductive == Spec => []IInv
<1>1. IInv /\ [Next]_vars => IInv'
  BY TypeStep, RingStep, NoLostWakeStep, GateBackedStep DEF IInv
<1> QED BY InitIInv, <1>1, PTL DEF Spec

(* Every variable keeps its type, whatever the two threads do.             *)
THEOREM TypeCorrect == Spec => []TypeOK
<1>1. IInv => TypeOK
  BY DEF IInv
<1> QED BY Inductive, <1>1, PTL

(* No published host event is ever stranded behind a clear gate.           *)
THEOREM WakeNeverLost == Spec => []NoLostWake
<1>1. IInv => NoLostWake
  BY DEF IInv
<1> QED BY Inductive, <1>1, PTL

(* The invariant that the comment of vinput_reset_host_events promises.    *)
THEOREM GateAlwaysBacked == Spec => []GateBacked
<1>1. IInv => GateBacked
  BY DEF IInv
<1> QED BY Inductive, <1>1, PTL

(* Producer and consumer are never inside the same ring slot.              *)
THEOREM SlotsNeverShared == Spec => []NoSlotRace
<1>1. IInv => NoSlotRace
  BY DEF IInv, RingInv, NoSlotRace, Empty
<1> QED BY Inductive, <1>1, PTL

-----------------------------------------------------------------------------
(* The ring as a sequence: what a push, a pop and a write to the free slot  *)
(* do to RingSeq, the refinement mapping.                                   *)

(* The contents of a ring are a sequence of RingCount entries.             *)
LEMMA RingLen ==
  ASSUME NEW h \in Slot, NEW t \in Slot, NEW V, NEW e \in [Slot -> V]
  PROVE  /\ RingCount(h, t) \in 0 .. QSize - 1
         /\ RingSeq(h, t, e) \in Seq(V)
         /\ Len(RingSeq(h, t, e)) = RingCount(h, t)
<1>1. RingCount(h, t) \in 0 .. QSize - 1
  BY ConstAssumption DEF RingCount, Slot
<1>2. \A i \in 1 .. RingCount(h, t) : RingSlot(t, i) \in Slot
  BY <1>1, ConstAssumption DEF RingSlot, Slot
<1>3. RingSeq(h, t, e) \in Seq(V)
  BY <1>1, <1>2 DEF RingSeq
<1>4. Len(RingSeq(h, t, e)) = RingCount(h, t)
  BY <1>1, <1>2 DEF RingSeq
<1> QED BY <1>1, <1>3, <1>4

(* Advancing head appends the entry at the old head.                       *)
LEMMA RingPush ==
  ASSUME NEW h \in Slot, NEW t \in Slot, NEW V, NEW e \in [Slot -> V],
         NextIdx(h) # t
  PROVE  RingSeq(NextIdx(h), t, e) = Append(RingSeq(h, t, e), e[h])
<1>1. /\ NextIdx(h) \in Slot
      /\ RingCount(NextIdx(h), t) = RingCount(h, t) + 1
      /\ RingCount(h, t) \in Nat
  BY ConstAssumption DEF RingCount, Slot, NextIdx
<1>2. RingSlot(t, RingCount(h, t) + 1) = h
  BY ConstAssumption DEF RingCount, Slot, RingSlot
<1> DEFINE A == RingSeq(NextIdx(h), t, e)  B == RingSeq(h, t, e)
<1>3. /\ A \in Seq(V) /\ Len(A) = RingCount(h, t) + 1
      /\ B \in Seq(V) /\ Len(B) = RingCount(h, t)
      /\ e[h] \in V
  BY <1>1, RingLen
<1>4. \A i \in 1 .. RingCount(h, t) + 1 : A[i] = e[RingSlot(t, i)]
  BY <1>1 DEF RingSeq
<1>5. \A i \in 1 .. RingCount(h, t) : B[i] = e[RingSlot(t, i)]
  BY <1>1 DEF RingSeq
<1> HIDE DEF A, B
<1>6. \A i \in 1 .. Len(A) : A[i] = Append(B, e[h])[i]
  BY <1>1, <1>2, <1>3, <1>4, <1>5
<1>7. A = Append(B, e[h])
  BY <1>1, <1>3, <1>6, SeqEqual, AppendProperties
<1> QED BY <1>7 DEF A, B

(* Advancing tail removes the first entry, the one at the old tail.        *)
LEMMA RingPop ==
  ASSUME NEW h \in Slot, NEW t \in Slot, NEW V, NEW e \in [Slot -> V], t # h
  PROVE  /\ RingSeq(h, t, e) # <<>>
         /\ Head(RingSeq(h, t, e)) = e[t]
         /\ Tail(RingSeq(h, t, e)) = RingSeq(h, NextIdx(t), e)
<1> DEFINE n == RingCount(h, NextIdx(t))
           A == RingSeq(h, t, e)
           B == RingSeq(h, NextIdx(t), e)
<1>1. NextIdx(t) \in Slot /\ RingCount(h, t) = n + 1 /\ n \in Nat
  BY ConstAssumption DEF RingCount, Slot, NextIdx
<1>2. RingSlot(t, 1) = t /\ \A i \in 1 .. n : RingSlot(t, i + 1) = RingSlot(NextIdx(t), i)
  BY <1>1, ConstAssumption DEF RingCount, Slot, RingSlot, NextIdx
<1>3. A \in Seq(V) /\ B \in Seq(V) /\ Len(A) = n + 1 /\ Len(B) = n
  BY <1>1, RingLen
<1>4. \A i \in 1 .. n + 1 : A[i] = e[RingSlot(t, i)]
  BY <1>1 DEF RingSeq
<1>5. \A i \in 1 .. n : B[i] = e[RingSlot(NextIdx(t), i)]
  BY <1>1 DEF RingSeq
<1> HIDE DEF A, B, n
<1>6. A # <<>> /\ Head(A) = e[t]
  BY <1>1, <1>2, <1>3, <1>4
<1>7. Tail(A) \in Seq(V) /\ Len(Tail(A)) = n /\ \A i \in 1 .. n : Tail(A)[i] = A[i + 1]
  BY <1>1, <1>3, <1>6, HeadTailProperties
<1>8. \A i \in 1 .. n : Tail(A)[i] = B[i]
  BY <1>1, <1>2, <1>4, <1>5, <1>7
<1>9. Tail(A) = B
  BY <1>3, <1>7, <1>8, SeqEqual
<1> QED BY <1>6, <1>9 DEF A, B

(* The slot at head is outside the contents, so writing it changes nothing.*)
LEMMA RingWrite ==
  ASSUME NEW h \in Slot, NEW t \in Slot, NEW V, NEW e \in [Slot -> V], NEW c \in V
  PROVE  RingSeq(h, t, [e EXCEPT ![h] = c]) = RingSeq(h, t, e)
<1>1. \A i \in 1 .. RingCount(h, t) : RingSlot(t, i) \in Slot \ {h}
  BY ConstAssumption DEF RingCount, RingSlot, Slot
<1> QED BY <1>1 DEF RingSeq

-----------------------------------------------------------------------------
(* The refinement: every step of the two threads is a step of LossyFifo or  *)
(* leaves what it shows unchanged.                                          *)

Val == Cmd \cup {NoCmd}

(* The values in flight: the producer has written what it will publish, and *)
(* the consumer holds a copy of the entry it is about to release.           *)
DataInv ==
  /\ wpc # "idle" => wcmd \in Cmd
  /\ wpc = "publish" => entries[wdev][head[wdev]] = wcmd
  /\ epc = "advance" => ecmd = entries[edev][tail[edev]]

(* Every step keeps the values in flight.                                  *)
LEMMA DataStep == TypeOK /\ RingInv /\ DataInv /\ [Next]_vars => DataInv'
<1> SUFFICES ASSUME TypeOK, RingInv, DataInv, [Next]_vars PROVE DataInv' OBVIOUS
<1> USE NextIdxFacts DEF DataInv, RingInv, Full, Empty, TypeOK, queueVars, winVars, emuVars
<1>1. ASSUME NEW d \in Dev,
             (\E c \in Cmd : PushBegin(d, c)) \/ PushFull(d) \/ ResetBegin(d)
      PROVE  DataInv'
  BY <1>1 DEF PushBegin, PushFull, ResetBegin
<1>2. CASE PushWrite
  BY <1>2 DEF PushWrite
<1>3. CASE PushPublish
  BY <1>3 DEF PushPublish
<1>4. CASE PushGate \/ PushWake \/ PollRead \/ TickDrain
  BY <1>4 DEF PushGate, PushWake, PollRead, TickDrain
<1>5. CASE PopCheck \/ Scan
  BY <1>5 DEF PopCheck, Scan
<1>6. CASE PopCopy
  BY <1>6 DEF PopCopy
<1>7. CASE PopAdvance
  BY <1>7 DEF PopAdvance
<1>8. CASE Rearm \/ ResetGate \/ ResetWake
  BY <1>8 DEF Rearm, ResetGate, ResetWake
<1>9. CASE UNCHANGED vars
  BY <1>9 DEF vars
<1> QED
  BY <1>1, <1>2, <1>3, <1>4, <1>5, <1>6, <1>7, <1>8, <1>9, ZenonT(30) DEF Next, PushStep, DrainStep

(* The abstract queue that a state of the rings stands for.                 *)
AbstractQ == [d \in Dev |-> RingSeq(head[d], tail[d], entries[d])]

(* Push is the store to head, Pop the store to tail, Refuse the full check; *)
(* every other access is invisible.                                        *)
LEMMA FifoStep == TypeOK /\ RingInv /\ DataInv /\ [Next]_vars => [Fifo!Next]_(Fifo!vars)
<1> SUFFICES ASSUME TypeOK, RingInv, DataInv, [Next]_vars
             PROVE  Fifo!Next \/ UNCHANGED <<AbstractQ, popped, accepted>>
  BY ZenonT(30) DEF Fifo!vars, AbstractQ
<1> USE DEF queueVars, winVars, emuVars
<1>1. ASSUME UNCHANGED queueVars PROVE UNCHANGED AbstractQ
  BY <1>1 DEF AbstractQ
<1>2. ASSUME NEW d \in Dev, PushFull(d) PROVE Fifo!Next
  <2>1. Len(AbstractQ[d]) = QSize - 1
    <3>1. RingCount(head[d], tail[d]) = QSize - 1
      BY <1>2, ConstAssumption DEF PushFull, Full, NextIdx, RingCount, TypeOK, Slot
    <3> QED BY <3>1, RingLen, ZenonT(60) DEF AbstractQ, TypeOK
  <2>2. Fifo!Refuse(d)
    BY <2>1, <1>1, <1>2 DEF Fifo!Refuse, AbstractQ, PushFull
  <2> QED BY <2>2 DEF Fifo!Next
<1>3. CASE PushWrite
  <2>1. ASSUME NEW d \in Dev
        PROVE  RingSeq(head[d], tail[d], entries[d]) = RingSeq(head[d], tail[d], entries'[d])
    <3>1. head[d] \in Slot /\ tail[d] \in Slot /\ entries[d] \in [Slot -> Val] /\ wcmd \in Val
      BY DEF TypeOK, Val
    <3>2. CASE d = wdev
      <4>1. entries'[d] = [entries[d] EXCEPT ![head[d]] = wcmd]
        BY <1>3, <3>2 DEF PushWrite, TypeOK
      <4> HIDE DEF Val, Slot
      <4>2. RingSeq(head[d], tail[d], [entries[d] EXCEPT ![head[d]] = wcmd])
              = RingSeq(head[d], tail[d], entries[d])
        BY <3>1, RingWrite, SMTT(60)
      <4> QED BY <4>1, <4>2, ZenonT(30)
    <3>3. CASE d # wdev
      BY <1>3, <3>3 DEF PushWrite, TypeOK
    <3> QED BY <3>2, <3>3
  <2>2. UNCHANGED AbstractQ
    BY <2>1, <1>3 DEF AbstractQ, PushWrite
  <2> QED BY <2>2, <1>3 DEF PushWrite
<1>4. CASE PushPublish
  <2>1. wdev \in Dev /\ wcmd \in Cmd /\ NextIdx(head[wdev]) # tail[wdev]
    BY <1>4 DEF PushPublish, TypeOK, DataInv, RingInv, Full
  <2>2. AbstractQ'[wdev] = Append(AbstractQ[wdev], wcmd)
    <3>1. /\ head[wdev] \in Slot /\ tail[wdev] \in Slot
          /\ entries[wdev] \in [Slot -> Val]
          /\ entries[wdev][head[wdev]] = wcmd
      BY <1>4, <2>1 DEF TypeOK, Val, DataInv, PushPublish
    <3>2. RingSeq(NextIdx(head[wdev]), tail[wdev], entries[wdev])
            = Append(RingSeq(head[wdev], tail[wdev], entries[wdev]), wcmd)
      BY <2>1, <3>1, RingPush, Zenon
    <3>3. /\ head'[wdev] = NextIdx(head[wdev])
          /\ tail' = tail /\ entries' = entries
      BY <1>4, <2>1 DEF PushPublish, TypeOK
    <3> QED BY <2>1, <3>2, <3>3 DEF AbstractQ
  <2>3. \A d \in Dev \ {wdev} : AbstractQ'[d] = AbstractQ[d]
    BY <1>4 DEF AbstractQ, PushPublish, TypeOK
  <2>4. AbstractQ' = [AbstractQ EXCEPT ![wdev] = Append(@, wcmd)]
    BY <2>1, <2>2, <2>3, Zenon DEF AbstractQ
  <2>5. Len(AbstractQ[wdev]) < QSize - 1
    <3>1. RingCount(head[wdev], tail[wdev]) < QSize - 1
      BY <2>1, ConstAssumption DEF NextIdx, RingCount, TypeOK, Slot
    <3> QED BY <3>1, <2>1, RingLen, ZenonT(60) DEF AbstractQ, TypeOK
  <2>6. Fifo!Push(wdev, wcmd)
    BY <1>4, <2>4, <2>5 DEF Fifo!Push, AbstractQ, PushPublish
  <2> QED BY <2>1, <2>6 DEF Fifo!Next
<1>5. CASE PopAdvance
  <2>1. edev \in Dev /\ tail[edev] # head[edev] /\ ecmd = entries[edev][tail[edev]]
    BY <1>5 DEF PopAdvance, TypeOK, DataInv, RingInv, Empty
  <2>2. AbstractQ[edev] # <<>> /\ Head(AbstractQ[edev]) = ecmd /\ Tail(AbstractQ[edev]) = AbstractQ'[edev]
    <3>1. /\ head[edev] \in Slot /\ tail[edev] \in Slot
          /\ entries[edev] \in [Slot -> Val]
      BY <2>1 DEF TypeOK, Val
    <3>2. /\ RingSeq(head[edev], tail[edev], entries[edev]) # <<>>
          /\ Head(RingSeq(head[edev], tail[edev], entries[edev])) = entries[edev][tail[edev]]
          /\ Tail(RingSeq(head[edev], tail[edev], entries[edev]))
               = RingSeq(head[edev], NextIdx(tail[edev]), entries[edev])
      <4> DEFINE h == head[edev]  t == tail[edev]  e == entries[edev]
      <4>1. h \in Slot /\ t \in Slot /\ e \in [Slot -> Val] /\ t # h
        BY <2>1, <3>1
      <4> HIDE DEF h, t, e
      <4>2. /\ RingSeq(h, t, e) # <<>> /\ Head(RingSeq(h, t, e)) = e[t]
            /\ Tail(RingSeq(h, t, e)) = RingSeq(h, NextIdx(t), e)
        BY <4>1, RingPop, ZenonT(60)
      <4> QED BY <4>2 DEF h, t, e
    <3>3. /\ tail'[edev] = NextIdx(tail[edev])
          /\ head' = head /\ entries' = entries
      BY <1>5, <2>1 DEF PopAdvance, TypeOK
    <3> QED BY <2>1, <3>2, <3>3 DEF AbstractQ
  <2>3. \A d \in Dev \ {edev} : AbstractQ'[d] = AbstractQ[d]
    BY <1>5 DEF AbstractQ, PopAdvance, TypeOK
  <2>4. AbstractQ' = [AbstractQ EXCEPT ![edev] = Tail(@)]
    BY <2>1, <2>2, <2>3, Zenon DEF AbstractQ
  <2>5. Fifo!Pop(edev)
    BY <1>5, <2>2, <2>4, Zenon DEF Fifo!Pop, AbstractQ, PopAdvance
  <2> QED BY <2>1, <2>5 DEF Fifo!Next
<1>6. ASSUME NEW d \in Dev, (\E c \in Cmd : PushBegin(d, c)) \/ ResetBegin(d)
      PROVE  UNCHANGED <<AbstractQ, popped, accepted>>
  BY <1>1, <1>6 DEF PushBegin, ResetBegin
<1>7. CASE PushGate \/ PushWake \/ PollRead \/ TickDrain
  BY <1>1, <1>7 DEF PushGate, PushWake, PollRead, TickDrain
<1>8. CASE PopCheck \/ PopCopy \/ Rearm \/ Scan \/ ResetGate \/ ResetWake
  BY <1>1, <1>8 DEF PopCheck, PopCopy, Rearm, Scan, ResetGate, ResetWake
<1>9. CASE UNCHANGED vars
  BY <1>1, <1>9 DEF vars
<1> QED
  BY <1>2, <1>3, <1>4, <1>5, <1>6, <1>7, <1>8, <1>9 DEF Next, PushStep, DrainStep

(* The lock-free rings implement the abstract queue: events arrive in order *)
(* and at most once, and are refused only while the ring is full.           *)
THEOREM QueueImplementsFifo == Spec => ImplementsFifo
<1>1. Init => DataInv /\ Fifo!Init
  <2> SUFFICES ASSUME Init PROVE DataInv /\ Fifo!Init OBVIOUS
  <2>1. DataInv
    BY DEF Init, DataInv
  <2>2. 0 \in Slot /\ RingCount(0, 0) = 0
    BY ConstAssumption DEF Slot, RingCount
  <2>3. \A e : RingSeq(0, 0, e) = <<>>
    BY <2>2 DEF RingSeq
  <2>4. AbstractQ = [d \in Dev |-> <<>>]
    BY <2>3 DEF AbstractQ, Init
  <2>5. Fifo!Init
    BY <2>4 DEF AbstractQ, Fifo!Init, Init
  <2> QED BY <2>1, <2>5
<1>2. IInv /\ DataInv /\ [Next]_vars => DataInv'
  BY DataStep DEF IInv
<1>3. IInv /\ DataInv /\ [Next]_vars => [Fifo!Next]_(Fifo!vars)
  BY FifoStep DEF IInv
<1> QED BY <1>1, <1>2, <1>3, Inductive, PTL DEF Spec, ImplementsFifo, Fifo!Spec
=============================================================================
