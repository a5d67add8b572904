-------------------------- MODULE VgpuDisplayProofs --------------------------
(***************************************************************************)
(* The safety of the display bridge for any number of scanouts, ring size, *)
(* set of snapshots and number of clears, however the two threads          *)
(* interleave.                                                             *)
(*                                                                         *)
(* IInv is inductive.  Fresh carries a passed stale check to the moment    *)
(* the frame is shown: the consumer mirrors no clear in between, although  *)
(* the publisher may issue one.  Holders says of the three places a        *)
(* snapshot can be in that each holds live ones, no two the same one, and  *)
(* Held that a live one is in some place.                                  *)
(***************************************************************************)
EXTENDS VgpuDisplay, TLAPS

Mirrored == \A p \in Plane : consumed_generation[p] <= generation[p]

Fresh == cpc = "apply" => ccmd.gen >= consumed_generation[ccmd.plane]

Handed ==
  /\ ppc = "idle" => pcmd.payload = NoPayload
  /\ cpc \notin {"check", "apply"} => ccmd.payload = NoPayload

Ring == 1 .. Len(queue)

Holders ==
  /\ \A i \in Ring : queue[i].payload \in live \cup {NoPayload}
  /\ pcmd.payload \in live \cup {NoPayload}
  /\ ccmd.payload \in live \cup {NoPayload}
  /\ \A i, j \in Ring : queue[i].payload = queue[j].payload /\ i # j
                          => queue[i].payload = NoPayload
  /\ \A i \in Ring : queue[i].payload \in {pcmd.payload, ccmd.payload}
                       => queue[i].payload = NoPayload
  /\ pcmd.payload = ccmd.payload => pcmd.payload = NoPayload

Held ==
  \A x \in live : \/ \E i \in Ring : queue[i].payload = x
                  \/ pcmd.payload = x
                  \/ ccmd.payload = x

IInv ==
  /\ TypeOK /\ Mirrored /\ Fresh /\ NoOldFrame
  /\ PublishNeverDrops /\ Handed /\ Holders /\ Held

-----------------------------------------------------------------------------
\* What a push and a pop do to the entries of the ring.
LEMMA AppendEntries ==
  ASSUME NEW S, NEW q \in Seq(S), NEW e \in S
  PROVE  /\ Append(q, e) \in Seq(S) /\ Len(Append(q, e)) = Len(q) + 1
         /\ \A i \in 1 .. Len(q) : Append(q, e)[i] = q[i]
         /\ Append(q, e)[Len(q) + 1] = e
OBVIOUS

LEMMA TailEntries ==
  ASSUME NEW S, NEW q \in Seq(S), q # <<>>
  PROVE  /\ Tail(q) \in Seq(S) /\ Len(Tail(q)) = Len(q) - 1 /\ Len(q) \in Nat \ {0}
         /\ \A i \in 1 .. Len(q) - 1 : Tail(q)[i] = q[i + 1]
         /\ Head(q) = q[1] /\ Head(q) \in S
OBVIOUS

LEMMA Planes == 0 \in Plane /\ Cursor \subseteq Plane /\ 0 \in Gen /\ NoCmd \in Cmd
BY ConstAssumption DEF Plane, Primary, Cursor, Gen, NoCmd, Cmd

-----------------------------------------------------------------------------
LEMMA InitIInv == Init => IInv
<1> SUFFICES ASSUME Init PROVE IInv
  OBVIOUS
<1>1. TypeOK
  BY Planes, ConstAssumption DEF Init, TypeOK
<1>2. Mirrored /\ Fresh /\ NoOldFrame
  BY DEF Init, Mirrored, Fresh, NoOldFrame
<1>3. PublishNeverDrops /\ Handed /\ Holders /\ Held
  BY DEF Init, PublishNeverDrops, Handed, Holders, Held, Ring, NoCmd
<1> QED BY <1>1, <1>2, <1>3 DEF IInv

\* Every step keeps the types.
LEMMA TypeStep == TypeOK /\ [Next]_vars => TypeOK'
<1> SUFFICES ASSUME TypeOK, [Next]_vars PROVE TypeOK'
  OBVIOUS
<1> USE DEF TypeOK, prodVars, consVars
<1>1. ASSUME NEW p \in Plane, PublishClear(p) PROVE TypeOK'
  BY <1>1, ConstAssumption DEF PublishClear, Gen
<1>2. ASSUME NEW p \in Plane, BeginFrame(p) PROVE TypeOK'
  BY <1>2 DEF BeginFrame, Cmd
<1>3. CASE PublishSet
  <2>1. queue' \in Seq(Cmd) /\ Len(queue') < QSize
    BY <1>3, AppendEntries, ConstAssumption DEF PublishSet, vgpu_display_push_cmd, Full
  <2> QED BY <1>3, <2>1, Planes DEF PublishSet, vgpu_display_push_cmd
<1>4. ASSUME NEW p \in Cursor, PublishMove(p) PROVE TypeOK'
  <2>1. [plane |-> p, gen |-> generation[p], payload |-> NoPayload] \in Cmd
    BY Planes DEF Cmd
  <2>2. queue' \in Seq(Cmd) /\ Len(queue') < QSize
    BY <1>4, <2>1, AppendEntries, ConstAssumption DEF PublishMove, vgpu_display_push_cmd, Full
  <2> QED BY <1>4, <2>2 DEF PublishMove, vgpu_display_push_cmd
<1>5. CASE DrainBegin
  BY <1>5, Planes DEF DrainBegin
<1>6. CASE ScanClear
  BY <1>6, Planes DEF ScanClear
<1>7. CASE PopQueued
  <2>1. CASE queue = <<>>
    BY <1>7, <2>1 DEF PopQueued
  <2>2. CASE queue # <<>>
    <3>1. queue' = Tail(queue) /\ ccmd' = Head(queue)
      BY <1>7, <2>2 DEF PopQueued
    <3>2. /\ Tail(queue) \in Seq(Cmd) /\ Len(Tail(queue)) = Len(queue) - 1
          /\ Len(queue) \in Nat /\ Head(queue) \in Cmd
      BY <2>2, TailEntries
    <3>3. queue' \in Seq(Cmd) /\ Len(queue') < QSize /\ ccmd' \in Cmd
      BY <3>1, <3>2, ConstAssumption
    <3> QED BY <1>7, <3>3 DEF PopQueued
  <2> QED BY <2>1, <2>2
<1>8. CASE CheckStale
  BY <1>8, Planes DEF CheckStale
<1>9. CASE Apply
  BY <1>9, Planes DEF Apply, Cmd
<1>10. CASE UNCHANGED vars
  BY <1>10 DEF vars
<1> QED
  BY <1>1, <1>2, <1>3, <1>4, <1>5, <1>6, <1>7, <1>8, <1>9, <1>10 DEF Next, WindowStep

(***************************************************************************)
(* What is shown is no older than the last clear carried out: a clear that *)
(* is mirrored empties the plane, and a frame that is shown passed the     *)
(* stale check with the generation of then.                                *)
(***************************************************************************)
LEMMA FrameStep ==
  ASSUME TypeOK, TypeOK', Mirrored, Fresh, NoOldFrame, [Next]_vars
  PROVE  Mirrored' /\ Fresh' /\ NoOldFrame'
<1> USE DEF Mirrored, Fresh, NoOldFrame, TypeOK, Gen, Cmd, prodVars, consVars
<1>1. ASSUME NEW p \in Plane, PublishClear(p) PROVE Mirrored' /\ Fresh' /\ NoOldFrame'
  BY <1>1 DEF PublishClear
<1>2. ASSUME NEW p \in Plane, BeginFrame(p) PROVE Mirrored' /\ Fresh' /\ NoOldFrame'
  BY <1>2 DEF BeginFrame
<1>3. CASE PublishSet
  BY <1>3 DEF PublishSet
<1>4. ASSUME NEW p \in Cursor, PublishMove(p) PROVE Mirrored' /\ Fresh' /\ NoOldFrame'
  BY <1>4 DEF PublishMove
<1>5. CASE DrainBegin
  BY <1>5 DEF DrainBegin
<1>6. CASE ScanClear
  <2>1. CASE consumed_generation[cplane] # generation[cplane]
    <3>1. /\ consumed_generation' =
               [consumed_generation EXCEPT ![cplane] = generation[cplane]]
          /\ shown' = [shown EXCEPT ![cplane] = NoFrame]
          /\ cpc' = "clear" /\ UNCHANGED generation
      BY <1>6, <2>1, Zenon DEF ScanClear
    <3>2. /\ shown'[cplane] = NoFrame
          /\ consumed_generation'[cplane] = generation[cplane]
          /\ \A p \in Plane \ {cplane} :
               shown'[p] = shown[p] /\ consumed_generation'[p] = consumed_generation[p]
      BY <3>1
    <3>3. Mirrored'
      BY <3>1, <3>2
    <3>4. NoOldFrame'
      BY <3>2, Zenon
    <3> QED BY <3>1, <3>3, <3>4
  <2>2. CASE consumed_generation[cplane] = generation[cplane]
    <3>1. cpc' # "apply" /\ UNCHANGED <<consumed_generation, shown, generation>>
      BY <1>6, <2>2 DEF ScanClear
    <3> QED BY <3>1
  <2> QED BY <2>1, <2>2
<1>7. CASE PopQueued
  BY <1>7 DEF PopQueued
<1>8. CASE CheckStale
  BY <1>8 DEF CheckStale, IsStale
<1>9. CASE Apply
  BY <1>9, ConstAssumption DEF Apply
<1>10. CASE UNCHANGED vars
  BY <1>10 DEF vars
<1> QED
  BY <1>1, <1>2, <1>3, <1>4, <1>5, <1>6, <1>7, <1>8, <1>9, <1>10, Zenon DEF Next, WindowStep

(***************************************************************************)
(* A snapshot changes hands without being lost or doubled: a push moves it *)
(* from the publisher to the end of the ring, a pop from the front of the  *)
(* ring to the consumer, and it is freed where it is held last.            *)
(***************************************************************************)
LEMMA PayloadStep ==
  ASSUME TypeOK, TypeOK', PublishNeverDrops, Handed, Holders, Held, [Next]_vars
  PROVE  PublishNeverDrops' /\ Handed' /\ Holders' /\ Held'
<1> DEFINE Goal == PublishNeverDrops' /\ Handed' /\ Holders' /\ Held'
<1>0. /\ NoCmd.payload = NoPayload /\ NoPayload \notin live /\ Len(queue) \in Nat
      /\ queue \in Seq(Cmd)
  BY ConstAssumption DEF NoCmd, TypeOK
<1>1. ASSUME NEW p \in Plane, PublishClear(p) PROVE Goal
  BY <1>1 DEF PublishClear, prodVars, consVars, PublishNeverDrops, Full, Handed, Holders,
              Held, Ring
<1>2. ASSUME NEW p \in Plane, BeginFrame(p) PROVE Goal
  <2>1. PICK x \in Payload \ live :
          /\ pcmd' = [plane |-> p, gen |-> generation[p], payload |-> x]
          /\ live' = live \cup {x}
    BY <1>2 DEF BeginFrame
  <2>2. pcmd'.payload = x /\ pcmd.payload = NoPayload /\ x # NoPayload
    BY <1>2, <2>1, ConstAssumption DEF Handed, BeginFrame
  <2>3. ppc' = "push" /\ ~Full /\ UNCHANGED <<queue, cpc, ccmd>>
    BY <1>2 DEF BeginFrame, consVars
  <2>4. PublishNeverDrops' /\ Handed'
    BY <2>3 DEF PublishNeverDrops, Full, Handed
  <2>5. Ring' = Ring
    BY <2>3 DEF Ring
  <2>6. Holders'
    BY <2>1, <2>2, <2>3, <2>5 DEF Holders
  <2>7. Held'
    BY <2>1, <2>2, <2>3, <2>5, <1>0 DEF Held
  <2> QED BY <2>4, <2>6, <2>7
<1>3. CASE PublishSet
  <2>1. /\ queue' = Append(queue, pcmd) /\ live' = live /\ ppc' = "idle"
        /\ pcmd'.payload = NoPayload /\ UNCHANGED <<cpc, ccmd>>
    BY <1>0, <1>3 DEF PublishSet, vgpu_display_push_cmd, PublishNeverDrops, consVars
  <2>2. pcmd \in Cmd
    BY DEF TypeOK
  <2>3. /\ Len(queue') = Len(queue) + 1 /\ queue'[Len(queue) + 1] = pcmd
        /\ \A i \in 1 .. Len(queue) : queue'[i] = queue[i]
    BY <1>0, <2>1, <2>2, AppendEntries
  <2>4. Ring' = Ring \cup {Len(queue) + 1} /\ Len(queue) + 1 \notin Ring
    BY <1>0, <2>3 DEF Ring
  <2>5. Holders'
    BY <2>1, <2>3, <2>4 DEF Holders, Ring
  <2>6. Held'
    BY <2>1, <2>3, <2>4 DEF Held, Ring
  <2> QED BY <2>1, <2>5, <2>6 DEF PublishNeverDrops, Handed
<1>4. ASSUME NEW p \in Cursor, PublishMove(p) PROVE Goal
  <2> DEFINE cmd == [plane |-> p, gen |-> generation[p], payload |-> NoPayload]
  <2>1. cmd \in Cmd /\ cmd.payload = NoPayload
    BY Planes DEF Cmd, TypeOK
  <2>2. /\ live' = live /\ ppc = "idle" /\ UNCHANGED <<ppc, pcmd, cpc, ccmd>>
        /\ queue' = IF Full THEN queue ELSE Append(queue, cmd)
    BY <1>0, <1>4 DEF PublishMove, vgpu_display_push_cmd, prodVars, consVars
  <2> HIDE DEF cmd
  <2>3. CASE Full
    BY <2>2, <2>3 DEF PublishNeverDrops, Handed, Holders, Held, Ring
  <2>4. CASE ~Full
    <3>1. /\ Len(queue') = Len(queue) + 1 /\ queue'[Len(queue) + 1] = cmd
          /\ \A i \in 1 .. Len(queue) : queue'[i] = queue[i]
      BY <1>0, <2>1, <2>2, <2>4, AppendEntries
    <3>2. Ring' = Ring \cup {Len(queue) + 1} /\ Len(queue) + 1 \notin Ring
      BY <1>0, <3>1 DEF Ring
    <3>3. Holders' /\ Held'
      BY <2>1, <2>2, <3>1, <3>2 DEF Holders, Held, Ring
    <3> QED BY <2>2, <3>3 DEF PublishNeverDrops, Handed
  <2> QED BY <2>3, <2>4
<1>5. CASE DrainBegin
  BY <1>5 DEF DrainBegin, prodVars, PublishNeverDrops, Full, Handed, Holders, Held, Ring
<1>6. CASE ScanClear
  <2>1. cpc = "clear" /\ cpc' \in {"clear", "pop"} /\ UNCHANGED <<queue, ppc, pcmd, ccmd, live>>
    BY <1>6 DEF ScanClear, prodVars
  <2> QED BY <2>1 DEF PublishNeverDrops, Full, Handed, Holders, Held, Ring
<1>7. CASE PopQueued
  <2>1. CASE queue = <<>>
    <3>1. cpc = "pop" /\ cpc' = "idle" /\ UNCHANGED <<queue, ppc, pcmd, ccmd, live>>
      BY <1>7, <2>1 DEF PopQueued, prodVars
    <3> QED BY <3>1 DEF PublishNeverDrops, Full, Handed, Holders, Held, Ring
  <2>2. CASE queue # <<>>
    <3>1. /\ queue' = Tail(queue) /\ ccmd' = Head(queue) /\ cpc' = "check"
          /\ ccmd.payload = NoPayload /\ UNCHANGED <<ppc, pcmd, live>>
      BY <1>7, <2>2 DEF PopQueued, prodVars, Handed
    <3>2. /\ Len(queue') = Len(queue) - 1 /\ Len(queue) \in Nat \ {0}
          /\ \A i \in 1 .. Len(queue) - 1 : queue'[i] = queue[i + 1]
          /\ ccmd' = queue[1]
      BY <1>0, <2>2, <3>1, TailEntries
    <3>3. /\ Ring' = 1 .. Len(queue) - 1 /\ 1 \in Ring
          /\ \A i \in Ring' : i + 1 \in Ring /\ i + 1 # 1
          /\ \A i, j \in Ring' : i # j => i + 1 # j + 1
          /\ \A i \in Ring : i = 1 \/ (i - 1 \in Ring' /\ (i - 1) + 1 = i)
      BY <3>2 DEF Ring
    <3>4. \A i \in Ring' : queue'[i] = queue[i + 1]
      BY <3>2, <3>3
    <3>5. Holders'
      BY <3>1, <3>2, <3>3, <3>4 DEF Holders
    <3>6. Held'
      <4> SUFFICES ASSUME NEW x \in live, pcmd.payload # x, queue[1].payload # x
                   PROVE  \E i \in Ring' : queue'[i].payload = x
        BY <3>1, <3>2, Zenon DEF Held
      <4>1. PICK i \in Ring : queue[i].payload = x
        BY <1>0, <3>1 DEF Held
      <4> QED BY <3>3, <3>4, <4>1
    <3>7. PublishNeverDrops'
      <4>1. Len(queue) < QSize /\ QSize \in Nat
        BY ConstAssumption DEF TypeOK
      <4>2. Len(queue') # QSize - 1
        BY <3>2, <4>1
      <4> QED BY <4>2 DEF PublishNeverDrops, Full
    <3> QED BY <3>1, <3>5, <3>6, <3>7 DEF Handed
  <2> QED BY <2>1, <2>2
<1>8. CASE CheckStale
  <2>1. CASE IsStale
    <3>1. /\ live' = live \ {ccmd.payload} /\ ccmd'.payload = NoPayload /\ cpc' = "clear"
          /\ UNCHANGED <<queue, ppc, pcmd>>
      BY <1>0, <1>8, <2>1 DEF CheckStale, prodVars
    <3> QED BY <1>0, <3>1 DEF PublishNeverDrops, Full, Handed, Holders, Held, Ring
  <2>2. CASE ~IsStale
    BY <1>8, <2>2 DEF CheckStale, prodVars, PublishNeverDrops, Full, Handed, Holders, Held, Ring
  <2> QED BY <2>1, <2>2
<1>9. CASE Apply
  <2>1. /\ live' = live \ {ccmd.payload} /\ ccmd'.payload = NoPayload /\ cpc' = "clear"
        /\ UNCHANGED <<queue, ppc, pcmd>>
    BY <1>0, <1>9 DEF Apply, prodVars
  <2> QED BY <1>0, <2>1 DEF PublishNeverDrops, Full, Handed, Holders, Held, Ring
<1>10. CASE UNCHANGED vars
  BY <1>10 DEF vars, PublishNeverDrops, Full, Handed, Holders, Held, Ring
<1> QED
  BY <1>1, <1>2, <1>3, <1>4, <1>5, <1>6, <1>7, <1>8, <1>9, <1>10 DEF Next, WindowStep

-----------------------------------------------------------------------------
(***************************************************************************)
(* IInv is an invariant of the specification.                              *)
(***************************************************************************)
THEOREM Invariant == Spec => []IInv
<1>1. IInv /\ [Next]_vars => IInv'
  <2> SUFFICES ASSUME IInv, [Next]_vars PROVE IInv'
    OBVIOUS
  <2>1. TypeOK'
    BY TypeStep DEF IInv
  <2>2. Mirrored' /\ Fresh' /\ NoOldFrame'
    BY <2>1, FrameStep DEF IInv
  <2>3. PublishNeverDrops' /\ Handed' /\ Holders' /\ Held'
    BY <2>1, PayloadStep DEF IInv
  <2> QED BY <2>1, <2>2, <2>3 DEF IInv
<1> QED BY <1>1, InitIInv, PTL DEF Spec

(***************************************************************************)
(* Type correctness: generations, commands and positions stay in range and *)
(* the ring keeps its free slot.                                           *)
(***************************************************************************)
THEOREM TypeCorrect == Spec => []TypeOK
<1>1. IInv => TypeOK
  BY DEF IInv
<1> QED BY <1>1, Invariant, PTL

(***************************************************************************)
(* A frame from before a removal never comes back on screen.               *)
(***************************************************************************)
THEOREM OldFramesStayAway == Spec => []NoOldFrame
<1>1. IInv => NoOldFrame
  BY DEF IInv
<1> QED BY <1>1, Invariant, PTL

(***************************************************************************)
(* A frame announced by vgpu_display_can_publish is never dropped.         *)
(***************************************************************************)
THEOREM PublishSucceeds == Spec => []PublishNeverDrops
<1>1. IInv => PublishNeverDrops
  BY DEF IInv
<1> QED BY <1>1, Invariant, PTL

(***************************************************************************)
(* Every snapshot that is allocated has exactly one owner, and one that is *)
(* freed has none.                                                         *)
(***************************************************************************)
THEOREM EveryPayloadOwned == Spec => []PayloadOwnedOnce
<1>1. IInv => PayloadOwnedOnce
  <2> SUFFICES ASSUME IInv, NEW x \in Payload
               PROVE  IF x \in live THEN \E o \in Owners(x) : Owners(x) = {o}
                                   ELSE Owners(x) = {}
    BY DEF PayloadOwnedOnce
  <2> DEFINE R == {j \in 1 .. Len(queue) : queue[j].payload = x}
  <2>1. x # NoPayload
    BY ConstAssumption
  <2>2. CASE x \notin live
    <3>1. R = {} /\ pcmd.payload # x /\ ccmd.payload # x
      BY <2>1, <2>2 DEF IInv, Holders, Ring
    <3> QED BY <2>2, <3>1 DEF Owners
  <2>3. CASE x \in live /\ pcmd.payload = x
    <3>1. R = {} /\ ccmd.payload # x
      BY <2>1, <2>3 DEF IInv, Holders, Ring
    <3>2. Owners(x) = {<<"publisher", 0>>}
      BY <2>3, <3>1 DEF Owners
    <3> QED BY <2>3, <3>2
  <2>4. CASE x \in live /\ ccmd.payload = x
    <3>1. R = {} /\ pcmd.payload # x
      BY <2>1, <2>4 DEF IInv, Holders, Ring
    <3>2. Owners(x) = {<<"window", 0>>}
      BY <2>4, <3>1 DEF Owners
    <3> QED BY <2>4, <3>2
  <2>5. CASE x \in live /\ pcmd.payload # x /\ ccmd.payload # x
    <3>1. PICK i \in 1 .. Len(queue) : queue[i].payload = x
      BY <2>5 DEF IInv, Held, Ring
    <3>2. R = {i}
      BY <2>1, <3>1 DEF IInv, Holders, Ring
    <3>3. Owners(x) = {<<"ring", i>>}
      BY <2>5, <3>2 DEF Owners
    <3> QED BY <2>5, <3>3
  <2> QED BY <2>2, <2>3, <2>4, <2>5
<1> QED BY <1>1, Invariant, PTL
=============================================================================
