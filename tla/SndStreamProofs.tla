--------------------------- MODULE SndStreamProofs ---------------------------
(***************************************************************************)
(* The safety of the sound stream for any queue size, period, callback     *)
(* size and bounds, whatever the order of requests and however the three   *)
(* threads interleave.                                                     *)
(*                                                                         *)
(* IInv is inductive.  LockHeld says who is inside the critical sections;  *)
(* FlagSet, that RELEASE frees the list only after it set the flag under   *)
(* the lock; StreamOpen, what the state of requests says of the PortAudio  *)
(* stream; CallbackOpen, that the callback runs only on a stream that does *)
(* (so PREPARE, which resets the flags unlocked, never meets it);          *)
(* OnePeriod, that a message is pushed only on an empty list; and          *)
(* Completion, that without an overlap the two threads that serve the TX   *)
(* queue keep one position in both rings: the ids from what the guest has  *)
(* seen up to last_avail in the used ring, and from there on in the        *)
(* available ring, are the outstanding messages, each once.                *)
(***************************************************************************)
EXTENDS SndStream, FiniteSetTheorems, TLAPS

LockHeld == (tx = "push" <=> lock = "tx") /\ (cb = "play" <=> lock = "cb")

FlagSet == emu \in {"freeing", "closing", "close"} => releasing /\ lock = "free"

StreamOpen ==
  /\ code \in {"prepare", "start", "stop"} /\ emu # "prepare" /\ ~openFailed
       => pa \in {"open", "running", "stopping"}
  /\ emu \in {"releasing", "freeing", "closing"} /\ ~openFailed
       => pa \in {"open", "running"}
  /\ pa = "stopping" => emu \in {"stop", "close"}
  /\ StreamUsedOpen

CallbackOpen ==
  /\ emu = "prepare" => code = "prepare"
  /\ emu = "stop" => code = "stop" /\ pa = "stopping"
  /\ emu \in {"releasing", "freeing", "closing", "close"} => code = "release"
  /\ pa = "running" => code \in {"start", "stop"} \/ emu \in {"releasing", "freeing", "closing"}
  /\ cb # "idle" => pa \in {"running", "stopping"}
  /\ cb = "play" => notify >= 1

OnePeriod ==
  Period <= CbFrames /\ ~overlap =>
    /\ list = 0 \/ (list <= Period /\ (notify >= 1 \/ tx = "notify"))
    /\ tx = "push" => list = 0 /\ notify = 0
    /\ emu = "prepare" => tx = "idle" /\ list = 0

-----------------------------------------------------------------------------
(* What the rings hold.                                                    *)

\* How far an index is ahead of another.
Ahead(a, b) == (a + IdxMod - b) % IdxMod

\* The i-th id from index s on: the first u are in the used ring, the rest still
\* in the available ring.
IdAt(s, u, av, us, i) == IF i < u THEN us[(s + i) % QNum] ELSE av[(s + i) % QNum]

\* The n ids from s on are the members of out, each once.
Holds(s, u, n, av, us, out) ==
  /\ n <= QNum
  /\ \A i \in 0 .. n - 1 : IdAt(s, u, av, us, i) \in out
  /\ \A i \in 0 .. n - 1, j \in 0 .. n - 1 :
       i # j => IdAt(s, u, av, us, i) # IdAt(s, u, av, us, j)
  /\ \A m \in out : \E i \in 0 .. n - 1 : IdAt(s, u, av, us, i) = m

\* The k ids that the guest takes from the used ring.
Taken(s, k, us) == {us[(s + i) % QNum] : i \in 0 .. k - 1}

\* Taking the used elements up to index t takes that many messages out of the window.
TakesUpTo(t, s, u, n, av, us, out) ==
  LET k == Ahead(t, s) IN
  /\ Taken(s, k, us) \subseteq out /\ Cardinality(Taken(s, k, us)) = k
  /\ Holds(t, u - k, n - k, av, us, out \ Taken(s, k, us))

\* Messages completed that the guest has not seen, and messages to complete.
Done == Ahead(last_avail, seen)
ToDo == Ahead(availIdx, last_avail)

WindowExact == Holds(seen, Done, Done + ToDo, availRing, usedRing, outstanding)

\* used.idx trails last_avail while a batch is under way, and only then.
UsedTrails ==
  /\ Ahead(usedIdx, seen) <= Done
  /\ tx = "idle" /\ emu \notin {"message", "publish"} => usedIdx = last_avail

\* The TX thread between taking a message and completing it.
HasMessage == tx \in {"enqueue", "wait", "push", "notify", "complete"}

TxAligned ==
  /\ tx # "idle" => txUsed = last_avail
  /\ tx = "take" \/ HasMessage =>
       0 < Ahead(txAvail, last_avail) /\ Ahead(txAvail, last_avail) <= ToDo
  /\ HasMessage => txMsg = availRing[last_avail % QNum]

FlushAligned ==
  /\ emu \in {"message", "publish"} => emUsed = last_avail
  /\ emu = "message" => emAvail = availIdx /\ ToDo > 0
  /\ emu = "publish" => ToDo = 0

ReleasedEmpty ==
  code = "release" /\ emu = "guest" /\ failed = "no" => tx = "idle" /\ ToDo = 0

Aligned ==
  qnum # 0 => WindowExact /\ UsedTrails /\ TxAligned /\ FlushAligned /\ ReleasedEmpty

\* A flush or PREPARE and the TX thread take turns, and a cleared device rests.
Separate ==
  /\ emu \in {"prepare", "message", "publish"} => tx = "idle"
  /\ qnum = 0 => tx = "idle" /\ tx_ev = 0 /\ emu = "guest" /\ ~irq
  /\ "completion" \notin wrong /\ failed # "queue" /\ tx # "crashed"

Completion == ~overlap => Separate /\ Aligned

IInv ==
  TypeOK /\ LockHeld /\ FlagSet /\ StreamOpen /\ CallbackOpen /\ OnePeriod /\ Completion

-----------------------------------------------------------------------------
(* Types, locks and the stream.                                            *)

\* An index into a ring, and the index after it.
LEMMA ModRange ==
  /\ \A i \in Index : i % QNum \in Slot
  /\ \A i \in Index : Inc(i) \in Index
  /\ 0 \in Slot /\ 0 \in Index
<1>1. QNum \in Nat \ {0} /\ IdxMod \in Nat \ {0}
  BY ConstAssumption
<1> QED BY <1>1 DEF Index, Slot, Inc

\* Every step keeps the types.
LEMMA TypeStep ==
  ASSUME TypeOK, CallbackOpen, [Next]_vars
  PROVE  TypeOK'
<1> USE DEF TypeOK, CallbackOpen, streamVars, guarded, device, ram, txVars, emVars, guest
<1>1. ASSUME NEW m \in Slot, GuestPost(m) PROVE TypeOK'
  BY <1>1, ModRange, ConstAssumption DEF GuestPost, AtGuest, Running
<1>2. ASSUME NEW ok \in BOOLEAN, Start(ok) PROVE TypeOK'
  BY <1>2, ModRange, ConstAssumption DEF Start, Request, AtGuest, Running, Calls
<1>3. ASSUME NEW ok \in BOOLEAN, Stop(ok) PROVE TypeOK'
  BY <1>3, ModRange, ConstAssumption DEF Stop, Request, AtGuest, Running, Calls
<1>4. ASSUME NEW ok \in BOOLEAN, PrepareOpen(ok) PROVE TypeOK'
  <2>1. openFailed' \in BOOLEAN /\ releasing' \in BOOLEAN
    BY <1>4, Zenon DEF PrepareOpen
  <2>2. notify' \in 0 .. MaxNotify
    BY <1>4, ConstAssumption DEF PrepareOpen
  <2>3. pa' \in {"none", "open", "running", "stopping", "closed"}
    BY <1>4 DEF PrepareOpen
  <2>4. /\ emu' = "guest"
        /\ UNCHANGED <<code, lock, list, tx_ev, device, last_avail, ram, txVars,
                        emAvail, emUsed, cb, guest, overlap, wrong>>
    BY <1>4, Zenon DEF PrepareOpen
  <2> QED BY <2>1, <2>2, <2>3, <2>4
<1>5. ASSUME NEW b \in BOOLEAN, TxTake(b) PROVE TypeOK'
  BY <1>5, ModRange, ConstAssumption DEF TxTake
<1>6. ASSUME NEW b \in BOOLEAN, TxPush(b) PROVE TypeOK'
  BY <1>6, ModRange, ConstAssumption DEF TxPush, Running
<1>7. CASE NotifyTx
  BY <1>7, ModRange, ConstAssumption DEF NotifyTx, AtGuest, Running
<1>8. CASE GuestInterrupt
  <2>1. wrong' \subseteq {"completion", "stream"}
    BY <1>8, Zenon DEF GuestInterrupt
  <2>2. outstanding' \subseteq Slot
    BY <1>8 DEF GuestInterrupt
  <2>3. seen' \in Index /\ irq' \in BOOLEAN
    BY <1>8, Zenon DEF GuestInterrupt
  <2> QED BY <1>8, <2>1, <2>2, <2>3, SMTT(60) DEF GuestInterrupt
<1>9. CASE GuestSetup
  BY <1>9, ModRange, ConstAssumption DEF GuestSetup, AtGuest, Running
<1>10. CASE Reset
  <2>1. overlap' \in BOOLEAN
    BY <1>10, Zenon DEF Reset
  <2>2. qnum' \in {0, QNum} /\ last_avail' \in Index /\ irq' \in BOOLEAN
    BY <1>10, ModRange, Zenon DEF Reset
  <2> QED BY <1>10, <2>1, <2>2 DEF Reset
<1>11. CASE SetParams
  BY <1>11, ModRange, ConstAssumption DEF SetParams, Request, AtGuest, Running
<1>12. CASE Unsupported
  BY <1>12, ModRange, ConstAssumption DEF Unsupported, Request, AtGuest, Running
<1>13. CASE Prepare
  BY <1>13, ModRange, ConstAssumption DEF Prepare, Request, AtGuest, Running, TxBusy
<1>14. CASE Release
  BY <1>14, ModRange, ConstAssumption DEF Release, Request, AtGuest, Running
<1>15. CASE StopReturn
  BY <1>15, ModRange, ConstAssumption DEF StopReturn, Running
<1>16. CASE ReleaseFlag
  BY <1>16, ModRange, ConstAssumption DEF ReleaseFlag, Running
<1>17. CASE ReleaseFree
  BY <1>17, ModRange, ConstAssumption DEF ReleaseFree, Running
<1>18. CASE ReleaseClose
  BY <1>18, ModRange, ConstAssumption DEF ReleaseClose, Running, Calls
<1>19. CASE CloseReturn
  BY <1>19, ModRange, ConstAssumption DEF CloseReturn, Running
<1>20. CASE FlushBegin
  BY <1>20, ModRange, ConstAssumption DEF FlushBegin, Running, TxBusy
<1>21. CASE FlushMessage
  BY <1>21, ModRange, ConstAssumption DEF FlushMessage, Running
<1>22. CASE FlushPublish
  BY <1>22, ModRange, ConstAssumption DEF FlushPublish, Running
<1>23. CASE TxWake
  BY <1>23, ModRange, ConstAssumption DEF TxWake
<1>24. CASE TxEnqueue
  BY <1>24, ModRange, ConstAssumption DEF TxEnqueue, Running
<1>25. CASE TxNotify
  BY <1>25, ModRange, ConstAssumption DEF TxNotify, Running
<1>26. CASE TxComplete
  BY <1>26, ModRange, ConstAssumption DEF TxComplete, Running
<1>27. CASE TxPublish
  BY <1>27, ModRange, ConstAssumption DEF TxPublish, Running
<1>28. CASE CbCall
  BY <1>28, ModRange, ConstAssumption DEF CbCall, Running
<1>29. CASE CbDequeue
  BY <1>29, ModRange, ConstAssumption DEF CbDequeue, Running
<1>30. CASE CbPlay
  BY <1>30, ModRange, ConstAssumption DEF CbPlay, Running
<1>31. CASE UNCHANGED vars
  BY <1>31 DEF vars
<1> QED
  BY <1>1, <1>2, <1>3, <1>4, <1>5, <1>6, <1>7, <1>8, <1>9, <1>10, <1>11,
     <1>12, <1>13, <1>14, <1>15, <1>16, <1>17, <1>18, <1>19, <1>20, <1>21,
     <1>22, <1>23, <1>24, <1>25, <1>26, <1>27, <1>28, <1>29, <1>30, <1>31, ZenonT(60) DEF
     Next, EmuStep, TxStep, CbStep, GuestStep

\* Every step keeps the lock and the flag of RELEASE.
LEMMA LockStep ==
  ASSUME TypeOK, LockHeld, FlagSet, CallbackOpen, [Next]_vars
  PROVE  (LockHeld /\ FlagSet)'
<1> USE DEF TypeOK, LockHeld, FlagSet, CallbackOpen, streamVars, guarded, device, ram, txVars, emVars, guest
<1>1. ASSUME NEW m \in Slot, GuestPost(m) PROVE (LockHeld /\ FlagSet)'
  BY <1>1 DEF GuestPost, AtGuest, Running
<1>2. ASSUME NEW ok \in BOOLEAN, Start(ok) PROVE (LockHeld /\ FlagSet)'
  BY <1>2 DEF Start, Request, AtGuest, Running, Calls
<1>3. ASSUME NEW ok \in BOOLEAN, Stop(ok) PROVE (LockHeld /\ FlagSet)'
  BY <1>3 DEF Stop, Request, AtGuest, Running, Calls
<1>4. ASSUME NEW ok \in BOOLEAN, PrepareOpen(ok) PROVE (LockHeld /\ FlagSet)'
  BY <1>4 DEF PrepareOpen, Running
<1>5. ASSUME NEW b \in BOOLEAN, TxTake(b) PROVE (LockHeld /\ FlagSet)'
  BY <1>5 DEF TxTake
<1>6. ASSUME NEW b \in BOOLEAN, TxPush(b) PROVE (LockHeld /\ FlagSet)'
  BY <1>6 DEF TxPush, Running
<1>7. CASE NotifyTx
  BY <1>7 DEF NotifyTx, AtGuest, Running
<1>8. CASE GuestInterrupt
  BY <1>8 DEF GuestInterrupt, AtGuest, Running
<1>9. CASE GuestSetup
  BY <1>9 DEF GuestSetup, AtGuest, Running
<1>10. CASE Reset
  BY <1>10 DEF Reset, AtGuest, Running, TxBusy
<1>11. CASE SetParams
  BY <1>11 DEF SetParams, Request, AtGuest, Running
<1>12. CASE Unsupported
  BY <1>12 DEF Unsupported, Request, AtGuest, Running
<1>13. CASE Prepare
  BY <1>13 DEF Prepare, Request, AtGuest, Running, TxBusy
<1>14. CASE Release
  BY <1>14 DEF Release, Request, AtGuest, Running
<1>15. CASE StopReturn
  BY <1>15 DEF StopReturn, Running
<1>16. CASE ReleaseFlag
  BY <1>16 DEF ReleaseFlag, Running
<1>17. CASE ReleaseFree
  BY <1>17 DEF ReleaseFree, Running
<1>18. CASE ReleaseClose
  BY <1>18 DEF ReleaseClose, Running, Calls
<1>19. CASE CloseReturn
  BY <1>19 DEF CloseReturn, Running
<1>20. CASE FlushBegin
  BY <1>20 DEF FlushBegin, Running, TxBusy
<1>21. CASE FlushMessage
  BY <1>21 DEF FlushMessage, Running
<1>22. CASE FlushPublish
  BY <1>22 DEF FlushPublish, Running
<1>23. CASE TxWake
  BY <1>23 DEF TxWake
<1>24. CASE TxEnqueue
  BY <1>24 DEF TxEnqueue, Running
<1>25. CASE TxNotify
  BY <1>25 DEF TxNotify, Running
<1>26. CASE TxComplete
  BY <1>26 DEF TxComplete, Running
<1>27. CASE TxPublish
  BY <1>27 DEF TxPublish, Running
<1>28. CASE CbCall
  BY <1>28 DEF CbCall, Running
<1>29. CASE CbDequeue
  BY <1>29 DEF CbDequeue, Running
<1>30. CASE CbPlay
  BY <1>30 DEF CbPlay, Running
<1>31. CASE UNCHANGED vars
  BY <1>31 DEF vars
<1> QED
  BY <1>1, <1>2, <1>3, <1>4, <1>5, <1>6, <1>7, <1>8, <1>9, <1>10, <1>11,
     <1>12, <1>13, <1>14, <1>15, <1>16, <1>17, <1>18, <1>19, <1>20, <1>21,
     <1>22, <1>23, <1>24, <1>25, <1>26, <1>27, <1>28, <1>29, <1>30, <1>31, ZenonT(30) DEF
     Next, EmuStep, TxStep, CbStep, GuestStep

\* Every step keeps what is known of the PortAudio stream and its callback.
LEMMA OpenStep ==
  ASSUME TypeOK, FlagSet, LockHeld, StreamOpen, CallbackOpen, [Next]_vars
  PROVE  (StreamOpen /\ CallbackOpen)'
<1> USE DEF TypeOK, FlagSet, LockHeld, StreamOpen, StreamUsedOpen, CallbackOpen, streamVars, guarded, device, ram, txVars, emVars, guest
<1>1. ASSUME NEW m \in Slot, GuestPost(m) PROVE (StreamOpen /\ CallbackOpen)'
  BY <1>1 DEF GuestPost, AtGuest, Running
<1>2. ASSUME NEW ok \in BOOLEAN, Start(ok) PROVE (StreamOpen /\ CallbackOpen)'
  BY <1>2 DEF Start, Request, AtGuest, Running, Calls
<1>3. ASSUME NEW ok \in BOOLEAN, Stop(ok) PROVE (StreamOpen /\ CallbackOpen)'
  BY <1>3 DEF Stop, Request, AtGuest, Running, Calls
<1>4. ASSUME NEW ok \in BOOLEAN, PrepareOpen(ok) PROVE (StreamOpen /\ CallbackOpen)'
  BY <1>4, Zenon DEF PrepareOpen, Running
<1>5. ASSUME NEW b \in BOOLEAN, TxTake(b) PROVE (StreamOpen /\ CallbackOpen)'
  BY <1>5 DEF TxTake
<1>6. ASSUME NEW b \in BOOLEAN, TxPush(b) PROVE (StreamOpen /\ CallbackOpen)'
  BY <1>6 DEF TxPush, Running
<1>7. CASE NotifyTx
  BY <1>7 DEF NotifyTx, AtGuest, Running
<1>8. CASE GuestInterrupt
  BY <1>8 DEF GuestInterrupt, AtGuest, Running
<1>9. CASE GuestSetup
  BY <1>9 DEF GuestSetup, AtGuest, Running
<1>10. CASE Reset
  BY <1>10 DEF Reset, AtGuest, Running, TxBusy
<1>11. CASE SetParams
  BY <1>11 DEF SetParams, Request, AtGuest, Running
<1>12. CASE Unsupported
  BY <1>12 DEF Unsupported, Request, AtGuest, Running
<1>13. CASE Prepare
  BY <1>13 DEF Prepare, Request, AtGuest, Running, TxBusy
<1>14. CASE Release
  BY <1>14 DEF Release, Request, AtGuest, Running
<1>15. CASE StopReturn
  BY <1>15 DEF StopReturn, Running
<1>16. CASE ReleaseFlag
  BY <1>16 DEF ReleaseFlag, Running
<1>17. CASE ReleaseFree
  BY <1>17 DEF ReleaseFree, Running
<1>18. CASE ReleaseClose
  BY <1>18 DEF ReleaseClose, Running, Calls
<1>19. CASE CloseReturn
  BY <1>19 DEF CloseReturn, Running
<1>20. CASE FlushBegin
  BY <1>20 DEF FlushBegin, Running, TxBusy
<1>21. CASE FlushMessage
  BY <1>21 DEF FlushMessage, Running
<1>22. CASE FlushPublish
  BY <1>22 DEF FlushPublish, Running
<1>23. CASE TxWake
  BY <1>23 DEF TxWake
<1>24. CASE TxEnqueue
  BY <1>24 DEF TxEnqueue, Running
<1>25. CASE TxNotify
  BY <1>25 DEF TxNotify, Running
<1>26. CASE TxComplete
  BY <1>26 DEF TxComplete, Running
<1>27. CASE TxPublish
  BY <1>27 DEF TxPublish, Running
<1>28. CASE CbCall
  BY <1>28 DEF CbCall, Running
<1>29. CASE CbDequeue
  BY <1>29 DEF CbDequeue, Running
<1>30. CASE CbPlay
  BY <1>30 DEF CbPlay, Running
<1>31. CASE UNCHANGED vars
  BY <1>31 DEF vars
<1> QED
  BY <1>1, <1>2, <1>3, <1>4, <1>5, <1>6, <1>7, <1>8, <1>9, <1>10, <1>11,
     <1>12, <1>13, <1>14, <1>15, <1>16, <1>17, <1>18, <1>19, <1>20, <1>21,
     <1>22, <1>23, <1>24, <1>25, <1>26, <1>27, <1>28, <1>29, <1>30, <1>31, ZenonT(60) DEF
     Next, EmuStep, TxStep, CbStep, GuestStep

\* Every step keeps the list within one message.
LEMMA PeriodStep ==
  ASSUME IInv, [Next]_vars
  PROVE  OnePeriod'
<1> USE DEF IInv, TypeOK, LockHeld, FlagSet, CallbackOpen, OnePeriod, streamVars, guarded, device, ram, txVars, emVars, guest
<1>1. ASSUME NEW m \in Slot, GuestPost(m) PROVE OnePeriod'
  BY <1>1, ConstAssumption DEF GuestPost, AtGuest, Running
<1>2. ASSUME NEW ok \in BOOLEAN, Start(ok) PROVE OnePeriod'
  BY <1>2, ConstAssumption DEF Start, Request, AtGuest, Running, Calls
<1>3. ASSUME NEW ok \in BOOLEAN, Stop(ok) PROVE OnePeriod'
  BY <1>3, ConstAssumption DEF Stop, Request, AtGuest, Running, Calls
<1>4. ASSUME NEW ok \in BOOLEAN, PrepareOpen(ok) PROVE OnePeriod'
  BY <1>4, ConstAssumption DEF PrepareOpen, Running
<1>5. ASSUME NEW b \in BOOLEAN, TxTake(b) PROVE OnePeriod'
  BY <1>5, ConstAssumption DEF TxTake
<1>6. ASSUME NEW b \in BOOLEAN, TxPush(b) PROVE OnePeriod'
  BY <1>6, ConstAssumption DEF TxPush, Running
<1>7. CASE NotifyTx
  BY <1>7, ConstAssumption DEF NotifyTx, AtGuest, Running
<1>8. CASE GuestInterrupt
  BY <1>8, ConstAssumption DEF GuestInterrupt, AtGuest, Running
<1>9. CASE GuestSetup
  BY <1>9, ConstAssumption DEF GuestSetup, AtGuest, Running
<1>10. CASE Reset
  BY <1>10, ConstAssumption DEF Reset, AtGuest, Running, TxBusy
<1>11. CASE SetParams
  BY <1>11, ConstAssumption DEF SetParams, Request, AtGuest, Running
<1>12. CASE Unsupported
  BY <1>12, ConstAssumption DEF Unsupported, Request, AtGuest, Running
<1>13. CASE Prepare
  BY <1>13, ConstAssumption, Zenon DEF Prepare, Request, AtGuest, Running, TxBusy
<1>14. CASE Release
  BY <1>14, ConstAssumption DEF Release, Request, AtGuest, Running
<1>15. CASE StopReturn
  BY <1>15, ConstAssumption DEF StopReturn, Running
<1>16. CASE ReleaseFlag
  BY <1>16, ConstAssumption DEF ReleaseFlag, Running
<1>17. CASE ReleaseFree
  BY <1>17, ConstAssumption DEF ReleaseFree, Running
<1>18. CASE ReleaseClose
  BY <1>18, ConstAssumption DEF ReleaseClose, Running, Calls
<1>19. CASE CloseReturn
  BY <1>19, ConstAssumption DEF CloseReturn, Running
<1>20. CASE FlushBegin
  BY <1>20, ConstAssumption DEF FlushBegin, Running, TxBusy
<1>21. CASE FlushMessage
  BY <1>21, ConstAssumption DEF FlushMessage, Running
<1>22. CASE FlushPublish
  BY <1>22, ConstAssumption DEF FlushPublish, Running
<1>23. CASE TxWake
  BY <1>23, ConstAssumption, Zenon DEF TxWake
<1>24. CASE TxEnqueue
  BY <1>24, ConstAssumption DEF TxEnqueue, Running
<1>25. CASE TxNotify
  BY <1>25, ConstAssumption DEF TxNotify, Running
<1>26. CASE TxComplete
  BY <1>26, ConstAssumption DEF TxComplete, Running
<1>27. CASE TxPublish
  BY <1>27, ConstAssumption DEF TxPublish, Running
<1>28. CASE CbCall
  BY <1>28, ConstAssumption DEF CbCall, Running
<1>29. CASE CbDequeue
  BY <1>29, ConstAssumption DEF CbDequeue, Running
<1>30. CASE CbPlay
  BY <1>30, ConstAssumption DEF CbPlay, Running
<1>31. CASE UNCHANGED vars
  BY <1>31 DEF vars
<1> QED
  BY <1>1, <1>2, <1>3, <1>4, <1>5, <1>6, <1>7, <1>8, <1>9, <1>10, <1>11,
     <1>12, <1>13, <1>14, <1>15, <1>16, <1>17, <1>18, <1>19, <1>20, <1>21,
     <1>22, <1>23, <1>24, <1>25, <1>26, <1>27, <1>28, <1>29, <1>30, <1>31, Zenon DEF
     Next, EmuStep, TxStep, CbStep, GuestStep
-----------------------------------------------------------------------------
(* Remainders.                                                             *)

LEMMA DivMod ==
  ASSUME NEW m \in Nat, 0 < m, NEW x \in Int
  PROVE  /\ x \div m \in Int /\ x % m \in 0 .. m - 1
         /\ x = m * (x \div m) + (x % m)
<1>1. x \div m \in Int /\ x % m \in Int
  OBVIOUS
<1>2. 0 <= x % m /\ x % m < m
  OBVIOUS
<1>3. x = m * (x \div m) + (x % m)
  OBVIOUS
<1> QED BY <1>1, <1>2, <1>3

LEMMA Multiple ==
  ASSUME NEW m \in Nat, 0 < m, NEW q \in Int
  PROVE  m * q \in Int /\ (q >= 1 => m * q >= m) /\ (q <= -1 => m * q <= -m)
OBVIOUS

LEMMA Distribute ==
  ASSUME NEW m \in Nat, NEW q \in Int, NEW r \in Int
  PROVE  m * (q + r) = m * q + m * r /\ m * (q - r) = m * q - m * r
OBVIOUS

\* Two numbers with the same remainder are equal or at least m apart.
LEMMA SameMod ==
  ASSUME NEW m \in Nat, 0 < m, NEW x \in Int, NEW y \in Int, x % m = y % m
  PROVE  x = y \/ x - y >= m \/ y - x >= m
<1> DEFINE q == x \div m  r == y \div m
<1>1. x - y = m * q - m * r /\ q \in Int /\ r \in Int /\ m * q \in Int /\ m * r \in Int
  BY DivMod, Multiple
<1> HIDE DEF q, r
<1>2. x - y = m * (q - r)
  BY <1>1, Distribute
<1>3. q = r \/ q - r >= 1 \/ q - r <= -1
  BY <1>1
<1> QED BY <1>1, <1>2, <1>3, Multiple

\* The remainder is the only number below m that is a multiple of m away.
LEMMA ModUnique ==
  ASSUME NEW m \in Nat, 0 < m, NEW x \in Int, NEW q \in Int, NEW r \in 0 .. m - 1,
         x = m * q + r
  PROVE  x % m = r
<1> DEFINE p == x \div m
<1>1. x = m * p + (x % m) /\ p \in Int /\ x % m \in 0 .. m - 1
  BY DivMod
<1> HIDE DEF p
<1>2. m * (p - q) = r - (x % m)
  BY <1>1, Distribute, Multiple
<1>3. p = q \/ p - q >= 1 \/ p - q <= -1
  BY <1>1
<1> QED BY <1>1, <1>2, <1>3, Multiple

\* Adding a multiple of m.
LEMMA AddMod ==
  ASSUME NEW m \in Nat, 0 < m, NEW x \in Int, NEW y \in Int, y % m = 0,
         NEW z \in Int, z = x + y
  PROVE  z % m = x % m
<1> DEFINE p == x \div m  q == y \div m  k == p + q  r == x % m
<1>1. x = m * p + r /\ y = m * q /\ p \in Int /\ q \in Int /\ r \in 0 .. m - 1
  BY DivMod, Multiple
<1> HIDE DEF p, q, r
<1>2. k \in Int /\ z = m * k + r
  BY <1>1, Distribute, Multiple
<1> HIDE DEF k
<1>3. z % m = r
  BY <1>1, <1>2, ModUnique, SMTT(60)
<1> QED BY <1>3 DEF r

-----------------------------------------------------------------------------
(* Ring indices.                                                           *)

LEMMA RingSizes ==
  /\ QNum \in Nat /\ IdxMod \in Nat /\ 0 < QNum /\ QNum < IdxMod
  /\ IdxMod % QNum = 0
BY ConstAssumption

\* Ahead and Inc by cases.
LEMMA AheadIs ==
  ASSUME NEW a \in Index, NEW b \in Index
  PROVE  /\ Ahead(a, b) = IF b <= a THEN a - b ELSE a + IdxMod - b
         /\ Inc(a) = IF a + 1 = IdxMod THEN 0 ELSE a + 1
<1>1. a + IdxMod - b = IdxMod * 1 + (a - b) /\ a + IdxMod - b = IdxMod * 0 + (a + IdxMod - b)
      /\ a + 1 = IdxMod * 0 + (a + 1) /\ (a + 1 = IdxMod => a + 1 = IdxMod * 1 + 0)
  BY RingSizes DEF Index
<1>2. b <= a => Ahead(a, b) = a - b
  BY <1>1, ModUnique, RingSizes DEF Ahead, Index
<1>3. ~ (b <= a) => Ahead(a, b) = a + IdxMod - b
  BY <1>1, ModUnique, RingSizes DEF Ahead, Index
<1>4. a + 1 = IdxMod => Inc(a) = 0
  BY <1>1, ModUnique, RingSizes DEF Inc, Index
<1>5. a + 1 # IdxMod => Inc(a) = a + 1
  BY <1>1, ModUnique, RingSizes DEF Inc, Index
<1> QED BY <1>2, <1>3, <1>4, <1>5

LEMMA AheadType ==
  ASSUME NEW a \in Index, NEW b \in Index
  PROVE  Ahead(a, b) \in Nat /\ Ahead(a, b) < IdxMod /\ (Ahead(a, b) = 0 <=> a = b)
<1> DEFINE d == Ahead(a, b)
<1>1. d = IF b <= a THEN a - b ELSE a + IdxMod - b
  BY AheadIs, Zenon
<1> HIDE DEF d
<1>2. d \in Nat /\ d < IdxMod /\ (d = 0 <=> a = b)
  BY <1>1, RingSizes DEF Index
<1> QED BY <1>2 DEF d

\* What moving either end on does.
LEMMA AheadMoves ==
  ASSUME NEW a \in Index, NEW b \in Index
  PROVE  /\ Ahead(a, b) + 1 < IdxMod => Ahead(Inc(a), b) = Ahead(a, b) + 1
         /\ Ahead(a, b) > 0 => Ahead(a, Inc(b)) = Ahead(a, b) - 1
<1> DEFINE c == Inc(a)  e == Inc(b)
<1>1. c \in Index /\ e \in Index
  BY ModRange
<1>2. /\ c = IF a + 1 = IdxMod THEN 0 ELSE a + 1
      /\ e = IF b + 1 = IdxMod THEN 0 ELSE b + 1
  BY AheadIs, Zenon
<1> HIDE DEF c, e
<1>3. /\ Ahead(a, b) = IF b <= a THEN a - b ELSE a + IdxMod - b
      /\ Ahead(c, b) = IF b <= c THEN c - b ELSE c + IdxMod - b
      /\ Ahead(a, e) = IF e <= a THEN a - e ELSE a + IdxMod - e
  BY <1>1, AheadIs, Zenon
<1>4. /\ Ahead(a, b) + 1 < IdxMod => Ahead(c, b) = Ahead(a, b) + 1
      /\ Ahead(a, b) > 0 => Ahead(a, e) = Ahead(a, b) - 1
  BY <1>2, <1>3, RingSizes DEF Index
<1> QED BY <1>4 DEF c, e

LEMMA AheadBetween ==
  ASSUME NEW a \in Index, NEW b \in Index, NEW c \in Index, Ahead(c, b) <= Ahead(a, b)
  PROVE  Ahead(a, c) = Ahead(a, b) - Ahead(c, b)
BY AheadIs, RingSizes DEF Index

\* The slot of an index, counted from another one.
LEMMA SlotFrom ==
  ASSUME NEW a \in Index, NEW b \in Index, NEW i \in Nat
  PROVE  (a + i) % QNum = (b + (Ahead(a, b) + i)) % QNum
<1> DEFINE x == a + i  z == b + (Ahead(a, b) + i)
<1>1. x \in Int /\ z \in Int /\ (z = x \/ z = x + IdxMod)
  BY AheadIs, RingSizes DEF Index
<1> HIDE DEF x, z
<1>2. IdxMod \in Int /\ QNum \in Nat /\ 0 < QNum /\ IdxMod % QNum = 0
  BY RingSizes
<1>3. z % QNum = x % QNum
  BY <1>1, <1>2, AddMod, Zenon
<1> QED BY <1>3 DEF x, z

LEMMA SlotsDistinct ==
  ASSUME NEW s \in Index, NEW i \in Nat, NEW j \in Nat, i < QNum, j < QNum, i # j
  PROVE  (s + i) % QNum # (s + j) % QNum
<1> DEFINE x == s + i  y == s + j
<1>1. x \in Int /\ y \in Int /\ x # y /\ x - y < QNum /\ y - x < QNum
  BY RingSizes DEF Index
<1> HIDE DEF x, y
<1>2. x % QNum # y % QNum
  BY <1>1, SameMod, RingSizes
<1> QED BY <1>2 DEF x, y

LEMMA SlotType ==
  ASSUME NEW s \in Index, NEW i \in Nat
  PROVE  (s + i) % QNum \in Slot
<1> DEFINE x == s + i
<1>1. x \in Int
  BY DEF Index
<1> HIDE DEF x
<1>2. x % QNum \in 0 .. QNum - 1
  BY <1>1, DivMod, RingSizes
<1> QED BY <1>2 DEF x, Slot

-----------------------------------------------------------------------------
(* The ids of the window.                                                  *)

\* Nothing is under way in empty rings.
LEMMA HoldsNothing ==
  ASSUME NEW s, NEW av, NEW us
  PROVE  Holds(s, 0, 0, av, us, {})
BY RingSizes DEF Holds

\* Counting along a numbering.
LEMMA Count ==
  ASSUME NEW n \in Nat, NEW out, NEW f \in [0 .. n - 1 -> out],
         \A i \in 0 .. n - 1, j \in 0 .. n - 1 : i # j => f[i] # f[j],
         \A m \in out : \E i \in 0 .. n - 1 : f[i] = m
  PROVE  IsFiniteSet(out) /\ Cardinality(out) = n
<1>1. f \in Bijection(0 .. n - 1, out)
  BY Zenon DEF Bijection, Injection, Surjection, IsInjective
<1>2. ExistsBijection(0 .. n - 1, out)
  BY <1>1, Zenon DEF ExistsBijection
<1>3. 0 \in Int /\ n - 1 \in Int
  OBVIOUS
<1>4. /\ IsFiniteSet(0 .. n - 1)
      /\ Cardinality(0 .. n - 1) = IF 0 > n - 1 THEN 0 ELSE n - 1 - 0 + 1
  BY <1>3, FS_Interval, Zenon
<1>5. Cardinality(0 .. n - 1) = n
  BY <1>4
<1> QED BY <1>2, <1>4, <1>5, FS_Bijection, Zenon

\* As many ids as the window is long.
LEMMA HoldsCount ==
  ASSUME NEW s, NEW u, NEW n \in Nat, NEW av, NEW us, NEW out,
         Holds(s, u, n, av, us, out)
  PROVE  IsFiniteSet(out) /\ Cardinality(out) = n
<1> DEFINE f == [i \in 0 .. n - 1 |-> IdAt(s, u, av, us, i)]
<1>1. f \in [0 .. n - 1 -> out]
  BY Zenon DEF Holds
<1>2. \A i \in 0 .. n - 1, j \in 0 .. n - 1 : i # j => f[i] # f[j]
  BY Zenon DEF Holds
<1>3. \A m \in out : \E i \in 0 .. n - 1 : f[i] = m
  BY Zenon DEF Holds
<1> HIDE DEF f
<1> QED BY <1>1, <1>2, <1>3, Count, Zenon

\* A message the guest posts finds room: it is one of QNum, and not in the window.
LEMMA HoldsRoom ==
  ASSUME NEW s, NEW u, NEW n \in Nat, NEW av, NEW us,
         NEW out \in SUBSET Slot, Holds(s, u, n, av, us, out),
         NEW m \in Slot, m \notin out
  PROVE  n < QNum
<1>1. IsFiniteSet(out) /\ Cardinality(out) = n
  BY HoldsCount
<1>2. IsFiniteSet(Slot) /\ Cardinality(Slot) = QNum
  <2>1. 0 \in Int /\ QNum - 1 \in Int
    BY RingSizes
  <2>2. IsFiniteSet(Slot) /\ Cardinality(Slot) = IF 0 > QNum - 1 THEN 0 ELSE QNum - 1 - 0 + 1
    BY <2>1, FS_Interval DEF Slot
  <2> QED BY <2>2, RingSizes
<1>3. Cardinality(out) <= Cardinality(Slot) /\ (Cardinality(out) = Cardinality(Slot) => out = Slot)
  BY <1>2, FS_Subset, Zenon
<1> QED BY <1>1, <1>2, <1>3, RingSizes

\* ... and goes to the end of the window.
LEMMA HoldsPosted ==
  ASSUME NEW s \in Index, NEW u \in Nat, NEW n \in Nat, u <= n,
         NEW av \in [Slot -> Slot], NEW us, NEW out \in SUBSET Slot,
         Holds(s, u, n, av, us, out), NEW m \in Slot, m \notin out,
         NEW bv, bv = [av EXCEPT ![(s + n) % QNum] = m]
  PROVE  Holds(s, u, n + 1, bv, us, out \cup {m})
<1>1. n < QNum
  BY HoldsRoom
<1>2. IdAt(s, u, bv, us, n) = m
  BY SlotType DEF IdAt
<1>3. ASSUME NEW i \in 0 .. n - 1
      PROVE  IdAt(s, u, bv, us, i) = IdAt(s, u, av, us, i)
  <2>1. (s + i) % QNum # (s + n) % QNum
    BY <1>1, SlotsDistinct, RingSizes
  <2>2. (s + i) % QNum \in Slot
    BY SlotType
  <2>3. bv[(s + i) % QNum] = av[(s + i) % QNum]
    BY <2>1, <2>2
  <2> QED BY <2>3, Zenon DEF IdAt
<1>4. \A i \in 0 .. n : i = n \/ i \in 0 .. n - 1
  OBVIOUS
<1>5. (n + 1) - 1 = n /\ n + 1 <= QNum /\ 0 .. n - 1 \subseteq 0 .. n /\ n \in 0 .. n
  BY <1>1, RingSizes
<1>6. \A i \in 0 .. n : IdAt(s, u, bv, us, i) \in out \cup {m}
  BY <1>2, <1>3, <1>4, Zenon DEF Holds
<1>7. \A i \in 0 .. n, j \in 0 .. n : i # j => IdAt(s, u, bv, us, i) # IdAt(s, u, bv, us, j)
  <2> SUFFICES ASSUME NEW i \in 0 .. n, NEW j \in 0 .. n, i # j
               PROVE  IdAt(s, u, bv, us, i) # IdAt(s, u, bv, us, j)
    BY Zenon
  <2>0. ASSUME NEW l \in 0 .. n - 1 PROVE IdAt(s, u, bv, us, l) # m
    <3>1. IdAt(s, u, av, us, l) \in out
      BY Zenon DEF Holds
    <3> QED BY <3>1, <1>3, Zenon
  <2>1. CASE i = n
    BY <2>0, <2>1, <1>2, <1>4, Zenon
  <2>2. CASE j = n
    BY <2>0, <2>2, <1>2, <1>4, Zenon
  <2>3. CASE i # n /\ j # n
    BY <2>3, <1>3, <1>4, Zenon DEF Holds
  <2> QED BY <2>1, <2>2, <2>3, Zenon
<1>8. \A k \in out \cup {m} : \E i \in 0 .. n : IdAt(s, u, bv, us, i) = k
  <2> SUFFICES ASSUME NEW k \in out \cup {m}
               PROVE  \E i \in 0 .. n : IdAt(s, u, bv, us, i) = k
    BY Zenon
  <2>1. CASE k = m
    BY <2>1, <1>2, <1>5, Zenon
  <2>2. CASE k \in out
    BY <2>2, <1>3, <1>5, Zenon DEF Holds
  <2> QED BY <2>1, <2>2, Zenon
<1> QED BY <1>5, <1>6, <1>7, <1>8, Zenon DEF Holds

\* Completing the next message moves it from one ring to the other.
LEMMA HoldsCompleted ==
  ASSUME NEW s \in Index, NEW u \in Nat, NEW n \in Nat, u < n, NEW av,
         NEW us \in [Slot -> Slot], NEW out, Holds(s, u, n, av, us, out),
         NEW vs, vs = [us EXCEPT ![(s + u) % QNum] = av[(s + u) % QNum]]
  PROVE  Holds(s, u + 1, n, av, vs, out)
<1>1. ASSUME NEW i \in 0 .. n - 1
      PROVE  IdAt(s, u + 1, av, vs, i) = IdAt(s, u, av, us, i)
  <2>1. (s + i) % QNum \in Slot /\ n <= QNum
    BY SlotType DEF Holds
  <2>2. CASE i = u
    BY <2>1, <2>2 DEF IdAt
  <2>3. CASE i # u
    <3>1. (s + i) % QNum # (s + u) % QNum
      BY <2>1, <2>3, SlotsDistinct, RingSizes
    <3>2. vs[(s + i) % QNum] = us[(s + i) % QNum]
      BY <3>1, <2>1
    <3>3. i < u + 1 <=> i < u
      BY <2>3
    <3> QED BY <3>2, <3>3, Zenon DEF IdAt
  <2> QED BY <2>2, <2>3
<1> QED BY <1>1, Zenon DEF Holds

\* The first k used elements are k messages of the window; the rest stays.
LEMMA HoldsSeen ==
  ASSUME NEW s \in Index, NEW u \in Nat, NEW n \in Nat, u <= n, NEW av, NEW us, NEW out,
         Holds(s, u, n, av, us, out),
         NEW t \in Index, Ahead(t, s) <= u
  PROVE  TakesUpTo(t, s, u, n, av, us, out)
<1> DEFINE k == Ahead(t, s)
           back == Taken(s, k, us)
<1>0. k = Ahead(t, s) /\ k \in Nat /\ k <= u
  BY AheadType, Zenon
<1> HIDE DEF k
<1>1. \A i \in 0 .. k - 1 : i < u /\ i \in 0 .. n - 1 /\ IdAt(s, u, av, us, i) = us[(s + i) % QNum]
  BY <1>0 DEF IdAt
<1>2. back = {IdAt(s, u, av, us, i) : i \in 0 .. k - 1}
  BY <1>1, Zenon DEF Taken
<1> HIDE DEF back
<1>3. back \subseteq out
  BY <1>1, <1>2, Zenon DEF Holds
<1>4. k <= QNum
  BY <1>0, RingSizes DEF Holds
<1>5. Holds(s, u, k, av, us, back)
  <2>1. \A i \in 0 .. k - 1 : IdAt(s, u, av, us, i) \in back
    BY <1>2, Zenon
  <2>2. \A i \in 0 .. k - 1, j \in 0 .. k - 1 :
          i # j => IdAt(s, u, av, us, i) # IdAt(s, u, av, us, j)
    BY <1>1, Zenon DEF Holds
  <2>3. \A m \in back : \E i \in 0 .. k - 1 : IdAt(s, u, av, us, i) = m
    BY <1>2, Zenon
  <2> QED BY <1>4, <2>1, <2>2, <2>3, Zenon DEF Holds
<1>7. IsFiniteSet(back) /\ Cardinality(back) = k
  BY <1>0, <1>5, HoldsCount
<1>8. ASSUME NEW i \in 0 .. (n - k) - 1
      PROVE  /\ k + i \in 0 .. n - 1 /\ k + i \notin 0 .. k - 1
             /\ IdAt(t, u - k, av, us, i) = IdAt(s, u, av, us, k + i)
  <2>1. (t + i) % QNum = (s + (k + i)) % QNum
    <3>1. i \in Nat
      BY <1>0
    <3> QED BY <1>0, <3>1, SlotFrom, Zenon
  <2>2. i < u - k <=> k + i < u
    BY <1>0
  <2>3. IdAt(t, u - k, av, us, i) = IdAt(s, u, av, us, k + i)
    BY <2>1, <2>2, Zenon DEF IdAt
  <2>4. k + i \in 0 .. n - 1 /\ k + i \notin 0 .. k - 1
    BY <1>0
  <2> QED BY <2>3, <2>4
<1>9. n - k <= QNum
  BY <1>0, RingSizes DEF Holds
<1>10. \A i \in 0 .. (n - k) - 1 : IdAt(t, u - k, av, us, i) \in out \ back
  <2> SUFFICES ASSUME NEW i \in 0 .. (n - k) - 1 PROVE IdAt(s, u, av, us, k + i) \in out \ back
    BY <1>8, Zenon
  <2>1. IdAt(s, u, av, us, k + i) \in out
    BY <1>8, Zenon DEF Holds
  <2>2. ASSUME NEW j \in 0 .. k - 1 PROVE IdAt(s, u, av, us, j) # IdAt(s, u, av, us, k + i)
    <3>1. j # k + i /\ j \in 0 .. n - 1 /\ k + i \in 0 .. n - 1
      BY <1>8, <1>1, Zenon
    <3> QED BY <3>1, Zenon DEF Holds
  <2> QED BY <2>1, <2>2, <1>2, Zenon
<1>11. \A i \in 0 .. (n - k) - 1, j \in 0 .. (n - k) - 1 :
         i # j => IdAt(t, u - k, av, us, i) # IdAt(t, u - k, av, us, j)
  <2> SUFFICES ASSUME NEW i \in 0 .. (n - k) - 1, NEW j \in 0 .. (n - k) - 1, i # j
               PROVE  IdAt(t, u - k, av, us, i) # IdAt(t, u - k, av, us, j)
    BY Zenon
  <2>1. k + i # k + j
    BY <1>0
  <2>2. IdAt(s, u, av, us, k + i) # IdAt(s, u, av, us, k + j)
    BY <2>1, <1>8, Zenon DEF Holds
  <2> QED BY <2>2, <1>8, Zenon
<1>12. \A m \in out \ back : \E i \in 0 .. (n - k) - 1 : IdAt(t, u - k, av, us, i) = m
  <2> SUFFICES ASSUME NEW m \in out \ back
               PROVE  \E i \in 0 .. (n - k) - 1 : IdAt(t, u - k, av, us, i) = m
    BY Zenon
  <2>1. PICK j \in 0 .. n - 1 : IdAt(s, u, av, us, j) = m
    BY Zenon DEF Holds
  <2>2. j \notin 0 .. k - 1
    BY <2>1, <1>2, Zenon
  <2>3. j - k \in 0 .. (n - k) - 1 /\ k + (j - k) = j
    BY <1>0, <2>2
  <2> QED BY <2>1, <2>3, <1>8, Zenon
<1>13. Holds(t, u - k, n - k, av, us, out \ back)
  BY <1>9, <1>10, <1>11, <1>12, Zenon DEF Holds
<1> QED BY <1>3, <1>7, <1>13, Zenon DEF TakesUpTo, back, k

-----------------------------------------------------------------------------
(* Every step keeps the alignment, as long as there is no overlap.         *)

\* The parts of the state the window is made of.
Rings == <<last_avail, availIdx, availRing, usedIdx, usedRing, seen, outstanding, qnum>>

LEMMA WindowTypes ==
  ASSUME TypeOK
  PROVE  /\ seen \in Index /\ last_avail \in Index /\ availIdx \in Index /\ usedIdx \in Index
         /\ txAvail \in Index /\ availRing \in [Slot -> Slot] /\ usedRing \in [Slot -> Slot]
         /\ outstanding \in SUBSET Slot
         /\ Done \in Nat /\ ToDo \in Nat /\ Done + ToDo \in Nat /\ Done <= Done + ToDo
         /\ (ToDo = 0 <=> availIdx = last_avail)
<1>1. /\ seen \in Index /\ last_avail \in Index /\ availIdx \in Index /\ usedIdx \in Index
      /\ txAvail \in Index /\ availRing \in [Slot -> Slot] /\ usedRing \in [Slot -> Slot]
      /\ outstanding \in SUBSET Slot
  BY Zenon DEF TypeOK
<1>2. Done \in Nat /\ ToDo \in Nat /\ (ToDo = 0 <=> availIdx = last_avail)
  BY <1>1, AheadType, Zenon DEF Done, ToDo
<1> QED BY <1>1, <1>2

\* The slots of the two indices, counted from what the guest has seen.
LEMMA WindowSlots ==
  ASSUME TypeOK
  PROVE  /\ last_avail % QNum = (seen + Done) % QNum
         /\ WindowExact => availIdx % QNum = (seen + (Done + ToDo)) % QNum
         /\ WindowExact => Ahead(availIdx, seen) = Done + ToDo
<1>1. /\ seen \in Index /\ last_avail \in Index /\ availIdx \in Index /\ 0 \in Nat
      /\ Done \in Nat /\ ToDo \in Nat
  BY WindowTypes, Zenon
<1>2. (last_avail + 0) % QNum = (seen + (Done + 0)) % QNum
  BY <1>1, SlotFrom, Zenon DEF Done
<1>3. last_avail % QNum = (seen + Done) % QNum
  BY <1>1, <1>2 DEF Index
<1>4. (availIdx + 0) % QNum = (last_avail + (ToDo + 0)) % QNum
  BY <1>1, SlotFrom, Zenon DEF ToDo
<1>5. (last_avail + ToDo) % QNum = (seen + (Done + ToDo)) % QNum
  BY <1>1, SlotFrom, Zenon DEF Done
<1>6. availIdx % QNum = (seen + (Done + ToDo)) % QNum
  BY <1>1, <1>4, <1>5 DEF Index
<1>7. WindowExact => Ahead(availIdx, seen) = Done + ToDo
  <2> SUFFICES ASSUME Done + ToDo <= QNum PROVE Ahead(availIdx, seen) = Done + ToDo
    BY DEF WindowExact, Holds
  <2>1. /\ Done = IF seen <= last_avail THEN last_avail - seen ELSE last_avail + IdxMod - seen
        /\ ToDo = IF last_avail <= availIdx THEN availIdx - last_avail
                  ELSE availIdx + IdxMod - last_avail
        /\ Ahead(availIdx, seen) = IF seen <= availIdx THEN availIdx - seen
                                   ELSE availIdx + IdxMod - seen
    BY <1>1, AheadIs, Zenon DEF Done, ToDo
  <2> QED BY <1>1, <2>1, RingSizes DEF Index
<1> QED BY <1>3, <1>6, <1>7

\* The check on the indices does not misfire.
LEMMA NeverTooMany ==
  ASSUME TypeOK, WindowExact, qnum = QNum
  PROVE  ~TooMany
<1>1. last_avail \in Index /\ availIdx \in Index /\ ToDo <= QNum
  BY WindowTypes, RingSizes DEF WindowExact, Holds
<1>2. ToDo = IF last_avail <= availIdx THEN availIdx - last_avail
             ELSE availIdx + IdxMod - last_avail
  BY <1>1, AheadIs, Zenon DEF ToDo
<1> QED BY <1>1, <1>2, RingSizes DEF TooMany, Index

\* A step that touches no ring and neither begins nor ends a batch.
LEMMA Calm ==
  ASSUME Aligned, UNCHANGED <<Rings, txAvail, txUsed, txMsg, emAvail, emUsed>>,
         tx' = tx \/ (HasMessage /\ HasMessage'),
         emu' = emu \/ {emu, emu'} \cap {"message", "publish"} = {},
         code' = "release" /\ emu' = "guest" /\ failed' = "no" =>
           code = "release" /\ emu = "guest" /\ failed = "no"
  PROVE  Aligned'
<1> SUFFICES ASSUME qnum # 0
             PROVE  /\ WindowExact' /\ UsedTrails' /\ TxAligned' /\ FlushAligned'
                    /\ ReleasedEmpty'
  BY Zenon DEF Aligned, Rings
<1>1. WindowExact /\ UsedTrails /\ TxAligned /\ FlushAligned /\ ReleasedEmpty
  BY Zenon DEF Aligned
<1>2. /\ last_avail' = last_avail /\ availIdx' = availIdx /\ availRing' = availRing
      /\ usedIdx' = usedIdx /\ usedRing' = usedRing /\ seen' = seen
      /\ outstanding' = outstanding
  BY Zenon DEF Rings
<1>3. Done' = Done /\ ToDo' = ToDo
  BY <1>2, Zenon DEF Done, ToDo
<1>4. WindowExact'
  BY <1>1, <1>2, <1>3, Zenon DEF WindowExact
<1>5. UsedTrails'
  BY <1>1, <1>2, <1>3, Zenon DEF UsedTrails, HasMessage
<1>6. TxAligned'
  BY <1>1, <1>2, <1>3 DEF TxAligned, HasMessage
<1>7. FlushAligned'
  BY <1>1, <1>2, <1>3, Zenon DEF FlushAligned
<1>8. ReleasedEmpty'
  BY <1>1, <1>3 DEF ReleasedEmpty, HasMessage
<1> QED BY <1>4, <1>5, <1>6, <1>7, <1>8

\* The next message is completed, by whichever thread.
LEMMA OneCompleted ==
  ASSUME TypeOK, WindowExact, ToDo > 0, last_avail' = Inc(last_avail),
         usedRing' = [usedRing EXCEPT ![last_avail % QNum] = availRing[last_avail % QNum]],
         UNCHANGED <<availIdx, availRing, seen, outstanding>>
  PROVE  WindowExact' /\ Done' = Done + 1 /\ ToDo' = ToDo - 1
<1>1. /\ seen \in Index /\ last_avail \in Index /\ availIdx \in Index
      /\ usedRing \in [Slot -> Slot]
      /\ Done \in Nat /\ ToDo \in Nat /\ Done + ToDo \in Nat
  BY WindowTypes, Zenon
<1>2. Holds(seen, Done, Done + ToDo, availRing, usedRing, outstanding) /\ Done + ToDo <= QNum
  BY Zenon DEF WindowExact, Holds
<1>3. Done + 1 < IdxMod /\ Done < Done + ToDo
  BY <1>1, <1>2, RingSizes
<1>4. Ahead(Inc(last_avail), seen) = Done + 1 /\ Ahead(availIdx, Inc(last_avail)) = ToDo - 1
  BY <1>1, <1>3, AheadMoves, Zenon DEF Done, ToDo
<1>5. Done' = Done + 1 /\ ToDo' = ToDo - 1
  BY <1>4, Zenon DEF Done, ToDo
<1>6. usedRing' = [usedRing EXCEPT ![(seen + Done) % QNum] = availRing[(seen + Done) % QNum]]
  BY WindowSlots, Zenon
<1>7. Holds(seen, Done + 1, Done + ToDo, availRing, usedRing', outstanding)
  BY <1>1, <1>2, <1>3, <1>6, HoldsCompleted, Zenon
<1>8. Done' + ToDo' = Done + ToDo
  BY <1>1, <1>5
<1> QED BY <1>5, <1>7, <1>8, Zenon DEF WindowExact

LEMMA PostAligned ==
  ASSUME TypeOK, Separate, Aligned, NEW m \in Slot, GuestPost(m)
  PROVE  Aligned'
<1>1. /\ qnum # 0 /\ emu = "guest" /\ code # "release" /\ m \notin outstanding
      /\ availRing' = [availRing EXCEPT ![availIdx % QNum] = m]
      /\ availIdx' = Inc(availIdx) /\ outstanding' = outstanding \cup {m}
      /\ last_avail' = last_avail /\ usedIdx' = usedIdx /\ usedRing' = usedRing
      /\ seen' = seen /\ code' = code /\ emu' = emu /\ qnum' = qnum
      /\ tx' = tx /\ txAvail' = txAvail /\ txUsed' = txUsed /\ txMsg' = txMsg
  BY DEF GuestPost, AtGuest, streamVars, device, txVars, emVars
<1>2. WindowExact /\ UsedTrails /\ TxAligned
  BY <1>1, Zenon DEF Aligned
<1>3. /\ seen \in Index /\ last_avail \in Index /\ availIdx \in Index /\ txAvail \in Index
      /\ availRing \in [Slot -> Slot] /\ outstanding \in SUBSET Slot
      /\ Done \in Nat /\ ToDo \in Nat /\ Done + ToDo \in Nat /\ Done <= Done + ToDo
  BY WindowTypes, Zenon
<1>4. Holds(seen, Done, Done + ToDo, availRing, usedRing, outstanding)
  BY <1>2, Zenon DEF WindowExact
<1>5. Done + ToDo < QNum
  BY <1>1, <1>3, <1>4, HoldsRoom, Zenon
<1>6. ToDo + 1 < IdxMod
  BY <1>3, <1>5, RingSizes
<1>7. Done' = Done /\ ToDo' = ToDo + 1
  BY <1>1, <1>3, <1>6, AheadMoves, Zenon DEF Done, ToDo
<1>8. availIdx % QNum = (seen + (Done + ToDo)) % QNum /\ last_avail % QNum = (seen + Done) % QNum
  BY <1>2, WindowSlots, Zenon
<1>9. WindowExact'
  <2>1. Holds(seen, Done, (Done + ToDo) + 1, availRing', usedRing, outstanding \cup {m})
    BY <1>1, <1>3, <1>4, <1>8, HoldsPosted, Zenon
  <2>2. Done' + ToDo' = (Done + ToDo) + 1
    BY <1>3, <1>7
  <2> QED BY <1>1, <1>7, <2>1, <2>2, Zenon DEF WindowExact
<1>10. UsedTrails'
  BY <1>1, <1>2, <1>7, Zenon DEF UsedTrails
<1>11. TxAligned'
  <2>1. HasMessage => availRing'[last_avail % QNum] = availRing[last_avail % QNum]
    <3> SUFFICES ASSUME HasMessage
                 PROVE  availRing'[last_avail % QNum] = availRing[last_avail % QNum]
      BY Zenon
    <3>1. ToDo > 0
      <4>1. Ahead(txAvail, last_avail) \in Nat
        BY <1>3, AheadType, Zenon
      <4>2. 0 < Ahead(txAvail, last_avail) /\ Ahead(txAvail, last_avail) <= ToDo
        BY <1>2, Zenon DEF TxAligned
      <4> QED BY <1>3, <4>1, <4>2
    <3>2. Done < QNum /\ Done # Done + ToDo
      BY <3>1, <1>3, <1>5, RingSizes
    <3>3. (seen + Done) % QNum # (seen + (Done + ToDo)) % QNum
      BY <3>2, <1>3, <1>5, SlotsDistinct, Zenon
    <3>4. (seen + Done) % QNum \in Slot
      BY <1>3, SlotType, Zenon
    <3> QED BY <1>1, <1>3, <1>8, <3>3, <3>4
  <2>2. Ahead(txAvail, last_avail) \in Nat
    BY <1>3, AheadType, Zenon
  <2>3. Ahead(txAvail, last_avail) <= ToDo => Ahead(txAvail, last_avail) <= ToDo + 1
    BY <1>3, <2>2
  <2>4. HasMessage' <=> HasMessage
    BY <1>1, Zenon DEF HasMessage
  <2> QED BY <1>1, <1>2, <1>7, <2>1, <2>3, <2>4, Zenon DEF TxAligned
<1>12. FlushAligned' /\ ReleasedEmpty'
  BY <1>1 DEF FlushAligned, ReleasedEmpty
<1> QED BY <1>9, <1>10, <1>11, <1>12, Zenon DEF Aligned

\* The guest takes what is completed: each message once.
LEMMA InterruptAligned ==
  ASSUME TypeOK, Separate, Aligned, GuestInterrupt
  PROVE  Aligned' /\ wrong' = wrong
<1>1. /\ irq /\ emu = "guest" /\ seen' = usedIdx
      /\ last_avail' = last_avail /\ availIdx' = availIdx /\ availRing' = availRing
      /\ usedIdx' = usedIdx /\ usedRing' = usedRing
      /\ code' = code /\ emu' = emu /\ qnum' = qnum /\ failed' = failed
      /\ tx' = tx /\ txAvail' = txAvail /\ txUsed' = txUsed /\ txMsg' = txMsg
  BY Zenon DEF GuestInterrupt, AtGuest, streamVars, ram, txVars, emVars
<1>2. qnum # 0
  BY <1>1, Zenon DEF Separate
<1>3. WindowExact /\ UsedTrails /\ TxAligned /\ ReleasedEmpty
  BY <1>2, Zenon DEF Aligned
<1>4. /\ seen \in Index /\ last_avail \in Index /\ availIdx \in Index /\ usedIdx \in Index
      /\ Done \in Nat /\ ToDo \in Nat /\ Done + ToDo \in Nat /\ Done <= Done + ToDo
  BY WindowTypes, Zenon
<1> DEFINE n == Ahead(usedIdx, seen)
           back == Taken(seen, n, usedRing)
<1>5. /\ outstanding' = outstanding \ back
      /\ wrong' = IF back \subseteq outstanding /\ Cardinality(back) = n
                  THEN wrong ELSE wrong \cup {"completion"}
  <2> DEFINE ids == [k \in 0 .. n - 1 |-> usedRing[(seen + k) % QNum]]
  <2>1. {ids[k] : k \in 0 .. n - 1} = back
    BY Zenon DEF Taken
  <2>2. /\ outstanding' = outstanding \ {ids[k] : k \in 0 .. n - 1}
        /\ wrong' = IF {ids[k] : k \in 0 .. n - 1} \subseteq outstanding
                         /\ Cardinality({ids[k] : k \in 0 .. n - 1}) = n
                    THEN wrong ELSE wrong \cup {"completion"}
    BY Zenon DEF GuestInterrupt, Ahead
  <2> QED BY <2>1, <2>2, Zenon
<1>6. n \in Nat /\ n <= Done
  BY <1>3, <1>4, AheadType, Zenon DEF UsedTrails
<1>7. Holds(seen, Done, Done + ToDo, availRing, usedRing, outstanding)
  BY <1>3, Zenon DEF WindowExact
<1>8. /\ back \subseteq outstanding /\ Cardinality(back) = n
      /\ Holds(usedIdx, Done - n, (Done + ToDo) - n, availRing, usedRing, outstanding \ back)
  <2>1. /\ seen \in Index /\ usedIdx \in Index /\ Done \in Nat /\ Done + ToDo \in Nat
        /\ Done <= Done + ToDo /\ Ahead(usedIdx, seen) <= Done
    BY <1>4, <1>6, Zenon
  <2>2. TakesUpTo(usedIdx, seen, Done, Done + ToDo, availRing, usedRing, outstanding)
    BY <1>7, <2>1, HoldsSeen, Zenon
  <2> QED BY <2>2, Zenon DEF TakesUpTo
<1>9. wrong' = wrong
  BY <1>5, <1>8, Zenon
<1>10. Done' = Done - n /\ ToDo' = ToDo
  BY <1>1, <1>4, <1>6, AheadBetween, Zenon DEF Done, ToDo
<1>11. Done' + ToDo' = (Done + ToDo) - n
  BY <1>10, <1>4, <1>6
<1>12. WindowExact'
  BY <1>1, <1>5, <1>8, <1>10, <1>11, Zenon DEF WindowExact
<1>13. UsedTrails'
  <2>1. Ahead(usedIdx, usedIdx) = 0
    BY <1>4, AheadType, Zenon
  <2>2. Done' \in Nat
    BY <1>4, <1>6, <1>10
  <2>3. 0 <= Done'
    BY <2>2
  <2> QED BY <1>1, <1>3, <2>1, <2>3, Zenon DEF UsedTrails
<1>14. TxAligned' /\ FlushAligned' /\ ReleasedEmpty'
  BY <1>1, <1>3, <1>10 DEF TxAligned, HasMessage, FlushAligned, ReleasedEmpty
<1> QED BY <1>9, <1>12, <1>13, <1>14, Zenon DEF Aligned

LEMMA SetupAligned ==
  ASSUME TypeOK, Separate, GuestSetup
  PROVE  Aligned'
<1>1. /\ last_avail' = 0 /\ availIdx' = 0 /\ usedIdx' = 0 /\ seen' = 0 /\ outstanding' = {}
      /\ tx' = "idle" /\ emu' = "guest"
  BY DEF GuestSetup, AtGuest, Separate, txVars, emVars
<1>2. Ahead(0, 0) = 0
  BY ModRange, AheadType, Zenon
<1>3. Done' = 0 /\ ToDo' = 0
  BY <1>1, <1>2, Zenon DEF Done, ToDo
<1>4. WindowExact'
  <2>1. Done' + ToDo' = 0
    BY <1>3
  <2> QED BY <1>1, <1>3, <2>1, HoldsNothing, Zenon DEF WindowExact
<1>5. UsedTrails' /\ TxAligned' /\ FlushAligned' /\ ReleasedEmpty'
  BY <1>1, <1>2, <1>3 DEF UsedTrails, TxAligned, HasMessage, FlushAligned, ReleasedEmpty
<1> QED BY <1>4, <1>5, Zenon DEF Aligned

\* What a batch that begins or is published leaves alone.
LEMMA SameWindow ==
  ASSUME UNCHANGED <<last_avail, availIdx, availRing, usedRing, seen, outstanding>>, WindowExact
  PROVE  WindowExact' /\ Done' = Done /\ ToDo' = ToDo
<1>1. Done' = Done /\ ToDo' = ToDo
  BY Zenon DEF Done, ToDo
<1> QED BY <1>1, Zenon DEF WindowExact

LEMMA FlushBeginAligned ==
  ASSUME TypeOK, Separate, Aligned, FlushBegin, ~overlap'
  PROVE  Aligned'
<1>1. /\ emu = "flush" /\ tx = "idle" /\ qnum # 0
      /\ UNCHANGED <<last_avail, availIdx, availRing, usedRing, seen, outstanding>>
      /\ usedIdx' = usedIdx /\ tx' = tx /\ code' = code
  BY Zenon DEF FlushBegin, TxBusy, Separate, streamVars, ram, txVars, guest
<1>2. WindowExact /\ UsedTrails /\ ~TooMany
  BY <1>1, NeverTooMany, Zenon DEF Aligned, TypeOK
<1>3. WindowExact' /\ Done' = Done /\ ToDo' = ToDo
  BY <1>1, <1>2, SameWindow, Zenon
<1>4. ToDo \in Nat /\ (ToDo = 0 <=> availIdx = last_avail) /\ usedIdx = last_avail
  BY <1>1, <1>2, WindowTypes, Zenon DEF UsedTrails
<1>5. UsedTrails'
  BY <1>1, <1>2, <1>3, <1>4, Zenon DEF UsedTrails
<1>6. TxAligned'
  BY <1>1 DEF TxAligned, HasMessage
<1>7. CASE failed # "no" \/ TooMany \/ last_avail = availIdx
  <2>1. emu' = "guest" /\ (failed' = "no" => ToDo' = 0)
    BY <1>2, <1>3, <1>4, <1>7, Zenon DEF FlushBegin
  <2>2. FlushAligned' /\ ReleasedEmpty'
    BY <1>1, <2>1 DEF FlushAligned, ReleasedEmpty
  <2> QED BY <1>3, <1>5, <1>6, <2>2, Zenon DEF Aligned
<1>8. CASE ~(failed # "no" \/ TooMany \/ last_avail = availIdx)
  <2>1. emu' = "message" /\ emAvail' = availIdx /\ emUsed' = usedIdx
    BY <1>8, Zenon DEF FlushBegin
  <2>2. ToDo > 0
    BY <1>4, <1>8
  <2>3. FlushAligned' /\ ReleasedEmpty'
    BY <1>1, <1>3, <1>4, <2>1, <2>2 DEF FlushAligned, ReleasedEmpty
  <2> QED BY <1>3, <1>5, <1>6, <2>3, Zenon DEF Aligned
<1> QED BY <1>7, <1>8, Zenon

LEMMA FlushMessageAligned ==
  ASSUME TypeOK, Separate, Aligned, FlushMessage
  PROVE  Aligned'
<1>1. /\ emu = "message" /\ tx = "idle" /\ qnum # 0
      /\ usedRing' = [usedRing EXCEPT ![emUsed % QNum] = availRing[last_avail % QNum]]
      /\ emUsed' = Inc(emUsed) /\ last_avail' = Inc(last_avail)
      /\ emu' = IF Inc(last_avail) = emAvail THEN "publish" ELSE "message"
      /\ UNCHANGED <<availIdx, availRing, seen, outstanding>>
      /\ usedIdx' = usedIdx /\ tx' = tx /\ emAvail' = emAvail
  BY Zenon DEF FlushMessage, Separate, txVars, guest
<1>2. WindowExact /\ UsedTrails /\ emUsed = last_avail /\ emAvail = availIdx /\ ToDo > 0
  BY <1>1, Zenon DEF Aligned, FlushAligned
<1>3. WindowExact' /\ Done' = Done + 1 /\ ToDo' = ToDo - 1
  BY <1>1, <1>2, OneCompleted, Zenon
<1>4. /\ Done \in Nat /\ ToDo \in Nat /\ seen \in Index /\ usedIdx \in Index
      /\ availIdx \in Index /\ Inc(last_avail) \in Index
  BY WindowTypes, ModRange, Zenon
<1>5. ToDo' = 0 <=> availIdx = Inc(last_avail)
  BY <1>1, <1>4, AheadType, Zenon DEF ToDo
<1>6. emu' \in {"message", "publish"} /\ (emu' = "publish" <=> ToDo' = 0)
  BY <1>1, <1>2, <1>5
<1>7. UsedTrails'
  <2>1. Ahead(usedIdx, seen) \in Nat /\ Ahead(usedIdx, seen) <= Done
    BY <1>2, <1>4, AheadType, Zenon DEF UsedTrails
  <2>2. Ahead(usedIdx, seen) <= Done'
    BY <1>3, <1>4, <2>1
  <2> QED BY <1>1, <1>6, <2>2, Zenon DEF UsedTrails
<1>8. FlushAligned'
  <2>1. ToDo' # 0 => ToDo' > 0
    BY <1>2, <1>3, <1>4
  <2> QED BY <1>1, <1>2, <1>6, <2>1 DEF FlushAligned
<1>9. TxAligned' /\ ReleasedEmpty'
  BY <1>1, <1>6 DEF TxAligned, HasMessage, ReleasedEmpty
<1> QED BY <1>3, <1>7, <1>8, <1>9, Zenon DEF Aligned

LEMMA FlushPublishAligned ==
  ASSUME TypeOK, Separate, Aligned, FlushPublish
  PROVE  Aligned'
<1>1. /\ emu = "publish" /\ emu' = "guest" /\ tx = "idle" /\ qnum # 0 /\ usedIdx' = emUsed
      /\ UNCHANGED <<last_avail, availIdx, availRing, usedRing, seen, outstanding>>
      /\ tx' = tx
  BY Zenon DEF FlushPublish, Separate, txVars, guest
<1>2. WindowExact /\ emUsed = last_avail /\ ToDo = 0
  BY <1>1, Zenon DEF Aligned, FlushAligned
<1>3. WindowExact' /\ Done' = Done /\ ToDo' = ToDo
  BY <1>1, <1>2, SameWindow, Zenon
<1>4. Done \in Nat
  BY WindowTypes, Zenon
<1>5. UsedTrails'
  BY <1>1, <1>2, <1>3, <1>4 DEF UsedTrails, Done
<1>6. TxAligned' /\ FlushAligned' /\ ReleasedEmpty'
  BY <1>1, <1>2, <1>3 DEF TxAligned, HasMessage, FlushAligned, ReleasedEmpty
<1> QED BY <1>3, <1>5, <1>6, Zenon DEF Aligned

LEMMA TxWakeAligned ==
  ASSUME TypeOK, Separate, Aligned, TxWake, ~overlap'
  PROVE  Aligned'
<1>1. /\ tx = "idle" /\ qnum # 0 /\ emu \notin {"prepare", "message", "publish"}
      /\ UNCHANGED <<last_avail, availIdx, availRing, usedRing, seen, outstanding>>
      /\ usedIdx' = usedIdx /\ code' = code /\ emu' = emu
  <2>1. tx_ev # 0
    BY DEF TxWake
  <2> QED BY <2>1, Zenon DEF TxWake, Separate, streamVars, ram, emVars, guest
<1>2. WindowExact /\ UsedTrails /\ ReleasedEmpty /\ ~TooMany
  BY <1>1, NeverTooMany, Zenon DEF Aligned, TypeOK
<1>3. WindowExact' /\ Done' = Done /\ ToDo' = ToDo
  BY <1>1, <1>2, SameWindow, Zenon
<1>4. /\ ToDo \in Nat /\ (ToDo = 0 <=> availIdx = last_avail) /\ usedIdx = last_avail
  BY <1>1, <1>2, WindowTypes, Zenon DEF UsedTrails
<1>5. UsedTrails' /\ FlushAligned'
  BY <1>1, <1>2, <1>3, <1>4, Zenon DEF UsedTrails, FlushAligned
<1>6. failed' = failed
  BY <1>1, <1>2, Zenon DEF TxWake
<1>7. CASE failed # "no" \/ qnum = 0 \/ TooMany \/ last_avail = availIdx
  <2>1. tx' = "idle"
    BY <1>1, <1>7, Zenon DEF TxWake
  <2>2. TxAligned' /\ ReleasedEmpty'
    BY <1>1, <1>2, <1>3, <1>6, <2>1 DEF TxAligned, HasMessage, ReleasedEmpty
  <2> QED BY <1>3, <1>5, <2>2, Zenon DEF Aligned
<1>8. CASE ~(failed # "no" \/ qnum = 0 \/ TooMany \/ last_avail = availIdx)
  <2>1. tx' = "take" /\ txAvail' = availIdx /\ txUsed' = usedIdx
    BY <1>8, Zenon DEF TxWake
  <2>2. ToDo > 0
    BY <1>4, <1>8
  <2>3. TxAligned'
    <3>1. Ahead(txAvail', last_avail') = ToDo
      BY <1>1, <2>1, Zenon DEF ToDo
    <3> QED BY <1>1, <1>3, <1>4, <2>1, <2>2, <3>1 DEF TxAligned, HasMessage
  <2>4. ReleasedEmpty'
    BY <1>1, <1>2, <1>4, <1>6, <1>8 DEF ReleasedEmpty
  <2> QED BY <1>3, <1>5, <2>3, <2>4, Zenon DEF Aligned
<1> QED BY <1>7, <1>8, Zenon

LEMMA TxTakeAligned ==
  ASSUME TypeOK, Separate, Aligned, NEW b \in BOOLEAN, TxTake(b)
  PROVE  Aligned'
<1>1. tx = "take" /\ qnum # 0 /\ qnum = QNum
  BY DEF TxTake, Separate, TypeOK
<1>2. /\ txMsg' = availRing[last_avail % QNum] /\ tx' \in {"enqueue", "complete"}
      /\ UNCHANGED <<last_avail, availIdx, availRing, usedRing, seen, outstanding>>
      /\ usedIdx' = usedIdx /\ code' = code /\ emu' = emu /\ failed' = failed
      /\ txAvail' = txAvail /\ txUsed' = txUsed
  BY <1>1, Zenon DEF TxTake, streamVars, device, ram, emVars
<1>3. WindowExact /\ UsedTrails /\ TxAligned /\ ReleasedEmpty
  BY <1>1, Zenon DEF Aligned
<1>4. WindowExact' /\ Done' = Done /\ ToDo' = ToDo
  BY <1>2, <1>3, SameWindow, Zenon
<1>5. emu \notin {"message", "publish"}
  BY <1>1 DEF Separate
<1>6. UsedTrails' /\ FlushAligned' /\ ReleasedEmpty'
  BY <1>1, <1>2, <1>3, <1>4, <1>5 DEF UsedTrails, FlushAligned, ReleasedEmpty
<1>7. TxAligned'
  BY <1>1, <1>2, <1>3, <1>4 DEF TxAligned, HasMessage
<1> QED BY <1>4, <1>6, <1>7, Zenon DEF Aligned

LEMMA TxCompleteAligned ==
  ASSUME TypeOK, Separate, Aligned, TxComplete
  PROVE  Aligned'
<1>1. tx = "complete" /\ qnum # 0 /\ qnum = QNum
  BY ZenonT(30) DEF TxComplete, Separate, TypeOK
<1>2. /\ usedRing' = [usedRing EXCEPT ![txUsed % QNum] = txMsg]
      /\ txUsed' = Inc(txUsed) /\ last_avail' = Inc(last_avail)
      /\ tx' = IF Inc(last_avail) = txAvail THEN "publish" ELSE "take"
      /\ UNCHANGED <<availIdx, availRing, seen, outstanding>>
      /\ usedIdx' = usedIdx /\ code' = code /\ emu' = emu /\ failed' = failed
      /\ txAvail' = txAvail
  BY <1>1, Zenon DEF TxComplete, streamVars, device, emVars, guest
<1>3. WindowExact /\ UsedTrails /\ TxAligned /\ ReleasedEmpty
  BY <1>1, Zenon DEF Aligned
<1>4. /\ txUsed = last_avail /\ txMsg = availRing[last_avail % QNum]
      /\ 0 < Ahead(txAvail, last_avail) /\ Ahead(txAvail, last_avail) <= ToDo
  BY <1>1, <1>3 DEF TxAligned, HasMessage
<1>5. /\ Done \in Nat /\ ToDo \in Nat /\ seen \in Index /\ usedIdx \in Index
      /\ last_avail \in Index /\ txAvail \in Index /\ Inc(last_avail) \in Index
  BY WindowTypes, ModRange, Zenon
<1>6. Ahead(txAvail, last_avail) \in Nat /\ Ahead(usedIdx, seen) \in Nat
  BY <1>5, AheadType, Zenon
<1>7. ToDo > 0
  BY <1>4, <1>5, <1>6
<1>8. WindowExact' /\ Done' = Done + 1 /\ ToDo' = ToDo - 1
  BY <1>2, <1>3, <1>4, <1>7, OneCompleted, Zenon
<1>9. emu \notin {"message", "publish"}
  BY <1>1 DEF Separate
<1>10. Ahead(txAvail, Inc(last_avail)) = Ahead(txAvail, last_avail) - 1
  <2>1. Ahead(txAvail, last_avail) > 0
    BY <1>4, <1>6
  <2> QED BY <1>5, <2>1, AheadMoves, Zenon
<1>11. Ahead(txAvail, Inc(last_avail)) = 0 <=> txAvail = Inc(last_avail)
  BY <1>5, AheadType, Zenon
<1>12. UsedTrails'
  <2>1. Ahead(usedIdx, seen) <= Done + 1
    BY <1>3, <1>5, <1>6 DEF UsedTrails
  <2>2. tx' # "idle"
    BY <1>2
  <2> QED BY <1>2, <1>8, <2>1, <2>2, Zenon DEF UsedTrails
<1>13. TxAligned'
  <2>1. tx' = "take" => 0 < Ahead(txAvail', last_avail') /\ Ahead(txAvail', last_avail') <= ToDo'
    BY <1>2, <1>4, <1>5, <1>6, <1>8, <1>10, <1>11
  <2>2. txUsed' = last_avail' /\ tx' \in {"take", "publish"}
    BY <1>2, <1>4
  <2> QED BY <2>1, <2>2 DEF TxAligned, HasMessage
<1>14. FlushAligned' /\ ReleasedEmpty'
  BY <1>1, <1>2, <1>3, <1>9 DEF FlushAligned, ReleasedEmpty
<1> QED BY <1>8, <1>12, <1>13, <1>14, Zenon DEF Aligned

LEMMA TxPublishAligned ==
  ASSUME TypeOK, Separate, Aligned, TxPublish
  PROVE  Aligned'
<1>1. /\ tx = "publish" /\ tx' = "idle" /\ qnum # 0 /\ usedIdx' = txUsed
      /\ UNCHANGED <<last_avail, availIdx, availRing, usedRing, seen, outstanding>>
      /\ code' = code /\ emu' = emu /\ failed' = failed
  BY DEF TxPublish, Separate, streamVars, emVars
<1>2. WindowExact /\ txUsed = last_avail /\ ReleasedEmpty
  BY <1>1 DEF Aligned, TxAligned
<1>3. WindowExact' /\ Done' = Done /\ ToDo' = ToDo
  BY <1>1, <1>2, SameWindow, Zenon
<1>4. Done \in Nat
  BY WindowTypes, Zenon
<1>5. emu \notin {"message", "publish"}
  BY <1>1 DEF Separate
<1>6. UsedTrails'
  BY <1>1, <1>2, <1>3, <1>4 DEF UsedTrails, Done
<1>7. TxAligned' /\ FlushAligned' /\ ReleasedEmpty'
  BY <1>1, <1>2, <1>5 DEF TxAligned, HasMessage, FlushAligned, ReleasedEmpty
<1> QED BY <1>3, <1>6, <1>7, Zenon DEF Aligned

\* An overlap is remembered.
LEMMA OverlapStays ==
  ASSUME overlap, [Next]_vars
  PROVE  overlap'
<1>1. ASSUME NEW m \in Slot, GuestPost(m) PROVE overlap'
  BY <1>1, Zenon DEF GuestPost
<1>2. ASSUME NEW ok \in BOOLEAN, Start(ok) PROVE overlap'
  BY <1>2, Zenon DEF Start
<1>3. ASSUME NEW ok \in BOOLEAN, Stop(ok) PROVE overlap'
  BY <1>3, Zenon DEF Stop
<1>4. ASSUME NEW ok \in BOOLEAN, PrepareOpen(ok) PROVE overlap'
  BY <1>4, Zenon DEF PrepareOpen
<1>5. ASSUME NEW b \in BOOLEAN, TxTake(b) PROVE overlap'
  BY <1>5, Zenon DEF TxTake
<1>6. ASSUME NEW b \in BOOLEAN, TxPush(b) PROVE overlap'
  BY <1>6, Zenon DEF TxPush
<1>7. CASE NotifyTx
  BY <1>7, Zenon DEF NotifyTx
<1>8. CASE GuestInterrupt
  BY <1>8, Zenon DEF GuestInterrupt
<1>9. CASE GuestSetup
  BY <1>9, Zenon DEF GuestSetup
<1>10. CASE Reset
  BY <1>10, Zenon DEF Reset
<1>11. CASE SetParams
  BY <1>11, Zenon DEF SetParams
<1>12. CASE Unsupported
  BY <1>12, Zenon DEF Unsupported
<1>13. CASE Prepare
  BY <1>13, Zenon DEF Prepare
<1>14. CASE Release
  BY <1>14, Zenon DEF Release
<1>15. CASE StopReturn
  BY <1>15, Zenon DEF StopReturn
<1>16. CASE ReleaseFlag
  BY <1>16, Zenon DEF ReleaseFlag
<1>17. CASE ReleaseFree
  BY <1>17, Zenon DEF ReleaseFree
<1>18. CASE ReleaseClose
  BY <1>18, Zenon DEF ReleaseClose
<1>19. CASE CloseReturn
  BY <1>19, Zenon DEF CloseReturn
<1>20. CASE FlushBegin
  BY <1>20, Zenon DEF FlushBegin
<1>21. CASE FlushMessage
  BY <1>21, Zenon DEF FlushMessage
<1>22. CASE FlushPublish
  BY <1>22, Zenon DEF FlushPublish
<1>23. CASE TxWake
  BY <1>23, Zenon DEF TxWake
<1>24. CASE TxEnqueue
  BY <1>24, Zenon DEF TxEnqueue
<1>25. CASE TxNotify
  BY <1>25, Zenon DEF TxNotify
<1>26. CASE TxComplete
  BY <1>26, Zenon DEF TxComplete
<1>27. CASE TxPublish
  BY <1>27, Zenon DEF TxPublish
<1>28. CASE CbCall
  BY <1>28, Zenon DEF CbCall
<1>29. CASE CbDequeue
  BY <1>29, Zenon DEF CbDequeue
<1>30. CASE CbPlay
  BY <1>30, Zenon DEF CbPlay
<1>31. CASE UNCHANGED vars
  BY <1>31, Zenon DEF vars
<1> QED
  BY <1>1, <1>2, <1>3, <1>4, <1>5, <1>6, <1>7, <1>8, <1>9, <1>10, <1>11,
     <1>12, <1>13, <1>14, <1>15, <1>16, <1>17, <1>18, <1>19, <1>20, <1>21,
     <1>22, <1>23, <1>24, <1>25, <1>26, <1>27, <1>28, <1>29, <1>30, <1>31, Zenon DEF
     Next, EmuStep, TxStep, CbStep, GuestStep

\* A flush or PREPARE and TX work stay apart.
LEMMA SeparateStep ==
  ASSUME TypeOK, Separate, [Next]_vars, ~overlap', qnum # 0 => ~TooMany,
         GuestInterrupt => wrong' = wrong
  PROVE  Separate'
<1> USE DEF Separate, TypeOK, streamVars, guarded, device, txVars, emVars
<1>1. ASSUME NEW m \in Slot, GuestPost(m) PROVE Separate'
  BY <1>1, ZenonT(30) DEF GuestPost, AtGuest
<1>2. ASSUME NEW ok \in BOOLEAN, Start(ok) PROVE Separate'
  BY <1>2, ZenonT(30) DEF Start, Request, AtGuest, Calls
<1>3. ASSUME NEW ok \in BOOLEAN, Stop(ok) PROVE Separate'
  BY <1>3, ZenonT(30) DEF Stop, Request, AtGuest, Calls
<1>4. ASSUME NEW ok \in BOOLEAN, PrepareOpen(ok) PROVE Separate'
  BY <1>4, ZenonT(30) DEF PrepareOpen
<1>5. ASSUME NEW b \in BOOLEAN, TxTake(b) PROVE Separate'
  BY <1>5, ZenonT(30) DEF TxTake
<1>6. ASSUME NEW b \in BOOLEAN, TxPush(b) PROVE Separate'
  BY <1>6, ZenonT(30) DEF TxPush
<1>7. CASE NotifyTx
  BY <1>7, ZenonT(30) DEF NotifyTx, AtGuest
<1>8. CASE GuestInterrupt
  BY <1>8, Zenon DEF GuestInterrupt, AtGuest
<1>9. CASE GuestSetup
  BY <1>9, ZenonT(30) DEF GuestSetup, AtGuest
<1>10. CASE Reset
  <2>1. tx = "idle" /\ ~(tx_ev > 0)
    BY <1>10, Zenon DEF Reset, TxBusy
  <2>2. /\ emu' = "guest" /\ irq' = FALSE /\ failed' = "no" /\ tx' = tx /\ tx_ev' = tx_ev
        /\ wrong' = wrong
    BY <1>10, Zenon DEF Reset, AtGuest
  <2> QED BY <2>1, <2>2
<1>11. CASE SetParams
  BY <1>11, ZenonT(30) DEF SetParams, Request, AtGuest
<1>12. CASE Unsupported
  BY <1>12, ZenonT(30) DEF Unsupported, Request, AtGuest
<1>13. CASE Prepare
  BY <1>13, Zenon DEF Prepare, Request, AtGuest, TxBusy
<1>14. CASE Release
  BY <1>14, ZenonT(30) DEF Release, Request, AtGuest
<1>15. CASE StopReturn
  BY <1>15, ZenonT(30) DEF StopReturn
<1>16. CASE ReleaseFlag
  BY <1>16, ZenonT(30) DEF ReleaseFlag
<1>17. CASE ReleaseFree
  BY <1>17, ZenonT(30) DEF ReleaseFree
<1>18. CASE ReleaseClose
  BY <1>18, ZenonT(30) DEF ReleaseClose, Calls
<1>19. CASE CloseReturn
  BY <1>19, ZenonT(30) DEF CloseReturn
<1>20. CASE FlushBegin
  BY <1>20, Zenon DEF FlushBegin, TxBusy
<1>21. CASE FlushMessage
  BY <1>21, ZenonT(30) DEF FlushMessage
<1>22. CASE FlushPublish
  BY <1>22, ZenonT(30) DEF FlushPublish
<1>23. CASE TxWake
  <2>1. qnum # 0 /\ ~TooMany /\ emu \notin {"prepare", "message", "publish"}
    <3>1. tx_ev # 0
      BY <1>23, SMTT(60) DEF TxWake
    <3> QED BY <1>23, <3>1, Zenon DEF TxWake
  <2>2. /\ emu' = emu /\ qnum' = qnum /\ failed' = failed /\ tx' \in {"idle", "take"}
        /\ wrong' = wrong
    BY <1>23, <2>1, Zenon DEF TxWake
  <2> QED BY <2>1, <2>2, ZenonT(30)
<1>24. CASE TxEnqueue
  BY <1>24, ZenonT(30) DEF TxEnqueue
<1>25. CASE TxNotify
  BY <1>25, ZenonT(30) DEF TxNotify
<1>26. CASE TxComplete
  BY <1>26, ZenonT(30) DEF TxComplete
<1>27. CASE TxPublish
  BY <1>27, ZenonT(30) DEF TxPublish
<1>28. CASE CbCall
  BY <1>28, ZenonT(30) DEF CbCall
<1>29. CASE CbDequeue
  BY <1>29, ZenonT(30) DEF CbDequeue
<1>30. CASE CbPlay
  BY <1>30, ZenonT(30) DEF CbPlay
<1>31. CASE UNCHANGED vars
  BY <1>31, ZenonT(30) DEF vars
<1> QED
  BY <1>1, <1>2, <1>3, <1>4, <1>5, <1>6, <1>7, <1>8, <1>9, <1>10, <1>11,
     <1>12, <1>13, <1>14, <1>15, <1>16, <1>17, <1>18, <1>19, <1>20, <1>21,
     <1>22, <1>23, <1>24, <1>25, <1>26, <1>27, <1>28, <1>29, <1>30, <1>31, Zenon DEF
     Next, EmuStep, TxStep, CbStep, GuestStep

\* No step breaks the alignment.
LEMMA AlignedStep ==
  ASSUME TypeOK, CallbackOpen, Separate, Aligned, [Next]_vars, ~overlap'
  PROVE  Aligned'
<1> USE DEF Rings, HasMessage, streamVars, guarded, device, ram, txVars, emVars, guest
<1>1. ASSUME NEW m \in Slot, GuestPost(m) PROVE Aligned'
  BY <1>1, PostAligned, Zenon
<1>2. ASSUME NEW ok \in BOOLEAN, Start(ok) PROVE Aligned'
  <2>1. /\ UNCHANGED <<Rings, txAvail, txUsed, txMsg, emAvail, emUsed>>
        /\ tx' = tx \/ (HasMessage /\ HasMessage')
        /\ emu' = emu \/ {emu, emu'} \cap {"message", "publish"} = {}
        /\ code' = "release" /\ emu' = "guest" /\ failed' = "no" =>
             code = "release" /\ emu = "guest" /\ failed = "no"
    BY <1>2, ZenonT(30) DEF Start, Request, AtGuest, CallbackOpen
  <2> QED BY <2>1, Calm, Zenon
<1>3. ASSUME NEW ok \in BOOLEAN, Stop(ok) PROVE Aligned'
  <2>1. /\ UNCHANGED <<Rings, txAvail, txUsed, txMsg, emAvail, emUsed>>
        /\ tx' = tx \/ (HasMessage /\ HasMessage')
        /\ emu' = emu \/ {emu, emu'} \cap {"message", "publish"} = {}
        /\ code' = "release" /\ emu' = "guest" /\ failed' = "no" =>
             code = "release" /\ emu = "guest" /\ failed = "no"
    BY <1>3, ZenonT(30) DEF Stop, Request, AtGuest, CallbackOpen
  <2> QED BY <2>1, Calm, Zenon
<1>4. ASSUME NEW ok \in BOOLEAN, PrepareOpen(ok) PROVE Aligned'
  <2>1. /\ UNCHANGED <<Rings, txAvail, txUsed, txMsg, emAvail, emUsed>>
        /\ tx' = tx \/ (HasMessage /\ HasMessage')
        /\ emu' = emu \/ {emu, emu'} \cap {"message", "publish"} = {}
        /\ code' = "release" /\ emu' = "guest" /\ failed' = "no" =>
             code = "release" /\ emu = "guest" /\ failed = "no"
    BY <1>4, ZenonT(30) DEF PrepareOpen, CallbackOpen
  <2> QED BY <2>1, Calm, Zenon
<1>5. ASSUME NEW b \in BOOLEAN, TxTake(b) PROVE Aligned'
  BY <1>5, TxTakeAligned, Zenon
<1>6. ASSUME NEW b \in BOOLEAN, TxPush(b) PROVE Aligned'
  <2>1. /\ UNCHANGED <<Rings, txAvail, txUsed, txMsg, emAvail, emUsed>>
        /\ tx' = tx \/ (HasMessage /\ HasMessage')
        /\ emu' = emu \/ {emu, emu'} \cap {"message", "publish"} = {}
        /\ code' = "release" /\ emu' = "guest" /\ failed' = "no" =>
             code = "release" /\ emu = "guest" /\ failed = "no"
    BY <1>6, ZenonT(30) DEF TxPush, CallbackOpen
  <2> QED BY <2>1, Calm, Zenon
<1>7. CASE NotifyTx
  <2>1. /\ UNCHANGED <<Rings, txAvail, txUsed, txMsg, emAvail, emUsed>>
        /\ tx' = tx \/ (HasMessage /\ HasMessage')
        /\ emu' = emu \/ {emu, emu'} \cap {"message", "publish"} = {}
        /\ code' = "release" /\ emu' = "guest" /\ failed' = "no" =>
             code = "release" /\ emu = "guest" /\ failed = "no"
    BY <1>7, ZenonT(30) DEF NotifyTx, CallbackOpen
  <2> QED BY <2>1, Calm, Zenon
<1>8. CASE GuestInterrupt
  BY <1>8, InterruptAligned, Zenon
<1>9. CASE GuestSetup
  BY <1>9, SetupAligned, Zenon
<1>10. CASE Reset
  BY <1>10 DEF Reset, Aligned
<1>11. CASE SetParams
  <2>1. /\ UNCHANGED <<Rings, txAvail, txUsed, txMsg, emAvail, emUsed>>
        /\ tx' = tx \/ (HasMessage /\ HasMessage')
        /\ emu' = emu \/ {emu, emu'} \cap {"message", "publish"} = {}
        /\ code' = "release" /\ emu' = "guest" /\ failed' = "no" =>
             code = "release" /\ emu = "guest" /\ failed = "no"
    BY <1>11, ZenonT(30) DEF SetParams, Request, AtGuest, CallbackOpen
  <2> QED BY <2>1, Calm, Zenon
<1>12. CASE Unsupported
  <2>1. /\ UNCHANGED <<Rings, txAvail, txUsed, txMsg, emAvail, emUsed>>
        /\ tx' = tx \/ (HasMessage /\ HasMessage')
        /\ emu' = emu \/ {emu, emu'} \cap {"message", "publish"} = {}
        /\ code' = "release" /\ emu' = "guest" /\ failed' = "no" =>
             code = "release" /\ emu = "guest" /\ failed = "no"
    BY <1>12, ZenonT(30) DEF Unsupported, CallbackOpen
  <2> QED BY <2>1, Calm, Zenon
<1>13. CASE Prepare
  <2>1. /\ UNCHANGED <<Rings, txAvail, txUsed, txMsg, emAvail, emUsed>>
        /\ tx' = tx \/ (HasMessage /\ HasMessage')
        /\ emu' = emu \/ {emu, emu'} \cap {"message", "publish"} = {}
        /\ code' = "release" /\ emu' = "guest" /\ failed' = "no" =>
             code = "release" /\ emu = "guest" /\ failed = "no"
    BY <1>13, ZenonT(30) DEF Prepare, Request, AtGuest, CallbackOpen
  <2> QED BY <2>1, Calm, Zenon
<1>14. CASE Release
  <2>1. /\ UNCHANGED <<Rings, txAvail, txUsed, txMsg, emAvail, emUsed>>
        /\ tx' = tx \/ (HasMessage /\ HasMessage')
        /\ emu' = emu \/ {emu, emu'} \cap {"message", "publish"} = {}
        /\ code' = "release" /\ emu' = "guest" /\ failed' = "no" =>
             code = "release" /\ emu = "guest" /\ failed = "no"
    BY <1>14, ZenonT(30) DEF Release, Request, AtGuest, CallbackOpen
  <2> QED BY <2>1, Calm, Zenon
<1>15. CASE StopReturn
  <2>1. /\ UNCHANGED <<Rings, txAvail, txUsed, txMsg, emAvail, emUsed>>
        /\ tx' = tx \/ (HasMessage /\ HasMessage')
        /\ emu' = emu \/ {emu, emu'} \cap {"message", "publish"} = {}
        /\ code' = "release" /\ emu' = "guest" /\ failed' = "no" =>
             code = "release" /\ emu = "guest" /\ failed = "no"
    BY <1>15, ZenonT(30) DEF StopReturn, CallbackOpen
  <2> QED BY <2>1, Calm, Zenon
<1>16. CASE ReleaseFlag
  <2>1. /\ UNCHANGED <<Rings, txAvail, txUsed, txMsg, emAvail, emUsed>>
        /\ tx' = tx \/ (HasMessage /\ HasMessage')
        /\ emu' = emu \/ {emu, emu'} \cap {"message", "publish"} = {}
        /\ code' = "release" /\ emu' = "guest" /\ failed' = "no" =>
             code = "release" /\ emu = "guest" /\ failed = "no"
    BY <1>16, ZenonT(30) DEF ReleaseFlag, CallbackOpen
  <2> QED BY <2>1, Calm, Zenon
<1>17. CASE ReleaseFree
  <2>1. /\ UNCHANGED <<Rings, txAvail, txUsed, txMsg, emAvail, emUsed>>
        /\ tx' = tx \/ (HasMessage /\ HasMessage')
        /\ emu' = emu \/ {emu, emu'} \cap {"message", "publish"} = {}
        /\ code' = "release" /\ emu' = "guest" /\ failed' = "no" =>
             code = "release" /\ emu = "guest" /\ failed = "no"
    BY <1>17, ZenonT(30) DEF ReleaseFree, CallbackOpen
  <2> QED BY <2>1, Calm, Zenon
<1>18. CASE ReleaseClose
  <2>1. /\ UNCHANGED <<Rings, txAvail, txUsed, txMsg, emAvail, emUsed>>
        /\ tx' = tx \/ (HasMessage /\ HasMessage')
        /\ emu' = emu \/ {emu, emu'} \cap {"message", "publish"} = {}
        /\ code' = "release" /\ emu' = "guest" /\ failed' = "no" =>
             code = "release" /\ emu = "guest" /\ failed = "no"
    BY <1>18, ZenonT(30) DEF ReleaseClose, CallbackOpen
  <2> QED BY <2>1, Calm, Zenon
<1>19. CASE CloseReturn
  <2>1. /\ UNCHANGED <<Rings, txAvail, txUsed, txMsg, emAvail, emUsed>>
        /\ tx' = tx \/ (HasMessage /\ HasMessage')
        /\ emu' = emu \/ {emu, emu'} \cap {"message", "publish"} = {}
        /\ code' = "release" /\ emu' = "guest" /\ failed' = "no" =>
             code = "release" /\ emu = "guest" /\ failed = "no"
    BY <1>19, ZenonT(30) DEF CloseReturn, CallbackOpen
  <2> QED BY <2>1, Calm, Zenon
<1>20. CASE FlushBegin
  BY <1>20, FlushBeginAligned, Zenon
<1>21. CASE FlushMessage
  BY <1>21, FlushMessageAligned, Zenon
<1>22. CASE FlushPublish
  BY <1>22, FlushPublishAligned, Zenon
<1>23. CASE TxWake
  BY <1>23, TxWakeAligned, Zenon
<1>24. CASE TxEnqueue
  <2>1. /\ UNCHANGED <<Rings, txAvail, txUsed, txMsg, emAvail, emUsed>>
        /\ tx' = tx \/ (HasMessage /\ HasMessage')
        /\ emu' = emu \/ {emu, emu'} \cap {"message", "publish"} = {}
        /\ code' = "release" /\ emu' = "guest" /\ failed' = "no" =>
             code = "release" /\ emu = "guest" /\ failed = "no"
    BY <1>24, ZenonT(30) DEF TxEnqueue, CallbackOpen
  <2> QED BY <2>1, Calm, Zenon
<1>25. CASE TxNotify
  <2>1. /\ UNCHANGED <<Rings, txAvail, txUsed, txMsg, emAvail, emUsed>>
        /\ tx' = tx \/ (HasMessage /\ HasMessage')
        /\ emu' = emu \/ {emu, emu'} \cap {"message", "publish"} = {}
        /\ code' = "release" /\ emu' = "guest" /\ failed' = "no" =>
             code = "release" /\ emu = "guest" /\ failed = "no"
    BY <1>25, ZenonT(30) DEF TxNotify, CallbackOpen
  <2> QED BY <2>1, Calm, Zenon
<1>26. CASE TxComplete
  BY <1>26, TxCompleteAligned, Zenon
<1>27. CASE TxPublish
  BY <1>27, TxPublishAligned, Zenon
<1>28. CASE CbCall
  <2>1. /\ UNCHANGED <<Rings, txAvail, txUsed, txMsg, emAvail, emUsed>>
        /\ tx' = tx \/ (HasMessage /\ HasMessage')
        /\ emu' = emu \/ {emu, emu'} \cap {"message", "publish"} = {}
        /\ code' = "release" /\ emu' = "guest" /\ failed' = "no" =>
             code = "release" /\ emu = "guest" /\ failed = "no"
    BY <1>28, ZenonT(30) DEF CbCall, CallbackOpen
  <2> QED BY <2>1, Calm, Zenon
<1>29. CASE CbDequeue
  <2>1. /\ UNCHANGED <<Rings, txAvail, txUsed, txMsg, emAvail, emUsed>>
        /\ tx' = tx \/ (HasMessage /\ HasMessage')
        /\ emu' = emu \/ {emu, emu'} \cap {"message", "publish"} = {}
        /\ code' = "release" /\ emu' = "guest" /\ failed' = "no" =>
             code = "release" /\ emu = "guest" /\ failed = "no"
    BY <1>29, ZenonT(30) DEF CbDequeue, CallbackOpen
  <2> QED BY <2>1, Calm, Zenon
<1>30. CASE CbPlay
  <2>1. /\ UNCHANGED <<Rings, txAvail, txUsed, txMsg, emAvail, emUsed>>
        /\ tx' = tx \/ (HasMessage /\ HasMessage')
        /\ emu' = emu \/ {emu, emu'} \cap {"message", "publish"} = {}
        /\ code' = "release" /\ emu' = "guest" /\ failed' = "no" =>
             code = "release" /\ emu = "guest" /\ failed = "no"
    BY <1>30, ZenonT(30) DEF CbPlay, CallbackOpen
  <2> QED BY <2>1, Calm, Zenon
<1>31. CASE UNCHANGED vars
  <2>1. /\ UNCHANGED <<Rings, txAvail, txUsed, txMsg, emAvail, emUsed>>
        /\ tx' = tx /\ emu' = emu /\ code' = code /\ failed' = failed
    BY <1>31, ZenonT(30) DEF vars
  <2> QED BY <2>1, Calm, Zenon
<1> QED
  BY <1>1, <1>2, <1>3, <1>4, <1>5, <1>6, <1>7, <1>8, <1>9, <1>10, <1>11,
     <1>12, <1>13, <1>14, <1>15, <1>16, <1>17, <1>18, <1>19, <1>20, <1>21,
     <1>22, <1>23, <1>24, <1>25, <1>26, <1>27, <1>28, <1>29, <1>30, <1>31, Zenon DEF
     Next, EmuStep, TxStep, CbStep, GuestStep

LEMMA CompletionStep ==
  ASSUME TypeOK, CallbackOpen, Completion, [Next]_vars
  PROVE  Completion'
<1> SUFFICES ASSUME ~overlap' PROVE Separate' /\ Aligned'
  BY Zenon DEF Completion
<1>1. Separate /\ Aligned
  BY OverlapStays, Zenon DEF Completion
<1>2. Aligned'
  BY <1>1, AlignedStep, Zenon
<1>3. qnum # 0 => ~TooMany
  BY <1>1, NeverTooMany, Zenon DEF Aligned, TypeOK
<1>4. GuestInterrupt => wrong' = wrong
  BY <1>1, InterruptAligned, Zenon
<1> QED BY <1>1, <1>2, <1>3, <1>4, SeparateStep, Zenon

LEMMA InitCompletion == Init => Completion
<1> SUFFICES ASSUME Init PROVE Separate /\ Aligned
  BY DEF Completion
<1>1. Ahead(0, 0) = 0
  BY ModRange, AheadType, Zenon
<1>2. Done = 0 /\ ToDo = 0
  BY <1>1, Zenon DEF Init, Done, ToDo
<1>3. WindowExact
  <2>1. Done + ToDo = 0 /\ outstanding = {}
    BY <1>2 DEF Init
  <2> QED BY <1>2, <2>1, HoldsNothing, Zenon DEF WindowExact
<1>4. UsedTrails /\ TxAligned /\ FlushAligned /\ ReleasedEmpty
  BY <1>1, <1>2, SMTT(60) DEF Init, UsedTrails, TxAligned, HasMessage, FlushAligned, ReleasedEmpty
<1>5. Separate
  BY RingSizes DEF Init, Separate
<1> QED BY <1>3, <1>4, <1>5, Zenon DEF Aligned

\* What the alignment says of the guest's messages.
LEMMA CompletionImplies ==
  ASSUME TypeOK, Completion
  PROVE  CompletedOnce
<1> SUFFICES ASSUME ~overlap PROVE /\ "completion" \notin wrong /\ failed # "queue" /\ Running
                                   /\ ReleaseCompletes
  BY Zenon DEF CompletedOnce
<1>1. Separate /\ Aligned
  BY Zenon DEF Completion
<1>2. "completion" \notin wrong /\ failed # "queue" /\ Running
  BY <1>1, Zenon DEF Separate, Running
<1>3. ReleaseCompletes
  <2> SUFFICES ASSUME code = "release", emu = "guest", failed = "no", qnum # 0
               PROVE  outstanding \subseteq Unseen
    BY Zenon DEF ReleaseCompletes
  <2>1. tx = "idle" /\ ToDo = 0 /\ usedIdx = last_avail /\ WindowExact
    BY <1>1 DEF Aligned, ReleasedEmpty, UsedTrails
  <2>2. Done \in Nat /\ Done + ToDo = Done /\ Done = Ahead(usedIdx, seen)
    BY <2>1, WindowTypes DEF Done
  <2>3. Unseen = {usedRing[(seen + k) % QNum] : k \in 0 .. Done - 1}
    BY <2>2, Zenon DEF Unseen, Ahead
  <2>4. ASSUME NEW m \in outstanding PROVE m \in Unseen
    <3>0. Holds(seen, Done, Done, availRing, usedRing, outstanding)
      BY <2>1, <2>2, Zenon DEF WindowExact
    <3>1. PICK i \in 0 .. Done - 1 : IdAt(seen, Done, availRing, usedRing, i) = m
      BY <3>0, Zenon DEF Holds
    <3>2. i < Done
      BY <2>2
    <3>3. usedRing[(seen + i) % QNum] = m
      BY <3>1, <3>2, Zenon DEF IdAt
    <3> QED BY <2>3, <3>3, Zenon
  <2> QED BY <2>4, Zenon
<1> QED BY <1>2, <1>3

-----------------------------------------------------------------------------
(* The theorems.                                                           *)

LEMMA InitIInv == Init => IInv
<1> SUFFICES ASSUME Init PROVE IInv
  OBVIOUS
<1>1. availRing \in [Slot -> Slot] /\ usedRing \in [Slot -> Slot]
  BY ModRange DEF Init
<1>2. TypeOK
  <2>1. {openFailed, releasing, irq, overlap} \subseteq BOOLEAN
    BY Zenon DEF Init
  <2>2. /\ notify \in 0 .. MaxNotify /\ list \in Nat /\ tx_ev \in 0 .. MaxKick
        /\ qnum \in {0, QNum} /\ last_avail \in Index /\ availIdx \in Index
        /\ usedIdx \in Index /\ txAvail \in Index /\ txUsed \in Index
        /\ emAvail \in Index /\ emUsed \in Index /\ seen \in Index
    BY ModRange, ConstAssumption, SMTT(60) DEF Init
  <2>3. /\ txMsg \in Slot /\ outstanding \subseteq Slot /\ foreign \subseteq Slot
        /\ wrong \subseteq {"completion", "stream"}
    BY ModRange DEF Init
  <2>4. /\ code = "set_params" /\ pa = "none" /\ lock = "free" /\ failed = "no"
        /\ tx = "idle" /\ emu = "guest" /\ cb = "idle"
    BY DEF Init
  <2> QED BY <1>1, <2>1, <2>2, <2>3, <2>4, ZenonT(30) DEF TypeOK
<1>3. LockHeld /\ FlagSet /\ StreamOpen /\ CallbackOpen /\ OnePeriod
  BY ConstAssumption, ZenonT(30) DEF Init, LockHeld, FlagSet, StreamOpen, StreamUsedOpen, CallbackOpen, OnePeriod
<1> QED BY <1>2, <1>3, InitCompletion DEF IInv

\* Every step of the three threads and the guest keeps the invariant.
THEOREM Invariant == Spec => []IInv
<1>1. IInv /\ [Next]_vars => IInv'
  BY TypeStep, LockStep, OpenStep, PeriodStep, CompletionStep DEF IInv
<1> QED BY InitIInv, <1>1, PTL DEF Spec

\* The state stays within its types: indices in their ring, buf_ev_notify never
\* below zero in the callback.
THEOREM TypeCorrect == Spec => []TypeOK
<1>1. IInv => TypeOK
  BY DEF IInv
<1> QED BY Invariant, <1>1, PTL

\* RELEASE frees the frame list unlocked, and no thread is inside it: not the TX
\* thread in __virtio_snd_frame_enqueue, not the callback in its dequeue.
THEOREM FreeingIsExclusive == Spec => []FreeExclusive
<1>1. IInv => FreeExclusive
  BY DEF IInv, FreeExclusive, LockHeld, FlagSet
<1> QED BY Invariant, <1>1, PTL

\* Pa_StartStream, Pa_StopStream and Pa_CloseStream get an open stream in every
\* order of START, STOP, RELEASE, PREPARE and device resets.
THEOREM StreamOpenWhenUsed == Spec => []StreamUsedOpen
<1>1. IInv => StreamUsedOpen
  BY DEF IInv, StreamOpen
<1> QED BY Invariant, <1>1, PTL

\* The frame list never holds more than one message while the callback takes at
\* least a period at a time and no flush or PREPARE overlaps TX work.
THEOREM ListStaysBounded == Spec => []QueueBounded
<1>1. IInv => QueueBounded
  BY ConstAssumption, SMTT(60) DEF IInv, OnePeriod, QueueBounded, TypeOK
<1> QED BY Invariant, <1>1, PTL

(***************************************************************************)
(* For any ring size and any interleaving: as long as no flush, reset or   *)
(* PREPARE overlapped work of the TX thread, the driver gets each message  *)
(* back exactly once, after RELEASE all of them, and neither thread's      *)
(* virtio_queue_notify_handler fails the device on its own indices.        *)
(***************************************************************************)
THEOREM MessagesCompletedOnce == Spec => []CompletedOnce
<1>1. IInv => CompletedOnce
  BY CompletionImplies DEF IInv
<1> QED BY Invariant, <1>1, PTL
=============================================================================
