----------------------------- MODULE BufferLoop ------------------------------
(***************************************************************************)
(* What a virtqueue promises its driver: every buffer it is given comes    *)
(* back exactly once and in the order given, until the device breaks; a    *)
(* broken device keeps what it holds until it is reset.                    *)
(***************************************************************************)
EXTENDS Naturals, Sequences

CONSTANT Buf

VARIABLES
  free,      \* buffers the driver owns
  given,     \* buffers the device holds, in the order given
  returned,  \* buffers on their way back
  broken     \* the device waits for a reset

vars == <<free, given, returned, broken>>

Init == free = Buf /\ given = <<>> /\ returned = <<>> /\ broken = FALSE

Give(b) ==
  /\ b \in free
  /\ free' = free \ {b} /\ given' = Append(given, b)
  /\ UNCHANGED <<returned, broken>>

(***************************************************************************)
(* The device works off its oldest n buffers and returns them all, or      *)
(* breaks; what a breaking device has not returned is lost.                *)
(***************************************************************************)
Serve(n) ==
  /\ ~broken
  /\ given' = SubSeq(given, n + 1, Len(given))
  /\ \/ /\ returned' = returned \o SubSeq(given, 1, n)
        /\ broken' \in BOOLEAN
     \/ returned' = returned /\ broken' = TRUE
  /\ UNCHANGED free

Collect ==
  /\ returned # <<>>
  /\ free' = free \cup {Head(returned)} /\ returned' = Tail(returned)
  /\ UNCHANGED <<given, broken>>

Reset ==
  /\ free' = Buf /\ given' = <<>> /\ returned' = <<>>
  /\ broken' \in {FALSE, broken}

Next ==
  \/ \E b \in free : Give(b)
  \/ \E n \in 0 .. Len(given) : Serve(n)
  \/ Collect \/ Reset

Spec == Init /\ [][Next]_vars
=============================================================================
