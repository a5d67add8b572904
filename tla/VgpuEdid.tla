------------------------------ MODULE VgpuEdid ------------------------------
(***************************************************************************)
(* The EDID block virtio-gpu generates for a scanout, byte by byte, and    *)
(* what a reader of it must find.  The packing of the fields is what can   *)
(* go wrong, so it is modelled by what it does; the bytes whose value is   *)
(* fixed are one table.                                                    *)
(***************************************************************************)
EXTENDS Naturals, Sequences

\* DMT_BASE_*: the VESA timing of 1024x768 at 60 Hz.
DmtBase == [w |-> 1024, h |-> 768, clock |-> 6500,
            hb |-> 320, hf |-> 24, hs |-> 136, vb |-> 38, vf |-> 3, vs |-> 6]

Bound(x, max) == IF x > max THEN max ELSE x
AtLeast1(x) == IF x = 0 THEN 1 ELSE x

\* virtio_gpu_edid_pixels_to_mm and _mm_to_cm, at 100 DPI
PixelsToMm(pixels) == Bound(AtLeast1((pixels * 254 + 500) \div 1000), 4095)
MmToCm(mm) == Bound(AtLeast1((mm + 5) \div 10), 255)

\* A part of the base timing, in proportion to an extent.
Scale(x, part, base) == (x * part + base \div 2) \div base

(***************************************************************************)
(* virtio_gpu_edid_set_detailed_timing, first half: the base timing, or    *)
(* one scaled from it with room for the back porch; then every field is    *)
(* cut to its width in the descriptor.                                     *)
(***************************************************************************)
Timing(w, h) ==
  LET D == DmtBase
      hf == AtLeast1(Scale(w, D.hf, D.w))
      hs == AtLeast1(Scale(w, D.hs, D.w))
      hb == LET b == Scale(w, D.hb, D.w) IN IF b <= hf + hs THEN hf + hs + 1 ELSE b
      vf == AtLeast1(Scale(h, D.vf, D.h))
      vs == AtLeast1(Scale(h, D.vs, D.h))
      vb == LET b == Scale(h, D.vb, D.h) IN IF b <= vf + vs THEN vf + vs + 1 ELSE b
      full == IF w = D.w /\ h = D.h THEN D
              ELSE [w |-> w, h |-> h, hb |-> hb, hf |-> hf, hs |-> hs,
                    vb |-> vb, vf |-> vf, vs |-> vs,
                    clock |-> Bound((60 * (w + hb) * (h + vb) + 5000) \div 10000, 65535)]
  IN  [full EXCEPT !.w = Bound(@, 4095), !.h = Bound(@, 4095),
                   !.hb = Bound(@, 4095), !.vb = Bound(@, 4095),
                   !.hf = Bound(@, 1023), !.hs = Bound(@, 1023),
                   !.vf = Bound(@, 63), !.vs = Bound(@, 63)]

Lo(x) == x % 256
Hi(x) == x \div 256

\* As if the high bits of the sync fields were left out.
Descriptor_NoHigh(t, wmm, hmm) ==
  <<Lo(t.clock), Hi(t.clock) % 256,
    Lo(t.w), Lo(t.hb), Hi(t.w) * 16 + Hi(t.hb),
    Lo(t.h), Lo(t.vb), Hi(t.h) * 16,
    Lo(t.hf), Lo(t.hs), (t.vf % 16) * 16 + (t.vs % 16), 0,
    Lo(wmm), Lo(hmm), Hi(wmm) * 16 + Hi(hmm), 0, 0, 24>>

\* The second half: the 18 bytes of the descriptor.
Descriptor(t, wmm, hmm) ==
  <<Lo(t.clock), Hi(t.clock) % 256,
    Lo(t.w), Lo(t.hb), Hi(t.w) * 16 + Hi(t.hb),
    Lo(t.h), Lo(t.vb), Hi(t.h) * 16 + Hi(t.vb),
    Lo(t.hf), Lo(t.hs), (t.vf % 16) * 16 + (t.vs % 16),
    Hi(t.hf) * 64 + Hi(t.hs) * 16 + (t.vf \div 16) * 4 + t.vs \div 16,
    Lo(wmm), Lo(hmm), Hi(wmm) * 16 + Hi(hmm),
    0, 0, 24>>

\* virtio_gpu_edid_set_srgb_chromaticity: red, green, blue, white, x and y.
Chromaticity ==
  LET c == <<655, 338, 307, 614, 154, 61, 320, 337>>
      low(i) == (c[i] % 4) * 64 + (c[i + 1] % 4) * 16 + (c[i + 2] % 4) * 4 + (c[i + 3] % 4)
  IN  <<low(1), low(5)>> \o [i \in 1 .. 8 |-> c[i] \div 4]

\* 'T', 'W', 'N' in five bits each.
VendorId == 20 * 1024 + 23 * 32 + 14

Repeat(x, n) == [i \in 1 .. n |-> x]

\* The sum of a sequence of bytes, by halves.
SumOf(bytes) ==
  LET sum[a, b \in 1 .. Len(bytes)] ==
        IF a = b THEN bytes[a]
        ELSE sum[a, (a + b) \div 2] + sum[((a + b) \div 2) + 1, b]
  IN  sum[1, Len(bytes)]

\* virtio_gpu_generate_edid_checksum, with the cast to a byte
Checksum(bytes) == (256 - (SumOf(bytes) % 256)) % 256

(***************************************************************************)
(* virtio_gpu_generate_edid: header, vendor, version, input, size, gamma   *)
(* and features, colours, established and standard timings, the detailed   *)
(* timing, three dummy descriptors, no extension, and the checksum.        *)
(***************************************************************************)
Edid(width, height) ==
  LET w == IF width = 0 THEN DmtBase.w ELSE width
      h == IF height = 0 THEN DmtBase.h ELSE height
      wmm == PixelsToMm(w)
      hmm == PixelsToMm(h)
      dummy == <<0, 0, 0, 16>> \o Repeat(0, 14)
      body == <<0>> \o Repeat(255, 6) \o <<0>>
              \o <<VendorId \div 256, VendorId % 256>> \o Repeat(0, 7)
              \o <<2023 - 1990, 1, 4, 165, MmToCm(wmm), MmToCm(hmm), 120, 6>>
              \o Chromaticity
              \o <<0, IF w = DmtBase.w /\ h = DmtBase.h THEN 8 ELSE 0, 0>>
              \o Repeat(1, 16)
              \o Descriptor(Timing(w, h), wmm, hmm)
              \o dummy \o dummy \o dummy \o <<0>>
  IN  Append(body, Checksum(body))

-----------------------------------------------------------------------------
(* What a reader makes of a block, from the EDID standard (external).      *)

\* A 12-bit field: its low byte, and a half of the byte that two share.
Field12(low, high) == low + 256 * high

\* The timing that the descriptor d of 18 bytes says.
ReadTiming(d) ==
  [clock |-> d[1] + 256 * d[2],
   w |-> Field12(d[3], d[5] \div 16), hb |-> Field12(d[4], d[5] % 16),
   h |-> Field12(d[6], d[8] \div 16), vb |-> Field12(d[7], d[8] % 16),
   hf |-> d[9] + 256 * (d[12] \div 64), hs |-> d[10] + 256 * ((d[12] \div 16) % 4),
   vf |-> d[11] \div 16 + 16 * ((d[12] \div 4) % 4), vs |-> (d[11] % 16) + 16 * (d[12] % 4)]

(***************************************************************************)
(* A block is 128 bytes whose sum is 0 modulo 256.  Its first detailed     *)
(* timing reads back as the one that was packed, shows the scanout's size  *)
(* (as far as 12 bits go) with both sync pulses inside their blanking and, *)
(* where 16 bits hold the clock, a refresh within 1 Hz of 60.              *)
(***************************************************************************)
EdidValid(e, width, height) ==
  /\ Len(e) = 128
  /\ \A i \in DOMAIN e : e[i] \in 0 .. 255
  /\ SumOf(e) % 256 = 0
  /\ LET t == ReadTiming(SubSeq(e, 55, 72)) IN
       /\ t = Timing(width, height)
       /\ t.w = Bound(width, 4095) /\ t.h = Bound(height, 4095)
       /\ t.hf + t.hs < t.hb /\ t.vf + t.vs < t.vb
       /\ t.clock < 65535 =>
            LET total == (t.w + t.hb) * (t.h + t.vb) IN
            59 * total <= t.clock * 10000 + 5000 /\ t.clock * 10000 <= 61 * total + 5000
=============================================================================
