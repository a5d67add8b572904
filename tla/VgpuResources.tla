---------------------------- MODULE VgpuResources ----------------------------
(***************************************************************************)
(* The commands of the virtio-gpu software backend: 2D resources with      *)
(* their host images and guest backing, the scanouts they are bound to,    *)
(* and what has been published to the display for each scanout.            *)
(*                                                                         *)
(* A command is one step.  Its descriptors may be unusable (Malformed), an *)
(* allocation may fail, and the response may turn out not to be writable   *)
(* once the command is done; each ends in virtio_gpu_set_fail, after which *)
(* the device only waits for a reset.  A pixel is one unit of length.      *)
(* Image contents are not kept: out holds what the last copy read and      *)
(* wrote, until the next command.                                          *)
(***************************************************************************)
EXTENDS Naturals, Sequences, FiniteSetsExt, VgpuEdid

CONSTANTS
  Id,          \* resource ids other than 0
  NScanout,    \* num_scanouts
  Modes,       \* sizes a scanout can be registered with: <<width, height>>
  Sizes,       \* <<width, height>> of the resources the guest creates
  MaxHostmem,  \* VGPU_SW_MAX_HOSTMEM, in pixels
  Backings,    \* backings the guest attaches: the length of each entry
  Rects,       \* rectangles of requests: <<x, y, width, height>>
  Offsets,     \* offsets of transfers into the backing
  None         \* no resource, no backing, no record

Scanout == 0 .. NScanout - 1
NoRect == <<0, 0, 0, 0>>

ASSUME ConstAssumption ==
  /\ Id \subseteq Nat \ {0} /\ IsFiniteSet(Id)
  /\ NScanout \in Nat /\ MaxHostmem \in Nat /\ Offsets \subseteq Nat
  /\ Modes \subseteq Nat \X Nat /\ Sizes \subseteq Nat \X Nat
  /\ Backings \subseteq Seq(Nat)
  /\ Rects \subseteq Nat \X Nat \X Nat \X Nat

Resource == [w : Nat, h : Nat, iovec : Backings \cup {None}, page_cnt : Nat]
Rect == Rects \cup {NoRect}
Response == {"ok", "id", "param", "memory", "unspec", "scanout"}

ASSUME NoneAssumption == None \notin Resource \cup Backings \cup Response

VARIABLES
  mode,          \* width and height of the scanouts
  res, hostmem,  \* g_vgpu_sw_res_2d_list, g_vgpu_sw_hostmem
  scan,          \* scanouts[]: primary, cursor, view (src_x .. src_h)
  shown,         \* what the display was last told to show: primary, cursor
  failed,        \* DEVICE_NEEDS_RESET
  resp,          \* the response to the last command
  out            \* history: the last copy

stateVars == <<res, hostmem, scan, shown>>
vars == <<mode, res, hostmem, scan, shown, failed, resp, out>>

Unbound == [primary |-> 0, cursor |-> 0, view |-> NoRect]
Nothing == [primary |-> 0, cursor |-> 0]

\* virtio_gpu_init and virtio_gpu_register_scanout
Init ==
  /\ mode \in Modes
  /\ res = [i \in Id |-> None] /\ hostmem = 0
  /\ scan = [s \in Scanout |-> Unbound] /\ shown = [s \in Scanout |-> Nothing]
  /\ failed = FALSE /\ resp = None /\ out = None

Live(i) == i \in Id /\ res[i] # None

-----------------------------------------------------------------------------
(* Responses.                                                              *)

\* virtio_gpu_write_ctrl_response, or set_fail if the guest gave no room.
Respond(type) ==
  \/ resp' = type /\ UNCHANGED failed
  \/ resp' = None /\ failed' = TRUE

\* An error is answered and nothing else happens.
Reject(type) == Respond(type) /\ out' = None /\ UNCHANGED <<mode, stateVars>>

(***************************************************************************)
(* A command without usable request or response descriptors, of the wrong  *)
(* queue or an undefined type, a fenced cursor command, or one for which   *)
(* the host has no memory; and a chain that is too long, which is answered.*)
(***************************************************************************)
Malformed ==
  /\ ~failed
  /\ failed' = TRUE /\ resp' = None /\ out' = None
  /\ UNCHANGED <<mode, stateVars>>

ChainTooLong == ~failed /\ Reject("unspec")

\* GET_DISPLAY_INFO
GetDisplayInfo ==
  /\ ~failed
  /\ Respond("ok")
  /\ out' = [cmd |-> "info", sizes |-> [s \in Scanout |-> mode]]
  /\ UNCHANGED <<mode, stateVars>>

\* GET_EDID
GetEdid(s) ==
  /\ ~failed
  /\ IF s \notin Scanout THEN Reject("scanout")
     ELSE /\ Respond("ok")
          /\ out' = [cmd |-> "edid", edid |-> Edid(mode[1], mode[2])]
          /\ UNCHANGED <<mode, stateVars>>

-----------------------------------------------------------------------------
(* Resources.                                                              *)

(***************************************************************************)
(* RESOURCE_CREATE_2D.  knownFormat: the format is one of the 32-bit ones. *)
(***************************************************************************)
Create2d(i, size, knownFormat) ==
  /\ ~failed
  /\ LET image == size[1] * size[2] IN
     IF i = 0 THEN Reject("id")
     ELSE IF image = 0 THEN Reject("param")
     ELSE IF Live(i) THEN Reject("id")
     ELSE IF ~knownFormat THEN Reject("param")
     ELSE IF image > MaxHostmem \/ hostmem > MaxHostmem - image THEN Reject("memory")
     ELSE /\ res' = [res EXCEPT ![i] =
               [w |-> size[1], h |-> size[2], iovec |-> None, page_cnt |-> 0]]
          /\ hostmem' = hostmem + image
          /\ Respond("ok")
          /\ out' = None
          /\ UNCHANGED <<mode, scan, shown>>

ImageSize(i) == IF res[i] = None THEN 0 ELSE res[i].w * res[i].h

\* As if the cursor kept its binding.
Unref_PrimaryOnly(i) ==
  /\ ~failed
  /\ IF ~Live(i) THEN Reject("id")
     ELSE /\ scan' = [s \in Scanout |->
               IF scan[s].primary = i THEN [scan[s] EXCEPT !.primary = 0, !.view = NoRect]
               ELSE scan[s]]
          /\ shown' = [s \in Scanout |->
               IF scan[s].primary = i THEN [shown[s] EXCEPT !.primary = 0] ELSE shown[s]]
          /\ hostmem' = hostmem - ImageSize(i)
          /\ res' = [res EXCEPT ![i] = None]
          /\ Respond("ok")
          /\ out' = None /\ UNCHANGED mode

(***************************************************************************)
(* RESOURCE_UNREF: every plane bound to the resource is unbound and        *)
(* cleared, and then it is destroyed.                                      *)
(***************************************************************************)
Unref(i) ==
  /\ ~failed
  /\ IF ~Live(i) THEN Reject("id")
     ELSE /\ scan' = [s \in Scanout |->
               [primary |-> IF scan[s].primary = i THEN 0 ELSE scan[s].primary,
                view |-> IF scan[s].primary = i THEN NoRect ELSE scan[s].view,
                cursor |-> IF scan[s].cursor = i THEN 0 ELSE scan[s].cursor]]
          /\ shown' = [s \in Scanout |->
               [primary |-> IF scan[s].primary = i THEN 0 ELSE shown[s].primary,
                cursor |-> IF scan[s].cursor = i THEN 0 ELSE shown[s].cursor]]
          /\ hostmem' = hostmem - ImageSize(i)
          /\ res' = [res EXCEPT ![i] = None]
          /\ Respond("ok")
          /\ out' = None
          /\ UNCHANGED mode

\* A resource with another backing.
Backed(r, iovec, n) == [w |-> r.w, h |-> r.h, iovec |-> iovec, page_cnt |-> n]

\* As if a bad entry left the array behind.
AttachBacking_KeepArray(i, lens, end) ==
  /\ ~failed
  /\ IF Len(lens) = 0 \/ ~Live(i) THEN Reject("param")
     ELSE IF res[i].iovec # None THEN Reject("unspec")
     ELSE /\ res' = [res EXCEPT ![i] = Backed(@, lens, Len(lens))]
          /\ Respond(IF end = "bad" THEN "param" ELSE "ok")
          /\ out' = None /\ UNCHANGED <<mode, hostmem, scan, shown>>

(***************************************************************************)
(* RESOURCE_ATTACH_BACKING.  end: every entry is in guest RAM, one is not, *)
(* or there is no memory for the array; page_cnt is set before that.       *)
(***************************************************************************)
AttachBacking(i, lens, end) ==
  /\ ~failed
  /\ IF Len(lens) = 0 THEN Reject("param")
     ELSE IF ~Live(i) THEN Reject("id")
     ELSE IF res[i].iovec # None THEN Reject("unspec")
     ELSE IF end = "nomem"
     THEN /\ res' = [res EXCEPT ![i] = Backed(@, None, Len(lens))]
          /\ failed' = TRUE /\ resp' = None
          /\ out' = None /\ UNCHANGED <<mode, hostmem, scan, shown>>
     ELSE IF end = "bad"
     THEN /\ res' = [res EXCEPT ![i] = Backed(@, None, 0)]
          /\ Respond("param")
          /\ out' = None /\ UNCHANGED <<mode, hostmem, scan, shown>>
     ELSE /\ res' = [res EXCEPT ![i] = Backed(@, lens, Len(lens))]
          /\ Respond("ok")
          /\ out' = None /\ UNCHANGED <<mode, hostmem, scan, shown>>

\* RESOURCE_DETACH_BACKING
DetachBacking(i) ==
  /\ ~failed
  /\ IF ~Live(i) THEN Reject("id")
     ELSE IF res[i].iovec = None THEN Reject("unspec")
     ELSE /\ res' = [res EXCEPT ![i] = Backed(@, None, 0)]
          /\ Respond("ok")
          /\ out' = None /\ UNCHANGED <<mode, hostmem, scan, shown>>

\* As if reset freed the images without accounting for them.
Reset_KeepHostmem ==
  /\ scan' = [s \in Scanout |-> Unbound] /\ shown' = [s \in Scanout |-> Nothing]
  /\ res' = [i \in Id |-> None]
  /\ failed' = FALSE /\ resp' = None /\ out' = None
  /\ UNCHANGED <<mode, hostmem>>

\* vgpu_sw_reset under virtio_gpu_update_status
Reset ==
  /\ scan' = [s \in Scanout |-> Unbound] /\ shown' = [s \in Scanout |-> Nothing]
  /\ hostmem' = hostmem - MapThenSumSet(ImageSize, Id)
  /\ res' = [i \in Id |-> None]
  /\ failed' = FALSE /\ resp' = None /\ out' = None
  /\ UNCHANGED mode

-----------------------------------------------------------------------------
(* Copies.                                                                 *)

\* vgpu_sw_rect_fits
RectFits(w, h, r) ==
  /\ r[3] # 0 /\ r[4] # 0
  /\ r[1] < w /\ r[2] < h
  /\ r[3] <= w - r[1] /\ r[4] <= h - r[2]

\* As if the offset were applied to every entry.
IovToBuf_KeepOffset(iovec, offset, bytes) ==
  LET Step(acc, e) ==
        IF Len(acc) >= bytes \/ offset >= iovec[e] THEN acc
        ELSE LET len == Min({bytes - Len(acc), iovec[e] - offset}) IN
             acc \o [k \in 1 .. len |-> <<e, offset + k - 1>>]
      after[e \in 0 .. Len(iovec)] == IF e = 0 THEN <<>> ELSE Step(after[e - 1], e)
  IN  after[Len(iovec)]

(***************************************************************************)
(* vgpu_sw_iov_to_buf: the words read from the backing, each the number of *)
(* its entry and its place there.  after[e] is what the loop has after     *)
(* entry e.                                                                *)
(***************************************************************************)
IovToBuf(iovec, offset, bytes) ==
  LET Step(acc, e) ==
        IF iovec[e] = 0 \/ Len(acc.buf) >= bytes THEN acc
        ELSE IF acc.offset < iovec[e]
        THEN LET len == Min({bytes - Len(acc.buf), iovec[e] - acc.offset}) IN
             [offset |-> 0,
              buf |-> acc.buf \o [k \in 1 .. len |-> <<e, acc.offset + k - 1>>]]
        ELSE [acc EXCEPT !.offset = @ - iovec[e]]
      after[e \in 0 .. Len(iovec)] ==
        IF e = 0 THEN [offset |-> offset, buf |-> <<>>] ELSE Step(after[e - 1], e)
  IN  after[Len(iovec)].buf

\* The length of a backing.
Total(iovec) ==
  LET upto[e \in 0 .. Len(iovec)] == IF e = 0 THEN 0 ELSE upto[e - 1] + iovec[e]
  IN  upto[Len(iovec)]

(***************************************************************************)
(* vgpu_sw_transfer_source_fits: full-width rows need the whole rectangle, *)
(* others up to the end of the last row.                                   *)
(***************************************************************************)
SourceFits(w, iovec, r, offset) ==
  LET need == IF r[3] = w THEN w * r[4] ELSE w * (r[4] - 1) + r[3]
  IN  r[4] # 0 /\ r[3] # 0 /\ offset + need <= Total(iovec)

(***************************************************************************)
(* vgpu_sw_copy_image_from_pages: in one piece if the rows are contiguous, *)
(* or else row by row.  The pieces are <<first pixel, words, wanted>>.     *)
(***************************************************************************)
Pieces(w, iovec, r, offset) ==
  IF r[1] = 0 /\ r[3] = w
  THEN <<<<r[2] * w, IovToBuf(iovec, offset, w * r[4]), w * r[4]>>>>
  ELSE [k \in 1 .. r[4] |->
         <<(r[2] + k - 1) * w + r[1],
           IovToBuf(iovec, offset + w * (k - 1), r[3]), r[3]>>]

Complete(pieces) == \A k \in DOMAIN pieces : Len(pieces[k][2]) = pieces[k][3]

\* The pixels the pieces write, in an image of n pixels.
ImageAfter(n, pieces) ==
  [p \in 0 .. n - 1 |->
    LET in == {k \in DOMAIN pieces : /\ pieces[k][1] <= p
                                     /\ p < pieces[k][1] + Len(pieces[k][2])}
    IN  IF in = {} THEN None
        ELSE LET k == CHOOSE k \in in : TRUE IN pieces[k][2][p - pieces[k][1] + 1]]

(***************************************************************************)
(* TRANSFER_TO_HOST_2D.                                                    *)
(***************************************************************************)
Transfer(i, r, offset) ==
  /\ ~failed
  /\ IF ~Live(i) THEN Reject("id")
     ELSE IF res[i].iovec = None THEN Reject("unspec")
     ELSE IF ~RectFits(res[i].w, res[i].h, r) THEN Reject("param")
     ELSE IF ~SourceFits(res[i].w, res[i].iovec, r, offset) THEN Reject("param")
     ELSE LET pieces == Pieces(res[i].w, res[i].iovec, r, offset) IN
          /\ out' = [cmd |-> "transfer", w |-> res[i].w, iovec |-> res[i].iovec,
                     rect |-> r, offset |-> offset, complete |-> Complete(pieces),
                     image |-> ImageAfter(res[i].w * res[i].h, pieces)]
          /\ Respond(IF Complete(pieces) THEN "ok" ELSE "unspec")
          /\ UNCHANGED <<mode, stateVars>>

-----------------------------------------------------------------------------
(* Scanouts and the cursor.                                                *)

\* SET_SCANOUT
SetScanout(s, i, r) ==
  /\ ~failed
  /\ IF s \notin Scanout THEN Reject("scanout")
     ELSE IF i = 0
     THEN /\ scan' = [scan EXCEPT ![s] = [Unbound EXCEPT !.cursor = scan[s].cursor]]
          /\ shown' = [shown EXCEPT ![s].primary = 0]
          /\ Respond("ok")
          /\ out' = None /\ UNCHANGED <<mode, res, hostmem>>
     ELSE IF ~Live(i) THEN Reject("id")
     ELSE IF \/ ~RectFits(res[i].w, res[i].h, r)
             \/ r[3] > mode[1] \/ r[4] > mode[2]
     THEN Reject("param")
     ELSE /\ scan' = [scan EXCEPT ![s] = [primary |-> i, cursor |-> @.cursor, view |-> r]]
          /\ Respond("ok")
          /\ out' = None /\ UNCHANGED <<mode, res, hostmem, shown>>

(***************************************************************************)
(* vgpu_sw_create_window_payload: the image pixels a snapshot of view v of *)
(* a resource w wide holds, in one piece or row by row.                    *)
(***************************************************************************)
Snapshot(w, v) ==
  IF v[3] = w
  THEN [k \in 1 .. w * v[4] |-> v[2] * w + v[1] + k - 1]
  ELSE [k \in 1 .. v[3] * v[4] |->
         (v[2] + (k - 1) \div v[3]) * w + v[1] + ((k - 1) % v[3])]

(***************************************************************************)
(* RESOURCE_FLUSH: every scanout bound to the resource gets a snapshot of  *)
(* its view, except those for which the display queue is full or there is  *)
(* no memory (drop).                                                       *)
(***************************************************************************)
Flush(i, r, drop) ==
  /\ ~failed
  /\ IF ~Live(i) THEN Reject("id")
     ELSE IF ~RectFits(res[i].w, res[i].h, r) THEN Reject("param")
     ELSE LET to == {s \in Scanout \ drop : scan[s].primary = i} IN
          /\ shown' = [s \in Scanout |->
               IF s \in to THEN [shown[s] EXCEPT !.primary = i] ELSE shown[s]]
          /\ out' = IF to = {} THEN None
                    ELSE [cmd |-> "flush", w |-> res[i].w, h |-> res[i].h,
                          views |-> [s \in to |-> scan[s].view],
                          frames |-> [s \in to |-> Snapshot(res[i].w, scan[s].view)]]
          /\ Respond("ok")
          /\ UNCHANGED <<mode, res, hostmem, scan>>

\* As if the binding were recorded before asking for room.
UpdateCursor_BindFirst(s, i, room) ==
  /\ ~failed
  /\ IF s \notin Scanout \/ (i # 0 /\ ~Live(i))
     THEN failed' = TRUE /\ UNCHANGED stateVars
     ELSE /\ scan' = [scan EXCEPT ![s].cursor = i]
          /\ shown' = IF i = 0 \/ room THEN [shown EXCEPT ![s].cursor = i] ELSE shown
          /\ UNCHANGED <<res, hostmem, failed>>
  /\ resp' = None /\ out' = None /\ UNCHANGED mode

(***************************************************************************)
(* UPDATE_CURSOR, without a response.  Without room or memory the binding  *)
(* stays as it is.  MOVE_CURSOR changes no state of the backend.           *)
(***************************************************************************)
UpdateCursor(s, i, room) ==
  /\ ~failed
  /\ IF s \notin Scanout \/ (i # 0 /\ ~Live(i))
        \/ (Live(i) /\ (res[i].w > mode[1] \/ res[i].h > mode[2]))
     THEN failed' = TRUE /\ UNCHANGED stateVars
     ELSE IF i = 0 \/ room
     THEN /\ scan' = [scan EXCEPT ![s].cursor = i]
          /\ shown' = [shown EXCEPT ![s].cursor = i]
          /\ UNCHANGED <<res, hostmem, failed>>
     ELSE UNCHANGED <<stateVars, failed>>
  /\ resp' = None /\ out' = None /\ UNCHANGED mode

MoveCursor(s) ==
  /\ ~failed
  /\ failed' = (s \notin Scanout)
  /\ resp' = None /\ out' = None /\ UNCHANGED <<mode, stateVars>>

-----------------------------------------------------------------------------
AnyId == Id \cup {0}
AnyScanout == 0 .. NScanout

Next ==
  \/ Malformed \/ ChainTooLong \/ GetDisplayInfo \/ Reset
  \/ \E s \in AnyScanout : GetEdid(s) \/ MoveCursor(s)
  \/ \E i \in AnyId, z \in Sizes, known \in BOOLEAN : Create2d(i, z, known)
  \/ \E i \in AnyId : Unref(i) \/ DetachBacking(i)
  \/ \E i \in AnyId, b \in Backings, e \in {"ok", "bad", "nomem"} : AttachBacking(i, b, e)
  \/ \E i \in AnyId, r \in Rects, o \in Offsets : Transfer(i, r, o)
  \/ \E s \in AnyScanout, i \in AnyId, r \in Rects : SetScanout(s, i, r)
  \/ \E i \in AnyId, r \in Rects :
       \E d \in SUBSET {s \in Scanout : scan[s].primary = i} : Flush(i, r, d)
  \/ \E s \in AnyScanout, i \in AnyId, room \in BOOLEAN : UpdateCursor(s, i, room)

Spec == Init /\ [][Next]_vars

-----------------------------------------------------------------------------
\* The type invariant; for hostmem see HostmemExact.
TypeOK ==
  /\ mode \in Modes
  /\ res \in [Id -> Resource \cup {None}]
  /\ scan \in [Scanout -> [primary : AnyId, cursor : AnyId, view : Rect]]
  /\ shown \in [Scanout -> [primary : AnyId, cursor : AnyId]]
  /\ failed \in BOOLEAN
  /\ resp \in Response \cup {None}

(***************************************************************************)
(* g_vgpu_sw_hostmem is the size of the live images, through refused and   *)
(* failed creations, unrefs and resets: the cap neither leaks away nor is  *)
(* overrun.                                                                *)
(***************************************************************************)
HostmemExact ==
  hostmem = MapThenSumSet(ImageSize, Id) /\ hostmem \in 0 .. MaxHostmem

(***************************************************************************)
(* A scanout or a cursor is bound to a live resource only, its view lies   *)
(* inside that resource and the scanout, and a resource without an array   *)
(* of backing entries counts none (unless the device has failed).          *)
(***************************************************************************)
BindingsLive ==
  /\ \A s \in Scanout :
       /\ scan[s].primary # 0 =>
            /\ Live(scan[s].primary)
            /\ RectFits(res[scan[s].primary].w, res[scan[s].primary].h, scan[s].view)
            /\ scan[s].view[3] <= mode[1] /\ scan[s].view[4] <= mode[2]
       /\ scan[s].cursor # 0 => Live(scan[s].cursor)
  /\ \A i \in Id : Live(i) /\ ~failed /\ res[i].iovec = None => res[i].page_cnt = 0

(***************************************************************************)
(* cursor_resource_id is the cursor the display shows, so that unref'ing   *)
(* it clears it, and an unbound scanout shows no frame: neither survives   *)
(* the resource, a dropped publication or a reset.                         *)
(***************************************************************************)
ShownIsBound ==
  \A s \in Scanout : /\ shown[s].cursor = scan[s].cursor
                     /\ scan[s].primary = 0 => shown[s].primary = 0

\* The words of a backing in order: the reference for a transfer.
Stream(iovec) ==
  LET upto[e \in 0 .. Len(iovec)] ==
        IF e = 0 THEN <<>> ELSE upto[e - 1] \o [k \in 1 .. iovec[e] |-> <<e, k - 1>>]
  IN  upto[Len(iovec)]

\* The pixel of column x and row y in an image w wide.
Pixel(w, x, y) == y * w + x

(***************************************************************************)
(* A transfer that passes its checks copies all of the rectangle: pixel    *)
(* (x, y) of it comes from the word at offset + y * stride + x of the      *)
(* backing read as one stream, over empty entries and entry boundaries,    *)
(* and no other pixel changes.  A flushed frame holds the pixels of its    *)
(* view.                                                                   *)
(***************************************************************************)
CopiesExact ==
  out # None =>
    CASE out.cmd = "transfer" ->
           /\ out.complete
           /\ \A p \in DOMAIN out.image :
                LET x == (p % out.w) - out.rect[1]
                    y == (p \div out.w) - out.rect[2]
                    inside == /\ p % out.w \in out.rect[1] .. out.rect[1] + out.rect[3] - 1
                              /\ p \div out.w \in out.rect[2] .. out.rect[2] + out.rect[4] - 1
                IN  out.image[p] = IF inside
                      THEN Stream(out.iovec)[out.offset + Pixel(out.w, x, y) + 1] ELSE None
      [] out.cmd = "flush" ->
           \A s \in DOMAIN out.frames :
             LET v == out.views[s] IN
             /\ Len(out.frames[s]) = v[3] * v[4]
             /\ \A x \in 0 .. v[3] - 1, y \in 0 .. v[4] - 1 :
                  out.frames[s][Pixel(v[3], x, y) + 1] = Pixel(out.w, v[1] + x, v[2] + y)
      [] OTHER -> TRUE

(***************************************************************************)
(* The block GET_EDID answers with is a valid one for the scanout's size.  *)
(***************************************************************************)
EdidCorrect ==
  out # None /\ out.cmd = "edid" => EdidValid(out.edid, mode[1], mode[2])

(***************************************************************************)
(* A command answered with an error changes nothing: no resource is left   *)
(* half created or half attached, nothing is bound, unbound or shown.      *)
(***************************************************************************)
ErrorsChangeNothing ==
  [][resp' \in Response \ {"ok"} => UNCHANGED stateVars]_vars
=============================================================================
