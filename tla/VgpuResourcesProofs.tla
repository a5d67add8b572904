------------------------- MODULE VgpuResourcesProofs -------------------------
(***************************************************************************)
(* The resource table of virtio-gpu for any ids, sizes, scanouts, backings *)
(* and rectangles.                                                         *)
(*                                                                         *)
(* IInv is inductive as it stands.  Its part about page_cnt is what makes  *)
(* a refused ATTACH_BACKING leave no trace: the error path writes 0 there, *)
(* which was 0 already.                                                    *)
(*                                                                         *)
(* HostmemExact is inductive beside it.  It is about a sum over a set, so  *)
(* its proof rests on lemmas that characterise that sum; they are shown by *)
(* induction on the size of the set, through the least counterexample.     *)
(***************************************************************************)
EXTENDS VgpuResources, FiniteSetTheorems, WellFoundedInduction, TLAPS

IInv == TypeOK /\ BindingsLive /\ ShownIsBound

-----------------------------------------------------------------------------
\* A response is the given one, or the device fails.
LEMMA RespondTypes ==
  ASSUME failed \in BOOLEAN, NEW type \in Response, Respond(type)
  PROVE  /\ failed' \in BOOLEAN /\ resp' \in {type, None}
         /\ resp' \in Response \cup {None}
<1>1. failed' \in BOOLEAN
  BY Zenon DEF Respond
<1>2. resp' \in {type, None}
  BY DEF Respond
<1> QED BY <1>1, <1>2

LEMMA InitIInv == Init => IInv
<1> SUFFICES ASSUME Init PROVE IInv
  OBVIOUS
<1>1. failed \in BOOLEAN
  BY Zenon DEF Init
<1>2. /\ mode \in Modes /\ res = [i \in Id |-> None]
      /\ scan = [s \in Scanout |-> Unbound] /\ shown = [s \in Scanout |-> Nothing]
      /\ resp = None
  BY DEF Init
<1>3. TypeOK
  BY <1>1, <1>2 DEF TypeOK, Unbound, Nothing, AnyId, Rect
<1>4. BindingsLive
  BY <1>2 DEF BindingsLive, Unbound, Live
<1>5. ShownIsBound
  BY <1>2 DEF ShownIsBound, Unbound, Nothing
<1> QED BY <1>3, <1>4, <1>5 DEF IInv

\* A step that leaves the tables alone, of a device that has not failed.
LEMMA QuietKeeps ==
  ASSUME IInv, ~failed, UNCHANGED <<mode, stateVars>>, failed' \in BOOLEAN,
         resp' \in Response \cup {None}
  PROVE  IInv'
<1>1. UNCHANGED <<mode, res, scan, shown>>
  BY DEF stateVars
<1>2. TypeOK'
  BY <1>1 DEF IInv, TypeOK
<1>3. BindingsLive'
  BY <1>1 DEF IInv, BindingsLive, Live
<1>4. ShownIsBound'
  BY <1>1 DEF IInv, ShownIsBound
<1> QED BY <1>2, <1>3, <1>4 DEF IInv

LEMMA RejectKeeps ==
  ASSUME IInv, ~failed, NEW type \in Response, Reject(type)
  PROVE  IInv'
<1>1. failed' \in BOOLEAN /\ resp' \in Response \cup {None}
  BY RespondTypes DEF Reject, IInv, TypeOK
<1> QED BY <1>1, QuietKeeps DEF Reject

(***************************************************************************)
(* A step that changes entry i of the table, keeping its size if it was    *)
(* live, keeps the bindings.                                               *)
(***************************************************************************)
LEMMA EntryKeeps ==
  ASSUME IInv, NEW i \in Id, NEW e \in Resource,
         res' = [res EXCEPT ![i] = e],
         Live(i) => e.w = res[i].w /\ e.h = res[i].h,
         failed' \/ (e.iovec = None => e.page_cnt = 0), ~failed,
         UNCHANGED <<mode, scan, shown>>, failed' \in BOOLEAN,
         resp' \in Response \cup {None}
  PROVE  IInv'
<1>1. res \in [Id -> Resource \cup {None}] /\ e # None
  BY NoneAssumption DEF IInv, TypeOK
<1>2. TypeOK'
  BY <1>1 DEF IInv, TypeOK
<1>3. ASSUME NEW s \in Scanout, scan[s].primary # 0
      PROVE  /\ Live(scan[s].primary)'
             /\ RectFits(res'[scan[s].primary].w, res'[scan[s].primary].h, scan[s].view)
             /\ scan[s].view[3] <= mode[1] /\ scan[s].view[4] <= mode[2]
  <2>1. /\ Live(scan[s].primary)
        /\ RectFits(res[scan[s].primary].w, res[scan[s].primary].h, scan[s].view)
        /\ scan[s].view[3] <= mode[1] /\ scan[s].view[4] <= mode[2]
    BY <1>3 DEF IInv, BindingsLive
  <2>2. CASE scan[s].primary = i
    BY <1>1, <2>1, <2>2 DEF Live
  <2>3. CASE scan[s].primary # i
    BY <1>1, <2>1, <2>3 DEF Live
  <2> QED BY <2>2, <2>3
<1>4. ASSUME NEW s \in Scanout, scan[s].cursor # 0
      PROVE  Live(scan[s].cursor)'
  BY <1>1, <1>4 DEF IInv, BindingsLive, Live
<1>5. ASSUME NEW k \in Id, Live(k)', ~failed', res'[k].iovec = None
      PROVE  res'[k].page_cnt = 0
  BY <1>1, <1>5 DEF IInv, BindingsLive, Live
<1>6. BindingsLive'
  BY <1>3, <1>4, <1>5 DEF BindingsLive
<1>7. ShownIsBound'
  BY DEF IInv, ShownIsBound
<1> QED BY <1>2, <1>6, <1>7 DEF IInv

-----------------------------------------------------------------------------
LEMMA CreateStep ==
  ASSUME IInv, NEW i \in AnyId, NEW z \in Sizes, NEW known \in BOOLEAN,
         Create2d(i, z, known)
  PROVE  IInv'
<1> DEFINE e == [w |-> z[1], h |-> z[2], iovec |-> None, page_cnt |-> 0]
<1>1. ~failed
  BY DEF Create2d
<1>2. \/ \E type \in Response : Reject(type)
      \/ /\ i # 0 /\ ~Live(i) /\ res' = [res EXCEPT ![i] = e] /\ Respond("ok")
         /\ UNCHANGED <<mode, scan, shown>>
  BY DEF Create2d, Response
<1>3. CASE \E type \in Response : Reject(type)
  BY <1>1, <1>3, RejectKeeps
<1>4. CASE /\ i # 0 /\ ~Live(i) /\ res' = [res EXCEPT ![i] = e] /\ Respond("ok")
           /\ UNCHANGED <<mode, scan, shown>>
  <2>1. i \in Id /\ z \in Nat \X Nat
    BY <1>4, ConstAssumption DEF AnyId
  <2>2. e \in Resource /\ e.iovec = None /\ e.page_cnt = 0
    BY <2>1 DEF Resource
  <2>3. failed' \in BOOLEAN /\ resp' \in Response \cup {None}
    BY <1>4, RespondTypes DEF IInv, TypeOK, Response
  <2> HIDE DEF e
  <2> QED BY <1>1, <1>4, <2>1, <2>2, <2>3, EntryKeeps, ZenonT(30)
<1> QED BY <1>2, <1>3, <1>4

\* A live resource gets another backing.
LEMMA BackedKeeps ==
  ASSUME IInv, NEW i \in Id, Live(i), ~failed,
         NEW iovec \in Backings \cup {None}, NEW n \in Nat,
         res' = [res EXCEPT ![i] = Backed(res[i], iovec, n)],
         failed' \/ (iovec = None => n = 0),
         UNCHANGED <<mode, scan, shown>>, failed' \in BOOLEAN,
         resp' \in Response \cup {None}
  PROVE  IInv'
<1> DEFINE e == Backed(res[i], iovec, n)
<1>1. res[i] \in Resource
  BY DEF Live, IInv, TypeOK
<1>2. /\ e \in Resource /\ e.w = res[i].w /\ e.h = res[i].h /\ e.iovec = iovec
      /\ e.page_cnt = n
  BY <1>1 DEF Resource, Backed
<1> HIDE DEF e
<1>3. res' = [res EXCEPT ![i] = e] /\ (failed' \/ (e.iovec = None => e.page_cnt = 0))
  BY <1>2 DEF e
<1> QED BY <1>2, <1>3, EntryKeeps, ZenonT(30)

LEMMA AttachStep ==
  ASSUME IInv, NEW i \in AnyId, NEW b \in Backings, NEW end \in {"ok", "bad", "nomem"},
         AttachBacking(i, b, end)
  PROVE  IInv'
<1>1. ~failed
  BY DEF AttachBacking
<1>2. CASE \E type \in Response : Reject(type)
  BY <1>1, <1>2, RejectKeeps
<1>3. CASE ~\E type \in Response : Reject(type)
  <2>1. /\ Live(i) /\ i \in Id /\ b \in Seq(Nat) /\ b # None /\ Len(b) \in Nat
        /\ failed \in BOOLEAN /\ res \in [Id -> Resource \cup {None}]
    BY <1>3, ConstAssumption, NoneAssumption
    DEF AttachBacking, Response, Live, IInv, TypeOK
  <2>2. /\ UNCHANGED <<mode, scan, shown>>
        /\ \/ /\ res' = [res EXCEPT ![i] = Backed(res[i], None, Len(b))]
              /\ failed' = TRUE /\ resp' = None
           \/ res' = [res EXCEPT ![i] = Backed(res[i], None, 0)] /\ Respond("param")
           \/ res' = [res EXCEPT ![i] = Backed(res[i], b, Len(b))] /\ Respond("ok")
    BY <1>3, <2>1 DEF AttachBacking, Response
  <2>3. CASE /\ res' = [res EXCEPT ![i] = Backed(res[i], None, Len(b))]
             /\ failed' = TRUE /\ resp' = None
    <3>1. failed' \in BOOLEAN
      BY <2>3, Zenon
    <3>2. /\ res' = [res EXCEPT ![i] = Backed(res[i], None, Len(b))]
          /\ None \in Backings \cup {None} /\ failed' /\ resp' \in Response \cup {None}
      BY <2>3, Zenon
    <3> QED BY <1>1, <2>1, <2>2, <3>1, <3>2, BackedKeeps, ZenonT(30)
  <2>4. CASE res' = [res EXCEPT ![i] = Backed(res[i], None, 0)] /\ Respond("param")
    <3>1. failed' \in BOOLEAN /\ resp' \in Response \cup {None}
      BY <2>1, <2>4, RespondTypes DEF Response
    <3>2. /\ res' = [res EXCEPT ![i] = Backed(res[i], None, 0)]
          /\ None \in Backings \cup {None}
      BY <2>4, Zenon
    <3>3. 0 \in Nat
      OBVIOUS
    <3> QED BY <1>1, <2>1, <2>2, <3>1, <3>2, <3>3, BackedKeeps, ZenonT(30)
  <2>5. CASE res' = [res EXCEPT ![i] = Backed(res[i], b, Len(b))] /\ Respond("ok")
    <3>1. failed' \in BOOLEAN /\ resp' \in Response \cup {None}
      BY <2>1, <2>5, RespondTypes DEF Response
    <3>2. /\ res' = [res EXCEPT ![i] = Backed(res[i], b, Len(b))]
          /\ b \in Backings \cup {None} /\ (b = None => Len(b) = 0)
      BY <2>1, <2>5, Zenon
    <3> QED BY <1>1, <2>1, <2>2, <3>1, <3>2, BackedKeeps, ZenonT(30)
  <2> QED BY <2>2, <2>3, <2>4, <2>5, Zenon
<1> QED BY <1>2, <1>3

LEMMA DetachStep ==
  ASSUME IInv, NEW i \in AnyId, DetachBacking(i)
  PROVE  IInv'
<1>1. ~failed
  BY DEF DetachBacking
<1>2. CASE \E type \in Response : Reject(type)
  BY <1>1, <1>2, RejectKeeps
<1>3. CASE ~\E type \in Response : Reject(type)
  <2>1. /\ Live(i) /\ i \in Id /\ failed \in BOOLEAN
        /\ res' = [res EXCEPT ![i] = Backed(res[i], None, 0)]
        /\ Respond("ok") /\ UNCHANGED <<mode, scan, shown>>
    BY <1>3 DEF DetachBacking, Response, Live, IInv, TypeOK
  <2>2. failed' \in BOOLEAN /\ resp' \in Response \cup {None}
    BY <2>1, RespondTypes DEF Response
  <2> QED BY <1>1, <2>1, <2>2, BackedKeeps, ZenonT(30)
<1> QED BY <1>2, <1>3

-----------------------------------------------------------------------------
ScanRecord == [primary : AnyId, cursor : AnyId, view : Rect]
ShownRecord == [primary : AnyId, cursor : AnyId]

(***************************************************************************)
(* A step that binds, unbinds or shows something on one scanout only.      *)
(***************************************************************************)
LEMMA ScanoutKeeps ==
  ASSUME IInv, ~failed, NEW s \in Scanout, NEW e \in ScanRecord, NEW d \in ShownRecord,
         scan' = [scan EXCEPT ![s] = e], shown' = [shown EXCEPT ![s] = d],
         e.primary # 0 =>
           /\ Live(e.primary)
           /\ RectFits(res[e.primary].w, res[e.primary].h, e.view)
           /\ e.view[3] <= mode[1] /\ e.view[4] <= mode[2],
         e.cursor # 0 => Live(e.cursor),
         d.cursor = e.cursor, e.primary = 0 => d.primary = 0,
         UNCHANGED <<mode, res>>, failed' \in BOOLEAN, resp' \in Response \cup {None}
  PROVE  IInv'
<1>1. scan \in [Scanout -> ScanRecord] /\ shown \in [Scanout -> ShownRecord]
  BY DEF IInv, TypeOK, ScanRecord, ShownRecord
<1>2. scan' \in [Scanout -> ScanRecord] /\ shown' \in [Scanout -> ShownRecord]
  BY <1>1
<1>3. TypeOK'
  BY <1>2 DEF IInv, TypeOK, ScanRecord, ShownRecord
<1>4. \A k \in Scanout : scan'[k] = (IF k = s THEN e ELSE scan[k])
                         /\ shown'[k] = (IF k = s THEN d ELSE shown[k])
  BY <1>1
<1>5. ASSUME NEW k \in Scanout
      PROVE  /\ scan'[k].primary # 0 =>
                  /\ Live(scan'[k].primary)
                  /\ RectFits(res[scan'[k].primary].w, res[scan'[k].primary].h,
                              scan'[k].view)
                  /\ scan'[k].view[3] <= mode[1] /\ scan'[k].view[4] <= mode[2]
             /\ scan'[k].cursor # 0 => Live(scan'[k].cursor)
             /\ shown'[k].cursor = scan'[k].cursor
             /\ scan'[k].primary = 0 => shown'[k].primary = 0
  <2>1. CASE k = s
    BY <1>4, <2>1
  <2>2. CASE k # s
    BY <1>4, <2>2, SMTT(60) DEF IInv, BindingsLive, ShownIsBound
  <2> QED BY <2>1, <2>2, ZenonT(30)
<1>6. \A i \in Id : Live(i) /\ res[i].iovec = None => res[i].page_cnt = 0
  BY ZenonT(30) DEF IInv, BindingsLive
<1>7. BindingsLive'
  BY <1>5, <1>6, ZenonT(30) DEF BindingsLive, Live
<1>8. ShownIsBound'
  BY <1>5, ZenonT(30) DEF ShownIsBound
<1> QED BY <1>3, <1>7, <1>8 DEF IInv

LEMMA SetScanoutStep ==
  ASSUME IInv, NEW s \in AnyScanout, NEW i \in AnyId, NEW r \in Rects, SetScanout(s, i, r)
  PROVE  IInv'
<1>1. ~failed /\ failed \in BOOLEAN
  BY DEF SetScanout, IInv, TypeOK
<1>2. CASE \E type \in Response : Reject(type)
  BY <1>1, <1>2, RejectKeeps
<1>3. CASE ~\E type \in Response : Reject(type)
  <2>1. s \in Scanout /\ Respond("ok") /\ UNCHANGED <<mode, res>>
    BY <1>3 DEF SetScanout, Response
  <2>2. /\ scan \in [Scanout -> ScanRecord] /\ shown \in [Scanout -> ShownRecord]
        /\ scan[s] \in ScanRecord /\ shown[s] \in ShownRecord
    BY <2>1 DEF IInv, TypeOK, ScanRecord, ShownRecord
  <2>3. failed' \in BOOLEAN /\ resp' \in Response \cup {None}
    BY <1>1, <2>1, RespondTypes DEF Response
  <2>4. /\ scan[s].cursor # 0 => Live(scan[s].cursor)
        /\ shown[s].cursor = scan[s].cursor
    BY <2>1 DEF IInv, BindingsLive, ShownIsBound
  <2>5. CASE i = 0
    <3> DEFINE e == [Unbound EXCEPT !.cursor = scan[s].cursor]
               d == [shown[s] EXCEPT !.primary = 0]
    <3>1. scan' = [scan EXCEPT ![s] = e] /\ shown' = [shown EXCEPT ![s] = d]
      BY <1>3, <2>1, <2>2, <2>5 DEF SetScanout, Response
    <3>2. e \in ScanRecord /\ e.primary = 0 /\ e.cursor = scan[s].cursor
      BY <2>2 DEF ScanRecord, Unbound, AnyId, Rect
    <3>3. d \in ShownRecord /\ d.primary = 0 /\ d.cursor = shown[s].cursor
      BY <2>2 DEF ShownRecord, AnyId
    <3> HIDE DEF e, d
    <3> QED BY <1>1, <2>1, <2>3, <2>4, <3>1, <3>2, <3>3, ScanoutKeeps, ZenonT(30)
  <2>6. CASE i # 0
    <3> DEFINE e == [primary |-> i, cursor |-> scan[s].cursor, view |-> r]
    <3>1. /\ Live(i) /\ RectFits(res[i].w, res[i].h, r) /\ ~(r[3] > mode[1])
          /\ ~(r[4] > mode[2])
          /\ scan' = [scan EXCEPT ![s] = e] /\ shown' = shown
      BY <1>3, <2>1, <2>2, <2>6 DEF SetScanout, Response
    <3>2. shown' = [shown EXCEPT ![s] = shown[s]]
      BY <2>2, <3>1
    <3>3. /\ e \in ScanRecord /\ e.primary = i /\ e.cursor = scan[s].cursor
          /\ e.view = r
      BY <2>2 DEF ScanRecord, Rect
    <3>4. r[3] <= mode[1] /\ r[4] <= mode[2]
      BY <3>1, ConstAssumption DEF IInv, TypeOK
    <3> HIDE DEF e
    <3>5. e.primary # 0 =>
            /\ Live(e.primary)
            /\ RectFits(res[e.primary].w, res[e.primary].h, e.view)
            /\ e.view[3] <= mode[1] /\ e.view[4] <= mode[2]
      BY <3>1, <3>3, <3>4
    <3>6. /\ e.cursor # 0 => Live(e.cursor)
          /\ shown[s].cursor = e.cursor /\ e.primary # 0
      BY <2>4, <2>6, <3>3
    <3>7. scan' = [scan EXCEPT ![s] = e] /\ e \in ScanRecord
      BY <3>1, <3>3
    <3> QED BY <1>1, <2>1, <2>2, <2>3, <3>2, <3>5, <3>6, <3>7, ScanoutKeeps, ZenonT(30)
  <2> QED BY <2>5, <2>6
<1> QED BY <1>2, <1>3

LEMMA UpdateCursorStep ==
  ASSUME IInv, NEW s \in AnyScanout, NEW i \in AnyId, NEW room \in BOOLEAN,
         UpdateCursor(s, i, room)
  PROVE  IInv'
<1>1. ~failed /\ failed \in BOOLEAN /\ resp' = None /\ mode' = mode
  BY DEF UpdateCursor, IInv, TypeOK
<1>2. \/ (failed' = TRUE \/ failed' = failed) /\ UNCHANGED stateVars
      \/ /\ s \in Scanout /\ (i # 0 => Live(i)) /\ UNCHANGED <<res, failed>>
         /\ scan' = [scan EXCEPT ![s].cursor = i] /\ shown' = [shown EXCEPT ![s].cursor = i]
  BY DEF UpdateCursor
<1>3. failed' \in BOOLEAN
  <2>1. failed' = TRUE \/ failed' = failed
    BY <1>2
  <2> QED BY <1>1, <2>1, Zenon
<1>4. CASE UNCHANGED stateVars
  BY <1>1, <1>3, <1>4, QuietKeeps
<1>5. CASE /\ s \in Scanout /\ (i # 0 => Live(i)) /\ UNCHANGED <<res, failed>>
           /\ scan' = [scan EXCEPT ![s].cursor = i]
           /\ shown' = [shown EXCEPT ![s].cursor = i]
  <2> DEFINE e == [scan[s] EXCEPT !.cursor = i]
             d == [shown[s] EXCEPT !.cursor = i]
  <2>1. /\ scan \in [Scanout -> ScanRecord] /\ shown \in [Scanout -> ShownRecord]
        /\ scan[s] \in ScanRecord /\ shown[s] \in ShownRecord
    BY <1>5 DEF IInv, TypeOK, ScanRecord, ShownRecord
  <2>2. scan' = [scan EXCEPT ![s] = e] /\ shown' = [shown EXCEPT ![s] = d]
    BY <1>5, <2>1
  <2>3. /\ e \in ScanRecord /\ e.primary = scan[s].primary /\ e.cursor = i
        /\ e.view = scan[s].view
    BY <2>1 DEF ScanRecord
  <2>4. d \in ShownRecord /\ d.primary = shown[s].primary /\ d.cursor = i
    BY <2>1 DEF ShownRecord
  <2>5. /\ scan[s].primary # 0 =>
             /\ Live(scan[s].primary)
             /\ RectFits(res[scan[s].primary].w, res[scan[s].primary].h, scan[s].view)
             /\ scan[s].view[3] <= mode[1] /\ scan[s].view[4] <= mode[2]
        /\ scan[s].primary = 0 => shown[s].primary = 0
    BY <1>5, ZenonT(30) DEF IInv, BindingsLive, ShownIsBound
  <2> HIDE DEF e, d
  <2>6. e.primary # 0 =>
          /\ Live(e.primary)
          /\ RectFits(res[e.primary].w, res[e.primary].h, e.view)
          /\ e.view[3] <= mode[1] /\ e.view[4] <= mode[2]
    BY <2>3, <2>5, ZenonT(30)
  <2>7. /\ e.cursor # 0 => Live(e.cursor)
        /\ d.cursor = e.cursor /\ (e.primary = 0 => d.primary = 0)
    BY <1>5, <2>3, <2>4, <2>5
  <2>8. e \in ScanRecord /\ d \in ShownRecord /\ resp' \in Response \cup {None}
    BY <1>1, <2>3, <2>4
  <2> QED BY <1>1, <1>3, <1>5, <2>2, <2>6, <2>7, <2>8, ScanoutKeeps, ZenonT(30)
<1> QED BY <1>2, <1>4, <1>5

-----------------------------------------------------------------------------
LEMMA UnrefStep ==
  ASSUME IInv, NEW i \in AnyId, Unref(i)
  PROVE  IInv'
<1>1. ~failed /\ failed \in BOOLEAN
  BY DEF Unref, IInv, TypeOK
<1>2. CASE \E type \in Response : Reject(type)
  BY <1>1, <1>2, RejectKeeps
<1>3. CASE ~\E type \in Response : Reject(type)
  <2> DEFINE e(s) == [primary |-> IF scan[s].primary = i THEN 0 ELSE scan[s].primary,
                      view |-> IF scan[s].primary = i THEN NoRect ELSE scan[s].view,
                      cursor |-> IF scan[s].cursor = i THEN 0 ELSE scan[s].cursor]
             d(s) == [primary |-> IF scan[s].primary = i THEN 0 ELSE shown[s].primary,
                      cursor |-> IF scan[s].cursor = i THEN 0 ELSE shown[s].cursor]
  <2>1. /\ i \in Id /\ Respond("ok") /\ mode' = mode
        /\ scan' = [s \in Scanout |-> e(s)] /\ shown' = [s \in Scanout |-> d(s)]
        /\ res' = [res EXCEPT ![i] = None]
    BY <1>3, ZenonT(30) DEF Unref, Response, Live
  <2>2. failed' \in BOOLEAN /\ resp' \in Response \cup {None}
    BY <1>1, <2>1, RespondTypes DEF Response
  <2>3. \A k \in Id : res'[k] = IF k = i THEN None ELSE res[k]
    BY <2>1, ZenonT(30) DEF IInv, TypeOK
  <2>4. ASSUME NEW s \in Scanout
        PROVE  /\ e(s) \in ScanRecord /\ d(s) \in ShownRecord
               /\ e(s).primary # 0 => e(s).primary = scan[s].primary /\ scan[s].primary # i
                                      /\ e(s).view = scan[s].view
               /\ e(s).cursor # 0 => e(s).cursor = scan[s].cursor /\ scan[s].cursor # i
               /\ d(s).cursor = e(s).cursor
               /\ e(s).primary = 0 => d(s).primary = 0
    <3>1. scan[s] \in ScanRecord /\ shown[s] \in ShownRecord
      BY DEF IInv, TypeOK, ScanRecord, ShownRecord
    <3>2. shown[s].cursor = scan[s].cursor /\ (scan[s].primary = 0 => shown[s].primary = 0)
      BY DEF IInv, ShownIsBound
    <3> QED BY <3>1, <3>2, ZenonT(30) DEF ScanRecord, ShownRecord, AnyId, Rect
  <2> HIDE DEF e, d
  <2>5. TypeOK'
    BY <2>1, <2>2, <2>4 DEF IInv, TypeOK, ScanRecord, ShownRecord
  <2>6. ShownIsBound'
    BY <2>1, <2>4 DEF ShownIsBound
  <2>7. ASSUME NEW s \in Scanout
        PROVE  /\ scan'[s].primary # 0 =>
                    /\ Live(scan[s].primary)'
                    /\ RectFits(res'[scan'[s].primary].w, res'[scan'[s].primary].h,
                                scan'[s].view)
                    /\ scan'[s].view[3] <= mode'[1] /\ scan'[s].view[4] <= mode'[2]
               /\ scan'[s].cursor # 0 => Live(scan[s].cursor)'
    <3>1. scan'[s] = e(s)
      BY <2>1
    <3>2. ASSUME scan'[s].primary # 0
          PROVE  /\ Live(scan[s].primary)'
                 /\ RectFits(res'[scan'[s].primary].w, res'[scan'[s].primary].h,
                             scan'[s].view)
                 /\ scan'[s].view[3] <= mode'[1] /\ scan'[s].view[4] <= mode'[2]
      <4>1. /\ scan'[s].primary = scan[s].primary /\ scan[s].primary # i
            /\ scan[s].primary # 0 /\ scan'[s].view = scan[s].view
        BY <2>4, <3>1, <3>2
      <4>2. /\ Live(scan[s].primary)
            /\ RectFits(res[scan[s].primary].w, res[scan[s].primary].h, scan[s].view)
            /\ scan[s].view[3] <= mode[1] /\ scan[s].view[4] <= mode[2]
        BY <4>1, ZenonT(30) DEF IInv, BindingsLive
      <4>3. res'[scan[s].primary] = res[scan[s].primary]
        BY <2>3, <4>1, <4>2, ZenonT(30) DEF Live
      <4> QED BY <2>1, <4>1, <4>2, <4>3, ZenonT(30) DEF Live
    <3>3. ASSUME scan'[s].cursor # 0
          PROVE  Live(scan[s].cursor)'
      BY <2>3, <2>4, <3>1, <3>3, SMTT(60) DEF IInv, BindingsLive, Live
    <3> QED BY <3>2, <3>3
  <2>8. \A k \in Id : Live(k)' /\ ~failed' /\ res'[k].iovec = None => res'[k].page_cnt = 0
    BY <1>1, <2>3 DEF IInv, BindingsLive, Live
  <2>9. BindingsLive'
    BY <2>7, <2>8 DEF BindingsLive
  <2> QED BY <2>5, <2>6, <2>9 DEF IInv
<1> QED BY <1>2, <1>3

LEMMA ResetStep ==
  ASSUME IInv, Reset
  PROVE  IInv'
<1>1. /\ mode' = mode /\ res' = [i \in Id |-> None] /\ resp' = None
      /\ scan' = [s \in Scanout |-> Unbound] /\ shown' = [s \in Scanout |-> Nothing]
  BY DEF Reset
<1>2. failed' \in BOOLEAN
  BY Zenon DEF Reset
<1>3. TypeOK'
  BY <1>1, <1>2 DEF IInv, TypeOK, Unbound, Nothing, AnyId, Rect
<1>4. BindingsLive'
  BY <1>1 DEF BindingsLive, Unbound, Live
<1>5. ShownIsBound'
  BY <1>1 DEF ShownIsBound, Unbound, Nothing
<1> QED BY <1>3, <1>4, <1>5 DEF IInv

LEMMA FlushStep ==
  ASSUME IInv, NEW i \in AnyId, NEW r \in Rects, NEW drop, Flush(i, r, drop)
  PROVE  IInv'
<1>1. ~failed /\ failed \in BOOLEAN
  BY DEF Flush, IInv, TypeOK
<1>2. CASE \E type \in Response : Reject(type)
  BY <1>1, <1>2, RejectKeeps
<1>3. CASE ~\E type \in Response : Reject(type)
  <2>1. /\ i \in Id /\ i # 0 /\ Respond("ok") /\ UNCHANGED <<mode, res, scan>>
        /\ shown' = [s \in Scanout |->
             IF s \in {k \in Scanout \ drop : scan[k].primary = i}
             THEN [shown[s] EXCEPT !.primary = i] ELSE shown[s]]
    BY <1>3, ConstAssumption DEF Flush, Response, Live
  <2>2. failed' \in BOOLEAN /\ resp' \in Response \cup {None}
    BY <1>1, <2>1, RespondTypes DEF Response
  <2>3. ASSUME NEW s \in Scanout
        PROVE  /\ shown'[s] \in ShownRecord /\ shown'[s].cursor = shown[s].cursor
               /\ shown'[s].primary = shown[s].primary \/ scan[s].primary = i
    <3>1. shown[s] \in ShownRecord
      BY DEF IInv, TypeOK, ShownRecord
    <3>2. \/ shown'[s] = shown[s]
          \/ shown'[s] = [shown[s] EXCEPT !.primary = i] /\ scan[s].primary = i
      BY <2>1
    <3> QED BY <2>1, <3>1, <3>2 DEF ShownRecord
  <2>4. shown' \in [Scanout -> ShownRecord]
    <3> DEFINE f(s) == IF s \in {k \in Scanout \ drop : scan[k].primary = i}
                       THEN [shown[s] EXCEPT !.primary = i] ELSE shown[s]
    <3>1. shown' = [s \in Scanout |-> f(s)]
      BY <2>1
    <3> HIDE DEF f
    <3> QED BY <2>3, <3>1
  <2>5. TypeOK'
    BY <2>1, <2>2, <2>4 DEF IInv, TypeOK, ShownRecord
  <2>6. BindingsLive'
    BY <1>1, <2>1 DEF IInv, BindingsLive, Live
  <2>7. ShownIsBound'
    BY <2>1, <2>3 DEF IInv, ShownIsBound
  <2> QED BY <2>5, <2>6, <2>7 DEF IInv
<1> QED BY <1>2, <1>3

\* The commands that only answer.
LEMMA AnswerStep ==
  ASSUME IInv,
         \/ Malformed \/ ChainTooLong \/ GetDisplayInfo
         \/ \E s \in AnyScanout : GetEdid(s) \/ MoveCursor(s)
         \/ \E i \in AnyId, r \in Rects, o \in Offsets : Transfer(i, r, o)
  PROVE  IInv' /\ UNCHANGED stateVars
<1>1. ~failed /\ failed \in BOOLEAN
  BY ZenonT(30) DEF Malformed, ChainTooLong, GetDisplayInfo, GetEdid, MoveCursor, Transfer, IInv, TypeOK
<1>2. UNCHANGED <<mode, stateVars>>
  BY ZenonT(30) DEF Malformed, ChainTooLong, GetDisplayInfo, GetEdid, MoveCursor, Transfer, Reject
<1>3. \/ resp' = None /\ (failed' = TRUE \/ \E s \in AnyScanout : failed' = (s \notin Scanout))
      \/ \E type \in Response : Respond(type)
  BY ZenonT(60) DEF Malformed, ChainTooLong, GetDisplayInfo, GetEdid, MoveCursor, Transfer, Reject, Response
<1>4. failed' \in BOOLEAN /\ resp' \in Response \cup {None}
  <2>1. CASE resp' = None /\ failed' = TRUE
    <3>1. failed' \in BOOLEAN
      BY <2>1, Zenon
    <3> QED BY <2>1, <3>1
  <2>2. CASE resp' = None /\ \E s \in AnyScanout : failed' = (s \notin Scanout)
    <3>1. failed' \in BOOLEAN
      BY <2>2, Zenon
    <3> QED BY <2>2, <3>1
  <2>3. CASE \E type \in Response : Respond(type)
    BY <1>1, <2>3, RespondTypes
  <2> QED BY <1>3, <2>1, <2>2, <2>3, Zenon
<1> QED BY <1>1, <1>2, <1>4, QuietKeeps, ZenonT(30)

(***************************************************************************)
(* The inductive invariant of the resource table and the bindings, over    *)
(* every command of the software backend (virtio-gpu-sw.c).                *)
(***************************************************************************)
THEOREM Invariant == Spec => []IInv
<1>1. IInv /\ [Next]_vars => IInv'
  <2> SUFFICES ASSUME IInv, [Next]_vars PROVE IInv'
    OBVIOUS
  <2>1. CASE Next
    BY <2>1, CreateStep, AttachStep, DetachStep, UnrefStep, ResetStep, SetScanoutStep,
       FlushStep, UpdateCursorStep, AnswerStep DEF Next
  <2>2. CASE UNCHANGED vars
    <3>1. UNCHANGED <<mode, res, scan, shown, failed, resp>>
      BY <2>2 DEF vars
    <3> QED BY <3>1, ZenonT(30) DEF IInv, TypeOK, BindingsLive, ShownIsBound, Live
  <2> QED BY <2>1, <2>2
<1> QED BY InitIInv, <1>1, PTL DEF Spec

\* The tables keep their types, whatever the guest's requests are.
THEOREM TypeCorrect == Spec => []TypeOK
BY Invariant, PTL DEF IInv

(***************************************************************************)
(* A scanout and a cursor are bound to live resources only, and the view   *)
(* lies in the resource and the scanout, for any sizes and rectangles:     *)
(* what SET_SCANOUT checked once stays true until RESOURCE_UNREF.          *)
(***************************************************************************)
THEOREM BoundResourcesLive == Spec => []BindingsLive
BY Invariant, PTL DEF IInv

(***************************************************************************)
(* The display shows the cursor that is bound and no frame of an unbound   *)
(* scanout, whatever publications were dropped.                            *)
(***************************************************************************)
THEOREM DisplayFollows == Spec => []ShownIsBound
BY Invariant, PTL DEF IInv

(***************************************************************************)
(* A command answered with an error leaves the tables, the bindings and    *)
(* the display as they were; for an ATTACH_BACKING that meets a bad entry  *)
(* this needs the invariant.                                               *)
(***************************************************************************)
THEOREM ErrorsLeaveNoTrace == Spec => ErrorsChangeNothing
<1>1. IInv /\ [Next]_vars => [resp' \in Response \ {"ok"} => UNCHANGED stateVars]_vars
  <2> SUFFICES ASSUME IInv, Next, resp' \in Response \ {"ok"}, ~UNCHANGED stateVars
               PROVE  FALSE
    OBVIOUS
  <2>1. ~Respond("ok") /\ resp' # None /\ ~\E type \in Response : Reject(type)
    BY NoneAssumption DEF Respond, Reject
  <2>2. ASSUME NEW i \in AnyId, NEW b \in Backings, NEW end \in {"ok", "bad", "nomem"},
               AttachBacking(i, b, end)
        PROVE  FALSE
    <3>1. /\ i \in Id /\ Live(i) /\ res[i] \in Resource /\ res[i].iovec = None /\ ~failed
          /\ res' = [res EXCEPT ![i] = Backed(res[i], None, 0)]
          /\ UNCHANGED <<hostmem, scan, shown>>
          /\ res \in [Id -> Resource \cup {None}]
      BY <2>1, <2>2 DEF AttachBacking, Response, Live, IInv, TypeOK
    <3>2. res[i].page_cnt = 0
      BY <3>1, ZenonT(30) DEF IInv, BindingsLive
    <3>3. Backed(res[i], None, 0) = res[i]
      BY <3>1, <3>2, ZenonT(30) DEF Backed, Resource
    <3> QED BY <3>1, <3>3 DEF stateVars
  <2>3. ASSUME NEW i \in AnyId, NEW z \in Sizes, NEW known \in BOOLEAN, Create2d(i, z, known)
        PROVE  FALSE
    BY <2>1, <2>3 DEF Create2d, Response
  <2>4. ASSUME NEW i \in AnyId, Unref(i) \/ DetachBacking(i)
        PROVE  FALSE
    BY <2>1, <2>4 DEF Unref, DetachBacking, Response
  <2>5. ASSUME NEW s \in AnyScanout, NEW i \in AnyId, NEW r \in Rects, SetScanout(s, i, r)
        PROVE  FALSE
    BY <2>1, <2>5 DEF SetScanout, Response
  <2>6. ASSUME NEW i \in AnyId, NEW r \in Rects, NEW drop, Flush(i, r, drop)
        PROVE  FALSE
    BY <2>1, <2>6 DEF Flush, Response
  <2>7. ASSUME NEW s \in AnyScanout, NEW i \in AnyId, NEW room \in BOOLEAN,
               UpdateCursor(s, i, room)
        PROVE  FALSE
    BY <2>1, <2>7 DEF UpdateCursor
  <2>8. ~Reset
    BY <2>1 DEF Reset
  <2> QED BY <2>2, <2>3, <2>4, <2>5, <2>6, <2>7, <2>8, AnswerStep DEF Next
<1> QED BY Invariant, <1>1, PTL DEF Spec, ErrorsChangeNothing

-----------------------------------------------------------------------------
(* The sum of the image sizes.  MapThenSumSet is a recursive function on   *)
(* the subsets of Id that takes out a chosen element; what follows shows   *)
(* that it has a value, and that any element may be taken out first.       *)

Pick(s) == CHOOSE x \in s : TRUE

\* t is the sum of g over each subset of Id.
IsSum(t, g) ==
  t = [s \in SUBSET Id |-> IF s = {} THEN 0 ELSE g[Pick(s)] + t[s \ {Pick(s)}]]

SubsetSum(g) == CHOOSE t : IsSum(t, g)

\* The image sizes of a resource table.
Image(r, i) == IF r[i] = None THEN 0 ELSE r[i].w * r[i].h
Images(r) == [i \in Id |-> Image(r, i)]

LEMMA PickIn ==
  ASSUME NEW s \in SUBSET Id, s # {}
  PROVE  Pick(s) \in s /\ Pick(s) \in Id /\ s \ {Pick(s)} \in SUBSET Id
<1>1. Pick(s) \in s
  BY Zenon DEF Pick
<1> QED BY <1>1

\* Equal conditions choose the same.
LEMMA ImagesSum ==
  ASSUME NEW r
  PROVE  (CHOOSE t : t = [s \in SUBSET Id |->
            IF s = {} THEN 0 ELSE Image(r, Pick(s)) + t[s \ {Pick(s)}]]) = SubsetSum(Images(r))
<1>1. ASSUME NEW t
      PROVE  [s \in SUBSET Id |-> IF s = {} THEN 0 ELSE Image(r, Pick(s)) + t[s \ {Pick(s)}]]
             = [s \in SUBSET Id |-> IF s = {} THEN 0 ELSE Images(r)[Pick(s)] + t[s \ {Pick(s)}]]
  <2>1. \A s \in SUBSET Id : s # {} => Images(r)[Pick(s)] = Image(r, Pick(s))
    BY PickIn, Zenon DEF Images
  <2> QED BY <2>1, Zenon
<1>2. \A t : t = [s \in SUBSET Id |->
                    IF s = {} THEN 0 ELSE Image(r, Pick(s)) + t[s \ {Pick(s)}]]
             <=> IsSum(t, Images(r))
  BY <1>1, Zenon DEF IsSum
<1> QED BY <1>2, Zenon DEF SubsetSum

LEMMA TableSum ==
  MapThenSumSet(ImageSize, Id) = SubsetSum(Images(res))[Id]
<1>1. MapThenSumSet(ImageSize, Id) =
        (CHOOSE t : t = [s \in SUBSET Id |->
           IF s = {} THEN 0 ELSE Image(res, Pick(s)) + t[s \ {Pick(s)}]])[Id]
  BY Zenon DEF MapThenSumSet, MapThenFoldSet, Pick, ImageSize, Image
<1> QED BY <1>1, ImagesSum, Zenon

LEMMA TableSumNext ==
  MapThenSumSet(ImageSize, Id)' = SubsetSum(Images(res'))[Id]
<1>1. MapThenSumSet(ImageSize, Id)' =
        (CHOOSE t : t = [s \in SUBSET Id |->
           IF s = {} THEN 0 ELSE Image(res', Pick(s)) + t[s \ {Pick(s)}]])[Id]
  BY Zenon DEF MapThenSumSet, MapThenFoldSet, Pick, ImageSize, Image
<1> QED BY <1>1, ImagesSum, Zenon

\* Induction over the numbers, and over the subsets of Id by their size.
LEMMA NatSet ==
  ASSUME NEW P \in SUBSET Nat, 0 \in P, \A n \in P : n + 1 \in P
  PROVE  P = Nat
<1> SUFFICES ASSUME NEW x \in Nat \ P PROVE FALSE
  BY Zenon
<1>1. IsWellFoundedOn(OpToRel(<, Nat), Nat)
  BY NatLessThanWellFounded, Zenon
<1>2. PICK y \in Nat \ P : \A z \in Nat \ P : ~(<<z, y>> \in OpToRel(<, Nat))
  <2>1. Nat \ P \subseteq Nat /\ Nat \ P # {}
    OBVIOUS
  <2> QED BY <1>1, <2>1, WFMin, Zenon
<1>3. \A z \in Nat \ P : ~(z < y)
  BY <1>2, Zenon DEF OpToRel
<1>4. y # 0 /\ y - 1 \in Nat /\ (y - 1) + 1 = y /\ y - 1 < y
  OBVIOUS
<1> QED BY <1>3, <1>4

LEMMA SubsetSet ==
  ASSUME NEW P \in SUBSET SUBSET Id,
         \A s \in SUBSET Id : (\A x \in s : s \ {x} \in P) => s \in P
  PROVE  P = SUBSET Id
<1> DEFINE Q == {n \in Nat : \A s \in SUBSET Id : Cardinality(s) = n => s \in P}
<1>1. \A s \in SUBSET Id : IsFiniteSet(s) /\ Cardinality(s) \in Nat
  BY ConstAssumption, FS_Subset, FS_CardinalityType, Zenon
<1>2. 0 \in Q
  BY <1>1, FS_EmptySet
<1>3. ASSUME NEW n \in Q PROVE n + 1 \in Q
  <2> SUFFICES ASSUME NEW s \in SUBSET Id, Cardinality(s) = n + 1, NEW x \in s
               PROVE  s \ {x} \in P
    OBVIOUS
  <2>1. Cardinality(s \ {x}) = Cardinality(s) - 1 /\ s \ {x} \in SUBSET Id
    BY <1>1, FS_RemoveElement, Zenon
  <2>2. Cardinality(s \ {x}) = n
    BY <2>1
  <2> QED BY <2>1, <2>2
<1> HIDE DEF Q
<1>4. Q = Nat
  <2>1. Q \in SUBSET Nat
    BY DEF Q
  <2> QED BY <1>2, <1>3, <2>1, NatSet, Zenon
<1> QED BY <1>1, <1>4 DEF Q

\* The sums exist: those of the sets of at most n elements, for every n.
LEMMA SumExists ==
  ASSUME NEW g \in [Id -> Nat]
  PROVE  \E t : IsSum(t, g)
<1> DEFINE Body(t, s) == IF s = {} THEN 0 ELSE g[Pick(s)] + t[s \ {Pick(s)}]
           Upto(t, n) == \A s \in SUBSET Id : Cardinality(s) <= n => t[s] = Body(t, s)
           Q == {n \in Nat : \E t \in [SUBSET Id -> Nat] : Upto(t, n)}
<1>1. \A s \in SUBSET Id : IsFiniteSet(s) /\ Cardinality(s) \in Nat
  BY ConstAssumption, FS_Subset, FS_CardinalityType, Zenon
<1>2. ASSUME NEW s \in SUBSET Id, s # {}
      PROVE  Cardinality(s \ {Pick(s)}) = Cardinality(s) - 1
  BY <1>1, <1>2, PickIn, FS_RemoveElement
<1>3. \A t \in [SUBSET Id -> Nat], s \in SUBSET Id : Body(t, s) \in Nat
  BY PickIn
<1>4. 0 \in Q
  <2> DEFINE t == [s \in SUBSET Id |-> 0]
  <2>1. t \in [SUBSET Id -> Nat]
    OBVIOUS
  <2>2. ASSUME NEW s \in SUBSET Id, Cardinality(s) <= 0 PROVE t[s] = Body(t, s)
    <3>1. s = {}
      BY <1>1, <2>2, FS_EmptySet
    <3> QED BY <3>1
  <2> HIDE DEF t
  <2> QED BY <2>1, <2>2, ZenonT(30)
<1>5. ASSUME NEW n \in Q PROVE n + 1 \in Q
  <2>1. PICK t \in [SUBSET Id -> Nat] : Upto(t, n)
    BY Zenon
  <2> DEFINE u == [s \in SUBSET Id |-> IF Cardinality(s) <= n THEN t[s] ELSE Body(t, s)]
  <2>2. u \in [SUBSET Id -> Nat]
    BY <1>3, ZenonT(60)
  <2>3. ASSUME NEW s \in SUBSET Id, Cardinality(s) <= n + 1 PROVE u[s] = Body(u, s)
    <3>1. u[s] = Body(t, s)
      BY <2>1, ZenonT(30)
    <3>2. CASE s = {}
      BY <3>1, <3>2, ZenonT(30)
    <3>3. CASE s # {}
      <4>1. s \ {Pick(s)} \in SUBSET Id /\ Cardinality(s \ {Pick(s)}) <= n
        BY <1>1, <1>2, <2>3, <3>3, PickIn, SMTT(60)
      <4>2. u[s \ {Pick(s)}] = t[s \ {Pick(s)}]
        BY <4>1
      <4> QED BY <3>1, <3>3, <4>2, ZenonT(30)
    <3> QED BY <3>2, <3>3, ZenonT(30)
  <2> HIDE DEF u
  <2>4. Upto(u, n + 1)
    BY <2>3, Zenon
  <2>5. n + 1 \in Nat
    BY SMTT(60)
  <2> QED BY <2>2, <2>4, <2>5, Zenon
<1>6. Q = Nat
  <2> HIDE DEF Q
  <2>1. Q \in SUBSET Nat
    BY DEF Q
  <2> QED BY <1>4, <1>5, <2>1, NatSet, Zenon
<1>7. Cardinality(Id) \in Nat /\ \A s \in SUBSET Id : Cardinality(s) <= Cardinality(Id)
  BY ConstAssumption, FS_Subset, FS_CardinalityType, Zenon
<1>8. PICK t \in [SUBSET Id -> Nat] : Upto(t, Cardinality(Id))
  BY <1>6, <1>7, Zenon
<1>9. t = [s \in SUBSET Id |-> Body(t, s)]
  BY <1>7, <1>8, Zenon
<1>10. IsSum(t, g)
  BY <1>9, Zenon DEF IsSum
<1> QED BY <1>10

LEMMA SumIs ==
  ASSUME NEW g \in [Id -> Nat]
  PROVE  /\ SubsetSum(g)[{}] = 0
         /\ \A s \in SUBSET Id :
              /\ s # {} => SubsetSum(g)[s] = g[Pick(s)] + SubsetSum(g)[s \ {Pick(s)}]
              /\ SubsetSum(g)[s] \in Nat
<1> DEFINE t == SubsetSum(g)
<1>1. IsSum(t, g)
  BY SumExists, Zenon DEF SubsetSum
<1> HIDE DEF t
<1>2. /\ t[{}] = 0
      /\ \A s \in SUBSET Id : s # {} => t[s] = g[Pick(s)] + t[s \ {Pick(s)}]
  BY <1>1, Zenon DEF IsSum
<1> DEFINE P == {s \in SUBSET Id : t[s] \in Nat}
<1>3. ASSUME NEW s \in SUBSET Id, \A x \in s : s \ {x} \in P PROVE s \in P
  <2>1. CASE s = {}
    BY <1>2, <2>1
  <2>2. CASE s # {}
    <3>1. Pick(s) \in Id /\ s \ {Pick(s)} \in P
      BY <1>3, <2>2, PickIn, Zenon
    <3>2. g[Pick(s)] \in Nat /\ t[s \ {Pick(s)}] \in Nat
      BY <3>1, ZenonT(30)
    <3>3. t[s] = g[Pick(s)] + t[s \ {Pick(s)}]
      BY <1>2, <2>2, Zenon
    <3> QED BY <3>2, <3>3
  <2> QED BY <2>1, <2>2
<1> HIDE DEF P
<1>4. P = SUBSET Id
  <2>1. P \in SUBSET SUBSET Id
    BY Zenon DEF P
  <2> QED BY <1>3, <2>1, SubsetSet, Zenon
<1>5. \A s \in SUBSET Id : t[s] \in Nat
  BY <1>4, Zenon DEF P
<1> QED BY <1>2, <1>5, Zenon DEF t

\* Any element may be taken out first.
LEMMA SumTakesOut ==
  ASSUME NEW g \in [Id -> Nat], NEW r \in SUBSET Id, NEW y \in r
  PROVE  SubsetSum(g)[r] = g[y] + SubsetSum(g)[r \ {y}]
<1> DEFINE t == SubsetSum(g)
           P == {s \in SUBSET Id : \A x \in s : t[s] = g[x] + t[s \ {x}]}
<1>1. \A s \in SUBSET Id : /\ s # {} => t[s] = g[Pick(s)] + t[s \ {Pick(s)}]
                           /\ t[s] \in Nat
  BY SumIs, ZenonT(60)
<1> HIDE DEF t
<1>2. ASSUME NEW s \in SUBSET Id, \A x \in s : s \ {x} \in P, NEW x \in s
      PROVE  t[s] = g[x] + t[s \ {x}]
  <2> DEFINE p == Pick(s)
  <2>1. p \in s /\ p \in Id /\ x \in Id /\ t[s] = g[p] + t[s \ {p}]
    BY <1>1, PickIn, ZenonT(30)
  <2> HIDE DEF p
  <2>2. CASE x = p
    BY <2>1, <2>2, ZenonT(30)
  <2>3. CASE x # p
    <3> DEFINE a == s \ {p}  b == s \ {x}  c == s \ {p, x}
    <3>1. a \in P /\ b \in P /\ x \in a /\ p \in b /\ a \ {x} = c /\ b \ {p} = c
      BY <1>2, <2>1, <2>3, ZenonT(30)
    <3>2. t[a] = g[x] + t[a \ {x}] /\ t[b] = g[p] + t[b \ {p}]
      BY <3>1, Zenon DEF P
    <3>3. t[a] = g[x] + t[c] /\ t[b] = g[p] + t[c]
      BY <3>1, <3>2, Zenon
    <3>4. t[c] \in Nat /\ g[x] \in Nat /\ g[p] \in Nat
      BY <1>1, <2>1, ZenonT(60)
    <3>5. t[s] = g[p] + t[a]
      BY <2>1, ZenonT(30)
    <3> HIDE DEF a, b, c
    <3>6. t[s] = g[x] + t[b]
      BY <3>3, <3>4, <3>5, SMTT(60)
    <3> QED BY <3>6, ZenonT(60) DEF b
  <2> QED BY <2>2, <2>3, ZenonT(30)
<1> HIDE DEF P
<1>3. P = SUBSET Id
  <2>1. P \in SUBSET SUBSET Id
    BY Zenon DEF P
  <2>2. \A s \in SUBSET Id : (\A x \in s : s \ {x} \in P) => s \in P
    BY <1>2, Zenon DEF P
  <2> QED BY <2>1, <2>2, SubsetSet, Zenon
<1> QED BY <1>3, Zenon DEF P, t

\* The sum depends on the elements of the set only.
LEMMA SumAgrees ==
  ASSUME NEW g \in [Id -> Nat], NEW h \in [Id -> Nat], NEW r \in SUBSET Id,
         \A i \in r : g[i] = h[i]
  PROVE  SubsetSum(g)[r] = SubsetSum(h)[r]
<1> DEFINE t == SubsetSum(g)
           u == SubsetSum(h)
           P == {s \in SUBSET Id : (\A i \in s : g[i] = h[i]) => t[s] = u[s]}
<1>1. /\ t[{}] = 0 /\ u[{}] = 0
      /\ \A s \in SUBSET Id : s # {} => /\ t[s] = g[Pick(s)] + t[s \ {Pick(s)}]
                                        /\ u[s] = h[Pick(s)] + u[s \ {Pick(s)}]
  BY SumIs, Zenon
<1> HIDE DEF t, u
<1>2. ASSUME NEW s \in SUBSET Id, \A x \in s : s \ {x} \in P, \A i \in s : g[i] = h[i]
      PROVE  t[s] = u[s]
  <2>1. CASE s = {}
    BY <1>1, <2>1, ZenonT(30)
  <2>2. CASE s # {}
    <3>1. Pick(s) \in s /\ s \ {Pick(s)} \in P
      BY <1>2, <2>2, PickIn, Zenon
    <3>2. t[s \ {Pick(s)}] = u[s \ {Pick(s)}]
      BY <1>2, <3>1, ZenonT(30)
    <3> QED BY <1>1, <1>2, <2>2, <3>1, <3>2, Zenon
  <2> QED BY <2>1, <2>2, ZenonT(30)
<1> HIDE DEF P
<1>3. P = SUBSET Id
  <2>1. P \in SUBSET SUBSET Id
    BY Zenon DEF P
  <2>2. \A s \in SUBSET Id : (\A x \in s : s \ {x} \in P) => s \in P
    BY <1>2, Zenon DEF P
  <2> QED BY <2>1, <2>2, SubsetSet, Zenon
<1> QED BY <1>3, Zenon DEF P, t, u

LEMMA SumOfNothing ==
  ASSUME NEW g \in [Id -> Nat], \A i \in Id : g[i] = 0
  PROVE  SubsetSum(g)[Id] = 0
<1> DEFINE t == SubsetSum(g)
           P == {s \in SUBSET Id : t[s] = 0}
<1>1. t[{}] = 0 /\ \A s \in SUBSET Id : s # {} => t[s] = g[Pick(s)] + t[s \ {Pick(s)}]
  BY SumIs, Zenon
<1> HIDE DEF t
<1>2. ASSUME NEW s \in SUBSET Id, \A x \in s : s \ {x} \in P PROVE s \in P
  <2>1. CASE s = {}
    BY <1>1, <2>1, ZenonT(30)
  <2>2. CASE s # {}
    <3>1. Pick(s) \in s /\ Pick(s) \in Id /\ s \ {Pick(s)} \in P
      BY <1>2, <2>2, PickIn, Zenon
    <3> QED BY <1>1, <2>2, <3>1, SMTT(60)
  <2> QED BY <2>1, <2>2, ZenonT(30)
<1> HIDE DEF P
<1>3. P = SUBSET Id
  <2>1. P \in SUBSET SUBSET Id
    BY Zenon DEF P
  <2> QED BY <1>2, <2>1, SubsetSet, Zenon
<1> QED BY <1>3, Zenon DEF P, t

Table == [Id -> Resource \cup {None}]
TableSize(r) == SubsetSum(Images(r))[Id]

LEMMA ImageType ==
  ASSUME NEW r \in Table
  PROVE  /\ \A i \in Id : Image(r, i) \in Nat
         /\ Images(r) \in [Id -> Nat] /\ TableSize(r) \in Nat
<1>1. ASSUME NEW i \in Id PROVE Image(r, i) \in Nat
  <2>1. r[i] # None => r[i].w \in Nat /\ r[i].h \in Nat
    BY DEF Table, Resource
  <2>2. \A a \in Nat, b \in Nat : a * b \in Nat
    OBVIOUS
  <2> QED BY <2>1, <2>2, ZenonT(30) DEF Image
<1>2. Images(r) \in [Id -> Nat]
  BY <1>1 DEF Images
<1>3. Id \in SUBSET Id
  OBVIOUS
<1>4. TableSize(r) \in Nat
  BY <1>2, <1>3, SumIs, Zenon DEF TableSize
<1> QED BY <1>1, <1>2, <1>4

\* What changing one entry of the table does to the sum.
LEMMA TableUpdate ==
  ASSUME NEW r \in Table, NEW i \in Id, NEW e \in Resource \cup {None},
         NEW q, q = [r EXCEPT ![i] = e]
  PROVE  q \in Table /\ TableSize(q) + Image(r, i) = TableSize(r) + Image(q, i)
<1>1. q \in Table /\ \A k \in Id : q[k] = IF k = i THEN e ELSE r[k]
  BY DEF Table
<1> DEFINE g == Images(r)  h == Images(q)  rest == Id \ {i}
<1>2. g \in [Id -> Nat] /\ h \in [Id -> Nat] /\ g[i] = Image(r, i) /\ h[i] = Image(q, i)
  BY <1>1, ImageType DEF Images
<1>3. \A k \in rest : g[k] = h[k]
  BY <1>1 DEF Images, Image
<1>4. Id \in SUBSET Id /\ rest \in SUBSET Id
  OBVIOUS
<1> HIDE DEF g, h, rest
<1>5. SubsetSum(g)[rest] = SubsetSum(h)[rest]
  BY <1>2, <1>3, <1>4, SumAgrees, Zenon
<1>6. /\ SubsetSum(g)[Id] = g[i] + SubsetSum(g)[rest]
      /\ SubsetSum(h)[Id] = h[i] + SubsetSum(h)[rest]
  BY <1>2, <1>4, SumTakesOut, Zenon DEF rest
<1>7. SubsetSum(g)[rest] \in Nat
  BY <1>2, <1>4, SumIs, Zenon
<1>8. g[i] \in Nat /\ h[i] \in Nat
  BY <1>2
<1>9. SubsetSum(h)[Id] + g[i] = SubsetSum(g)[Id] + h[i]
  BY <1>5, <1>6, <1>7, <1>8, SMTT(60)
<1> QED BY <1>1, <1>2, <1>9, Zenon DEF TableSize, g, h

LEMMA EmptyTable ==
  ASSUME NEW r, r = [i \in Id |-> None]
  PROVE  r \in Table /\ TableSize(r) = 0
<1>1. r \in Table /\ Images(r) \in [Id -> Nat] /\ \A i \in Id : Images(r)[i] = 0
  BY DEF Table, Images, Image
<1> QED BY <1>1, SumOfNothing, Zenon DEF TableSize

-----------------------------------------------------------------------------
(* hostmem.                                                                *)

\* Which commands touch the table or hostmem, and how.
Creates(i, w, h) ==
  /\ ~Live(i) /\ w * h <= MaxHostmem /\ hostmem <= MaxHostmem - w * h
  /\ res' = [res EXCEPT ![i] = [w |-> w, h |-> h, iovec |-> None, page_cnt |-> 0]]
  /\ hostmem' = hostmem + w * h

Rebacks(i, iovec, n) ==
  Live(i) /\ res' = [res EXCEPT ![i] = Backed(res[i], iovec, n)] /\ hostmem' = hostmem

Destroys(i) ==
  Live(i) /\ res' = [res EXCEPT ![i] = None] /\ hostmem' = hostmem - ImageSize(i)

LEMMA TableSteps ==
  ASSUME TypeOK, hostmem \in Nat, [Next]_vars
  PROVE  \/ UNCHANGED <<res, hostmem>> \/ Reset
         \/ \E i \in Id, w \in Nat, h \in Nat : Creates(i, w, h)
         \/ \E i \in Id, iovec \in Backings \cup {None}, n \in Nat : Rebacks(i, iovec, n)
         \/ \E i \in Id : Destroys(i)
<1>1. ASSUME NEW type, Reject(type) PROVE UNCHANGED <<res, hostmem>>
  BY <1>1, Zenon DEF Reject, stateVars
<1>2. ASSUME NEW i \in AnyId, NEW z \in Sizes, NEW known \in BOOLEAN, Create2d(i, z, known)
      PROVE  \/ UNCHANGED <<res, hostmem>>
             \/ \E j \in Id, w \in Nat, h \in Nat : Creates(j, w, h)
  <2> DEFINE image == z[1] * z[2]
  <2>1. \/ UNCHANGED <<res, hostmem>>
        \/ /\ i # 0 /\ ~Live(i) /\ ~(image > MaxHostmem) /\ ~(hostmem > MaxHostmem - image)
           /\ res' = [res EXCEPT ![i] =
                [w |-> z[1], h |-> z[2], iovec |-> None, page_cnt |-> 0]]
           /\ hostmem' = hostmem + image
    BY <1>1, <1>2, Zenon DEF Create2d
  <2>2. z[1] \in Nat /\ z[2] \in Nat
    BY ConstAssumption, ZenonT(30)
  <2>3. image \in Nat /\ MaxHostmem \in Nat
    BY <2>2, ConstAssumption, SMTT(60)
  <2>4. /\ ~(image > MaxHostmem) => image <= MaxHostmem
        /\ ~(hostmem > MaxHostmem - image) => hostmem <= MaxHostmem - image
    <3> HIDE DEF image
    <3> QED BY <2>3
  <2>5. i # 0 => i \in Id
    BY ZenonT(30) DEF AnyId
  <2> QED BY <2>1, <2>2, <2>4, <2>5, Zenon DEF Creates
<1>3. ASSUME NEW i \in AnyId, Unref(i)
      PROVE  UNCHANGED <<res, hostmem>> \/ \E j \in Id : Destroys(j)
  BY <1>1, <1>3, Zenon DEF Unref, Destroys, Live
<1>4. ASSUME NEW i \in AnyId, DetachBacking(i)
      PROVE  \/ UNCHANGED <<res, hostmem>>
             \/ \E j \in Id, iovec \in Backings \cup {None}, n \in Nat : Rebacks(j, iovec, n)
  <2>1. None \in Backings \cup {None} /\ 0 \in Nat
    OBVIOUS
  <2> QED BY <1>1, <1>4, <2>1, Zenon DEF DetachBacking, Rebacks, Live
<1>5. ASSUME NEW i \in AnyId, NEW b \in Backings, NEW e, AttachBacking(i, b, e)
      PROVE  \/ UNCHANGED <<res, hostmem>>
             \/ \E j \in Id, iovec \in Backings \cup {None}, n \in Nat : Rebacks(j, iovec, n)
  <2>1. /\ None \in Backings \cup {None} /\ b \in Backings \cup {None} /\ 0 \in Nat
        /\ Len(b) \in Nat
    BY ConstAssumption, SMTT(60)
  <2>2. \/ UNCHANGED <<res, hostmem>>
        \/ i \in Id /\ (Rebacks(i, None, Len(b)) \/ Rebacks(i, None, 0) \/ Rebacks(i, b, Len(b)))
    BY <1>1, <1>5, Zenon DEF AttachBacking, Rebacks, Live
  <2> QED BY <2>1, <2>2, Zenon
<1>6. ASSUME NEW s, NEW i, NEW r, SetScanout(s, i, r) PROVE UNCHANGED <<res, hostmem>>
  BY <1>1, <1>6, Zenon DEF SetScanout
<1>7. ASSUME NEW i, NEW r, NEW d, Flush(i, r, d) PROVE UNCHANGED <<res, hostmem>>
  BY <1>1, <1>7, Zenon DEF Flush
<1>8. ASSUME NEW s, NEW i, NEW room, UpdateCursor(s, i, room) PROVE UNCHANGED <<res, hostmem>>
  BY <1>8, Zenon DEF UpdateCursor, stateVars
<1>9. ASSUME NEW i, NEW r, NEW o, Transfer(i, r, o) PROVE UNCHANGED <<res, hostmem>>
  BY <1>1, <1>9, Zenon DEF Transfer, stateVars
<1>10. ASSUME NEW s, GetEdid(s) \/ MoveCursor(s) PROVE UNCHANGED <<res, hostmem>>
  BY <1>1, <1>10, Zenon DEF GetEdid, MoveCursor, stateVars
<1>11. Malformed \/ ChainTooLong \/ GetDisplayInfo \/ UNCHANGED vars => UNCHANGED <<res, hostmem>>
  BY <1>1, Zenon DEF Malformed, ChainTooLong, GetDisplayInfo, stateVars, vars
<1> QED BY <1>2, <1>3, <1>4, <1>5, <1>6, <1>7, <1>8, <1>9, <1>10, <1>11, ZenonT(60) DEF Next

LEMMA HostmemStep ==
  ASSUME TypeOK, HostmemExact, [Next]_vars
  PROVE  HostmemExact'
<1>1. res \in Table /\ MaxHostmem \in Nat
  BY ConstAssumption DEF TypeOK, Table
<1>2. hostmem = TableSize(res) /\ hostmem <= MaxHostmem /\ TableSize(res) \in Nat
  BY <1>1, TableSum, ImageType, SMTT(60) DEF HostmemExact, TableSize
<1> SUFFICES hostmem' = TableSize(res') /\ hostmem' \in 0 .. MaxHostmem
  BY TableSumNext, Zenon DEF HostmemExact, TableSize
<1>3. CASE UNCHANGED <<res, hostmem>>
  BY <1>1, <1>2, <1>3, SMTT(60)
<1>4. CASE Reset
  <2>1. res' = [i \in Id |-> None] /\ hostmem' = hostmem - hostmem
    BY <1>4, Zenon DEF Reset, HostmemExact
  <2>2. TableSize(res') = 0
    BY <2>1, EmptyTable, Zenon
  <2> QED BY <1>1, <1>2, <2>1, <2>2
<1>5. ASSUME NEW i \in Id, NEW w \in Nat, NEW h \in Nat, Creates(i, w, h)
      PROVE  hostmem' = TableSize(res') /\ hostmem' \in 0 .. MaxHostmem
  <2> DEFINE e == [w |-> w, h |-> h, iovec |-> None, page_cnt |-> 0]
             image == w * h
  <2>1. e \in Resource /\ e # None /\ e.w = w /\ e.h = h /\ image \in Nat
    BY NoneAssumption, SMTT(60) DEF Resource
  <2>2. /\ res' = [res EXCEPT ![i] = e] /\ hostmem' = hostmem + image
        /\ image <= MaxHostmem /\ hostmem <= MaxHostmem - image /\ res[i] = None
    BY <1>5, Zenon DEF Creates, Live
  <2>3. Image(res, i) = 0 /\ Image(res', i) = image
    BY <1>1, <2>1, <2>2, ZenonT(30) DEF Image, Table
  <2> HIDE DEF e, image
  <2>4. TableSize(res') + Image(res, i) = TableSize(res) + Image(res', i) /\ res' \in Table
    BY <1>1, <2>1, <2>2, TableUpdate, ZenonT(60)
  <2>5. TableSize(res') \in Nat
    BY <2>4, ImageType, Zenon
  <2> QED BY <1>1, <1>2, <2>1, <2>2, <2>3, <2>4, <2>5, SMTT(60)
<1>6. ASSUME NEW i \in Id, NEW iovec \in Backings \cup {None}, NEW n \in Nat, Rebacks(i, iovec, n)
      PROVE  hostmem' = TableSize(res') /\ hostmem' \in 0 .. MaxHostmem
  <2> DEFINE e == Backed(res[i], iovec, n)
  <2>1. res[i] # None /\ res[i] \in Resource /\ res' = [res EXCEPT ![i] = e] /\ hostmem' = hostmem
    BY <1>1, <1>6, ZenonT(30) DEF Rebacks, Live, Table
  <2>2. e \in Resource /\ e # None /\ e.w = res[i].w /\ e.h = res[i].h
    BY <2>1, NoneAssumption, SMTT(60) DEF Backed, Resource
  <2> HIDE DEF e
  <2>3. Image(res', i) = Image(res, i)
    BY <1>1, <2>1, <2>2, ZenonT(30) DEF Image, Table
  <2>4. TableSize(res') + Image(res, i) = TableSize(res) + Image(res', i) /\ res' \in Table
    BY <1>1, <2>1, <2>2, TableUpdate, ZenonT(60)
  <2>5. TableSize(res') \in Nat /\ Image(res, i) \in Nat
    BY <1>1, <2>4, ImageType, Zenon
  <2> QED BY <1>1, <1>2, <2>1, <2>3, <2>4, <2>5
<1>7. ASSUME NEW i \in Id, Destroys(i)
      PROVE  hostmem' = TableSize(res') /\ hostmem' \in 0 .. MaxHostmem
  <2>1. res' = [res EXCEPT ![i] = None] /\ hostmem' = hostmem - Image(res, i)
    BY <1>7, Zenon DEF Destroys, ImageSize, Image
  <2>2. Image(res', i) = 0
    BY <1>1, <2>1 DEF Image, Table
  <2>3. TableSize(res') + Image(res, i) = TableSize(res) + Image(res', i) /\ res' \in Table
    BY <1>1, <2>1, TableUpdate, ZenonT(60)
  <2>4. TableSize(res') \in Nat /\ Image(res, i) \in Nat
    BY <1>1, <2>3, ImageType, Zenon
  <2> QED BY <1>1, <1>2, <2>1, <2>2, <2>3, <2>4
<1>8. hostmem \in Nat
  BY <1>2
<1> QED BY <1>3, <1>4, <1>5, <1>6, <1>7, <1>8, TableSteps, Zenon

(***************************************************************************)
(* g_vgpu_sw_hostmem is the size of the live images and within the cap,    *)
(* for any ids, sizes and cap, after any sequence of creations, refused or *)
(* not, unrefs and device resets: vgpu_sw_destroy_resource_2d subtracts    *)
(* what RESOURCE_CREATE_2D added, once.                                    *)
(***************************************************************************)
THEOREM HostmemAccounted == Spec => []HostmemExact
<1>1. Init => HostmemExact
  <2> SUFFICES ASSUME Init PROVE HostmemExact
    OBVIOUS
  <2>1. res = [i \in Id |-> None] /\ hostmem = 0
    BY Zenon DEF Init
  <2>2. TableSize(res) = 0
    BY <2>1, EmptyTable, Zenon
  <2>3. 0 \in 0 .. MaxHostmem
    BY ConstAssumption
  <2> QED BY <2>1, <2>2, <2>3, TableSum, Zenon DEF HostmemExact, TableSize
<1>2. TypeOK /\ HostmemExact /\ [Next]_vars => HostmemExact'
  BY HostmemStep, Zenon
<1> QED BY <1>1, <1>2, TypeCorrect, PTL DEF Spec

=============================================================================
