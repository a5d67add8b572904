---------------------------- MODULE HartMmuProofs ----------------------------
(***************************************************************************)
(* What the caches of a hart promise, for any number of pages, words,      *)
(* blocks and ways, any page tables and any ranges of remote fences.       *)
(*                                                                         *)
(* The proofs of CachesCoherent look at a step only through what it does   *)
(* to the caches and to what they depend on (Effect): a flush, a fence,    *)
(* a fill, a changed entry, or nothing.                                    *)
(***************************************************************************)
EXTENDS HartMmu, Integers, TLAPS

Block0 == 0 .. NIndex - 1

-----------------------------------------------------------------------------
(* Arithmetic: a page is the tag and the index of its block.               *)

LEMMA DivMod ==
  ASSUME NEW n \in Nat \ {0}, NEW a \in Nat
  PROVE  /\ a \div n \in Nat /\ (a % n) \in 0 .. n - 1
         /\ (a \div n) * n + (a % n) = a
OBVIOUS

LEMMA DivUnique ==
  ASSUME NEW n \in Nat \ {0}, NEW q \in Nat, NEW r \in 0 .. n - 1
  PROVE  (q * n + r) \div n = q /\ (q * n + r) % n = r
OBVIOUS

LEMMA DivMono ==
  ASSUME NEW n \in Nat \ {0}, NEW a \in Nat, NEW b \in Nat, a <= b
  PROVE  a \div n <= b \div n
OBVIOUS

LEMMA DivBound ==
  ASSUME NEW n \in Nat \ {0}, NEW a \in Nat, NEW m \in Nat \ {0}, a \div n <= m - 1
  PROVE  a <= m * n - 1
OBVIOUS

LEMMA PageBlock ==
  \A v \in Page : /\ Index(v) \in Block0 /\ Tag(v) \in Nat
                  /\ Tag(v) * NIndex + Index(v) = v
<1> SUFFICES ASSUME NEW v \in Page
             PROVE  /\ Index(v) \in Block0 /\ Tag(v) \in Nat
                    /\ Tag(v) * NIndex + Index(v) = v
  OBVIOUS
<1>1. v \in Nat /\ NIndex \in Nat \ {0}
  BY ConstAssumption DEF Page
<1> QED BY <1>1, DivMod, Zenon DEF Index, Tag, Block0

LEMMA BlockUnique ==
  \A v \in Page, t \in Nat, i \in Block0 :
    t * NIndex + i = v => i = Index(v) /\ t = Tag(v)
BY ConstAssumption, DivUnique, Zenon DEF Index, Tag, Block0

\* A page with a word in the range lies between the pages of its clamped ends.
LEMMA RangeCovers ==
  ASSUME NEW start \in Nat, NEW size \in Nat \ {0}, NEW v \in Page,
         NEW a \in start .. start + size - 1, a \div NWord = v,
         NEW end \in Nat,
         end = IF start + size - 1 > NPage * NWord - 1 THEN NPage * NWord - 1
               ELSE start + size - 1
  PROVE  start \div NWord <= v /\ v <= end \div NWord
<1>1. start \div NWord <= a \div NWord
  BY DivMono, ConstAssumption
<1>2. a <= NPage * NWord - 1
  BY DivBound, ConstAssumption DEF Page
<1>3. a <= end
  BY <1>2
<1>4. a \div NWord <= end \div NWord
  BY <1>3, DivMono, ConstAssumption
<1> QED BY <1>1, <1>4

-----------------------------------------------------------------------------
(* Types.                                                                  *)

LEMMA TypeParts ==
  TypeOK <=>
  /\ path \in {"fetch", "data"}
  /\ table \in [Page -> Pte \cup {None}] /\ dirty \in SUBSET Page
  /\ hsm \in {"started", "stopped"}
  /\ running \in BOOLEAN /\ s_mode \in BOOLEAN /\ spp \in BOOLEAN
  /\ sum \in BOOLEAN /\ mxr \in BOOLEAN /\ satp \in BOOLEAN
  /\ root \in BOOLEAN /\ odd \in BOOLEAN /\ kept \in BOOLEAN
  /\ phase \in {"slow", "next", "chain", "exec"}
  /\ pc \in Pc /\ ptr \in Page \cup {None} /\ got \in Page \cup {None}
  /\ tlb \in [Page -> Page \cup {None}]
  /\ load \in [Page -> Page \cup {None}] /\ store \in [Page -> Page \cup {None}]
  /\ icache \in [Block0 -> Block \cup {None}]
  /\ epoch \in 1 .. EpochMod - 1
  /\ seqb \in Block0 \cup {None} /\ seqn \in Pc \cup {None}
  /\ lastl \in Entry \cup {None} /\ lasts \in Entry \cup {None}
  /\ resv \in Page \cup {None}
  /\ stale \in SUBSET Page /\ written \in SUBSET Page
BY Zenon DEF TypeOK, Block0

\* A translation is a page or a fault.
LEMMA TranslateType ==
  ASSUME TypeOK, NEW v \in Page
  PROVE  /\ FetchPage(v) \in Page \cup {None}
         /\ LoadFrom(v) \in Page \cup {None} /\ StoreTo(v) \in Page \cup {None}
<1>1. ASSUME NEW bits, NEW skip PROVE Translate(v, bits, skip) \in Page \cup {None}
  BY TypeParts, ConstAssumption DEF Translate
<1>2. FetchPage(v) \in Page \cup {None} /\ LoadPage(v) \in Page \cup {None}
      /\ StorePage(v) \in Page \cup {None}
  BY <1>1, Zenon DEF FetchPage, LoadPage, StorePage
<1> QED BY <1>2, TypeParts DEF LoadFrom, StoreTo, Entry

-----------------------------------------------------------------------------
(* The effects of a step.                                                  *)

View == <<path, table, dirty, s_mode, sum, mxr, root>>

\* Nothing cached changes, nor what the caches depend on.
Same == UNCHANGED <<View, tlb, icache, epoch, dataVars, stale>>

Flush == Invalidate /\ path' = path

FlushBlocks ==
  /\ path = "fetch" /\ InvalidateIcache
  /\ UNCHANGED <<View, tlb, dataVars, stale>>

FlushRange ==
  \E r \in Ranges : InvalidateRange(r[1], r[2]) /\ UNCHANGED View

FetchFilled ==
  \E v \in Page, p \in Page :
    /\ path = "fetch" /\ (p = IF tlb[v] # None THEN tlb[v] ELSE FetchPage(v))
    /\ tlb' = [w \in Page |-> IF w = v THEN p
                 ELSE IF tlb[v] = None /\ Index(w) = Index(v) THEN None ELSE tlb[w]]
    /\ icache' = [icache EXCEPT
         ![Index(v)] = [tag |-> Tag(v), base |-> p, epoch |-> epoch]]
    /\ UNCHANGED <<View, epoch, dataVars, stale>>

DataFilled ==
  \E v \in Page :
    /\ \/ LoadFrom(v) # None /\ LoadCaches(v)
       \/ UNCHANGED <<load, lastl>>
    /\ \/ StoreTo(v) # None /\ StoreCaches(v)
       \/ UNCHANGED <<store, lasts, dirty>>
    /\ UNCHANGED <<path, table, s_mode, sum, mxr, root, tlb, icache, epoch, stale>>

PteChanged == \E v \in Page, e \in Pte \cup {None} : ChangePte(v, e)

Effect ==
  \/ Same \/ Flush \/ FlushBlocks \/ FlushRange
  \/ FetchFilled \/ DataFilled \/ PteChanged

\* The data side has no fetch caches and is always at an instruction.
Sides ==
  path = "data" => phase = "exec" /\ tlb = Empty /\ icache = NoBlocks

\* A hart that is stopped stopped in supervisor mode; SPP is clear in user mode.
Modes ==
  /\ running => hsm = "started"
  /\ hsm = "stopped" => s_mode
  /\ ~s_mode => ~spp

\* No block is from an epoch to come.
Epochs == \A i \in Block0 : icache[i] # None => icache[i].epoch <= epoch

\* Every step has one of the effects.
LEMMA EffectStep ==
  ASSUME TypeOK, Sides, Modes, [Next]_vars
  PROVE  Effect
<1> USE DEF modeVars, runVars, fetchVars, dataVars, resvVars, memVars, View, Effect
<1>1. CASE FetchNext \/ FetchChain \/ FetchShortcut \/ FetchBlock
  BY <1>1, Zenon DEF FetchNext, Same, FetchChain, FetchShortcut, FetchBlock
<1>2. CASE FetchFill
  <2> DEFINE v == pc[1]
  <2> DEFINE p == IF tlb[v] # None THEN tlb[v] ELSE FetchPage(v)
  <2>1. v \in Page /\ p \in Page \cup {None}
    BY TypeParts, TranslateType DEF Pc
  <2>2. path = "fetch"
    BY <1>2, TypeParts DEF FetchFill, Sides
  <2>3. CASE p = None
    BY <1>2, <2>3, Zenon DEF FetchFill, Trap, TrapTo, KeepCaches, Same, Flush
  <2>4. CASE p # None
    <3>1. /\ tlb' = [w \in Page |-> IF w = v THEN p
               ELSE IF tlb[v] = None /\ Index(w) = Index(v) THEN None ELSE tlb[w]]
          /\ icache' = [icache EXCEPT
               ![Index(v)] = [tag |-> Tag(v), base |-> p, epoch |-> epoch]]
          /\ UNCHANGED <<View, epoch, dataVars, stale>>
      BY <1>2, <2>4 DEF FetchFill
    <3> HIDE DEF v
    <3> QED BY <2>1, <2>2, <2>4, <3>1, Zenon DEF FetchFilled
  <2> QED BY <2>3, <2>4
<1>3. CASE Interrupt \/ Exception \/ SfenceVma
  BY <1>3, Zenon DEF Interrupt, Same, Flush, TrapTo, KeepCaches, Exception, Quiet,
     Trap, SfenceVma
<1>4. CASE Alu \/ UartRead \/ Wfi \/ Hsm \/ SliceEnd \/ Resume
  BY <1>4 DEF Alu, Same, Quiet, UartRead, KeepCaches, Wfi, Hsm, SliceEnd,
     Resume
<1>5. CASE FenceI \/ RemoteFenceI
  BY <1>5 DEF FenceI, FlushBlocks, Quiet, RemoteFenceI
<1>6. ASSUME NEW t \in Pc, Jump(t) \/ Sret(t)
      PROVE  Effect
  BY <1>6 DEF Jump, Same, Quiet, Sret, Flush, KeepCaches
<1>7. ASSUME NEW t \in Pc, RemoteStart(t)
      PROVE  Effect
  BY <1>7, TypeParts, Zenon DEF RemoteStart, Same, Modes, Land, KeepCaches
<1>8. ASSUME NEW v \in Page, Amo(v) \/ RemoteWrite(v)
      PROVE  Effect
  BY <1>8, Zenon DEF Amo, Same, Flush, DataFilled, Trap, TrapTo, KeepCaches,
     RemoteWrite
<1>9. ASSUME NEW v \in Page, NEW b \in BOOLEAN, Load(v, b) \/ Store(v, b)
      PROVE  Effect
  BY <1>9, Zenon DEF Load, Same, Flush, DataFilled, Trap, TrapTo, KeepCaches, Store
<1>10. ASSUME NEW v \in Page, NEW e \in Pte \cup {None}, WritePte(v, e) \/ RemotePte(v, e)
      PROVE  Effect
  BY <1>10 DEF WritePte, PteChanged, RemotePte
<1>11. ASSUME NEW p \in BOOLEAN, NEW su \in BOOLEAN, NEW mx \in BOOLEAN, WriteSstatus(p, su, mx)
      PROVE  Effect
  BY <1>11 DEF WriteSstatus, Same, Flush, Quiet, Trap, TrapTo, KeepCaches
<1>12. ASSUME NEW on \in BOOLEAN, NEW bad \in BOOLEAN, WriteSatp(on, bad)
      PROVE  Effect
  BY <1>12 DEF WriteSatp, Same, Flush, Quiet, Trap, TrapTo, KeepCaches
<1>13. ASSUME NEW r \in Ranges, Rfence(r[1], r[2]) \/ RemoteFence(r[1], r[2])
      PROVE  Effect
  BY <1>13 DEF Rfence, FlushRange, Quiet, RemoteFence
<1>14. CASE UNCHANGED vars
  BY <1>14 DEF vars, Same
<1> QED
  BY <1>1, <1>2, <1>3, <1>4, <1>5, <1>6, <1>7, <1>8, <1>9, <1>10, <1>11,
     <1>12, <1>13, <1>14 DEF Next, Fetch

-----------------------------------------------------------------------------
(* Coherence: each effect keeps it.                                        *)

\* A new epoch, or its wrap, leaves no block valid.
LEMMA NoHitAfterFlush ==
  ASSUME TypeOK, Sides, Epochs, InvalidateIcache, path' = path
  PROVE  (\A v \in Page : ~IcacheHit(v)') /\ Epochs'
<1> USE TypeParts, PageBlock, ConstAssumption
<1>1. CASE path = "data"
  BY <1>1 DEF InvalidateIcache, Sides, Epochs, NoBlocks, IcacheHit, ValidBlock, Block0
<1>2. CASE path = "fetch" /\ epoch + 1 = EpochMod
  BY <1>2 DEF InvalidateIcache, Epochs, NoBlocks, IcacheHit, ValidBlock, Block0
<1>3. CASE path = "fetch" /\ epoch + 1 # EpochMod
  <2>1. epoch' = epoch + 1 /\ icache' = icache /\ epoch \in Nat
    BY <1>3 DEF InvalidateIcache
  <2>2. \A i \in Block0 : icache[i] # None => icache[i].epoch \in Nat
    BY DEF Block
  <2> QED BY <2>1, <2>2 DEF Epochs, IcacheHit, ValidBlock
<1> QED BY <1>1, <1>2, <1>3

LEMMA CoherentFlush ==
  ASSUME TypeOK, Sides, Epochs, Flush
  PROVE  CachesCoherent' /\ Epochs'
<1>1. (\A v \in Page : ~IcacheHit(v)') /\ Epochs'
  BY NoHitAfterFlush DEF Flush, Invalidate
<1> QED BY <1>1 DEF Flush, Invalidate, CachesCoherent, Empty

LEMMA CoherentFlushBlocks ==
  ASSUME TypeOK, Sides, Epochs, CachesCoherent, FlushBlocks
  PROVE  CachesCoherent' /\ Epochs'
<1>1. (\A v \in Page : ~IcacheHit(v)') /\ Epochs'
  BY NoHitAfterFlush DEF FlushBlocks, View
<1> QED
  BY <1>1 DEF FlushBlocks, View, dataVars, CachesCoherent, FetchPage, LoadPage, StorePage,
              Translate

LEMMA CoherentSame ==
  ASSUME Epochs, CachesCoherent, Same
  PROVE  CachesCoherent' /\ Epochs'
BY ZenonT(30) DEF Same, View, dataVars, Epochs, CachesCoherent, FetchPage, LoadPage, StorePage,
       Translate, IcacheHit, ValidBlock

\* A fence drops every entry of a page it covers, and unmarks only such pages.
LEMMA CoherentFlushRange ==
  ASSUME TypeOK, Sides, Epochs, CachesCoherent, FlushRange
  PROVE  CachesCoherent' /\ Epochs'
<1>1. PICK r \in Ranges : InvalidateRange(r[1], r[2]) /\ UNCHANGED View
  BY DEF FlushRange
<1> DEFINE start == r[1]
           size == r[2]
           end == IF start + size - 1 > NPage * NWord - 1 THEN NPage * NWord - 1
                  ELSE start + size - 1
           hit(v) == start \div NWord <= v /\ v <= end \div NWord
<1>2. start \in Nat /\ size \in Nat
  BY ConstAssumption
<1>3. CASE size = 0
  <2>1. Flush
    BY <1>1, <1>3, ZenonT(30) DEF InvalidateRange, Flush, View
  <2> QED BY <2>1, CoherentFlush, ZenonT(30)
<1>4. CASE size # 0
  <2>1. /\ tlb' = [v \in Page |-> IF hit(v) THEN None ELSE tlb[v]]
        /\ load' = [v \in Page |-> IF hit(v) THEN None ELSE load[v]]
        /\ store' = [v \in Page |-> IF hit(v) THEN None ELSE store[v]]
        /\ lastl' = IF lastl # None /\ hit(lastl[1]) THEN None ELSE lastl
        /\ lasts' = IF lasts # None /\ hit(lasts[1]) THEN None ELSE lasts
    BY <1>1, <1>4, ZenonT(30) DEF InvalidateRange
  <2>2. /\ icache' = [i \in DOMAIN icache |->
             IF ValidBlock(i) /\ hit(BlockPage(i)) THEN None ELSE icache[i]]
        /\ epoch' = epoch
        /\ stale' = {v \in stale : \A a \in start .. start + size - 1 : a \div NWord # v}
    BY <1>1, <1>4 DEF InvalidateRange
  <2>3. ASSUME NEW v \in Page \ stale', ~hit(v) PROVE v \notin stale
    <3> SUFFICES ASSUME v \in stale PROVE FALSE
      OBVIOUS
    <3>1. PICK a \in start .. start + size - 1 : a \div NWord = v
      BY <2>2
    <3>2. end \in Nat
      BY <1>2, <1>4, ConstAssumption
    <3> QED BY <1>2, <1>4, <2>3, <3>1, <3>2, RangeCovers, ZenonT(30)
  <2>4. ASSUME NEW v \in Page PROVE IcacheHit(v)' => ~hit(v) /\ IcacheHit(v)
                                     /\ icache'[Index(v)] = icache[Index(v)]
    <3>1. Index(v) \in DOMAIN icache /\ Tag(v) * NIndex + Index(v) = v
      BY PageBlock, TypeParts
    <3> HIDE DEF hit
    <3> QED BY <2>2, <3>1 DEF IcacheHit, ValidBlock, BlockPage
  <2>5. Epochs'
    BY <2>2, TypeParts DEF Epochs, Block0
  <2>6. /\ \A v \in Page : FetchPage(v)' = FetchPage(v) /\ LoadPage(v)' = LoadPage(v)
             /\ StorePage(v)' = StorePage(v)
        /\ UNCHANGED <<root, dirty>>
    BY <1>1 DEF View, FetchPage, LoadPage, StorePage, Translate
  <2> HIDE DEF hit
  <2>7. ASSUME NEW v \in Page \ stale' PROVE
          /\ tlb'[v] # None => tlb'[v] = FetchPage(v)
          /\ IcacheHit(v)' => icache'[Index(v)].base = FetchPage(v)
    <3>1. CASE hit(v)
      BY <2>1, <2>4, <3>1
    <3>2. CASE ~hit(v)
      <4>1. v \notin stale
        BY <2>3, <3>2
      <4> QED BY <2>1, <2>4, <3>2, <4>1 DEF CachesCoherent
    <3> QED BY <3>1, <3>2
  <2>8. ASSUME NEW v \in Page \ stale' PROVE
          /\ load'[v] # None => load'[v] = LoadPage(v)
          /\ store'[v] # None => store'[v] = StorePage(v) /\ (root => v \in dirty)
    <3>1. CASE hit(v)
      BY <2>1, <3>1
    <3>2. CASE ~hit(v)
      <4>1. v \notin stale
        BY <2>3, <3>2
      <4> QED BY <2>1, <3>2, <4>1 DEF CachesCoherent
    <3> QED BY <3>1, <3>2
  <2>9. ASSUME NEW v \in Page \ stale' PROVE
          /\ lastl' # None /\ lastl'[1] = v => lastl'[2] = LoadPage(v)
          /\ lasts' # None /\ lasts'[1] = v =>
               lasts'[2] = StorePage(v) /\ (root => v \in dirty)
    <3>1. CASE hit(v)
      BY <2>1, <3>1
    <3>2. CASE ~hit(v)
      <4>1. v \notin stale
        BY <2>3, <3>2
      <4> QED BY <2>1, <3>2, <4>1 DEF CachesCoherent
    <3> QED BY <3>1, <3>2
  <2> QED BY <2>5, <2>6, <2>7, <2>8, <2>9, ZenonT(30) DEF CachesCoherent
<1> QED BY <1>3, <1>4

LEMMA CoherentFetchFilled ==
  ASSUME TypeOK, Epochs, CachesCoherent, FetchFilled
  PROVE  CachesCoherent' /\ Epochs'
<1>1. PICK v \in Page, p \in Page :
        /\ p = IF tlb[v] # None THEN tlb[v] ELSE FetchPage(v)
        /\ tlb' = [w \in Page |-> IF w = v THEN p
               ELSE IF tlb[v] = None /\ Index(w) = Index(v) THEN None ELSE tlb[w]]
        /\ icache' = [icache EXCEPT
             ![Index(v)] = [tag |-> Tag(v), base |-> p, epoch |-> epoch]]
        /\ UNCHANGED <<View, epoch, dataVars, stale>>
  BY ZenonT(30) DEF FetchFilled
<1>2. \A w \in Page : FetchPage(w)' = FetchPage(w) /\ LoadPage(w)' = LoadPage(w)
                        /\ StorePage(w)' = StorePage(w)
  BY <1>1 DEF View, FetchPage, LoadPage, StorePage, Translate
<1>3. v \notin stale => p = FetchPage(v)
  BY <1>1, ZenonT(30) DEF CachesCoherent
<1>4. ASSUME NEW w \in Page \ stale PROVE
        /\ tlb'[w] # None => tlb'[w] = FetchPage(w)
        /\ IcacheHit(w)' => icache'[Index(w)].base = FetchPage(w)
  <2>1. tlb'[w] # None => tlb'[w] = FetchPage(w)
    BY <1>1, <1>3 DEF CachesCoherent
  <2>2. IcacheHit(w)' => icache'[Index(w)].base = FetchPage(w)
    <3>1. /\ Index(v) \in Block0 /\ Index(w) \in Block0 /\ DOMAIN icache = Block0
          /\ Tag(v) * NIndex + Index(v) = v /\ Tag(w) * NIndex + Index(w) = w
      BY PageBlock, TypeParts
    <3>2. CASE Index(w) = Index(v)
      <4>1. icache'[Index(w)] = [tag |-> Tag(v), base |-> p, epoch |-> epoch]
        BY <1>1, <3>1, <3>2
      <4>2. IcacheHit(w)' => Tag(w) = Tag(v)
        BY <4>1 DEF IcacheHit
      <4>3. Tag(w) = Tag(v) => w = v
        BY <3>1, <3>2
      <4> QED BY <1>3, <4>1, <4>2, <4>3
    <3>3. CASE Index(w) # Index(v)
      <4>1. icache'[Index(w)] = icache[Index(w)] /\ epoch' = epoch
        BY <1>1, <3>1, <3>3
      <4>2. IcacheHit(w)' => IcacheHit(w)
        BY <4>1 DEF IcacheHit, ValidBlock
      <4> QED BY <4>1, <4>2 DEF CachesCoherent
    <3> QED BY <3>2, <3>3
  <2> QED BY <2>1, <2>2
<1>5. Epochs'
  <2>1. Index(v) \in Block0 /\ DOMAIN icache = Block0 /\ epoch \in Nat
    BY PageBlock, TypeParts, ConstAssumption
  <2> QED BY <1>1, <2>1 DEF Epochs
<1>6. \A w \in Page \ stale :
        /\ load[w] # None => load[w] = LoadPage(w)
        /\ store[w] # None => store[w] = StorePage(w) /\ (root => w \in dirty)
        /\ lastl # None /\ lastl[1] = w => lastl[2] = LoadPage(w)
        /\ lasts # None /\ lasts[1] = w => lasts[2] = StorePage(w) /\ (root => w \in dirty)
  BY DEF CachesCoherent
<1> QED BY <1>1, <1>2, <1>4, <1>5, <1>6, ZenonT(30) DEF CachesCoherent, View, dataVars

LEMMA CoherentDataFilled ==
  ASSUME TypeOK, Epochs, CachesCoherent, DataFilled
  PROVE  CachesCoherent' /\ Epochs'
<1>1. PICK v \in Page :
        /\ \/ LoadFrom(v) # None /\ LoadCaches(v)
           \/ UNCHANGED <<load, lastl>>
        /\ \/ StoreTo(v) # None /\ StoreCaches(v)
           \/ UNCHANGED <<store, lasts, dirty>>
        /\ UNCHANGED <<path, table, s_mode, sum, mxr, root, tlb, icache, epoch, stale>>
  BY DEF DataFilled
<1>2. /\ \A w \in Page : FetchPage(w)' = FetchPage(w) /\ LoadPage(w)' = LoadPage(w)
                           /\ StorePage(w)' = StorePage(w)
      /\ \A w \in Page : IcacheHit(w)' <=> IcacheHit(w)
  BY <1>1, Zenon DEF FetchPage, LoadPage, StorePage, Translate, IcacheHit, ValidBlock
<1>3. ASSUME NEW w \in Page \ stale PROVE
        /\ load'[w] # None => load'[w] = LoadPage(w)
        /\ lastl' # None /\ lastl'[1] = w => lastl'[2] = LoadPage(w)
  <2>1. v \notin stale => LoadFrom(v) = LoadPage(v)
    BY ZenonT(30) DEF LoadFrom, CachesCoherent
  <2>2. CASE UNCHANGED <<load, lastl>>
    BY <2>2 DEF CachesCoherent
  <2>3. CASE LoadCaches(v)
    BY <2>1, <2>3, SMTT(30) DEF LoadCaches, Filled, CachesCoherent
  <2> QED BY <1>1, <2>2, <2>3, Zenon
<1>4. ASSUME NEW w \in Page \ stale PROVE
        /\ store'[w] # None => store'[w] = StorePage(w) /\ (root => w \in dirty')
        /\ lasts' # None /\ lasts'[1] = w => lasts'[2] = StorePage(w) /\ (root => w \in dirty')
  <2>1. v \notin stale => StoreTo(v) = StorePage(v)
    BY DEF StoreTo, CachesCoherent
  <2>2. CASE UNCHANGED <<store, lasts, dirty>>
    BY <2>2 DEF CachesCoherent
  <2>3. CASE StoreCaches(v)
    BY <2>1, <2>3 DEF StoreCaches, Filled, CachesCoherent
  <2> QED BY <1>1, <2>2, <2>3, ZenonT(30)
<1>5. \A w \in Page \ stale :
        /\ tlb[w] # None => tlb[w] = FetchPage(w)
        /\ IcacheHit(w) => icache[Index(w)].base = FetchPage(w)
  BY DEF CachesCoherent
<1>6. CachesCoherent'
  <2>1. UNCHANGED <<root, tlb, icache, stale>>
    BY <1>1, Zenon
  <2> SUFFICES ASSUME NEW w \in Page \ stale
               PROVE  (/\ tlb[w] # None => tlb[w] = FetchPage(w)
                       /\ IcacheHit(w) => icache[Index(w)].base = FetchPage(w)
                       /\ load[w] # None => load[w] = LoadPage(w)
                       /\ store[w] # None => store[w] = StorePage(w) /\ (root => w \in dirty)
                       /\ lastl # None /\ lastl[1] = w => lastl[2] = LoadPage(w)
                       /\ lasts # None /\ lasts[1] = w => lasts[2] = StorePage(w)
                                                          /\ (root => w \in dirty))'
    BY <2>1, Zenon DEF CachesCoherent
  <2>2. (/\ tlb[w] # None => tlb[w] = FetchPage(w)
         /\ IcacheHit(w) => icache[Index(w)].base = FetchPage(w))'
    BY <1>2, <1>5, <2>1, Zenon
  <2>3. (/\ load[w] # None => load[w] = LoadPage(w)
         /\ lastl # None /\ lastl[1] = w => lastl[2] = LoadPage(w))'
    BY <1>2, <1>3, Zenon
  <2>4. (/\ store[w] # None => store[w] = StorePage(w) /\ (root => w \in dirty)
         /\ lasts # None /\ lasts[1] = w => lasts[2] = StorePage(w) /\ (root => w \in dirty))'
    BY <1>2, <1>4, <2>1, Zenon
  <2> QED BY <2>2, <2>3, <2>4, Zenon
<1>7. Epochs'
  BY <1>1, Zenon DEF Epochs
<1> QED BY <1>6, <1>7, Zenon

LEMMA CoherentPteChanged ==
  ASSUME TypeOK, Epochs, CachesCoherent, PteChanged
  PROVE  CachesCoherent' /\ Epochs'
<1>1. PICK v \in Page, e \in Pte \cup {None} : ChangePte(v, e)
  BY DEF PteChanged
<1>2. ASSUME NEW w \in Page \ stale' PROVE
        /\ w \notin stale /\ FetchPage(w)' = FetchPage(w) /\ LoadPage(w)' = LoadPage(w)
        /\ StorePage(w)' = StorePage(w) /\ (root /\ w \in dirty => w \in dirty')
  BY <1>1, TypeParts, ZenonT(30) DEF ChangePte, modeVars, FetchPage, LoadPage, StorePage, Translate
<1>3. /\ UNCHANGED <<tlb, icache, epoch, dataVars, root>>
      /\ \A w \in Page : IcacheHit(w)' <=> IcacheHit(w)
  BY <1>1, ZenonT(30) DEF ChangePte, modeVars, fetchVars, IcacheHit, ValidBlock
<1> QED BY <1>2, <1>3, ZenonT(30) DEF CachesCoherent, dataVars, Epochs

\* The caches stay within their types.
LEMMA CacheTypes ==
  ASSUME TypeOK, Effect
  PROVE  /\ tlb' \in [Page -> Page \cup {None}] /\ load' \in [Page -> Page \cup {None}]
         /\ store' \in [Page -> Page \cup {None}]
         /\ icache' \in [Block0 -> Block \cup {None}] /\ epoch' \in 1 .. EpochMod - 1
         /\ lastl' \in Entry \cup {None} /\ lasts' \in Entry \cup {None}
         /\ stale' \in SUBSET Page
<1> USE TypeParts
<1>1. CASE Same
  BY <1>1 DEF Same, dataVars
<1>2. ASSUME InvalidateIcache
      PROVE  icache' \in [Block0 -> Block \cup {None}] /\ epoch' \in 1 .. EpochMod - 1
  BY <1>2, ConstAssumption DEF InvalidateIcache, NoBlocks, Block0
<1>3. CASE Flush
  BY <1>2, <1>3 DEF Flush, Invalidate, Empty
<1>4. CASE FlushBlocks
  BY <1>2, <1>4 DEF FlushBlocks, dataVars
<1>5. CASE FlushRange
  <2>1. PICK r \in Ranges : InvalidateRange(r[1], r[2]) /\ path' = path
    BY <1>5 DEF FlushRange, View
  <2>2. CASE r[2] = 0
    <3>1. Flush
      BY <2>1, <2>2, ZenonT(30) DEF InvalidateRange, Flush
    <3> QED BY <1>3, <3>1, ZenonT(30)
  <2>3. CASE r[2] # 0
    BY <2>1, <2>3, ZenonT(30) DEF InvalidateRange
  <2> QED BY <2>2, <2>3
<1>6. CASE FetchFilled
  <2>1. PICK v \in Page, p \in Page :
          /\ tlb' = [w \in Page |-> IF w = v THEN p
                 ELSE IF tlb[v] = None /\ Index(w) = Index(v) THEN None ELSE tlb[w]]
          /\ icache' = [icache EXCEPT
               ![Index(v)] = [tag |-> Tag(v), base |-> p, epoch |-> epoch]]
          /\ UNCHANGED <<epoch, dataVars, stale>>
    BY <1>6, ZenonT(30) DEF FetchFilled
  <2>2. Index(v) \in Block0 /\ [tag |-> Tag(v), base |-> p, epoch |-> epoch] \in Block
    BY PageBlock DEF Block
  <2>3. icache' \in [Block0 -> Block \cup {None}]
    BY <2>1, <2>2, ZenonT(30)
  <2>4. tlb' \in [Page -> Page \cup {None}]
    BY <2>1, ZenonT(30)
  <2> QED BY <2>1, <2>3, <2>4, ZenonT(30) DEF dataVars
<1>7. CASE DataFilled
  <2>1. PICK v \in Page :
          /\ \/ LoadFrom(v) # None /\ LoadCaches(v)
             \/ UNCHANGED <<load, lastl>>
          /\ \/ StoreTo(v) # None /\ StoreCaches(v)
             \/ UNCHANGED <<store, lasts, dirty>>
          /\ UNCHANGED <<path, table, s_mode, sum, mxr, root, tlb, icache, epoch, stale>>
    BY <1>7 DEF DataFilled
  <2>2. LoadFrom(v) \in Page \cup {None} /\ StoreTo(v) \in Page \cup {None}
    BY TranslateType
  <2>3. load' \in [Page -> Page \cup {None}] /\ lastl' \in Entry \cup {None}
    BY <2>1, <2>2 DEF LoadCaches, Filled, Entry
  <2>4. store' \in [Page -> Page \cup {None}] /\ lasts' \in Entry \cup {None}
    BY <2>1, <2>2 DEF StoreCaches, Filled, Entry
  <2> QED BY <2>1, <2>3, <2>4
<1>8. CASE PteChanged
  BY <1>8 DEF PteChanged, ChangePte, fetchVars, dataVars
<1> QED BY <1>1, <1>3, <1>4, <1>5, <1>6, <1>7, <1>8, ZenonT(30) DEF Effect

ModeOK ==
  /\ path \in {"fetch", "data"} /\ table \in [Page -> Pte \cup {None}]
  /\ dirty \in SUBSET Page /\ hsm \in {"started", "stopped"}
  /\ running \in BOOLEAN /\ s_mode \in BOOLEAN /\ spp \in BOOLEAN
  /\ sum \in BOOLEAN /\ mxr \in BOOLEAN /\ satp \in BOOLEAN /\ root \in BOOLEAN

PosOK ==
  /\ phase \in {"slow", "next", "chain", "exec"} /\ pc \in Pc
  /\ ptr \in Page \cup {None} /\ got \in Page \cup {None}
  /\ odd \in BOOLEAN /\ kept \in BOOLEAN

SeqOK == seqb \in Block0 \cup {None} /\ seqn \in Pc \cup {None}

ResvOK == resv \in Page \cup {None} /\ written \in SUBSET Page

\* The mode, the page table and the hart's state.
LEMMA ModeStep ==
  ASSUME ModeOK, Modes, [Next]_vars
  PROVE  ModeOK' /\ Modes'
<1> USE DEF ModeOK, Modes, modeVars, memVars
<1>1. CASE FetchNext
  BY <1>1 DEF FetchNext
<1>2. CASE FetchChain
  BY <1>2 DEF FetchChain
<1>3. CASE FetchShortcut
  BY <1>3 DEF FetchShortcut
<1>4. CASE FetchBlock
  BY <1>4 DEF FetchBlock
<1>5. CASE FetchFill
  BY <1>5, ZenonT(30) DEF FetchFill, Trap, TrapTo
<1>6. CASE Interrupt
  BY <1>6 DEF Interrupt, TrapTo
<1>7. CASE Exception
  BY <1>7 DEF Exception, Executing, Quiet, Trap, TrapTo
<1>8. CASE Alu
  BY <1>8 DEF Alu, Executing, Quiet
<1>9. CASE SfenceVma
  BY <1>9 DEF SfenceVma, Executing, Quiet
<1>10. CASE FenceI
  BY <1>10 DEF FenceI, Executing, Quiet
<1>11. CASE UartRead
  BY <1>11, Zenon DEF UartRead, Executing, Quiet
<1>12. CASE Wfi
  BY <1>12, Zenon DEF Wfi, Executing, Quiet
<1>13. CASE Hsm
  BY <1>13, Zenon DEF Hsm, Executing
<1>14. CASE SliceEnd
  BY <1>14, ZenonT(30) DEF SliceEnd, Quiet
<1>15. CASE Resume
  BY <1>15 DEF Resume
<1>16. CASE RemoteFenceI
  BY <1>16 DEF RemoteFenceI, Quiet
<1>17. ASSUME NEW t \in Pc, Jump(t)
      PROVE  ModeOK' /\ Modes'
  BY <1>17 DEF Jump, Executing, Quiet
<1>18. ASSUME NEW t \in Pc, Sret(t)
      PROVE  ModeOK' /\ Modes'
  <2>1. s_mode' \in BOOLEAN /\ spp' \in BOOLEAN /\ (~s_mode' => ~spp')
    BY <1>18, Zenon DEF Sret
  <2>2. hsm = "started" /\ hsm' = hsm
    BY <1>18 DEF Sret, Executing, Quiet
  <2> QED BY <1>18, <2>1, <2>2 DEF Sret, Quiet
<1>19. ASSUME NEW t \in Pc, RemoteStart(t)
      PROVE  ModeOK' /\ Modes'
  BY <1>19, Zenon DEF RemoteStart
<1>20. ASSUME NEW v \in Page, Amo(v)
      PROVE  ModeOK' /\ Modes'
  BY <1>20, Zenon DEF Amo, Executing, Trap, TrapTo, StoreCaches
<1>21. ASSUME NEW v \in Page, RemoteWrite(v)
      PROVE  ModeOK' /\ Modes'
  BY <1>21 DEF RemoteWrite
<1>22. ASSUME NEW v \in Page, NEW b \in BOOLEAN, Load(v, b)
      PROVE  ModeOK' /\ Modes'
  BY <1>22, Zenon DEF Load, Executing, Trap, TrapTo
<1>23. ASSUME NEW v \in Page, NEW b \in BOOLEAN, Store(v, b)
      PROVE  ModeOK' /\ Modes'
  BY <1>23, Zenon DEF Store, Executing, Trap, TrapTo, StoreCaches
<1>24. ASSUME NEW v \in Page, NEW e \in Pte \cup {None}, WritePte(v, e) \/ RemotePte(v, e)
      PROVE  ModeOK' /\ Modes'
  BY <1>24 DEF WritePte, Executing, ChangePte, RemotePte
<1>25. ASSUME NEW p \in BOOLEAN, NEW su \in BOOLEAN, NEW mx \in BOOLEAN, WriteSstatus(p, su, mx)
      PROVE  ModeOK' /\ Modes'
  BY <1>25, Zenon DEF WriteSstatus, Executing, Quiet, Trap, TrapTo
<1>26. ASSUME NEW on \in BOOLEAN, NEW bad \in BOOLEAN, WriteSatp(on, bad)
      PROVE  ModeOK' /\ Modes'
  BY <1>26, Zenon DEF WriteSatp, Executing, Quiet, Trap, TrapTo
<1>27. ASSUME NEW r \in Ranges, Rfence(r[1], r[2]) \/ RemoteFence(r[1], r[2])
      PROVE  ModeOK' /\ Modes'
  BY <1>27 DEF Rfence, Executing, Quiet, RemoteFence
<1>28. CASE UNCHANGED vars
  BY <1>28 DEF vars
<1> QED
  BY ZenonT(30), <1>1, <1>2, <1>3, <1>4, <1>5, <1>6, <1>7, <1>8, <1>9, <1>10, <1>11,
     <1>12, <1>13, <1>14, <1>15, <1>16, <1>17, <1>18, <1>19, <1>20, <1>21,
     <1>22, <1>23, <1>24, <1>25, <1>26, <1>27, <1>28 DEF Next, Fetch

LEMMA SuccType ==
  \A a \in Pc : /\ Succ(a) \in Pc
                /\ a[2] + 1 < NWord => Succ(a)[1] = a[1]
<1> SUFFICES ASSUME NEW a \in Pc
             PROVE  Succ(a) \in Pc /\ (a[2] + 1 < NWord => Succ(a)[1] = a[1])
  OBVIOUS
<1>1. PICK v \in Page, w \in Word : a = <<v, w>>
  BY DEF Pc
<1>2. (v + 1) % NPage \in Page /\ 0 \in Word
  BY ConstAssumption DEF Page, Word
<1>3. a[1] = v /\ a[2] = w
  BY <1>1
<1>4. CASE w + 1 < NWord
  <2>1. w + 1 \in Word
    BY <1>4, ConstAssumption DEF Word
  <2> QED BY <1>3, <1>4, <2>1 DEF Succ, Pc
<1>5. CASE ~(w + 1 < NWord)
  BY <1>2, <1>3, <1>5 DEF Succ, Pc
<1> QED BY <1>4, <1>5

LEMMA SeqNextType ==
  ASSUME pc \in Pc, NEW v \in Page
  PROVE  SeqNext(v) \in Pc \cup {None}
<1>1. pc[2] \in Word
  BY DEF Pc
<1>2. pc[2] + 1 < NWord => pc[2] + 1 \in Word
  BY <1>1, ConstAssumption DEF Word
<1> QED BY <1>2 DEF SeqNext, Pc

-----------------------------------------------------------------------------
(* Where the hart is and what it runs along.                               *)

(***************************************************************************)
(* On the fetch side: the slow path has no pointer; the pointer the hart   *)
(* goes on along, and the one left by the instruction about to execute,    *)
(* lead on in the page of pc and are what the last fetch found; and a hart *)
(* that has yielded keeps a pointer only across a UART read.               *)
(***************************************************************************)
PtrKnown ==
  path = "fetch" =>
    /\ phase = "slow" => ptr = None
    /\ phase = "next" =>
         ptr # None /\ (kept \/ pc[1] \in stale \/ ptr = FetchPage(pc[1]))
    /\ phase = "exec" /\ ptr # None =>
         pc[2] + 1 < NWord /\ ptr = got /\ (odd => kept)
    /\ ~running => phase = "slow" \/ (phase = "next" /\ kept)

RunOK == PosOK /\ PtrKnown /\ FetchTranslated

LEMMA LandRun ==
  ASSUME PosOK, Sides, NEW t \in Pc, NEW ph \in {"slow", "chain", "exec"}, Land(t, ph),
         path' = path, path \in {"fetch", "data"}, path = "fetch" => ph # "exec",
         running' = TRUE \/ ph = "slow"
  PROVE  RunOK' /\ (path = "data" => phase' = "exec")
<1>1. CASE path = "fetch"
  BY <1>1, Zenon DEF Land, Go, RunOK, PosOK, PtrKnown, FetchTranslated
<1>2. CASE path = "data"
  <2>1. UNCHANGED <<pc, phase, got, odd>> /\ ptr' = None /\ kept' = FALSE /\ path' = "data"
    BY <1>2 DEF Land, Go
  <2>2. PosOK'
    BY <2>1, ZenonT(30) DEF PosOK
  <2>3. phase' = "exec"
    BY <1>2, <2>1 DEF Sides
  <2> QED BY <2>1, <2>2, <2>3 DEF RunOK, PtrKnown, FetchTranslated
<1> QED BY <1>1, <1>2

\* A fetch that finds the page pc translates to, or is excepted.
LEMMA FetchedRun ==
  ASSUME PosOK, NEW p \in Page, NEW strange \in BOOLEAN, Fetched(p, strange),
         path' = path, running' = TRUE, stale' = stale, None \notin Page,
         FetchPage(pc[1])' = FetchPage(pc[1]),
         strange \/ pc[1] \in stale \/ p = FetchPage(pc[1])
  PROVE  RunOK' /\ phase' = "exec"
<1>1. PosOK'
  BY DEF Fetched, PosOK
<1>2. FetchPage(pc[1])' = FetchPage(pc'[1]) /\ pc' = pc
  BY DEF Fetched
<1>3. PtrKnown'
  BY DEF Fetched, PtrKnown
<1>4. FetchTranslated'
  BY <1>2 DEF Fetched, FetchTranslated
<1> QED BY <1>1, <1>3, <1>4 DEF Fetched, RunOK

\* An instruction that leaves the pointer alone.
LEMMA NextRun ==
  ASSUME RunOK, Sides, TypeOK, phase = "exec", RetireNext, path' = path,
         stale \subseteq stale', kept' \in BOOLEAN, kept /\ ptr # None => kept',
         running' = TRUE \/ kept' \/ ptr = None,
         \A v \in Page : v \notin stale' => FetchPage(v)' = FetchPage(v)
  PROVE  RunOK' /\ (path = "data" => phase' = "exec")
<1>1. CASE path = "fetch"
  <2>1. pc \in Pc /\ pc' = Succ(pc) /\ ptr' = ptr /\ odd' = odd /\ got' = None
        /\ phase' = IF ptr = None THEN "slow" ELSE "next"
    BY <1>1 DEF RetireNext, Go, RunOK, PosOK
  <2>2. PosOK'
    BY <2>1, SuccType DEF RunOK, PosOK
  <2>3. PtrKnown'
    <3>1. CASE ptr = None
      BY <2>1, <3>1 DEF PtrKnown
    <3>2. CASE ptr # None
      <4>1. pc'[1] = pc[1] /\ pc[1] \in Page /\ phase' = "next"
        BY <1>1, <2>1, <3>2, SuccType DEF RunOK, PtrKnown, Pc
      <4>2. kept' \/ pc[1] \in stale' \/ ptr = FetchPage(pc[1])
        BY <1>1, <3>2 DEF RunOK, PtrKnown, FetchTranslated
      <4>3. ASSUME NEW v \in Page, v = pc'[1], v \notin stale'
            PROVE  FetchPage(v)' = FetchPage(v)
        BY <4>3, ZenonT(30)
      <4>4. kept' \/ pc'[1] \in stale' \/ ptr' = FetchPage(pc[1])'
        BY <2>1, <4>1, <4>2, <4>3, ZenonT(30) DEF FetchPage, Translate
      <4> QED BY <2>1, <3>2, <4>1, <4>4 DEF PtrKnown
    <3> QED BY <3>1, <3>2
  <2>4. FetchTranslated'
    BY <2>1 DEF FetchTranslated
  <2> QED BY <1>1, <2>2, <2>3, <2>4 DEF RunOK
<1>2. CASE path = "data"
  <2>1. UNCHANGED <<pc, phase, got, odd, ptr>> /\ path' = "data"
    BY <1>2 DEF RetireNext, Go
  <2> QED BY <1>2, <2>1 DEF RunOK, PosOK, PtrKnown, FetchTranslated
<1> QED BY <1>1, <1>2, TypeParts

LEMMA FetchedFound ==
  ASSUME RunOK, NEW p \in Page, NEW strange \in BOOLEAN, Fetched(p, strange), running,
         UNCHANGED <<path, running, stale, modeVars, table>>,
         running \in BOOLEAN,
         strange \/ pc[1] \in stale \/ p = FetchPage(pc[1])
  PROVE  RunOK' /\ (path = "data" => phase' = "exec")
<1>1. FetchPage(pc[1])' = FetchPage(pc[1])
  BY ZenonT(30) DEF Fetched, modeVars, FetchPage, Translate
<1> QED BY <1>1, FetchedRun, ConstAssumption DEF RunOK

\* Another hart acts while this one has yielded.
LEMMA Yielded ==
  ASSUME RunOK, Sides, UNCHANGED <<path, runVars>>, ~running
  PROVE  RunOK' /\ (path = "data" => phase' = "exec")
BY DEF RunOK, PosOK, PtrKnown, FetchTranslated, Sides, runVars

\* Every step keeps what is known of where the hart is.
LEMMA RunStep ==
  ASSUME TypeOK, Sides, CachesCoherent, RunOK, [Next]_vars
  PROVE  RunOK' /\ (path = "data" => phase' = "exec")
<1>1. CASE FetchNext
  <2>1. Fetched(ptr, kept) /\ UNCHANGED <<path, running, stale, modeVars, table>> /\ running
    BY <1>1, ZenonT(30) DEF FetchNext, memVars
  <2>2. path = "fetch" /\ ptr \in Page
    BY <1>1, TypeParts, ZenonT(30) DEF FetchNext, Sides, RunOK, PtrKnown
  <2>3. kept \/ pc[1] \in stale \/ ptr = FetchPage(pc[1])
    BY <1>1, <2>2 DEF FetchNext, RunOK, PtrKnown
  <2> QED BY <2>1, <2>2, <2>3, FetchedFound, TypeParts, ZenonT(30)
<1>2. CASE FetchChain
  <2>1. CASE IcacheHit(pc[1])
    <3>1. /\ Fetched(icache[Index(pc[1])].base, FALSE) /\ running /\ IcacheHit(pc[1])
          /\ UNCHANGED <<path, running, stale, modeVars, table>>
      BY <1>2, <2>1, ZenonT(30) DEF FetchChain, memVars
    <3>2. pc[1] \in Page /\ Index(pc[1]) \in Block0 /\ icache[Index(pc[1])] \in Block
      BY <3>1, TypeParts, PageBlock, ZenonT(30) DEF Pc, IcacheHit, ValidBlock
    <3>3. icache[Index(pc[1])].base \in Page
      BY <3>2, ZenonT(30) DEF Block
    <3>4. pc[1] \in stale \/ icache[Index(pc[1])].base = FetchPage(pc[1])
      BY <3>1, <3>2, Zenon DEF CachesCoherent
    <3> QED BY <3>1, <3>3, <3>4, FetchedFound, Zenon
  <2>2. CASE ~IcacheHit(pc[1])
    <3>1. /\ phase' = "slow" /\ ptr' = None /\ kept' = FALSE
          /\ UNCHANGED <<pc, got, odd, path>>
      BY <1>2, <2>2 DEF FetchChain, memVars
    <3>2. path # "data"
      BY <1>2 DEF FetchChain, Sides
    <3> QED BY <3>1, <3>2, Zenon DEF RunOK, PosOK, PtrKnown, FetchTranslated
  <2> QED BY <2>1, <2>2
<1>3. CASE FetchShortcut
  <2> DEFINE strange == BlockPage(seqb) # pc[1]
  <2>1. /\ Fetched(icache[seqb].base, strange) /\ running /\ Shortcut
        /\ UNCHANGED <<path, running, stale, modeVars, table>>
    BY <1>3 DEF FetchShortcut, memVars
  <2>2. /\ seqb \in Block0 /\ pc[1] \in Page /\ ValidBlock(seqb)
        /\ icache[seqb].tag = Tag(pc[1]) /\ icache[seqb] \in Block
    BY <2>1, TypeParts, ZenonT(30) DEF Shortcut, ValidBlock, Pc
  <2>3. icache[seqb].base \in Page /\ icache[seqb].tag \in Nat
    BY <2>2 DEF Block
  <2>4. ~strange /\ pc[1] \notin stale => icache[seqb].base = FetchPage(pc[1])
    <3> SUFFICES ASSUME ~strange, pc[1] \notin stale
                 PROVE  icache[seqb].base = FetchPage(pc[1])
      OBVIOUS
    <3>1. seqb = Index(pc[1])
      BY <2>2, <2>3, BlockUnique, Zenon DEF BlockPage
    <3> QED BY <2>2, <3>1, Zenon DEF CachesCoherent, IcacheHit
  <2>5. strange \in BOOLEAN
    BY Zenon
  <2> QED BY <2>1, <2>3, <2>4, <2>5, FetchedFound, ZenonT(30)
<1>4. CASE FetchBlock
  <2>1. /\ Fetched(icache[Index(pc[1])].base, FALSE) /\ running /\ IcacheHit(pc[1])
        /\ UNCHANGED <<path, running, stale, modeVars, table>>
    BY <1>4, Zenon DEF FetchBlock, memVars
  <2>2. pc[1] \in Page /\ Index(pc[1]) \in Block0 /\ icache[Index(pc[1])] \in Block
    BY <2>1, TypeParts, PageBlock, ZenonT(30) DEF Pc, IcacheHit, ValidBlock
  <2>3. icache[Index(pc[1])].base \in Page
    BY <2>2 DEF Block
  <2>4. pc[1] \in stale \/ icache[Index(pc[1])].base = FetchPage(pc[1])
    BY <2>1, <2>2, Zenon DEF CachesCoherent
  <2> QED BY <2>1, <2>3, <2>4, FetchedFound, Zenon
<1>5. CASE FetchFill
  <2> DEFINE v == pc[1]
  <2> DEFINE p == IF tlb[v] # None THEN tlb[v] ELSE FetchPage(v)
  <2>1. v \in Page /\ p \in Page \cup {None}
    BY TypeParts, TranslateType, ZenonT(30) DEF Pc
  <2>2. CASE p = None
    <3>1. Land(Stvec, "slow") /\ path' = path
      BY <1>5, <2>2, Zenon DEF FetchFill, Trap, TrapTo, memVars
    <3> QED BY <3>1, LandRun, TypeParts, ConstAssumption, Zenon DEF RunOK
  <2>3. CASE p # None
    <3>1. Fetched(p, FALSE) /\ running /\ UNCHANGED <<path, running, stale, modeVars, table>>
      BY <1>5, <2>3, Zenon DEF FetchFill, memVars
    <3>2. v \in stale \/ p = FetchPage(v)
      BY <2>1, Zenon DEF CachesCoherent
    <3> HIDE DEF p
    <3> QED BY <2>1, <2>3, <3>1, <3>2, FetchedFound, Zenon
  <2> QED BY <2>2, <2>3
<1>6. CASE Interrupt
  <2>1. Land(Stvec, phase) /\ path' = path /\ running' = TRUE
    BY <1>6, TypeParts DEF Interrupt, TrapTo, memVars
  <2>2. phase \in {"slow", "chain", "exec"} /\ (path = "fetch" => phase # "exec")
    BY <1>6 DEF Interrupt
  <2>3. PosOK /\ Sides /\ Stvec \in Pc /\ path \in {"fetch", "data"}
    BY TypeParts, ConstAssumption DEF RunOK
  <2> QED BY <2>1, <2>2, <2>3, LandRun
<1>7. CASE Alu
  <2>1. RetireNext /\ path' = path /\ stale' = stale /\ phase = "exec"
        /\ \A w \in Page : FetchPage(w)' = FetchPage(w)
    BY <1>7, Zenon DEF Alu, Executing, Quiet, KeepCaches, memVars, modeVars, FetchPage, Translate
  <2>2. kept' = kept /\ running' = TRUE
    BY <1>7, TypeParts DEF Alu, Executing
  <2> QED BY <2>1, <2>2, NextRun, TypeParts, ZenonT(30)
<1>8. CASE SfenceVma
  <2>1. Land(Succ(pc), "slow") /\ path' = path
    BY <1>8 DEF SfenceVma, Executing, Quiet, RetireBreak, memVars
  <2> QED BY <2>1, LandRun, SuccType, TypeParts, ConstAssumption, Zenon DEF RunOK
<1>9. CASE FenceI
  <2>1. Land(Succ(pc), "slow") /\ path' = path
    BY <1>9 DEF FenceI, Executing, Quiet, RetireBreak, memVars
  <2> QED BY <2>1, LandRun, SuccType, TypeParts, ConstAssumption, Zenon DEF RunOK
<1>10. CASE Exception
  <2>1. Land(Stvec, "slow") /\ path' = path
    BY <1>10 DEF Exception, Executing, Quiet, Trap, TrapTo, memVars
  <2> QED BY <2>1, LandRun, SuccType, TypeParts, ConstAssumption, Zenon DEF RunOK
<1>11. CASE UartRead
  <2>1. RetireNext /\ path' = path /\ stale' = stale /\ phase = "exec"
        /\ \A w \in Page : FetchPage(w)' = FetchPage(w)
    BY <1>11, ZenonT(30) DEF UartRead, Executing, Quiet, KeepCaches, memVars, modeVars, FetchPage, Translate
  <2>2. kept' = (ptr # None)
    BY <1>11 DEF UartRead
  <2>3. kept' \in BOOLEAN
    BY <2>2, Zenon
  <2> QED BY <2>1, <2>2, <2>3, NextRun, Zenon
<1>12. CASE Wfi
  <2>1. Land(Succ(pc), "slow") /\ path' = path
    BY <1>12 DEF Wfi, Executing, Quiet, RetireBreak, memVars
  <2> QED BY <2>1, LandRun, SuccType, TypeParts, ConstAssumption, Zenon DEF RunOK
<1>13. CASE Hsm
  <2>1. Land(Succ(pc), "slow") /\ path' = path
    BY <1>13, ZenonT(30) DEF Hsm, Executing, RetireBreak, memVars
  <2> QED BY <2>1, LandRun, SuccType, TypeParts, ConstAssumption, Zenon DEF RunOK
<1>14. CASE SliceEnd
  <2>1. Land(pc, "slow") /\ path' = path
    BY <1>14 DEF SliceEnd, Quiet, memVars
  <2> QED BY <2>1, LandRun, SuccType, TypeParts, ConstAssumption, ZenonT(30) DEF RunOK
<1>15. CASE Resume
  <2>1. UNCHANGED <<path, runVars>> /\ ~running
    BY <1>15 DEF Resume, memVars
  <2> QED BY <2>1, Yielded
<1>16. CASE RemoteFenceI
  <2>1. UNCHANGED <<path, runVars>> /\ ~running
    BY <1>16 DEF RemoteFenceI, Quiet, memVars
  <2> QED BY <2>1, Yielded
<1>17. ASSUME NEW t \in Pc, Jump(t)
      PROVE  RunOK' /\ (path = "data" => phase' = "exec")
  BY <1>17, ZenonT(30) DEF Jump, Go, Executing, Quiet, memVars, RunOK, PosOK, PtrKnown, FetchTranslated
<1>18. ASSUME NEW t \in Pc, Sret(t)
      PROVE  RunOK' /\ (path = "data" => phase' = "exec")
  <2>1. Land(t, "slow") /\ path' = path
    BY <1>18 DEF Sret, Executing, Quiet, memVars
  <2> QED BY <2>1, LandRun, SuccType, TypeParts, ConstAssumption, Zenon DEF RunOK
<1>19. ASSUME NEW t \in Pc, RemoteStart(t)
      PROVE  RunOK' /\ (path = "data" => phase' = "exec")
  <2>1. Land(t, "slow") /\ path' = path
    BY <1>19 DEF RemoteStart, memVars
  <2> QED BY <2>1, LandRun, SuccType, TypeParts, ConstAssumption, Zenon DEF RunOK
<1>20. ASSUME NEW v \in Page, Amo(v)
      PROVE  RunOK' /\ (path = "data" => phase' = "exec")
  <2>1. (Land(Stvec, "slow") \/ Land(Succ(pc), "slow")) /\ path' = path
    BY <1>20 DEF Amo, Trap, TrapTo, RetireBreak
  <2> QED BY <2>1, LandRun, SuccType, TypeParts, ConstAssumption, Zenon DEF RunOK
<1>21. ASSUME NEW v \in Page, RemoteWrite(v)
      PROVE  RunOK' /\ (path = "data" => phase' = "exec")
  <2>1. UNCHANGED <<path, runVars>> /\ ~running
    BY <1>21 DEF RemoteWrite, memVars
  <2> QED BY <2>1, Yielded
<1>22. ASSUME NEW v \in Page, NEW b \in BOOLEAN, Load(v, b)
      PROVE  RunOK' /\ (path = "data" => phase' = "exec")
  <2>1. CASE LoadFrom(v) = None
    <3>1. Land(Stvec, "slow") /\ path' = path
      BY <1>22, <2>1 DEF Load, Trap, TrapTo, memVars
    <3> QED BY <3>1, LandRun, TypeParts, ConstAssumption, Zenon DEF RunOK
  <2>2. CASE LoadFrom(v) # None /\ b
    <3>1. Land(Succ(pc), "slow") /\ path' = path
      BY <1>22, <2>2 DEF Load, RetireBreak, memVars
    <3> QED BY <3>1, LandRun, SuccType, TypeParts, Zenon DEF RunOK
  <2>3. CASE LoadFrom(v) # None /\ ~b
    <3>1. RetireNext /\ path' = path /\ stale' = stale /\ phase = "exec" /\ kept' = kept
          /\ \A w \in Page : FetchPage(w)' = FetchPage(w)
      BY <1>22, <2>3, ZenonT(30) DEF Load, Executing, memVars, modeVars, FetchPage, Translate
    <3>2. running' = TRUE
      BY <1>22, TypeParts, ZenonT(30) DEF Load, Executing
    <3> QED BY <3>1, <3>2, NextRun, TypeParts, ZenonT(30)
  <2> QED BY <2>1, <2>2, <2>3
<1>23. ASSUME NEW v \in Page, NEW b \in BOOLEAN, Store(v, b)
      PROVE  RunOK' /\ (path = "data" => phase' = "exec")
  <2>1. CASE StoreTo(v) = None
    <3>1. Land(Stvec, "slow") /\ path' = path
      BY <1>23, <2>1 DEF Store, Trap, TrapTo, memVars
    <3> QED BY <3>1, LandRun, TypeParts, ConstAssumption, Zenon DEF RunOK
  <2>2. CASE StoreTo(v) # None /\ b
    <3>1. Land(Succ(pc), "slow") /\ path' = path
      BY <1>23, <2>2, ZenonT(30) DEF Store, RetireBreak, memVars
    <3> QED BY <3>1, LandRun, SuccType, TypeParts, Zenon DEF RunOK
  <2>3. CASE StoreTo(v) # None /\ ~b
    <3>1. RetireNext /\ path' = path /\ stale' = stale /\ phase = "exec" /\ kept' = kept
          /\ \A w \in Page : FetchPage(w)' = FetchPage(w)
      BY <1>23, <2>3, ZenonT(30) DEF Store, Executing, memVars, modeVars, FetchPage, Translate
    <3>2. running' = TRUE
      BY <1>23, TypeParts, ZenonT(30) DEF Store, Executing
    <3> QED BY <3>1, <3>2, NextRun, TypeParts, ZenonT(30)
  <2> QED BY <2>1, <2>2, <2>3
<1>24. ASSUME NEW v \in Page, NEW e \in Pte \cup {None}, WritePte(v, e)
      PROVE  RunOK' /\ (path = "data" => phase' = "exec")
  <2>1. /\ RetireNext /\ path' = path /\ stale \subseteq stale' /\ phase = "exec"
        /\ running' = running /\ running /\ kept' = kept
    BY <1>24, ZenonT(30) DEF WritePte, ChangePte, Executing
  <2>2. \A w \in Page : w \notin stale' => FetchPage(w)' = FetchPage(w)
    BY <1>24, TypeParts, Zenon DEF WritePte, ChangePte, modeVars, FetchPage, Translate
  <2> QED BY <2>1, <2>2, NextRun, TypeParts, ZenonT(30)
<1>25. ASSUME NEW v \in Page, NEW e \in Pte \cup {None}, RemotePte(v, e)
      PROVE  RunOK' /\ (path = "data" => phase' = "exec")
  <2>1. UNCHANGED <<path, runVars>> /\ ~running
    BY <1>25 DEF RemotePte, ChangePte
  <2> QED BY <2>1, Yielded
<1>26. ASSUME NEW p \in BOOLEAN, NEW su \in BOOLEAN, NEW mx \in BOOLEAN, WriteSstatus(p, su, mx)
      PROVE  RunOK' /\ (path = "data" => phase' = "exec")
  <2>1. (Land(Stvec, "slow") \/ Land(Succ(pc), "slow")) /\ path' = path
    BY <1>26 DEF WriteSstatus, Quiet, memVars, Trap, TrapTo, RetireBreak
  <2> QED BY <2>1, LandRun, SuccType, TypeParts, ConstAssumption, Zenon DEF RunOK
<1>27. ASSUME NEW on \in BOOLEAN, NEW bad \in BOOLEAN, WriteSatp(on, bad)
      PROVE  RunOK' /\ (path = "data" => phase' = "exec")
  <2>1. (Land(Stvec, "slow") \/ Land(Succ(pc), "slow")) /\ path' = path
    BY <1>27 DEF WriteSatp, Quiet, memVars, Trap, TrapTo, RetireBreak
  <2> QED BY <2>1, LandRun, SuccType, TypeParts, ConstAssumption, Zenon DEF RunOK
<1>28. ASSUME NEW r \in Ranges, Rfence(r[1], r[2]) PROVE RunOK' /\ (path = "data" => phase' = "exec")
  <2>1. Land(Succ(pc), "slow") /\ path' = path
    BY <1>28 DEF Rfence, Executing, Quiet, RetireBreak, memVars
  <2> QED BY <2>1, LandRun, SuccType, TypeParts, ConstAssumption, Zenon DEF RunOK
<1>29. ASSUME NEW r \in Ranges, RemoteFence(r[1], r[2]) PROVE RunOK' /\ (path = "data" => phase' = "exec")
  <2>1. UNCHANGED <<path, runVars>> /\ ~running
    BY <1>29 DEF RemoteFence, Quiet, memVars
  <2> QED BY <2>1, Yielded
<1>30. CASE UNCHANGED vars
  BY <1>30, ZenonT(30) DEF vars, RunOK, PosOK, PtrKnown, FetchTranslated, FetchPage, Translate, Sides
<1> QED
  BY ZenonT(30), <1>1, <1>2, <1>3, <1>4, <1>5, <1>6, <1>7, <1>8, <1>9, <1>10, <1>11,
     <1>12, <1>13, <1>14, <1>15, <1>16, <1>17, <1>18, <1>19, <1>20, <1>21,
     <1>22, <1>23, <1>24, <1>25, <1>26, <1>27, <1>28, <1>29, <1>30 DEF Next,
     Fetch

\* The sequential shortcut stays within its types.
LEMMA SeqStep ==
  ASSUME TypeOK, SeqOK, [Next]_vars
  PROVE  SeqOK'
<1> USE DEF SeqOK, fetchVars
<1>1. CASE FetchNext
  BY <1>1 DEF FetchNext
<1>2. CASE FetchChain
  <2>1. pc[1] \in Page /\ Index(pc[1]) \in Block0 /\ SeqNext(pc[1]) \in Pc \cup {None}
    BY TypeParts, PageBlock, SeqNextType, ZenonT(30) DEF Pc
  <2> QED BY <1>2, <2>1, ZenonT(30) DEF FetchChain
<1>3. CASE FetchShortcut
  BY <1>3, TypeParts, PageBlock, SeqNextType, Zenon DEF FetchShortcut, Pc
<1>4. CASE FetchBlock
  BY <1>4, TypeParts, PageBlock, SeqNextType, ZenonT(30) DEF FetchBlock, Pc
<1>5. CASE FetchFill
  <2>1. pc[1] \in Page /\ Index(pc[1]) \in Block0
    BY TypeParts, PageBlock, ZenonT(30) DEF Pc
  <2> DEFINE p == IF tlb[pc[1]] # None THEN tlb[pc[1]] ELSE FetchPage(pc[1])
  <2>2. p \in Page \cup {None}
    BY <2>1, TypeParts, TranslateType, ZenonT(30)
  <2>3. CASE p = None
    <3>1. Trap
      BY <1>5, <2>3, Zenon DEF FetchFill
    <3> QED BY <3>1 DEF Trap, TrapTo, KeepCaches, Invalidate, InvalidateIcache
  <2>4. CASE p # None
    <3>1. SeqNext(pc[1]) \in Pc \cup {None} /\ SeqNext(p) \in Pc \cup {None}
      BY <2>1, <2>2, <2>4, TypeParts, SeqNextType, ZenonT(30)
    <3>2. seqb' = Index(pc[1]) /\ (seqn' = SeqNext(pc[1]) \/ seqn' = SeqNext(p))
      BY <1>5, <2>4, Zenon DEF FetchFill
    <3> HIDE DEF p
    <3> QED BY <2>1, <3>1, <3>2
  <2> QED BY <2>3, <2>4, ZenonT(30)
<1>6. CASE Interrupt \/ Exception \/ SfenceVma \/ FenceI \/ RemoteFenceI
  BY <1>6, Zenon DEF Interrupt, TrapTo, KeepCaches, Invalidate, InvalidateIcache,
     Exception, Trap, SfenceVma, FenceI, RemoteFenceI
<1>7. CASE Alu \/ UartRead \/ Wfi \/ Hsm \/ SliceEnd \/ Resume
  BY <1>7, ZenonT(30) DEF Alu, UartRead, KeepCaches, Wfi, Hsm, SliceEnd, Resume
<1>8. ASSUME NEW t \in Pc, Jump(t) \/ Sret(t) \/ RemoteStart(t)
      PROVE  SeqOK'
  BY <1>8, ZenonT(30) DEF Jump, Sret, KeepCaches, Invalidate, InvalidateIcache,
     RemoteStart
<1>9. ASSUME NEW v \in Page, Amo(v) \/ RemoteWrite(v)
      PROVE  SeqOK'
  BY <1>9, ZenonT(30) DEF Amo, Trap, TrapTo, KeepCaches, Invalidate, InvalidateIcache,
     RemoteWrite
<1>10. ASSUME NEW v \in Page, NEW b \in BOOLEAN, Load(v, b) \/ Store(v, b)
      PROVE  SeqOK'
  BY <1>10, ZenonT(30) DEF Load, Trap, TrapTo, KeepCaches, Invalidate, InvalidateIcache,
     Store
<1>11. ASSUME NEW v \in Page, NEW e \in Pte \cup {None}, WritePte(v, e) \/ RemotePte(v, e)
      PROVE  SeqOK'
  BY <1>11 DEF WritePte, ChangePte, RemotePte
<1>12. ASSUME NEW p \in BOOLEAN, NEW su \in BOOLEAN, NEW mx \in BOOLEAN, WriteSstatus(p, su, mx)
      PROVE  SeqOK'
  BY <1>12, ZenonT(30) DEF WriteSstatus, Trap, TrapTo, KeepCaches, Invalidate,
     InvalidateIcache
<1>13. ASSUME NEW on \in BOOLEAN, NEW bad \in BOOLEAN, WriteSatp(on, bad)
      PROVE  SeqOK'
  BY <1>13, ZenonT(30) DEF WriteSatp, Trap, TrapTo, KeepCaches, Invalidate,
     InvalidateIcache
<1>14. ASSUME NEW r \in Ranges, Rfence(r[1], r[2]) \/ RemoteFence(r[1], r[2])
      PROVE  SeqOK'
  BY <1>14, ZenonT(30) DEF Rfence, Invalidate, InvalidateIcache, InvalidateRange,
     RemoteFence
<1>15. CASE UNCHANGED vars
  BY <1>15, ZenonT(30) DEF vars
<1> QED
  BY <1>1, <1>2, <1>3, <1>4, <1>5, <1>6, <1>7, <1>8, <1>9, <1>10, <1>11,
     <1>12, <1>13, <1>14, <1>15, Zenon DEF Next, Fetch

\* The reservation: no word it covers has been written since.
LEMMA ResvStep ==
  ASSUME TypeOK, ResvOK, ScAtomic, [Next]_vars
  PROVE  ResvOK' /\ ScAtomic'
<1> USE DEF ResvOK, ScAtomic, resvVars
<1>1. CASE FetchNext \/ FetchChain \/ FetchShortcut \/ FetchBlock \/ FetchFill
  BY <1>1, ZenonT(30) DEF FetchNext, FetchChain, FetchShortcut, FetchBlock, FetchFill,
     Trap
<1>2. CASE Interrupt \/ Exception \/ SfenceVma \/ FenceI \/ RemoteFenceI
  BY <1>2 DEF Interrupt, Exception, Quiet, Trap, SfenceVma, FenceI,
     RemoteFenceI
<1>3. CASE Alu \/ UartRead \/ Wfi \/ Hsm \/ SliceEnd \/ Resume
  BY <1>3, ZenonT(30) DEF Alu, Quiet, UartRead, Wfi, Hsm, SliceEnd, Resume
<1>4. ASSUME NEW t \in Pc, Jump(t) \/ Sret(t) \/ RemoteStart(t)
      PROVE  ResvOK' /\ ScAtomic'
  BY <1>4 DEF Jump, Quiet, Sret, RemoteStart
<1>5. ASSUME NEW v \in Page, Amo(v)
      PROVE  ResvOK' /\ ScAtomic'
  BY <1>5, TranslateType, SMTT(60) DEF Amo, Trap, WriteWord
<1>6. ASSUME NEW v \in Page, RemoteWrite(v)
      PROVE  ResvOK' /\ ScAtomic'
  BY <1>6 DEF RemoteWrite, WriteWord
<1>7. ASSUME NEW v \in Page, NEW b \in BOOLEAN, Load(v, b)
      PROVE  ResvOK' /\ ScAtomic'
  BY <1>7, TranslateType DEF Load, Trap, WriteWord
<1>8. ASSUME NEW v \in Page, NEW b \in BOOLEAN, Store(v, b)
      PROVE  ResvOK' /\ ScAtomic'
  BY <1>8, TranslateType DEF Store, Trap, WriteWord
<1>9. ASSUME NEW v \in Page, NEW e \in Pte \cup {None}, WritePte(v, e) \/ RemotePte(v, e)
      PROVE  ResvOK' /\ ScAtomic'
  BY <1>9 DEF WritePte, ChangePte, RemotePte
<1>10. ASSUME NEW p \in BOOLEAN, NEW su \in BOOLEAN, NEW mx \in BOOLEAN, WriteSstatus(p, su, mx)
      PROVE  ResvOK' /\ ScAtomic'
  BY <1>10 DEF WriteSstatus, Quiet, Trap
<1>11. ASSUME NEW on \in BOOLEAN, NEW bad \in BOOLEAN, WriteSatp(on, bad)
      PROVE  ResvOK' /\ ScAtomic'
  BY <1>11 DEF WriteSatp, Quiet, Trap
<1>12. ASSUME NEW r \in Ranges, Rfence(r[1], r[2]) \/ RemoteFence(r[1], r[2])
      PROVE  ResvOK' /\ ScAtomic'
  BY <1>12, ZenonT(30) DEF Rfence, Quiet, RemoteFence
<1>13. CASE UNCHANGED vars
  BY <1>13, ZenonT(30) DEF vars
<1> QED
  BY Zenon, <1>1, <1>2, <1>3, <1>4, <1>5, <1>6, <1>7, <1>8, <1>9, <1>10, <1>11,
     <1>12, <1>13 DEF Next, Fetch

\* The fetch caches of the data side stay empty.
LEMMA SideCaches ==
  ASSUME TypeOK, Sides, Effect, path = "data"
  PROVE  tlb' = Empty /\ icache' = NoBlocks
<1> USE TypeParts DEF Sides
<1>1. CASE UNCHANGED <<tlb, icache>>
  BY <1>1
<1>5. CASE Same
  BY <1>1, <1>5 DEF Same
<1>6. CASE DataFilled
  BY <1>1, <1>6 DEF DataFilled
<1>7. CASE PteChanged
  BY <1>1, <1>7 DEF PteChanged, ChangePte, fetchVars
<1>2. CASE Flush
  BY <1>2, ZenonT(30) DEF Flush, Invalidate, InvalidateIcache
<1>3. CASE FlushRange
  <2>1. PICK r \in Ranges : InvalidateRange(r[1], r[2]) /\ path' = path
    BY <1>3, ZenonT(30) DEF FlushRange, View
  <2>2. CASE r[2] = 0
    BY <2>1, <2>2, Zenon DEF InvalidateRange, Invalidate, InvalidateIcache
  <2>3. CASE r[2] # 0
    BY <2>1, <2>3, ZenonT(30) DEF InvalidateRange, Empty, NoBlocks
  <2> QED BY <2>2, <2>3, ZenonT(30)
<1>4. ~FlushBlocks /\ ~FetchFilled
  BY ZenonT(30) DEF FlushBlocks, FetchFilled
<1> QED BY <1>2, <1>3, <1>4, <1>5, <1>6, <1>7, ZenonT(30) DEF Effect

-----------------------------------------------------------------------------
IInv ==
  /\ TypeOK /\ Sides /\ Modes /\ Epochs /\ CachesCoherent
  /\ PtrKnown /\ FetchTranslated /\ ScAtomic

\* TypeOK, by the parts the lemmas above keep.
LEMMA TypeByParts ==
  TypeOK <=>
  /\ ModeOK /\ PosOK /\ SeqOK /\ ResvOK
  /\ tlb \in [Page -> Page \cup {None}] /\ load \in [Page -> Page \cup {None}]
  /\ store \in [Page -> Page \cup {None}]
  /\ icache \in [Block0 -> Block \cup {None}] /\ epoch \in 1 .. EpochMod - 1
  /\ lastl \in Entry \cup {None} /\ lasts \in Entry \cup {None}
  /\ stale \in SUBSET Page
BY TypeParts, Zenon DEF ModeOK, PosOK, SeqOK, ResvOK

LEMMA InitIInv == Init => IInv
<1> SUFFICES ASSUME Init PROVE IInv
  OBVIOUS
<1>1. ModeOK /\ ResvOK
  BY Zenon DEF Init, ModeOK, ResvOK
<1>2. PosOK /\ SeqOK
  BY ConstAssumption, ZenonT(30) DEF Init, PosOK, SeqOK
<1>3. /\ tlb \in [Page -> Page \cup {None}] /\ load \in [Page -> Page \cup {None}]
      /\ store \in [Page -> Page \cup {None}]
      /\ icache \in [Block0 -> Block \cup {None}] /\ epoch \in 1 .. EpochMod - 1
      /\ lastl \in Entry \cup {None} /\ lasts \in Entry \cup {None} /\ stale \in SUBSET Page
  BY ConstAssumption, SMTT(60) DEF Init, Empty, NoBlocks, Block0
<1>4. TypeOK
  BY <1>1, <1>2, <1>3, TypeByParts
<1>5. Sides /\ Modes
  BY DEF Init, Sides, Modes
<1>6. Epochs
  BY DEF Init, Epochs, NoBlocks, Block0
<1>7. CachesCoherent
  BY PageBlock, ZenonT(30) DEF Init, CachesCoherent, Empty, NoBlocks, IcacheHit, ValidBlock, Block0
<1>8. PtrKnown /\ FetchTranslated /\ ScAtomic
  BY ZenonT(30) DEF Init, PtrKnown, FetchTranslated, ScAtomic
<1> QED BY <1>4, <1>5, <1>6, <1>7, <1>8 DEF IInv

LEMMA NextIInv == IInv /\ [Next]_vars => IInv'
<1> SUFFICES ASSUME IInv, [Next]_vars PROVE IInv'
  OBVIOUS
<1>1. TypeOK /\ Sides /\ Modes /\ Epochs /\ CachesCoherent
  BY DEF IInv
<1>2. ModeOK /\ SeqOK /\ ResvOK /\ RunOK /\ ScAtomic
  BY <1>1, TypeByParts DEF IInv, RunOK
<1>3. Effect
  BY <1>1, EffectStep
<1>4. CachesCoherent' /\ Epochs'
  BY <1>1, <1>3, CoherentSame, CoherentFlush, CoherentFlushBlocks, CoherentFlushRange,
     CoherentFetchFilled, CoherentDataFilled, CoherentPteChanged DEF Effect
<1>5. ModeOK' /\ Modes'
  BY <1>1, <1>2, ModeStep
<1>6. SeqOK' /\ ResvOK' /\ ScAtomic'
  BY <1>1, <1>2, SeqStep, ResvStep
<1>7. RunOK' /\ (path = "data" => phase' = "exec")
  BY <1>1, <1>2, RunStep
<1>8. TypeOK'
  <2>1. PosOK'
    BY <1>7 DEF RunOK
  <2>2. /\ tlb' \in [Page -> Page \cup {None}] /\ load' \in [Page -> Page \cup {None}]
        /\ store' \in [Page -> Page \cup {None}]
        /\ icache' \in [Block0 -> Block \cup {None}] /\ epoch' \in 1 .. EpochMod - 1
        /\ lastl' \in Entry \cup {None} /\ lasts' \in Entry \cup {None}
        /\ stale' \in SUBSET Page
    BY <1>1, <1>3, CacheTypes
  <2> QED BY <1>5, <1>6, <2>1, <2>2, Zenon DEF TypeOK, ModeOK, PosOK, SeqOK, ResvOK, Block0
<1>9. Sides'
  <2>1. path' = path
    BY <1>3, ZenonT(30) DEF Effect, Same, Flush, FlushBlocks, FlushRange, FetchFilled, DataFilled,
                PteChanged, ChangePte, View
  <2> QED BY <1>1, <1>3, <1>7, <2>1, SideCaches DEF Sides
<1> QED BY <1>4, <1>5, <1>6, <1>7, <1>8, <1>9 DEF IInv, RunOK

(***************************************************************************)
(* The inductive invariant of the caches, the fetch path and the modes,    *)
(* over every instruction, trap, yield and step of other harts.            *)
(***************************************************************************)
THEOREM Invariant == Spec => []IInv
<1> QED BY InitIInv, NextIInv, PTL DEF Spec

\* The state stays within its types; the epoch never leaves its width.
THEOREM TypeCorrect == Spec => []TypeOK
<1>1. IInv => TypeOK
  BY DEF IInv
<1> QED BY Invariant, <1>1, PTL

(***************************************************************************)
(* Whatever the caches answer is what mmu_translate would answer, for any  *)
(* page not changed since a fence: mmu_invalidate, mmu_invalidate_range    *)
(* and the epoch of icache_invalidate_all drop enough, always.             *)
(***************************************************************************)
THEOREM CachesAlwaysCoherent == Spec => []CachesCoherent
<1>1. IInv => CachesCoherent
  BY DEF IInv
<1> QED BY Invariant, <1>1, PTL

(***************************************************************************)
(* vm_step_many executes instructions of the page its pc translates to,    *)
(* along seq_ptr and by every path of mmu_fetch, but for the two excepted  *)
(* cases.                                                                  *)
(***************************************************************************)
THEOREM FetchAlwaysTranslated == Spec => []FetchTranslated
<1>1. IInv => FetchTranslated
  BY DEF IInv
<1> QED BY Invariant, <1>1, PTL

\* AMO_SC succeeds only if no hart wrote the word since AMO_LR reserved it.
THEOREM ReservationsAtomic == Spec => []ScAtomic
<1>1. IInv => ScAtomic
  BY DEF IInv
<1> QED BY Invariant, <1>1, PTL

\* What a step may do to the mode.
LeaveUser == ~s_mode /\ s_mode' /\ path = "fetch" => pc' = Stvec

LEMMA LeaveUserStep ==
  ASSUME TypeOK, Modes, [Next]_vars
  PROVE  LeaveUser
<1> USE DEF LeaveUser, modeVars
<1>1. CASE FetchNext \/ FetchChain \/ FetchShortcut \/ FetchBlock
  BY <1>1, ZenonT(30) DEF FetchNext, FetchChain, FetchShortcut, FetchBlock
<1>2. CASE FetchFill
  BY <1>2, Zenon DEF FetchFill, Trap, TrapTo, Land, Go
<1>3. CASE Interrupt
  BY <1>3 DEF Interrupt, TrapTo, Land, Go
<1>4. CASE Exception
  BY <1>4 DEF Exception, Quiet, Trap, TrapTo, Land, Go
<1>5. CASE Alu \/ SfenceVma \/ FenceI \/ UartRead
  BY <1>5, Zenon DEF Alu, Quiet, SfenceVma, Land, FenceI, UartRead
<1>6. CASE Wfi \/ Hsm \/ SliceEnd \/ Resume \/ RemoteFenceI
  BY <1>6, Zenon DEF Wfi, Quiet, Land, Hsm, SliceEnd, Resume, RemoteFenceI
<1>7. ASSUME NEW t \in Pc, Jump(t)
      PROVE  LeaveUser
  BY <1>7 DEF Jump, Quiet
<1>8. ASSUME NEW t \in Pc, Sret(t)
      PROVE  LeaveUser
  BY <1>8, TypeParts, ZenonT(30) DEF Sret, Modes
<1>9. ASSUME NEW t \in Pc, RemoteStart(t)
      PROVE  LeaveUser
  BY <1>9, TypeParts, ZenonT(30) DEF RemoteStart, Modes
<1>10. ASSUME NEW v \in Page, Amo(v)
      PROVE  LeaveUser
  BY <1>10, ZenonT(30) DEF Amo, Trap, TrapTo, Land, Go
<1>11. ASSUME NEW v \in Page, RemoteWrite(v)
      PROVE  LeaveUser
  BY <1>11 DEF RemoteWrite
<1>12. ASSUME NEW v \in Page, NEW b \in BOOLEAN, Load(v, b)
      PROVE  LeaveUser
  BY <1>12 DEF Load, Trap, TrapTo, Land, Go
<1>13. ASSUME NEW v \in Page, NEW b \in BOOLEAN, Store(v, b)
      PROVE  LeaveUser
  BY <1>13, ZenonT(30) DEF Store, Trap, TrapTo, Land, Go
<1>14. ASSUME NEW v \in Page, NEW e \in Pte \cup {None}, WritePte(v, e) \/ RemotePte(v, e)
      PROVE  LeaveUser
  BY <1>14, Zenon DEF WritePte, ChangePte, RemotePte
<1>15. ASSUME NEW p \in BOOLEAN, NEW su \in BOOLEAN, NEW mx \in BOOLEAN, WriteSstatus(p, su, mx)
      PROVE  LeaveUser
  BY <1>15, ZenonT(30) DEF WriteSstatus, Quiet, Trap, TrapTo, Land, Go
<1>16. ASSUME NEW on \in BOOLEAN, NEW bad \in BOOLEAN, WriteSatp(on, bad)
      PROVE  LeaveUser
  BY <1>16 DEF WriteSatp, Quiet, Trap, TrapTo, Land, Go
<1>17. ASSUME NEW r \in Ranges, Rfence(r[1], r[2]) \/ RemoteFence(r[1], r[2])
      PROVE  LeaveUser
  BY <1>17, ZenonT(30) DEF Rfence, Quiet, Land, RemoteFence
<1>18. CASE UNCHANGED vars
  BY <1>18 DEF vars
<1> QED
  BY ZenonT(30), <1>1, <1>2, <1>3, <1>4, <1>5, <1>6, <1>7, <1>8, <1>9, <1>10, <1>11,
     <1>12, <1>13, <1>14, <1>15, <1>16, <1>17, <1>18 DEF Next, Fetch

\* What a step may do to satp and the root table.
KeepSatp == satp' = root' \/ satp # root \/ (hsm # "started" /\ hsm' = "started")

LEMMA KeepSatpStep ==
  ASSUME TypeOK, [Next]_vars
  PROVE  KeepSatp
<1> USE DEF KeepSatp, modeVars
<1>1. CASE FetchNext \/ FetchChain \/ FetchShortcut \/ FetchBlock
  BY <1>1, Zenon DEF FetchNext, FetchChain, FetchShortcut, FetchBlock
<1>2. CASE FetchFill
  BY <1>2, Zenon DEF FetchFill, Trap, TrapTo
<1>3. CASE Interrupt
  BY <1>3 DEF Interrupt, TrapTo
<1>4. CASE Exception
  BY <1>4 DEF Exception, Quiet, Trap, TrapTo
<1>5. CASE Alu \/ SfenceVma \/ FenceI \/ UartRead
  BY <1>5 DEF Alu, Quiet, SfenceVma, FenceI, UartRead
<1>6. CASE Wfi \/ Hsm \/ SliceEnd \/ Resume \/ RemoteFenceI
  BY <1>6, ZenonT(30) DEF Wfi, Quiet, Hsm, SliceEnd, Resume, RemoteFenceI
<1>7. ASSUME NEW t \in Pc, Jump(t)
      PROVE  KeepSatp
  BY <1>7 DEF Jump, Quiet
<1>8. ASSUME NEW t \in Pc, Sret(t)
      PROVE  KeepSatp
  BY <1>8 DEF Sret, Quiet
<1>9. ASSUME NEW t \in Pc, RemoteStart(t)
      PROVE  KeepSatp
  BY <1>9 DEF RemoteStart
<1>10. ASSUME NEW v \in Page, Amo(v)
      PROVE  KeepSatp
  BY <1>10, ZenonT(30) DEF Amo, Trap, TrapTo
<1>11. ASSUME NEW v \in Page, RemoteWrite(v)
      PROVE  KeepSatp
  BY <1>11 DEF RemoteWrite
<1>12. ASSUME NEW v \in Page, NEW b \in BOOLEAN, Load(v, b)
      PROVE  KeepSatp
  BY <1>12, ZenonT(30) DEF Load, Trap, TrapTo
<1>13. ASSUME NEW v \in Page, NEW b \in BOOLEAN, Store(v, b)
      PROVE  KeepSatp
  BY <1>13 DEF Store, Trap, TrapTo
<1>14. ASSUME NEW v \in Page, NEW e \in Pte \cup {None}, WritePte(v, e) \/ RemotePte(v, e)
      PROVE  KeepSatp
  BY <1>14, ZenonT(30) DEF WritePte, ChangePte, RemotePte
<1>15. ASSUME NEW p \in BOOLEAN, NEW su \in BOOLEAN, NEW mx \in BOOLEAN, WriteSstatus(p, su, mx)
      PROVE  KeepSatp
  BY <1>15 DEF WriteSstatus, Quiet, Trap, TrapTo
<1>16. ASSUME NEW on \in BOOLEAN, NEW bad \in BOOLEAN, WriteSatp(on, bad)
      PROVE  KeepSatp
  BY <1>16 DEF WriteSatp, Quiet, Trap, TrapTo
<1>17. ASSUME NEW r \in Ranges, Rfence(r[1], r[2]) \/ RemoteFence(r[1], r[2])
      PROVE  KeepSatp
  BY <1>17 DEF Rfence, Quiet, RemoteFence
<1>18. CASE UNCHANGED vars
  BY <1>18, ZenonT(30) DEF vars
<1> QED
  BY <1>1, <1>2, <1>3, <1>4, <1>5, <1>6, <1>7, <1>8, <1>9, <1>10, <1>11,
     <1>12, <1>13, <1>14, <1>15, <1>16, <1>17, <1>18, ZenonT(60) DEF Next, Fetch

(***************************************************************************)
(* User mode is left only through the trap vector: neither op_sret, which  *)
(* does not check the mode, nor HART_START gets a hart out of it.          *)
(***************************************************************************)
THEOREM UserLeftByTrap == Spec => LeavesUserByTrap
<1>1. IInv /\ [Next]_vars => [LeaveUser]_vars
  BY LeaveUserStep DEF IInv
<1>2. LeaveUser => (~s_mode /\ s_mode' /\ path = "fetch" => pc' = Stvec)
  BY DEF LeaveUser
<1> QED BY Invariant, <1>1, <1>2, PTL DEF Spec, LeavesUserByTrap

\* satp and the root table part only when HART_START clears satp alone.
THEOREM SatpKeepsRoot == Spec => SatpNamesRoot
<1>1. IInv /\ [Next]_vars => [KeepSatp]_vars
  BY KeepSatpStep DEF IInv
<1>2. KeepSatp => (satp' = root') \/ (satp # root) \/ (hsm # "started" /\ hsm' = "started")
  BY DEF KeepSatp
<1> QED BY Invariant, <1>1, <1>2, PTL DEF Spec, SatpNamesRoot
=============================================================================
