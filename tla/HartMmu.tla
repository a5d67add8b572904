------------------------------- MODULE HartMmu -------------------------------
(***************************************************************************)
(* One hart's address translation and what it caches of it: the fetch TLB, *)
(* the instruction cache with its sequential shortcut, the host pointer    *)
(* vm_step_many runs along, the load and store TLBs with their last-entry  *)
(* fast path, and the LR reservation; and everything that must invalidate  *)
(* them: satp, SUM and MXR, traps and SRET, fences, and the SBI calls of   *)
(* the other harts.                                                        *)
(*                                                                         *)
(* The caches hold pages, not contents: they point into guest RAM.  A page *)
(* is one instruction cache block of NWord instructions and has one data   *)
(* word.  A step is the fetch or the execution of one instruction; other   *)
(* harts act only while this one has yielded.  The fetch caches and the    *)
(* data caches never look at each other, so a behaviour watches one side:  *)
(* path says which.                                                        *)
(***************************************************************************)
EXTENDS Naturals, FiniteSets

CONSTANTS
  NPage,     \* virtual pages; there are as many pages of RAM
  NWord,     \* instructions in a page
  NIndex,    \* ICACHE_BLOCKS, and entries of the fetch TLB
  Ways,      \* entries of one set of the load or store TLB
  EpochMod,  \* 2^32: icache_epoch is 32 bits wide
  Pte,       \* leaf entries the guest writes: [ppn, perm, user]
  Ranges,    \* <<start, size>> of the fences the guest asks for, in words
  None,      \* an invalid entry, an empty slot, a NULL pointer
  Stvec      \* the trap vector

Page == 0 .. NPage - 1
Word == 0 .. NWord - 1
Pc == Page \X Word

ASSUME ConstAssumption ==
  /\ NPage \in Nat \ {0} /\ NWord \in Nat \ {0}
  /\ NIndex \in Nat \ {0} /\ Ways \in Nat \ {0}
  /\ EpochMod \in Nat \ {0, 1, 2}
  /\ Pte \subseteq [ppn : Page, perm : SUBSET {"r", "w", "x"}, user : BOOLEAN]
  /\ None \notin Pte /\ None \notin Page /\ None \notin Pc
  /\ Stvec \in Pc /\ Ranges \subseteq Nat \X Nat

VARIABLES
  path,                      \* the side watched: "fetch" or "data"
  table, dirty,              \* the page table in RAM, and its D bits
  hsm, running,              \* hsm_status (suspended counts as stopped); the
                             \* coroutine runs
  s_mode, spp, sum, mxr,     \* s_mode, sstatus_spp, _sum, _mxr
  satp, root,                \* satp is not 0; page_table is not NULL
  phase, pc, ptr, got,       \* vm_step_many: see below
  tlb, icache, epoch,        \* cache_fetch, icache, icache_epoch
  seqb, seqn,                \* seq_fetch_block, seq_fetch_next_pc
  load, store,               \* cache_load, cache_store
  lastl, lasts,              \* cache_load_last_*, cache_store_last_*
  resv,                      \* lr_reservation
  stale, written, odd, kept  \* history: see the properties

modeVars == <<s_mode, spp, sum, mxr, satp, root>>
runVars == <<phase, pc, ptr, got, odd, kept>>
fetchVars == <<tlb, icache, epoch, seqb, seqn>>
dataVars == <<load, store, lastl, lasts>>
resvVars == <<resv, written>>
memVars == <<path, table, dirty>>
vars == <<path, table, dirty, hsm, running, s_mode, spp, sum, mxr, satp, root,
          phase, pc, ptr, got, tlb, icache, epoch, seqb, seqn, load, store,
          lastl, lasts, resv, stale, written, odd, kept>>

Empty == [v \in Page |-> None]
NoBlocks == [i \in 0 .. NIndex - 1 |-> None]

(***************************************************************************)
(* INIT_HART and vm_init: supervisor mode, no translation, nothing cached. *)
(***************************************************************************)
Init ==
  /\ path \in {"fetch", "data"}
  /\ table \in [Page -> Pte \cup {None}] /\ dirty = {}
  /\ hsm = "started" /\ running = TRUE
  /\ s_mode = TRUE /\ spp = FALSE /\ sum = FALSE /\ mxr = FALSE
  /\ satp = FALSE /\ root = FALSE
  /\ phase = IF path = "fetch" THEN "slow" ELSE "exec"
  /\ pc = Stvec /\ ptr = None /\ got = None
  /\ tlb = Empty /\ icache = NoBlocks /\ epoch = 1
  /\ seqb = None /\ seqn = None
  /\ load = Empty /\ store = Empty /\ lastl = None /\ lasts = None
  /\ resv = None /\ stale = {} /\ written = {} /\ odd = FALSE /\ kept = FALSE

-----------------------------------------------------------------------------
(* Translation.                                                            *)

(***************************************************************************)
(* mmu_translate over mmu_lookup: the physical page, or None for a fault.  *)
(* Without a root table the address is physical already.                   *)
(***************************************************************************)
Translate(v, bits, skip) ==
  IF ~root THEN v
  ELSE LET e == table[v] IN
       IF e # None /\ e.perm \cap bits # {} /\ (~e.user = s_mode \/ skip)
       THEN e.ppn ELSE None

FetchPage(v) == Translate(v, {"x"}, FALSE)

LoadPage(v) ==
  Translate(v, {"r"} \cup (IF mxr THEN {"x"} ELSE {}), sum /\ s_mode)

StorePage(v) == Translate(v, {"w"}, sum /\ s_mode)

\* icache_block_valid
ValidBlock(i) == icache[i] # None /\ icache[i].epoch = epoch

\* The virtual page a block was filled for: its tag and its index.
BlockPage(i) == icache[i].tag * NIndex + i

(***************************************************************************)
(* icache_invalidate_all: a new epoch makes every block invalid; when the  *)
(* epoch wraps the blocks are cleared.  (The data side has no blocks, and  *)
(* its epoch stands still.)                                                *)
(***************************************************************************)
InvalidateIcache ==
  /\ IF path = "data" THEN UNCHANGED <<epoch, icache>>
     ELSE IF epoch + 1 = EpochMod THEN epoch' = 1 /\ icache' = NoBlocks
     ELSE epoch' = epoch + 1 /\ UNCHANGED icache
  /\ seqb' = None /\ seqn' = None

\* mmu_invalidate
Invalidate ==
  /\ tlb' = Empty
  /\ InvalidateIcache
  /\ load' = Empty /\ store' = Empty /\ lastl' = None /\ lasts' = None
  /\ stale' = {}

KeepCaches == UNCHANGED <<fetchVars, dataVars, stale>>

\* As if the end were computed in 32 bits.
InvalidateRange_Wraps(start, size) ==
  IF size = 0 THEN Invalidate
  ELSE LET end == (start + size - 1) % (NPage * NWord)
           hit(v) == start \div NWord <= v /\ v <= end \div NWord
           Drop(map) == [v \in Page |-> IF hit(v) THEN None ELSE map[v]]
       IN  /\ tlb' = Drop(tlb) /\ load' = Drop(load) /\ store' = Drop(store)
           /\ stale' = {v \in stale : \A a \in start .. start + size - 1 :
                                        a \div NWord # v}
           /\ lastl' = None /\ lasts' = None
           /\ UNCHANGED <<icache, epoch, seqb, seqn>>

(***************************************************************************)
(* mmu_invalidate_range, for size words from start: 0 (and -1, which the   *)
(* code treats alike) means everything, and the end is clamped to the      *)
(* address space.  The shortcut and the host pointer stay.                 *)
(***************************************************************************)
InvalidateRange(start, size) ==
  IF size = 0 THEN Invalidate
  ELSE LET top == NPage * NWord - 1
           end == IF start + size - 1 > top THEN top ELSE start + size - 1
           hit(v) == start \div NWord <= v /\ v <= end \div NWord
           Drop(map) == [v \in Page |-> IF hit(v) THEN None ELSE map[v]]
           DropLast(e) == IF e # None /\ hit(e[1]) THEN None ELSE e
       IN  /\ tlb' = Drop(tlb)
           /\ icache' = [i \in DOMAIN icache |->
                IF ValidBlock(i) /\ hit(BlockPage(i)) THEN None ELSE icache[i]]
           /\ load' = Drop(load) /\ store' = Drop(store)
           /\ lastl' = DropLast(lastl) /\ lasts' = DropLast(lasts)
           /\ stale' = {v \in stale : \A a \in start .. start + size - 1 :
                                        a \div NWord # v}
           /\ UNCHANGED <<epoch, seqb, seqn>>

-----------------------------------------------------------------------------
(* vm_step_many.  phase is "slow" (L_slow_path), "next" (go on along ptr), *)
(* "chain" (look up the instruction cache after a jump) or "exec" (the     *)
(* instruction of page got is about to execute at pc).  ptr is the RAM     *)
(* page of seq_ptr, its offset that of pc.                                 *)

Go(target, ph) ==
  IF path = "fetch" THEN pc' = target /\ phase' = ph /\ got' = None
  ELSE UNCHANGED <<pc, phase, got>>

Succ(a) == IF a[2] + 1 < NWord THEN <<a[1], a[2] + 1>>
           ELSE <<(a[1] + 1) % NPage, 0>>

\* DISPATCH_NEXT, and DISPATCH_BREAK with a new pc: seq_ptr is NULL.
RetireNext ==
  /\ Go(Succ(pc), IF ptr = None THEN "slow" ELSE "next")
  /\ UNCHANGED <<ptr, odd>>

Land(target, ph) == Go(target, ph) /\ ptr' = None /\ kept' = FALSE /\ UNCHANGED odd

\* As if DISPATCH_BREAK left seq_ptr alone.
RetireBreak_KeepPtr ==
  /\ Go(Succ(pc), IF ptr = None THEN "slow" ELSE "next")
  /\ UNCHANGED <<ptr, odd, kept>>

RetireBreak == Land(Succ(pc), "slow")

(***************************************************************************)
(* hart_trap, for an exception of the instruction at pc or an interrupt.   *)
(***************************************************************************)
TrapTo(ph) ==
  /\ s_mode' = TRUE /\ spp' = s_mode
  /\ IF s_mode THEN KeepCaches ELSE Invalidate
  /\ Land(Stvec, ph)
  /\ UNCHANGED <<sum, mxr, satp, root>>

Trap == TrapTo("slow")

\* vm_handle_pending_interrupt, on the slow path and before a chained lookup.
Interrupt ==
  /\ running /\ phase \in {"slow", "chain", "exec"}
  /\ phase = "exec" => path = "data"
  /\ TrapTo(phase)
  /\ UNCHANGED <<memVars, hsm, running, resvVars>>

\* The instruction comes from page p; ptr moves on within the block.  kept: ptr
\* was left by one of the cases FetchTranslated excepts.
Fetched(p, strange) ==
  /\ got' = p /\ phase' = "exec" /\ odd' = strange
  /\ ptr' = IF pc[2] + 1 < NWord THEN p ELSE None
  /\ kept' = (strange /\ ptr' # None)
  /\ UNCHANGED pc

\* seq_fetch_next_pc, computed from an address in page v.
SeqNext(v) == IF pc[2] + 1 < NWord THEN <<v, pc[2] + 1>> ELSE None

Index(v) == v % NIndex
Tag(v) == v \div NIndex

IcacheHit(v) == ValidBlock(Index(v)) /\ icache[Index(v)].tag = Tag(v)

FetchNext ==
  /\ running /\ phase = "next"
  /\ Fetched(ptr, kept)
  /\ UNCHANGED <<memVars, hsm, running, modeVars, fetchVars, dataVars, resvVars, stale>>

\* DISPATCH_CHAIN: the instruction cache, or else the slow path.
FetchChain ==
  /\ running /\ phase = "chain"
  /\ IF IcacheHit(pc[1])
     THEN /\ seqb' = Index(pc[1]) /\ seqn' = SeqNext(pc[1])
          /\ Fetched(icache[Index(pc[1])].base, FALSE)
     ELSE /\ phase' = "slow" /\ ptr' = None /\ kept' = FALSE
          /\ UNCHANGED <<seqb, seqn, pc, got, odd>>
  /\ UNCHANGED <<memVars, hsm, running, modeVars, tlb, icache, epoch, dataVars,
                 resvVars, stale>>

(***************************************************************************)
(* mmu_fetch, first part: the sequential shortcut, which compares the      *)
(* address and the tag, not the index.                                     *)
(***************************************************************************)
Shortcut ==
  /\ seqn = pc /\ seqb # None
  /\ ValidBlock(seqb) /\ icache[seqb].tag = Tag(pc[1])

FetchShortcut ==
  /\ running /\ phase = "slow" /\ Shortcut
  /\ seqn' = SeqNext(pc[1])
  /\ Fetched(icache[seqb].base, BlockPage(seqb) # pc[1])
  /\ UNCHANGED <<memVars, hsm, running, modeVars, tlb, icache, epoch, seqb,
                 dataVars, resvVars, stale>>

FetchBlock ==
  /\ running /\ phase = "slow" /\ ~Shortcut /\ IcacheHit(pc[1])
  /\ seqb' = Index(pc[1]) /\ seqn' = SeqNext(pc[1])
  /\ Fetched(icache[Index(pc[1])].base, FALSE)
  /\ UNCHANGED <<memVars, hsm, running, modeVars, tlb, icache, epoch, dataVars,
                 resvVars, stale>>

(***************************************************************************)
(* mmu_fetch, last part: the fetch TLB, or a walk, fills the block.  After *)
(* a walk addr is the physical address, and seq_fetch_next_pc is computed  *)
(* from it.                                                                *)
(***************************************************************************)
FetchFill ==
  /\ running /\ phase = "slow" /\ ~Shortcut /\ ~IcacheHit(pc[1])
  /\ LET v == pc[1]
         hit == tlb[v] # None
         p == IF hit THEN tlb[v] ELSE FetchPage(v)
     IN  IF p = None THEN Trap
         ELSE /\ tlb' = [w \in Page |-> IF w = v THEN p
                           ELSE IF ~hit /\ Index(w) = Index(v) THEN None ELSE tlb[w]]
              /\ icache' = [icache EXCEPT
                   ![Index(v)] = [tag |-> Tag(v), base |-> p, epoch |-> epoch]]
              /\ seqb' = Index(v) /\ seqn' = SeqNext(IF hit THEN v ELSE p)
              /\ Fetched(p, FALSE)
              /\ UNCHANGED <<epoch, modeVars, dataVars, stale>>
  /\ UNCHANGED <<memVars, hsm, running, resvVars>>

-----------------------------------------------------------------------------
(* Instructions.                                                           *)

Executing == running /\ phase = "exec"

\* What no instruction on the watched side touches.
Quiet == UNCHANGED <<memVars, hsm, resvVars>>

\* OP, OP_IMM, LUI, AUIPC, MUL: only registers change.
Alu ==
  /\ Executing /\ path = "fetch"
  /\ RetireNext
  /\ Quiet /\ UNCHANGED <<running, modeVars, fetchVars, dataVars, stale, kept>>

\* JAL, JALR, a branch taken: DISPATCH_CHAIN.
Jump(target) ==
  /\ Executing /\ path = "fetch"
  /\ Go(target, "chain")
  /\ Quiet
  /\ UNCHANGED <<running, modeVars, ptr, fetchVars, dataVars, stale, odd, kept>>

(***************************************************************************)
(* mmu_load: the page loaded from (None for a fault), and what the load    *)
(* leaves cached.  The last entry answers first, then the set, then a walk *)
(* whose result replaces a way of a full set (either: the LRU bit is left  *)
(* out).                                                                   *)
(***************************************************************************)
LoadFrom(v) ==
  IF lastl # None /\ lastl[1] = v THEN lastl[2]
  ELSE IF load[v] # None THEN load[v] ELSE LoadPage(v)

\* Sets of entries a fill of page v can displace.
Victims(map, v) ==
  LET full == {w \in Page \ {v} : map[w] # None}
  IN  IF Cardinality(full) < Ways THEN {{}} ELSE {{w} : w \in full}

Filled(map, v, p, out) ==
  [w \in Page |-> IF w = v THEN p ELSE IF w \in out THEN None ELSE map[w]]

LoadCaches(v) ==
  IF lastl # None /\ lastl[1] = v THEN UNCHANGED <<load, lastl>>
  ELSE /\ lastl' = <<v, LoadFrom(v)>>
       /\ IF load[v] # None THEN UNCHANGED load
          ELSE \E out \in Victims(load, v) :
                 load' = Filled(load, v, LoadFrom(v), out)

\* mmu_store, up to do_store; a walk sets the D bit of the entry.
StoreTo(v) ==
  IF lasts # None /\ lasts[1] = v THEN lasts[2]
  ELSE IF store[v] # None THEN store[v] ELSE StorePage(v)

StoreCaches(v) ==
  IF lasts # None /\ lasts[1] = v THEN UNCHANGED <<store, lasts, dirty>>
  ELSE /\ lasts' = <<v, StoreTo(v)>>
       /\ IF store[v] # None THEN UNCHANGED <<store, dirty>>
          ELSE /\ \E out \in Victims(store, v) :
                    store' = Filled(store, v, StoreTo(v), out)
               /\ dirty' = IF root THEN dirty \cup {v} ELSE dirty

\* do_store: a write to page p ends every reservation on it.
WriteWord(p) ==
  /\ resv' = IF resv = p THEN None ELSE resv
  /\ written' = written \cup {p}

\* L_load, and AMO_LR, which reserves the word it read.
Load(v, reserve) ==
  /\ Executing /\ path = "data"
  /\ IF LoadFrom(v) = None THEN Trap /\ UNCHANGED resvVars
     ELSE /\ LoadCaches(v)
          /\ IF reserve THEN resv' = LoadFrom(v) /\ written' = {}
             ELSE UNCHANGED resvVars
          /\ IF reserve THEN RetireBreak ELSE RetireNext /\ UNCHANGED kept
          /\ UNCHANGED <<modeVars, fetchVars, store, lasts, stale>>
  /\ UNCHANGED <<memVars, hsm, running>>

\* As if the last-entry fast path skipped the reservations.
Store_FastSkips(v, cond) ==
  /\ Executing /\ path = "data" /\ StoreTo(v) # None
  /\ StoreCaches(v)
  /\ IF cond /\ resv # StoreTo(v) THEN UNCHANGED resvVars
     ELSE IF lasts # None /\ lasts[1] = v /\ ~cond
     THEN written' = written \cup {StoreTo(v)} /\ UNCHANGED resv
     ELSE WriteWord(StoreTo(v))
  /\ RetireBreak
  /\ UNCHANGED <<modeVars, fetchVars, load, lastl, stale, path, table, hsm, running>>

\* L_store, and AMO_SC, which writes only with the reservation.
Store(v, cond) ==
  /\ Executing /\ path = "data"
  /\ IF StoreTo(v) = None THEN Trap /\ UNCHANGED <<resvVars, dirty>>
     ELSE /\ StoreCaches(v)
          /\ IF cond /\ resv # StoreTo(v) THEN UNCHANGED resvVars
             ELSE WriteWord(StoreTo(v))
          /\ IF cond THEN RetireBreak ELSE RetireNext /\ UNCHANGED kept
          /\ UNCHANGED <<modeVars, fetchVars, load, lastl, stale>>
  /\ UNCHANGED <<path, table, hsm, running>>

(***************************************************************************)
(* AMO_OP: a load, then a store to the same address.  Either may fault.    *)
(***************************************************************************)
Amo(v) ==
  /\ Executing /\ path = "data"
  /\ IF LoadFrom(v) = None THEN Trap /\ UNCHANGED <<resvVars, dirty>>
     ELSE IF StoreTo(v) = None
     THEN /\ s_mode' = TRUE /\ spp' = s_mode
          /\ IF s_mode THEN LoadCaches(v) /\ UNCHANGED <<fetchVars, store, lasts, stale>>
             ELSE Invalidate
          /\ Land(Stvec, "slow")
          /\ UNCHANGED <<sum, mxr, satp, root, resvVars, dirty>>
     ELSE /\ LoadCaches(v) /\ StoreCaches(v)
          /\ WriteWord(StoreTo(v))
          /\ RetireBreak
          /\ UNCHANGED <<modeVars, fetchVars, stale>>
  /\ UNCHANGED <<path, table, hsm, running>>

(***************************************************************************)
(* A page table entry changes: the guest's own store (its caches are left  *)
(* out) or another hart's.  Until a fence, translations of v are stale.    *)
(***************************************************************************)
ChangePte(v, e) ==
  /\ table[v] # e \/ v \in dirty
  /\ table' = [table EXCEPT ![v] = e] /\ dirty' = dirty \ {v}
  /\ stale' = IF root THEN stale \cup {v} ELSE stale
  /\ UNCHANGED <<path, modeVars, fetchVars, dataVars, resvVars, hsm>>

WritePte(v, e) ==
  /\ Executing /\ s_mode
  /\ ChangePte(v, e)
  /\ RetireNext
  /\ UNCHANGED <<running, kept>>

\* mmu_fence, whatever its operands, and vm_fence_i.
SfenceVma ==
  /\ Executing
  /\ Invalidate /\ RetireBreak
  /\ Quiet /\ UNCHANGED <<running, modeVars>>

FenceI ==
  /\ Executing /\ path = "fetch"
  /\ InvalidateIcache /\ RetireBreak
  /\ Quiet /\ UNCHANGED <<running, modeVars, tlb, dataVars, stale>>

\* As if csr_write did not ask for supervisor mode.
WriteSstatus_AnyMode(p, su, mx) ==
  /\ Executing /\ ((su \/ mx) => path = "data")
  /\ spp' = p /\ sum' = su /\ mxr' = mx
  /\ IF su # sum \/ mx # mxr THEN Invalidate ELSE KeepCaches
  /\ RetireBreak
  /\ Quiet /\ UNCHANGED <<s_mode, satp, root, running>>

(***************************************************************************)
(* csr_write of sstatus and of satp.  In user mode it is illegal.  A root  *)
(* page table outside RAM flushes and changes nothing else.  (SUM and MXR  *)
(* are for data accesses: the fetch side leaves them clear.)               *)
(***************************************************************************)
WriteSstatus(p, su, mx) ==
  /\ Executing /\ ((su \/ mx) => path = "data")
  /\ IF ~s_mode THEN Trap
     ELSE /\ spp' = p /\ sum' = su /\ mxr' = mx
          /\ IF su # sum \/ mx # mxr THEN Invalidate ELSE KeepCaches
          /\ RetireBreak
          /\ UNCHANGED <<s_mode, satp, root>>
  /\ Quiet /\ UNCHANGED running

\* mmu_set, and its refusal (bad) of a root outside of RAM.
WriteSatp(on, bad) ==
  /\ Executing
  /\ IF ~s_mode THEN Trap
     ELSE /\ Invalidate
          /\ IF on /\ bad THEN UNCHANGED <<satp, root>>
             ELSE satp' = on /\ root' = on
          /\ RetireBreak
          /\ UNCHANGED <<s_mode, spp, sum, mxr>>
  /\ Quiet /\ UNCHANGED running

\* op_sret: it does not ask for supervisor mode.
Sret(target) ==
  /\ Executing
  /\ IF s_mode # spp THEN Invalidate ELSE KeepCaches
  /\ s_mode' = spp /\ spp' = FALSE
  /\ Land(target, "slow")
  /\ Quiet /\ UNCHANGED <<running, sum, mxr, satp, root>>

\* An illegal instruction, EBREAK, or ECALL from user mode.
Exception ==
  /\ Executing
  /\ Trap
  /\ Quiet /\ UNCHANGED running

\* ECALL from supervisor mode: HART_STOP or HART_SUSPEND, RFENCE naming itself.
Hsm ==
  /\ Executing /\ s_mode
  /\ hsm' = "stopped" /\ running' = FALSE
  /\ RetireBreak /\ KeepCaches
  /\ UNCHANGED <<memVars, modeVars, resvVars>>

Rfence(start, size) ==
  /\ Executing /\ s_mode
  /\ InvalidateRange(start, size)
  /\ RetireBreak
  /\ Quiet /\ UNCHANGED <<running, modeVars>>

\* A read of the UART yields inside the load: seq_ptr is still live.
UartRead ==
  /\ Executing /\ path = "fetch"
  /\ RetireNext
  /\ running' = FALSE /\ kept' = (ptr # None)
  /\ Quiet /\ KeepCaches /\ UNCHANGED modeVars

Wfi ==
  /\ Executing
  /\ RetireBreak
  /\ running' = FALSE
  /\ Quiet /\ KeepCaches /\ UNCHANGED modeVars

\* vm_step_many has executed its steps and returns; the next call starts anew.
SliceEnd ==
  /\ running /\ (phase # "exec" \/ path = "data")
  /\ Land(pc, "slow")
  /\ running' = FALSE
  /\ Quiet /\ KeepCaches /\ UNCHANGED modeVars

-----------------------------------------------------------------------------
(* The other harts, while this one has yielded.                            *)

Resume ==
  /\ ~running /\ hsm = "started"
  /\ running' = TRUE
  /\ UNCHANGED <<memVars, hsm, modeVars, runVars, fetchVars, dataVars, resvVars, stale>>

RemoteWrite(p) ==
  /\ ~running /\ path = "data"
  /\ WriteWord(p)
  /\ KeepCaches /\ UNCHANGED <<memVars, hsm, running, modeVars, runVars>>

RemotePte(v, e) ==
  /\ ~running
  /\ ChangePte(v, e)
  /\ UNCHANGED <<running, runVars>>

RemoteFence(start, size) ==
  /\ ~running
  /\ InvalidateRange(start, size)
  /\ Quiet /\ UNCHANGED <<running, modeVars, runVars>>

RemoteFenceI ==
  /\ ~running /\ path = "fetch"
  /\ InvalidateIcache
  /\ Quiet /\ UNCHANGED <<running, modeVars, runVars, tlb, dataVars, stale>>

(***************************************************************************)
(* HART_START of this hart: satp reads 0, but the root table and the       *)
(* caches stay.  The code does not ask whether the hart is started; the    *)
(* guest of this model keeps the SBI rule and starts only one that is not. *)
(***************************************************************************)
RemoteStart(target) ==
  /\ ~running /\ hsm # "started"
  /\ hsm' = "started" /\ satp' = FALSE /\ s_mode' = TRUE
  /\ Land(target, "slow")
  /\ KeepCaches
  /\ UNCHANGED <<memVars, running, spp, sum, mxr, root, resvVars>>

-----------------------------------------------------------------------------
Fetch == FetchNext \/ FetchChain \/ FetchShortcut \/ FetchBlock \/ FetchFill

Next ==
  \/ Fetch
  \/ Interrupt \/ Alu \/ SfenceVma \/ FenceI \/ Exception
  \/ UartRead \/ Wfi \/ Hsm \/ SliceEnd \/ Resume \/ RemoteFenceI
  \/ \E t \in Pc : Jump(t) \/ Sret(t) \/ RemoteStart(t)
  \/ \E v \in Page : Amo(v) \/ RemoteWrite(v)
  \/ \E v \in Page, b \in BOOLEAN : Load(v, b) \/ Store(v, b)
  \/ \E v \in Page, e \in Pte \cup {None} : WritePte(v, e) \/ RemotePte(v, e)
  \/ \E p, su, mx \in BOOLEAN : WriteSstatus(p, su, mx)
  \/ \E on, bad \in BOOLEAN : WriteSatp(on, bad)
  \/ \E r \in Ranges : Rfence(r[1], r[2]) \/ RemoteFence(r[1], r[2])

Spec == Init /\ [][Next]_vars

-----------------------------------------------------------------------------
Block == [tag : Nat, base : Page, epoch : 1 .. EpochMod - 1]
Entry == Page \X Page

\* The type invariant.
TypeOK ==
  /\ path \in {"fetch", "data"}
  /\ table \in [Page -> Pte \cup {None}] /\ dirty \subseteq Page
  /\ hsm \in {"started", "stopped"}
  /\ {running, s_mode, spp, sum, mxr, satp, root, odd, kept} \subseteq BOOLEAN
  /\ phase \in {"slow", "next", "chain", "exec"}
  /\ pc \in Pc /\ {ptr, got} \subseteq Page \cup {None}
  /\ {tlb, load, store} \subseteq [Page -> Page \cup {None}]
  /\ icache \in [0 .. NIndex - 1 -> Block \cup {None}]
  /\ epoch \in 1 .. EpochMod - 1
  /\ seqb \in (0 .. NIndex - 1) \cup {None} /\ seqn \in Pc \cup {None}
  /\ {lastl, lasts} \subseteq Entry \cup {None}
  /\ resv \in Page \cup {None}
  /\ stale \subseteq Page /\ written \subseteq Page

(***************************************************************************)
(* Whatever a TLB, the instruction cache or a last entry holds for a page  *)
(* is what mmu_translate would answer now, with the mode, SUM, MXR and     *)
(* root of now, and a page in the store TLB is marked dirty; except for a  *)
(* page whose entry changed since the last fence that covers it (stale).   *)
(* So every change of mode, SUM, MXR or satp, every trap and SRET, and the *)
(* range of every remote fence invalidates enough.                         *)
(***************************************************************************)
CachesCoherent ==
  \A v \in Page \ stale :
    /\ tlb[v] # None => tlb[v] = FetchPage(v)
    /\ IcacheHit(v) => icache[Index(v)].base = FetchPage(v)
    /\ load[v] # None => load[v] = LoadPage(v)
    /\ store[v] # None => store[v] = StorePage(v) /\ (root => v \in dirty)
    /\ lastl # None /\ lastl[1] = v => lastl[2] = LoadPage(v)
    /\ lasts # None /\ lasts[1] = v => lasts[2] = StorePage(v) /\ (root => v \in dirty)

(***************************************************************************)
(* The instruction about to execute comes from the page its pc translates  *)
(* to, whether it was fetched along seq_ptr, by the shortcut, from the     *)
(* cache or by a walk.  Two cases are excepted (odd), and what seq_ptr     *)
(* makes of them: the shortcut armed with a physical address that is       *)
(* another page's virtual one, and a seq_ptr kept across the yield inside  *)
(* a UART read.                                                            *)
(***************************************************************************)
FetchTranslated ==
  phase = "exec" /\ path = "fetch" /\ ~odd /\ pc[1] \notin stale
    => got = FetchPage(pc[1])

(***************************************************************************)
(* A reservation is never left on a word that some hart wrote since the    *)
(* LR, whichever fast path the write took, so an SC that succeeds has had  *)
(* no write in between.                                                    *)
(***************************************************************************)
ScAtomic == resv # None => resv \notin written

(***************************************************************************)
(* A hart leaves user mode only through the trap vector.  op_sret does not *)
(* check the mode: it is harmless because SPP is never set in user mode;   *)
(* and HART_START sets supervisor mode only in a hart that stopped in it.  *)
(***************************************************************************)
LeavesUserByTrap ==
  [][~s_mode /\ s_mode' /\ path = "fetch" => pc' = Stvec]_vars

(***************************************************************************)
(* satp is 0 exactly when there is no root page table; only HART_START of  *)
(* a hart that had paging on, which clears satp alone, may part them.      *)
(***************************************************************************)
SatpNamesRoot ==
  [][(satp' = root') \/ (satp # root) \/ (hsm # "started" /\ hsm' = "started")]_vars
=============================================================================
