-------------------------------- MODULE Plic ---------------------------------
(***************************************************************************)
(* The platform-level interrupt controller (plic.c) between the device     *)
(* lines the emulator drives (emu_update_*_interrupts in main.c) and the   *)
(* SEI bit of each hart's sip, with the guest driver that enables, claims  *)
(* and completes sources.  All of it runs on the emulator thread, so one   *)
(* guest access or one line update is one step.                            *)
(*                                                                         *)
(* The 32-bit registers are sets of source numbers.                        *)
(***************************************************************************)
EXTENDS Naturals

CONSTANTS
  NHart,   \* vm->n_hart
  NCtx,    \* ARRAY_SIZE(plic->ie)
  Src      \* the interrupt sources wired up, IRQ_*_BIT

ASSUME PlicAssumption ==
  /\ NHart \in Nat \ {0}
  /\ NCtx \in Nat
  /\ NHart <= NCtx /\ NCtx <= 32
  /\ Src \subseteq 1 .. 31

Hart == 0 .. NHart - 1
Ctx == 0 .. NCtx - 1

VARIABLES
  active,      \* plic->active, the level of every line
  ip, masked,  \* plic->ip, plic->masked
  ie,          \* plic->ie[]
  sei,         \* sei[h]: RV_INT_SEI_BIT of hart h's sip
  in_wfi,      \* hart->in_wfi
  claimed      \* claimed[h]: sources hart h claimed and has not completed

plicVars == <<active, ip, masked, ie, sei, in_wfi, claimed>>

-----------------------------------------------------------------------------
(***************************************************************************)
(* Register addresses.  plic_reg_read and plic_reg_write take a word       *)
(* address apart with addr_mask = MASK(ilog2(addr)) ^ (1 & addr): RegBase  *)
(* is addr & ~addr_mask, the register block, and Context is the context    *)
(* they compute from addr & addr_mask.                                     *)
(***************************************************************************)
Ilog2(x) == CHOOSE k \in 0 .. 24 : 2^k <= x /\ x < 2^(k + 1)

Ffs(x) ==
  IF x = 0 THEN 0
  ELSE 1 + (CHOOSE k \in 0 .. 24 : x % 2^k = 0 /\ x % 2^(k + 1) # 0)

RegBase(addr) == 2^Ilog2(addr) + (addr % 2)

Context(addr) ==
  LET low == addr - RegBase(addr)
      f == Ffs(low)
  IN  low \div 2^(f - (f % 2))

(***************************************************************************)
(* The registers of context h as the guest addresses them, in words: the   *)
(* enable bits at 0x2000 + 0x80 h, claim/complete at 0x200004 + 0x1000 h   *)
(* of a "sifive,plic-1.0.0" node.  Hart h uses context h.                  *)
(***************************************************************************)
EnableReg(h) == 2048 + 32 * h
ClaimReg(h) == 524289 + 1024 * h

\* The two switch cases the accesses below take.
ASSUME RegisterBlocks ==
  \A h \in Hart : RegBase(EnableReg(h)) = 2048 /\ RegBase(ClaimReg(h)) = 524289

EnableCtx == [h \in Hart |-> Context(EnableReg(h))]
ClaimCtx == [h \in Hart |-> Context(ClaimReg(h))]

PlicInit ==
  /\ active = {} /\ ip = {} /\ masked = {}
  /\ ie = [c \in Ctx |-> {}]
  /\ sei = [h \in Hart |-> FALSE]
  /\ in_wfi = [h \in Hart |-> FALSE]
  /\ claimed = [h \in Hart |-> {}]

-----------------------------------------------------------------------------
\* Mutant: a line that is served already becomes pending again.
plic_update_interrupts_Unmasked(act, pend, msk, en) ==
  /\ ip' = pend \cup act
  /\ masked' = msk \cup act
  /\ sei' = [h \in Hart |-> ip' \cap en[h] # {}]
  /\ in_wfi' = [h \in Hart |-> in_wfi[h] /\ ip' \cap en[h] = {}]

(***************************************************************************)
(* plic_update_interrupts with the register values its caller left.        *)
(***************************************************************************)
plic_update_interrupts(act, pend, msk, en) ==
  /\ ip' = pend \cup (act \ msk)
  /\ masked' = msk \cup act
  /\ sei' = [h \in Hart |-> ip' \cap en[h] # {}]
  /\ in_wfi' = [h \in Hart |-> in_wfi[h] /\ ip' \cap en[h] = {}]

(***************************************************************************)
(* emu_update_uart_interrupts and its virtio siblings: copy the device's   *)
(* level into its line, then propagate.                                    *)
(***************************************************************************)
UpdateLine(s, level) ==
  LET act == IF level THEN active \cup {s} ELSE active \ {s}
  IN  /\ active' = act
      /\ plic_update_interrupts(act, ip, masked, ie)
      /\ UNCHANGED <<ie, claimed>>

(***************************************************************************)
(* Guest stores; mem_store propagates after every one of them.             *)
(***************************************************************************)
EnableWrite(h, mask) ==
  LET c == EnableCtx[h]
      en == IF c \in Ctx THEN [ie EXCEPT ![c] = mask \ {0}] ELSE ie
  IN  /\ ie' = en
      /\ plic_update_interrupts(active, ip, masked, en)
      /\ UNCHANGED <<active, claimed>>

(***************************************************************************)
(* A completion the guest owes.  It reopens the source only while the      *)
(* source is enabled in that context; otherwise it is ignored and the      *)
(* guest still owes it.                                                    *)
(***************************************************************************)
Complete(h, s) ==
  /\ s \in claimed[h]
  /\ LET c == ClaimCtx[h]
         open == c \in Ctx /\ s \in ie[c]
         msk == IF open THEN masked \ {s} ELSE masked
     IN  /\ plic_update_interrupts(active, ip, msk, ie)
         /\ claimed' =
              IF open THEN [claimed EXCEPT ![h] = @ \ {s}] ELSE claimed
  /\ UNCHANGED <<active, ie>>

(***************************************************************************)
(* A store to a priority or threshold register, or one that faults.        *)
(***************************************************************************)
OtherWrite ==
  /\ plic_update_interrupts(active, ip, masked, ie)
  /\ UNCHANGED <<active, ie, claimed>>

\* Mutant: the lowest candidate is handed out.
Claim_Lowest(h, s) ==
  LET c == ClaimCtx[h]
  IN  /\ c \in Ctx
      /\ s \in ip \cap ie[c]
      /\ \A t \in ip \cap ie[c] : s <= t
      /\ ip' = ip \ {s}
      /\ claimed' = [claimed EXCEPT ![h] = @ \cup {s}]
      /\ UNCHANGED <<active, masked, ie, sei, in_wfi>>

\* Mutant: the claim lowers SEI of the hart, whatever is pending still.
Claim_ClearSei(h, s) ==
  LET c == ClaimCtx[h]
  IN  /\ c \in Ctx
      /\ s \in ip \cap ie[c]
      /\ \A t \in ip \cap ie[c] : t <= s
      /\ ip' = ip \ {s}
      /\ sei' = [sei EXCEPT ![h] = FALSE]
      /\ claimed' = [claimed EXCEPT ![h] = @ \cup {s}]
      /\ UNCHANGED <<active, masked, ie, in_wfi>>

(***************************************************************************)
(* A guest load of claim: the highest candidate leaves ip.  mem_load does  *)
(* not propagate, SEI keeps its value.  Without a candidate nothing        *)
(* changes.                                                                *)
(***************************************************************************)
Claim(h, s) ==
  LET c == ClaimCtx[h]
  IN  /\ c \in Ctx
      /\ s \in ip \cap ie[c]
      /\ \A t \in ip \cap ie[c] : t <= s
      /\ ip' = ip \ {s}
      /\ claimed' = [claimed EXCEPT ![h] = @ \cup {s}]
      /\ UNCHANGED <<active, masked, ie, sei, in_wfi>>

(***************************************************************************)
(* wfi_handler on a hart whose sie enables external interrupts only.       *)
(***************************************************************************)
Wfi(h) ==
  /\ in_wfi' = [in_wfi EXCEPT ![h] = NHart > 1 /\ ~sei[h]]
  /\ UNCHANGED <<active, ip, masked, ie, sei, claimed>>

-----------------------------------------------------------------------------
PlicNext ==
  \/ \E s \in Src, level \in BOOLEAN : UpdateLine(s, level)
  \/ \E h \in Hart, mask \in SUBSET (Src \cup {0}) : EnableWrite(h, mask)
  \/ \E h \in Hart, s \in Src : Claim(h, s)
  \/ \E h \in Hart, s \in Src : Complete(h, s)
  \/ OtherWrite
  \/ \E h \in Hart : Wfi(h)

PlicSpec == PlicInit /\ [][PlicNext]_plicVars

(***************************************************************************)
(* The guest takes its external interrupts: a hart with something to claim *)
(* eventually reads its claim register.  Completions are owed by nobody.   *)
(***************************************************************************)
PlicFairness == \A h \in Hart : WF_plicVars(\E s \in Src : Claim(h, s))

PlicFairSpec == PlicSpec /\ PlicFairness
-----------------------------------------------------------------------------
PlicTypeOK ==
  /\ active \subseteq Src
  /\ ip \subseteq Src
  /\ masked \subseteq Src
  /\ ie \in [Ctx -> SUBSET Src]
  /\ sei \in [Hart -> BOOLEAN]
  /\ in_wfi \in [Hart -> BOOLEAN]
  /\ claimed \in [Hart -> SUBSET Src]

(***************************************************************************)
(* A closed gateway (a bit of masked) is accounted for exactly once: the   *)
(* source is pending, or one hart, and only one, is serving it.  Two harts *)
(* never serve the same source, a source being served is not pending       *)
(* again, and no source is masked for ever with nobody to complete it.     *)
(***************************************************************************)
ServedOnce ==
  /\ \A s \in Src : s \in masked <=> s \in ip \/ \E h \in Hart : s \in claimed[h]
  /\ \A h \in Hart : claimed[h] \cap ip = {}
  /\ \A h, k \in Hart : h # k => claimed[h] \cap claimed[k] = {}

(***************************************************************************)
(* A raised level-triggered line is never forgotten: it is pending or in   *)
(* service at every moment, in particular right after a completion that    *)
(* left the device still asking.                                           *)
(***************************************************************************)
LineCovered == active \subseteq ip \cup UNION {claimed[h] : h \in Hart}

(***************************************************************************)
(* No hart misses an interrupt the PLIC holds for it: SEI is up whenever a *)
(* source enabled in its context is pending, although a claim updates ip   *)
(* without recomputing SEI, and such a hart is not left marked as waiting  *)
(* in WFI, which would let the scheduler block in poll().                  *)
(***************************************************************************)
NoMissedInterrupt ==
  \A h \in Hart : ip \cap ie[h] # {} => sei[h] /\ ~in_wfi[h]

(***************************************************************************)
(* A pending source is eventually handed out, provided it stays enabled in *)
(* a context whose hart claims there and the sources above it fall silent: *)
(* plic_reg_read hands out the highest number first, so a higher source    *)
(* that keeps firing can starve a lower one.                               *)
(***************************************************************************)
PendingHandedOut ==
  \A h \in Hart, s \in Src :
    (ClaimCtx[h] = h /\ <>[](s \in ie[h] /\ \A t \in active : t <= s))
      => (s \in ip ~> s \notin ip)

(***************************************************************************)
(* main.c says of the enable registers "plic_state_t.ie[] is sized for 32  *)
(* contexts (one per hart)": what a guest writes to the enable register of *)
(* context h becomes ie[h], and the other contexts keep theirs.            *)
(***************************************************************************)
EnableOwnContext ==
  [][\A h \in Hart, mask \in SUBSET Src :
       EnableWrite(h, mask) => ie' = [ie EXCEPT ![h] = mask]]_plicVars
=============================================================================
