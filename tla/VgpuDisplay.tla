---------------------------- MODULE VgpuDisplay -----------------------------
(***************************************************************************)
(* The display bridge (vgpu-display.c) between the GPU backend on the      *)
(* emulator thread and window_drain_display_queue on the window thread.    *)
(* Frames and cursor moves travel through a lossy single-producer          *)
(* single-consumer ring and carry the generation of their plane; removing  *)
(* a plane only advances the generation, which the consumer mirrors.       *)
(*                                                                         *)
(* Each action is one shared-memory access of one thread.  The ring is the *)
(* sequence of its entries: its index arithmetic is the one VinputQueue    *)
(* models slot by slot.  Planes are numbered in the order in which         *)
(* vgpu_display_pop_cmd looks at them, primary planes first.               *)
(***************************************************************************)
EXTENDS Naturals, Sequences

CONSTANTS
  NScanout,   \* vgpu_display_scanout_count
  QSize,      \* VGPU_DISPLAY_CMD_QUEUE_SIZE
  Payload,    \* frame snapshots malloc can hand out
  NoPayload,  \* a cursor move has none
  NoFrame,    \* nothing is shown on a plane
  MaxGen      \* bound: clears of one plane in a behaviour

ASSUME ConstAssumption ==
  /\ NScanout \in Nat \ {0}
  /\ QSize \in Nat \ {0, 1}
  /\ MaxGen \in Nat
  /\ NoPayload \notin Payload
  /\ NoFrame \notin 0 .. MaxGen

Primary == 0 .. NScanout - 1
Cursor == NScanout .. 2 * NScanout - 1
Plane == Primary \cup Cursor
Gen == 0 .. MaxGen
Cmd == [plane : Plane, gen : Gen, payload : Payload \cup {NoPayload}]

VARIABLES
  generation, consumed_generation,  \* vgpu_display_{primary,cursor}_clear[]
  queue,             \* vgpu_display_cmd_queue between tail and head
  ppc, pcmd,         \* emulator thread, and the frame it is publishing
  cpc, cplane, ccmd, \* window thread inside vgpu_display_pop_cmd
  shown,             \* shown[p]: generation of the frame on screen
  live               \* payloads allocated and not freed

prodVars == <<ppc, pcmd>>
consVars == <<cpc, cplane, ccmd>>
vars == <<generation, consumed_generation, queue, ppc, pcmd,
          cpc, cplane, ccmd, shown, live>>

NoCmd == [plane |-> 0, gen |-> 0, payload |-> NoPayload]

\* One slot stays free, to tell a full ring from an empty one.
Full == Len(queue) = QSize - 1

(***************************************************************************)
(* The bridge is available.  vgpu_display_set_unavailable runs, if at all, *)
(* before the emulator thread starts, and then every operation returns at  *)
(* once.                                                                   *)
(***************************************************************************)
Init ==
  /\ generation = [p \in Plane |-> 0]
  /\ consumed_generation = [p \in Plane |-> 0]
  /\ queue = <<>>
  /\ ppc = "idle" /\ pcmd = NoCmd
  /\ cpc = "idle" /\ cplane = 0 /\ ccmd = NoCmd
  /\ shown = [p \in Plane |-> NoFrame]
  /\ live = {}

-----------------------------------------------------------------------------
(* The emulator thread.                                                    *)

(***************************************************************************)
(* vgpu_display_publish_primary_clear and _cursor_clear: SET_SCANOUT 0,    *)
(* RESOURCE_UNREF, UPDATE_CURSOR 0 and a device reset.                     *)
(***************************************************************************)
PublishClear(p) ==
  /\ ppc = "idle"
  /\ generation[p] < MaxGen
  /\ generation' = [generation EXCEPT ![p] = @ + 1]
  /\ UNCHANGED <<consumed_generation, queue, prodVars, consVars,
                 shown, live>>

\* Mutant: the frame is prepared although the queue may be full.
BeginFrame_NoCheck(p) ==
  /\ ppc = "idle"
  /\ \E x \in Payload \ live :
       /\ pcmd' = [plane |-> p, gen |-> generation[p], payload |-> x]
       /\ live' = live \cup {x}
  /\ ppc' = "push"
  /\ UNCHANGED <<generation, consumed_generation, queue, consVars,
                 shown>>

(***************************************************************************)
(* RESOURCE_FLUSH and UPDATE_CURSOR: vgpu_display_can_publish, then the    *)
(* snapshot (an allocation that fails leaves everything as it is), then    *)
(* the generation the frame belongs to.                                    *)
(***************************************************************************)
BeginFrame(p) ==
  /\ ppc = "idle"
  /\ ~Full
  /\ \E x \in Payload \ live :
       /\ pcmd' = [plane |-> p, gen |-> generation[p], payload |-> x]
       /\ live' = live \cup {x}
  /\ ppc' = "push"
  /\ UNCHANGED <<generation, consumed_generation, queue, consVars,
                 shown>>

(***************************************************************************)
(* vgpu_display_push_cmd: a command that does not fit is released.         *)
(***************************************************************************)
vgpu_display_push_cmd(cmd) ==
  /\ queue' = IF Full THEN queue ELSE Append(queue, cmd)
  /\ live' = IF Full THEN live \ {cmd.payload} ELSE live

PublishSet ==
  /\ ppc = "push"
  /\ vgpu_display_push_cmd(pcmd)
  /\ ppc' = "idle" /\ pcmd' = NoCmd
  /\ UNCHANGED <<generation, consumed_generation, consVars, shown>>

PublishMove(p) ==
  /\ ppc = "idle"
  /\ vgpu_display_push_cmd(
       [plane |-> p, gen |-> generation[p], payload |-> NoPayload])
  /\ UNCHANGED <<generation, consumed_generation, prodVars,
                 consVars, shown>>

-----------------------------------------------------------------------------
(* The window thread: window_drain_display_queue.                          *)

DrainBegin ==
  /\ cpc = "idle"
  /\ cpc' = "clear" /\ cplane' = 0
  /\ UNCHANGED <<generation, consumed_generation, queue, prodVars,
                 ccmd, shown, live>>

\* Mutant: the clear is acknowledged and the texture stays.
ScanClear_KeepTexture ==
  /\ cpc = "clear"
  /\ \/ /\ consumed_generation[cplane] # generation[cplane]
        /\ consumed_generation' =
             [consumed_generation EXCEPT ![cplane] = generation[cplane]]
        /\ cplane' = 0
        /\ UNCHANGED <<cpc, shown>>
     \/ /\ consumed_generation[cplane] = generation[cplane]
        /\ IF cplane + 1 \in Plane
           THEN cplane' = cplane + 1 /\ cpc' = "clear"
           ELSE cplane' = 0 /\ cpc' = "pop"
        /\ UNCHANGED <<consumed_generation, shown>>
  /\ UNCHANGED <<generation, queue, prodVars, ccmd, live>>

(***************************************************************************)
(* vgpu_display_pop_pending_clear_cmd, one plane per step.  A clear that   *)
(* is found removes the plane's texture, and pop_cmd is called again.      *)
(***************************************************************************)
ScanClear ==
  /\ cpc = "clear"
  /\ \/ /\ consumed_generation[cplane] # generation[cplane]
        /\ consumed_generation' =
             [consumed_generation EXCEPT ![cplane] = generation[cplane]]
        /\ shown' = [shown EXCEPT ![cplane] = NoFrame]
        /\ cplane' = 0
        /\ UNCHANGED cpc
     \/ /\ consumed_generation[cplane] = generation[cplane]
        /\ IF cplane + 1 \in Plane
           THEN cplane' = cplane + 1 /\ cpc' = "clear"
           ELSE cplane' = 0 /\ cpc' = "pop"
        /\ UNCHANGED <<consumed_generation, shown>>
  /\ UNCHANGED <<generation, queue, prodVars, ccmd, live>>

PopQueued ==
  /\ cpc = "pop"
  /\ \/ /\ queue = <<>>
        /\ cpc' = "idle"
        /\ UNCHANGED <<queue, ccmd>>
     \/ /\ queue # <<>>
        /\ ccmd' = Head(queue) /\ queue' = Tail(queue)
        /\ cpc' = "check"
  /\ UNCHANGED <<generation, consumed_generation, prodVars,
                 cplane, shown, live>>

\* Mutant: stale commands are delivered.
IsStale_Never == FALSE

(***************************************************************************)
(* vgpu_display_is_cmd_stale.                                              *)
(***************************************************************************)
IsStale == ccmd.gen # generation[ccmd.plane]

\* Mutant: a stale command is skipped without being released.
CheckStale_NoRelease ==
  /\ cpc = "check"
  /\ cpc' = IF IsStale THEN "clear" ELSE "apply"
  /\ ccmd' = IF IsStale THEN NoCmd ELSE ccmd
  /\ UNCHANGED <<generation, consumed_generation, queue, prodVars,
                 cplane, shown, live>>

CheckStale ==
  /\ cpc = "check"
  /\ \/ /\ IsStale
        /\ live' = live \ {ccmd.payload}
        /\ ccmd' = NoCmd
        /\ cpc' = "clear"
     \/ /\ ~IsStale
        /\ cpc' = "apply"
        /\ UNCHANGED <<live, ccmd>>
  /\ UNCHANGED <<generation, consumed_generation, queue, prodVars,
                 cplane, shown>>

(***************************************************************************)
(* The switch of window_drain_display_queue for a frame or a move, and the *)
(* release after it.  An upload that fails, or a scanout without a window, *)
(* leaves the old texture.                                                 *)
(***************************************************************************)
Apply ==
  /\ cpc = "apply"
  /\ \/ /\ ccmd.payload # NoPayload
        /\ shown' = [shown EXCEPT ![ccmd.plane] = ccmd.gen]
     \/ UNCHANGED shown
  /\ live' = live \ {ccmd.payload}
  /\ ccmd' = NoCmd
  /\ cpc' = "clear"
  /\ UNCHANGED <<generation, consumed_generation, queue, prodVars,
                 cplane>>

-----------------------------------------------------------------------------
WindowStep == DrainBegin \/ ScanClear \/ PopQueued \/ CheckStale \/ Apply

Next ==
  \/ \E p \in Plane : PublishClear(p) \/ BeginFrame(p)
  \/ PublishSet
  \/ \E p \in Cursor : PublishMove(p)
  \/ WindowStep

Spec == Init /\ [][Next]_vars

(***************************************************************************)
(* The main loop of the window thread drains on every iteration, and an    *)
(* iteration waits at most SDL_EVENT_WAIT_TIMEOUT_MS for an event.         *)
(***************************************************************************)
FairSpec == Spec /\ WF_vars(WindowStep)
-----------------------------------------------------------------------------
TypeOK ==
  /\ generation \in [Plane -> Gen]
  /\ consumed_generation \in [Plane -> Gen]
  /\ queue \in Seq(Cmd) /\ Len(queue) < QSize
  /\ ppc \in {"idle", "push"} /\ pcmd \in Cmd
  /\ cpc \in {"idle", "clear", "pop", "check", "apply"}
  /\ cplane \in Plane /\ ccmd \in Cmd
  /\ shown \in [Plane -> Gen \cup {NoFrame}]
  /\ live \subseteq Payload

(***************************************************************************)
(* A frame from before a removal never comes back: once the window thread  *)
(* has carried out a clear of a plane, the plane shows nothing or a frame  *)
(* published after that clear, although older frames may still sit in the  *)
(* ring or in the window thread's hands.                                   *)
(***************************************************************************)
NoOldFrame ==
  \A p \in Plane : shown[p] # NoFrame => shown[p] >= consumed_generation[p]

(***************************************************************************)
(* Every payload has exactly one owner, the ring, the publisher or the     *)
(* consumer: none is leaked, none is freed while somebody still holds it,  *)
(* and none is reachable twice (a double free).                            *)
(***************************************************************************)
Owners(x) ==
  {<<"ring", i>> : i \in {j \in 1 .. Len(queue) : queue[j].payload = x}}
    \cup (IF pcmd.payload = x THEN {<<"publisher", 0>>} ELSE {})
    \cup (IF ccmd.payload = x THEN {<<"window", 0>>} ELSE {})

PayloadOwnedOnce ==
  \A x \in Payload :
    IF x \in live THEN \E o \in Owners(x) : Owners(x) = {o} ELSE Owners(x) = {}

(***************************************************************************)
(* A successful vgpu_display_can_publish is still true when the frame is   *)
(* pushed, after the snapshot was taken: the UPDATE_CURSOR handler records *)
(* the new cursor before it publishes, and a drop would leave              *)
(* cursor_resource_id naming a cursor that is not on screen.               *)
(***************************************************************************)
PublishNeverDrops == ppc = "push" => ~Full

(***************************************************************************)
(* "Clear commands are reliable": once the guest is done removing a plane, *)
(* the screen shows nothing on it, or frames published after the last      *)
(* removal, and stays that way; no full ring, stale frame or earlier clear *)
(* gets in the way.                                                        *)
(***************************************************************************)
ClearReachesScreen ==
  \A p \in Plane, g \in Gen :
    <>[](generation[p] = g) => <>[](shown[p] \in {NoFrame, g})
=============================================================================
