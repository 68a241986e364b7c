---------------------------- MODULE D3D12Overlay ----------------------------
(***************************************************************************)
(* pal/windows/overlay_windows: the overlay over Direct3D 12.  It captures *)
(* the game's queue from its submissions and binds itself, once, to the    *)
(* swapchain first presented after that.  Its frames draw into the back    *)
(* buffers it holds, which have to be released when the game resizes them; *)
(* one that cannot be had leaves the overlay inert.  The window procedure, *)
(* on the message thread, queues input for the frames.                     *)
(*                                                                         *)
(* The game, its swapchains and the GPU are external.                      *)
(***************************************************************************)
EXTENDS Naturals

CONSTANTS
    BufferCounts,   \* the sizes a swapchain may have
    MaxSwapchains,  \* bound on the swapchains the game creates
    MaxMessages,    \* bound on the messages queued
    ResizeFails     \* ResizeBuffers may fail for the game

D3D12OverlayAssumption == BufferCounts \subseteq Nat

VARIABLES
    captured,   \* g_command_queue is set
    gameSwap,   \* the game's swapchain, by number; 0 before there is one
    count,      \* and the number of its back buffers
    inited,     \* g_inited_swap, 0 until g_imgui_inited
    frames,     \* g_frame_count
    failed,     \* g_init_failed
    targets,    \* the frames with a render_target
    gpu,        \* the frame whose overlay the GPU executes, or 0
    step,       \* render_overlay: "idle" or "record"
    image,      \* the back buffer it draws into
    open,       \* g_console_open and g_login_open
    want,       \* g_want_keyboard, or _mouse
    msgs        \* length of g_msg_queue

swapVars == <<gameSwap, count>>
resVars  == <<inited, frames, failed, targets>>
d3dVars  == <<captured, swapVars, resVars, gpu, step, image, open, want, msgs>>

Window == {"console", "login"}

Init ==
    /\ captured = FALSE /\ gameSwap = 0 /\ count = 0
    /\ inited = 0 /\ frames = 0 /\ failed = FALSE /\ targets = {}
    /\ gpu = 0 /\ step = "idle" /\ image = 0
    /\ open = {"login"} /\ want = FALSE /\ msgs = 0

-----------------------------------------------------------------------------
\* repl_execute: the first DIRECT queue is taken.
Execute ==
    /\ ~captured /\ captured' = TRUE
    /\ UNCHANGED <<swapVars, resVars, gpu, step, image, open, want, msgs>>

\* The game creates its swapchain, or one in place of the last.
CreateSwapchain ==
    /\ step = "idle" /\ gameSwap < MaxSwapchains
    /\ gameSwap' = gameSwap + 1 /\ count' \in BufferCounts
    /\ UNCHANGED <<captured, resVars, gpu, step, image, open, want, msgs>>

\* init_render: everything is made, or given back and never tried again.
InitRender ==
    \/ /\ inited' = gameSwap /\ frames' = count /\ targets' = 1..count
       /\ UNCHANGED failed
    \/ /\ failed' = TRUE /\ UNCHANGED <<inited, frames, targets>>

\* Seeded fault: a swapchain that is not ours is let through first.
DrainsOwn == inited' = gameSwap

\* Input is drained before a swapchain that is not ours is let through.
Drains == TRUE

\* repl_present and repl_present1, render_overlay up to the frame: inert, without a
\* queue, with another's swapchain or a buffer beyond ours it presents untouched.
Present ==
    /\ step = "idle" /\ gameSwap > 0 /\ captured /\ ~failed
    /\ IF inited = 0 THEN InitRender ELSE UNCHANGED resVars
    /\ msgs' = IF ~failed' /\ Drains THEN 0 ELSE msgs
    /\ \E i \in 1..count :
          IF ~failed' /\ inited' = gameSwap /\ i <= frames'
          THEN step' = "record" /\ image' = i
          ELSE UNCHANGED <<step, image>>
    /\ UNCHANGED <<captured, swapVars, gpu, open, want>>

\* wait_for_gpu: the last submission has been executed.
WaitForGpu == gpu = 0

\* The frame is drawn, what ImGui wants of the input is published, the list is
\* recorded again and submitted.
Record ==
    /\ step = "record" /\ step' = "idle"
    /\ WaitForGpu /\ gpu' = image
    /\ want' \in BOOLEAN
    /\ UNCHANGED <<captured, swapVars, resVars, image, open, msgs>>

GpuCompletes ==
    /\ gpu # 0 /\ gpu' = 0
    /\ UNCHANGED <<captured, swapVars, resVars, step, image, open, want, msgs>>

-----------------------------------------------------------------------------
(***************************************************************************)
(* repl_resize.                                                            *)
(***************************************************************************)
\* Seeded fault: buffers are released under the GPU.
ReleaseAtOnce == TRUE

\* Buffers held, ours or those of a swapchain since replaced, are released after
\* the GPU is done with them.
Release == inited # 0 => WaitForGpu

\* Seeded fault: a buffer that cannot be had again leaves the overlay drawing.
KeepPartial(n) == targets' = 1..n /\ UNCHANGED failed

\* The buffers are had again, all or the first n of them; GetBuffer failing, or
\* another number of buffers, makes the overlay inert.
Reacquire(n) == targets' = 1..n /\ failed' = (failed \/ n < frames)

Resize ==
    /\ step = "idle" /\ gameSwap > 0
    /\ Release
    /\ \/ /\ count' \in BufferCounts
          /\ IF inited = 0 THEN UNCHANGED <<targets, failed>>
             ELSE IF count' # frames THEN targets' = {} /\ failed' = TRUE
             ELSE \E n \in 0..frames : Reacquire(n)
       \/ /\ ResizeFails
          /\ targets' = {} /\ UNCHANGED <<count, failed>>
    /\ UNCHANGED <<captured, gameSwap, inited, frames, gpu, step, image, open, want, msgs>>

-----------------------------------------------------------------------------
(***************************************************************************)
(* overlay_wndproc, in place once the overlay is initialised.              *)
(***************************************************************************)
Toggle(w) ==
    /\ inited # 0
    /\ open' = IF w \in open THEN open \ {w} ELSE open \cup {w}
    /\ UNCHANGED <<captured, swapVars, resVars, gpu, step, image, want, msgs>>

Message ==
    /\ inited # 0 /\ msgs < MaxMessages
    /\ msgs' = msgs + 1
    /\ UNCHANGED <<captured, swapVars, resVars, gpu, step, image, open, want>>

-----------------------------------------------------------------------------
Render == Present \/ Record

Next == \/ Execute \/ CreateSwapchain \/ Render \/ GpuCompletes \/ Resize
        \/ (\E w \in Window : Toggle(w)) \/ Message

Spec == Init /\ [][Next]_d3dVars
\* The game presents, and the GPU finishes what it is given.
FairSpec == Spec /\ WF_d3dVars(Render \/ GpuCompletes)

-----------------------------------------------------------------------------
(***************************************************************************)
(* Properties.                                                             *)
(***************************************************************************)
\* No frame is recorded into a back buffer that was released for a resize and not
\* had again, and what the GPU still draws into is not released.  Queued messages
\* are drained as long as the overlay is not inert, also while the swapchain
\* presented is not the one it was made for.
TargetsLive ==
    /\ []((step = "record" => image \in targets) /\ (gpu # 0 => gpu \in targets))
    /\ msgs > 0 ~> msgs = 0 \/ failed
=============================================================================
