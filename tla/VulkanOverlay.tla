--------------------------- MODULE VulkanOverlay ---------------------------
(***************************************************************************)
(* pal/linux/overlay_linux: the overlay drawn over the game's frame.  The  *)
(* hooks go live one by one, from a thread of their own, while the game    *)
(* already renders; its render thread builds the overlay's resources for   *)
(* the swapchain it finds or is told of and composes a frame into every    *)
(* image it presents; its event thread hands input over through a queue    *)
(* and asks a flag of the last frame whether the game may have it too.     *)
(*                                                                         *)
(* The game, its swapchains and the GPU are external.  A hook that is      *)
(* installed, a build, a start of ImGui and a submission may fail.         *)
(***************************************************************************)
EXTENDS Naturals

CONSTANTS
    Image,          \* the images of a swapchain
    MaxSwapchains,  \* bound on the swapchains the game creates
    MaxFailures,    \* bound on the calls that fail
    MaxQueued,      \* bound on the events queued
    SignalFails     \* the submission that is to signal a fence may fail as well

VARIABLES
    tried,      \* the hooks tried so far: a subset of {"create", "present", "event"}
    hooks,      \* those installed
    gameSwap,   \* the game's swapchain, by number; 0 before there is one
    swap,       \* g_state.swapchain
    ready,      \* resources_ready
    imgui,      \* ImGui is "off", "on", or on with resources that are gone: "stale"
    step,       \* of repl_vkQueuePresentKHR: "idle", "frame", "record" or "submit"
    image,      \* the image it presents
    drawing,    \* the windows it found open
    fence,      \* of each image: "signaled", "reset" or "pending"
    open,       \* g_console_open and g_login_open
    want,       \* g_imgui_want_keyboard, or _mouse
    queued,     \* length of g_input_queue
    shown,      \* the windows in the last frame presented
    failures

hookVars   == <<tried, hooks>>
renderVars == <<swap, ready, imgui, step, image, drawing, fence, shown>>
inputVars  == <<open, want, queued>>
voVars == <<hookVars, gameSwap, renderVars, inputVars, failures>>

Window == {"console", "login"}

Init ==
    /\ tried = {} /\ hooks = {} /\ gameSwap = 0
    /\ swap = 0 /\ ready = FALSE /\ imgui = "off"
    /\ step = "idle" /\ image = (CHOOSE i \in Image : TRUE) /\ drawing = {}
    /\ fence = [i \in Image |-> "signaled"]
    /\ open = {"login"} /\ want = FALSE /\ queued = 0 /\ shown = {}
    /\ failures = 0

\* A call succeeds, or is one of the few that fail.
Tries(ok) ==
    /\ ok \/ failures < MaxFailures
    /\ failures' = IF ok THEN failures ELSE failures + 1

-----------------------------------------------------------------------------
(***************************************************************************)
(* try_install_vulkan_hooks, from the constructor or the watch thread.     *)
(***************************************************************************)
\* A hook that fails is logged, and the next one is tried all the same.
Install(h, after) ==
    /\ h \notin tried /\ after \subseteq tried
    /\ tried' = tried \cup {h}
    /\ \E ok \in BOOLEAN : Tries(ok) /\ hooks' = IF ok THEN hooks \cup {h} ELSE hooks
    /\ UNCHANGED <<gameSwap, renderVars, inputVars>>

InstallHooks ==
    \/ Install("create", {})
    \/ Install("present", {"create"})
    \/ Install("event", {"create", "present"})

-----------------------------------------------------------------------------
(***************************************************************************)
(* The render thread.                                                      *)
(***************************************************************************)
\* Seeded fault: ImGui keeps the device it was made with.
StaleImGui == IF imgui = "off" THEN "off" ELSE "stale"

\* shutdown_imgui.
ShutDownImGui == "off"

\* init_imgui: a present that finds ImGui off starts it, or does without.
InitImGui(off, ok) ==
    /\ ~off => ok
    /\ Tries(ok)
    /\ imgui' = IF off THEN (IF ok THEN "on" ELSE "off") ELSE imgui

\* What was built is destroyed, once the device is idle; the new fences are made
\* signaled, so that the first wait returns.
NewFences == fence' = [i \in Image |-> "signaled"]

\* build_swapchain_resources, whichever of its calls fails.
Builds(ok) == Tries(ok) /\ ready' = ok /\ NewFences

Rebuild(s, ok) == swap' = s /\ imgui' = ShutDownImGui /\ Builds(ok)

\* repl_vkCreateSwapchainKHR, if it is installed in time.
CreateSwapchain ==
    /\ step = "idle" /\ gameSwap < MaxSwapchains
    /\ gameSwap' = gameSwap + 1
    /\ IF "create" \in hooks THEN \E ok \in BOOLEAN : Rebuild(gameSwap + 1, ok)
       ELSE UNCHANGED <<swap, ready, imgui, fence, failures>>
    /\ UNCHANGED <<hookVars, step, image, drawing, shown, inputVars>>

\* The present goes through untouched.
Forward == shown' = {} /\ UNCHANGED <<step, image, drawing>>

\* Seeded fault: a swapchain that failed is not tried again.
AdoptsOnce == ~ready /\ swap # gameSwap

\* try_adopt_game_swapchain: the create hook may have come too late, and what
\* failed is tried again with every frame.
Adopts == ~ready

Incomplete ==
    /\ ~ready
    /\ IF Adopts THEN Rebuild(gameSwap, FALSE) ELSE UNCHANGED <<swap, ready, imgui, fence, failures>>
    /\ Forward /\ UNCHANGED inputVars

\* With the resources there, or adopted now: what is left of the input goes if
\* nothing is open; then init_imgui, and the search for our swapchain among those
\* presented.
Begin(i) ==
    /\ ready \/ Adopts
    /\ ready' = TRUE
    /\ IF ready THEN UNCHANGED <<swap, fence>> ELSE swap' = gameSwap /\ NewFences
    /\ IF open = {} THEN want' = FALSE /\ queued' = 0 ELSE UNCHANGED <<want, queued>>
    /\ \E ok \in BOOLEAN :
          /\ InitImGui(imgui = "off" \/ ~ready, ok)
          /\ IF ok /\ swap' = gameSwap
             THEN step' = "frame" /\ image' = i /\ drawing' = open /\ UNCHANGED shown
             ELSE Forward
    /\ UNCHANGED open

Present(i) ==
    /\ step = "idle" /\ "present" \in hooks /\ gameSwap > 0
    /\ Incomplete \/ Begin(i)
    /\ UNCHANGED <<hookVars, gameSwap>>

\* Seeded fault: what ImGui wants is published with the windows closed.
PublishAny(w) == want' = w

\* The input queued is drained, the windows are drawn, and ImGui says what it
\* wants of the input to come.
PublishWant(w) == want' = (drawing # {} /\ w)

Frame ==
    /\ step = "frame" /\ step' = "record"
    /\ queued' = IF drawing = {} THEN queued ELSE 0
    /\ \E w \in BOOLEAN : PublishWant(w)
    /\ shown' = drawing
    /\ UNCHANGED <<hookVars, gameSwap, swap, ready, imgui, image, drawing, fence, open, failures>>

\* vkWaitForFences without a timeout, and the reset.
Wait ==
    /\ step = "record" /\ step' = "submit"
    /\ fence[image] = "signaled"
    /\ fence' = [fence EXCEPT ![image] = "reset"]
    /\ UNCHANGED <<hookVars, gameSwap, swap, ready, imgui, image, drawing, shown, inputVars,
                   failures>>

\* Seeded fault: a failed submission leaves the fence reset.
LeaveReset(i) == failures' = failures + 1 /\ UNCHANGED fence

\* A submission that failed is followed by one without work that signals the fence;
\* nobody looks whether that one fails.
SignalOnly(i) ==
    \/ failures' = failures + 1 /\ fence' = [fence EXCEPT ![i] = "pending"]
    \/ SignalFails /\ failures + 1 < MaxFailures /\ failures' = failures + 2 /\ UNCHANGED fence

Submit ==
    /\ step = "submit" /\ step' = "idle"
    /\ \/ fence' = [fence EXCEPT ![image] = "pending"] /\ UNCHANGED failures
       \/ failures < MaxFailures /\ SignalOnly(image)
    /\ UNCHANGED <<hookVars, gameSwap, swap, ready, imgui, image, drawing, shown, inputVars>>

GpuCompletes(i) ==
    /\ fence[i] = "pending" /\ fence' = [fence EXCEPT ![i] = "signaled"]
    /\ UNCHANGED <<hookVars, gameSwap, swap, ready, imgui, step, image, drawing, shown, inputVars,
                   failures>>

-----------------------------------------------------------------------------
(***************************************************************************)
(* The event thread: repl_process_sdl_event.                               *)
(***************************************************************************)
Toggle(w) ==
    /\ "event" \in hooks
    /\ open' = IF w \in open THEN open \ {w} ELSE open \cup {w}
    /\ UNCHANGED <<hookVars, gameSwap, renderVars, want, queued, failures>>

\* Queued for ImGui while a window is open; the game is spared it if the last
\* frame wanted it.
Swallowed == open # {} /\ want

Event ==
    /\ "event" \in hooks /\ open # {} /\ queued < MaxQueued
    /\ queued' = queued + 1
    /\ UNCHANGED <<hookVars, gameSwap, renderVars, open, want, failures>>

-----------------------------------------------------------------------------
Render == (\E i \in Image : Present(i)) \/ Frame \/ Wait \/ Submit
Gpu == \E i \in Image : GpuCompletes(i)

Next == \/ InstallHooks \/ CreateSwapchain \/ Render \/ Gpu
        \/ (\E w \in Window : Toggle(w)) \/ Event

Spec == Init /\ [][Next]_voVars
\* The game presents, and the GPU finishes what it is given.
FairSpec == Spec /\ WF_voVars(Render \/ Gpu)

-----------------------------------------------------------------------------
(***************************************************************************)
(* Properties.                                                             *)
(***************************************************************************)
\* A frame is recorded with the resources of the swapchain it is presented with
\* and an ImGui started on them, whoever built them and however often it failed.
FrameMatches == step # "idle" => ready /\ swap = gameSwap /\ imgui = "on"

\* With both of the hooks that draw in place, input is drained.
Drawing == {"create", "present"} \subseteq hooks

\* No frame mixes the resources of two swapchains.  If not SignalFails, that is if no fence
\* is left reset by two submissions in a row that failed, no present waits for ever, and
\* once the game renders, with the hooks that draw in place, input does not pile up: it is
\* drained or dropped whatever else failed when.  As long as no call has failed, the game is
\* deprived of its input only by a window that is on the screen.
GameGoesOn ==
    /\ []FrameMatches
    /\ step # "idle" ~> step = "idle"
    /\ queued > 0 /\ gameSwap > 0 /\ Drawing ~> queued = 0
    /\ [](Swallowed /\ failures = 0 => shown # {})
=============================================================================
