------------------------------ MODULE Outputs ------------------------------
(***************************************************************************)
(* The loop that draws a head, in src/src/udev.rs: render, frame_finish,   *)
(* schedule_render and all that call it; and what waits for a frame, the   *)
(* captures of src/src/screencopy.rs.                                      *)
(*                                                                         *)
(* There is no loop as such.  A render arranges for the next one, by the   *)
(* flip it queued or by a timer, and whoever needs a frame adds a timer of *)
(* his own.  A timer names a crtc and outlives what was plugged into it.   *)
(***************************************************************************)
EXTENDS Integers

CONSTANTS
  Heads,       \* the crtcs a connector may be given
  HdrCapable,  \* those configured for HDR
  Outputs,     \* the smithay Outputs alive at one time
  Frames,      \* the zwlr_screencopy_frame_v1 objects alive at one time
  NoOutput,
  MaxTimers    \* bound on the renders scheduled for one head

ASSUME OutputsAssumption ==
  /\ HdrCapable \subseteq Heads
  /\ NoOutput \notin Outputs
  /\ MaxTimers \in Nat \ {0}

VARIABLES
  surfaces, \* the Output of the surface on each crtc, or NoOutput
  off,      \* the heads whose surface has power_off set
  active,   \* the session is not switched away
  space,    \* the Outputs mapped in the Space
  timers,   \* the renders scheduled for each head, whenever they are due
  flips,    \* the frames of each head that await their vblank
  frames,   \* the captures, those in pending_screencopy among them
  broken    \* the driver loses the context of whatever is drawn now

vars == <<surfaces, off, active, space, timers, flips, frames, broken>>

\* A capture is announced, then pending; its client may abandon it there.
States == {"None", "Announced", "Pending", "Abandoned", "Answered"}
None == [state |-> "None", output |-> NoOutput]
Answered == [state |-> "Answered", output |-> NoOutput]

\* pending_screencopy.
Pending == {f \in Frames : frames[f].state \in {"Pending", "Abandoned"}}

Connected == {h \in Heads : surfaces[h] # NoOutput}
Lit == Connected \ off

\* An Output lives while anything refers to it: a surface, the Space, a capture.
InUse ==
  {surfaces[h] : h \in Connected} \cup space \cup {frames[f].output : f \in Frames}

\* DrmCompositor holds one frame in flight and one queued behind it; a third
\* takes the place of the queued one.
InFlight == 0..2

----------------------------------------------------------------------------
(* Scheduling *)

\* schedule_render for each of S: another timer, whether one is there or not.
Schedule(S) ==
  /\ \A h \in S : timers[h] < MaxTimers
  /\ timers' = [h \in Heads |-> IF h \in S THEN timers[h] + 1 ELSE timers[h]]

\* What smithay and the kernel forget of the flips of S when a CRTC is cleared,
\* dropped or reactivated.
MayLoseFlips(S) ==
  \E lost \in SUBSET S : flips' = [h \in Heads |-> IF h \in lost THEN 0 ELSE flips[h]]

----------------------------------------------------------------------------
(* Frames *)

\* fulfill_pending: every capture of o is answered, ready or failed, and those
\* of the other heads are left queued.
Fulfilled(o) ==
  [f \in Frames |->
     CASE f \notin Pending \/ frames[f].output # o -> frames[f]
       [] frames[f].state = "Pending" -> Answered
       [] OTHER -> None]

\* render where there is nothing to draw to: the timer was the last.
Bail(h) ==
  /\ timers[h] > 0
  /\ ~active \/ h \notin Lit
  /\ timers' = [timers EXCEPT ![h] = @ - 1]
  /\ UNCHANGED <<surfaces, off, active, space, flips, frames, broken>>

\* What every render of a surface does, however it ends.
Draws(h) ==
  /\ timers[h] > 0
  /\ active /\ h \in Lit
  /\ frames' = Fulfilled(surfaces[h])
  /\ UNCHANGED <<surfaces, off, active, space, broken>>

\* Damage was queued: its vblank goes on with the loop.
Flip(h) ==
  /\ Draws(h) /\ ~broken
  /\ timers' = [timers EXCEPT ![h] = @ - 1]
  /\ flips' = [flips EXCEPT ![h] = IF @ = 2 THEN 2 ELSE @ + 1]

\* Nothing was damaged, or the render failed: a timer goes on with it, after a
\* lost context only while a tween or a border effect runs.
Heartbeat(h) ==
  /\ Draws(h)
  /\ UNCHANGED <<timers, flips>>

\* The context was lost while nothing moved: this loop ends.
LoseContext(h) ==
  /\ Draws(h) /\ broken
  /\ timers' = [timers EXCEPT ![h] = @ - 1]
  /\ UNCHANGED flips

Render(h) == Bail(h) \/ Flip(h) \/ Heartbeat(h) \/ LoseContext(h)

\* frame_finish, at a vblank of h.
FrameFinish(h) ==
  /\ flips[h] > 0
  /\ flips' = [flips EXCEPT ![h] = @ - 1]
  /\ Schedule({h} \cap Connected)
  /\ UNCHANGED <<surfaces, off, active, space, frames, broken>>

\* The GPU resets, or its driver recovers.
Driver ==
  /\ broken' = ~broken
  /\ UNCHANGED <<surfaces, off, active, space, timers, flips, frames>>

----------------------------------------------------------------------------
(* Who else wants a frame *)

\* nudge_all_renders: the wallpaper rotation, a config reload, the socket and
\* two chords.
Nudge ==
  /\ Schedule(Connected)
  /\ UNCHANGED <<surfaces, off, active, space, flips, frames, broken>>

ToggleHdr ==
  /\ HdrCapable \cap Connected # {}
  /\ Schedule(HdrCapable \cap Connected)
  /\ UNCHANGED <<surfaces, off, active, space, flips, frames, broken>>

\* set_screen_power.  A head that cannot be cleared is passed over, as all are
\* while the session is switched away.
PowerOff(targets) ==
  /\ \E changed \in SUBSET (targets \cap Lit) :
       /\ ~active => changed = {}
       /\ off' = off \cup changed
       /\ MayLoseFlips(changed)
  /\ UNCHANGED <<surfaces, active, space, timers, frames, broken>>

PowerOn(targets) ==
  /\ off' = off \ targets
  /\ Schedule(targets \cap off)
  /\ UNCHANGED <<surfaces, active, space, flips, frames, broken>>

PauseSession ==
  /\ active /\ active' = FALSE
  /\ UNCHANGED <<surfaces, off, space, timers, flips, frames, broken>>

\* Mutant of ActivateSession: the loops are trusted to have survived.
ActivateSessionQuietly ==
  /\ ~active /\ active' = TRUE
  /\ MayLoseFlips(Connected)
  /\ UNCHANGED <<surfaces, off, space, timers, frames, broken>>

\* The session is back: every surface is drawn anew, dark ones for nothing.
ActivateSession ==
  /\ ~active /\ active' = TRUE
  /\ MayLoseFlips(Connected)
  /\ Schedule(Connected)
  /\ UNCHANGED <<surfaces, off, space, frames, broken>>

\* connector_connected.  The Output is mapped before its surface is initialized;
\* when that fails, as it does while the session is switched away, it stays so.
Connect(h) ==
  /\ surfaces[h] = NoOutput
  /\ \E o \in Outputs \ InUse :
       /\ space' = space \cup {o}
       /\ \/ /\ active
             /\ surfaces' = [surfaces EXCEPT ![h] = o]
             /\ Schedule({h})
          \/ UNCHANGED <<surfaces, timers>>
  /\ UNCHANGED <<off, active, flips, frames, broken>>

\* connector_disconnected: the timers of h and the captures of its Output stay.
Disconnect(h) ==
  /\ surfaces[h] # NoOutput
  /\ surfaces' = [surfaces EXCEPT ![h] = NoOutput]
  /\ off' = off \ {h}
  /\ space' = space \ {surfaces[h]}
  /\ MayLoseFlips({h})
  /\ UNCHANGED <<active, timers, frames, broken>>

\* device_changed takes what a scan found one connector after the other, and
\* device_removed disconnects the heads of a GPU in turn.  Here others may run
\* between two of them, which they do not in the code.
Hotplug(h) == Connect(h) \/ Disconnect(h)

----------------------------------------------------------------------------
(* Captures *)

\* create_frame: an Output that is gone is answered at once.
CaptureOutput(f, o) ==
  /\ frames[f] = None
  /\ frames' = [frames EXCEPT ![f] =
       IF o \in InUse THEN [state |-> "Announced", output |-> o] ELSE Answered]
  /\ UNCHANGED <<surfaces, off, active, space, timers, flips, broken>>

\* Mutant of Copy: the next frame is waited for.
CopyWithoutNudge(f) ==
  /\ frames[f].state = "Announced"
  /\ frames' = [frames EXCEPT ![f].state = "Pending"]
  /\ UNCHANGED <<surfaces, off, active, space, timers, flips, broken>>

\* A copy request with a buffer that fits; any other ends its client.
Copy(f) ==
  /\ frames[f].state = "Announced"
  /\ frames' = [frames EXCEPT ![f].state = "Pending"]
  /\ Schedule(Connected)
  /\ UNCHANGED <<surfaces, off, active, space, flips, broken>>

\* A frame destroyed, or dead with its client: the capture it asked for stays.
Destroy(f) ==
  /\ frames[f].state \in {"Announced", "Pending", "Answered"}
  /\ frames' = [frames EXCEPT ![f] =
       IF @.state = "Pending" THEN [@ EXCEPT !.state = "Abandoned"] ELSE None]
  /\ UNCHANGED <<surfaces, off, active, space, timers, flips, broken>>

----------------------------------------------------------------------------
Init ==
  /\ surfaces = [h \in Heads |-> NoOutput]
  /\ off = {} /\ active = TRUE /\ space = {}
  /\ timers = [h \in Heads |-> 0] /\ flips = [h \in Heads |-> 0]
  /\ frames = [f \in Frames |-> None]
  /\ broken = FALSE

Next ==
  \/ Driver \/ Nudge \/ ToggleHdr \/ PauseSession \/ ActivateSession
  \/ \E targets \in {Heads} \cup {{h} : h \in Heads} : PowerOff(targets) \/ PowerOn(targets)
  \/ \E h \in Heads : Render(h) \/ FrameFinish(h) \/ Hotplug(h)
  \/ \E f \in Frames :
       \/ Copy(f) \/ Destroy(f)
       \/ \E o \in Outputs : CaptureOutput(f, o)

\* calloop fires the timers that are due, and a flip has its vblank: weak fairness
\* of the two, with their ENABLED spelled out.
Fairness(h) ==
  /\ []<>(timers[h] = 0) \/ []<><<Render(h)>>_vars
  /\ \/ []<>(flips[h] = 0 \/ (h \in Connected /\ timers[h] = MaxTimers))
     \/ []<><<FrameFinish(h)>>_vars

Spec == Init /\ [][Next]_vars /\ \A h \in Heads : Fairness(h)

----------------------------------------------------------------------------
(* Properties *)

TypeOK ==
  /\ surfaces \in [Heads -> Outputs \cup {NoOutput}]
  /\ off \subseteq Connected /\ active \in BOOLEAN
  /\ space \subseteq Outputs
  /\ timers \in [Heads -> 0..MaxTimers] /\ flips \in [Heads -> InFlight]
  /\ broken \in BOOLEAN
  /\ frames \in [Frames -> [state : States, output : Outputs \cup {NoOutput}]]

\* A render of h is on its way.
Alive(h) == timers[h] > 0 \/ flips[h] > 0

Drawable(h) == active /\ h \in Lit

\* The loop of a head goes on while it can be drawn, and is there when it can be
\* drawn again, whether it was plugged in, woken or the session switched back;
\* "ActivateSession restarts the loop" and set_screen_power "wakes it back up"
\* (udev.rs, render).  Only a lost context ends it.
LoopEndsOnlyBy ==
  [][\A h \in Heads :
       Drawable(h)' /\ (Drawable(h) => Alive(h)) => Alive(h)' \/ LoseContext(h)]_vars

Awaited(f, o) == frames[f] = [state |-> "Pending", output |-> o]

\* "A capture must produce the next frame even when the screen is idle, or the
\* client blocks forever" (udev.rs, nudge_all_renders): one of a head that stays
\* drawable is answered, even where the loop had ended.
CapturesAnswered ==
  \A f \in Frames, o \in Outputs, h \in Heads :
    Awaited(f, o) /\ surfaces[h] = o /\ Drawable(h)
      ~> ~Awaited(f, o) \/ surfaces[h] # o \/ ~Drawable(h)
=============================================================================
