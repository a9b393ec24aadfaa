------------------------------- MODULE Power -------------------------------
(***************************************************************************)
(* Screen power and the idle timeout: set_screen_power, notify_activity,   *)
(* rearm_idle_timer and sync_idle_inhibited of src/src/state.rs, the DRM   *)
(* side in src/src/udev.rs, the control objects of output_power.rs, and    *)
(* wake on input.                                                          *)
(*                                                                         *)
(* Time passes in ticks; a timer holds the ticks it has left.  calloop     *)
(* fires a due timer before the next tick, though other events may still   *)
(* come first.                                                             *)
(***************************************************************************)
EXTENDS Integers

CONSTANTS
  Heads,      \* the connectors a monitor may be plugged into
  Surfaces,   \* the surfaces that may hold an idle inhibitor
  Controls,   \* the zwlr_output_power_v1 objects of a behaviour
  MaxTimeout, \* the longest screen_off_seconds, in ticks
  Refusals,   \* the sets of heads that may refuse to go off together
  MaxTimers   \* bound on the idle timers alive in the event loop

ASSUME PowerAssumption ==
  /\ MaxTimeout \in Nat
  /\ Refusals \subseteq SUBSET Heads
  /\ MaxTimers \in Nat \ {0}

VARIABLES
  heads,        \* the heads with a DRM surface
  off,          \* those whose power_off is set
  active,       \* the session is not switched away
  timeout,      \* config.idle
  inhibitors,   \* idle_inhibitors; idle_inhibited says there are some
  idle,         \* elapsed since last_activity, the timers alive, idle_timer
  output_power, \* the control object registered for each head
  told          \* what each living control object was told last

vars == <<heads, off, active, timeout, inhibitors, idle, output_power, told>>

NoToken == 0
Tokens == 1..MaxTimers

\* The values of screen_off_seconds; 0, or a disabled [idle], is never.
Timeouts == 0..MaxTimeout

Without(f, S) == [x \in DOMAIN f \ S |-> f[x]]
With(f, x, y) == [z \in DOMAIN f \cup {x} |-> IF z = x THEN y ELSE f[z]]

Nothing == [x \in {} |-> 0]

\* all_off: not vacuously true, where there is no head at all.
AllOff(present, dark) == present # {} /\ present \subseteq dark

Inhibited == inhibitors # {}

----------------------------------------------------------------------------
(* The idle timer *)

\* Drop the timer idle_timer names; one it does not name lives on.
Cancelled(i) ==
  [elapsed |-> i.elapsed, timers |-> Without(i.timers, {i.idle_timer}), idle_timer |-> NoToken]

\* Mutant of Rearmed: the full timeout, however long nothing has happened.
RearmedInFull(i, dark, inhibited, limit) ==
  LET c == Cancelled(i)
      t == CHOOSE t \in Tokens : t \notin DOMAIN c.timers
  IN  IF dark \/ inhibited \/ limit = 0
      THEN c
      ELSE [elapsed |-> c.elapsed, timers |-> With(c.timers, t, limit), idle_timer |-> t]

\* rearm_idle_timer, with the policy of idle_timer_delay.
Rearmed(i, dark, inhibited, limit) ==
  LET c == Cancelled(i)
      t == CHOOSE t \in Tokens : t \notin DOMAIN c.timers
      delay == IF c.elapsed < limit THEN limit - c.elapsed ELSE 0
  IN  IF dark \/ inhibited \/ limit = 0
      THEN c
      ELSE [elapsed |-> c.elapsed, timers |-> With(c.timers, t, delay), idle_timer |-> t]

Active(i) == [i EXCEPT !.elapsed = 0]

\* A token is left for whatever is armed.
RoomToArm == DOMAIN idle.timers \ {idle.idle_timer} # Tokens

----------------------------------------------------------------------------
(* set_screen_power *)

Mode(h, dark) == IF h \in dark THEN "Off" ELSE "On"

\* notify_power_changed.
Notified(changed, dark) ==
  [c \in DOMAIN told |->
     IF \E h \in changed \cap DOMAIN output_power : output_power[h] = c
     THEN Mode(CHOOSE h \in DOMAIN output_power : output_power[h] = c, dark)
     ELSE told[c]]

\* Mutant of Powered: what a client did not ask for it is not told.
PoweredUntold(i, on, targets, refusing) ==
  LET changed == IF on THEN targets \cap off ELSE (targets \ off) \ refusing
      dark == IF on THEN off \ changed ELSE off \cup changed
      j == IF on THEN Active(i) ELSE i
  IN  [off |-> dark,
       told |-> told,
       idle |-> IF changed = {} THEN i
                ELSE Rearmed(j, AllOff(heads, dark), Inhibited, timeout)]

\* Mutant of Powered: the countdown goes on from before the wake.
PoweredStillIdle(i, on, targets, refusing) ==
  LET changed == IF on THEN targets \cap off ELSE (targets \ off) \ refusing
      dark == IF on THEN off \ changed ELSE off \cup changed
  IN  [off |-> dark,
       told |-> Notified(changed, dark),
       idle |-> IF changed = {} THEN i
                ELSE IF on THEN Active(i)
                ELSE Rearmed(i, AllOff(heads, dark), Inhibited, timeout)]

\* set_screen_power of heads, from idle record i: a head in the requested state
\* already is skipped, and one whose CRTC cannot be cleared is passed over.
\* Where nothing changed nothing is re-armed and nobody is told.
Powered(i, on, targets, refusing) ==
  LET changed == IF on THEN targets \cap off ELSE (targets \ off) \ refusing
      dark == IF on THEN off \ changed ELSE off \cup changed
      j == IF on THEN Active(i) ELSE i
  IN  [off |-> dark,
       told |-> Notified(changed, dark),
       idle |-> IF changed = {} THEN i
                ELSE Rearmed(j, AllOff(heads, dark), Inhibited, timeout)]

\* The heads that refuse at this moment: all of them while the session is
\* switched away, for want of DRM master.
Refusing == IF active THEN Refusals ELSE {Heads}

SetScreenPower(on, targets) ==
  \E refusing \in Refusing :
    LET p == Powered(idle, on, targets, refusing)
    IN  off' = p.off /\ told' = p.told /\ idle' = p.idle

----------------------------------------------------------------------------
(* Actions *)

Init ==
  /\ heads = {} /\ off = {} /\ active = TRUE
  /\ timeout \in Timeouts
  /\ inhibitors = {}
  /\ idle = Rearmed([elapsed |-> 0, timers |-> Nothing, idle_timer |-> NoToken],
                    FALSE, FALSE, timeout)
  /\ output_power = Nothing /\ told = Nothing

\* process_input_event: every key, button, motion and scroll counts as
\* activity, and lights whatever is off.
Input ==
  /\ active /\ RoomToArm
  /\ LET i == Rearmed(Active(idle), AllOff(heads, off), Inhibited, timeout)
         p == Powered(i, TRUE, heads, {})
     IN  IF heads \cap off # {}
         THEN off' = p.off /\ told' = p.told /\ idle' = p.idle
         ELSE idle' = i /\ UNCHANGED <<off, told>>
  /\ UNCHANGED <<heads, active, timeout, inhibitors, output_power>>

\* A request on the status socket, for one head or for all of them.
Ipc(on, targets) ==
  /\ RoomToArm
  /\ SetScreenPower(on, targets)
  /\ UNCHANGED <<heads, active, timeout, inhibitors, output_power>>

\* Mutant of Fire: idle_timer goes on naming the timer that has fired.
FireKeepsToken(t) ==
  /\ RoomToArm
  /\ t \in DOMAIN idle.timers /\ idle.timers[t] = 0
  /\ LET i == [idle EXCEPT !.timers = Without(@, {t})]
     IN  IF ~AllOff(heads, off) /\ ~Inhibited
         THEN \E refusing \in Refusing :
                LET p == Powered(i, FALSE, heads, refusing)
                IN  off' = p.off /\ told' = p.told /\ idle' = p.idle
         ELSE idle' = i /\ UNCHANGED <<off, told>>
  /\ UNCHANGED <<heads, active, timeout, inhibitors, output_power>>

\* The callback of the idle timer.  It forgets idle_timer when it is done,
\* whichever timer that names by then.
Fire(t) ==
  /\ RoomToArm
  /\ t \in DOMAIN idle.timers /\ idle.timers[t] = 0
  /\ LET i == [idle EXCEPT !.timers = Without(@, {t})]
     IN  IF ~AllOff(heads, off) /\ ~Inhibited
         THEN \E refusing \in Refusing :
                LET p == Powered(i, FALSE, heads, refusing)
                IN  /\ off' = p.off /\ told' = p.told
                    /\ idle' = [p.idle EXCEPT !.idle_timer = NoToken]
         ELSE /\ idle' = [i EXCEPT !.idle_timer = NoToken]
              /\ UNCHANGED <<off, told>>
  /\ UNCHANGED <<heads, active, timeout, inhibitors, output_power>>

\* Time passes, and no due timer is left behind.
Tick ==
  /\ \A t \in DOMAIN idle.timers : idle.timers[t] > 0
  /\ idle.elapsed < MaxTimeout \/ idle.timers # Nothing
  /\ idle' = [idle EXCEPT !.elapsed = IF @ < MaxTimeout THEN @ + 1 ELSE @,
                          !.timers = [t \in DOMAIN @ |-> @[t] - 1]]
  /\ UNCHANGED <<heads, off, active, timeout, inhibitors, output_power, told>>

\* Mutant of SyncIdleInhibited: the release of the last inhibitor restarts nothing.
InhibitedOnce(now) ==
  /\ inhibitors' = now
  /\ idle' = IF (now # {}) = Inhibited THEN idle
             ELSE IF now # {} THEN Cancelled(idle)
             ELSE Active(idle)

\* sync_idle_inhibited, for the inhibitors there are from now on.
SyncIdleInhibited(now) ==
  /\ inhibitors' = now
  /\ idle' = IF (now # {}) = Inhibited THEN idle
             ELSE IF now # {} THEN Cancelled(idle)
             ELSE Rearmed(Active(idle), AllOff(heads, off), FALSE, timeout)

Inhibit(s) ==
  /\ SyncIdleInhibited(inhibitors \cup {s})
  /\ UNCHANGED <<heads, off, active, timeout, output_power, told>>

\* An inhibitor destroyed, or its surface with it when the client dies.
Uninhibit(s) ==
  /\ s \in inhibitors /\ RoomToArm
  /\ SyncIdleInhibited(inhibitors \ {s})
  /\ UNCHANGED <<heads, off, active, timeout, output_power, told>>

\* reload_config with another [idle].
Reload(limit) ==
  /\ RoomToArm
  /\ timeout' = limit
  /\ idle' = Rearmed(idle, AllOff(heads, off), Inhibited, limit)
  /\ UNCHANGED <<heads, off, active, inhibitors, output_power, told>>

\* connector_connected: the head comes up lit, and nothing is re-armed.
Connect(h) ==
  /\ h \notin heads
  /\ heads' = heads \cup {h}
  /\ UNCHANGED <<off, active, timeout, inhibitors, idle, output_power, told>>

\* connector_disconnected, which fails the head's control object.
Disconnect(h) ==
  /\ h \in heads
  /\ heads' = heads \ {h} /\ off' = off \ {h}
  /\ output_power' = Without(output_power, {h})
  /\ told' = IF h \in DOMAIN output_power
             THEN With(told, output_power[h], "Failed") ELSE told
  /\ UNCHANGED <<active, timeout, inhibitors, idle>>

\* The session is switched away, and back.
PauseSession ==
  /\ active /\ active' = FALSE
  /\ UNCHANGED <<heads, off, timeout, inhibitors, idle, output_power, told>>

ActivateSession ==
  /\ ~active /\ active' = TRUE
  /\ UNCHANGED <<heads, off, timeout, inhibitors, idle, output_power, told>>

\* create_power: one object at a time for a head, failed at once otherwise.
GetOutputPower(c, h) ==
  /\ c \notin DOMAIN told
  /\ IF h \in heads /\ h \notin DOMAIN output_power
     THEN output_power' = With(output_power, h, c) /\ told' = With(told, c, Mode(h, off))
     ELSE told' = With(told, c, "Failed") /\ UNCHANGED output_power
  /\ UNCHANGED <<heads, off, active, timeout, inhibitors, idle>>

\* set_mode, obeyed by the registered object only.
SetMode(h, on) ==
  /\ RoomToArm
  /\ h \in DOMAIN output_power
  /\ SetScreenPower(on, heads \cap {h})
  /\ UNCHANGED <<heads, active, timeout, inhibitors, output_power>>

\* A control object destroyed, or dead with its client.
DestroyControl(c) ==
  /\ c \in DOMAIN told
  /\ told' = Without(told, {c})
  /\ output_power' = Without(output_power, {h \in DOMAIN output_power : output_power[h] = c})
  /\ UNCHANGED <<heads, off, active, timeout, inhibitors, idle>>

Idling == Tick \/ \E t \in Tokens : Fire(t)

Next ==
  \/ Input \/ Idling \/ PauseSession \/ ActivateSession
  \/ \E on \in BOOLEAN, targets \in {heads} \cup {{h} : h \in heads} : Ipc(on, targets)
  \/ \E s \in Surfaces : Inhibit(s) \/ Uninhibit(s)
  \/ \E limit \in Timeouts : Reload(limit)
  \/ \E h \in Heads :
       \/ Connect(h) \/ Disconnect(h)
       \/ \E on \in BOOLEAN : SetMode(h, on)
       \/ \E c \in Controls : GetOutputPower(c, h)
  \/ \E c \in Controls : DestroyControl(c)

\* Time goes on, and calloop fires what is due.
Spec == Init /\ [][Next]_vars /\ WF_vars(Idling)
----------------------------------------------------------------------------
(* Properties *)

\* Every timer alive has a token of the event loop's and a delay no longer than a
\* timeout, and only heads there are have controls.  Proved, for every value of
\* the constants.
TypeOK ==
  /\ heads \subseteq Heads /\ off \subseteq heads /\ active \in BOOLEAN
  /\ timeout \in Timeouts /\ inhibitors \subseteq Surfaces
  /\ idle.elapsed \in 0..MaxTimeout
  /\ DOMAIN idle.timers \subseteq Tokens
  /\ \A t \in DOMAIN idle.timers : idle.timers[t] \in 0..MaxTimeout
  /\ idle.idle_timer \in Tokens \cup {NoToken}
  /\ DOMAIN output_power \subseteq heads
  /\ DOMAIN told \subseteq Controls

\* The timers of i are the one idle_timer names, if any, and it has left what
\* the limit leaves since the last activity.
OnTime(i, limit) ==
  /\ DOMAIN i.timers = {i.idle_timer} \ {NoToken}
  /\ \A t \in DOMAIN i.timers :
       i.timers[t] = IF i.elapsed < limit THEN limit - i.elapsed ELSE 0

\* One clock (state.rs, rearm_idle_timer): no timer is alive that nobody can
\* cancel, and whether input, a wake, a reload or an inhibitor armed it, it
\* counts the same time since last_activity.  A head that refuses alone to go off
\* breaks it: the timer's callback has turned the others off, which armed a timer, and
\* then forgets that one's token.  So it is claimed where the heads refuse together.
OneClock == OnTime(idle, timeout)

\* No client is left believing in "a lit screen while the panel is dark"
\* (output_power.rs): the control object of a head knows its power, whoever
\* changed it.
ModeIsTold ==
  \A h \in DOMAIN output_power :
    output_power[h] \in DOMAIN told /\ told[output_power[h]] = Mode(h, off)

\* The timer blanks nothing before the whole timeout has passed since the last
\* activity, wake or inhibitor, and nothing while one is held.
BlanksWhenIdle ==
  [][(\E t \in Tokens : Fire(t)) /\ off' # off
        => ~Inhibited /\ timeout > 0 /\ idle.elapsed >= timeout]_vars

\* "The timer keeps counting down as long as any output is still lit"
\* (state.rs, all_outputs_off).
WatchesLitHeads ==
  heads \subseteq off \/ Inhibited \/ timeout = 0 \/ idle.idle_timer # NoToken

\* What may end that watch: a head plugged in, or one that refuses to go off.
WatchEndsOnlyBy ==
  [][WatchesLitHeads =>
       \/ WatchesLitHeads'
       \/ ~(heads' \subseteq heads)
       \/ Refusing # {{}} /\ \E t \in Tokens : Fire(t)]_vars

\* Left alone, the screens go dark, if the timer watches them.
GoesDark ==
  <>[][Idling]_vars =>
    <>[](heads \subseteq off \/ Inhibited \/ timeout = 0 \/ ~WatchesLitHeads)
=============================================================================
