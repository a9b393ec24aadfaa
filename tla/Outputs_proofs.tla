--------------------------- MODULE Outputs_proofs ---------------------------
(***************************************************************************)
(* Proofs about Outputs: for any number of heads, and however many renders *)
(* are scheduled at once, a head that can be drawn has a render on its way.*)
(***************************************************************************)
EXTENDS Outputs, TLAPS

\* The captures keep their type through whatever answers them.
LEMMA FulfilledTyped ==
  ASSUME TypeOK, NEW o
  PROVE  Fulfilled(o) \in [Frames -> [state : States, output : Outputs \cup {NoOutput}]]
<1> DEFINE Capture == [state : States, output : Outputs \cup {NoOutput}]
<1>1. None \in Capture /\ Answered \in Capture
  BY DEF None, Answered, States
<1>2. \A f \in Frames : frames[f] \in Capture
  BY DEF TypeOK
<1> HIDE DEF Capture
<1>3. \A f \in Frames : Fulfilled(o)[f] \in Capture
  BY <1>1, <1>2 DEF Fulfilled
<1>4. Fulfilled(o) \in [Frames -> Capture]
  BY <1>3 DEF Fulfilled
<1> QED
  BY <1>4 DEF Capture

\* Scheduling adds renders, within the bound, and takes none away.
LEMMA Scheduled ==
  ASSUME TypeOK, NEW S, S \subseteq Heads, Schedule(S)
  PROVE  /\ timers' \in [Heads -> 0..MaxTimers]
         /\ \A h \in Heads : timers'[h] >= timers[h]
         /\ \A h \in S : timers'[h] > 0
BY OutputsAssumption DEF TypeOK, Schedule

LEMMA FlipsLost ==
  ASSUME TypeOK, NEW S, S \subseteq Heads, MayLoseFlips(S)
  PROVE  /\ flips' \in [Heads -> InFlight]
         /\ \A h \in Heads \ S : flips'[h] = flips[h]
BY DEF TypeOK, MayLoseFlips, InFlight

\* TypeOK is inductive.
LEMMA TypeKept ==
  ASSUME TypeOK, [Next]_vars
  PROVE  TypeOK'
<1> USE OutputsAssumption
<1> DEFINE Capture == [state : States, output : Outputs \cup {NoOutput}]
<1>1. ASSUME NEW h \in Heads, Bail(h) PROVE TypeOK'
  BY <1>1 DEF TypeOK, Bail, Connected
<1>2. ASSUME NEW h \in Heads, Draws(h),
             timers' \in [Heads -> 0..MaxTimers], flips' \in [Heads -> InFlight]
      PROVE  TypeOK'
  <2>1. frames' \in [Frames -> Capture]
    BY <1>2, FulfilledTyped DEF Draws
  <2> QED
    BY <1>2, <2>1 DEF TypeOK, Draws, Connected
<1>3. ASSUME NEW h \in Heads, Flip(h) PROVE TypeOK'
  BY <1>2, <1>3 DEF TypeOK, Flip, Draws, InFlight
<1>4. ASSUME NEW h \in Heads, Heartbeat(h) PROVE TypeOK'
  BY <1>2, <1>4 DEF TypeOK, Heartbeat
<1>5. ASSUME NEW h \in Heads, LoseContext(h) PROVE TypeOK'
  BY <1>2, <1>5 DEF TypeOK, LoseContext, Draws
<1>6. ASSUME NEW h \in Heads, FrameFinish(h) PROVE TypeOK'
  <2>1. timers' \in [Heads -> 0..MaxTimers]
    BY <1>6, Scheduled DEF FrameFinish
  <2>2. flips' \in [Heads -> InFlight]
    BY <1>6 DEF FrameFinish, TypeOK, InFlight
  <2> QED
    BY <1>6, <2>1, <2>2 DEF FrameFinish, TypeOK, Connected
<1>7. CASE Driver
  BY <1>7 DEF Driver, TypeOK, Connected
<1>8. CASE Nudge
  <2>1. timers' \in [Heads -> 0..MaxTimers]
    BY <1>8, Scheduled DEF Nudge, Connected
  <2> QED
    BY <1>8, <2>1 DEF Nudge, TypeOK, Connected
<1>9. CASE ToggleHdr
  <2>1. timers' \in [Heads -> 0..MaxTimers]
    BY <1>9, Scheduled DEF ToggleHdr, Connected
  <2> QED
    BY <1>9, <2>1 DEF ToggleHdr, TypeOK, Connected
<1>10. ASSUME NEW targets \in SUBSET Heads, PowerOff(targets) PROVE TypeOK'
  <2>1. PICK changed \in SUBSET (targets \cap Lit) :
          off' = off \cup changed /\ MayLoseFlips(changed)
    BY <1>10 DEF PowerOff
  <2>2. flips' \in [Heads -> InFlight]
    BY <2>1, FlipsLost
  <2> QED
    BY <1>10, <2>1, <2>2 DEF PowerOff, TypeOK, Connected, Lit
<1>11. ASSUME NEW targets \in SUBSET Heads, PowerOn(targets) PROVE TypeOK'
  <2>1. timers' \in [Heads -> 0..MaxTimers]
    BY <1>11, Scheduled DEF PowerOn
  <2> QED
    BY <1>11, <2>1 DEF PowerOn, TypeOK, Connected
<1>12. CASE PauseSession
  BY <1>12 DEF PauseSession, TypeOK, Connected
<1>13. CASE ActivateSession
  <2>1. timers' \in [Heads -> 0..MaxTimers] /\ flips' \in [Heads -> InFlight]
    BY <1>13, Scheduled, FlipsLost DEF ActivateSession, Connected
  <2> QED
    BY <1>13, <2>1 DEF ActivateSession, TypeOK, Connected
<1>14. ASSUME NEW h \in Heads, Connect(h) PROVE TypeOK'
  <2>1. PICK o \in Outputs :
          /\ space' = space \cup {o}
          /\ \/ surfaces' = [surfaces EXCEPT ![h] = o] /\ Schedule({h})
             \/ UNCHANGED <<surfaces, timers>>
    BY <1>14 DEF Connect
  <2>2. timers' \in [Heads -> 0..MaxTimers]
    BY <2>1, Scheduled DEF TypeOK
  <2>3. surfaces' \in [Heads -> Outputs \cup {NoOutput}] /\ Connected \subseteq Connected'
    BY <2>1 DEF TypeOK, Connected
  <2> QED
    BY <1>14, <2>1, <2>2, <2>3 DEF Connect, TypeOK
<1>15. ASSUME NEW h \in Heads, Disconnect(h) PROVE TypeOK'
  <2>1. flips' \in [Heads -> InFlight]
    BY <1>15, FlipsLost DEF Disconnect
  <2>2. Connected' = Connected \ {h}
    BY <1>15 DEF Disconnect, TypeOK, Connected
  <2> QED
    BY <1>15, <2>1, <2>2 DEF Disconnect, TypeOK
<1>16. ASSUME NEW f \in Frames, NEW o \in Outputs, CaptureOutput(f, o) PROVE TypeOK'
  BY <1>16 DEF CaptureOutput, TypeOK, Connected, Answered, States
<1>17. ASSUME NEW f \in Frames, Copy(f) PROVE TypeOK'
  <2>1. timers' \in [Heads -> 0..MaxTimers]
    BY <1>17, Scheduled DEF Copy, Connected
  <2> QED
    BY <1>17, <2>1 DEF Copy, TypeOK, Connected, States
<1>18. ASSUME NEW f \in Frames, Destroy(f) PROVE TypeOK'
  BY <1>18 DEF Destroy, TypeOK, Connected, None, States
<1>19. CASE UNCHANGED vars
  BY <1>19 DEF vars, TypeOK, Connected
<1> HIDE DEF Capture
<1>20. \A h \in Heads : {h} \in SUBSET Heads
  OBVIOUS
<1> QED
  BY <1>1, <1>3, <1>4, <1>5, <1>6, <1>7, <1>8, <1>9, <1>10, <1>11, <1>12, <1>13,
     <1>14, <1>15, <1>16, <1>17, <1>18, <1>19, <1>20
     DEF Next, Render, Hotplug

\* The types of Outputs: powered-off heads have a surface, no more than two
\* frames wait for a vblank, and captures are what screencopy.rs makes of them.
THEOREM TypeCorrect == Spec => []TypeOK
<1>1. ASSUME Init PROVE TypeOK
  <2>1. None \in [state : States, output : Outputs \cup {NoOutput}]
    BY DEF None, States
  <2>2. frames \in [Frames -> [state : States, output : Outputs \cup {NoOutput}]]
    BY <1>1, <2>1 DEF Init
  <2> QED
    <3>1. timers \in [Heads -> 0..MaxTimers] /\ flips \in [Heads -> InFlight]
      BY <1>1, OutputsAssumption DEF Init, InFlight
    <3>2. surfaces \in [Heads -> Outputs \cup {NoOutput}]
      BY <1>1 DEF Init
    <3> QED
      BY <1>1, <2>2, <3>1, <3>2 DEF Init, TypeOK
<1>2. TypeOK /\ [Next]_vars => TypeOK'
  BY TypeKept
<1> QED
  BY <1>1, <1>2, PTL DEF Spec

----------------------------------------------------------------------------
(* The loop *)

\* A head that was not connected is drawn again only once it was scheduled, and
\* a step that schedules it, or leaves its timers and flips alone, keeps its loop.
LEMMA LoopKept ==
  ASSUME TypeOK, [Next]_vars, NEW k \in Heads,
         Drawable(k)', Drawable(k) => Alive(k)
  PROVE  Alive(k)' \/ LoseContext(k)
<1> USE OutputsAssumption
<1>t. timers \in [Heads -> 0..MaxTimers] /\ flips \in [Heads -> InFlight]
  BY DEF TypeOK
\* Most steps leave undisturbed what can be drawn.
<1>s. ASSUME surfaces' = surfaces, off' = off, active' = active,
             timers'[k] >= timers[k], flips'[k] >= flips[k]
      PROVE  Alive(k)'
  <2>1. Alive(k)
    BY <1>s DEF Drawable, Lit, Connected
  <2>2. timers[k] \in Nat /\ flips[k] \in Nat
    BY <1>t DEF InFlight
  <2> QED
    BY <1>s, <2>1, <2>2, TypeKept DEF Alive, TypeOK, InFlight
<1>1. ASSUME NEW h \in Heads, Bail(h) PROVE Alive(k)'
  <2>1. k # h
    BY <1>1 DEF Bail, Drawable, Lit, Connected
  <2> QED
    BY <1>1, <1>s, <1>t, <2>1 DEF Bail, InFlight
<1>2. ASSUME NEW h \in Heads, Flip(h) PROVE Alive(k)'
  <2>1. CASE k = h
    BY <1>2, <1>t, <2>1 DEF Flip, Alive, InFlight
  <2>2. CASE k # h
    BY <1>2, <1>s, <1>t, <2>2 DEF Flip, Draws, InFlight
  <2> QED
    BY <2>1, <2>2
<1>3. ASSUME NEW h \in Heads, Heartbeat(h) PROVE Alive(k)'
  BY <1>3, <1>s, <1>t DEF Heartbeat, Draws, InFlight
<1>4. ASSUME NEW h \in Heads, LoseContext(h) PROVE Alive(k)' \/ LoseContext(k)
  <2>1. CASE k # h
    BY <1>4, <1>s, <1>t, <2>1 DEF LoseContext, Draws, InFlight
  <2> QED
    BY <1>4, <2>1
<1>5. ASSUME NEW h \in Heads, FrameFinish(h) PROVE Alive(k)'
  <2>1. \A g \in Heads : timers'[g] >= timers[g]
    BY <1>5, Scheduled DEF FrameFinish
  <2>2. CASE k = h
    <3>1. k \in {h} \cap Connected
      BY <1>5, <2>2 DEF FrameFinish, Drawable, Lit, Connected
    <3> QED
      BY <1>5, <3>1, Scheduled DEF FrameFinish, Alive
  <2>3. CASE k # h
    BY <1>5, <1>s, <1>t, <2>1, <2>3 DEF FrameFinish, InFlight
  <2> QED
    BY <2>2, <2>3
<1>6. CASE Driver
  BY <1>6, <1>s, <1>t DEF Driver, InFlight
<1>7. CASE Nudge
  <2>1. timers'[k] >= timers[k]
    BY <1>7, Scheduled DEF Nudge, Connected
  <2> QED
    BY <1>7, <1>s, <1>t, <2>1 DEF Nudge, InFlight
<1>8. CASE ToggleHdr
  <2>1. timers'[k] >= timers[k]
    BY <1>8, Scheduled DEF ToggleHdr, Connected
  <2> QED
    BY <1>8, <1>s, <1>t, <2>1 DEF ToggleHdr, InFlight
<1>9. ASSUME NEW targets \in SUBSET Heads, PowerOff(targets) PROVE Alive(k)'
  <2>1. PICK changed \in SUBSET (targets \cap Lit) :
          off' = off \cup changed /\ MayLoseFlips(changed)
    BY <1>9 DEF PowerOff
  <2>2. k \notin changed /\ Alive(k)
    BY <1>9, <2>1 DEF PowerOff, Drawable, Lit, Connected
  <2>3. flips'[k] = flips[k]
    BY <2>1, <2>2, FlipsLost DEF Lit
  <2> QED
    BY <1>9, <2>2, <2>3 DEF PowerOff, Alive
<1>10. ASSUME NEW targets \in SUBSET Heads, PowerOn(targets) PROVE Alive(k)'
  <2>1. CASE k \in targets \cap off
    BY <1>10, <2>1, Scheduled DEF PowerOn, Alive
  <2>2. CASE k \notin targets \cap off
    <3>1. Alive(k)
      BY <1>10, <2>2 DEF PowerOn, Drawable, Lit, Connected
    <3>2. timers'[k] = timers[k] /\ flips'[k] = flips[k]
      BY <1>10, <1>t, <2>2 DEF PowerOn, Schedule
    <3> QED
      BY <3>1, <3>2 DEF Alive
  <2> QED
    BY <2>1, <2>2
<1>11. CASE PauseSession
  BY <1>11 DEF PauseSession, Drawable
<1>12. CASE ActivateSession
  <2>1. k \in Connected
    BY <1>12 DEF ActivateSession, Drawable, Lit, Connected
  <2> QED
    BY <1>12, <2>1, Scheduled DEF ActivateSession, Connected, Alive
<1>13. ASSUME NEW h \in Heads, Connect(h) PROVE Alive(k)'
  <2>1. CASE Schedule({h}) /\ k = h
    BY <2>1, Scheduled DEF Alive
  <2>2. CASE k # h \/ UNCHANGED <<surfaces, timers>>
    <3>1. surfaces'[k] = surfaces[k]
      BY <1>13, <2>2 DEF Connect, TypeOK
    <3>2. Alive(k)
      BY <1>13, <3>1 DEF Connect, Drawable, Lit, Connected
    <3>3. timers'[k] = timers[k] /\ flips'[k] = flips[k]
      BY <1>13, <1>t, <2>2 DEF Connect, Schedule
    <3> QED
      BY <3>2, <3>3 DEF Alive
  <2> QED
    BY <1>13, <2>1, <2>2 DEF Connect
<1>14. ASSUME NEW h \in Heads, Disconnect(h) PROVE Alive(k)'
  <2>1. k # h /\ Alive(k)
    BY <1>14 DEF Disconnect, TypeOK, Drawable, Lit, Connected
  <2>2. flips'[k] = flips[k]
    BY <1>14, <2>1, FlipsLost DEF Disconnect
  <2> QED
    BY <1>14, <2>1, <2>2 DEF Disconnect, Alive
<1>15. ASSUME NEW f \in Frames, NEW o \in Outputs, CaptureOutput(f, o) PROVE Alive(k)'
  BY <1>15, <1>s, <1>t DEF CaptureOutput, InFlight
<1>16. ASSUME NEW f \in Frames, Copy(f) PROVE Alive(k)'
  <2>1. timers'[k] >= timers[k]
    BY <1>16, Scheduled DEF Copy, Connected
  <2> QED
    BY <1>16, <1>s, <1>t, <2>1 DEF Copy, InFlight
<1>17. ASSUME NEW f \in Frames, Destroy(f) PROVE Alive(k)'
  BY <1>17, <1>s, <1>t DEF Destroy, InFlight
<1>18. CASE UNCHANGED vars
  BY <1>18, <1>s, <1>t DEF vars, InFlight
<1>19. \A h \in Heads : {h} \in SUBSET Heads
  OBVIOUS
<1> QED
  BY <1>1, <1>2, <1>3, <1>4, <1>5, <1>6, <1>7, <1>8, <1>9, <1>10, <1>11, <1>12,
     <1>13, <1>14, <1>15, <1>16, <1>17, <1>18, <1>19
     DEF Next, Render, Hotplug

\* However many heads, renders and captures there are, only a lost context ends
\* the loop of a head that can be drawn, and hotplug, power and the session
\* start it again.
THEOREM LoopGoesOn == Spec => LoopEndsOnlyBy
<1>1. TypeOK /\ [Next]_vars
        => [\A h \in Heads :
              Drawable(h)' /\ (Drawable(h) => Alive(h)) => Alive(h)' \/ LoseContext(h)]_vars
  BY LoopKept
<1> QED
  BY <1>1, TypeCorrect, PTL DEF Spec, LoopEndsOnlyBy

----------------------------------------------------------------------------
(* The captures *)

\* A capture of o comes to be awaited by its copy request alone, which schedules every
\* head that has a surface.
LEMMA AwaitedSince ==
  ASSUME TypeOK, [Next]_vars, NEW f \in Frames, NEW o \in Outputs, Awaited(f, o)'
  PROVE  Awaited(f, o) \/ (Copy(f) /\ \A h \in Connected : timers'[h] > 0)
<1>1. ASSUME NEW h \in Heads, Draws(h) PROVE Awaited(f, o)
  BY <1>1 DEF Draws, Fulfilled, Awaited, Answered, None, TypeOK
<1>2. ASSUME NEW h \in Heads, Render(h) PROVE Awaited(f, o)
  BY <1>1, <1>2 DEF Render, Bail, Flip, Heartbeat, LoseContext, Awaited
<1>3. ASSUME NEW g \in Frames, NEW p \in Outputs, CaptureOutput(g, p) PROVE Awaited(f, o)
  BY <1>3 DEF CaptureOutput, Awaited, Answered, TypeOK
<1>4. ASSUME NEW g \in Frames, Destroy(g) PROVE Awaited(f, o)
  BY <1>4 DEF Destroy, Awaited, None, TypeOK
<1>5. ASSUME NEW g \in Frames, Copy(g) PROVE Awaited(f, o) \/ (g = f /\ Schedule(Connected))
  BY <1>5 DEF Copy, Awaited, TypeOK
<1>6. Copy(f) /\ Schedule(Connected) => \A h \in Connected : timers'[h] > 0
  BY Scheduled DEF Connected
<1>7. CASE frames' = frames
  BY <1>7 DEF Awaited
<1> QED
  BY <1>2, <1>3, <1>4, <1>5, <1>6, <1>7
     DEF Next, vars, Driver, Nudge, ToggleHdr, PauseSession, ActivateSession, PowerOff,
         PowerOn, FrameFinish, Hotplug, Connect, Disconnect

\* What a render of the head draws answers every capture of it.
LEMMA DrawnAnswers ==
  ASSUME TypeOK, NEW h \in Heads, NEW f \in Frames, NEW o \in Outputs,
         Draws(h), surfaces[h] = o
  PROVE  ~Awaited(f, o)'
BY DEF Draws, Fulfilled, Pending, Awaited, Answered, None, TypeOK

\* Of a head that can be drawn and has a capture awaited, a render is on its way.
AwaitedIsDrawn(h, f, o) ==
  Awaited(f, o) /\ surfaces[h] = o /\ Drawable(h) => Alive(h)

LEMMA AwaitedKept ==
  ASSUME TypeOK, [Next]_vars, NEW h \in Heads, NEW f \in Frames, NEW o \in Outputs,
         AwaitedIsDrawn(h, f, o)
  PROVE  AwaitedIsDrawn(h, f, o)'
<1> SUFFICES ASSUME Awaited(f, o)', surfaces'[h] = o, Drawable(h)' PROVE Alive(h)'
  BY DEF AwaitedIsDrawn
<1>1. CASE Drawable(h) => Alive(h)
  <2>1. LoseContext(h) => surfaces[h] = o /\ Draws(h)
    BY DEF LoseContext, Draws
  <2> QED
    BY <1>1, <2>1, LoopKept, DrawnAnswers
<1>2. CASE Drawable(h) /\ ~Alive(h)
  <2>1. h \in Connected /\ Heads # {} /\ surfaces \in [Heads -> Outputs \cup {NoOutput}]
    BY <1>2 DEF Drawable, Lit, TypeOK
  <2>2. Copy(f) => surfaces[h] = o
    BY DEF Copy
  <2>3. Awaited(f, o) => surfaces'[h] = surfaces[h]
    <3>1. ASSUME NEW g \in Heads, Connect(g) PROVE surfaces'[h] = surfaces[h]
      <4>1. g # h
        BY <2>1, <3>1 DEF Connect, Connected
      <4> QED
        BY <2>1, <3>1, <4>1 DEF Connect
    <3>2. ASSUME NEW g \in Heads, Disconnect(g) PROVE surfaces'[h] = surfaces[h]
      <4>1. g # h
        BY <2>1, <3>2, OutputsAssumption DEF Disconnect
      <4> QED
        BY <2>1, <3>2, <4>1 DEF Disconnect
    <3> QED
      BY <3>1, <3>2
         DEF Next, vars, Driver, Nudge, ToggleHdr, PauseSession, ActivateSession, PowerOff,
             PowerOn, Render, Bail, Flip, Heartbeat, LoseContext, Draws, FrameFinish, Hotplug,
             Copy, Destroy, CaptureOutput
  <2>4. Copy(f) /\ \A g \in Connected : timers'[g] > 0
    BY <1>2, <2>3, AwaitedSince DEF AwaitedIsDrawn
  <2> QED
    BY <2>1, <2>4 DEF Alive
<1> QED
  BY <1>1, <1>2

\* While a capture waits for a head, the renders that are scheduled stay, and every one
\* answers it; a vblank schedules one.
LEMMA AwaitedProgress ==
  ASSUME TypeOK, [Next]_vars, NEW h \in Heads, NEW f \in Frames, NEW o \in Outputs,
         Awaited(f, o), surfaces[h] = o, Drawable(h)
  PROVE  /\ timers[h] > 0 => timers'[h] > 0 \/ ~Awaited(f, o)'
         /\ Render(h) => ~Awaited(f, o)'
         /\ FrameFinish(h) => timers'[h] > 0
<1>1. timers \in [Heads -> 0..MaxTimers] /\ MaxTimers \in Nat
  BY OutputsAssumption DEF TypeOK
<1>2. Render(h) => Draws(h)
  BY DEF Render, Bail, Flip, Heartbeat, LoseContext, Drawable
<1>3. Render(h) => ~Awaited(f, o)'
  BY <1>2, DrawnAnswers
<1>4. h \in Connected
  BY DEF Drawable, Lit
<1>5. FrameFinish(h) => timers'[h] > 0
  BY <1>4, Scheduled DEF FrameFinish
<1>6. \A S \in SUBSET Heads : Schedule(S) => timers'[h] >= timers[h]
  BY Scheduled
<1>7. \A g \in Heads : Render(g) /\ g # h => timers'[h] = timers[h]
  BY <1>1 DEF Render, Bail, Flip, Heartbeat, LoseContext
<1>8. timers'[h] >= timers[h] \/ timers' = timers \/ Render(h) \/ \E g \in Heads : Render(g) /\ g # h
  <2>1. /\ Connected \in SUBSET Heads /\ HdrCapable \cap Connected \in SUBSET Heads
        /\ \A g \in Heads : {g} \in SUBSET Heads /\ {g} \cap Connected \in SUBSET Heads
        /\ \A targets \in {Heads} \cup {{g} : g \in Heads} : targets \cap off \in SUBSET Heads
    BY DEF Connected
  <2> QED
    BY <1>6, <2>1
       DEF Next, vars, Driver, Nudge, ToggleHdr, PauseSession, ActivateSession, PowerOff,
           PowerOn, FrameFinish, Hotplug, Connect, Disconnect, Copy, Destroy, CaptureOutput
<1>9. timers[h] > 0 => timers'[h] > 0 \/ ~Awaited(f, o)'
  <2>1. TypeOK'
    BY TypeKept
  <2>2. timers'[h] \in Nat /\ timers[h] \in Nat
    BY <1>1, <2>1 DEF TypeOK
  <2> QED
    BY <1>3, <1>7, <1>8, <2>2
<1> QED
  BY <1>3, <1>5, <1>9

\* Every capture of a head that stays drawable is answered, for any number of heads and
\* captures, if the timers that are due fire and a flip has its vblank: also where the
\* loop of the head had ended before the client asked.
THEOREM CapturesGetAnswers == Spec => CapturesAnswered
<1> SUFFICES ASSUME NEW f \in Frames, NEW o \in Outputs, NEW h \in Heads
             PROVE  Spec => (Awaited(f, o) /\ surfaces[h] = o /\ Drawable(h)
                               ~> ~Awaited(f, o) \/ surfaces[h] # o \/ ~Drawable(h))
  BY DEF CapturesAnswered
<1> DEFINE Waits == Awaited(f, o) /\ surfaces[h] = o /\ Drawable(h)
           Due == timers[h] > 0
<1>1. Init => AwaitedIsDrawn(h, f, o)
  BY DEF Init, AwaitedIsDrawn, Awaited, None
<1>2. TypeOK /\ [Next]_vars /\ AwaitedIsDrawn(h, f, o) => AwaitedIsDrawn(h, f, o)'
  BY AwaitedKept
<1>3. TypeOK /\ Waits /\ [Next]_vars =>
        /\ Due => Due' \/ ~Waits'
        /\ <<Render(h)>>_vars => ~Waits'
        /\ <<FrameFinish(h)>>_vars => Due'
  BY AwaitedProgress
<1>4. TypeOK /\ Waits /\ AwaitedIsDrawn(h, f, o) =>
        /\ Due => ~(timers[h] = 0)
        /\ ~Due => ~(flips[h] = 0) /\ ~(timers[h] = MaxTimers)
  BY OutputsAssumption DEF TypeOK, AwaitedIsDrawn, Alive, InFlight
<1>5. surfaces[h] # o <=> ~(surfaces[h] = o)
  OBVIOUS
<1>6. Spec => Init /\ [][Next]_vars /\ Fairness(h)
  BY DEF Spec
<1> HIDE DEF Due
<1> QED
  BY <1>1, <1>2, <1>3, <1>4, <1>5, <1>6, TypeCorrect, PTL DEF Fairness
=============================================================================
