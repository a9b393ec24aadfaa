--------------------------- MODULE Power_proofs ----------------------------
(***************************************************************************)
(* Proofs about Power.  The control objects are right whatever the heads   *)
(* do; the idle timer is one clock wherever heads that refuse to go off    *)
(* refuse together, as they do while the session is switched away.  The    *)
(* watch over lit heads is kept whatever they refuse.                      *)
(***************************************************************************)
EXTENDS Power, TLAPS

\* Either every head goes off when told to, or none does.
AllOrNone == \A refusing \in Refusals : refusing = {} \/ Heads \subseteq refusing

\* A head has one control object and an object controls one head.
OneControl ==
  \A h, g \in DOMAIN output_power : output_power[h] = output_power[g] => h = g

\* The invariant of the control objects.
ControlsOK ==
  /\ heads \subseteq Heads /\ off \subseteq heads
  /\ DOMAIN output_power \subseteq heads
  /\ DOMAIN told \subseteq Controls
  /\ OneControl
  /\ ModeIsTold

\* The idle timer, its entries and what it has counted.
IdleRecord ==
  [elapsed : Nat, timers : UNION {[S -> Nat] : S \in SUBSET Tokens},
   idle_timer : Tokens \cup {NoToken}]

\* No timer but the one idle_timer names.
NoStray(i) == DOMAIN i.timers \subseteq {i.idle_timer}

\* The invariant of the clock.
ClockOK ==
  /\ timeout \in Timeouts /\ idle \in IdleRecord /\ OneClock
  /\ idle.idle_timer # NoToken => timeout > 0

----------------------------------------------------------------------------
(* The control objects *)

\* set_screen_power tells the object of every head it changes, and only that.
LEMMA PoweredTells ==
  ASSUME ControlsOK, NEW i, NEW on, NEW targets \in SUBSET heads, NEW refusing,
         NEW p, p = Powered(i, on, targets, refusing)
  PROVE  /\ p.off \subseteq heads
         /\ DOMAIN p.told = DOMAIN told
         /\ \A h \in DOMAIN output_power : p.told[output_power[h]] = Mode(h, p.off)
<1> DEFINE changed == IF on THEN targets \cap off ELSE (targets \ off) \ refusing
           dark == IF on THEN off \ changed ELSE off \cup changed
<1>1. p.off = dark /\ p.told = Notified(changed, dark)
  BY DEF Powered
<1>2. dark \subseteq heads
  BY DEF ControlsOK
<1>3. \A h : h \notin changed => Mode(h, dark) = Mode(h, off)
  BY DEF Mode
<1> HIDE DEF changed, dark
<1>4. DOMAIN Notified(changed, dark) = DOMAIN told
  BY DEF Notified
<1>5. ASSUME NEW h \in DOMAIN output_power
      PROVE  Notified(changed, dark)[output_power[h]] = Mode(h, dark)
  <2> DEFINE c == output_power[h]
  <2>1. c \in DOMAIN told /\ told[c] = Mode(h, off)
    BY DEF ControlsOK, ModeIsTold
  <2>2. \A g \in DOMAIN output_power : output_power[g] = c => g = h
    BY DEF ControlsOK, OneControl
  <2>3. (CHOOSE g \in DOMAIN output_power : output_power[g] = c) = h
    BY <2>2
  <2>4. (\E g \in changed \cap DOMAIN output_power : output_power[g] = c) <=> h \in changed
    BY <2>2
  <2>5. Notified(changed, dark)[c] = IF h \in changed THEN Mode(h, dark) ELSE told[c]
    BY <2>1, <2>3, <2>4 DEF Notified
  <2> QED BY <2>1, <2>5, <1>3
<1> QED BY <1>1, <1>2, <1>4, <1>5

\* So a step whose power and messages are set_screen_power's keeps ControlsOK.
LEMMA PoweringKeepsControls ==
  ASSUME ControlsOK, NEW i, NEW on, NEW targets \in SUBSET heads, NEW refusing,
         NEW p, p = Powered(i, on, targets, refusing), off' = p.off, told' = p.told,
         UNCHANGED <<heads, output_power>>
  PROVE  ControlsOK'
<1>0. /\ p.off \subseteq heads /\ DOMAIN p.told = DOMAIN told
      /\ \A h \in DOMAIN output_power : p.told[output_power[h]] = Mode(h, p.off)
  BY PoweredTells
<1>1. /\ off' \subseteq heads /\ DOMAIN told' = DOMAIN told
      /\ \A h \in DOMAIN output_power : told'[output_power[h]] = Mode(h, off')
  BY <1>0 DEF Mode
<1>2. \A h \in DOMAIN output_power : output_power[h] \in DOMAIN told
  BY DEF ControlsOK, ModeIsTold
<1>3. ModeIsTold'
  BY <1>1, <1>2 DEF ModeIsTold
<1> QED BY <1>1, <1>3 DEF ControlsOK, OneControl

\* Every step keeps the control objects right: one case per action that
\* touches power, heads or objects.
LEMMA StepKeepsControls ==
  ASSUME ControlsOK, [Next]_vars
  PROVE  ControlsOK'
<1>0. CASE UNCHANGED <<heads, off, output_power, told>>
  BY <1>0 DEF ControlsOK, OneControl, ModeIsTold
<1>1. CASE Input
  BY <1>1, <1>0, PoweringKeepsControls DEF Input
<1>2. ASSUME NEW on \in BOOLEAN, NEW targets \in {heads} \cup {{h} : h \in heads}, Ipc(on, targets)
      PROVE  ControlsOK'
  BY <1>2, PoweringKeepsControls DEF Ipc, SetScreenPower
<1>3. ASSUME NEW t \in Tokens, Fire(t)
      PROVE  ControlsOK'
  <2> DEFINE i == [idle EXCEPT !.timers = Without(@, {t})]
  <2>1. UNCHANGED <<heads, output_power>>
    BY <1>3 DEF Fire
  <2>2. CASE ~AllOff(heads, off) /\ ~Inhibited
    <3>1. PICK refusing \in Refusing : /\ off' = Powered(i, FALSE, heads, refusing).off
                                      /\ told' = Powered(i, FALSE, heads, refusing).told
      BY <1>3, <2>2 DEF Fire
    <3> HIDE DEF i
    <3> QED BY <2>1, <3>1, PoweringKeepsControls
  <2>3. CASE AllOff(heads, off) \/ Inhibited
    BY <1>0, <1>3, <2>1, <2>3 DEF Fire
  <2> QED BY <2>2, <2>3
<1>4. ASSUME NEW h \in Heads, Connect(h)
      PROVE  ControlsOK'
  BY <1>4 DEF Connect, ControlsOK, OneControl, ModeIsTold
<1>5. ASSUME NEW h \in Heads, Disconnect(h)
      PROVE  ControlsOK'
  <2>1. /\ heads' = heads \ {h} /\ off' = off \ {h}
        /\ output_power' = [g \in DOMAIN output_power \ {h} |-> output_power[g]]
        /\ \/ told' = told
           \/ /\ h \in DOMAIN output_power
              /\ told' = With(told, output_power[h], "Failed")
    BY <1>5 DEF Disconnect, Without
  <2>2. ASSUME NEW g \in DOMAIN output_power'
        PROVE  output_power'[g] \in DOMAIN told' /\ told'[output_power'[g]] = Mode(g, off')
    <3>1. g # h /\ g \in DOMAIN output_power /\ output_power'[g] = output_power[g]
      BY <2>1, <2>2
    <3>2. output_power[g] \in DOMAIN told /\ told[output_power[g]] = Mode(g, off)
      BY <3>1 DEF ControlsOK, ModeIsTold
    <3>3. h \in DOMAIN output_power => output_power[g] # output_power[h]
      BY <3>1 DEF ControlsOK, OneControl
    <3>4. Mode(g, off') = Mode(g, off)
      BY <2>1, <3>1 DEF Mode
    <3>5. CASE told' = told
      BY <3>1, <3>2, <3>4, <3>5
    <3>6. CASE h \in DOMAIN output_power /\ told' = With(told, output_power[h], "Failed")
      BY <3>1, <3>2, <3>3, <3>4, <3>6 DEF With
    <3> QED BY <2>1, <3>5, <3>6
  <2>3. DOMAIN told' \subseteq Controls
    <3>1. h \in DOMAIN output_power => output_power[h] \in DOMAIN told
      BY DEF ControlsOK, ModeIsTold
    <3> QED BY <2>1, <3>1 DEF ControlsOK, With
  <2> QED BY <2>1, <2>2, <2>3 DEF ControlsOK, OneControl, ModeIsTold
<1>6. ASSUME NEW h \in Heads, NEW on \in BOOLEAN, SetMode(h, on)
      PROVE  ControlsOK'
  BY <1>6, PoweringKeepsControls DEF SetMode, SetScreenPower
<1>7. ASSUME NEW h \in Heads, NEW c \in Controls, GetOutputPower(c, h)
      PROVE  ControlsOK'
  <2>1. \A g \in DOMAIN output_power : output_power[g] \in DOMAIN told /\ output_power[g] # c
    BY <1>7 DEF GetOutputPower, ControlsOK, ModeIsTold
  <2> QED BY <1>7, <2>1 DEF GetOutputPower, With, ControlsOK, OneControl, ModeIsTold
<1>8. ASSUME NEW c \in Controls, DestroyControl(c)
      PROVE  ControlsOK'
  BY <1>8 DEF DestroyControl, Without, ControlsOK, OneControl, ModeIsTold
<1>9. CASE Tick \/ PauseSession \/ ActivateSession
  BY <1>9, <1>0 DEF Tick, PauseSession, ActivateSession
<1>10. ASSUME NEW s \in Surfaces, Inhibit(s) \/ Uninhibit(s)
       PROVE  ControlsOK'
  BY <1>10, <1>0 DEF Inhibit, Uninhibit
<1>11. ASSUME NEW limit \in Timeouts, Reload(limit)
       PROVE  ControlsOK'
  BY <1>11, <1>0 DEF Reload
<1>12. CASE UNCHANGED vars
  BY <1>12, <1>0 DEF vars
<1> QED
  BY <1>1, <1>2, <1>3, <1>4, <1>5, <1>6, <1>7, <1>8, <1>9, <1>10, <1>11, <1>12 DEF Next, Idling

\* The control objects of heads are right in every reachable state.
THEOREM ControlsAreRight == Spec => []ControlsOK
<1>1. Init => ControlsOK
  BY DEF Init, Nothing, ControlsOK, OneControl, ModeIsTold
<1>2. ControlsOK /\ [Next]_vars => ControlsOK'
  BY StepKeepsControls
<1> QED BY <1>1, <1>2, PTL DEF Spec

\* Every control object knows the power of its head, whoever changed it and
\* whatever refused (output_power.rs).
THEOREM ModeAlwaysTold == Spec => []ModeIsTold
<1>1. ControlsOK => ModeIsTold
  BY DEF ControlsOK
<1> QED BY <1>1, ControlsAreRight, PTL

----------------------------------------------------------------------------
(* The clock *)

\* An idle record is its three fields.
LEMMA IdleFields ==
  ASSUME NEW i \in IdleRecord
  PROVE  /\ i.elapsed \in Nat
         /\ DOMAIN i.timers \subseteq Tokens
         /\ i.timers = [t \in DOMAIN i.timers |-> i.timers[t]]
         /\ \A t \in DOMAIN i.timers : i.timers[t] \in Nat
         /\ i.idle_timer \in Tokens \cup {NoToken}
BY DEF IdleRecord

\* Cancelling leaves no timer, where there was no stray one.
LEMMA CancelledClock ==
  ASSUME NEW i \in IdleRecord, NoStray(i)
  PROVE  /\ Cancelled(i) \in IdleRecord
         /\ DOMAIN Cancelled(i).timers = {}
         /\ Cancelled(i).idle_timer = NoToken
         /\ Cancelled(i).elapsed = i.elapsed
<1>1. Cancelled(i) = [elapsed |-> i.elapsed,
                      timers |-> Without(i.timers, {i.idle_timer}),
                      idle_timer |-> NoToken]
  BY DEF Cancelled
<1>2. DOMAIN i.timers \ {i.idle_timer} = {}
  BY DEF NoStray
<1>3. Without(i.timers, {i.idle_timer}) \in [{} -> Nat]
  BY <1>2 DEF Without
<1>4. Without(i.timers, {i.idle_timer}) \in UNION {[S -> Nat] : S \in SUBSET Tokens}
  BY <1>3
<1> QED BY <1>1, <1>3, <1>4, IdleFields DEF IdleRecord

\* rearm_idle_timer: afterwards there is a timer exactly where one is due, and
\* it is on time.
LEMMA RearmedClock ==
  ASSUME NEW i \in IdleRecord, NoStray(i), NEW dark, NEW inhibited, NEW limit \in Nat,
         NEW r, r = Rearmed(i, dark, inhibited, limit)
  PROVE  /\ r \in IdleRecord
         /\ OnTime(r, limit)
         /\ r.elapsed = i.elapsed
         /\ r.idle_timer # NoToken <=> ~(dark \/ inhibited \/ limit = 0)
<1> DEFINE c == Cancelled(i)
           t == CHOOSE t \in Tokens : t \notin DOMAIN c.timers
           delay == IF c.elapsed < limit THEN limit - c.elapsed ELSE 0
<1>1. /\ c \in IdleRecord /\ DOMAIN c.timers = {}
      /\ c.idle_timer = NoToken /\ c.elapsed = i.elapsed
  BY CancelledClock
<1>2. r = IF dark \/ inhibited \/ limit = 0
          THEN c ELSE [elapsed |-> c.elapsed, timers |-> With(c.timers, t, delay), idle_timer |-> t]
  BY DEF Rearmed
<1>3. 1 \in Tokens
  BY PowerAssumption DEF Tokens
<1>4. t \in Tokens
  BY <1>1, <1>3
<1>5. NoToken \notin Tokens
  BY DEF NoToken, Tokens
<1>7. delay = IF i.elapsed < limit THEN limit - i.elapsed ELSE 0
  BY <1>1
<1> HIDE DEF c, t, delay
<1>6. i.elapsed \in Nat /\ delay \in Nat
  <2>1. i.elapsed \in Nat
    BY DEF IdleRecord
  <2> QED BY <1>7, <2>1
<1>8. CASE dark \/ inhibited \/ limit = 0
  BY <1>1, <1>2, <1>8 DEF OnTime
<1>9. CASE ~(dark \/ inhibited \/ limit = 0)
  <2>2. r = [elapsed |-> c.elapsed, timers |-> With(c.timers, t, delay), idle_timer |-> t]
    BY <1>2, <1>9
  <2>3. With(c.timers, t, delay) = [z \in {t} |-> delay]
    BY <1>1 DEF With
  <2>4. With(c.timers, t, delay) \in [{t} -> Nat]
    BY <1>6, <2>3
  <2>5. With(c.timers, t, delay) \in UNION {[S -> Nat] : S \in SUBSET Tokens}
    BY <1>4, <2>4
  <2>6. r \in IdleRecord
    BY <1>1, <1>4, <1>6, <2>2, <2>5 DEF IdleRecord
  <2>7. OnTime(r, limit)
    BY <1>1, <1>4, <1>5, <1>7, <2>2, <2>3 DEF OnTime
  <2> QED BY <1>1, <1>4, <1>5, <1>9, <2>2, <2>6, <2>7
<1> QED BY <1>8, <1>9

\* Activity moves nothing but the clock.
LEMMA ActiveClock ==
  ASSUME NEW i \in IdleRecord, NoStray(i)
  PROVE  /\ Active(i) \in IdleRecord /\ NoStray(Active(i)) /\ Active(i).elapsed = 0
BY DEF Active, IdleRecord, NoStray

\* set_screen_power keeps the clock on time.
LEMMA PoweredClock ==
  ASSUME NEW i \in IdleRecord, OnTime(i, timeout), timeout \in Timeouts,
         i.idle_timer # NoToken => timeout > 0,
         NEW on, NEW targets, NEW refusing, NEW p, p = Powered(i, on, targets, refusing)
  PROVE  /\ p.idle \in IdleRecord
         /\ OnTime(p.idle, timeout)
         /\ p.idle.idle_timer # NoToken => timeout > 0
<1> DEFINE changed == IF on THEN targets \cap off ELSE (targets \ off) \ refusing
           dark == IF on THEN off \ changed ELSE off \cup changed
           j == IF on THEN Active(i) ELSE i
<1>1. p.idle = IF changed = {} THEN i ELSE Rearmed(j, AllOff(heads, dark), Inhibited, timeout)
  BY DEF Powered
<1>2. NoStray(i)
  BY DEF OnTime, NoStray
<1>3. j \in IdleRecord /\ NoStray(j)
  BY <1>2, ActiveClock
<1>4. timeout \in Nat
  BY PowerAssumption DEF Timeouts
<1> HIDE DEF changed, dark, j
<1>5. CASE changed = {}
  BY <1>1, <1>5
<1>6. CASE changed # {}
  BY <1>1, <1>3, <1>4, <1>6, RearmedClock
<1> QED BY <1>5, <1>6

\* The head of a callback: the timer that fired is gone, and with it every one.
LEMMA FiredClock ==
  ASSUME NEW i \in IdleRecord, NoStray(i), NEW t \in DOMAIN i.timers,
         NEW j, j = [i EXCEPT !.timers = Without(@, {t})]
  PROVE  /\ j \in IdleRecord /\ NoStray(j) /\ DOMAIN j.timers = {}
         /\ j.elapsed = i.elapsed
<1>1. i = [elapsed |-> i.elapsed, timers |-> i.timers, idle_timer |-> i.idle_timer]
  BY DEF IdleRecord
<1>2. j = [elapsed |-> i.elapsed, timers |-> Without(i.timers, {t}), idle_timer |-> i.idle_timer]
  BY <1>1
<1>3. DOMAIN i.timers \ {t} = {}
  BY DEF NoStray
<1>4. Without(i.timers, {t}) \in [{} -> Nat]
  BY <1>3 DEF Without
<1>5. Without(i.timers, {t}) \in UNION {[S -> Nat] : S \in SUBSET Tokens}
  BY <1>4
<1>6. DOMAIN j.timers = {}
  BY <1>2, <1>4
<1>7. j \in IdleRecord
  BY <1>2, <1>5, IdleFields DEF IdleRecord
<1> QED BY <1>2, <1>6, <1>7 DEF NoStray

\* A callback that forgets idle_timer where no timer is left.
LEMMA ForgottenClock ==
  ASSUME NEW i \in IdleRecord, DOMAIN i.timers = {},
         NEW k, k = [i EXCEPT !.idle_timer = NoToken], NEW limit
  PROVE  /\ k \in IdleRecord /\ OnTime(k, limit) /\ k.idle_timer = NoToken
         /\ k.elapsed = i.elapsed
<1>1. k = [elapsed |-> i.elapsed, timers |-> i.timers, idle_timer |-> NoToken]
  BY DEF IdleRecord
<1> QED BY <1>1 DEF IdleRecord, OnTime

\* The callback of the idle timer leaves no timer: either all heads went off,
\* or none did and nothing was re-armed.
LEMMA FireKeepsClock ==
  ASSUME AllOrNone, ControlsOK, ClockOK, NEW t \in Tokens, Fire(t)
  PROVE  ClockOK'
<1> DEFINE i == [idle EXCEPT !.timers = Without(@, {t})]
<1>1. idle \in IdleRecord /\ NoStray(idle) /\ t \in DOMAIN idle.timers /\ timeout' = timeout
  BY DEF ClockOK, OneClock, OnTime, NoStray, Fire
<1>2. i \in IdleRecord /\ NoStray(i) /\ DOMAIN i.timers = {}
  BY <1>1, FiredClock
<1>3. CASE ~AllOff(heads, off) /\ ~Inhibited
  <2>1. PICK refusing \in Refusing :
          idle' = [Powered(i, FALSE, heads, refusing).idle EXCEPT !.idle_timer = NoToken]
    BY <1>3 DEF Fire
  <2> DEFINE changed == (heads \ off) \ refusing
             p == Powered(i, FALSE, heads, refusing).idle
  <2>2. p = IF changed = {} THEN i
            ELSE Rearmed(i, AllOff(heads, off \cup changed), Inhibited, timeout)
    BY DEF Powered
  <2>3. refusing = {} \/ Heads \subseteq refusing
    BY DEF Refusing, AllOrNone
  <2>4. changed # {} => AllOff(heads, off \cup changed)
    BY <2>3 DEF ControlsOK, AllOff
  <2>5. changed # {} => p = Cancelled(i)
    BY <2>2, <2>4 DEF Rearmed
  <2> HIDE DEF i, changed
  <2>6. p \in IdleRecord /\ DOMAIN p.timers = {}
    BY <1>2, <2>2, <2>5, CancelledClock
  <2> HIDE DEF p
  <2>7. idle' = [p EXCEPT !.idle_timer = NoToken]
    BY <2>1 DEF p
  <2> QED BY <1>1, <2>6, <2>7, ForgottenClock DEF ClockOK, OneClock
<1>4. CASE AllOff(heads, off) \/ Inhibited
  <2>1. idle' = [i EXCEPT !.idle_timer = NoToken]
    BY <1>4 DEF Fire
  <2> HIDE DEF i
  <2> QED BY <1>1, <1>2, <2>1, ForgottenClock DEF ClockOK, OneClock
<1> QED BY <1>3, <1>4

\* A tick takes from the timer what it adds to the elapsed time.
LEMMA TickKeepsClock ==
  ASSUME ClockOK, Tick
  PROVE  ClockOK'
<1> DEFINE later == IF idle.elapsed < MaxTimeout THEN idle.elapsed + 1 ELSE idle.elapsed
           left == [t \in DOMAIN idle.timers |-> idle.timers[t] - 1]
<1>1. /\ idle \in IdleRecord /\ timeout \in Nat /\ timeout <= MaxTimeout /\ MaxTimeout \in Nat
      /\ timeout' = timeout
      /\ DOMAIN idle.timers = {idle.idle_timer} \ {NoToken}
      /\ \A t \in DOMAIN idle.timers :
           idle.timers[t] = IF idle.elapsed < timeout THEN timeout - idle.elapsed ELSE 0
  BY PowerAssumption DEF ClockOK, OneClock, OnTime, Tick, Timeouts
<1>2. idle = [elapsed |-> idle.elapsed, timers |-> idle.timers, idle_timer |-> idle.idle_timer]
  BY <1>1 DEF IdleRecord
<1>3. idle' = [elapsed |-> later, timers |-> left, idle_timer |-> idle.idle_timer]
  BY <1>2 DEF Tick
<1>4. idle.elapsed \in Nat /\ later \in Nat
  <2>1. idle.elapsed \in Nat
    BY <1>1 DEF IdleRecord
  <2> QED BY <2>1
<1>5. ASSUME NEW t \in DOMAIN idle.timers
      PROVE  /\ left[t] \in Nat
             /\ left[t] = IF later < timeout THEN timeout - later ELSE 0
  <2>1. idle.timers[t] > 0
    BY <1>5 DEF Tick
  <2>2. idle.timers[t] = timeout - idle.elapsed /\ idle.elapsed < timeout
    BY <1>1, <1>4, <2>1
  <2>3. later = idle.elapsed + 1
    BY <1>1, <1>4, <2>2
  <2>4. left[t] = timeout - idle.elapsed - 1
    BY <2>2
  <2> QED BY <1>1, <1>4, <2>2, <2>3, <2>4
<1>6. DOMAIN left = DOMAIN idle.timers /\ DOMAIN left \subseteq Tokens
  BY <1>1, IdleFields
<1> HIDE DEF later
<1>7. left \in [DOMAIN left -> Nat]
  BY <1>5, <1>6
<1> HIDE DEF left
<1>8. left \in UNION {[S -> Nat] : S \in SUBSET Tokens}
  BY <1>6, <1>7
<1>9. idle' \in IdleRecord
  BY <1>1, <1>3, <1>4, <1>8, IdleFields DEF IdleRecord
<1>10. idle'.elapsed = later /\ idle'.timers = left /\ idle'.idle_timer = idle.idle_timer
  BY <1>3
<1>11. OnTime(idle', timeout')
  BY <1>1, <1>5, <1>6, <1>10 DEF OnTime
<1> QED BY <1>1, <1>9, <1>10, <1>11 DEF ClockOK, OneClock

\* Taking an inhibitor stops the clock, giving back the last one starts it.
LEMMA SyncKeepsClock ==
  ASSUME ClockOK, NEW now, SyncIdleInhibited(now), timeout' = timeout
  PROVE  ClockOK'
<1>1. idle \in IdleRecord /\ NoStray(idle) /\ timeout \in Nat
  BY PowerAssumption DEF ClockOK, OneClock, OnTime, NoStray, Timeouts
<1>2. CASE idle' = idle
  BY <1>2 DEF ClockOK, OneClock
<1>3. CASE idle' = Cancelled(idle)
  BY <1>1, <1>3, CancelledClock DEF ClockOK, OneClock, OnTime
<1>4. CASE idle' = Rearmed(Active(idle), AllOff(heads, off), FALSE, timeout)
  <2> DEFINE dark == AllOff(heads, off)
             held == FALSE
  <2>1. Active(idle) \in IdleRecord /\ NoStray(Active(idle))
    BY <1>1, ActiveClock
  <2>2. idle' = Rearmed(Active(idle), dark, held, timeout)
    BY <1>4
  <2> HIDE DEF dark, held
  <2>3. /\ idle' \in IdleRecord /\ OnTime(idle', timeout)
        /\ idle'.idle_timer # NoToken => timeout # 0
    BY <1>1, <2>1, <2>2, RearmedClock
  <2> QED BY <1>1, <2>3 DEF ClockOK, OneClock
<1> QED BY <1>2, <1>3, <1>4 DEF SyncIdleInhibited

\* Input: activity re-arms the timer, and a wake re-arms it again.
LEMMA InputKeepsClock ==
  ASSUME ClockOK, Input
  PROVE  ClockOK'
<1> DEFINE i == Rearmed(Active(idle), AllOff(heads, off), Inhibited, timeout)
<1>1. idle \in IdleRecord /\ NoStray(idle) /\ timeout \in Nat /\ timeout' = timeout
  BY PowerAssumption DEF ClockOK, OneClock, OnTime, NoStray, Timeouts, Input
<1>2. Active(idle) \in IdleRecord /\ NoStray(Active(idle))
  BY <1>1, ActiveClock
<1>3. i \in IdleRecord /\ OnTime(i, timeout) /\ (i.idle_timer # NoToken => timeout > 0)
  BY <1>1, <1>2, RearmedClock
<1>4. idle' = i \/ idle' = Powered(i, TRUE, heads, {}).idle
  BY DEF Input
<1> HIDE DEF i
<1>5. CASE idle' = i
  BY <1>1, <1>3, <1>5 DEF ClockOK, OneClock
<1>6. CASE idle' = Powered(i, TRUE, heads, {}).idle
  BY <1>1, <1>3, <1>6, PoweredClock DEF ClockOK, OneClock
<1> QED BY <1>4, <1>5, <1>6

\* Every step keeps the clock: one case per action that touches it.
LEMMA StepKeepsClock ==
  ASSUME AllOrNone, ControlsOK, ClockOK, [Next]_vars
  PROVE  ClockOK'
<1>0. CASE UNCHANGED <<timeout, idle>>
  BY <1>0 DEF ClockOK, OneClock
<1>1. /\ idle \in IdleRecord /\ NoStray(idle) /\ timeout \in Nat
      /\ OnTime(idle, timeout) /\ timeout \in Timeouts
      /\ idle.idle_timer # NoToken => timeout > 0
  BY PowerAssumption DEF ClockOK, OneClock, OnTime, NoStray, Timeouts
<1>2. CASE Input
  BY <1>2, InputKeepsClock
<1>3. ASSUME NEW on \in BOOLEAN, NEW targets, SetScreenPower(on, targets), timeout' = timeout
      PROVE  ClockOK'
  BY <1>1, <1>3, PoweredClock DEF SetScreenPower, ClockOK, OneClock
<1>4. ASSUME NEW on \in BOOLEAN, NEW targets, Ipc(on, targets)
      PROVE  ClockOK'
  BY <1>3, <1>4 DEF Ipc
<1>5. ASSUME NEW on \in BOOLEAN, NEW h \in Heads, SetMode(h, on)
      PROVE  ClockOK'
  BY <1>3, <1>5 DEF SetMode
<1>6. ASSUME NEW t \in Tokens, Fire(t)
      PROVE  ClockOK'
  BY <1>6, FireKeepsClock
<1>7. CASE Tick
  BY <1>7, TickKeepsClock
<1>8. ASSUME NEW s \in Surfaces, Inhibit(s) \/ Uninhibit(s)
      PROVE  ClockOK'
  BY <1>8, SyncKeepsClock DEF Inhibit, Uninhibit
<1>9. ASSUME NEW limit \in Timeouts, Reload(limit)
      PROVE  ClockOK'
  <2>1. limit \in Nat /\ timeout' = limit
    BY <1>9, PowerAssumption DEF Timeouts, Reload
  <2>2. idle' = Rearmed(idle, AllOff(heads, off), Inhibited, limit)
    BY <1>9 DEF Reload
  <2>3. idle' \in IdleRecord /\ OnTime(idle', limit) /\ (idle'.idle_timer # NoToken => limit > 0)
    BY <1>1, <2>1, <2>2, RearmedClock
  <2> QED BY <1>9, <2>1, <2>3 DEF ClockOK, OneClock
<1>10. ASSUME NEW h \in Heads, Connect(h) \/ Disconnect(h)
       PROVE  ClockOK'
  BY <1>0, <1>10 DEF Connect, Disconnect
<1>11. ASSUME NEW c \in Controls, DestroyControl(c) \/ \E h \in Heads : GetOutputPower(c, h)
       PROVE  ClockOK'
  BY <1>0, <1>11 DEF DestroyControl, GetOutputPower
<1>12. CASE PauseSession \/ ActivateSession \/ UNCHANGED vars
  BY <1>0, <1>12 DEF PauseSession, ActivateSession, vars
<1> QED
  BY <1>2, <1>4, <1>5, <1>6, <1>7, <1>8, <1>9, <1>10, <1>11, <1>12 DEF Next, Idling

----------------------------------------------------------------------------

\* The timer is armed when the compositor starts.
LEMMA InitClock ==
  ASSUME Init
  PROVE  ClockOK
<1> DEFINE i == [elapsed |-> 0, timers |-> Nothing, idle_timer |-> NoToken]
<1>1. i \in IdleRecord /\ NoStray(i)
  <2>1. Nothing \in [{} -> Nat] /\ {} \in SUBSET Tokens
    BY DEF Nothing
  <2>2. Nothing \in UNION {[S -> Nat] : S \in SUBSET Tokens}
    BY <2>1
  <2> QED BY <2>1, <2>2 DEF IdleRecord, NoStray
<1> DEFINE none == FALSE
<1>2. timeout \in Timeouts /\ timeout \in Nat /\ idle = Rearmed(i, none, none, timeout)
  BY PowerAssumption DEF Init, Timeouts
<1> HIDE DEF i, none
<1>3. /\ idle \in IdleRecord /\ OnTime(idle, timeout)
      /\ idle.idle_timer # NoToken => timeout # 0
  BY <1>1, <1>2, RearmedClock
<1> QED BY <1>2, <1>3 DEF ClockOK, OneClock

\* Where heads refuse together or not at all, there is one timer at most, the
\* one that can be cancelled, and it counts from the last activity.
THEOREM TimerIsOneClock ==
  ASSUME AllOrNone
  PROVE  Spec => []OneClock
<1>1. Init => ClockOK
  BY InitClock
<1>2. ControlsOK /\ ClockOK /\ [Next]_vars => ClockOK'
  BY StepKeepsClock
<1>3. ClockOK => OneClock
  BY DEF ClockOK
<1> QED BY <1>1, <1>2, <1>3, ControlsAreRight, PTL DEF Spec

\* And the timer blanks nothing before the whole timeout has passed since the
\* last activity, nor while an inhibitor is held.
THEOREM TimerBlanksWhenIdle ==
  ASSUME AllOrNone
  PROVE  Spec => BlanksWhenIdle
<1> DEFINE Idle == ~Inhibited /\ timeout > 0 /\ idle.elapsed >= timeout
           OnlyIdle == (\E t \in Tokens : Fire(t)) /\ off' # off => Idle
<1>1. Init => ClockOK
  BY InitClock
<1>2. ControlsOK /\ ClockOK /\ [Next]_vars => ClockOK'
  BY StepKeepsClock
<1>3. ClockOK => OnlyIdle
  <2> SUFFICES ASSUME ClockOK, NEW t \in Tokens, Fire(t), off' # off
               PROVE  Idle
    OBVIOUS
  <2>1. ~Inhibited /\ t \in DOMAIN idle.timers /\ idle.timers[t] = 0
    BY DEF Fire
  <2>2. t = idle.idle_timer /\ idle.idle_timer # NoToken
    BY <2>1 DEF ClockOK, OneClock, OnTime
  <2>3. idle.timers[t] = IF idle.elapsed < timeout THEN timeout - idle.elapsed ELSE 0
    BY <2>1 DEF ClockOK, OneClock, OnTime
  <2>4. idle.elapsed \in Nat /\ timeout \in Nat /\ timeout > 0
    BY <2>2, PowerAssumption DEF ClockOK, IdleRecord, Timeouts
  <2> QED BY <2>1, <2>3, <2>4
<1> QED BY <1>1, <1>2, <1>3, ControlsAreRight, PTL DEF Spec, BlanksWhenIdle
----------------------------------------------------------------------------
(* Types *)

\* An idle record that counts within its bound, with timers of its own tokens.
Typed(i) ==
  /\ i = [elapsed |-> i.elapsed, timers |-> i.timers, idle_timer |-> i.idle_timer]
  /\ i.elapsed \in 0..MaxTimeout
  /\ DOMAIN i.timers \subseteq Tokens
  /\ \A t \in DOMAIN i.timers : i.timers[t] \in 0..MaxTimeout
  /\ i.idle_timer \in Tokens \cup {NoToken}

\* A token is free besides the one that would be cancelled.
HasRoom(i) == DOMAIN i.timers \ {i.idle_timer} # Tokens

\* Arming takes a free token and delays no longer than the timeout; and there
\* is room to arm again.
LEMMA RearmedTyped ==
  ASSUME NEW i, Typed(i), HasRoom(i), NEW dark, NEW inhibited, NEW limit \in Timeouts
  PROVE  Typed(Rearmed(i, dark, inhibited, limit)) /\ HasRoom(Rearmed(i, dark, inhibited, limit))
<1> DEFINE c == Cancelled(i)
           t == CHOOSE t \in Tokens : t \notin DOMAIN c.timers
           delay == IF c.elapsed < limit THEN limit - c.elapsed ELSE 0
           armed == [elapsed |-> c.elapsed, timers |-> With(c.timers, t, delay), idle_timer |-> t]
<1>1. /\ c = [elapsed |-> i.elapsed, timers |-> Without(i.timers, {i.idle_timer}),
              idle_timer |-> NoToken]
      /\ DOMAIN c.timers = DOMAIN i.timers \ {i.idle_timer}
      /\ \A u \in DOMAIN c.timers : c.timers[u] = i.timers[u]
  BY DEF Cancelled, Without
<1>2. NoToken \notin Tokens
  BY DEF NoToken, Tokens
<1>3. Typed(c) /\ HasRoom(c)
  BY <1>1, <1>2 DEF Typed, HasRoom
<1>4. t \in Tokens /\ t \notin DOMAIN c.timers
  BY <1>1 DEF Typed, HasRoom
<1>5. delay \in 0..MaxTimeout
  BY <1>3, PowerAssumption DEF Typed, Timeouts
<1>6. Rearmed(i, dark, inhibited, limit) = IF dark \/ inhibited \/ limit = 0 THEN c ELSE armed
  BY DEF Rearmed
<1> HIDE DEF c, t, delay
<1>7. /\ DOMAIN With(c.timers, t, delay) = DOMAIN c.timers \cup {t}
      /\ \A u \in DOMAIN c.timers \cup {t} :
           With(c.timers, t, delay)[u] = IF u = t THEN delay ELSE c.timers[u]
  BY DEF With
<1>8. Typed(armed)
  BY <1>3, <1>4, <1>5, <1>7 DEF Typed
<1>9. HasRoom(armed)
  BY <1>3, <1>4, <1>7 DEF Typed, HasRoom
<1> QED BY <1>3, <1>6, <1>8, <1>9

\* An activity keeps the type and the room.
LEMMA ActiveTyped ==
  ASSUME NEW i, Typed(i)
  PROVE  Typed(Active(i)) /\ (HasRoom(i) => HasRoom(Active(i)))
BY PowerAssumption DEF Typed, Active, HasRoom

\* So does set_screen_power, whatever it changes.
LEMMA PoweredTyped ==
  ASSUME NEW i, Typed(i), HasRoom(i), timeout \in Timeouts,
         NEW on, NEW targets, NEW refusing
  PROVE  Typed(Powered(i, on, targets, refusing).idle)
<1> DEFINE j == IF on THEN Active(i) ELSE i
           changed == IF on THEN targets \cap off ELSE (targets \ off) \ refusing
           dark == IF on THEN off \ changed ELSE off \cup changed
           all == AllOff(heads, dark)
           held == Inhibited
<1>1. Typed(j) /\ HasRoom(j)
  BY ActiveTyped
<1>2. Powered(i, on, targets, refusing).idle =
        IF changed = {} THEN i ELSE Rearmed(j, all, held, timeout)
  BY DEF Powered
<1> HIDE DEF j, changed, all, held
<1>3. Typed(Rearmed(j, all, held, timeout))
  BY <1>1, RearmedTyped
<1> QED BY <1>2, <1>3

\* The type of idle, of the timeout and of the inhibitors.
IdleTyped == Typed(idle) /\ timeout \in Timeouts /\ inhibitors \subseteq Surfaces /\ active \in BOOLEAN

\* Every step keeps those types.
LEMMA StepTyped ==
  ASSUME IdleTyped, [Next]_vars
  PROVE  IdleTyped'
<1> USE DEF IdleTyped
<1>0. RoomToArm => HasRoom(idle)
  BY DEF RoomToArm, HasRoom
<1>1. CASE Input
  <2> DEFINE all == AllOff(heads, off)
             held == Inhibited
             i == Rearmed(Active(idle), all, held, timeout)
  <2>1. Typed(Active(idle)) /\ HasRoom(Active(idle))
    BY <1>0, <1>1, ActiveTyped DEF Input
  <2> HIDE DEF all, held
  <2>2. Typed(i) /\ HasRoom(i)
    BY <2>1, RearmedTyped
  <2>3. idle' = i \/ idle' = Powered(i, TRUE, heads, {}).idle
    BY <1>1 DEF Input, all, held
  <2> HIDE DEF i
  <2>4. Typed(Powered(i, TRUE, heads, {}).idle)
    BY <2>2, PoweredTyped
  <2> QED BY <1>1, <2>2, <2>3, <2>4 DEF Input
<1>2. ASSUME NEW on \in BOOLEAN, NEW targets \in {heads} \cup {{h} : h \in heads}, Ipc(on, targets)
      PROVE  IdleTyped'
  <2>1. PICK refusing \in Refusing : idle' = Powered(idle, on, targets, refusing).idle
    BY <1>2 DEF Ipc, SetScreenPower
  <2> QED BY <1>0, <1>2, <2>1, PoweredTyped DEF Ipc
<1>3. ASSUME NEW h \in Heads, NEW on \in BOOLEAN, SetMode(h, on)
      PROVE  IdleTyped'
  <2>1. PICK refusing \in Refusing : idle' = Powered(idle, on, heads \cap {h}, refusing).idle
    BY <1>3 DEF SetMode, SetScreenPower
  <2>2. Typed(Powered(idle, on, heads \cap {h}, refusing).idle)
    BY <1>0, <1>3, PoweredTyped DEF SetMode
  <2> QED BY <1>3, <2>1, <2>2 DEF SetMode
<1>4. ASSUME NEW t \in Tokens, Fire(t)
      PROVE  IdleTyped'
  <2> DEFINE i == [idle EXCEPT !.timers = Without(@, {t})]
  <2>1. Typed(i) /\ HasRoom(i)
    BY <1>0, <1>4 DEF Typed, HasRoom, Without, Fire
  <2>2. UNCHANGED <<timeout, inhibitors, active>>
    BY <1>4 DEF Fire
  <2>3. CASE ~AllOff(heads, off) /\ ~Inhibited
    <3>1. PICK refusing \in Refusing :
            idle' = [Powered(i, FALSE, heads, refusing).idle EXCEPT !.idle_timer = NoToken]
      BY <1>4, <2>3 DEF Fire
    <3> HIDE DEF i
    <3>2. Typed(Powered(i, FALSE, heads, refusing).idle)
      BY <2>1, PoweredTyped
    <3> QED BY <2>2, <3>1, <3>2 DEF Typed
  <2>4. CASE AllOff(heads, off) \/ Inhibited
    <3>1. idle' = [i EXCEPT !.idle_timer = NoToken]
      BY <1>4, <2>4 DEF Fire
    <3> HIDE DEF i
    <3> QED BY <2>1, <2>2, <3>1 DEF Typed
  <2> QED BY <2>3, <2>4
<1>5. CASE Tick
  <2> DEFINE e == IF idle.elapsed < MaxTimeout THEN idle.elapsed + 1 ELSE idle.elapsed
             ts == [t \in DOMAIN idle.timers |-> idle.timers[t] - 1]
  <2>1. idle' = [elapsed |-> e, timers |-> ts, idle_timer |-> idle.idle_timer]
    BY <1>5 DEF Tick, Typed
  <2>2. e \in 0..MaxTimeout
    BY PowerAssumption DEF Typed
  <2>3. \A t \in DOMAIN ts : ts[t] \in 0..MaxTimeout
    BY <1>5, PowerAssumption DEF Tick, Typed
  <2>4. DOMAIN ts \subseteq Tokens
    BY DEF Typed
  <2> HIDE DEF e, ts
  <2>5. Typed(idle')
    BY <2>1, <2>2, <2>3, <2>4 DEF Typed
  <2> QED BY <1>5, <2>5 DEF Tick
<1>6. ASSUME NEW now \in SUBSET Surfaces, SyncIdleInhibited(now),
             now # {} \/ RoomToArm
      PROVE  Typed(idle')
  <2> DEFINE all == AllOff(heads, off)
             none == FALSE
  <2>1. Typed(Cancelled(idle))
    BY DEF Typed, Cancelled, Without
  <2>2. \/ idle' = idle
        \/ idle' = Cancelled(idle)
        \/ now = {} /\ idle' = Rearmed(Active(idle), all, none, timeout)
    BY <1>6 DEF SyncIdleInhibited
  <2> HIDE DEF all, none
  <2>3. now = {} => Typed(Rearmed(Active(idle), all, none, timeout))
    BY <1>0, <1>6, ActiveTyped, RearmedTyped
  <2> QED BY <2>1, <2>2, <2>3
<1>7. ASSUME NEW s \in Surfaces, Inhibit(s) \/ Uninhibit(s)
      PROVE  IdleTyped'
  BY <1>6, <1>7 DEF Inhibit, Uninhibit, SyncIdleInhibited
<1>8. ASSUME NEW limit \in Timeouts, Reload(limit)
      PROVE  IdleTyped'
  <2> DEFINE all == AllOff(heads, off)
             held == Inhibited
  <2>1. idle' = Rearmed(idle, all, held, limit)
    BY <1>8 DEF Reload
  <2> HIDE DEF all, held
  <2>2. Typed(Rearmed(idle, all, held, limit))
    BY <1>0, <1>8, RearmedTyped DEF Reload
  <2> QED BY <1>8, <2>1, <2>2 DEF Reload
<1>9. ASSUME NEW h \in Heads, Connect(h) \/ Disconnect(h)
      PROVE  IdleTyped'
  BY <1>9 DEF Connect, Disconnect
<1>10. ASSUME NEW c \in Controls, DestroyControl(c) \/ \E h \in Heads : GetOutputPower(c, h)
       PROVE  IdleTyped'
  BY <1>10 DEF DestroyControl, GetOutputPower
<1>11. CASE PauseSession \/ ActivateSession \/ UNCHANGED vars
  BY <1>11 DEF PauseSession, ActivateSession, vars
<1> QED
  BY <1>1, <1>2, <1>3, <1>4, <1>5, <1>7, <1>8, <1>9, <1>10, <1>11 DEF Next, Idling

\* Nothing has been armed but the one timer.
LEMMA InitTyped == Init => IdleTyped
<1> DEFINE i == [elapsed |-> 0, timers |-> Nothing, idle_timer |-> NoToken]
           none == FALSE
<1>1. Typed(i) /\ HasRoom(i)
  BY PowerAssumption DEF Typed, HasRoom, Nothing, NoToken, Tokens
<1>2. Init => /\ timeout \in Timeouts /\ inhibitors = {} /\ active = TRUE
              /\ idle = Rearmed(i, none, none, timeout)
  BY DEF Init
<1> HIDE DEF i, none
<1> QED BY <1>1, <1>2, RearmedTyped DEF IdleTyped

\* Spec keeps the types, whichever heads refuse: every timer's delay is within
\* the longest timeout, also that of one nobody can cancel.
THEOREM TypeCorrect == Spec => []TypeOK
<1>1. Init => IdleTyped
  BY InitTyped
<1>2. IdleTyped /\ [Next]_vars => IdleTyped'
  BY StepTyped
<1>3. IdleTyped /\ ControlsOK => TypeOK
  BY DEF IdleTyped, Typed, ControlsOK, TypeOK
<1> QED BY <1>1, <1>2, <1>3, ControlsAreRight, PTL DEF Spec
----------------------------------------------------------------------------
(* The watch over lit heads *)

\* With idle record i and the heads dark off, somebody will blank what is lit, or
\* nobody may.
Watched(i, dark) ==
  heads \subseteq dark \/ Inhibited \/ timeout = 0 \/ i.idle_timer # NoToken

\* Arming leaves a token named, unless there is a reason not to arm.
LEMMA RearmedNames ==
  ASSUME NEW i, Typed(i), HasRoom(i), NEW dark, NEW inhibited, NEW limit
  PROVE  Rearmed(i, dark, inhibited, limit).idle_timer # NoToken \/ dark \/ inhibited \/ limit = 0
<1> DEFINE c == Cancelled(i)
           t == CHOOSE t \in Tokens : t \notin DOMAIN c.timers
<1>1. DOMAIN c.timers = DOMAIN i.timers \ {i.idle_timer}
  BY DEF Cancelled, Without
<1>2. t \in Tokens
  BY <1>1 DEF Typed, HasRoom
<1>3. ~(dark \/ inhibited \/ limit = 0) => Rearmed(i, dark, inhibited, limit).idle_timer = t
  BY DEF Rearmed
<1> HIDE DEF t
<1> QED
  BY <1>2, <1>3 DEF Tokens, NoToken

\* set_screen_power keeps the watch over what it leaves lit, whichever heads refuse.
LEMMA PoweredWatches ==
  ASSUME NEW i, Typed(i), HasRoom(i), NEW on, NEW targets, NEW refusing,
         Watched(i, off), NEW p, p = Powered(i, on, targets, refusing)
  PROVE  Watched(p.idle, p.off)
<1> DEFINE changed == IF on THEN targets \cap off ELSE (targets \ off) \ refusing
           dark == IF on THEN off \ changed ELSE off \cup changed
           j == IF on THEN Active(i) ELSE i
           all == AllOff(heads, dark)
           held == Inhibited
<1>1. p.off = dark /\ p.idle = IF changed = {} THEN i ELSE Rearmed(j, all, held, timeout)
  BY DEF Powered
<1>2. Typed(j) /\ HasRoom(j)
  BY ActiveTyped
<1>3. changed = {} => dark = off
  OBVIOUS
<1>4. (all => heads \subseteq dark) /\ (held => Inhibited)
  BY DEF AllOff
<1> HIDE DEF changed, dark, j, all, held
<1>5. Rearmed(j, all, held, timeout).idle_timer # NoToken \/ all \/ held \/ timeout = 0
  BY <1>2, RearmedNames
<1> QED
  BY <1>1, <1>3, <1>4, <1>5 DEF Watched

\* When no head refuses, the callback of the timer leaves none lit that may be blanked.
LEMMA FireBlanksAll ==
  ASSUME NEW t \in Tokens, Fire(t), Refusing = {{}}
  PROVE  heads \subseteq off' \/ Inhibited
<1> DEFINE i == [idle EXCEPT !.timers = Without(@, {t})]
<1>1. CASE ~AllOff(heads, off) /\ ~Inhibited
  <2>1. off' = Powered(i, FALSE, heads, {}).off
    BY <1>1 DEF Fire
  <2> QED
    BY <2>1 DEF Powered
<1>2. CASE AllOff(heads, off) \/ Inhibited
  BY <1>2 DEF AllOff, Fire
<1> QED
  BY <1>1, <1>2

\* Every step keeps the watch but for a head plugged in, and a timer that meets a
\* refusal.
LEMMA StepKeepsWatch ==
  ASSUME IdleTyped, [Next]_vars, WatchesLitHeads, heads' \subseteq heads,
         Refusing = {{}} \/ ~(\E t \in Tokens : Fire(t))
  PROVE  WatchesLitHeads'
<1> USE DEF IdleTyped
<1>0. /\ RoomToArm => HasRoom(idle)
      /\ Watched(idle, off)
      /\ heads \subseteq off' \/ Inhibited \/ timeout = 0 \/ idle'.idle_timer # NoToken
           => (UNCHANGED <<heads, inhibitors, timeout>> => WatchesLitHeads')
  BY DEF RoomToArm, HasRoom, WatchesLitHeads, Watched, Inhibited
<1>1. CASE Input
  <2> DEFINE all == AllOff(heads, off)
             held == Inhibited
             i == Rearmed(Active(idle), all, held, timeout)
  <2>1. Typed(Active(idle)) /\ HasRoom(Active(idle))
    BY <1>0, <1>1, ActiveTyped DEF Input
  <2>2. (all => heads \subseteq off) /\ (held => Inhibited)
    BY DEF AllOff
  <2>3. \/ idle' = i /\ off' = off
        \/ LET p == Powered(i, TRUE, heads, {}) IN idle' = p.idle /\ off' = p.off
    BY <1>1 DEF Input
  <2> HIDE DEF all, held
  <2>4. Typed(i) /\ HasRoom(i)
    BY <2>1, RearmedTyped
  <2>5. i.idle_timer # NoToken \/ all \/ held \/ timeout = 0
    BY <2>1, RearmedNames
  <2> HIDE DEF i
  <2>6. Watched(i, off)
    BY <2>2, <2>5 DEF Watched
  <2>7. Watched(idle', off')
    BY <2>3, <2>4, <2>6, PoweredWatches
  <2> QED BY <1>0, <1>1, <2>7 DEF Input, Watched
<1>2. ASSUME NEW on \in BOOLEAN, NEW targets, RoomToArm, SetScreenPower(on, targets),
             UNCHANGED <<heads, inhibitors, timeout>>
      PROVE  WatchesLitHeads'
  <2>1. PICK refusing \in Refusing :
          LET p == Powered(idle, on, targets, refusing) IN off' = p.off /\ idle' = p.idle
    BY <1>2 DEF SetScreenPower
  <2>2. Watched(idle', off')
    BY <1>0, <1>2, <2>1, PoweredWatches
  <2> QED BY <1>0, <1>2, <2>2 DEF Watched
<1>3. ASSUME NEW t \in Tokens, Fire(t)
      PROVE  WatchesLitHeads'
  <2>1. heads \subseteq off' \/ Inhibited
    BY <1>3, FireBlanksAll
  <2> QED BY <1>0, <1>3, <2>1 DEF Fire
<1>4. CASE Tick
  <2>1. idle'.idle_timer = idle.idle_timer
    BY <1>4 DEF Tick, Typed
  <2> QED BY <1>0, <1>4, <2>1 DEF Tick, Watched
<1>5. ASSUME NEW now, SyncIdleInhibited(now), now # {} \/ RoomToArm,
             UNCHANGED <<heads, off, timeout>>
      PROVE  WatchesLitHeads'
  <2> DEFINE all == AllOff(heads, off)
             none == FALSE
  <2>1. Inhibited' <=> now # {}
    BY <1>5 DEF SyncIdleInhibited, Inhibited
  <2>2. CASE now # {}
    BY <2>1, <2>2 DEF WatchesLitHeads
  <2>3. CASE now = {} /\ ~Inhibited
    <3>1. idle' = idle
      BY <2>3, <1>5 DEF SyncIdleInhibited, Inhibited
    <3> QED BY <1>5, <2>1, <2>3, <3>1 DEF WatchesLitHeads
  <2>4. CASE now = {} /\ Inhibited
    <3>1. idle' = Rearmed(Active(idle), all, none, timeout)
      BY <1>5, <2>4 DEF SyncIdleInhibited, Inhibited
    <3>2. Typed(Active(idle)) /\ HasRoom(Active(idle))
      BY <1>0, <1>5, <2>4, ActiveTyped
    <3>3. all => heads \subseteq off
      BY DEF AllOff
    <3> HIDE DEF all, none
    <3>4. idle'.idle_timer # NoToken \/ all \/ none \/ timeout = 0
      BY <3>1, <3>2, RearmedNames
    <3> QED BY <1>5, <3>3, <3>4 DEF WatchesLitHeads, none
  <2> QED BY <2>2, <2>3, <2>4
<1>6. ASSUME NEW limit \in Timeouts, Reload(limit)
      PROVE  WatchesLitHeads'
  <2> DEFINE all == AllOff(heads, off)
             held == Inhibited
  <2>1. idle' = Rearmed(idle, all, held, limit) /\ timeout' = limit
        /\ UNCHANGED <<heads, off, inhibitors>>
    BY <1>6 DEF Reload
  <2>2. (all => heads \subseteq off) /\ (held => Inhibited)
    BY DEF AllOff
  <2> HIDE DEF all, held
  <2>3. idle'.idle_timer # NoToken \/ all \/ held \/ limit = 0
    BY <1>0, <1>6, <2>1, RearmedNames DEF Reload
  <2> QED BY <2>1, <2>2, <2>3 DEF WatchesLitHeads, Inhibited
<1>7. ASSUME NEW h \in Heads, Connect(h) \/ Disconnect(h)
      PROVE  WatchesLitHeads'
  BY <1>7 DEF Connect, Disconnect, WatchesLitHeads, Inhibited
<1>8. CASE UNCHANGED <<heads, off, inhibitors, timeout, idle>>
  BY <1>8 DEF WatchesLitHeads, Inhibited
<1>9. ASSUME NEW s \in Surfaces, Inhibit(s) \/ Uninhibit(s)
      PROVE  WatchesLitHeads'
  BY <1>5, <1>9 DEF Inhibit, Uninhibit
<1>10. ASSUME NEW on \in BOOLEAN,
              \/ \E targets \in {heads} \cup {{h} : h \in heads} : Ipc(on, targets)
              \/ \E h \in Heads : SetMode(h, on)
       PROVE  WatchesLitHeads'
  BY <1>2, <1>10 DEF Ipc, SetMode
<1>11. ASSUME NEW c \in Controls, DestroyControl(c) \/ \E h \in Heads : GetOutputPower(c, h)
       PROVE  WatchesLitHeads'
  BY <1>8, <1>11 DEF DestroyControl, GetOutputPower
<1>12. CASE PauseSession \/ ActivateSession \/ UNCHANGED vars
  BY <1>8, <1>12 DEF PauseSession, ActivateSession, vars
<1> QED
  BY <1>1, <1>3, <1>4, <1>6, <1>7, <1>9, <1>10, <1>11, <1>12 DEF Next, Idling

\* Whatever input, wakes, reloads and inhibitors come, nothing ends the watch over a
\* lit head but a head plugged in and a head that refuses to go off.
THEOREM WatchNeverDropped == Spec => WatchEndsOnlyBy
<1>1. Init => IdleTyped
  BY InitTyped
<1>2. IdleTyped /\ [Next]_vars => IdleTyped'
  BY StepTyped
<1> DEFINE Kept == WatchesLitHeads =>
                     \/ WatchesLitHeads'
                     \/ ~(heads' \subseteq heads)
                     \/ Refusing # {{}} /\ \E t \in Tokens : Fire(t)
<1>3. IdleTyped /\ [Next]_vars => Kept
  BY StepKeepsWatch
<1> QED BY <1>1, <1>2, <1>3, PTL DEF Spec, WatchEndsOnlyBy
=============================================================================
