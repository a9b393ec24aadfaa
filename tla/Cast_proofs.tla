----------------------------- MODULE Cast_proofs -----------------------------
(***************************************************************************)
(* Proofs about Cast, for any number of sessions, targets and sizes: the   *)
(* state is well formed, a running stream can be stopped, and no capture   *)
(* is stored for a session that has been closed.                           *)
(*                                                                         *)
(* The last two rest on what the loop does under the mutex of sessions:    *)
(* while it holds it, the session whose stream it stores is registered,    *)
(* with its stop handle, and Session.Close waits.                          *)
(***************************************************************************)
EXTENDS Cast, TLAPS

\* The registry holds the sessions whose Close has not got to it.
Registered == \A s \in Session : s \in sessions <=> close[s] \in {"open", "closing"}

\* The loop holds the mutex only between its two stores.
LockStores == lock => loop \in stream_stop

\* A stream is asked for once a target was picked, and made for its size.
Picked(s) == target[s] \in Target
AskedWithTarget ==
  \A i \in 1..Len(bridge) : bridge[i].what = "StartStream" => Picked(bridge[i].session)
SpawnedWithTarget == loop # Nothing => Picked(loop) /\ format[loop] \in Size

\* The inductive invariant.
IInv ==
  /\ TypeOK
  /\ NoOrphanStream
  /\ Registered
  /\ LockStores
  /\ AskedWithTarget
  /\ SpawnedWithTarget

LEMMA NothingIsNothing == Nothing \notin Session /\ Nothing \notin Target /\ Nothing \notin Size
BY CastAssumption DEF Target

-----------------------------------------------------------------------------
(* The bridge.                                                             *)

\* A message at the end, of a session with a target if a stream is asked for.
LEMMA Sent ==
  ASSUME bridge \in Seq(Message), NEW m \in Message, bridge' = Append(bridge, m)
  PROVE  /\ bridge' \in Seq(Message)
         /\ \A i \in 1..Len(bridge') :
              (i \in 1..Len(bridge) /\ bridge'[i] = bridge[i]) \/ bridge'[i] = m
OBVIOUS

\* The message at the front is taken.
LEMMA Received ==
  ASSUME IInv, NEW what, NEW s \in Session, Receive(what, s)
  PROVE  /\ bridge' \in Seq(Message)
         /\ \A i \in 1..Len(bridge') : i + 1 \in 1..Len(bridge) /\ bridge'[i] = bridge[i + 1]
         /\ what = "StartStream" => Picked(s)
         /\ loop = Nothing
<1>1. /\ bridge \in Seq(Message) /\ bridge # <<>> /\ bridge' = Tail(bridge) /\ loop = Nothing
      /\ Head(bridge) = [what |-> what, session |-> s]
  BY DEF IInv, TypeOK, Receive, Idle
<1>2. Len(bridge) \in Nat \ {0} /\ Head(bridge) = bridge[1]
  BY <1>1
<1>3. what = "StartStream" => Picked(s)
  BY <1>1, <1>2 DEF IInv, AskedWithTarget
<1> QED BY <1>1, <1>2, <1>3

-----------------------------------------------------------------------------
(* The D-Bus thread.                                                       *)

LEMMA DbusKeeps ==
  ASSUME IInv, NEW s \in Session,
         create_session(s) \/ select_sources(s) \/ StartCalled(s) \/ choose_target(s)
  PROVE  IInv'
<1>1. CASE create_session(s)
  <2>1. TypeOK'
    BY <1>1 DEF IInv, TypeOK, create_session, streams
  <2>2. Registered'
    BY <1>1 DEF IInv, TypeOK, Registered, create_session
  <2> QED BY <1>1, <2>1, <2>2
    DEF IInv, create_session, streams, NoOrphanStream, Running, LockStores, AskedWithTarget,
        SpawnedWithTarget, Picked
<1>2. CASE select_sources(s)
  <2>1. TypeOK'
    BY <1>2 DEF IInv, TypeOK, select_sources, streams
  <2> QED BY <1>2, <2>1
    DEF IInv, select_sources, streams, NoOrphanStream, Running, LockStores, AskedWithTarget,
        SpawnedWithTarget, Picked, Registered
<1>3. CASE StartCalled(s)
  <2>1. /\ UNCHANGED <<sessions, source_types, choices, target, close, stream, stopped, format,
                       buffer, stream_stop, active_captures, loop, lock, slot, shown>>
        /\ start' \in [Session -> StartPhase]
    BY <1>3 DEF IInv, TypeOK, StartCalled, streams, StartPhase
  <2>2. [what |-> "ListSources", session |-> s] \in Message
    BY DEF Message
  <2>3. bridge' \in Seq(Message) /\ AskedWithTarget'
    <3>1. CASE bridge' = bridge
      BY <2>1, <3>1 DEF IInv, TypeOK, AskedWithTarget, Picked
    <3>2. CASE bridge' = Append(bridge, [what |-> "ListSources", session |-> s])
      BY <2>1, <2>2, <3>2, Sent DEF IInv, TypeOK, AskedWithTarget, Picked
    <3> QED BY <1>3, <3>1, <3>2 DEF StartCalled
  <2>4. TypeOK'
    BY <2>1, <2>3 DEF IInv, TypeOK
  <2> QED BY <2>1, <2>3, <2>4
    DEF IInv, NoOrphanStream, Running, LockStores, SpawnedWithTarget, Picked, Registered
<1>4. CASE choose_target(s)
  <2>1. /\ UNCHANGED <<sessions, source_types, close, stream, stopped, format, buffer,
                       stream_stop, active_captures, loop, lock, slot, shown>>
        /\ start' \in [Session -> StartPhase] /\ choices' \in [Session -> SUBSET Target]
    BY <1>4 DEF IInv, TypeOK, choose_target, streams, StartPhase
  <2>2. /\ target' \in [Session -> Target \cup {Nothing}]
        /\ \A r \in Session : target[r] \in Target => target'[r] \in Target
    <3>1. CASE target' = target
      BY <3>1 DEF IInv, TypeOK
    <3>2. ASSUME NEW t \in choices[s], target' = [target EXCEPT ![s] = t]
          PROVE  /\ target' \in [Session -> Target \cup {Nothing}]
                 /\ \A r \in Session : target[r] \in Target => target'[r] \in Target
      <4>1. t \in Target
        BY DEF IInv, TypeOK
      <4> QED BY <3>2, <4>1 DEF IInv, TypeOK
    <3> QED BY <1>4, <3>1, <3>2 DEF choose_target
  <2>3. [what |-> "StartStream", session |-> s] \in Message
    BY DEF Message
  <2>4. \A i \in 1..Len(bridge) : bridge[i].session \in Session
    <3>1. \A i \in 1..Len(bridge) : bridge[i] \in Message
      BY DEF IInv, TypeOK
    <3> QED BY <3>1 DEF Message
  <2>5. bridge' \in Seq(Message) /\ AskedWithTarget'
    <3>1. CASE bridge' = bridge
      BY <2>2, <2>4, <3>1 DEF IInv, TypeOK, AskedWithTarget, Picked
    <3>2. CASE target'[s] \in Target /\ bridge' = Append(bridge, [what |-> "StartStream", session |-> s])
      BY <2>2, <2>3, <2>4, <3>2, Sent DEF IInv, TypeOK, AskedWithTarget, Picked
    <3> QED BY <1>4, <3>1, <3>2 DEF choose_target, IInv, TypeOK
  <2>6. TypeOK'
    BY <2>1, <2>2, <2>5 DEF IInv, TypeOK
  <2> QED BY <2>1, <2>2, <2>5, <2>6
    DEF IInv, TypeOK, NoOrphanStream, Running, LockStores, SpawnedWithTarget, Picked, Registered
<1> QED BY <1>1, <1>2, <1>3, <1>4

\* Close waits for the loop, and uses the handle it takes out.
LEMMA CloseKeeps ==
  ASSUME IInv, NEW s \in Session, CloseCapture(s) \/ CloseSession(s)
  PROVE  IInv'
<1>1. CASE CloseCapture(s)
  <2>1. TypeOK' /\ Registered'
    BY <1>1 DEF IInv, TypeOK, Registered, CloseCapture, streams
  <2> QED BY <1>1, <2>1
    DEF IInv, CloseCapture, streams, NoOrphanStream, Running, LockStores, AskedWithTarget,
        SpawnedWithTarget, Picked
<1>2. CASE CloseSession(s)
  <2>1. TypeOK' /\ Registered'
    BY <1>2 DEF IInv, TypeOK, Registered, CloseSession
  <2>2. NoOrphanStream' /\ LockStores'
    BY <1>2 DEF IInv, NoOrphanStream, Running, LockStores, CloseSession
  <2> QED BY <1>2, <2>1, <2>2
    DEF IInv, CloseSession, AskedWithTarget, SpawnedWithTarget, Picked
<1> QED BY <1>1, <1>2

-----------------------------------------------------------------------------
(* The loop.                                                               *)

LEMMA AnswerTypes ==
  ASSUME TypeOK, NEW s \in Session, NEW code \in {"0", "1", "2"}, Answer(s, code)
  PROVE  start' \in [Session -> StartPhase]
BY DEF TypeOK, Answer, StartPhase

LEMMA HandlingKeeps ==
  ASSUME IInv, NEW s \in Session, ListSources(s) \/ Refuse(s) \/ Spawn(s)
  PROVE  IInv'
<1> DEFINE Taken == /\ bridge' \in Seq(Message)
                    /\ \A i \in 1..Len(bridge') : i + 1 \in 1..Len(bridge) /\ bridge'[i] = bridge[i + 1]
                    /\ loop = Nothing
<1>1. CASE ListSources(s)
  <2>1. Taken
    BY <1>1, Received DEF ListSources
  <2>2. /\ UNCHANGED <<sessions, source_types, target, close, stream, stopped, format, buffer,
                       stream_stop, active_captures, loop, lock, slot, shown>>
        /\ start' \in [Session -> StartPhase] /\ choices' \in [Session -> SUBSET Target]
    BY <1>1 DEF IInv, TypeOK, ListSources, streams, build_choices, StartPhase
  <2> QED BY <2>1, <2>2
    DEF IInv, TypeOK, NoOrphanStream, Running, LockStores, AskedWithTarget, SpawnedWithTarget,
        Picked, Registered
<1>2. CASE Refuse(s)
  <2>1. Taken
    BY <1>2, Received DEF Refuse
  <2>2. /\ UNCHANGED <<sessions, source_types, choices, target, close, stream, stopped, format,
                       buffer, stream_stop, active_captures, loop, lock, slot, shown>>
        /\ start' \in [Session -> StartPhase]
    BY <1>2, AnswerTypes DEF IInv, Refuse, streams
  <2> QED BY <2>1, <2>2
    DEF IInv, TypeOK, NoOrphanStream, Running, LockStores, AskedWithTarget, SpawnedWithTarget,
        Picked, Registered
<1>3. CASE Spawn(s)
  <2>1. Taken /\ Picked(s)
    BY <1>3, Received DEF Spawn
  <2>2. /\ UNCHANGED <<sessions, source_types, choices, target, close, stopped, buffer,
                       stream_stop, active_captures, lock, slot, shown>>
        /\ start' \in [Session -> StartPhase] /\ loop' = s
    BY <1>3, AnswerTypes DEF IInv, TypeOK, Spawn
  <2>3. shown[target[s]] \in Size /\ format' = [format EXCEPT ![s] = shown[target[s]]]
    BY <1>3, <2>1 DEF IInv, TypeOK, Spawn, target_size, Picked
  <2>4. /\ stream' \in [Session -> {"none", "connecting", "ready", "error", "exited"}]
        /\ \A r \in Session \ {s} : stream'[r] = stream[r]
    BY <1>3 DEF IInv, TypeOK, Spawn
  <2>5. TypeOK'
    <3>1. format' \in [Session -> Size \cup {Nothing}]
          /\ \A r \in Session : format[r] \in Size => format'[r] \in Size
      BY <2>3 DEF IInv, TypeOK
    <3> QED BY <2>1, <2>2, <2>4, <3>1 DEF IInv, TypeOK
  <2>6. NoOrphanStream'
    BY <2>1, <2>2, <2>4, NothingIsNothing DEF IInv, NoOrphanStream, Running
  <2>7. LockStores'
    BY <2>1, <2>2, NothingIsNothing DEF IInv, TypeOK, LockStores
  <2>8. SpawnedWithTarget'
    BY <2>1, <2>2, <2>3 DEF IInv, TypeOK, SpawnedWithTarget, Picked
  <2>9. AskedWithTarget' /\ Registered'
    BY <2>1, <2>2 DEF IInv, AskedWithTarget, Picked, Registered
  <2> QED BY <2>5, <2>6, <2>7, <2>8, <2>9 DEF IInv
<1> QED BY <1>1, <1>2, <1>3

LEMMA StoringKeeps ==
  ASSUME IInv, NEW s \in Session, StoreStop(s) \/ StoreCapture(s) \/ StopSpawned(s)
  PROVE  IInv'
<1>1. CASE StoreStop(s)
  <2>1. TypeOK'
    BY <1>1 DEF IInv, TypeOK, StoreStop, dbus, streams
  <2> QED BY <1>1, <2>1
    DEF IInv, StoreStop, dbus, streams, NoOrphanStream, Running, LockStores, AskedWithTarget,
        SpawnedWithTarget, Picked, Registered
<1>2. CASE StoreCapture(s)
  <2>1. TypeOK'
    BY <1>2, NothingIsNothing
    DEF IInv, TypeOK, StoreCapture, dbus, streams, SpawnedWithTarget, Picked
  <2>2. NoOrphanStream'
    BY <1>2 DEF IInv, StoreCapture, streams, dbus, NoOrphanStream, Running, LockStores
  <2> QED BY <1>2, <2>1, <2>2
    DEF IInv, StoreCapture, dbus, streams, LockStores, AskedWithTarget, SpawnedWithTarget,
        Picked, Registered
<1>3. CASE StopSpawned(s)
  <2>1. TypeOK'
    BY <1>3 DEF IInv, TypeOK, StopSpawned, dbus
  <2>2. NoOrphanStream'
    BY <1>3 DEF IInv, StopSpawned, dbus, NoOrphanStream, Running
  <2> QED BY <1>3, <2>1, <2>2
    DEF IInv, StopSpawned, dbus, LockStores, AskedWithTarget, SpawnedWithTarget, Picked,
        Registered
<1> QED BY <1>1, <1>2, <1>3

LEMMA TickKeeps ==
  ASSUME IInv, run_capture_tick
  PROVE  IInv'
<1>1. slot' \in [Session -> Size \cup {Nothing}]
  <2> SUFFICES ASSUME NEW s \in active_captures PROVE capture_frame(target[s], slot[s]) \in Size \cup {Nothing}
    BY DEF IInv, TypeOK, run_capture_tick
  <2> QED BY DEF IInv, TypeOK, capture_frame, target_size
<1>2. UNCHANGED <<dbus, streams, stream_stop, active_captures, bridge, loop, lock, shown>>
  BY DEF run_capture_tick
<1> QED BY <1>1, <1>2
  DEF IInv, TypeOK, dbus, streams, NoOrphanStream, Running, LockStores, AskedWithTarget,
      SpawnedWithTarget, Picked, Registered

LEMMA ChangeKeeps ==
  ASSUME IInv, NEW t \in Target, Change(t)
  PROVE  IInv'
<1>1. shown' \in [Target -> Size \cup {Nothing}]
  BY DEF IInv, TypeOK, Change
<1>2. UNCHANGED <<dbus, streams, stream_stop, active_captures, bridge, loop, lock, slot>>
  BY DEF Change
<1> QED BY <1>1, <1>2
  DEF IInv, TypeOK, dbus, streams, NoOrphanStream, Running, LockStores, AskedWithTarget,
      SpawnedWithTarget, Picked, Registered

-----------------------------------------------------------------------------
(* A stream's thread.                                                      *)

LEMMA ThreadKeeps ==
  ASSUME IInv, NEW s \in Session,
         Ready(s) \/ Fails(s) \/ ConnectFails(s) \/ Quit(s) \/ process(s)
  PROVE  IInv'
<1>1. CASE process(s)
  <2>1. TypeOK'
    BY <1>1 DEF IInv, TypeOK, process, dbus
  <2> QED BY <1>1, <2>1
    DEF IInv, process, dbus, NoOrphanStream, Running, LockStores, AskedWithTarget,
        SpawnedWithTarget, Picked, Registered
<1>2. CASE Ready(s) \/ Fails(s) \/ ConnectFails(s) \/ Quit(s)
  <2>1. PICK now \in {"ready", "error", "exited"}, code \in {"0", "1", "2"} :
          Thread(s, now) /\ Answer(s, code) /\ Running(s)
    BY <1>2 DEF Ready, Fails, ConnectFails, Quit, Running
  <2>2. start' \in [Session -> StartPhase]
    BY <2>1, AnswerTypes DEF IInv
  <2>3. TypeOK'
    BY <2>1, <2>2 DEF IInv, TypeOK, Thread
  <2>4. NoOrphanStream'
    BY <2>1 DEF IInv, TypeOK, Thread, NoOrphanStream, Running
  <2> QED BY <2>1, <2>3, <2>4
    DEF IInv, Thread, LockStores, AskedWithTarget, SpawnedWithTarget, Picked, Registered
<1> QED BY <1>1, <1>2

-----------------------------------------------------------------------------
(* The theorems.                                                           *)

LEMMA Starts == Init => IInv
<1> SUFFICES ASSUME Init PROVE IInv
  OBVIOUS
<1>1. TypeOK
  <2>1. /\ source_types \in [Session -> Asked \cup {{}}] /\ choices \in [Session -> SUBSET Target]
        /\ bridge \in Seq(Message)
    BY DEF Init
  <2>2. start \in [Session -> StartPhase]
    BY DEF Init, StartPhase
  <2>3. /\ target \in [Session -> Target \cup {Nothing}]
        /\ format \in [Session -> Size \cup {Nothing}] /\ slot \in [Session -> Size \cup {Nothing}]
        /\ shown \in [Target -> Size \cup {Nothing}]
    BY DEF Init
  <2> QED BY <2>1, <2>2, <2>3 DEF Init, TypeOK
<1> QED BY <1>1
  DEF Init, IInv, NoOrphanStream, Running, LockStores, AskedWithTarget, SpawnedWithTarget,
      Registered

LEMMA Keeps == IInv /\ [Next]_vars => IInv'
<1> SUFFICES ASSUME IInv, [Next]_vars PROVE IInv'
  OBVIOUS
<1>1. CASE UNCHANGED vars
  BY <1>1 DEF IInv, TypeOK, vars, dbus, streams, NoOrphanStream, Running, LockStores,
              AskedWithTarget, SpawnedWithTarget, Picked, Registered
<1>2. CASE LoopHandles
  BY <1>2, HandlingKeeps, StoringKeeps DEF LoopHandles
<1> QED BY <1>1, <1>2, TickKeeps, DbusKeeps, CloseKeeps, ThreadKeeps, ChangeKeeps DEF Next

LEMMA Invariance == Spec => []IInv
BY Starts, Keeps, PTL DEF Spec

\* The portal's state is well formed, for any sessions, targets and sizes: a
\* captured session has a target, and its stream a size.
THEOREM TypeCorrect == Spec => []TypeOK
<1>1. IInv => TypeOK
  BY DEF IInv
<1> QED BY <1>1, Invariance, PTL

\* The thread of a stream that runs can be stopped by somebody, at whatever
\* point of the spawn its session was closed.
THEOREM StreamsHaveStops == Spec => []NoOrphanStream
<1>1. IInv => NoOrphanStream
  BY DEF IInv
<1> QED BY <1>1, Invariance, PTL

\* No capture is stored for a session that was closed and has left the registry.
THEOREM CapturesInTime == Spec => NoLateCapture
<1>1. IInv /\ [Next]_vars => [\A s \in active_captures' \ active_captures : close[s] # "closed"]_vars
  <2> SUFFICES ASSUME IInv, Next, NEW s \in active_captures' \ active_captures
               PROVE  close[s] # "closed"
    OBVIOUS
  <2>1. PICK r \in Session : StoreCapture(r)
    BY DEF Next, LoopHandles, run_capture_tick, create_session, select_sources, StartCalled,
           choose_target, CloseCapture, CloseSession, Ready, Fails, ConnectFails, Quit, process,
           Thread, Change, ListSources, Refuse, Spawn, StoreStop, StopSpawned
  <2>2. s = r /\ lock /\ loop = r
    BY <2>1 DEF StoreCapture
  <2>3. r \in sessions
    BY <2>2 DEF IInv, TypeOK, LockStores
  <2> QED BY <2>2, <2>3 DEF IInv, Registered
<1> QED BY <1>1, Invariance, PTL DEF Spec, NoLateCapture
=============================================================================
