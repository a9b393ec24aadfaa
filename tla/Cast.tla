-------------------------------- MODULE Cast --------------------------------
(***************************************************************************)
(* The screencast portal (src/portal/): the sessions of the D-Bus          *)
(* interface, the bridge to the compositor's loop, and a PipeWire stream   *)
(* for each session.                                                       *)
(*                                                                         *)
(* Three kinds of thread act here.  The D-Bus thread runs the methods,     *)
(* each an asynchronous task that another may overtake wherever it waits.  *)
(* The loop handles one message of the bridge at a time.  Every stream has *)
(* a thread of its own.  They share two maps, sessions and                 *)
(* active_captures, each behind a mutex.                                   *)
(*                                                                         *)
(* The portal's frontend (xdg-desktop-portal) is outside: it names         *)
(* sessions afresh, and starts each at most once.                          *)
(***************************************************************************)
EXTENDS Naturals, Sequences, FiniteSets

CONSTANTS Session,       \* session handles
          Window,        \* window ids
          Monitor,       \* the names of outputs
          Size,          \* sizes a target may have
          Asked,         \* the kinds of source a client may ask for
          Nothing        \* no size, no target, nobody

ASSUME CastAssumption ==
  /\ Window \cap Monitor = {}
  /\ Asked \subseteq SUBSET {"window", "monitor"}
  /\ Nothing \notin Session \cup Window \cup Monitor \cup Size

Target == Window \cup Monitor

Kind(t) == IF t \in Window THEN "window" ELSE "monitor"

VARIABLES
  sessions,         \* the handles in the registry
  source_types,     \* SessionState::source_types
  stream_stop,      \* the sessions whose SessionState holds a stop handle
  active_captures,  \* what the capture timer renders
  start,            \* how far the Start of each session is
  choices,          \* what its chooser offers
  target,           \* what it picked
  close,            \* how far the Session.Close of each is
  bridge,           \* messages on their way to the loop
  loop,             \* the session whose stream the loop has spawned and not stored
  lock,             \* whether the loop holds the mutex of sessions
  stream,           \* the thread of each session's stream
  stopped,          \* the streams with a stop message in their channel
  format,           \* the size each stream was made for
  slot,             \* the size of the newest frame of each stream
  buffer,           \* what each stream painted last, if not black
  shown             \* the size of each target; Nothing when it is not there

dbus == <<sessions, source_types, start, choices, target, close>>
streams == <<stream, stopped, format, buffer>>
vars == <<dbus, streams, stream_stop, active_captures, bridge, loop, lock, slot, shown>>

Message == [what: {"ListSources", "StartStream"}, session: Session]

\* Start ends with a response code: 0 with a stream, 1 cancelled, 2 otherwise.
StartPhase == {"uncalled", "listing", "choosing", "requested", "0", "1", "2"}
Answered(s) == start[s] \in {"0", "1", "2"}

\* A thread that runs: its loop has not quit.
Running(s) == stream[s] \in {"connecting", "ready", "error"}

\* Every part of the state holds a value of its kind, each captured session
\* has a target, and each stream a size.  Proved, for every value of the
\* constants.
TypeOK ==
  /\ sessions \subseteq Session
  /\ source_types \in [Session -> Asked \cup {{}}]
  /\ stream_stop \subseteq sessions
  /\ active_captures \subseteq Session
  /\ start \in [Session -> StartPhase]
  /\ choices \in [Session -> SUBSET Target]
  /\ target \in [Session -> Target \cup {Nothing}]
  /\ close \in [Session -> {"unborn", "open", "closing", "closed"}]
  /\ bridge \in Seq(Message)
  /\ loop \in Session \cup {Nothing}
  /\ lock \in BOOLEAN
  /\ stream \in [Session -> {"none", "connecting", "ready", "error", "exited"}]
  /\ stopped \subseteq Session
  /\ format \in [Session -> Size \cup {Nothing}]
  /\ slot \in [Session -> Size \cup {Nothing}]
  /\ buffer \in [Session -> {"black", "frame"}]
  /\ shown \in [Target -> Size \cup {Nothing}]
  /\ \A s \in active_captures : target[s] \in Target /\ format[s] \in Size

Init ==
  /\ sessions = {} /\ stream_stop = {} /\ active_captures = {} /\ stopped = {}
  /\ source_types = [s \in Session |-> {}]
  /\ start = [s \in Session |-> "uncalled"]
  /\ choices = [s \in Session |-> {}]
  /\ target = [s \in Session |-> Nothing]
  /\ close = [s \in Session |-> "unborn"]
  /\ bridge = <<>>
  /\ loop = Nothing
  /\ lock = FALSE
  /\ stream = [s \in Session |-> "none"]
  /\ format = [s \in Session |-> Nothing]
  /\ slot = [s \in Session |-> Nothing]
  /\ buffer = [s \in Session |-> "black"]
  /\ shown \in [Target -> Size]

-----------------------------------------------------------------------------
(* The D-Bus thread.  It waits for the mutex of sessions.                  *)

create_session(s) ==
  /\ close[s] = "unborn" /\ ~lock
  /\ sessions' = sessions \cup {s}
  /\ close' = [close EXCEPT ![s] = "open"]
  /\ UNCHANGED <<source_types, start, choices, target, streams, stream_stop,
                 active_captures, bridge, loop, lock, slot, shown>>

\* What it hears from the bridge is only logged.
select_sources(s) ==
  /\ close[s] # "unborn" /\ start[s] = "uncalled" /\ ~lock
  /\ s \in sessions
  /\ \E types \in Asked : source_types' = [source_types EXCEPT ![s] = types]
  /\ UNCHANGED <<sessions, start, choices, target, close, streams, stream_stop,
                 active_captures, bridge, loop, lock, slot, shown>>

\* A call on a session that has gone is refused.
StartCalled(s) ==
  /\ close[s] # "unborn" /\ start[s] = "uncalled" /\ ~lock
  /\ IF s \in sessions
     THEN /\ start' = [start EXCEPT ![s] = "listing"]
          /\ bridge' = Append(bridge, [what |-> "ListSources", session |-> s])
     ELSE /\ start' = [start EXCEPT ![s] = "2"]
          /\ bridge' = bridge
  /\ UNCHANGED <<sessions, source_types, choices, target, close, streams, stream_stop,
                 active_captures, loop, lock, slot, shown>>

\* The chooser ends: with the row of a choice, or, on every other path, with none.
choose_target(s) ==
  /\ start[s] = "choosing"
  /\ \/ \E t \in choices[s] :
          /\ target' = [target EXCEPT ![s] = t]
          /\ start' = [start EXCEPT ![s] = "requested"]
          /\ bridge' = Append(bridge, [what |-> "StartStream", session |-> s])
     \/ /\ start' = [start EXCEPT ![s] = "1"]
        /\ UNCHANGED <<target, bridge>>
  /\ choices' = [choices EXCEPT ![s] = {}]
  /\ UNCHANGED <<sessions, source_types, close, streams, stream_stop,
                 active_captures, loop, lock, slot, shown>>

\* Session.Close first takes the session out of the capture timer's map ...
CloseCapture(s) ==
  /\ close[s] = "open"
  /\ active_captures' = active_captures \ {s}
  /\ close' = [close EXCEPT ![s] = "closing"]
  /\ UNCHANGED <<sessions, source_types, start, choices, target, streams, stream_stop,
                 bridge, loop, lock, slot, shown>>

\* Mutant of CloseSession: it does not wait for the loop, as if the loop let go
\* of the mutex between its two stores.
CloseSessionAtOnce(s) ==
  /\ close[s] = "closing"
  /\ sessions' = sessions \ {s}
  /\ stream_stop' = stream_stop \ {s}
  /\ stopped' = IF s \in stream_stop THEN stopped \cup {s} ELSE stopped
  /\ close' = [close EXCEPT ![s] = "closed"]
  /\ UNCHANGED <<source_types, start, choices, target, stream, format, buffer,
                 active_captures, bridge, loop, lock, slot, shown>>

\* ... and then out of the registry, and stops its stream.
CloseSession(s) ==
  /\ close[s] = "closing" /\ ~lock
  /\ sessions' = sessions \ {s}
  /\ stream_stop' = stream_stop \ {s}
  /\ stopped' = IF s \in stream_stop THEN stopped \cup {s} ELSE stopped
  /\ close' = [close EXCEPT ![s] = "closed"]
  /\ UNCHANGED <<source_types, start, choices, target, stream, format, buffer,
                 active_captures, bridge, loop, lock, slot, shown>>

-----------------------------------------------------------------------------
(* The loop.                                                               *)

Idle == loop = Nothing

Receive(what, s) ==
  /\ Idle /\ bridge # <<>>
  /\ Head(bridge) = [what |-> what, session |-> s]
  /\ bridge' = Tail(bridge)

\* A target that is not there has no size.
target_size(t) == shown[t]

\* A frame is as large as its target is when it is rendered; of a target that is
\* not there is none, and the slot keeps what it had.
capture_frame(t, had) == IF target_size(t) = Nothing THEN had ELSE target_size(t)

\* Unmanaged windows are not modelled.  What is offered is what was asked for.
build_choices(types) == {t \in Target : target_size(t) # Nothing /\ Kind(t) \in types}

ListSources(s) ==
  /\ Receive("ListSources", s)
  /\ choices' = [choices EXCEPT ![s] = build_choices(source_types[s])]
  /\ start' = [start EXCEPT ![s] = "choosing"]
  /\ UNCHANGED <<sessions, source_types, target, close, streams, stream_stop,
                 active_captures, loop, lock, slot, shown>>

Answer(s, code) ==
  start' = IF start[s] = "requested" THEN [start EXCEPT ![s] = code] ELSE start

\* Refused: the session has gone, or what the chooser picked has.
Refuse(s) ==
  /\ Receive("StartStream", s)
  /\ s \notin sessions \/ target_size(target[s]) = Nothing
  /\ Answer(s, "2")
  /\ UNCHANGED <<sessions, source_types, choices, target, close, streams, stream_stop,
                 active_captures, loop, lock, slot, shown>>

\* The thread starts, or the system refuses one: its handle is kept all the same.
Spawn(s) ==
  /\ Receive("StartStream", s)
  /\ s \in sessions /\ target_size(target[s]) # Nothing
  /\ loop' = s
  /\ format' = [format EXCEPT ![s] = target_size(target[s])]
  /\ \/ stream' = [stream EXCEPT ![s] = "connecting"] /\ start' = start
     \/ stream' = [stream EXCEPT ![s] = "exited"] /\ Answer(s, "2")
  /\ UNCHANGED <<sessions, source_types, choices, target, close, stopped, buffer,
                 stream_stop, active_captures, lock, slot, shown>>

\* With the mutex of sessions held until the capture is stored too.
StoreStop(s) ==
  /\ loop = s /\ ~lock /\ s \in sessions
  /\ stream_stop' = stream_stop \cup {s}
  /\ lock' = TRUE
  /\ UNCHANGED <<dbus, streams, active_captures, bridge, loop, slot, shown>>

\* Mutant of StoreCapture: a capture is stored once its stream is ready.
StoreCaptureIfReady(s) ==
  /\ loop = s /\ lock
  /\ active_captures' = IF stream[s] = "ready" THEN active_captures \cup {s} ELSE active_captures
  /\ lock' = FALSE
  /\ loop' = Nothing
  /\ UNCHANGED <<dbus, streams, stream_stop, bridge, slot, shown>>

StoreCapture(s) ==
  /\ loop = s /\ lock
  /\ active_captures' = active_captures \cup {s}
  /\ lock' = FALSE
  /\ loop' = Nothing
  /\ UNCHANGED <<dbus, streams, stream_stop, bridge, slot, shown>>

\* Mutant of StopSpawned: the thread nobody asked for is left alone.
StopSpawnedLeft(s) ==
  /\ loop = s /\ ~lock /\ s \notin sessions
  /\ loop' = Nothing
  /\ UNCHANGED <<dbus, streams, stream_stop, active_captures, bridge, lock, slot, shown>>

\* The session went away while the thread was spawned: stop it.
StopSpawned(s) ==
  /\ loop = s /\ ~lock /\ s \notin sessions
  /\ stopped' = stopped \cup {s}
  /\ loop' = Nothing
  /\ UNCHANGED <<dbus, stream, format, buffer, stream_stop, active_captures, bridge,
                 lock, slot, shown>>

run_capture_tick ==
  /\ Idle /\ active_captures # {}
  /\ slot' = [s \in Session |->
                IF s \in active_captures THEN capture_frame(target[s], slot[s]) ELSE slot[s]]
  /\ UNCHANGED <<dbus, streams, stream_stop, active_captures, bridge, loop, lock, shown>>

\* A window closes for good; an output goes and returns; either changes size.
Change(t) ==
  /\ Idle
  /\ \E size \in Size \cup {Nothing} :
       /\ (shown[t] = Nothing => t \in Monitor) /\ size # shown[t]
       /\ shown' = [shown EXCEPT ![t] = size]
  /\ UNCHANGED <<dbus, streams, stream_stop, active_captures, bridge, loop, lock, slot>>

-----------------------------------------------------------------------------
(* A stream's thread.  PipeWire decides what becomes of it.                *)

Thread(s, now) ==
  /\ stream' = [stream EXCEPT ![s] = now]
  /\ UNCHANGED <<sessions, source_types, choices, target, close, stopped, format, buffer,
                 stream_stop, active_captures, bridge, loop, lock, slot, shown>>

\* The first Paused or Streaming answers Start.
Ready(s) == stream[s] = "connecting" /\ Thread(s, "ready") /\ Answer(s, "0")

\* An error answers it too, and leaves the thread running.
Fails(s) == stream[s] \in {"connecting", "ready"} /\ Thread(s, "error") /\ Answer(s, "2")

\* A step of run_pw_thread before the loop fails, and the thread returns.
ConnectFails(s) == stream[s] = "connecting" /\ Thread(s, "exited") /\ Answer(s, "2")

\* Mutant of Quit: the thread takes the answer with it.
QuitSilently(s) ==
  /\ Running(s) /\ s \in stopped
  /\ Thread(s, "exited")
  /\ start' = start

\* Whoever awaits the answer of a thread that quits sees the channel closed.
Quit(s) == Running(s) /\ s \in stopped /\ Thread(s, "exited") /\ Answer(s, "2")

\* A frame of another size than the stream's is painted black.  A slot, once
\* filled, never empties, so the last frame is the slot's.
process(s) ==
  /\ stream[s] = "ready"
  /\ buffer' = [buffer EXCEPT ![s] = IF slot[s] = format[s] THEN "frame" ELSE "black"]
  /\ UNCHANGED <<dbus, stream, stopped, format, stream_stop, active_captures, bridge,
                 loop, lock, slot, shown>>

-----------------------------------------------------------------------------
LoopHandles ==
  \E s \in Session : \/ ListSources(s) \/ Refuse(s) \/ Spawn(s)
                     \/ StoreStop(s) \/ StoreCapture(s) \/ StopSpawned(s)

Next ==
  \/ LoopHandles
  \/ run_capture_tick
  \/ \E s \in Session :
       \/ create_session(s) \/ select_sources(s) \/ StartCalled(s) \/ choose_target(s)
       \/ CloseCapture(s) \/ CloseSession(s)
       \/ Ready(s) \/ Fails(s) \/ ConnectFails(s) \/ Quit(s) \/ process(s)
  \/ \E t \in Target : Change(t)

\* The loop keeps turning and its timer keeps firing; a Close that began is run
\* to its end; a thread reads its channel; PipeWire asks for frames.  Neither the
\* user, nor the frontend, nor PipeWire's connection is bound to do anything.
Fairness ==
  /\ WF_vars(LoopHandles)
  /\ WF_vars(run_capture_tick)
  /\ \A s \in Session : /\ SF_vars(CloseSession(s))
                        /\ WF_vars(Quit(s))
                        /\ WF_vars(process(s))

Spec == Init /\ [][Next]_vars /\ Fairness

-----------------------------------------------------------------------------
\* A thread that runs can be stopped: its stop handle is in the registry, or
\* still with the loop, or was used.  The loop checks the session before and
\* again after the spawn for this, and Close takes the handle out with it.
NoOrphanStream ==
  \A s \in Session :
    Running(s) => \/ s \in stream_stop
                  \/ loop = s
                  \/ s \in stopped

\* No capture is stored for a session that has left the registry: the loop holds
\* the mutex of sessions until the capture is in its map.
NoLateCapture ==
  [][\A s \in active_captures' \ active_captures : close[s] # "closed"]_vars

\* Closing a session is enough: whatever its Start awaited is answered and its
\* thread ends, even if PipeWire never does anything, and at whatever point of
\* Start the Close arrived.
ClosedStartEnds ==
  \A s \in Session :
    (start[s] = "requested" /\ close[s] = "closed")
       ~> (Answered(s) /\ ~Running(s))

\* What a running cast paints comes to be its target, if the target stays at
\* the size the stream was made for.
CastShowsTarget ==
  \A s \in Session :
    <>[](stream[s] = "ready" /\ close[s] = "open" /\ shown[target[s]] = format[s])
      => <>[](buffer[s] = "frame")

\* "A no-op (empty map, no renderer touched) while no session is streaming"
\* (screencast.rs:582): the capture timer renders for no session that was closed.
CaptureHasSession == \A s \in active_captures : close[s] # "closed"
=============================================================================
