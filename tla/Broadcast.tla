------------------------------ MODULE Broadcast ------------------------------
(***************************************************************************)
(* What the browsers see: the broadcaster's tick (web/broadcaster.py), one *)
(* queue and one writer task per client (web/connection_manager.py,        *)
(* web/routes/websocket.py), and the two sources of a frame, the live      *)
(* StateStore and the store of a replay (state.py, web/replay_manager.py). *)
(*                                                                         *)
(* An action is what the event loop runs between two awaits.  A frame is   *)
(* built only when its key differs from the last one sent, so everything   *)
(* a frame shows must move the key.                                        *)
(***************************************************************************)
EXTENDS Integers

CONSTANTS
  Clients,         \* WebSocket endpoints
  CycleIds,        \* the complete cycles a replay may show
  Depth,           \* the rounds each of them has
  Bodies,          \* what a frame can show of the live StateStore
  KeepaliveTicks,  \* KEEPALIVE_SECONDS / TICK_SECONDS
  MaxVersion,      \* bound: store mutations
  MaxConnects,     \* bound: connections accepted
  NoFrame,         \* an empty queue, or no frame taken yet
  NoStore          \* None, without a replay

ReplayRounds == UNION {{<<c, r>> : r \in 1..Depth[c]} : c \in CycleIds}

\* What a frame shows: the view of its source, and the jobs.
Frames ==
  [view : [body : Bodies] \cup [cycle : CycleIds, round : Nat, panels : ReplayRounds],
   jobs : Bodies]

ReplayStores ==
  [version : Nat, cycle : CycleIds, round : Nat, panels : ReplayRounds]

ASSUME BroadcastAssumption ==
  /\ Depth \in [CycleIds -> Nat \ {0}]
  /\ KeepaliveTicks \in Nat \ {0}
  /\ MaxVersion \in Nat \ {0}
  /\ MaxConnects \in Nat
  /\ NoFrame \notin Frames
  /\ NoStore \notin ReplayStores

VARIABLES
  version,     \* _VERSIONS, the counter all stores draw from
  live,        \* the StateStore: its version, and what a frame shows of it
  store,       \* ReplayManager._store
  loading,     \* the cycle and round that the holder of its lock is reading
  clients,     \* the keys of ConnectionManager._clients
  tasks,       \* the keys of ConnectionManager._tasks
  generation,  \* connections accepted so far
  endpoint,    \* where the ws_state handler of each client is
  writer,      \* where the writer task of each client is
  queue,       \* the one-frame queue of each client
  hand,        \* the frame each writer last took from its queue
  stalled,     \* the clients that do not read from their socket
  last         \* BroadcastState: last_key, and the ticks since the last frame

replayVars == <<store, loading>>
clientVars == <<clients, tasks, generation, endpoint, writer, queue, hand, stalled>>
vars == <<version, live, replayVars, clientVars, last>>

\* BroadcastState.last_key before the first frame; versions begin at 1.
NoKey == <<0, 0, 0>>

-----------------------------------------------------------------------------
(* Frames. *)

HasStore == store # NoStore

\* snapshot_to_json: the replay's view once its store is there; the jobs, here
\* a part of the body, always from the live store.
View ==
  IF HasStore
  THEN [cycle |-> store.cycle, round |-> store.round, panels |-> store.panels]
  ELSE [body |-> live.body]

Frame == [view |-> View, jobs |-> live.body]

\* Bug: the key has the source's version only, so a job that ends during a
\* replay does not move it.
SourceKey ==
  <<IF HasStore THEN store.version ELSE live.version, 0, generation>>

\* frame_key.
FrameKey ==
  <<IF HasStore THEN store.version ELSE live.version, live.version, generation>>

-----------------------------------------------------------------------------
Init ==
  /\ version = 1
  /\ live \in {[version |-> 1, body |-> b] : b \in Bodies}
  /\ store = NoStore /\ loading = <<>>
  /\ clients = {} /\ tasks = {} /\ generation = 0
  /\ endpoint = [c \in Clients |-> "out"] /\ writer = [c \in Clients |-> "none"]
  /\ queue = [c \in Clients |-> NoFrame] /\ hand = [c \in Clients |-> NoFrame]
  /\ stalled = {}
  /\ last = [key |-> NoKey, age |-> KeepaliveTicks]

\* next(_VERSIONS), for a mutation whose single steps nobody can observe.
Draw == version < MaxVersion /\ version' = version + 1

\* Any setter of the live StateStore: a run, a job, an error, the governor.
Mutate(b) ==
  /\ Draw
  /\ live' = [version |-> version', body |-> b]
  /\ UNCHANGED <<replayVars, clientVars, last>>

-----------------------------------------------------------------------------
(* Replay.  Every operation runs under ReplayManager._lock.  Requests wait for
   it in order, and what the routes checked before may be stale when they have
   it; which requests wait is left out, so any operation may be the next. *)

Ops == [op : {"start"}, cycle : CycleIds] \cup [op : {"seek"}, round : 1..3]
         \cup [op : {"advance"}]

\* The cycle and the round that an operation will show; advance and seek stay
\* within the cycle's depth.
Goal(o) ==
  IF o.op = "start" THEN <<o.cycle, 1>>
  ELSE LET r == IF o.op = "seek" THEN o.round ELSE store.round + 1
           depth == Depth[store.cycle]
       IN <<store.cycle, IF r > depth THEN depth ELSE r>>

\* start is refused while a replay is active, advance and seek without one or
\* when they are there already.
MustRead(o) == IF o.op = "start" THEN ~HasStore ELSE HasStore /\ Goal(o)[2] # store.round

\* start, advance and seek up to the reads of _load_round.
BeginLoad(o) ==
  /\ loading = <<>> /\ MustRead(o)
  /\ loading' = Goal(o)
  /\ UNCHANGED <<version, live, store, clientVars, last>>

\* ReplayManager._show: round and panels in one step.
Show ==
  /\ loading # <<>>
  /\ Draw
  /\ store' = [version |-> version', cycle |-> loading[1], round |-> loading[2],
               panels |-> loading]
  /\ loading' = <<>>
  /\ UNCHANGED <<live, clientVars, last>>

LoadFails ==
  /\ loading # <<>>
  /\ loading' = <<>>
  /\ UNCHANGED <<version, live, store, clientVars, last>>

StopReplay ==
  /\ loading = <<>> /\ HasStore
  /\ store' = NoStore
  /\ UNCHANGED <<version, live, loading, clientVars, last>>

-----------------------------------------------------------------------------
(* Clients. *)

\* connect: after accept() there is no await.
Connect(c) ==
  /\ endpoint[c] = "out" /\ writer[c] = "none"
  /\ generation < MaxConnects
  /\ endpoint' = [endpoint EXCEPT ![c] = "open"]
  /\ clients' = clients \cup {c}
  /\ tasks' = tasks \cup {c}
  /\ writer' = [writer EXCEPT ![c] = "new"]
  /\ generation' = generation + 1
  /\ UNCHANGED <<version, live, replayVars, queue, hand, stalled, last>>

\* task.cancel(): a task that never ran will not run, and its finally neither.
Cancelled(w) == IF w = "new" THEN "stillborn" ELSE "cancelled"

\* disconnect, up to the await of the writer it cancelled, if there is one.
Disconnect(c) ==
  /\ endpoint[c] = "open"
  /\ IF c \in tasks
     THEN /\ tasks' = tasks \ {c}
          /\ writer' = [writer EXCEPT ![c] = Cancelled(@)]
          /\ endpoint' = [endpoint EXCEPT ![c] = "leaving"]
          /\ UNCHANGED clients
          /\ UNCHANGED stalled
     ELSE /\ clients' = clients \ {c}
          /\ endpoint' = [endpoint EXCEPT ![c] = "out"]
          /\ stalled' = stalled \ {c}
          /\ UNCHANGED <<tasks, writer>>
  /\ UNCHANGED <<version, live, replayVars, generation, queue, hand, last>>

\* The queue and the writer's frame go with the last reference to them.
DropFrames(c) ==
  /\ queue' = [queue EXCEPT ![c] = NoFrame]
  /\ hand' = [hand EXCEPT ![c] = NoFrame]

\* Bug: disconnect leaves the registry to the writer's finally.
LeaveToWriter(c) ==
  /\ endpoint[c] = "leaving" /\ writer[c] = "none"
  /\ endpoint' = [endpoint EXCEPT ![c] = "out"]
  /\ UNCHANGED <<version, live, replayVars, clients, tasks, generation, writer,
                 queue, hand, stalled, last>>

\* The rest of disconnect, once the writer is done.
Disconnected(c) ==
  /\ endpoint[c] = "leaving" /\ writer[c] = "none"
  /\ endpoint' = [endpoint EXCEPT ![c] = "out"]
  /\ clients' = clients \ {c}
  /\ stalled' = stalled \ {c}
  /\ DropFrames(c)
  /\ UNCHANGED <<version, live, replayVars, tasks, generation, writer, last>>

\* The writer takes the frame in its queue, or waits for one.
NextFrame(c) ==
  /\ hand' = IF queue[c] = NoFrame THEN hand ELSE [hand EXCEPT ![c] = queue[c]]
  /\ writer' = [writer EXCEPT ![c] = IF queue[c] = NoFrame THEN "waiting" ELSE "sending"]
  /\ queue' = [queue EXCEPT ![c] = NoFrame]
  /\ UNCHANGED <<version, live, replayVars, clients, tasks, generation,
                 endpoint, stalled, last>>

StartWriter(c) == writer[c] = "new" /\ NextFrame(c)
GetFrame(c) == writer[c] = "waiting" /\ queue[c] # NoFrame /\ NextFrame(c)
Sent(c) == writer[c] = "sending" /\ NextFrame(c)

\* The writer's finally, after a failed send or a cancellation.
WriterEnds(c) ==
  /\ writer[c] \in {"sending", "cancelled"}
  /\ writer' = [writer EXCEPT ![c] = "none"]
  /\ clients' = clients \ {c}
  /\ tasks' = tasks \ {c}
  /\ DropFrames(c)
  /\ UNCHANGED <<version, live, replayVars, generation, endpoint, stalled, last>>

\* A task that was cancelled before it ran ends without running.
WriterNeverRan(c) ==
  /\ writer[c] = "stillborn"
  /\ writer' = [writer EXCEPT ![c] = "none"]
  /\ UNCHANGED <<version, live, replayVars, clients, tasks, generation, endpoint,
                 queue, hand, stalled, last>>

\* The browser stops reading; its writer stays in send_text.
Stall(c) ==
  /\ endpoint[c] = "open" /\ c \notin stalled
  /\ stalled' = stalled \cup {c}
  /\ UNCHANGED <<version, live, replayVars, clients, tasks, generation, endpoint,
                 writer, queue, hand, last>>

-----------------------------------------------------------------------------
(* The broadcaster. *)

Older(age) == IF age < KeepaliveTicks THEN age + 1 ELSE age

\* ConnectionManager.broadcast: the newest frame replaces one not yet taken.
Put(f) == queue' = [c \in Clients |-> IF c \in clients THEN f ELSE queue[c]]

MustSend == FrameKey # last.key \/ last.age = KeepaliveTicks

besides == <<version, live, replayVars, clients, tasks, generation, endpoint,
             writer, hand, stalled>>

Send == Put(Frame) /\ last' = [key |-> FrameKey, age |-> 1]
Skip == UNCHANGED queue /\ last' = [last EXCEPT !.age = Older(@)]

\* Bug: the put waits for room in every queue.
TickWithRoom ==
  /\ \A c \in clients : queue[c] = NoFrame
  /\ IF clients # {} /\ MustSend THEN Send ELSE Skip
  /\ UNCHANGED besides

\* broadcast_tick.
Tick ==
  /\ IF clients # {} /\ MustSend THEN Send ELSE Skip
  /\ UNCHANGED besides

\* The frame cannot be built: the loop logs it and ticks on.
TickFails ==
  /\ clients # {} /\ MustSend
  /\ Skip
  /\ UNCHANGED besides

-----------------------------------------------------------------------------
ReplayStep == (\E o \in Ops : BeginLoad(o)) \/ Show \/ LoadFails \/ StopReplay

WriterStep(c) ==
  StartWriter(c) \/ GetFrame(c) \/ Sent(c) \/ WriterEnds(c) \/ WriterNeverRan(c)

ClientStep ==
  \E c \in Clients :
    Connect(c) \/ Disconnect(c) \/ Disconnected(c) \/ Stall(c) \/ WriterStep(c)

Next ==
  \/ \E b \in Bodies : Mutate(b)
  \/ ReplayStep
  \/ ClientStep
  \/ Tick
  \/ TickFails

Spec == Init /\ [][Next]_vars

\* The loop ticks and can build a frame in the end, writers run, and a socket that is read from takes its frame.
FairSpec ==
  /\ Spec
  /\ WF_vars(Tick)
  /\ \A c \in Clients :
       /\ WF_vars(StartWriter(c) \/ GetFrame(c))
       /\ WF_vars(c \notin stalled /\ Sent(c))
       /\ WF_vars(writer[c] = "cancelled" /\ WriterEnds(c))
       /\ WF_vars(WriterNeverRan(c) \/ Disconnected(c))

-----------------------------------------------------------------------------
(* Properties. *)

TypeOK ==
  /\ version \in 1..MaxVersion
  /\ live \in [version : 1..MaxVersion, body : Bodies]
  /\ store \in {NoStore} \cup ReplayStores
  /\ loading \in {<<>>} \cup ReplayRounds
  /\ clients \in SUBSET Clients /\ tasks \in SUBSET Clients
  /\ generation \in 0..MaxConnects
  /\ endpoint \in [Clients -> {"out", "open", "leaving"}]
  /\ writer \in [Clients -> {"none", "new", "waiting", "sending", "cancelled", "stillborn"}]
  /\ queue \in [Clients -> {NoFrame} \cup Frames]
  /\ hand \in [Clients -> {NoFrame} \cup Frames]
  /\ stalled \in SUBSET Clients
  /\ last \in [key : Nat \X Nat \X Nat, age : 1..KeepaliveTicks]

\* A frame never mixes two rounds or two cycles: the panels of the replay's
\* store are those of the round it shows (replay_manager.py:3, "never streams
\* a half-loaded round").
ReplayIsWhole == HasStore => store.panels = <<store.cycle, store.round>>

\* The newest frame that a client has been handed by now.
Newest(c) == IF queue[c] # NoFrame THEN queue[c] ELSE hand[c]

\* A tick that skips costs nobody anything: with an unchanged key, the frame it
\* would build is the one every client was given last (broadcaster.py:1).
SkipIsHarmless ==
  FrameKey = last.key => \A c \in clients : Newest(c) = Frame

\* What a client has is a frame of one moment, and the newest one whenever the
\* broadcaster believes there is nothing to send (broadcaster.py:85-142).
FramesAreTrue == ReplayIsWhole /\ SkipIsHarmless

\* No client is put into a dead queue for long, and none stays registered when
\* its endpoint has gone (connection_manager.py:75, B7).
RegistryIsClean ==
  /\ tasks \subseteq clients
  /\ \A c \in clients :
       \/ endpoint[c] = "open" /\ writer[c] \in {"new", "waiting", "sending"}
       \/ endpoint[c] = "leaving"
  /\ \A c \in Clients : endpoint[c] = "out" => writer[c] = "none"

\* A client that reads its socket is shown what is true in the end, however
\* slow the others are (docs/DECISIONS.md:352).
Served(c) == c \in clients /\ c \notin stalled /\ endpoint[c] = "open"
CatchesUp ==
  \A c \in Clients :
    <>[]Served(c) => <>[](hand[c] = Frame) /\ []<><<Sent(c)>>_vars
=============================================================================
