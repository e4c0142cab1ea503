--------------------------- MODULE BroadcastProofs ---------------------------
(***************************************************************************)
(* The broadcast, for any number of clients, cycles and mutations: types,  *)
(* whole rounds, a clean registry, and that a skipped tick is harmless.    *)
(***************************************************************************)
EXTENDS Broadcast, TLAPS

\* The key and the frame of a tick that finds st as the replay's store.
KeyOf(st) ==
  <<IF st # NoStore THEN st.version ELSE live.version, live.version, generation>>

FrameOf(st) ==
  [view |-> IF st # NoStore
            THEN [cycle |-> st.cycle, round |-> st.round, panels |-> st.panels]
            ELSE [body |-> live.body],
   jobs |-> live.body]

\* The two stores never have the same version, and none is ahead of the counter;
\* nor is the last key.
VersionInv ==
  /\ live.version <= version
  /\ HasStore => store.version <= version /\ store.version # live.version
  /\ last.key[1] <= version /\ last.key[2] <= version
  /\ last.key[3] <= generation

\* Also when the replay ends before the next tick, an unchanged key means that
\* everybody has the frame.
GreetedInv ==
  \A st \in {store, NoStore} :
    KeyOf(st) = last.key => \A c \in clients : Newest(c) = FrameOf(st)

Alive == {"new", "waiting", "sending"}

\* What holds of the two dicts, the task and the handler of a client: a
\* registered task is the live writer of an open endpoint.
RegistryAt(c) ==
  /\ c \in tasks => c \in clients /\ endpoint[c] = "open"
  /\ c \in clients =>
       \/ endpoint[c] = "open" /\ writer[c] \in Alive
       \/ endpoint[c] = "leaving"
  /\ endpoint[c] = "open" => (c \in tasks <=> writer[c] \in Alive)
  /\ endpoint[c] = "open" => writer[c] \in Alive \cup {"none"}
  /\ endpoint[c] = "out" => writer[c] = "none"

RegistryInv == \A c \in Clients : RegistryAt(c)

IInv == TypeOK /\ VersionInv /\ GreetedInv /\ ReplayIsWhole /\ RegistryInv

-----------------------------------------------------------------------------
\* A replay round is a cycle and one of its rounds.
LEMMA RoundParts ==
  ASSUME NEW r \in ReplayRounds
  PROVE  r = <<r[1], r[2]>> /\ r[1] \in CycleIds /\ r[2] \in Nat
<1>1. PICK c \in CycleIds : \E n \in 1..Depth[c] : r = <<c, n>>
  BY DEF ReplayRounds
<1>2. PICK n \in 1..Depth[c] : r = <<c, n>>
  BY <1>1
<1>. QED
  BY <1>2, BroadcastAssumption

\* What a tick sends is a frame.
LEMMA FrameType ==
  ASSUME TypeOK
  PROVE  Frame \in Frames /\ Frame # NoFrame
<1>1. View \in [body : Bodies] \cup [cycle : CycleIds, round : Nat, panels : ReplayRounds]
  BY DEF TypeOK, View, HasStore, ReplayStores
<1>2. Frame \in Frames
  BY <1>1 DEF TypeOK, Frame, Frames
<1>. QED
  BY <1>2, BroadcastAssumption

\* The goal of an operation that must read is a round of a cycle.
LEMMA GoalType ==
  ASSUME TypeOK, NEW o \in Ops, MustRead(o)
  PROVE  Goal(o) \in ReplayRounds
<1>1. CASE o.op = "start"
  <2>1. o.cycle \in CycleIds
    BY <1>1 DEF Ops
  <2>. QED
    BY <1>1, <2>1, BroadcastAssumption DEF Goal, ReplayRounds
<1>2. CASE o.op # "start"
  <2>1. store \in ReplayStores
    BY <1>2 DEF MustRead, HasStore, TypeOK
  <2>2. store.cycle \in CycleIds /\ store.round \in Nat /\ Depth[store.cycle] \in Nat \ {0}
    BY <2>1, BroadcastAssumption DEF ReplayStores
  <2>3. Goal(o)[1] = store.cycle /\ Goal(o)[2] \in 1..Depth[store.cycle]
        /\ Goal(o) = <<Goal(o)[1], Goal(o)[2]>>
    BY <1>2, <2>2 DEF Goal, Ops
  <2>. QED
    BY <2>2, <2>3 DEF ReplayRounds
<1>. QED
  BY <1>1, <1>2

-----------------------------------------------------------------------------
\* Types.
LEMMA TypeStep ==
  ASSUME TypeOK, [Next]_vars
  PROVE  TypeOK'
<1>. USE BroadcastAssumption
<1>1. ASSUME NEW b \in Bodies, Mutate(b) PROVE TypeOK'
  BY <1>1 DEF TypeOK, Mutate, Draw, replayVars, clientVars
<1>2. ASSUME NEW o \in Ops, BeginLoad(o) PROVE TypeOK'
  <2>1. Goal(o) \in ReplayRounds
    BY <1>2, GoalType DEF BeginLoad
  <2>. QED
    BY <1>2, <2>1 DEF TypeOK, BeginLoad, clientVars
<1>3. CASE Show
  <2>1. loading \in ReplayRounds
    BY <1>3 DEF Show, TypeOK
  <2>2. loading[1] \in CycleIds /\ loading[2] \in Nat
    BY <2>1, RoundParts
  <2>3. store' \in ReplayStores
    BY <1>3, <2>1, <2>2 DEF Show, Draw, TypeOK, ReplayStores
  <2>. QED
    BY <1>3, <2>3 DEF TypeOK, Show, Draw, clientVars
<1>4. CASE LoadFails \/ StopReplay
  BY <1>4 DEF TypeOK, LoadFails, StopReplay, clientVars
<1>5. ASSUME NEW c \in Clients, Connect(c) \/ Disconnect(c) \/ Disconnected(c) \/ Stall(c)
      PROVE  TypeOK'
  <2>1. CASE Connect(c)
    BY <2>1 DEF TypeOK, Connect, replayVars
  <2>2. CASE Disconnect(c)
    BY <2>2 DEF TypeOK, Disconnect, Cancelled, replayVars
  <2>3. CASE Disconnected(c) \/ Stall(c)
    BY <2>3 DEF TypeOK, Disconnected, Stall, DropFrames, replayVars
  <2>. QED
    BY <1>5, <2>1, <2>2, <2>3
<1>6. ASSUME NEW c \in Clients, WriterStep(c) PROVE TypeOK'
  <2>1. CASE NextFrame(c)
    BY <2>1 DEF TypeOK, NextFrame, replayVars
  <2>2. CASE WriterEnds(c) \/ WriterNeverRan(c)
    BY <2>2 DEF TypeOK, WriterEnds, WriterNeverRan, DropFrames, replayVars
  <2>. QED
    BY <1>6, <2>1, <2>2 DEF WriterStep, StartWriter, GetFrame, Sent
<1>7. CASE Tick \/ TickFails
  <2>1. queue' \in [Clients -> {NoFrame} \cup Frames]
    BY <1>7, FrameType DEF Tick, TickFails, Send, Skip, Put, TypeOK
  <2>2. FrameKey \in Nat \X Nat \X Nat
    BY DEF TypeOK, FrameKey, HasStore, ReplayStores
  <2>3. last' \in [key : Nat \X Nat \X Nat, age : 1..KeepaliveTicks]
    <3>1. CASE Send
      BY <2>2, <3>1 DEF Send
    <3>2. CASE Skip
      BY <3>2 DEF Skip, TypeOK, Older
    <3>. QED
      BY <1>7, <3>1, <3>2 DEF Tick, TickFails
  <2>. QED
    BY <1>7, <2>1, <2>3 DEF TypeOK, Tick, TickFails, besides, replayVars
<1>8. CASE UNCHANGED vars
  BY <1>8 DEF TypeOK, vars, replayVars, clientVars
<1>. QED
  BY <1>1, <1>2, <1>3, <1>4, <1>5, <1>6, <1>7, <1>8 DEF Next, ReplayStep, ClientStep

-----------------------------------------------------------------------------
\* Versions are drawn from one counter.
LEMMA VersionStep ==
  ASSUME TypeOK, VersionInv, [Next]_vars
  PROVE  VersionInv'
<1>. USE DEF TypeOK, VersionInv, HasStore, ReplayStores
<1>1. ASSUME NEW b \in Bodies, Mutate(b) PROVE VersionInv'
  BY <1>1 DEF Mutate, Draw, replayVars, clientVars
<1>2. ASSUME NEW o \in Ops, BeginLoad(o) PROVE VersionInv'
  BY <1>2 DEF BeginLoad, clientVars
<1>3. CASE Show
  BY <1>3 DEF Show, Draw, clientVars
<1>4. CASE LoadFails \/ StopReplay
  BY <1>4 DEF LoadFails, StopReplay, clientVars
<1>5. ASSUME NEW c \in Clients, Connect(c) PROVE VersionInv'
  BY <1>5 DEF Connect, replayVars
<1>6. CASE UNCHANGED <<version, live, replayVars, generation, last>>
  BY <1>6 DEF replayVars
<1>7. CASE Tick \/ TickFails
  <2>1. last'.key = FrameKey \/ last'.key = last.key
    BY <1>7 DEF Tick, TickFails, Send, Skip
  <2>2. FrameKey[1] <= version /\ FrameKey[2] <= version /\ FrameKey[3] <= generation
    BY DEF FrameKey
  <2>. QED
    BY <1>7, <2>1, <2>2 DEF Tick, TickFails, besides, replayVars
<1>8. ASSUME NEW c \in Clients,
             Disconnect(c) \/ Disconnected(c) \/ Stall(c) \/ WriterStep(c)
      PROVE  UNCHANGED <<version, live, replayVars, generation, last>>
  BY <1>8 DEF Disconnect, Disconnected, Stall, WriterStep, StartWriter, GetFrame,
     Sent, NextFrame, WriterEnds, WriterNeverRan
<1>9. CASE UNCHANGED vars
  BY <1>9, <1>6 DEF vars, clientVars
<1>. QED
  BY <1>1, <1>2, <1>3, <1>4, <1>5, <1>6, <1>7, <1>8, <1>9
  DEF Next, ReplayStep, ClientStep

-----------------------------------------------------------------------------
\* Who has been given the newest frame.  A mutation, a new round or a new
\* client moves the key; the end of a replay may move it back, but then only to
\* the key of a frame that everybody has.
LEMMA GreetedStep ==
  ASSUME TypeOK, VersionInv, GreetedInv, [Next]_vars
  PROVE  GreetedInv'
<1>. USE DEF GreetedInv, KeyOf, FrameOf, Newest
<1>1. ASSUME NEW b \in Bodies, Mutate(b) PROVE GreetedInv'
  BY <1>1 DEF TypeOK, VersionInv, Mutate, Draw, replayVars, clientVars
<1>2. ASSUME NEW o \in Ops, BeginLoad(o) PROVE GreetedInv'
  BY <1>2 DEF BeginLoad, clientVars
<1>3. CASE Show
  BY <1>3 DEF TypeOK, VersionInv, Show, Draw, clientVars
<1>4. CASE LoadFails \/ StopReplay
  BY <1>4 DEF LoadFails, StopReplay, clientVars
<1>5. ASSUME NEW c \in Clients, Connect(c) PROVE GreetedInv'
  BY <1>5 DEF TypeOK, VersionInv, Connect, replayVars
<1>6. ASSUME NEW c \in Clients, Disconnect(c) \/ Stall(c) \/ WriterNeverRan(c)
      PROVE  GreetedInv'
  BY <1>6 DEF Disconnect, Stall, WriterNeverRan, replayVars
<1>7. ASSUME NEW c \in Clients, Disconnected(c) \/ WriterEnds(c) PROVE GreetedInv'
  BY <1>7 DEF TypeOK, Disconnected, WriterEnds, DropFrames, replayVars
<1>8. ASSUME NEW c \in Clients, NextFrame(c) PROVE GreetedInv'
  <2>1. ASSUME NEW d \in Clients PROVE Newest(d)' = Newest(d)
    <3>1. CASE d = c
      BY <1>8, <3>1 DEF NextFrame, TypeOK
    <3>2. CASE d # c
      <4>1. queue'[d] = queue[d] /\ hand'[d] = hand[d]
        BY <1>8, <3>2 DEF NextFrame, TypeOK
      <4>. QED
        BY <4>1
    <3>. QED
      BY <3>1, <3>2
  <2>. QED
    BY <1>8, <2>1 DEF NextFrame, TypeOK, replayVars
<1>9. CASE Tick \/ TickFails
  <2>1. UNCHANGED <<live, store, clients, generation, hand>>
    BY <1>9 DEF Tick, TickFails, besides, replayVars
  <2>2. CASE Send
    <3>1. last'.key = FrameKey /\ \A c \in clients : Newest(c)' = Frame
      BY <2>1, <2>2, FrameType DEF Send, Put, TypeOK
    <3>2. FrameKey = KeyOf(store) /\ Frame = FrameOf(store)
      BY DEF FrameKey, Frame, View, HasStore
    <3>3. HasStore => KeyOf(NoStore) # FrameKey
      BY DEF FrameKey, VersionInv, TypeOK, HasStore, ReplayStores
    <3>. QED
      BY <2>1, <3>1, <3>2, <3>3 DEF HasStore
  <2>3. CASE Skip
    <3>1. last'.key = last.key /\ queue' = queue
      BY <2>3 DEF Skip, TypeOK
    <3>. QED
      BY <2>1, <3>1
  <2>. QED
    BY <1>9, <2>2, <2>3 DEF Tick, TickFails
<1>10. CASE UNCHANGED vars
  BY <1>10 DEF vars, replayVars, clientVars
<1>. QED
  BY <1>1, <1>2, <1>3, <1>4, <1>5, <1>6, <1>7, <1>8, <1>9, <1>10
  DEF Next, ReplayStep, ClientStep, WriterStep, StartWriter, GetFrame, Sent

-----------------------------------------------------------------------------
\* A round is shown with the panels that were read for it.
LEMMA WholeStep ==
  ASSUME TypeOK, ReplayIsWhole, [Next]_vars
  PROVE  ReplayIsWhole'
<1>. USE DEF ReplayIsWhole, HasStore
<1>1. CASE Show
  <2>1. loading \in ReplayRounds
    BY <1>1 DEF Show, TypeOK
  <2>2. loading = <<loading[1], loading[2]>>
    BY <2>1, RoundParts
  <2>. QED
    BY <1>1, <2>2 DEF Show
<1>2. CASE StopReplay
  BY <1>2 DEF StopReplay
<1>3. CASE UNCHANGED store
  BY <1>3
<1>. QED
  BY <1>1, <1>2, <1>3 DEF Next, ReplayStep, ClientStep, WriterStep, Mutate, BeginLoad,
     LoadFails, Connect, Disconnect, Disconnected, Stall, StartWriter, GetFrame, Sent,
     NextFrame, WriterEnds, WriterNeverRan, Tick, TickFails, besides, vars, replayVars

-----------------------------------------------------------------------------
\* A step changes the registry for one client at most.
LEMMA RegistryStep ==
  ASSUME TypeOK, RegistryInv, [Next]_vars
  PROVE  RegistryInv'
<1>. SUFFICES ASSUME NEW d \in Clients PROVE RegistryAt(d)'
  BY DEF RegistryInv
<1>. USE DEF RegistryInv, RegistryAt, Alive, TypeOK
<1>1. ASSUME NEW c \in Clients, Connect(c) PROVE RegistryAt(d)'
  BY <1>1 DEF Connect
<1>2. ASSUME NEW c \in Clients, Disconnect(c) PROVE RegistryAt(d)'
  BY <1>2 DEF Disconnect, Cancelled
<1>3. ASSUME NEW c \in Clients, Disconnected(c) PROVE RegistryAt(d)'
  BY <1>3 DEF Disconnected
<1>4. ASSUME NEW c \in Clients, StartWriter(c) \/ GetFrame(c) \/ Sent(c)
      PROVE  RegistryAt(d)'
  BY <1>4 DEF StartWriter, GetFrame, Sent, NextFrame
<1>5. ASSUME NEW c \in Clients, WriterEnds(c) PROVE RegistryAt(d)'
  BY <1>5 DEF WriterEnds
<1>6. ASSUME NEW c \in Clients, WriterNeverRan(c) PROVE RegistryAt(d)'
  BY <1>6 DEF WriterNeverRan
<1>7. CASE UNCHANGED <<clients, tasks, endpoint, writer>>
  BY <1>7
<1>. QED
  BY <1>1, <1>2, <1>3, <1>4, <1>5, <1>6, <1>7 DEF Next, ReplayStep, ClientStep,
     WriterStep, Mutate, BeginLoad, Show, LoadFails, StopReplay, Stall, Tick, TickFails,
     besides, vars, clientVars

-----------------------------------------------------------------------------
\* The inductive invariant.
LEMMA InitIInv == Init => IInv
<1>. SUFFICES ASSUME Init PROVE IInv
  OBVIOUS
<1>. USE BroadcastAssumption DEF Init
<1>1. TypeOK
  BY DEF TypeOK, NoKey
<1>2. VersionInv /\ ReplayIsWhole
  BY DEF VersionInv, ReplayIsWhole, HasStore, NoKey
<1>3. GreetedInv
  BY DEF GreetedInv
<1>4. RegistryInv
  BY DEF RegistryInv, RegistryAt, Alive
<1>. QED
  BY <1>1, <1>2, <1>3, <1>4 DEF IInv

LEMMA IInvStep == IInv /\ [Next]_vars => IInv'
<1>. SUFFICES ASSUME IInv, [Next]_vars PROVE IInv'
  OBVIOUS
<1>1. TypeOK'
  BY TypeStep DEF IInv
<1>2. VersionInv' /\ GreetedInv' /\ ReplayIsWhole'
  BY VersionStep, GreetedStep, WholeStep DEF IInv
<1>3. RegistryInv'
  BY RegistryStep DEF IInv
<1>. QED
  BY <1>1, <1>2, <1>3 DEF IInv

LEMMA Invariance == Spec => []IInv
<1>. QED
  BY InitIInv, IInvStep, PTL DEF Spec

\* The variables of the broadcaster, its clients and the replay keep their types.
THEOREM BroadcastTypes == Spec => []TypeOK
<1>1. IInv => TypeOK
  BY DEF IInv
<1>. QED
  BY <1>1, Invariance, PTL

\* A tick that skips would have sent everybody what they were given last
\* (frame_key, broadcaster.py:84): whatever a frame shows moves the key, and no
\* key comes back for another frame, though a replay begins, moves and ends.
THEOREM SkipsAreHarmless == Spec => []SkipIsHarmless
<1>1. IInv => SkipIsHarmless
  <2>. SUFFICES ASSUME IInv PROVE SkipIsHarmless
    OBVIOUS
  <2>1. FrameKey = KeyOf(store) /\ Frame = FrameOf(store)
    BY DEF FrameKey, KeyOf, Frame, FrameOf, View, HasStore
  <2>. QED
    BY <2>1 DEF IInv, GreetedInv, SkipIsHarmless
<1>. QED
  BY <1>1, Invariance, PTL

\* No frame shows the panels of one round under the number of another
\* (ReplayManager._show, replay_manager.py:3).
THEOREM ReplayRoundsWhole == Spec => []ReplayIsWhole
<1>1. IInv => ReplayIsWhole
  BY DEF IInv
<1>. QED
  BY <1>1, Invariance, PTL

\* No client is registered without a writer or an endpoint that is about to
\* remove it, wherever the writer was cancelled (connection_manager.py:75).
THEOREM RegistryStaysClean == Spec => []RegistryIsClean
<1>1. IInv => RegistryIsClean
  BY DEF IInv, TypeOK, RegistryInv, RegistryAt, Alive, RegistryIsClean
<1>. QED
  BY <1>1, Invariance, PTL

\* Frames are of one moment, and a skipped tick would have sent nothing new.
THEOREM FramesTrue == Spec => []FramesAreTrue
BY ReplayRoundsWhole, SkipsAreHarmless, PTL DEF FramesAreTrue
=============================================================================
