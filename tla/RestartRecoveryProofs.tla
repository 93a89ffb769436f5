----------------------- MODULE RestartRecoveryProofs -----------------------
(***************************************************************************)
(* Proofs about restarts, for every set of lights, every length of a day   *)
(* and of a short restart, and every crash.                                *)
(***************************************************************************)
EXTENDS RestartRecovery, TLAPS

-----------------------------------------------------------------------------
(* The inductive invariant *)

\* Facts about a payload: what it holds was asked for before it was saved, by
\* lights in its scope, and none of it had outlived a 01:59.
Dated(p) == \A l \in Lights : p.since[l] <= p.saved
Scoped(p) == \A l \in Lights :
  p.layers[l] # "none" => l \in (Configured \ p.seen) \cup p.members
Clean(p) == \A l \in Lights : p.layers[l] # "none" => ~Crossed(p.since[l], p.saved)

\* The payload that would be exported now.
Memory == Export(held, since, members, seen, generation)

\* A process that is down remembers nothing and has nothing to do; the 01:59
\* handler is due at 01:59.
Idleness ==
  /\ process = "down" =>
       ~due /\ ~owed /\ queue = Nothing /\ \A l \in Lights : since[l] = 0
  /\ due => process = "up" /\ Boundary(now)

\* What is not expired yet is about to be, and so is what was saved of it.
Expiry ==
  ~torn =>
    /\ process # "down" /\ ~due => Clean(Memory)
    /\ queue # Nothing => Clean(queue) \/ (Boundary(now) /\ (due \/ owed))
    /\ disk # Nothing => Clean(disk) \/ (Boundary(now) /\ ~Settled)

Scope ==
  /\ process # "down" => Scoped(Memory)
  /\ queue # Nothing => queue.saved = now /\ Dated(queue) /\ Scoped(queue)
  /\ disk # Nothing => Dated(disk) /\ Scoped(disk)

\* A generation is on disk before its process listens.
Generations ==
  /\ \A g \in used : disk # Nothing /\ g <= disk.generation
  /\ process # "down" => generation > 0 /\ \A g \in used : g <= generation
  /\ process = "starting" => \A g \in used : g < generation
  /\ process = "starting" /\ queue = Nothing => disk # Nothing /\ disk.generation = generation
  /\ process = "up" => disk # Nothing /\ disk.generation = generation
  /\ queue # Nothing => queue.generation = generation

\* A retired light is known, and no member, to the process, the payload on its
\* way and the disk.
Retirement ==
  /\ process # "down" => retired \subseteq seen \ members
  /\ queue # Nothing => retired \subseteq queue.seen \ queue.members /\ queue.seen \subseteq seen
  /\ IF disk = Nothing THEN retired = {} ELSE retired \subseteq disk.seen \ disk.members

RecoveryInv == TypeOK /\ Idleness /\ Expiry /\ Scope /\ Generations /\ Retirement
-----------------------------------------------------------------------------
(* Payloads *)

\* What is exported is a payload, dated now, and never taken for nothing.
LEMMA Exported ==
  ASSUME NEW layers \in [Lights -> Kinds], NEW ages \in [Lights -> 0..MaxNow],
         NEW mem \in SUBSET Lights, NEW known \in SUBSET Lights,
         NEW gen \in 1..MaxGeneration, now \in 0..MaxNow,
         NEW p, p = Export(layers, ages, mem, known, gen)
  PROVE  /\ p \in Payload /\ p # Nothing
         /\ p.saved = now /\ p.generation = gen
         /\ p.layers = layers /\ p.since = ages /\ p.members = mem /\ p.seen = known
  <1>1. p \in Payload
    BY DEF Export, Payload
  <1>2. p # Nothing
    BY <1>1, NothingAssumption
  <1> QED BY <1>1, <1>2 DEF Export

\* The fields of a payload.
LEMMA PayloadFields ==
  ASSUME NEW p \in Payload
  PROVE  /\ p.saved \in 0..MaxNow /\ p.generation \in 1..MaxGeneration
         /\ p.layers \in [Lights -> Kinds] /\ p.since \in [Lights -> 0..MaxNow]
         /\ p.members \in SUBSET Lights /\ p.seen \in SUBSET Lights
  BY DEF Payload

\* Memory is a payload while a process runs.
LEMMA MemoryExported ==
  ASSUME RecoveryInv, process # "down"
  PROVE  /\ Memory \in Payload /\ Memory # Nothing
         /\ Memory.saved = now /\ Memory.generation = generation
         /\ Memory.layers = held /\ Memory.since = since
         /\ Memory.members = members /\ Memory.seen = seen
  <1>1. generation \in 1..MaxGeneration
    BY RecoveryAssumption DEF RecoveryInv, TypeOK, Generations
  <1> QED BY <1>1, Exported DEF Memory, RecoveryInv, TypeOK

\* No 01:59 comes between a date and itself, and one that comes between two
\* dates comes before or after any date in between.
LEMMA CrossedSplit ==
  ASSUME NEW a \in Int, NEW b \in Int, NEW c \in Int, a <= b, b <= c,
         ~Crossed(a, b), ~Crossed(b, c)
  PROVE  ~Crossed(a, c)
  BY DEF Crossed

LEMMA NotCrossedAtOnce ==
  ASSUME NEW a \in Int
  PROVE  ~Crossed(a, a)
  BY DEF Crossed

\* The next tick crosses only the 01:59 it may be itself.
LEMMA NotCrossedByTick ==
  ASSUME NEW a \in Int, NEW b \in Int, ~Crossed(a, b), ~Boundary(b + 1)
  PROVE  ~Crossed(a, b + 1)
  BY DEF Crossed

-----------------------------------------------------------------------------
(* Steps *)

\* The memory of no process.
LEMMA Blank ==
  /\ Nobody \in [Lights -> Kinds]
  /\ [l \in Lights |-> 0] \in [Lights -> 0..MaxNow]
  /\ 0 \in 0..MaxNow /\ 0 \in 0..MaxGeneration
  BY RecoveryAssumption DEF Nobody, Kinds

LEMMA InitInv ==
  Init => RecoveryInv
  <1> SUFFICES ASSUME Init
               PROVE  RecoveryInv
    OBVIOUS
  <1>1. TypeOK
    <2>1. held \in [Lights -> Kinds] /\ since \in [Lights -> 0..MaxNow]
      BY Blank DEF Init
    <2>2. \A l \in Lights : since[l] <= now
      BY DEF Init
    <2> QED BY <2>1, <2>2, Blank DEF Init, TypeOK
  <1>2. Idleness /\ Expiry /\ Scope /\ Generations /\ Retirement
    BY DEF Init, Idleness, Expiry, Scope, Generations, Retirement
  <1> QED BY <1>1, <1>2 DEF RecoveryInv

\* Handing memory to the Store, with a pending task or without.
LEMMA SavedInv ==
  ASSUME RecoveryInv, RunSave \/ Heartbeat
  PROVE  RecoveryInv'
  <1>1. /\ process = "up" /\ queue' = Memory /\ owed' \in {owed, FALSE}
        /\ UNCHANGED <<now, due, process, generation, held, members, seen, disk,
                       since, used, torn, retired>>
    BY DEF RunSave, Heartbeat, SaveNow, Memory, Export
  <1>2. /\ queue' \in Payload /\ queue' # Nothing
        /\ queue'.saved = now /\ queue'.generation = generation
        /\ queue'.layers = held /\ queue'.since = since
        /\ queue'.members = members /\ queue'.seen = seen
    BY <1>1, MemoryExported
  <1>3. Memory' = Memory
    BY <1>1 DEF Memory, Export
  <1>4. TypeOK' /\ Idleness'
    BY <1>1, <1>2 DEF RecoveryInv, TypeOK, Idleness
  <1>5. Expiry'
    <2>1. ~torn /\ ~due => Clean(queue')
      BY <1>1 DEF RecoveryInv, Expiry
    <2>2. ~Settled'
      BY <1>2 DEF Settled
    <2>3. ~torn /\ due => Boundary(now)
      BY DEF RecoveryInv, Idleness
    <2>4. disk # Nothing /\ ~torn => Clean(disk) \/ Boundary(now)
      BY DEF RecoveryInv, Expiry
    <2> QED BY <1>1, <1>3, <2>1, <2>2, <2>3, <2>4 DEF RecoveryInv, Expiry, Clean, Crossed, Boundary
  <1>6. Scope'
    BY <1>1, <1>2, <1>3 DEF RecoveryInv, TypeOK, Scope, Scoped, Dated
  <1>7. Generations'
    BY <1>1, <1>2 DEF RecoveryInv, Generations
  <1>8. Retirement'
    BY <1>1, <1>2 DEF RecoveryInv, Retirement
  <1> QED BY <1>4, <1>5, <1>6, <1>7, <1>8 DEF RecoveryInv

LEMMA WriteInv ==
  ASSUME RecoveryInv, Write
  PROVE  RecoveryInv'
  <1> USE DEF Write, RecoveryInv
  <1>1. queue \in Payload /\ queue' = Nothing /\ disk' = queue /\ disk' # Nothing
    BY DEF TypeOK
  <1>2. Memory' = Memory
    BY DEF Memory, Export
  <1>3. retired' = (retired \cup (queue.seen \ queue.members)) \ members
    BY DEF Retired
  <1>4. TypeOK' /\ Idleness'
    BY <1>1, <1>3, PayloadFields DEF TypeOK, Idleness
  <1>5. Expiry'
    BY <1>1, <1>2 DEF Expiry, Clean, Settled, Idleness, Crossed, Boundary
  <1>6. Scope'
    BY <1>1, <1>2 DEF Scope, Scoped, Dated
  <1>7. Generations'
    BY <1>1 DEF Generations
  <1>8. Retirement'
    BY <1>1, <1>3 DEF Retirement
  <1> QED BY <1>4, <1>5, <1>6, <1>7, <1>8

LEMMA ListenInv ==
  ASSUME RecoveryInv, Listen
  PROVE  RecoveryInv'
  <1> USE DEF Listen, RecoveryInv
  <1>1. Memory' = Memory
    BY DEF Memory, Export
  <1>2. TypeOK' /\ Idleness'
    BY RecoveryAssumption DEF TypeOK, Idleness, Generations
  <1>3. Expiry' /\ Scope'
    BY <1>1 DEF Expiry, Scope, Scoped, Dated, Clean, Settled, Idleness, Crossed, Boundary
  <1>4. Generations' /\ Retirement'
    BY DEF Generations, Retirement, TypeOK
  <1> QED BY <1>2, <1>3, <1>4

\* A process that is gone leaves the disk, which is clean unless it went down
\* with an expiry unsaved.
LEMMA GoneInv ==
  ASSUME RecoveryInv, Gone, UNCHANGED <<now, used>>,
         disk' \in Payload \cup {Nothing},
         retired' \in SUBSET Lights,
         disk' # Nothing => Dated(disk') /\ Scoped(disk'),
         ~torn /\ (Boundary(now) => Settled) /\ disk' # Nothing => Clean(disk'),
         \A g \in used : disk' # Nothing /\ g <= disk'.generation,
         IF disk' = Nothing THEN retired' = {}
         ELSE retired' \subseteq disk'.seen \ disk'.members
  PROVE  RecoveryInv'
  <1> USE DEF Gone, RecoveryInv
  <1>0. torn' \in BOOLEAN
    BY DEF TypeOK
  <1>1. TypeOK'
    <2>1. held' \in [Lights -> Kinds] /\ since' \in [Lights -> 0..MaxNow]
      BY Blank
    <2>2. \A l \in Lights : since'[l] <= now'
      BY DEF TypeOK
    <2> QED BY <1>0, <2>1, <2>2, Blank DEF TypeOK
  <1>2. Idleness' /\ Scope' /\ Retirement'
    BY DEF Idleness, Scope, Retirement, Scoped, Dated
  <1>3. Expiry'
    BY DEF Expiry, Clean, Crossed, Boundary, TypeOK
  <1>4. Generations'
    BY DEF Generations
  <1> QED BY <1>1, <1>2, <1>3, <1>4

LEMMA CrashInv ==
  ASSUME RecoveryInv, Crash
  PROVE  RecoveryInv'
  <1>1. ~torn /\ (Boundary(now) => Settled) /\ disk # Nothing => Clean(disk)
    BY DEF RecoveryInv, Expiry
  <1>2. Clean(disk) = Clean(disk') /\ Dated(disk) = Dated(disk') /\ Scoped(disk) = Scoped(disk')
    BY DEF Crash
  <1> QED
    BY <1>1, <1>2, GoneInv
       DEF Crash, RecoveryInv, TypeOK, Scope, Generations, Retirement

LEMMA StopInv ==
  ASSUME RecoveryInv, Stop
  PROVE  RecoveryInv'
  <1>1. disk' = Memory /\ disk' # Nothing /\ retired' = Retired(disk')
    BY MemoryExported DEF Stop, Memory
  <1>2. ~torn /\ (Boundary(now) => Settled) => Clean(Memory)
    BY DEF RecoveryInv, Expiry, Idleness, Settled, Stop
  <1>3. Dated(Memory) /\ Scoped(Memory)
    BY MemoryExported DEF RecoveryInv, TypeOK, Scope, Dated, Stop
  <1>4. \A g \in used : g <= Memory.generation
    BY MemoryExported DEF RecoveryInv, Generations, Stop
  <1>5. retired' \in SUBSET Lights /\ retired' \subseteq Memory.seen \ Memory.members
    BY <1>1, MemoryExported DEF RecoveryInv, TypeOK, Retirement, Retired, Stop
  <1>6. Memory \in Payload /\ Gone /\ UNCHANGED <<now, used>>
    BY MemoryExported DEF Stop
  <1> HIDE DEF Memory
  <1> QED BY <1>1, <1>2, <1>3, <1>4, <1>5, <1>6, GoneInv

\* A running process changes what it holds or its membership, and saves that at
\* once, later, or with the next heartbeat.
LEMMA RememberedInv ==
  ASSUME RecoveryInv, process = "up",
         UNCHANGED <<now, process, generation, disk, used, torn>>,
         held' \in [Lights -> Kinds], since' \in [Lights -> 0..MaxNow],
         members' \in SUBSET Lights, seen' \in SUBSET Lights,
         \A l \in Lights : since'[l] <= now,
         Scoped(Export(held', since', members', seen', generation)),
         ~torn /\ ~due' => Clean(Export(held', since', members', seen', generation)),
         seen \subseteq seen', retired' \subseteq retired, retired' \cap members' = {},
         due' \in BOOLEAN, due' => due,
         \/ SaveNow /\ due' = due
         \/ SaveLater
         \/ NoSave /\ due' = due
  PROVE  RecoveryInv'
  <1> USE DEF RecoveryInv
  <1> DEFINE memory == Export(held', since', members', seen', generation)
  <1>1. /\ memory # Nothing /\ memory \in Payload
        /\ memory.saved = now /\ memory.generation = generation
        /\ memory.since = since' /\ memory.members = members' /\ memory.seen = seen'
    <2>1. generation \in 1..MaxGeneration
      BY RecoveryAssumption DEF TypeOK, Generations
    <2> QED BY <2>1, Exported DEF TypeOK
  <1>2. Memory' = memory
    BY DEF Memory, Export
  <1>3. \/ queue' = memory /\ owed' = owed /\ due' = due
        \/ queue' = queue /\ owed' = TRUE
        \/ queue' = queue /\ owed' = owed /\ due' = due
    BY DEF SaveNow, SaveLater, NoSave, Export
  <1>4. Dated(memory)
    BY <1>1 DEF Dated
  <1> HIDE DEF memory
  <1>5. TypeOK'
    BY <1>1, <1>3 DEF TypeOK
  <1>6. Idleness'
    BY <1>3 DEF Idleness, TypeOK, Boundary
  <1>7. Expiry'
    <2>1. ~torn /\ ~due' => Clean(memory)
      BY DEF memory
    <2>2. ~torn /\ due => Boundary(now)
      BY DEF Idleness
    <2>3. Settled' => Settled /\ queue' # memory
      BY <1>1, <1>3 DEF Settled, TypeOK
    <2> QED
      BY <1>1, <1>2, <1>3, <2>1, <2>2, <2>3 DEF Expiry, Clean, Crossed, Boundary
  <1>8. Scope'
    <2>1. Scoped(memory)
      BY DEF memory
    <2> QED BY <1>1, <1>2, <1>3, <1>4, <2>1 DEF Scope, Scoped, Dated
  <1>9. Generations'
    BY <1>1, <1>3 DEF Generations
  <1>10. Retirement'
    BY <1>1, <1>3 DEF Retirement
  <1> QED BY <1>5, <1>6, <1>7, <1>8, <1>9, <1>10

\* What is asked for now is dated now, and older layers keep their dates.
LEMMA HoldInv ==
  ASSUME RecoveryInv, NEW new \in [Lights -> Kinds], Hold(new),
         \A l \in Lights : new[l] # "none" => l \in Managed,
         due' \in BOOLEAN, due' => due,
         due => due' \/ new = Nobody,
         \/ SaveNow /\ due' = due
         \/ SaveLater
  PROVE  RecoveryInv'
  <1> USE DEF RecoveryInv
  <1> DEFINE memory == Export(held', since', members', seen', generation)
  <1>1. process = "up" /\ held' = new /\ members' = members /\ seen' = seen /\ retired' = retired
    BY DEF Hold
  <1>2. since' \in [Lights -> 0..MaxNow] /\ \A l \in Lights : since'[l] <= now
    <2>1. since' = [l \in Lights |-> IF new[l] = "none" THEN 0
                                    ELSE IF new[l] = held[l] THEN since[l] ELSE now]
      BY DEF Hold
    <2>2. since \in [Lights -> 0..MaxNow] /\ now \in 0..MaxNow
          /\ \A l \in Lights : since[l] <= now
      BY DEF TypeOK
    <2> QED BY <2>1, <2>2, Blank
  <1>3. /\ memory.layers = new /\ memory.since = since' /\ memory.saved = now
        /\ memory.members = members /\ memory.seen = seen
    BY <1>1 DEF Export
  <1>4. Scoped(memory)
    BY <1>3 DEF Scoped, Managed
  <1>5. ASSUME ~torn, ~due'
        PROVE  Clean(memory)
    <2> SUFFICES ASSUME NEW l \in Lights, new[l] # "none"
                 PROVE  ~Crossed(since'[l], now)
      BY <1>3 DEF Clean
    <2>1. CASE new[l] = held[l]
      <3>1. since'[l] = since[l] /\ ~due
        BY <1>1, <1>5, <2>1 DEF Hold, Nobody
      <3>2. Clean(Memory)
        BY <1>1, <1>5, <3>1 DEF Expiry
      <3> QED BY <1>1, <2>1, <3>1, <3>2, MemoryExported DEF Clean
    <2>2. CASE new[l] # held[l]
      <3>1. since'[l] = now
        BY <2>2 DEF Hold
      <3> QED BY <3>1, NotCrossedAtOnce DEF TypeOK
    <2> QED BY <2>1, <2>2
  <1> HIDE DEF memory
  <1> QED
    <2>1. Scoped(Export(held', since', members', seen', generation))
      BY <1>4 DEF memory
    <2>2. ~torn /\ ~due' => Clean(Export(held', since', members', seen', generation))
      BY <1>5 DEF memory
    <2>3. members' \in SUBSET Lights /\ seen' \in SUBSET Lights
          /\ UNCHANGED <<now, process, generation, disk, used, torn>>
      BY <1>1 DEF Hold, TypeOK
    <2>4. retired' \cap members' = {}
      BY <1>1 DEF Retirement
    <2> QED BY <1>1, <1>2, <2>1, <2>2, <2>3, <2>4, RememberedInv

LEMMA IntendInv ==
  ASSUME RecoveryInv, NEW l \in Lights, NEW kind \in Kinds, Intend(l, kind)
  PROVE  RecoveryInv'
  <1> DEFINE new == [held EXCEPT ![l] = kind]
  <1>1. new \in [Lights -> Kinds] /\ Hold(new)
    BY DEF Intend, RecoveryInv, TypeOK
  <1>2. process # "down" /\ l \in Managed
    BY DEF Intend, Hold
  <1>3. \A k \in Lights : held[k] # "none" => k \in Managed
    BY <1>2, MemoryExported DEF RecoveryInv, Scope, Scoped, Managed
  <1>4. \A k \in Lights : new[k] # "none" => k \in Managed
    BY <1>2, <1>3 DEF RecoveryInv, TypeOK
  <1>5. due' = due /\ (SaveNow \/ SaveLater) /\ due \in BOOLEAN
    BY DEF Intend, RecoveryInv, TypeOK
  <1> HIDE DEF new
  <1> QED BY <1>1, <1>4, <1>5, HoldInv

LEMMA ReleaseInv ==
  ASSUME RecoveryInv, Reset \/ NightlyBoundary
  PROVE  RecoveryInv'
  <1>1. Nobody \in [Lights -> Kinds] /\ \A l \in Lights : Nobody[l] = "none"
    BY DEF Nobody, Kinds
  <1>2. due \in BOOLEAN
    BY DEF RecoveryInv, TypeOK
  <1>3. CASE Reset
    BY <1>1, <1>2, <1>3, HoldInv DEF Reset
  <1>4. CASE NightlyBoundary
    BY <1>1, <1>2, <1>4, HoldInv DEF NightlyBoundary
  <1> QED BY <1>3, <1>4

LEMMA MembershipInv ==
  ASSUME RecoveryInv, NEW new \in SUBSET Lights, Membership(new)
  PROVE  RecoveryInv'
  <1> USE DEF RecoveryInv
  <1> DEFINE memory == Export(held', since', members', seen', generation)
  <1>1. /\ process = "up" /\ due' = due /\ members' = new /\ seen' = seen \cup new
        /\ retired' = retired \ new
        /\ UNCHANGED <<now, process, generation, disk, used, torn>>
        /\ SaveLater \/ NoSave
    BY DEF Membership
  <1>2. held' \in [Lights -> Kinds] /\ since' \in [Lights -> 0..MaxNow]
    <2>1. now >= 0 /\ 0 \in 0..MaxNow
      BY Blank DEF TypeOK
    <2> QED BY <2>1 DEF Membership, TypeOK, Kinds
  <1>3. \A l \in Lights :
          /\ held'[l] # "none" => /\ held'[l] = held[l] /\ since'[l] = since[l]
                                  /\ l \in (Configured \ seen') \cup new
          /\ since'[l] <= now
    BY DEF Membership, TypeOK
  <1>4. /\ memory.layers = held' /\ memory.since = since' /\ memory.saved = now
        /\ memory.members = new /\ memory.seen = seen'
    BY <1>1 DEF Export
  <1>5. Scoped(memory)
    BY <1>3, <1>4 DEF Scoped
  <1>6. ~torn /\ ~due' => Clean(memory)
    BY <1>1, <1>3, <1>4, MemoryExported DEF Expiry, Clean
  <1> QED
    BY <1>1, <1>2, <1>3, <1>5, <1>6, RememberedInv DEF TypeOK

LEMMA TickInv ==
  ASSUME RecoveryInv, Tick
  PROVE  RecoveryInv'
  <1> USE DEF Tick, RecoveryInv
  <1>1. process # "starting" /\ Settled /\ now' = now + 1 /\ queue = Nothing
    BY DEF Settled
  <1>2. TypeOK'
    BY RecoveryAssumption DEF TypeOK, Boundary
  <1>3. Idleness'
    BY DEF Idleness, TypeOK, Boundary
  <1>4. Expiry'
    <2>1. ASSUME ~torn, disk # Nothing
          PROVE  Clean(disk')
      BY <1>1, <2>1 DEF Expiry, Clean, Crossed, Boundary
    <2>2. ASSUME ~torn, process # "down", ~due'
          PROVE  Clean(Memory)'
      <3>1. ~Boundary(now + 1) /\ Clean(Memory)
        <4>1. process = "up" /\ now' = now + 1 /\ due' = (process = "up" /\ Boundary(now'))
          BY <1>1, <2>2 DEF TypeOK
        <4>2. ~Boundary(now')
          BY <2>2, <4>1
        <4> QED BY <1>1, <2>2, <4>1, <4>2 DEF Expiry, Boundary, Settled
      <3>2. SUFFICES ASSUME NEW l \in Lights, held[l] # "none"
                     PROVE  ~Crossed(since[l], now + 1)
        BY <1>1 DEF Clean, Memory, Export, Crossed, Boundary
      <3>3. ~Crossed(since[l], now)
        BY <2>2, <3>1, <3>2, MemoryExported DEF Clean
      <3> QED BY <3>1, <3>3, NotCrossedByTick DEF TypeOK
    <2> QED BY <1>1, <2>1, <2>2 DEF Expiry
  <1>5. Scope'
    <2>1. Scoped(Memory) => Scoped(Memory)'
      BY DEF Scoped, Memory, Export
    <2> QED BY <2>1 DEF Scope, Scoped, Dated
  <1>6. Generations' /\ Retirement'
    BY DEF Generations, Retirement
  <1> QED BY <1>2, <1>3, <1>4, <1>5, <1>6

LEMMA ClockLostInv ==
  ASSUME RecoveryInv, ClockLost
  PROVE  RecoveryInv'
  <1> USE DEF ClockLost, RecoveryInv
  <1>1. Settled /\ queue = Nothing /\ ~due /\ now' = 0
    BY DEF Idleness, Settled
  <1>2. TypeOK'
    <2>1. \A l \in Lights : since[l] = 0
      BY DEF Idleness
    <2> QED BY <2>1, Blank DEF TypeOK
  <1>3. Idleness' /\ Generations' /\ Retirement'
    BY <1>1 DEF Idleness, Generations, Retirement
  <1>4. Expiry' /\ Scope'
    BY <1>1 DEF Expiry, Scope, Scoped, Dated, Clean, Crossed, Boundary
  <1> QED BY <1>2, <1>3, <1>4

\* What a new process takes over from the disk.
LEMMA Restoration ==
  ASSUME RecoveryInv, process = "down", NEW scope \in SUBSET Lights
  PROVE  /\ Restored(scope) \in [Lights -> Kinds]
         /\ \A l \in Lights : Restored(scope)[l] # "none" =>
              /\ l \in scope /\ disk \in Payload /\ Restored(scope)[l] = disk.layers[l]
              /\ disk.since[l] \in 0..MaxNow /\ disk.since[l] <= now
              /\ ~torn => ~Crossed(disk.since[l], now)
  <1> USE DEF RecoveryInv
  <1>1. Restored(scope) \in [Lights -> Kinds]
    <2>1. Trustworthy => disk.layers \in [Lights -> Kinds]
      BY PayloadFields DEF Trustworthy, TypeOK
    <2> QED BY <2>1 DEF Restored, Recovered, Kinds
  <1>2. SUFFICES ASSUME NEW l \in Lights, Restored(scope)[l] # "none"
                 PROVE  /\ l \in scope /\ disk \in Payload
                        /\ Restored(scope)[l] = disk.layers[l]
                        /\ disk.since[l] \in 0..MaxNow /\ disk.since[l] <= now
                        /\ ~torn => ~Crossed(disk.since[l], now)
    BY <1>1
  <1>3. /\ Trustworthy /\ l \in scope /\ disk \in Payload
        /\ Restored(scope)[l] = disk.layers[l]
    BY <1>2 DEF Restored, Recovered, Trustworthy, TypeOK
  <1>4. /\ disk.since[l] \in 0..MaxNow /\ disk.saved \in 0..MaxNow
        /\ disk.since[l] <= disk.saved /\ disk.saved <= now
        /\ ~Crossed(disk.saved, now)
    BY <1>3, PayloadFields DEF Trustworthy, Survives, Scope, Dated
  <1>5. ~torn => ~Crossed(disk.since[l], disk.saved)
    BY <1>2, <1>3 DEF Trustworthy, Expiry, Idleness, Settled, Clean
  <1> QED BY <1>3, <1>4, <1>5, CrossedSplit DEF TypeOK

LEMMA BootInv ==
  ASSUME RecoveryInv, NEW observed \in SUBSET Lights, Boot(observed)
  PROVE  RecoveryInv'
  <1> USE DEF RecoveryInv
  <1> DEFINE scope == (Configured \ seen') \cup members'
             memory == Export(held', since', members', seen', generation')
  <1>1. /\ process = "down" /\ process' = "starting" /\ queue' = memory
        /\ held' = Restored(scope) /\ ~due /\ ~owed /\ queue = Nothing
        /\ retired' = retired \ observed
        /\ UNCHANGED <<now, due, owed, disk, used, torn>>
    BY DEF Boot, Idleness
  <1>2. /\ members' = StoredMembers \cup observed
        /\ seen' = members' \cup StoredMembers \cup StoredSeen
        /\ members' \in SUBSET Lights /\ seen' \in SUBSET Lights
    BY PayloadFields DEF Boot, Seeded, SeenAfter, StoredMembers, StoredSeen, TypeOK
  <1>3. scope \in SUBSET Lights
    BY <1>2, RecoveryAssumption
  <1>4. generation' \in 1..MaxGeneration /\ \A g \in used : g < generation'
    <2>1. NextGeneration \in Nat \ {0} /\ NextGeneration <= MaxGeneration
          /\ generation' = NextGeneration
      BY PayloadFields DEF Boot, NextGeneration, TypeOK
    <2>2. \A g \in used : g < NextGeneration
      BY PayloadFields DEF NextGeneration, Generations, TypeOK
    <2> QED BY <2>1, <2>2, RecoveryAssumption
  <1>5. /\ held' \in [Lights -> Kinds]
        /\ \A l \in Lights : held'[l] # "none" =>
             /\ l \in scope /\ disk.since[l] \in 0..MaxNow /\ disk.since[l] <= now
             /\ ~torn => ~Crossed(disk.since[l], now)
    BY <1>1, <1>3, Restoration
  <1>6. since' = [l \in Lights |-> IF held'[l] = "none" THEN 0 ELSE disk.since[l]]
    BY DEF Boot
  <1>7. since' \in [Lights -> 0..MaxNow] /\ \A l \in Lights : since'[l] <= now
    BY <1>5, <1>6, Blank DEF TypeOK
  <1>8. /\ memory \in Payload /\ memory # Nothing
        /\ memory.saved = now /\ memory.generation = generation'
        /\ memory.layers = held' /\ memory.since = since'
        /\ memory.members = members' /\ memory.seen = seen'
    BY <1>2, <1>4, <1>5, <1>7, Exported DEF TypeOK
  <1>9. Memory' = memory
    BY <1>1 DEF Memory, Export
  <1>10. Dated(memory) /\ Scoped(memory) /\ (~torn => Clean(memory))
    BY <1>5, <1>6, <1>7, <1>8 DEF Dated, Scoped, Clean
  <1> HIDE DEF memory, scope
  <1>11. TypeOK'
    BY <1>1, <1>2, <1>4, <1>5, <1>7, <1>8 DEF TypeOK
  <1>12. Idleness'
    BY <1>1 DEF Idleness
  <1>13. Expiry'
    BY <1>1, <1>8, <1>9, <1>10 DEF Expiry, Clean, Settled, Crossed, Boundary
  <1>14. Scope'
    BY <1>1, <1>8, <1>9, <1>10 DEF Scope, Scoped, Dated
  <1>15. Generations'
    BY <1>1, <1>4, <1>8 DEF Generations, TypeOK
  <1>16. Retirement'
    BY <1>1, <1>2, <1>8 DEF Retirement, StoredMembers, StoredSeen
  <1> QED BY <1>11, <1>12, <1>13, <1>14, <1>15, <1>16

LEMMA StepInv ==
  RecoveryInv /\ [Next]_vars => RecoveryInv'
  <1> SUFFICES ASSUME RecoveryInv, [Next]_vars
               PROVE  RecoveryInv'
    OBVIOUS
  <1>1. CASE UNCHANGED vars
    BY <1>1
       DEF vars, RecoveryInv, TypeOK, Idleness, Expiry, Scope, Generations, Retirement,
           Memory, Export, Settled, Clean, Scoped, Dated, Crossed, Boundary
  <1> QED
    BY <1>1, BootInv, ListenInv, CrashInv, StopInv, WriteInv, SavedInv, IntendInv,
       MembershipInv, ReleaseInv, TickInv, ClockLostInv DEF Next

LEMMA InvHolds == Spec => []RecoveryInv
  BY InitInv, StepInv, PTL DEF Spec

-----------------------------------------------------------------------------
(* Theorems *)

\* Every reachable state has its type, and nothing a process holds is dated after
\* the running clock, not even when the clock was lost in between.
THEOREM TypeInvariant == Spec => []TypeOK
  <1>1. RecoveryInv => TypeOK
    BY DEF RecoveryInv
  <1> QED BY <1>1, InvHolds, PTL

\* Manual and Manual-OFF never outlive a 01:59 across any crashes and restarts
\* (_handle_nightly_boundary, _manual_ownership_survives_restart).
THEOREM ManualExpires == Spec => []NoManualPastBoundary
  <1>1. RecoveryInv => NoManualPastBoundary
    <2> SUFFICES ASSUME RecoveryInv, ~torn, process # "down", ~due,
                        NEW l \in Lights, held[l] # "none"
                 PROVE  ~Crossed(since[l], now)
      BY DEF NoManualPastBoundary
    <2>1. Clean(Memory)
      BY DEF RecoveryInv, Expiry
    <2> QED BY <2>1, MemoryExported DEF Clean
  <1> QED BY <1>1, InvHolds, PTL

\* A light whose removal was saved stays out of scope until it is reported again
\* (_seed_surface_membership, _is_managed_light).
THEOREM RetiredLightsStayOut == Spec => []RetiredStaysOut
  <1>1. RecoveryInv => RetiredStaysOut
    BY DEF RecoveryInv, Retirement, RetiredStaysOut, Managed
  <1> QED BY <1>1, InvHolds, PTL

\* A process that begins to listen has a generation above those of all that ever
\* did: the checkpoint of async_start is awaited first.
THEOREM GenerationsAdvance == Spec => GenerationAdvances
  <1>1. RecoveryInv /\ process = "starting" => \A g \in used : g < generation
    BY DEF RecoveryInv, Generations
  <1> QED BY <1>1, InvHolds, PTL DEF Spec, GenerationAdvances

\* A short restart takes over every persisted Manual and Manual-OFF, whatever the
\* bridge has reported by then; any other restart takes over none.
THEOREM ShortRestartsKeepManual == Spec => ShortRestartKeepsManual
  <1> DEFINE Kept ==
        process = "down" /\ process' = "starting" /\ disk # Nothing
        => IF disk.saved <= now /\ now - disk.saved < MaxDowntime /\ ~Crossed(disk.saved, now)
             THEN held' = disk.layers ELSE held' = Nobody
  <1>1. ASSUME RecoveryInv, [Next]_vars
        PROVE  Kept
    <2> SUFFICES ASSUME process = "down", process' = "starting", disk # Nothing
                 PROVE  IF Survives(disk.saved) THEN held' = disk.layers ELSE held' = Nobody
      BY DEF Survives
    <2>1. PICK observed \in SUBSET Lights : Boot(observed)
      BY <1>1 DEF Next, vars, Listen, Crash, Stop, Gone, Write, RunSave, Heartbeat, Intend,
                  Hold, Membership, Reset, NightlyBoundary, Tick, ClockLost
    <2>2. disk \in Payload /\ disk.layers \in [Lights -> Kinds] /\ Scoped(disk)
      BY <1>1, PayloadFields DEF RecoveryInv, TypeOK, Scope
    <2>3. \A l \in Lights : disk.layers[l] # "none" => l \in (Configured \ seen') \cup members'
      BY <2>1, <2>2 DEF Boot, Seeded, SeenAfter, StoredMembers, StoredSeen, Scoped
    <2>4. held' = [l \in Lights |-> IF l \in (Configured \ seen') \cup members'
                                    THEN Recovered(l) ELSE "none"]
      BY <2>1 DEF Boot, Restored
    <2>5. CASE Survives(disk.saved)
      BY <2>2, <2>3, <2>4, <2>5 DEF Recovered, Trustworthy
    <2>6. CASE ~Survives(disk.saved)
      BY <2>4, <2>6 DEF Recovered, Trustworthy, Nobody
    <2> QED BY <2>5, <2>6
  <1> QED BY <1>1, InvHolds, PTL DEF Spec, ShortRestartKeepsManual
=============================================================================
