---------------------------- MODULE LiquorCabinet ----------------------------
(***************************************************************************)
(* The house of an evening: module Evening with the liquor cabinet, whose  *)
(* automation (automations/liquor_cabinet_display_lighting.yaml) makes its *)
(* light white while a door is open and then gives back what was there.    *)
(***************************************************************************)
EXTENDS Evening

CONSTANTS
  Looks,      \* looks that the homeowner gives the cabinet's light
  MaxQueued   \* runs that the automation queues, the current one included

\* "max: 20"; with a single run nothing would be queued.
ASSUME CabinetAssumption == MaxQueued \in Nat \ {0, 1}

VARIABLES
  cabinet,   \* the automation's run
  queue,     \* its queued events
  valid,     \* home_lighting_liquor_snapshot_valid
  snapshot,  \* the look in the other snapshot helpers
  visit      \* history: the look to find again when the doors are closed, if any

cab == <<cabinet, queue, valid, snapshot>>
vars == <<evening, cab, visit>>

Waiting == [todo |-> <<>>, look |-> "off"]
AtRest == cabinet = Waiting /\ queue = <<>>

-----------------------------------------------------------------------------
(* The automation *)

\* Mutant of Captures: every opening takes a snapshot.
CapturesAgain == "main_area" \in manual

\* Once, until both doors close.
Captures == "main_area" \in manual /\ ~valid

Opened ==
  IF "living" \in sync THEN Waiting
  ELSE IF Captures THEN [todo |-> <<"keep", "white">>, look |-> liquor]
  ELSE [Waiting EXCEPT !.todo = <<"white">>]

Closed(open) ==
  IF open # {} \/ "living" \in sync THEN Waiting
  ELSE [Waiting EXCEPT !.todo =
          <<IF "main_area" \in manual /\ valid THEN "restore" ELSE "evaluate", "done">>]

\* The run of an event, with the doors that are open now.
Run(event, open) == IF event = "open" THEN Opened ELSE Closed(open)

TakesNext ==
  /\ cabinet = Waiting /\ queue # <<>>
  /\ cabinet' = Run(Head(queue), doors) /\ queue' = Tail(queue)
  /\ UNCHANGED <<evening, valid, snapshot, visit>>

\* A scene of the main area shows on its other lights too.
Recalled == shows' = [shows EXCEPT !["main_area"] = "other"] /\ owed' = owed \cup {"main_area"}

InCabinet(step) ==
  /\ cabinet.todo # <<>> /\ Head(cabinet.todo) = step /\ RunsOf("cabinet") = {}
  /\ cabinet' = IF Len(cabinet.todo) = 1 THEN Waiting ELSE [cabinet EXCEPT !.todo = Tail(@)]
  /\ UNCHANGED queue

Keep ==
  /\ InCabinet("keep")
  /\ snapshot' = cabinet.look /\ valid' = TRUE
  /\ UNCHANGED <<evening, visit>>

White ==
  /\ InCabinet("white")
  /\ liquor' = Whitened /\ owed' = owed \ {"liquor_cabinet"}
  /\ UNCHANGED <<inputs, clock, up, runs, shows, recall, rebuilt, valid, snapshot, visit>>

\* A scene that can be recalled is, for all of the main area; otherwise the
\* captured look.
Restored == IF recall THEN "scene" ELSE snapshot

Restore ==
  /\ InCabinet("restore")
  /\ liquor' = Restored
  /\ IF recall THEN Recalled ELSE UNCHANGED <<shows, owed>>
  /\ UNCHANGED <<inputs, clock, up, runs, recall, rebuilt, valid, snapshot, visit>>

\* The command is refused: the run ends and keeps the snapshot.
RestoreFails ==
  /\ cabinet.todo # <<>> /\ Head(cabinet.todo) = "restore" /\ cabinet' = Waiting
  /\ owed' = owed \cup {"liquor_cabinet"} /\ visit' = None
  /\ UNCHANGED <<inputs, clock, up, runs, lights, recall, rebuilt, queue, valid, snapshot>>

Evaluate ==
  /\ InCabinet("evaluate") /\ Calls("evaluate", "cabinet")
  /\ UNCHANGED <<inputs, clock, up, schedule, delayed, lights, recall, owed, rebuilt,
                 valid, snapshot, visit>>

Finish ==
  /\ InCabinet("done") /\ valid' = FALSE
  /\ UNCHANGED <<evening, snapshot, visit>>

-----------------------------------------------------------------------------
(* The house *)

\* What a visit to the cabinet should leave behind: the homeowner's look, as
\* far as the automation could know it at the first door.
Found ==
  IF /\ {"main_area", "liquor_cabinet"} \subseteq manual
     /\ "living" \notin sync /\ ~valid /\ (recall => liquor = "scene")
    THEN liquor ELSE None

\* An automation at rest takes the event at once, otherwise it is queued, or
\* dropped if the queue is full.
DoorMoves(d) ==
  LET event == IF d \in doors THEN "close" ELSE "open"
      heard == up /\ (AtRest \/ Len(queue) + 1 < MaxQueued)
  IN /\ doors' = IF d \in doors THEN doors \ {d} ELSE doors \cup {d}
     /\ cabinet' = IF up /\ AtRest THEN Run(event, doors') ELSE cabinet
     /\ queue' = IF heard /\ ~AtRest THEN Append(queue, event) ELSE queue
     /\ owed' = IF heard THEN owed ELSE owed \cup {"liquor_cabinet"}
     /\ visit' = IF ~heard THEN None ELSE IF doors = {} /\ AtRest THEN Found ELSE visit
     /\ UNCHANGED <<windows, key, active, manual, sync, spa, game, clock, up, runs, lights,
                    recall, rebuilt, valid, snapshot>>

\* The homeowner sets the cabinet's light: it becomes Manual by its helpers or
\* by Home Lighting Manager, or, while the guard is on, not at all.
Sets(look) ==
  /\ up /\ "living" \notin sync
  /\ liquor' = look /\ owed' = owed \cup {"liquor_cabinet"} /\ visit' = None
  /\ \E claim \in {{}, {"liquor_cabinet"}, {"liquor_cabinet", "main_area"}} :
       manual' = manual \cup claim
  /\ UNCHANGED <<windows, key, active, sync, spa, game, doors, clock, up, runs, shows,
                 recall, rebuilt, cab>>

\* The homeowner sets another light of the main area.
SetsAnother ==
  /\ up /\ "living" \notin sync /\ manual' = manual \cup {"main_area"} /\ visit' = None
  /\ UNCHANGED <<windows, key, active, sync, spa, game, doors, clock, up, runs, lights,
                 recall, owed, rebuilt, cab>>

\* The homeowner recalls a scene of the main area.
RecallsScene ==
  /\ up /\ "living" \notin sync
  /\ manual' = manual \cup {"main_area", "liquor_cabinet"} /\ recall' \in BOOLEAN
  /\ liquor' = "scene" /\ visit' = None
  /\ shows' = [shows EXCEPT !["main_area"] = "other"]
  /\ owed' = owed \cup {"main_area", "liquor_cabinet"}
  /\ UNCHANGED <<windows, key, active, sync, spa, game, doors, clock, up, runs, rebuilt, cab>>

Cabinet == \/ TakesNext \/ Keep \/ White \/ Restore \/ RestoreFails \/ Evaluate \/ Finish
           \/ \E d \in {"left", "right"} : DoorMoves(d)
           \/ \E look \in Looks \cup {"off"} : Sets(look)
           \/ SetsAnother \/ RecallsScene

\* A visit is accounted for while nobody else decides about the light, and no
\* evaluator lights it before a queued opening has captured it.
Undisturbed ==
  visit' = IF /\ <<manual, recall, sync>>' = <<manual, recall, sync>>
              /\ queue = <<>> \/ liquor' = liquor
             THEN visit ELSE None

Around ==
  /\ \/ Tick \/ Schedule \/ Spa \/ GameChanges \/ GameMinute \/ Released
     \/ \E x \in Scripts : Consider(x) \/ Render(x) \/ Abandon(x)
     \/ \E area \in {"living", "yard"} : SyncStarts(area) \/ SyncStops(area)
     \/ \E s \in Legacy : On(s) \/ Off(s)
     \/ \E by \in delayed : Due(by)
     \/ Start
  /\ Undisturbed /\ UNCHANGED cab

\* An error reaches the cabinet's run, a stop ends it.
Breaks ==
  \/ \E x \in Scripts :
       /\ Fails(x)
       /\ cabinet' = IF script[x].by = "cabinet" THEN Waiting ELSE cabinet
       /\ UNCHANGED <<queue, valid, snapshot, visit>>
  \/ Stop /\ cabinet' = Waiting /\ queue' = <<>> /\ visit' = None /\ UNCHANGED <<valid, snapshot>>

\* A quiet day with every light off.
Init ==
  /\ windows = {} /\ key = FALSE /\ active = FALSE /\ manual = {} /\ sync = {} /\ spa = FALSE
  /\ game = "PRE" /\ doors = {}
  /\ phase = "day" /\ festive \in BOOLEAN /\ up = TRUE
  /\ schedule = Resting /\ script = [x \in Scripts |-> Idle] /\ delayed = {}
  /\ shows = [s \in Surfaces |-> "off"] /\ liquor = "off" /\ recall = FALSE
  /\ owed = {} /\ rebuilt = TRUE
  /\ cabinet = Waiting /\ queue = <<>> /\ valid = FALSE /\ snapshot = "off" /\ visit = None

Next == Around \/ Cabinet \/ Breaks

Spec == Init /\ [][Next]_vars

-----------------------------------------------------------------------------
(* Properties *)

Appearances == {"off", "sync", "49ers", "holiday", "daily", "other"}

TypeOK ==
  /\ windows \subseteq Surfaces /\ {key, active, spa, up, recall, rebuilt, valid, festive} \subseteq BOOLEAN
  /\ manual \subseteq Legacy \cup {"main_area", "liquor_cabinet"}
  /\ sync \subseteq {"living", "yard"} /\ doors \subseteq {"left", "right"}
  /\ game \in {"PRE", "IN", "POST", "unknown"} /\ phase \in DOMAIN After
  /\ delayed \subseteq DOMAIN Called /\ owed \subseteq Everything
  /\ shows \in [Surfaces -> Appearances]
  /\ {liquor, snapshot, cabinet.look} \subseteq Appearances \cup Looks \cup {"white", "scene"}
  /\ Len(queue) <= MaxQueued

\* Nothing runs and nothing is about to run.
Settled ==
  /\ up /\ schedule = Resting /\ delayed = {} /\ AtRest
  /\ \A x \in Scripts : script[x] = Idle

\* The windows of an evening, by the contract.
WindowsAt == [day |-> {}, dusk |-> {}, late |-> {"main_area"}, night |-> Surfaces]

\* Outside a run of the schedule the helpers agree with the clock, whether they
\* were set by the triggers or reconstructed, however often and whenever Home
\* Assistant was restarted, as long as the last start-up came to reconstruct them.
HelpersFollowClock ==
  up /\ schedule = Resting /\ rebuilt =>
    /\ windows = WindowsAt[phase]
    /\ active = (festive /\ phase # "day") /\ key = active

\* Once the house has come to rest, a surface with an automatic owner shows
\* what this owner wants, whoever changed the owners and whichever callers
\* stopped each other's scripts, unless a command was abandoned.
OwnersShown ==
  Settled => \A s \in Surfaces \ owed : Owners[s] \notin Structural => shows[s] = Owners[s]

\* An open door has the cabinet lit, also when it was opened during Sync,
\* while Home Assistant was down, or while a command for the area was under way.
OpenDoorIsLit ==
  Settled /\ Owners["liquor_cabinet"] = "door" /\ "liquor_cabinet" \notin owed => liquor = "white"

\* A visit to the cabinet leaves the homeowner's look as it was, in whatever
\* order the doors move, and although the evaluators go on.
LookReturned == Settled /\ doors = {} /\ visit # None => liquor = visit

\* The automation captures once until both doors close: no snapshot is left to
\* be given back after a later visit.
SnapshotEndsWithVisit ==
  Settled /\ valid /\ "liquor_cabinet" \notin owed => doors # {}
=============================================================================
