------------------------------- MODULE Evening -------------------------------
(***************************************************************************)
(* An evening of packages/home_lighting_manager.yaml: the daily schedule,  *)
(* the evaluator scripts that it and other automations call, and those     *)
(* automations: Sync, games, the spa, the homeowner's legacy helpers.      *)
(*                                                                         *)
(* A script or automation of mode restart stops its earlier run, with the  *)
(* scripts that run was waiting for; who waited for a script that another  *)
(* caller restarts goes on.  A step here is what happens between two       *)
(* awaits at which the rest of the house may interfere.                    *)
(*                                                                         *)
(* Module LiquorCabinet completes the house.                               *)
(***************************************************************************)
EXTENDS OwnerResolver

VARIABLES
  phase,     \* the time of day
  festive,   \* the calendar names a supported holiday for this evening
  up,        \* Home Assistant runs
  schedule,  \* the daily schedule's run
  script,    \* the evaluator scripts' runs
  delayed,   \* automations that will call a script after a delay or in turn
  shows,     \* per surface, the owner whose appearance was commanded last
  liquor,    \* what the cabinet's light shows
  recall,    \* the stored scene recall is one that the cabinet can repeat
  owed,      \* history: surfaces with an abandoned command, or changed by others
  rebuilt    \* history: the last start-up reconstructed the helpers

clock == <<phase, festive>>
lights == <<shows, liquor>>
runs == <<schedule, script, delayed>>
evening == <<inputs, clock, up, runs, lights, recall, owed, rebuilt>>

-----------------------------------------------------------------------------
(* Time *)

\* "day" from 01:59 to two hours before sunset, then "dusk", "late" from
\* fifteen minutes before sunset, "night" from sunset to 01:59.
After == [day |-> "dusk", dusk |-> "late", late |-> "night", night |-> "day"]
Trigger == [dusk |-> "holiday", late |-> "main_area", night |-> "sunset", day |-> "boundary"]

SunsetWindows == Surfaces \ {"main_area"}

\* Mutant of DueWindows: the night ends at midnight.
DueWindowsBeforeSunset == IF phase = "late" THEN {"main_area"} ELSE {}

\* reconcile_windows.
DueWindows ==
  (IF phase \in {"late", "night"} THEN {"main_area"} ELSE {})
  \cup (IF phase = "night" THEN SunsetWindows ELSE {})

DueHoliday == festive /\ phase # "day"

-----------------------------------------------------------------------------
(* Evaluator scripts *)

Scripts == {"evaluate", "path", "backyard"}
Stages == [evaluate |-> <<"front_eve", "main_area", "liquor_cabinet">>,
           path |-> <<"path">>, backyard |-> <<"backyard">>]

None == "none"
\* A run's caller, stage and plan: the answer on which it asked for a render.
Idle == [by |-> None, at |-> 1, plan |-> {}]

Calls(x, by) == script' = [script EXCEPT ![x] = [Idle EXCEPT !.by = by]]

\* Surfaces that a run of x has not dealt with.
Ahead(x) == {Stages[x][i] : i \in script[x].at .. Len(Stages[x])}
RunsOf(by) == {x \in Scripts : script[x].by = by}
AheadOf(by) == UNION {Ahead(x) : x \in RunsOf(by)}
WithoutRunsOf(by) == [x \in Scripts |-> IF script[x].by = by THEN Idle ELSE script[x]]

\* The run after its stage.
Past(x) == IF script[x].at = Len(Stages[x]) THEN Idle
           ELSE [script[x] EXCEPT !.at = @ + 1, !.plan = {}]
Onward(x) == script' = [script EXCEPT ![x] = Past(x)]

\* Mutant of Whitened: only the right door counts.
WhitenedByRightDoor == IF "living" \notin sync /\ "right" \in doors THEN "white" ELSE liquor

\* home_lighting_liquor_white.
Whitened == IF "living" \notin sync /\ doors # {} THEN "white" ELSE liquor

\* What a command for main_area makes of the cabinet's light: a door or the
\* homeowner keeps it, and main_area_off ends with the white overlay.
LiquorAfter(owner) ==
  IF doors # {} THEN IF owner = "off" THEN Whitened ELSE liquor
  ELSE IF "liquor_cabinet" \in manual THEN liquor ELSE owner

\* The evaluator looks at the owners, stops or passes over a structural one,
\* and otherwise asks for a render, which notes the owners again.
Consider(x) ==
  LET s == Stages[x][script[x].at] IN
  /\ script[x].by # None /\ script[x].plan = {}
  /\ IF s = "liquor_cabinet"
       THEN /\ liquor' = IF Owners[s] = "door" THEN Whitened ELSE liquor
            /\ owed' = owed \ {s}
            /\ Onward(x)
       ELSE /\ IF Owners[s] \in Structural THEN Onward(x)
               ELSE script' = [script EXCEPT ![x].plan = {Resolved}]
            /\ UNCHANGED <<liquor, owed>>
  /\ UNCHANGED <<inputs, clock, up, schedule, delayed, shows, recall, rebuilt>>

\* The render sends its command, which it does only if what the resolver answers
\* is unchanged.
Render(x) ==
  LET s == Stages[x][script[x].at] IN
  /\ script[x].plan = {Resolved}
  /\ shows' = [shows EXCEPT ![s] = Owners[s]]
  /\ liquor' = IF s = "main_area" THEN LiquorAfter(Owners[s]) ELSE liquor
  /\ owed' = owed \ {s}
  /\ Onward(x)
  /\ UNCHANGED <<inputs, clock, up, schedule, delayed, recall, rebuilt>>

\* It abandons the command when the answer has changed, of which Resolved is a
\* part, when the guard is off, when the projection has changed, or when the
\* surface's members are unknown or unavailable; the caller goes on.  The script
\* that turns main_area off has its white overlay all the same.
Abandon(x) ==
  LET s == Stages[x][script[x].at]
      dark == \E answer \in script[x].plan : answer.owner["main_area"] = "off"
  IN /\ script[x].plan # {}
     /\ owed' = owed \cup {s}
     /\ liquor' = IF s = "main_area" /\ dark THEN Whitened ELSE liquor
     /\ Onward(x)
     /\ UNCHANGED <<inputs, clock, up, schedule, delayed, shows, recall, rebuilt>>

-----------------------------------------------------------------------------
(* The daily schedule *)

\* Mutant of Reapply: path waits for its own automation.
ReapplyWithoutPath == <<"evaluate", "pillars", "backyard">>

Reapply == <<"evaluate", "pillars", "path", "backyard">>

Program ==
  [startup |-> <<"sun", "due", "windows", "sanity", "calendar", "holiday1", "holiday2",
                 "rebuilt", "evaluate", "path", "backyard">> \o Reapply,
   holiday |-> <<"calendar", "holiday1", "holiday2">> \o Reapply,
   main_area |-> <<"main_window">> \o Reapply,
   sunset |-> <<"sunset_windows">> \o Reapply,
   boundary |-> <<"release", "close", "no_key", "rebuilt">> \o Reapply]

Resting == [of |-> None, todo |-> <<>>, due |-> {}, tonight |-> FALSE]

\* Surfaces that the rest of the schedule's run would still command.
AheadOfSchedule ==
  AheadOf("schedule")
  \cup UNION {IF schedule.todo[i] \in Scripts
                THEN {Stages[schedule.todo[i]][j] : j \in DOMAIN Stages[schedule.todo[i]]}
                ELSE {schedule.todo[i]} \cap Surfaces : i \in DOMAIN schedule.todo}

Starts(trigger) ==
  /\ schedule' = [Resting EXCEPT !.of = trigger, !.todo = Program[trigger]]
  /\ script' = WithoutRunsOf("schedule")

\* The clock reaches the next phase; a running schedule gives way.  Phases are
\* long, so that only a start-up, which comes at any moment, can still run.
Tick ==
  /\ schedule.of \in {None, "startup"}
  /\ phase' = After[phase]
  /\ festive' \in IF phase = "night" THEN BOOLEAN ELSE {festive}
  /\ IF up THEN Starts(Trigger[phase']) ELSE UNCHANGED <<schedule, script>>
  /\ UNCHANGED <<inputs, up, delayed, lights, recall, owed, rebuilt>>

Doing(step) ==
  /\ schedule.todo # <<>> /\ Head(schedule.todo) = step /\ RunsOf("schedule") = {}

Following(run) == IF Len(run.todo) = 1 THEN Resting ELSE [run EXCEPT !.todo = Tail(@)]
Done == schedule' = Following(schedule)

\* No sunset from the sun integration within thirty seconds: the run ends.
NoSun ==
  /\ Doing("sun") /\ schedule' = Resting
  /\ UNCHANGED <<inputs, clock, up, script, delayed, lights, recall, owed, rebuilt>>

\* Surfaces with a manual helper whose group is off; main_area, which takes its
\* scene along, is on while the cabinet or another light that is held is.
Dark(held) ==
  {s \in manual \cap Surfaces : shows[s] = "off" /\ (s = "main_area" => liquor = "off" /\ ~held)}

\* Steps that set helpers or variables; "rebuilt" marks for the history that
\* the helpers are complete.
Helpers ==
  \/ Doing("sun") /\ Done /\ UNCHANGED <<inputs, recall, rebuilt>>
  \/ /\ Doing("due")
     /\ schedule' = [Following(schedule) EXCEPT !.due = DueWindows]
     /\ UNCHANGED <<inputs, recall, rebuilt>>
  \/ /\ Doing("calendar")
     /\ schedule' = [Following(schedule) EXCEPT !.tonight = DueHoliday]
     /\ UNCHANGED <<inputs, recall, rebuilt>>
  \/ /\ \/ Doing("windows") /\ windows' = schedule.due
        \/ Doing("main_window") /\ windows' = windows \cup {"main_area"}
        \/ Doing("sunset_windows") /\ windows' = windows \cup SunsetWindows
     /\ Done /\ UNCHANGED <<key, active, manual, sync, spa, game, doors, recall, rebuilt>>
  \/ \E held \in BOOLEAN :
       /\ Doing("sanity") /\ Done
       /\ manual' = manual \ Dark(held) /\ recall' = (recall /\ "main_area" \notin Dark(held))
       /\ UNCHANGED <<windows, key, active, sync, spa, game, doors, rebuilt>>
  \/ /\ Doing("holiday1") /\ Done
     /\ key' = (schedule.tonight \/ key) /\ active' = (schedule.tonight /\ active)
     /\ UNCHANGED <<windows, manual, sync, spa, game, doors, recall, rebuilt>>
  \/ /\ Doing("holiday2") /\ Done
     /\ key' = schedule.tonight /\ active' = schedule.tonight
     /\ UNCHANGED <<windows, manual, sync, spa, game, doors, recall, rebuilt>>
  \/ /\ Doing("release") /\ Done
     /\ manual' = {} /\ recall' = FALSE
     /\ UNCHANGED <<windows, key, active, sync, spa, game, doors, rebuilt>>
  \/ /\ Doing("close") /\ Done
     /\ windows' = {} /\ active' = FALSE
     /\ UNCHANGED <<key, manual, sync, spa, game, doors, recall, rebuilt>>
  \/ /\ Doing("no_key") /\ Done /\ key' = FALSE
     /\ UNCHANGED <<windows, active, manual, sync, spa, game, doors, recall, rebuilt>>
  \/ Doing("rebuilt") /\ Done /\ rebuilt' = TRUE /\ UNCHANGED <<inputs, recall>>

\* Steps that call a script and wait for it, and the pillars' own.
Commands ==
  \/ \E x \in Scripts : Doing(x) /\ Calls(x, "schedule") /\ Done /\ UNCHANGED <<shows, owed>>
  \/ /\ Doing("pillars") /\ Done /\ owed' = owed \ {"pillars"}
     /\ shows' = [shows EXCEPT !["pillars"] = Owners["pillars"]]
     /\ UNCHANGED script

Schedule ==
  \/ NoSun
  \/ Helpers /\ UNCHANGED <<clock, up, script, delayed, lights, owed>>
  \/ Commands
     /\ UNCHANGED <<inputs, clock, up, delayed, liquor, recall, rebuilt>>

-----------------------------------------------------------------------------
(* The other callers *)

\* A run that ends with an error, as when Home Lighting Manager publishes no
\* projection, ends its caller's run too.
Fails(x) ==
  /\ script[x].by # None
  /\ script' = [script EXCEPT ![x] = Idle]
  /\ owed' = owed \cup Ahead(x) \cup (IF script[x].by = "schedule" THEN AheadOfSchedule ELSE {})
  /\ schedule' = IF script[x].by = "schedule" THEN Resting ELSE schedule
  /\ UNCHANGED <<inputs, clock, up, delayed, lights, recall, rebuilt>>

\* An automation of mode restart gives up what it was doing.
GivesUp(by) == /\ script' = WithoutRunsOf(by)
               /\ owed' = owed \cup AheadOf(by)

SyncStarts(area) ==
  /\ area \notin sync /\ sync' = sync \cup {area}
  /\ GivesUp(area)
  /\ IF area = "living"
       THEN shows' = [shows EXCEPT !["main_area"] = "other"] /\ liquor' = "other"
       ELSE shows' = [shows EXCEPT !["backyard"] = "other"] /\ UNCHANGED liquor
  /\ UNCHANGED <<windows, key, active, manual, spa, game, doors, clock, up, schedule, delayed,
                 recall, rebuilt>>

\* With the spa heating, its gauge is triggered instead.
SyncStops(area) ==
  /\ area \in sync /\ sync' = sync \ {area}
  /\ \/ up /\ Calls(IF area = "living" THEN "evaluate" ELSE "backyard", area)
     \/ (~up \/ (area = "yard" /\ spa)) /\ UNCHANGED script
  /\ UNCHANGED <<windows, key, active, manual, spa, game, doors, clock, up, schedule, delayed,
                 lights, recall, owed, rebuilt>>

Spa ==
  /\ up /\ spa' = ~spa
  /\ GivesUp("spa")
  /\ delayed' = IF spa THEN delayed \cup {"spa"} ELSE delayed \ {"spa"}
  /\ shows' = IF spa THEN shows ELSE [shows EXCEPT !["backyard"] = "other"]
  /\ UNCHANGED <<windows, key, active, manual, sync, game, doors, clock, up, schedule,
                 liquor, recall, rebuilt>>

GameSteps == {<<"PRE", "IN">>, <<"IN", "POST">>, <<"IN", "unknown">>, <<"unknown", "IN">>,
              <<"unknown", "POST">>, <<"POST", "PRE">>}

\* Only the two regular transitions are triggers; a game that leaves or enters
\* "unknown" changes owners unseen, until the next minute of the game.
GameChanges ==
  \E next \in {step[2] : step \in {step \in GameSteps : step[1] = game}} :
    /\ game' = next
    /\ IF up /\ "unknown" \notin {game, next} /\ "IN" \in {game, next}
         THEN delayed' = delayed \cup {"game"} /\ UNCHANGED owed
         ELSE /\ owed' = IF "IN" \in {game, next} THEN owed \cup {"main_area", "front_eve"} ELSE owed
              /\ UNCHANGED delayed
    /\ UNCHANGED <<windows, key, active, manual, sync, spa, doors, clock, up, schedule, script,
                   lights, recall, rebuilt>>

GameMinute ==
  /\ up /\ game = "IN" /\ delayed' = delayed \cup {"game"}
  /\ UNCHANGED <<inputs, clock, up, schedule, script, lights, recall, owed, rebuilt>>

\* The homeowner switches a surface that has a legacy helper; while the guard
\* is on, the change is taken for the house's own.
On(s) ==
  /\ up /\ s \in Legacy /\ shows' = [shows EXCEPT ![s] = "other"]
  /\ \/ (s = "backyard" => ~spa /\ "yard" \notin sync)
        /\ manual' = manual \cup {s} /\ UNCHANGED owed
     \/ owed' = owed \cup {s} /\ UNCHANGED manual
  /\ UNCHANGED <<windows, key, active, sync, spa, game, doors, clock, up, runs, liquor,
                 recall, rebuilt>>

Off(s) ==
  /\ up /\ s \in Legacy /\ shows' = [shows EXCEPT ![s] = "off"]
  /\ \/ manual' = manual \ {s} /\ delayed' = delayed \cup {s} /\ UNCHANGED owed
     \/ owed' = owed \cup {s} /\ UNCHANGED <<manual, delayed>>
  /\ UNCHANGED <<windows, key, active, sync, spa, game, doors, clock, up, schedule, script,
                 liquor, recall, rebuilt>>

\* Home Lighting Manager's release of the main area, through the bridge.
Released ==
  /\ up /\ manual' = manual \ {"main_area", "liquor_cabinet"} /\ recall' = FALSE
  /\ GivesUp("bridge") /\ delayed' = delayed \cup {"bridge"}
  /\ UNCHANGED <<windows, key, active, sync, spa, game, doors, clock, up, schedule, lights,
                 rebuilt>>

Called == [spa |-> "backyard", game |-> "evaluate", bridge |-> "evaluate",
           front_eve |-> "evaluate", path |-> "path", backyard |-> "backyard"]

\* The delay is over; the game's automation is of mode queued.
Due(by) ==
  /\ by \in delayed /\ delayed' = delayed \ {by}
  /\ by = "game" => RunsOf(by) = {}
  /\ Calls(Called[by], by)
  /\ UNCHANGED <<inputs, clock, up, schedule, lights, recall, owed, rebuilt>>

Everything == Surfaces \cup {"liquor_cabinet"}

\* An orderly stop keeps the helpers; runs, triggers and delays are lost.
Stop ==
  /\ up /\ up' = FALSE
  /\ schedule' = Resting /\ script' = [x \in Scripts |-> Idle] /\ delayed' = {}
  /\ owed' = Everything
  /\ UNCHANGED <<inputs, clock, lights, recall, rebuilt>>

Start ==
  /\ ~up /\ up' = TRUE /\ rebuilt' = FALSE
  /\ Starts("startup")
  /\ UNCHANGED <<inputs, clock, delayed, lights, recall, owed>>
=============================================================================
