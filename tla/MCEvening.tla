------------------------------ MODULE MCEvening ------------------------------
(* Small instances of an evening for TLC, one theme per behaviour. *)
EXTENDS LiquorCabinet

CONSTANTS Themes, k1

\* Bounds on the steps of people, devices and failures.
MaxTouches == [clock |-> 3, surfaces |-> 5, visits |-> 6, cabinet |-> 4]

VARIABLES
  theme,
  touches  \* steps of people and devices so far

\* A night with its windows on, in a house at rest.
Night ==
  /\ festive \in BOOLEAN /\ windows = Surfaces /\ key = festive /\ active = festive
  /\ manual = {} /\ sync = {} /\ spa = FALSE /\ game = "PRE" /\ doors = {}
  /\ phase = "night" /\ up = TRUE
  /\ schedule = Resting /\ script = [x \in Scripts |-> Idle] /\ delayed = {}
  /\ shows = [s \in Surfaces |-> Owners[s]] /\ liquor = Owners["main_area"] /\ recall = FALSE
  /\ owed = {} /\ rebuilt = TRUE
  /\ cabinet = Waiting /\ queue = <<>> /\ valid = FALSE /\ snapshot = "off" /\ visit = None

Limited == touches < MaxTouches[theme] /\ touches' = touches + 1

Asking == {x \in Scripts : script[x].plan # {}}

\* What goes on by itself.
Working ==
  /\ \/ Schedule
     \/ \E x \in Scripts : Consider(x)
     \/ \E x \in Asking : Render(x) \/ (script[x].plan # {Resolved} /\ Abandon(x))
     \/ \E by \in delayed : Due(by)
  /\ Undisturbed /\ UNCHANGED cab

Restarts == (Start /\ Undisturbed /\ UNCHANGED cab) \/ Breaks

\* A render that the owners leave alone is abandoned all the same.
Refused == (\E x \in Asking : script[x].plan = {Resolved} /\ Abandon(x)) /\ Undisturbed /\ UNCHANGED cab

\* The homeowner's switching comes before the restarts.
ByClock ==
  \/ Tick /\ Undisturbed /\ UNCHANGED <<cab, touches>>
  \/ Limited /\ Restarts
  \/ touches = 0 /\ Limited /\ (\E s \in Legacy : On(s) \/ Off(s)) /\ Undisturbed /\ UNCHANGED cab

BySurfaces ==
  /\ \/ Spa \/ GameChanges \/ GameMinute \/ Released
     \/ \E area \in {"living", "yard"} : SyncStarts(area) \/ SyncStops(area)
  /\ Undisturbed /\ UNCHANGED cab

ByVisits ==
  \/ (SyncStarts("living") \/ SyncStops("living") \/ Released) /\ Undisturbed /\ UNCHANGED cab
  \/ \E d \in {"left", "right"} : DoorMoves(d)
  \/ \E look \in Looks : Sets(look)

ByCabinet ==
  \/ ByVisits \/ Sets("off") \/ SetsAnother \/ RecallsScene \/ RestoreFails \/ Restarts \/ Refused

\* One theme of behaviour at a time; a house at rest waits for ever.
ThemeNext ==
  /\ \/ (Working \/ TakesNext \/ Keep \/ White \/ Restore \/ Evaluate \/ Finish) /\ UNCHANGED touches
     \/ theme = "clock" /\ ByClock
     \/ theme = "surfaces" /\ (BySurfaces \/ SetsAnother \/ Refused) /\ Limited
     \/ theme = "visits" /\ ByVisits /\ Limited
     \/ theme = "cabinet" /\ ByCabinet /\ Limited
     \/ (Settled \/ ~up) /\ UNCHANGED <<vars, touches>>
  /\ UNCHANGED theme

ThemeInit ==
  /\ theme \in Themes /\ touches = 0
  /\ IF theme = "clock" THEN Init ELSE Night
  /\ theme = "visits" => ~festive

ThemeSpec == ThemeInit /\ [][ThemeNext]_<<vars, theme, touches>>
=============================================================================
