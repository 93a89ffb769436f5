-------------------------- MODULE LiquorCabinetProofs --------------------------
(***************************************************************************)
(* Proofs about the house of an evening (modules LiquorCabinet, Evening    *)
(* and OwnerResolver), for any looks, any legacy helpers and any length of *)
(* the automation's queue that lets one event wait.                        *)
(*                                                                         *)
(* Typed types the runs of the schedule, the scripts and the automation;   *)
(* a run of the schedule is a rest of its program.  On it rest             *)
(*   - HelpersInTime: how far each program has brought the helpers,        *)
(*   - ShownOrComing: a surface shows its owner, or a run, a delay or the  *)
(*     schedule will still reach it,                                       *)
(*   - Lit: the same for the cabinet with an open door, where a queued     *)
(*     opening counts as well,                                             *)
(*   - VisitKept: where the look of a visit is, by what the automation     *)
(*     still has to do.                                                    *)
(* A step lemma has one case per action, in the order of NextCases.        *)
(***************************************************************************)
EXTENDS LiquorCabinet, SequenceTheorems, TLAPS

-----------------------------------------------------------------------------
(* The owners, as tables of priorities *)

LEMMA HighestIs ==
  ASSUME NEW claims, NEW n \in Nat, DOMAIN claims = 1..n
  PROVE  /\ \A i \in 1..n : claims[i] # "off" /\ (\A j \in 1..n : j < i => claims[j] = "off")
               => Highest(claims) = claims[i]
         /\ (\A i \in 1..n : claims[i] = "off") => Highest(claims) = "off"
<1> DEFINE h == {j \in DOMAIN claims : claims[j] # "off"}
<1>1. Highest(claims) = IF h = {} THEN "off" ELSE claims[Min(h)]
  BY DEF Highest
<1>2. ASSUME NEW i \in 1..n, claims[i] # "off", \A j \in 1..n : j < i => claims[j] = "off"
      PROVE  Highest(claims) = claims[i]
  <2>1. i \in h /\ \A j \in h : i <= j
    BY <1>2
  <2>2. h \in SUBSET Int
    OBVIOUS
  <2> HIDE DEF h
  <2>3. Min(h) \in h /\ \A j \in h : Min(h) <= j
    BY <2>1 DEF Min
  <2>4. Min(h) = i
    <3> DEFINE m == Min(h)
    <3>1. m \in Int /\ i \in Int /\ m <= i /\ i <= m
      BY <2>1, <2>2, <2>3
    <3> QED BY <3>1
  <2> QED BY <1>1, <2>1, <2>4
<1> QED BY <1>1, <1>2

\* The first of up to five claims, in order.
LEMMA FirstOf ==
  ASSUME NEW claims, NEW n \in 3..5, DOMAIN claims = 1..n
  PROVE  Highest(claims) =
           IF claims[1] # "off" THEN claims[1] ELSE IF claims[2] # "off" THEN claims[2]
           ELSE IF n = 3 \/ claims[3] # "off" THEN claims[3]
           ELSE IF n = 4 \/ claims[4] # "off" THEN claims[4] ELSE claims[5]
<1> DEFINE First(i) == claims[i] # "off" /\ \A j \in 1..n : j < i => claims[j] = "off"
<1>1. \A i \in 1..n : First(i) => Highest(claims) = claims[i]
  BY HighestIs
<1>2. (\A i \in 1..n : claims[i] = "off") => Highest(claims) = "off"
  BY HighestIs
<1>3. CASE claims[1] # "off"
  <2>1. First(1) /\ 1 \in 1..n
    BY <1>3
  <2> QED BY <1>1, <1>3, <2>1
<1>4. CASE claims[1] = "off" /\ claims[2] # "off"
  <2>1. First(2) /\ 2 \in 1..n
    BY <1>4
  <2> QED BY <1>1, <1>4, <2>1
<1>5. CASE claims[1] = "off" /\ claims[2] = "off" /\ claims[3] # "off"
  <2>1. First(3) /\ 3 \in 1..n
    BY <1>5
  <2> QED BY <1>1, <1>5, <2>1
<1>6. CASE n >= 4 /\ claims[1] = "off" /\ claims[2] = "off" /\ claims[3] = "off" /\ claims[4] # "off"
  <2>1. First(4) /\ 4 \in 1..n
    BY <1>6
  <2> QED BY <1>1, <1>6, <2>1
<1>7. CASE n = 5 /\ claims[1] = "off" /\ claims[2] = "off" /\ claims[3] = "off" /\ claims[4] = "off" /\ claims[5] # "off"
  <2>1. First(5) /\ 5 \in 1..n
    BY <1>7
  <2> QED BY <1>1, <1>7, <2>1
<1>8. CASE \A i \in 1..n : claims[i] = "off"
  BY <1>2, <1>8
<1> QED BY <1>3, <1>4, <1>5, <1>6, <1>7, <1>8

Eve(s) == IF active /\ key THEN "holiday" ELSE IF s \in windows THEN "daily" ELSE "off"

\* The owners as tables of priorities.
Table ==
  /\ DOMAIN Owners = Everything
  /\ Owners["main_area"] = IF "living" \in sync THEN "sync" ELSE IF game = "IN" THEN "49ers" ELSE Eve("main_area")
  /\ Owners["front_eve"] = IF "front_eve" \in manual \cap Legacy THEN "manual" ELSE IF game = "IN" THEN "49ers" ELSE Eve("front_eve")
  /\ Owners["path"] = IF "path" \in manual \cap Legacy THEN "manual" ELSE Eve("path")
  /\ Owners["backyard"] = IF "yard" \in sync THEN "sync" ELSE IF "backyard" \in manual \cap Legacy THEN "manual"
                          ELSE IF spa THEN "spa" ELSE Eve("backyard")
  /\ Owners["pillars"] = IF "pillars" \in windows THEN "daily" ELSE "off"
  /\ Owners["liquor_cabinet"] = IF "living" \in sync THEN "sync" ELSE IF doors # {} THEN "door"
                                ELSE IF "liquor_cabinet" \in manual THEN "manual" ELSE Owners["main_area"]

LEMMA MainTable ==
  MainOwner = IF "living" \in sync THEN "sync" ELSE IF game = "IN" THEN "49ers" ELSE Eve("main_area")
<1> DEFINE c == <<Living, Game>> \o Evening("main_area")
<1>1. /\ DOMAIN c = 1..4
      /\ c[1] = Living /\ c[2] = Game
      /\ c[3] = Claim("holiday", active /\ key)
      /\ c[4] = Claim("daily", "main_area" \in windows)
  BY DEF Evening
<1>2. MainOwner = Highest(c)
  BY DEF MainOwner
<1> HIDE DEF c
<1>3. Highest(c) = IF c[1] # "off" THEN c[1] ELSE IF c[2] # "off" THEN c[2]
                   ELSE IF c[3] # "off" THEN c[3] ELSE c[4]
  BY <1>1, FirstOf
<1> QED BY <1>1, <1>2, <1>3 DEF Claim, Living, Game, Eve

LEMMA OwnersTable == Table
<1>1. DOMAIN Owners = Everything
  BY DEF Owners, Everything, Surfaces
<1>2. Owners["main_area"] = MainOwner
  BY DEF Owners
<1>3. Owners["front_eve"] = IF "front_eve" \in manual \cap Legacy THEN "manual" ELSE IF game = "IN" THEN "49ers" ELSE Eve("front_eve")
  <2> DEFINE c == <<Manual("front_eve"), Game>> \o Evening("front_eve")
  <2>1. /\ DOMAIN c = 1..4 /\ c[1] = Manual("front_eve") /\ c[2] = Game
        /\ c[3] = Claim("holiday", active /\ key) /\ c[4] = Claim("daily", "front_eve" \in windows)
    BY DEF Evening
  <2>2. Owners["front_eve"] = Highest(c)
    BY DEF Owners
  <2> HIDE DEF c
  <2>3. Highest(c) = IF c[1] # "off" THEN c[1] ELSE IF c[2] # "off" THEN c[2]
                     ELSE IF c[3] # "off" THEN c[3] ELSE c[4]
    BY <2>1, FirstOf
  <2> QED BY <2>1, <2>2, <2>3 DEF Claim, Manual, Game, Eve
<1>4. Owners["path"] = IF "path" \in manual \cap Legacy THEN "manual" ELSE Eve("path")
  <2> DEFINE c == <<Manual("path")>> \o Evening("path")
  <2>1. /\ DOMAIN c = 1..3 /\ c[1] = Manual("path")
        /\ c[2] = Claim("holiday", active /\ key) /\ c[3] = Claim("daily", "path" \in windows)
    BY DEF Evening
  <2>2. Owners["path"] = Highest(c)
    BY DEF Owners
  <2> HIDE DEF c
  <2>3. Highest(c) = IF c[1] # "off" THEN c[1] ELSE IF c[2] # "off" THEN c[2] ELSE c[3]
    BY <2>1, FirstOf
  <2> QED BY <2>1, <2>2, <2>3 DEF Claim, Manual, Eve
<1>5. Owners["backyard"] = IF "yard" \in sync THEN "sync" ELSE IF "backyard" \in manual \cap Legacy THEN "manual"
                           ELSE IF spa THEN "spa" ELSE Eve("backyard")
  <2> DEFINE c == <<Claim("sync", "yard" \in sync), Manual("backyard"), Claim("spa", spa)>> \o Evening("backyard")
  <2>1. /\ DOMAIN c = 1..5 /\ c[1] = Claim("sync", "yard" \in sync) /\ c[2] = Manual("backyard")
        /\ c[3] = Claim("spa", spa)
        /\ c[4] = Claim("holiday", active /\ key) /\ c[5] = Claim("daily", "backyard" \in windows)
    BY DEF Evening
  <2>2. Owners["backyard"] = Highest(c)
    BY DEF Owners
  <2> HIDE DEF c
  <2>3. Highest(c) = IF c[1] # "off" THEN c[1] ELSE IF c[2] # "off" THEN c[2]
                     ELSE IF c[3] # "off" THEN c[3] ELSE IF c[4] # "off" THEN c[4] ELSE c[5]
    BY <2>1, FirstOf
  <2> QED BY <2>1, <2>2, <2>3 DEF Claim, Manual, Eve
<1>6. Owners["pillars"] = IF "pillars" \in windows THEN "daily" ELSE "off"
  BY DEF Owners, Claim
<1>7. Owners["liquor_cabinet"] = IF "living" \in sync THEN "sync" ELSE IF doors # {} THEN "door"
                                ELSE IF "liquor_cabinet" \in manual THEN "manual" ELSE MainOwner
  <2> DEFINE c == <<Living, Claim("door", doors # {}), Claim("manual", "liquor_cabinet" \in manual), MainOwner>>
  <2>1. /\ DOMAIN c = 1..4 /\ c[1] = Living /\ c[2] = Claim("door", doors # {})
        /\ c[3] = Claim("manual", "liquor_cabinet" \in manual) /\ c[4] = MainOwner
    OBVIOUS
  <2>2. Owners["liquor_cabinet"] = Highest(c)
    BY DEF Owners
  <2> HIDE DEF c
  <2>3. Highest(c) = IF c[1] # "off" THEN c[1] ELSE IF c[2] # "off" THEN c[2]
                     ELSE IF c[3] # "off" THEN c[3] ELSE c[4]
    BY <2>1, FirstOf
  <2> QED BY <2>1, <2>2, <2>3 DEF Claim, Living
<1> QED BY <1>1, <1>2, <1>3, <1>4, <1>5, <1>6, <1>7, MainTable DEF Table

LEMMA OwnersTableNext == Table'
  BY OwnersTable, PTL

-----------------------------------------------------------------------------
(* The schedule's programs, step by step *)

Triggers == {"startup", "holiday", "main_area", "sunset", "boundary"}

Steps ==
  {"sun", "due", "windows", "sanity", "calendar", "holiday1", "holiday2", "rebuilt",
   "evaluate", "path", "backyard", "pillars", "main_window", "sunset_windows", "release",
   "close", "no_key"}

Track(run) ==
  LET steps == Program[run.of] IN
  \/ run = Resting
  \/ /\ run.of \in Triggers
     /\ run = [of |-> run.of, todo |-> run.todo, due |-> run.due, tonight |-> run.tonight]
     /\ run.todo \in Seq(Steps) /\ Len(run.todo) \in 1 .. Len(steps)
     /\ \A j \in 1 .. Len(run.todo) : run.todo[j] = steps[Len(steps) - Len(run.todo) + j]
     /\ run.due \subseteq Surfaces /\ run.tonight \in BOOLEAN

\* What the programs are, step by step.
LEMMA ReapplySteps == Reapply \in Seq(Steps) /\ Len(Reapply) = 4
  BY DEF Reapply, Steps

LEMMA StartupSteps ==
  LET P == Program["startup"] IN
  /\ P \in Seq(Steps) /\ Len(P) = 15
  /\ P[1] = "sun" /\ P[2] = "due" /\ P[3] = "windows" /\ P[4] = "sanity"
  /\ P[5] = "calendar" /\ P[6] = "holiday1" /\ P[7] = "holiday2" /\ P[8] = "rebuilt"
  /\ P[9] = "evaluate" /\ P[10] = "path" /\ P[11] = "backyard" /\ P[12] = "evaluate"
  /\ P[13] = "pillars" /\ P[14] = "path" /\ P[15] = "backyard"
<1>1. <<"sun", "due", "windows", "sanity", "calendar", "holiday1", "holiday2", "rebuilt",
        "evaluate", "path", "backyard">> \in Seq(Steps)
  BY DEF Steps
<1>2. Program["startup"] \in Seq(Steps)
  BY <1>1, ReapplySteps DEF Program
<1>3. Program["startup"][1] = "sun" /\ Program["startup"][2] = "due" /\ Program["startup"][3] = "windows" /\ Program["startup"][4] = "sanity"
  BY DEF Program, Reapply
<1>4. Program["startup"][5] = "calendar" /\ Program["startup"][6] = "holiday1" /\ Program["startup"][7] = "holiday2" /\ Program["startup"][8] = "rebuilt"
  BY DEF Program, Reapply
<1>5. Program["startup"][9] = "evaluate" /\ Program["startup"][10] = "path" /\ Program["startup"][11] = "backyard" /\ Program["startup"][12] = "evaluate"
  BY DEF Program, Reapply
<1>6. Program["startup"][13] = "pillars" /\ Program["startup"][14] = "path" /\ Program["startup"][15] = "backyard"
  BY DEF Program, Reapply
<1>7. Len(Program["startup"]) = 15
  BY DEF Program, Reapply
<1> QED BY <1>2, <1>3, <1>4, <1>5, <1>6, <1>7

LEMMA HolidaySteps ==
  LET P == Program["holiday"] IN
  /\ P \in Seq(Steps) /\ Len(P) = 7
  /\ P[1] = "calendar" /\ P[2] = "holiday1" /\ P[3] = "holiday2" /\ P[4] = "evaluate"
  /\ P[5] = "pillars" /\ P[6] = "path" /\ P[7] = "backyard"
<1>1. <<"calendar", "holiday1", "holiday2">> \in Seq(Steps)
  BY DEF Steps
<1>2. Program["holiday"] \in Seq(Steps)
  BY <1>1, ReapplySteps DEF Program
<1>3. Program["holiday"][1] = "calendar" /\ Program["holiday"][2] = "holiday1" /\ Program["holiday"][3] = "holiday2" /\ Program["holiday"][4] = "evaluate"
  BY DEF Program, Reapply
<1>4. Program["holiday"][5] = "pillars" /\ Program["holiday"][6] = "path" /\ Program["holiday"][7] = "backyard"
  BY DEF Program, Reapply
<1>5. Len(Program["holiday"]) = 7
  BY DEF Program, Reapply
<1> QED BY <1>2, <1>3, <1>4, <1>5

LEMMA MainAreaSteps ==
  LET P == Program["main_area"] IN
  /\ P \in Seq(Steps) /\ Len(P) = 5
  /\ P[1] = "main_window" /\ P[2] = "evaluate" /\ P[3] = "pillars" /\ P[4] = "path"
  /\ P[5] = "backyard"
<1>1. <<"main_window">> \in Seq(Steps)
  BY DEF Steps
<1>2. Program["main_area"] \in Seq(Steps)
  BY <1>1, ReapplySteps DEF Program
<1>3. Program["main_area"][1] = "main_window" /\ Program["main_area"][2] = "evaluate" /\ Program["main_area"][3] = "pillars" /\ Program["main_area"][4] = "path"
  BY DEF Program, Reapply
<1>4. Program["main_area"][5] = "backyard"
  BY DEF Program, Reapply
<1>5. Len(Program["main_area"]) = 5
  BY DEF Program, Reapply
<1> QED BY <1>2, <1>3, <1>4, <1>5

LEMMA SunsetSteps ==
  LET P == Program["sunset"] IN
  /\ P \in Seq(Steps) /\ Len(P) = 5
  /\ P[1] = "sunset_windows" /\ P[2] = "evaluate" /\ P[3] = "pillars" /\ P[4] = "path"
  /\ P[5] = "backyard"
<1>1. <<"sunset_windows">> \in Seq(Steps)
  BY DEF Steps
<1>2. Program["sunset"] \in Seq(Steps)
  BY <1>1, ReapplySteps DEF Program
<1>3. Program["sunset"][1] = "sunset_windows" /\ Program["sunset"][2] = "evaluate" /\ Program["sunset"][3] = "pillars" /\ Program["sunset"][4] = "path"
  BY DEF Program, Reapply
<1>4. Program["sunset"][5] = "backyard"
  BY DEF Program, Reapply
<1>5. Len(Program["sunset"]) = 5
  BY DEF Program, Reapply
<1> QED BY <1>2, <1>3, <1>4, <1>5

LEMMA BoundarySteps ==
  LET P == Program["boundary"] IN
  /\ P \in Seq(Steps) /\ Len(P) = 8
  /\ P[1] = "release" /\ P[2] = "close" /\ P[3] = "no_key" /\ P[4] = "rebuilt"
  /\ P[5] = "evaluate" /\ P[6] = "pillars" /\ P[7] = "path" /\ P[8] = "backyard"
<1>1. <<"release", "close", "no_key", "rebuilt">> \in Seq(Steps)
  BY DEF Steps
<1>2. Program["boundary"] \in Seq(Steps)
  BY <1>1, ReapplySteps DEF Program
<1>3. Program["boundary"][1] = "release" /\ Program["boundary"][2] = "close" /\ Program["boundary"][3] = "no_key" /\ Program["boundary"][4] = "rebuilt"
  BY DEF Program, Reapply
<1>4. Program["boundary"][5] = "evaluate" /\ Program["boundary"][6] = "pillars" /\ Program["boundary"][7] = "path" /\ Program["boundary"][8] = "backyard"
  BY DEF Program, Reapply
<1>5. Len(Program["boundary"]) = 8
  BY DEF Program, Reapply
<1> QED BY <1>2, <1>3, <1>4, <1>5

Length(trigger) == CASE trigger = "startup" -> 15 [] trigger = "holiday" -> 7 [] trigger = "boundary" -> 8
                     [] OTHER -> 5

LEMMA Lengths ==
  ASSUME NEW trigger \in Triggers
  PROVE  Program[trigger] \in Seq(Steps) /\ Len(Program[trigger]) = Length(trigger)
<1>1. CASE trigger = "startup"
  BY <1>1, StartupSteps DEF Length
<1>2. CASE trigger = "holiday"
  BY <1>2, HolidaySteps DEF Length
<1>3. CASE trigger = "main_area"
  BY <1>3, MainAreaSteps DEF Length
<1>4. CASE trigger = "sunset"
  BY <1>4, SunsetSteps DEF Length
<1>5. CASE trigger = "boundary"
  BY <1>5, BoundarySteps DEF Length
<1> QED BY <1>1, <1>2, <1>3, <1>4, <1>5 DEF Triggers

\* The next step of a run tells how far it has come.
At(of, n, trigger, left) == of = trigger /\ n = left
Position(of, n, h) ==
  /\ n \in 1 .. 15
  /\ (h = "sun") <=> (At(of, n, "startup", 15))
  /\ (h = "due") <=> (At(of, n, "startup", 14))
  /\ (h = "windows") <=> (At(of, n, "startup", 13))
  /\ (h = "sanity") <=> (At(of, n, "startup", 12))
  /\ (h = "calendar") <=> (At(of, n, "startup", 11) \/ At(of, n, "holiday", 7))
  /\ (h = "holiday1") <=> (At(of, n, "startup", 10) \/ At(of, n, "holiday", 6))
  /\ (h = "holiday2") <=> (At(of, n, "startup", 9) \/ At(of, n, "holiday", 5))
  /\ (h = "rebuilt") <=> (At(of, n, "startup", 8) \/ At(of, n, "boundary", 5))
  /\ (h = "main_window") <=> (At(of, n, "main_area", 5))
  /\ (h = "sunset_windows") <=> (At(of, n, "sunset", 5))
  /\ (h = "release") <=> (At(of, n, "boundary", 8))
  /\ (h = "close") <=> (At(of, n, "boundary", 7))
  /\ (h = "no_key") <=> (At(of, n, "boundary", 6))
  /\ (h = "evaluate") <=> (n = 4 \/ At(of, n, "startup", 7))
  /\ (h = "pillars") <=> (n = 3)
  /\ (h = "path") <=> (n = 2 \/ At(of, n, "startup", 6))
  /\ (h = "backyard") <=> (n = 1 \/ At(of, n, "startup", 5))
  /\ of \in Triggers /\ n <= Length(of)

LEMMA Positions ==
  ASSUME NEW run, Track(run), run # Resting
  PROVE  Position(run.of, Len(run.todo), Head(run.todo))
<1> DEFINE n == Len(run.todo)  steps == Program[run.of]  h == Head(run.todo)
<1>1. /\ run.of \in Triggers /\ run.todo \in Seq(Steps) /\ n \in 1 .. Len(steps)
      /\ \A j \in 1 .. n : run.todo[j] = steps[Len(steps) - n + j]
  BY DEF Track
<1>2. h = run.todo[1] /\ 1 \in 1 .. n /\ n \in Nat
  BY <1>1
<1>3. h = steps[Len(steps) - n + 1]
  BY <1>1, <1>2
<1> HIDE DEF n, h
<1>4. CASE run.of = "startup"
  <2>1. n \in 1 .. 15 /\ h = Program["startup"][16 - n]
    BY <1>1, <1>2, <1>3, <1>4, StartupSteps
  <2>2. \/ (n = 15 /\ h = "sun") \/ (n = 14 /\ h = "due") \/ (n = 13 /\ h = "windows")
        \/ (n = 12 /\ h = "sanity") \/ (n = 11 /\ h = "calendar") \/ (n = 10 /\ h = "holiday1")
        \/ (n = 9 /\ h = "holiday2") \/ (n = 8 /\ h = "rebuilt") \/ (n = 7 /\ h = "evaluate")
        \/ (n = 6 /\ h = "path") \/ (n = 5 /\ h = "backyard") \/ (n = 4 /\ h = "evaluate")
        \/ (n = 3 /\ h = "pillars") \/ (n = 2 /\ h = "path") \/ (n = 1 /\ h = "backyard")
    BY <2>1, StartupSteps
  <2>3. Position(run.of, n, h)
    BY <1>4, <2>2 DEF Position, At, Length, Triggers
  <2> QED BY <2>3 DEF n, h
<1>5. CASE run.of = "holiday"
  <2>1. n \in 1 .. 7 /\ h = Program["holiday"][8 - n]
    BY <1>1, <1>2, <1>3, <1>5, HolidaySteps
  <2>2. \/ (n = 7 /\ h = "calendar") \/ (n = 6 /\ h = "holiday1") \/ (n = 5 /\ h = "holiday2")
        \/ (n = 4 /\ h = "evaluate") \/ (n = 3 /\ h = "pillars") \/ (n = 2 /\ h = "path")
        \/ (n = 1 /\ h = "backyard")
    BY <2>1, HolidaySteps
  <2>3. Position(run.of, n, h)
    BY <1>5, <2>2 DEF Position, At, Length, Triggers
  <2> QED BY <2>3 DEF n, h
<1>6. CASE run.of = "main_area"
  <2>1. n \in 1 .. 5 /\ h = Program["main_area"][6 - n]
    BY <1>1, <1>2, <1>3, <1>6, MainAreaSteps
  <2>2. \/ (n = 5 /\ h = "main_window") \/ (n = 4 /\ h = "evaluate") \/ (n = 3 /\ h = "pillars")
        \/ (n = 2 /\ h = "path") \/ (n = 1 /\ h = "backyard")
    BY <2>1, MainAreaSteps
  <2>3. Position(run.of, n, h)
    BY <1>6, <2>2 DEF Position, At, Length, Triggers
  <2> QED BY <2>3 DEF n, h
<1>7. CASE run.of = "sunset"
  <2>1. n \in 1 .. 5 /\ h = Program["sunset"][6 - n]
    BY <1>1, <1>2, <1>3, <1>7, SunsetSteps
  <2>2. \/ (n = 5 /\ h = "sunset_windows") \/ (n = 4 /\ h = "evaluate") \/ (n = 3 /\ h = "pillars")
        \/ (n = 2 /\ h = "path") \/ (n = 1 /\ h = "backyard")
    BY <2>1, SunsetSteps
  <2>3. Position(run.of, n, h)
    BY <1>7, <2>2 DEF Position, At, Length, Triggers
  <2> QED BY <2>3 DEF n, h
<1>8. CASE run.of = "boundary"
  <2>1. n \in 1 .. 8 /\ h = Program["boundary"][9 - n]
    BY <1>1, <1>2, <1>3, <1>8, BoundarySteps
  <2>2. \/ (n = 8 /\ h = "release") \/ (n = 7 /\ h = "close") \/ (n = 6 /\ h = "no_key")
        \/ (n = 5 /\ h = "rebuilt") \/ (n = 4 /\ h = "evaluate") \/ (n = 3 /\ h = "pillars")
        \/ (n = 2 /\ h = "path") \/ (n = 1 /\ h = "backyard")
    BY <2>1, BoundarySteps
  <2>3. Position(run.of, n, h)
    BY <1>8, <2>2 DEF Position, At, Length, Triggers
  <2> QED BY <2>3 DEF n, h
<1> QED BY <1>1, <1>4, <1>5, <1>6, <1>7, <1>8 DEF Triggers

\* A run goes on with its next step.
LEMMA Turn ==
  ASSUME NEW run, Track(run), run # Resting
  PROVE  /\ Track(Following(run))
         /\ run.todo # <<>>
         /\ Len(run.todo) = 1 => Following(run) = Resting
         /\ Len(run.todo) # 1 =>
              /\ Following(run) # Resting
              /\ Following(run) = [of |-> run.of, todo |-> Tail(run.todo), due |-> run.due, tonight |-> run.tonight]
              /\ Len(Tail(run.todo)) = Len(run.todo) - 1
<1> DEFINE n == Len(run.todo)  steps == Program[run.of]  f == Following(run)
<1>1. /\ run.of \in Triggers /\ run.todo \in Seq(Steps) /\ n \in 1 .. Len(steps)
      /\ run = [of |-> run.of, todo |-> run.todo, due |-> run.due, tonight |-> run.tonight]
      /\ \A j \in 1 .. n : run.todo[j] = steps[Len(steps) - n + j]
      /\ run.due \subseteq Surfaces /\ run.tonight \in BOOLEAN
  BY DEF Track
<1>2. CASE n = 1
  BY <1>1, <1>2 DEF Following, Track
<1>3. CASE n # 1
  <2>1. f = [run EXCEPT !.todo = Tail(run.todo)]
    BY <1>3 DEF Following
  <2>2. f = [of |-> run.of, todo |-> Tail(run.todo), due |-> run.due, tonight |-> run.tonight]
    BY <1>1, <2>1
  <2>3. Tail(run.todo) \in Seq(Steps) /\ Len(Tail(run.todo)) = n - 1
        /\ \A j \in 1..(n - 1) : Tail(run.todo)[j] = run.todo[j + 1]
    BY <1>1, <1>3
  <2>4. Len(steps) \in Nat /\ n \in Nat
    BY <1>1, Lengths DEF Length
  <2> HIDE DEF n, steps
  <2>5. ASSUME NEW j \in 1..(n - 1) PROVE Tail(run.todo)[j] = steps[Len(steps) - (n - 1) + j]
    <3>1. n \in Nat /\ j + 1 \in 1..n /\ Tail(run.todo)[j] = run.todo[j + 1]
      BY <1>1, <2>3, <2>4
    <3>2. Len(steps) - (n - 1) + j = Len(steps) - n + (j + 1)
      BY <3>1, <2>4
    <3>3. run.todo[j + 1] = steps[Len(steps) - n + (j + 1)]
      BY <1>1, <3>1
    <3> QED BY <3>1, <3>2, <3>3
  <2>6. f # Resting
    BY <2>2, <1>1 DEF Resting, Triggers, None
  <2>7. f.of = run.of /\ f.todo = Tail(run.todo) /\ f.due = run.due /\ f.tonight = run.tonight
    BY <2>2
  <2>8. n - 1 \in 1 .. Len(steps)
    BY <1>1, <1>3, <2>4
  <2>9. Track(f)
    <3> HIDE DEF f
    <3> QED BY <1>1, <2>2, <2>3, <2>5, <2>7, <2>8 DEF Track, steps
  <2> QED BY <1>1, <1>3, <2>2, <2>3, <2>6, <2>9 DEF n
<1> QED BY <1>2, <1>3

\* A trigger starts its program.
LEMMA Starting ==
  ASSUME NEW trigger \in Triggers
  PROVE  LET run == [Resting EXCEPT !.of = trigger, !.todo = Program[trigger]]
         IN /\ Track(run) /\ run # Resting /\ run.of = trigger
            /\ Len(run.todo) = Length(trigger)
<1> DEFINE run == [Resting EXCEPT !.of = trigger, !.todo = Program[trigger]]
<1>1. run = [of |-> trigger, todo |-> Program[trigger], due |-> {}, tonight |-> FALSE]
  <2>1. /\ DOMAIN run = {"of", "todo", "due", "tonight"}
        /\ run.of = trigger /\ run.todo = Program[trigger] /\ run.due = {} /\ run.tonight = FALSE
    BY DEF Resting
  <2>2. run = [i \in DOMAIN run |-> run[i]]
    OBVIOUS
  <2> HIDE DEF run
  <2> QED BY <2>1, <2>2
<1>2. Program[trigger] \in Seq(Steps) /\ Len(Program[trigger]) >= 1
  BY Lengths DEF Length
<1>3. run # Resting
  BY <1>1 DEF Resting, None, Triggers
<1> HIDE DEF run
<1>4. Track(run)
  <2> DEFINE q == Program[trigger]
  <2>1. run.of = trigger /\ run.todo = q /\ run.due = {} /\ run.tonight = FALSE
    BY <1>1
  <2>2. q \in Seq(Steps) /\ Len(q) \in 1..Len(q) /\ \A j \in 1..Len(q) : q[j] = q[Len(q) - Len(q) + j]
    BY <1>2
  <2> QED BY <1>1, <2>1, <2>2 DEF Track
<1>5. run.of = trigger /\ Len(run.todo) = Length(trigger)
  BY <1>1, Lengths
<1>6. run = [Resting EXCEPT !.of = trigger, !.todo = Program[trigger]]
  BY DEF run
<1> QED BY <1>3, <1>4, <1>5, <1>6

-----------------------------------------------------------------------------
(* The evaluators' runs *)

Callers == {"schedule", "cabinet", "living", "yard"} \cup DOMAIN Called
Shades == Appearances \cup Looks \cup {"white", "scene"}

\* What a run r of script x can be.
Sound(x, r) ==
  /\ r = [by |-> r.by, at |-> r.at, plan |-> r.plan]
  /\ r.at \in 1 .. Len(Stages[x])
  /\ r.by \in Callers \/ (r.by = None /\ r = Idle)
  /\ r.plan # {} =>
       /\ Stages[x][r.at] \in Surfaces
       /\ \A answer \in r.plan : answer.owner[Stages[x][r.at]] \notin Structural

ScriptsOK ==
  /\ script = [x \in Scripts |-> script[x]]
  /\ \A x \in Scripts : Sound(x, script[x])

LEMMA StagesAre ==
  /\ Len(Stages["evaluate"]) = 3 /\ Len(Stages["path"]) = 1 /\ Len(Stages["backyard"]) = 1
  /\ Stages["evaluate"][1] = "front_eve" /\ Stages["evaluate"][2] = "main_area"
  /\ Stages["evaluate"][3] = "liquor_cabinet"
  /\ Stages["path"][1] = "path" /\ Stages["backyard"][1] = "backyard"
  BY DEF Stages

LEMMA StageIn ==
  ASSUME NEW x \in Scripts, NEW i \in 1 .. Len(Stages[x])
  PROVE  /\ Len(Stages[x]) \in 1..3
         /\ Stages[x][i] \in Surfaces \/ Stages[x][i] = "liquor_cabinet"
<1>1. CASE x = "evaluate"
  BY <1>1, StagesAre DEF Surfaces
<1>2. CASE x = "path"
  BY <1>2, StagesAre DEF Surfaces
<1>3. CASE x = "backyard"
  BY <1>3, StagesAre DEF Surfaces
<1> QED BY <1>1, <1>2, <1>3 DEF Scripts

LEMMA IdleIs == ASSUME NEW x \in Scripts
  PROVE Sound(x, Idle) /\ Idle.by = None /\ Idle.at = 1 /\ Idle.plan = {} /\ None \notin Callers
<1>1. Len(Stages[x]) \in Nat /\ 1 \in 1 .. Len(Stages[x])
  BY StagesAre DEF Scripts
<1>2. Idle.by = None /\ Idle.at = 1 /\ Idle.plan = {}
  BY DEF Idle
<1>3. Idle = [by |-> Idle.by, at |-> Idle.at, plan |-> Idle.plan]
  BY DEF Idle
<1>4. None \notin Callers
  BY DEF None, Callers, Called
<1> QED BY <1>1, <1>2, <1>3, <1>4 DEF Sound

LEMMA CallSound ==
  ASSUME NEW x \in Scripts, NEW by \in Callers
  PROVE  LET r == [Idle EXCEPT !.by = by]
         IN Sound(x, r) /\ r.by = by /\ r.at = 1 /\ r.plan = {}
<1> DEFINE r == [Idle EXCEPT !.by = by]
<1>1. r = [by |-> by, at |-> 1, plan |-> {}]
  BY DEF Idle
<1>2. Len(Stages[x]) \in Nat /\ 1 \in 1 .. Len(Stages[x])
  BY StagesAre DEF Scripts
<1> HIDE DEF r
<1>3. r.by = by /\ r.at = 1 /\ r.plan = {}
  BY <1>1
<1>4. Sound(x, r)
  BY <1>1, <1>2, <1>3 DEF Sound
<1> QED BY <1>3, <1>4 DEF r

LEMMA PastSound ==
  ASSUME NEW x \in Scripts, Sound(x, script[x]), script[x].by # None
  PROVE  /\ Sound(x, Past(x))
         /\ script[x].at = Len(Stages[x]) => Past(x) = Idle
         /\ script[x].at # Len(Stages[x]) =>
              Past(x).by = script[x].by /\ Past(x).at = script[x].at + 1 /\ Past(x).plan = {}
<1> DEFINE r == script[x]
<1>1. Len(Stages[x]) \in Nat /\ r.at \in 1 .. Len(Stages[x]) /\ r.by \in Callers
      /\ r = [by |-> r.by, at |-> r.at, plan |-> r.plan]
  BY StagesAre DEF Scripts, Sound
<1>2. CASE r.at = Len(Stages[x])
  BY <1>2, IdleIs DEF Past
<1>3. CASE r.at # Len(Stages[x])
  <2> DEFINE p == [r EXCEPT !.at = @ + 1, !.plan = {}]
  <2>1. Past(x) = p
    BY <1>3 DEF Past
  <2>2. DOMAIN p = {"by", "at", "plan"} /\ p.by = r.by /\ p.at = r.at + 1 /\ p.plan = {}
    BY <1>1
  <2>3. p = [i \in DOMAIN p |-> p[i]]
    OBVIOUS
  <2> HIDE DEF p, r
  <2>4. p = [by |-> p.by, at |-> p.at, plan |-> p.plan]
    BY <2>2, <2>3
  <2>5. p.at \in 1 .. Len(Stages[x])
    BY <1>1, <1>3, <2>2
  <2>6. Sound(x, p)
    BY <1>1, <2>2, <2>4, <2>5 DEF Sound
  <2> QED BY <1>3, <2>1, <2>2, <2>6 DEF r
<1> QED BY <1>2, <1>3

LEMMA PlanSound ==
  ASSUME NEW x \in Scripts, Sound(x, script[x]), script[x].by # None,
         Stages[x][script[x].at] \in Surfaces, Owners[Stages[x][script[x].at]] \notin Structural
  PROVE  LET r == [script[x] EXCEPT !.plan = {Resolved}]
         IN Sound(x, r) /\ r.by = script[x].by /\ r.at = script[x].at
<1> DEFINE r == [script[x] EXCEPT !.plan = {Resolved}]
<1>1. /\ script[x].at \in 1 .. Len(Stages[x]) /\ script[x].by \in Callers
      /\ script[x] = [by |-> script[x].by, at |-> script[x].at, plan |-> script[x].plan]
  BY DEF Sound
<1>2. r = [by |-> script[x].by, at |-> script[x].at, plan |-> {Resolved}]
  <2>1. DOMAIN r = {"by", "at", "plan"} /\ r.by = script[x].by /\ r.at = script[x].at /\ r.plan = {Resolved}
    BY <1>1
  <2>2. r = [i \in DOMAIN r |-> r[i]]
    OBVIOUS
  <2> HIDE DEF r
  <2> QED BY <2>1, <2>2
<1>3. Resolved.owner = Owners
  BY DEF Resolved
<1> HIDE DEF r
<1>4. r.by = script[x].by /\ r.at = script[x].at /\ r.plan = {Resolved}
  BY <1>2
<1>5. \A answer \in r.plan : answer.owner[Stages[x][r.at]] \notin Structural
  BY <1>3, <1>4
<1>6. Sound(x, r)
  BY <1>1, <1>2, <1>4, <1>5 DEF Sound
<1> QED BY <1>4, <1>6 DEF r

\* The scripts after a step that restarts one of them, ends some, or neither.
Given(x, r) == script' = [script EXCEPT ![x] = r]

LEMMA GivenSound ==
  ASSUME ScriptsOK, NEW x \in Scripts, NEW r, Sound(x, r), Given(x, r)
  PROVE  ScriptsOK' /\ script'[x] = r /\ \A y \in Scripts \ {x} : script'[y] = script[y]
  BY DEF ScriptsOK, Given

LEMMA EndedSound ==
  ASSUME ScriptsOK, NEW by, script' = WithoutRunsOf(by)
  PROVE  ScriptsOK' /\ \A x \in Scripts : script'[x] = IF script[x].by = by THEN Idle ELSE script[x]
  BY IdleIs DEF ScriptsOK, WithoutRunsOf

-----------------------------------------------------------------------------
(* The cabinet's automation *)

Todos == {<<>>, <<"keep", "white">>, <<"white">>, <<"restore", "done">>, <<"evaluate", "done">>,
          <<"done">>}

CabinetOK ==
  /\ cabinet = [todo |-> cabinet.todo, look |-> cabinet.look]
  /\ cabinet.todo \in Todos /\ cabinet.look \in Shades
  /\ cabinet.todo = <<>> => cabinet = Waiting
  /\ queue \in Seq({"open", "close"}) /\ Len(queue) < MaxQueued
  /\ valid \in BOOLEAN /\ snapshot \in Shades /\ visit \in Shades \cup {None}

LEMMA TodosApart ==
  /\ <<"keep", "white">> \notin {<<>>, <<"white">>, <<"restore", "done">>, <<"evaluate", "done">>, <<"done">>}
  /\ <<"white">> \notin {<<>>, <<"restore", "done">>, <<"evaluate", "done">>, <<"done">>}
  /\ <<"restore", "done">> \notin {<<>>, <<"evaluate", "done">>, <<"done">>}
  /\ <<"evaluate", "done">> \notin {<<>>, <<"done">>}
  /\ <<"done">> # <<>>
  OBVIOUS

LEMMA WaitingIs == Waiting.todo = <<>> /\ Waiting.look = "off" /\ Waiting = [todo |-> Waiting.todo, look |-> Waiting.look]
  BY DEF Waiting

LEMMA OffIsShade == "off" \in Shades /\ "white" \in Shades /\ "scene" \in Shades /\ Appearances \subseteq Shades
  BY DEF Shades, Appearances

LEMMA CabinetTurn ==
  ASSUME CabinetOK, NEW step, InCabinet(step)
  PROVE  /\ step = "keep" => cabinet.todo = <<"keep", "white">> /\ cabinet'.todo = <<"white">>
         /\ step = "white" => cabinet.todo = <<"white">> /\ cabinet' = Waiting
         /\ step = "restore" => cabinet.todo = <<"restore", "done">> /\ cabinet'.todo = <<"done">>
         /\ step = "evaluate" => cabinet.todo = <<"evaluate", "done">> /\ cabinet'.todo = <<"done">>
         /\ step = "done" => cabinet.todo = <<"done">> /\ cabinet' = Waiting
         /\ cabinet' = [todo |-> cabinet'.todo, look |-> cabinet'.look]
         /\ cabinet'.todo \in Todos
         /\ cabinet'.todo = <<>> => cabinet' = Waiting
         /\ cabinet'.look \in {cabinet.look, "off"}
         /\ cabinet'.todo # <<>> => cabinet'.look = cabinet.look
         /\ queue' = queue
<1> DEFINE t == cabinet.todo
<1>1. /\ cabinet = [todo |-> t, look |-> cabinet.look] /\ t \in Todos /\ t # <<>> /\ Head(t) = step
      /\ cabinet' = IF Len(t) = 1 THEN Waiting ELSE [cabinet EXCEPT !.todo = Tail(t)]
      /\ queue' = queue
  BY DEF CabinetOK, InCabinet
<1> HIDE DEF t
<1>2. CASE t = <<"white">> \/ t = <<"done">>
  <2>1. cabinet' = Waiting
    BY <1>1, <1>2
  <2>2. Head(t) \in {"white", "done"} /\ (Head(t) = "white" => t = <<"white">>) /\ (Head(t) = "done" => t = <<"done">>)
    BY <1>2
  <2> QED BY <1>1, <2>1, <2>2, WaitingIs DEF Todos, t
<1>3. CASE t = <<"keep", "white">>
  <2>1. cabinet' = [todo |-> <<"white">>, look |-> cabinet.look] /\ Head(t) = "keep"
    BY <1>1, <1>3
  <2> QED BY <1>1, <1>3, <2>1, TodosApart DEF Todos, t
<1>4. CASE t = <<"restore", "done">>
  <2>1. cabinet' = [todo |-> <<"done">>, look |-> cabinet.look] /\ Head(t) = "restore"
    BY <1>1, <1>4
  <2> QED BY <1>1, <1>4, <2>1, TodosApart DEF Todos, t
<1>5. CASE t = <<"evaluate", "done">>
  <2>1. cabinet' = [todo |-> <<"done">>, look |-> cabinet.look] /\ Head(t) = "evaluate"
    BY <1>1, <1>5
  <2> QED BY <1>1, <1>5, <2>1, TodosApart DEF Todos, t
<1> QED BY <1>1, <1>2, <1>3, <1>4, <1>5 DEF Todos

\* What the automation makes of an event.
LEMMA OpenedIs ==
  \/ /\ "living" \in sync /\ Opened = Waiting
  \/ /\ "living" \notin sync /\ Captures /\ Opened.todo = <<"keep", "white">> /\ Opened.look = liquor
     /\ Opened = [todo |-> Opened.todo, look |-> Opened.look]
  \/ /\ "living" \notin sync /\ ~Captures /\ Opened.todo = <<"white">> /\ Opened.look = "off"
     /\ Opened = [todo |-> Opened.todo, look |-> Opened.look]
<1>1. CASE "living" \in sync
  BY <1>1 DEF Opened
<1>2. CASE "living" \notin sync /\ Captures
  <2>1. Opened = [todo |-> <<"keep", "white">>, look |-> liquor]
    BY <1>2 DEF Opened
  <2> QED BY <1>2, <2>1
<1>3. CASE "living" \notin sync /\ ~Captures
  <2>1. Opened = [todo |-> <<"white">>, look |-> "off"]
    BY <1>3 DEF Opened, Waiting
  <2> QED BY <1>3, <2>1
<1> QED BY <1>1, <1>2, <1>3

LEMMA ClosedIs ==
  ASSUME NEW open
  PROVE  \/ /\ (open # {} \/ "living" \in sync) /\ Closed(open) = Waiting
         \/ /\ open = {} /\ "living" \notin sync /\ "main_area" \in manual /\ valid
            /\ Closed(open).todo = <<"restore", "done">> /\ Closed(open).look = "off"
            /\ Closed(open) = [todo |-> Closed(open).todo, look |-> Closed(open).look]
         \/ /\ open = {} /\ "living" \notin sync /\ ~("main_area" \in manual /\ valid)
            /\ Closed(open).todo = <<"evaluate", "done">> /\ Closed(open).look = "off"
            /\ Closed(open) = [todo |-> Closed(open).todo, look |-> Closed(open).look]
<1>1. CASE open # {} \/ "living" \in sync
  BY <1>1 DEF Closed
<1>2. CASE open = {} /\ "living" \notin sync /\ "main_area" \in manual /\ valid
  <2>1. Closed(open) = [todo |-> <<"restore", "done">>, look |-> "off"]
    BY <1>2 DEF Closed, Waiting
  <2> HIDE DEF Closed
  <2> QED BY <1>2, <2>1
<1>3. CASE open = {} /\ "living" \notin sync /\ ~("main_area" \in manual /\ valid)
  <2>1. Closed(open) = [todo |-> <<"evaluate", "done">>, look |-> "off"]
    BY <1>3 DEF Closed, Waiting
  <2> QED BY <1>3, <2>1
<1> QED BY <1>1, <1>2, <1>3

LEMMA RunOK ==
  ASSUME NEW event, NEW open, liquor \in Shades
  PROVE  /\ Run(event, open) = [todo |-> Run(event, open).todo, look |-> Run(event, open).look]
         /\ Run(event, open).todo \in Todos /\ Run(event, open).look \in Shades
         /\ Run(event, open).todo = <<>> => Run(event, open) = Waiting
<1>1. CASE event = "open"
  <2>1. Run(event, open) = Opened
    BY <1>1 DEF Run
  <2>2. /\ Opened = [todo |-> Opened.todo, look |-> Opened.look]
        /\ Opened.todo \in Todos /\ Opened.look \in Shades
        /\ Opened.todo = <<>> => Opened = Waiting
    BY OpenedIs, TodosApart, WaitingIs, OffIsShade DEF Todos
  <2> QED BY <2>1, <2>2
<1>2. CASE event # "open"
  <2> DEFINE c == Closed(open)
  <2>1. Run(event, open) = c
    BY <1>2 DEF Run
  <2>3. \/ c = Waiting
        \/ c.todo \in {<<"restore", "done">>, <<"evaluate", "done">>} /\ c.look = "off" /\ c = [todo |-> c.todo, look |-> c.look]
    BY ClosedIs
  <2> HIDE DEF c
  <2>2. /\ c = [todo |-> c.todo, look |-> c.look]
        /\ c.todo \in Todos /\ c.look \in Shades
        /\ c.todo = <<>> => c = Waiting
    BY <2>3, TodosApart, WaitingIs, OffIsShade DEF Todos
  <2> QED BY <2>1, <2>2
<1> QED BY <1>1, <1>2

-----------------------------------------------------------------------------
(* The steps of the schedule that set helpers *)

Left == Len(schedule.todo)

\* A run that notes the answer of one of its steps.
LEMMA NotesDue ==
  ASSUME NEW run, Track(run), run # Resting, NEW due, due \subseteq Surfaces, NEW next, next = [run EXCEPT !.due = due]
  PROVE  /\ Track(next) /\ next # Resting /\ next.of = run.of /\ next.todo = run.todo
         /\ next.due = due /\ next.tonight = run.tonight
<1>1. /\ run.of \in Triggers /\ run.todo \in Seq(Steps)
      /\ Len(run.todo) \in 1 .. Len(Program[run.of])
      /\ \A j \in 1 .. Len(run.todo) :
           run.todo[j] = Program[run.of][Len(Program[run.of]) - Len(run.todo) + j]
      /\ run = [of |-> run.of, todo |-> run.todo, due |-> run.due, tonight |-> run.tonight]
      /\ run.due \subseteq Surfaces /\ run.tonight \in BOOLEAN
  BY DEF Track
<1>2. /\ DOMAIN next = {"of", "todo", "due", "tonight"} /\ next = [i \in DOMAIN next |-> next[i]]
      /\ next.of = run.of /\ next.todo = run.todo /\ next.due = due /\ next.tonight = run.tonight
  BY <1>1
<1>3. next = [of |-> next.of, todo |-> next.todo, due |-> next.due, tonight |-> next.tonight]
  BY <1>2
<1>4. next # Resting
  BY <1>1, <1>2 DEF Resting, Triggers, None
<1>5. Track(next)
  BY <1>1, <1>2, <1>3 DEF Track
<1> QED BY <1>2, <1>4, <1>5

LEMMA NotesTonight ==
  ASSUME NEW run, Track(run), run # Resting, NEW tonight \in BOOLEAN, NEW next, next = [run EXCEPT !.tonight = tonight]
  PROVE  /\ Track(next) /\ next # Resting /\ next.of = run.of /\ next.todo = run.todo
         /\ next.tonight = tonight /\ next.due = run.due
<1>1. /\ run.of \in Triggers /\ run.todo \in Seq(Steps)
      /\ Len(run.todo) \in 1 .. Len(Program[run.of])
      /\ \A j \in 1 .. Len(run.todo) :
           run.todo[j] = Program[run.of][Len(Program[run.of]) - Len(run.todo) + j]
      /\ run = [of |-> run.of, todo |-> run.todo, due |-> run.due, tonight |-> run.tonight]
      /\ run.due \subseteq Surfaces /\ run.tonight \in BOOLEAN
  BY DEF Track
<1>2. /\ DOMAIN next = {"of", "todo", "due", "tonight"} /\ next = [i \in DOMAIN next |-> next[i]]
      /\ next.of = run.of /\ next.todo = run.todo /\ next.tonight = tonight /\ next.due = run.due
  BY <1>1
<1>3. next = [of |-> next.of, todo |-> next.todo, due |-> next.due, tonight |-> next.tonight]
  BY <1>2
<1>4. next # Resting
  BY <1>1, <1>2 DEF Resting, Triggers, None
<1>5. Track(next)
  BY <1>1, <1>2, <1>3 DEF Track
<1> QED BY <1>2, <1>4, <1>5

\* Where a run of the schedule is when it does a step, and what comes of it.
LEMMA DoingIs ==
  ASSUME Track(schedule), NEW step, Doing(step)
  PROVE  /\ schedule # Resting /\ RunsOf("schedule") = {} /\ Position(schedule.of, Left, step)
         /\ Left = 1 => Following(schedule) = Resting
         /\ Left # 1 =>
              /\ Following(schedule) # Resting
              /\ Following(schedule).of = schedule.of /\ Len(Following(schedule).todo) = Left - 1
              /\ Following(schedule).due = schedule.due /\ Following(schedule).tonight = schedule.tonight
         /\ Track(Following(schedule))
<1>1. schedule.todo # <<>> /\ Head(schedule.todo) = step /\ RunsOf("schedule") = {}
  BY DEF Doing
<1>2. schedule # Resting
  BY <1>1 DEF Resting
<1>3. Position(schedule.of, Left, step)
  BY <1>1, <1>2, Positions DEF Left
<1>4. /\ Track(Following(schedule))
      /\ Left = 1 => Following(schedule) = Resting
      /\ Left # 1 => /\ Following(schedule) # Resting
                     /\ Following(schedule) = [of |-> schedule.of, todo |-> Tail(schedule.todo), due |-> schedule.due,
                                               tonight |-> schedule.tonight]
                     /\ Len(Tail(schedule.todo)) = Left - 1
  BY <1>2, Turn DEF Left
<1>5. Left # 1 => /\ Following(schedule).of = schedule.of /\ Following(schedule).todo = Tail(schedule.todo)
                  /\ Following(schedule).due = schedule.due /\ Following(schedule).tonight = schedule.tonight
  BY <1>4
<1> QED BY <1>1, <1>2, <1>3, <1>4, <1>5

HelperSteps == {"sun", "due", "windows", "sanity", "calendar", "holiday1", "holiday2", "rebuilt",
                "main_window", "sunset_windows", "release", "close", "no_key"}

\* The run goes on behind a step that sets a helper.
GoesOn(step) ==
  /\ step \in HelperSteps /\ Position(schedule.of, Left, step) /\ RunsOf("schedule") = {}
  /\ schedule # Resting /\ schedule' # Resting /\ Track(schedule')
  /\ schedule'.of = schedule.of /\ Len(schedule'.todo) = Left - 1 /\ Left \in 5 .. 15
  /\ schedule'.due = IF step = "due" THEN DueWindows ELSE schedule.due
  /\ step = "calendar" => schedule'.tonight = DueHoliday
  /\ step # "calendar" => schedule'.tonight = schedule.tonight

\* What each step does to the helpers.
Effects(step) ==
  /\ windows' = CASE step = "windows" -> schedule.due [] step = "main_window" -> windows \cup {"main_area"}
                  [] step = "sunset_windows" -> windows \cup SunsetWindows [] step = "close" -> {}
                  [] OTHER -> windows
  /\ step = "holiday1" => key' = (schedule.tonight \/ key) /\ active' = (schedule.tonight /\ active)
  /\ step = "holiday2" => key' = schedule.tonight /\ active' = schedule.tonight
  /\ step = "close" => key' = key /\ active' = FALSE
  /\ step = "no_key" => key' = FALSE /\ active' = active
  /\ step \notin {"holiday1", "holiday2", "close", "no_key"} => key' = key /\ active' = active
  /\ step = "rebuilt" => rebuilt' = TRUE
  /\ step # "rebuilt" => rebuilt' = rebuilt
  /\ manual' \subseteq manual /\ recall' \in {recall, FALSE}
  /\ step \notin {"sanity", "release"} => manual' = manual /\ recall' = recall
  /\ step = "release" => manual' = {} /\ recall' = FALSE
  /\ UNCHANGED <<sync, spa, game, doors>>

LEMMA DueTypes == DueWindows \subseteq Surfaces
  BY DEF DueWindows, SunsetWindows, Surfaces

LEMMA DoneGoesOn ==
  ASSUME Track(schedule), NEW step \in HelperSteps \ {"due", "calendar"}, Doing(step), Done
  PROVE  GoesOn(step)
<1>1. Left \in 5 .. 15
  BY DoingIs DEF Position, HelperSteps, At
<1>2. schedule' = Following(schedule)
  BY DEF Done
<1> QED BY <1>1, <1>2, DoingIs DEF GoesOn

LEMMA HelpersDo ==
  ASSUME Track(schedule), Helpers, recall \in BOOLEAN, festive \in BOOLEAN
  PROVE  \E step : GoesOn(step) /\ Effects(step)
<1>1. CASE Doing("sun") /\ Done /\ UNCHANGED <<inputs, recall, rebuilt>>
  <2>1. GoesOn("sun")
    BY <1>1, DoneGoesOn DEF HelperSteps
  <2>2. Effects("sun")
    BY <1>1 DEF Effects, inputs
  <2> QED BY <2>1, <2>2
<1>2. CASE /\ Doing("due")
           /\ schedule' = [Following(schedule) EXCEPT !.due = DueWindows]
           /\ UNCHANGED <<inputs, recall, rebuilt>>
  <2>1. Left \in 5..15 /\ Left # 1
    BY <1>2, DoingIs DEF Position, At
  <2>2. /\ Track(schedule') /\ schedule' # Resting /\ schedule'.of = Following(schedule).of
        /\ schedule'.todo = Following(schedule).todo /\ schedule'.due = DueWindows
        /\ schedule'.tonight = Following(schedule).tonight
    <3> DEFINE f == Following(schedule)  d == DueWindows
    <3>1. Track(f) /\ f # Resting /\ d \subseteq Surfaces
      BY <1>2, <2>1, DoingIs, DueTypes
    <3>2. schedule' = [f EXCEPT !.due = d]
      BY <1>2
    <3> HIDE DEF f, d
    <3>3. /\ Track(schedule') /\ schedule' # Resting /\ schedule'.of = f.of /\ schedule'.todo = f.todo
          /\ schedule'.due = d /\ schedule'.tonight = f.tonight
      BY <3>1, <3>2, NotesDue
    <3> QED BY <3>3 DEF f, d
  <2>3. GoesOn("due")
    BY <1>2, <2>1, <2>2, DoingIs DEF GoesOn, HelperSteps
  <2>4. Effects("due")
    BY <1>2 DEF Effects, inputs
  <2> QED BY <2>3, <2>4
<1>3. CASE /\ Doing("calendar")
           /\ schedule' = [Following(schedule) EXCEPT !.tonight = DueHoliday]
           /\ UNCHANGED <<inputs, recall, rebuilt>>
  <2>1. Left \in 5..15 /\ Left # 1
    BY <1>3, DoingIs DEF Position, At
  <2>0. DueHoliday \in BOOLEAN
    BY DEF DueHoliday
  <2>2. /\ Track(schedule') /\ schedule' # Resting /\ schedule'.of = Following(schedule).of
        /\ schedule'.todo = Following(schedule).todo /\ schedule'.due = Following(schedule).due
        /\ schedule'.tonight = DueHoliday
    <3> DEFINE f == Following(schedule)
    <3>1. Track(f) /\ f # Resting
      BY <1>3, <2>1, DoingIs
    <3>2. schedule' = [f EXCEPT !.tonight = DueHoliday]
      BY <1>3
    <3> HIDE DEF f
    <3>3. /\ Track(schedule') /\ schedule' # Resting /\ schedule'.of = f.of /\ schedule'.todo = f.todo
          /\ schedule'.due = f.due /\ schedule'.tonight = DueHoliday
      BY <3>1, <3>2, NotesTonight, <2>0
    <3> QED BY <3>3 DEF f
  <2>3. GoesOn("calendar")
    BY <1>3, <2>1, <2>2, DoingIs DEF GoesOn, HelperSteps
  <2>4. Effects("calendar")
    BY <1>3 DEF Effects, inputs
  <2> QED BY <2>3, <2>4
<1>4. CASE Doing("windows") /\ windows' = schedule.due /\ Done
           /\ UNCHANGED <<key, active, manual, sync, spa, game, doors, recall, rebuilt>>
  <2>1. GoesOn("windows")
    BY <1>4, DoneGoesOn DEF HelperSteps
  <2>2. Effects("windows")
    BY <1>4 DEF Effects
  <2> QED BY <2>1, <2>2
<1>5. CASE Doing("main_window") /\ windows' = windows \cup {"main_area"} /\ Done
           /\ UNCHANGED <<key, active, manual, sync, spa, game, doors, recall, rebuilt>>
  <2>1. GoesOn("main_window")
    BY <1>5, DoneGoesOn DEF HelperSteps
  <2>2. Effects("main_window")
    BY <1>5 DEF Effects
  <2> QED BY <2>1, <2>2
<1>6. CASE Doing("sunset_windows") /\ windows' = windows \cup SunsetWindows /\ Done
           /\ UNCHANGED <<key, active, manual, sync, spa, game, doors, recall, rebuilt>>
  <2>1. GoesOn("sunset_windows")
    BY <1>6, DoneGoesOn DEF HelperSteps
  <2>2. Effects("sunset_windows")
    BY <1>6 DEF Effects
  <2> QED BY <2>1, <2>2
<1>7. CASE \E held \in BOOLEAN :
              /\ Doing("sanity") /\ Done
              /\ manual' = manual \ Dark(held) /\ recall' = (recall /\ "main_area" \notin Dark(held))
              /\ UNCHANGED <<windows, key, active, sync, spa, game, doors, rebuilt>>
  <2>1. GoesOn("sanity")
    BY <1>7, DoneGoesOn DEF HelperSteps
  <2>2. Effects("sanity")
    BY <1>7 DEF Effects
  <2> QED BY <2>1, <2>2
<1>8. CASE /\ Doing("holiday1") /\ Done
           /\ key' = (schedule.tonight \/ key) /\ active' = (schedule.tonight /\ active)
           /\ UNCHANGED <<windows, manual, sync, spa, game, doors, recall, rebuilt>>
  <2>1. GoesOn("holiday1")
    BY <1>8, DoneGoesOn DEF HelperSteps
  <2>2. Effects("holiday1")
    BY <1>8 DEF Effects
  <2> QED BY <2>1, <2>2
<1>9. CASE /\ Doing("holiday2") /\ Done
           /\ key' = schedule.tonight /\ active' = schedule.tonight
           /\ UNCHANGED <<windows, manual, sync, spa, game, doors, recall, rebuilt>>
  <2>1. GoesOn("holiday2")
    BY <1>9, DoneGoesOn DEF HelperSteps
  <2>2. Effects("holiday2")
    BY <1>9 DEF Effects
  <2> QED BY <2>1, <2>2
<1>10. CASE /\ Doing("release") /\ Done
            /\ manual' = {} /\ recall' = FALSE
            /\ UNCHANGED <<windows, key, active, sync, spa, game, doors, rebuilt>>
  <2>1. GoesOn("release")
    BY <1>10, DoneGoesOn DEF HelperSteps
  <2>2. Effects("release")
    BY <1>10 DEF Effects
  <2> QED BY <2>1, <2>2
<1>11. CASE /\ Doing("close") /\ Done
            /\ windows' = {} /\ active' = FALSE
            /\ UNCHANGED <<key, manual, sync, spa, game, doors, recall, rebuilt>>
  <2>1. GoesOn("close")
    BY <1>11, DoneGoesOn DEF HelperSteps
  <2>2. Effects("close")
    BY <1>11 DEF Effects
  <2> QED BY <2>1, <2>2
<1>12. CASE /\ Doing("no_key") /\ Done /\ key' = FALSE
            /\ UNCHANGED <<windows, active, manual, sync, spa, game, doors, recall, rebuilt>>
  <2>1. GoesOn("no_key")
    BY <1>12, DoneGoesOn DEF HelperSteps
  <2>2. Effects("no_key")
    BY <1>12 DEF Effects
  <2> QED BY <2>1, <2>2
<1>13. CASE Doing("rebuilt") /\ Done /\ rebuilt' = TRUE /\ UNCHANGED <<inputs, recall>>
  <2>1. GoesOn("rebuilt")
    BY <1>13, DoneGoesOn DEF HelperSteps
  <2>2. Effects("rebuilt")
    BY <1>13 DEF Effects, inputs
  <2> QED BY <2>1, <2>2
<1> QED BY <1>1, <1>2, <1>3, <1>4, <1>5, <1>6, <1>7, <1>8, <1>9, <1>10, <1>11, <1>12, <1>13 DEF Helpers

-----------------------------------------------------------------------------
(* Types of inputs and lights *)

\* The disjuncts of Next.
Quiet == Undisturbed /\ UNCHANGED cab
HelpersQuietly == Helpers /\ UNCHANGED <<clock, up, script, delayed, lights, owed>> /\ Quiet
CallsNext(x) ==
  /\ Doing(x) /\ Calls(x, "schedule") /\ Done /\ UNCHANGED <<shows, owed>>
  /\ UNCHANGED <<inputs, clock, up, delayed, liquor, recall, rebuilt>> /\ Quiet
Pillars ==
  /\ Doing("pillars") /\ Done /\ owed' = owed \ {"pillars"}
  /\ shows' = [shows EXCEPT !["pillars"] = Owners["pillars"]]
  /\ UNCHANGED script
  /\ UNCHANGED <<inputs, clock, up, delayed, liquor, recall, rebuilt>> /\ Quiet
FailsIn(x) ==
  /\ Fails(x)
  /\ cabinet' = IF script[x].by = "cabinet" THEN Waiting ELSE cabinet
  /\ UNCHANGED <<queue, valid, snapshot, visit>>
Stops == Stop /\ cabinet' = Waiting /\ queue' = <<>> /\ visit' = None /\ UNCHANGED <<valid, snapshot>>

LEMMA NextCases ==
  ASSUME [Next]_vars
  PROVE  \/ (Tick /\ Quiet) \/ (NoSun /\ Quiet) \/ HelpersQuietly
         \/ (\E x \in Scripts : CallsNext(x)) \/ Pillars
         \/ (Spa /\ Quiet) \/ (GameChanges /\ Quiet) \/ (GameMinute /\ Quiet)
         \/ (Released /\ Quiet)
         \/ (\E x \in Scripts : Consider(x) /\ Quiet) \/ (\E x \in Scripts : Render(x) /\ Quiet)
         \/ (\E x \in Scripts : Abandon(x) /\ Quiet)
         \/ (\E area \in {"living", "yard"} : SyncStarts(area) /\ Quiet)
         \/ (\E area \in {"living", "yard"} : SyncStops(area) /\ Quiet)
         \/ (\E s \in Legacy : On(s) /\ Quiet) \/ (\E s \in Legacy : Off(s) /\ Quiet)
         \/ (\E by \in delayed : Due(by) /\ Quiet) \/ (Start /\ Quiet)
         \/ TakesNext \/ Keep \/ White \/ Restore \/ RestoreFails \/ Evaluate \/ Finish
         \/ (\E d \in {"left", "right"} : DoorMoves(d))
         \/ (\E look \in Looks \cup {"off"} : Sets(look))
         \/ SetsAnother \/ RecallsScene
         \/ (\E x \in Scripts : FailsIn(x)) \/ Stops \/ UNCHANGED vars
  BY DEF Next, Around, Schedule, Commands, Cabinet, Breaks, Quiet, HelpersQuietly, CallsNext,
         Pillars, FailsIn, Stops

\* Types, part by part; a house that is down has no runs and owes every surface.
InputsOK ==
  /\ windows \subseteq Surfaces /\ key \in BOOLEAN /\ active \in BOOLEAN
  /\ manual \subseteq Legacy \cup {"main_area", "liquor_cabinet"}
  /\ sync \subseteq {"living", "yard"} /\ spa \in BOOLEAN
  /\ game \in {"PRE", "IN", "POST", "unknown"} /\ doors \subseteq {"left", "right"}
  /\ phase \in {"day", "dusk", "late", "night"} /\ festive \in BOOLEAN
  /\ up \in BOOLEAN /\ recall \in BOOLEAN /\ rebuilt \in BOOLEAN
LightsOK ==
  /\ shows \in [Surfaces -> Appearances] /\ liquor \in Shades
  /\ owed \subseteq Everything /\ delayed \subseteq DOMAIN Called
DownOK ==
  ~up => /\ schedule = Resting /\ (\A x \in Scripts : script[x] = Idle) /\ delayed = {}
         /\ cabinet = Waiting /\ queue = <<>> /\ visit = None /\ owed = Everything
Machinery == Track(schedule) /\ ScriptsOK
Typed == InputsOK /\ LightsOK /\ Machinery /\ CabinetOK /\ DownOK

LEMMA InputsNext ==
  ASSUME InputsOK, Machinery, [Next]_vars
  PROVE  InputsOK'
<1>1. ASSUME Tick, Quiet PROVE InputsOK'
  BY <1>1 DEF Tick, InputsOK, After, inputs, lights
<1>2. ASSUME NoSun, Quiet PROVE InputsOK'
  BY <1>2 DEF NoSun, Quiet, InputsOK, inputs, clock, lights, runs, cab, evening
<1>3. ASSUME HelpersQuietly PROVE InputsOK'
  <2>1. PICK step : GoesOn(step) /\ Effects(step)
    BY <1>3, HelpersDo DEF Machinery, InputsOK, HelpersQuietly
  <2>2. schedule.due \subseteq Surfaces /\ schedule.tonight \in BOOLEAN
    BY <2>1 DEF GoesOn, Machinery, Track
  <2>3. windows' \subseteq Surfaces
    BY <2>1, <2>2 DEF Effects, InputsOK, SunsetWindows, Surfaces
  <2>4. key' \in BOOLEAN /\ active' \in BOOLEAN /\ rebuilt' \in BOOLEAN
    BY <2>1, <2>2 DEF Effects, InputsOK
  <2>5. recall' \in BOOLEAN /\ manual' \subseteq Legacy \cup {"main_area", "liquor_cabinet"}
    BY <2>1 DEF Effects, InputsOK
  <2>6. UNCHANGED <<sync, spa, game, doors, phase, festive, up>>
    BY <1>3, <2>1 DEF Effects, HelpersQuietly, clock
  <2> QED BY <2>3, <2>4, <2>5, <2>6 DEF InputsOK
<1>4. ASSUME NEW x \in Scripts, CallsNext(x) PROVE InputsOK'
  BY <1>4 DEF CallsNext, Quiet, InputsOK, inputs, clock, lights, runs, cab, evening
<1>5. ASSUME Pillars PROVE InputsOK'
  BY <1>5 DEF Pillars, Quiet, InputsOK, inputs, clock, lights, runs, cab, evening
<1>6. ASSUME Spa, Quiet PROVE InputsOK'
  BY <1>6 DEF Spa, Quiet, InputsOK, inputs, clock, lights, runs, cab, evening
<1>7. ASSUME GameChanges, Quiet PROVE InputsOK'
  BY <1>7 DEF GameChanges, GameSteps, InputsOK, clock
<1>8. ASSUME GameMinute, Quiet PROVE InputsOK'
  BY <1>8 DEF GameMinute, Quiet, InputsOK, inputs, clock, lights, runs, cab, evening
<1>9. ASSUME Released, Quiet PROVE InputsOK'
  BY <1>9 DEF Released, Quiet, InputsOK, inputs, clock, lights, runs, cab, evening
<1>10. ASSUME NEW x \in Scripts, Consider(x), Quiet PROVE InputsOK'
  BY <1>10 DEF Consider, Quiet, InputsOK, inputs, clock, lights, runs, cab, evening
<1>11. ASSUME NEW x \in Scripts, Render(x), Quiet PROVE InputsOK'
  BY <1>11 DEF Render, Quiet, InputsOK, inputs, clock, lights, runs, cab, evening
<1>12. ASSUME NEW area \in {"living", "yard"}, SyncStarts(area), Quiet PROVE InputsOK'
  BY <1>12 DEF SyncStarts, Quiet, InputsOK, inputs, clock, lights, runs, cab, evening
<1>13. ASSUME NEW area \in {"living", "yard"}, SyncStops(area), Quiet PROVE InputsOK'
  BY <1>13 DEF SyncStops, Quiet, InputsOK, inputs, clock, lights, runs, cab, evening
<1>14. ASSUME NEW s \in Legacy, On(s), Quiet PROVE InputsOK'
  BY <1>14 DEF On, Quiet, InputsOK, inputs, clock, lights, runs, cab, evening
<1>15. ASSUME NEW s \in Legacy, Off(s), Quiet PROVE InputsOK'
  BY <1>15 DEF Off, Quiet, InputsOK, inputs, clock, lights, runs, cab, evening
<1>16. ASSUME NEW by \in delayed, Due(by), Quiet PROVE InputsOK'
  BY <1>16 DEF Due, Quiet, InputsOK, inputs, clock, lights, runs, cab, evening
<1>17. ASSUME Start, Quiet PROVE InputsOK'
  BY <1>17 DEF Start, Quiet, InputsOK, inputs, clock, lights, runs, cab, evening
<1>18. ASSUME TakesNext PROVE InputsOK'
  BY <1>18 DEF TakesNext, InputsOK, inputs, clock, lights, runs, cab, evening
<1>19. ASSUME Keep PROVE InputsOK'
  BY <1>19 DEF Keep, InputsOK, inputs, clock, lights, runs, cab, evening
<1>20. ASSUME White PROVE InputsOK'
  BY <1>20 DEF White, InputsOK, inputs, clock, lights, runs, cab, evening
<1>21. ASSUME Restore PROVE InputsOK'
  BY <1>21 DEF Restore, InputsOK, inputs, clock, lights, runs, cab, evening
<1>22. ASSUME RestoreFails PROVE InputsOK'
  BY <1>22 DEF RestoreFails, InputsOK, inputs, clock, lights, runs, cab, evening
<1>23. ASSUME Evaluate PROVE InputsOK'
  BY <1>23 DEF Evaluate, InputsOK, inputs, clock, lights, runs, cab, evening
<1>24. ASSUME Finish PROVE InputsOK'
  BY <1>24 DEF Finish, InputsOK, inputs, clock, lights, runs, cab, evening
<1>25. ASSUME NEW d \in {"left", "right"}, DoorMoves(d) PROVE InputsOK'
  BY <1>25 DEF DoorMoves, InputsOK, inputs, clock, lights, runs, cab, evening
<1>26. ASSUME NEW look \in Looks \cup {"off"}, Sets(look) PROVE InputsOK'
  BY <1>26 DEF Sets, InputsOK, runs, cab, clock
<1>27. ASSUME SetsAnother PROVE InputsOK'
  BY <1>27 DEF SetsAnother, InputsOK, inputs, clock, lights, runs, cab, evening
<1>28. ASSUME RecallsScene PROVE InputsOK'
  BY <1>28 DEF RecallsScene, InputsOK, inputs, clock, lights, runs, cab, evening
<1>29. ASSUME NEW x \in Scripts, FailsIn(x) PROVE InputsOK'
  BY <1>29 DEF FailsIn, Fails, InputsOK, inputs, clock, lights, runs, cab, evening
<1>30. ASSUME Stops PROVE InputsOK'
  BY <1>30 DEF Stops, Stop, InputsOK, inputs, clock, lights, runs, cab, evening
<1>31. ASSUME UNCHANGED vars PROVE InputsOK'
  BY <1>31 DEF vars, evening, InputsOK, inputs, clock, lights, runs, cab
<1>32. ASSUME NEW x \in Scripts, Abandon(x), Quiet PROVE InputsOK'
  BY <1>32 DEF Abandon, InputsOK, inputs, clock
<1> QED BY <1>1, <1>2, <1>3, <1>4, <1>5, <1>6, <1>7, <1>8, <1>9, <1>10, <1>11, <1>12, <1>13, <1>14,
       <1>15, <1>16, <1>17, <1>18, <1>19, <1>20, <1>21, <1>22, <1>23, <1>24, <1>25, <1>26, <1>27,
       <1>28, <1>29, <1>30, <1>31, <1>32, NextCases

\* Owners of surfaces that an evaluator may command are appearances.
LEMMA OwnerShades ==
  /\ \A s \in Surfaces : Owners[s] \in Appearances \cup Structural
  /\ \A s \in Surfaces : Owners[s] \notin Structural => Owners[s] \in {"off", "49ers", "holiday", "daily"}
  /\ Owners["pillars"] \in {"off", "daily"}
  BY OwnersTable DEF Table, Eve, Surfaces, Appearances, Structural

\* A render's plan is the answer of a moment at which its surface had no
\* structural owner, and it is carried out only while that answer stands.
LEMMA RenderIs ==
  ASSUME ScriptsOK, NEW x \in Scripts, script[x].plan # {}
  PROVE  /\ Stages[x][script[x].at] \in Surfaces /\ script[x].by # None
         /\ script[x].plan = {Resolved} => Owners[Stages[x][script[x].at]] \notin Structural
<1>1. Sound(x, script[x])
  BY DEF ScriptsOK
<1>2. script[x].by # None
  BY <1>1, IdleIs DEF Sound
<1>3. Resolved.owner = Owners
  BY DEF Resolved
<1> QED BY <1>1, <1>2, <1>3 DEF Sound

LEMMA ShadesAre ==
  /\ Appearances \subseteq Shades /\ {"white", "scene", "off", "other"} \subseteq Shades
  /\ Looks \subseteq Shades /\ {"other", "off"} \subseteq Appearances
  BY DEF Shades, Appearances

LEMMA AheadIn ==
  ASSUME ScriptsOK
  PROVE  /\ \A x \in Scripts : Ahead(x) \subseteq Everything
         /\ \A by : AheadOf(by) \subseteq Everything
         /\ AheadOfSchedule \subseteq Everything
<1>1. ASSUME NEW x \in Scripts, NEW i \in script[x].at .. Len(Stages[x]) PROVE Stages[x][i] \in Everything
  <2>1. i \in 1 .. Len(Stages[x])
    BY StageIn, StagesAre DEF ScriptsOK, Sound, Scripts
  <2> QED BY <2>1, StageIn DEF Everything
<1>2. \A x \in Scripts : Ahead(x) \subseteq Everything
  BY <1>1 DEF Ahead
<1>3. \A by : AheadOf(by) \subseteq Everything
  BY <1>2 DEF AheadOf, RunsOf
<1>4. ASSUME NEW x \in Scripts, NEW j \in DOMAIN Stages[x] PROVE Stages[x][j] \in Everything
  <2>1. CASE x = "evaluate"
    BY <2>1 DEF Stages, Everything, Surfaces
  <2>2. CASE x = "path"
    BY <2>2 DEF Stages, Everything, Surfaces
  <2>3. CASE x = "backyard"
    BY <2>3 DEF Stages, Everything, Surfaces
  <2> QED BY <2>1, <2>2, <2>3 DEF Scripts
<1>5. AheadOfSchedule \subseteq Everything
  BY <1>3, <1>4 DEF AheadOfSchedule, Everything
<1> QED BY <1>2, <1>3, <1>5

LEMMA LightsNext ==
  ASSUME LightsOK, Machinery, CabinetOK, [Next]_vars
  PROVE  LightsOK'
<1>1. ASSUME Tick, Quiet PROVE LightsOK'
  BY <1>1 DEF Tick, LightsOK, lights
<1>2. ASSUME NoSun, Quiet PROVE LightsOK'
  BY <1>2 DEF NoSun, Quiet, LightsOK, inputs, clock, lights, runs, cab, evening
<1>3. ASSUME HelpersQuietly PROVE LightsOK'
  BY <1>3 DEF HelpersQuietly, LightsOK, lights
<1>4. ASSUME NEW x \in Scripts, CallsNext(x) PROVE LightsOK'
  BY <1>4 DEF CallsNext, Quiet, LightsOK, inputs, clock, lights, runs, cab, evening
<1>5. ASSUME Pillars PROVE LightsOK'
  BY <1>5, OwnerShades DEF Pillars, LightsOK, Appearances, Surfaces
<1>6. ASSUME Spa, Quiet PROVE LightsOK'
  BY <1>6, ShadesAre, AheadIn DEF Spa, GivesUp, LightsOK, Machinery, Surfaces, Called
<1>7. ASSUME GameChanges, Quiet PROVE LightsOK'
  BY <1>7 DEF GameChanges, LightsOK, lights, Called, Everything, Surfaces
<1>8. ASSUME GameMinute, Quiet PROVE LightsOK'
  BY <1>8 DEF GameMinute, LightsOK, lights, Called
<1>9. ASSUME Released, Quiet PROVE LightsOK'
  BY <1>9, AheadIn DEF Released, GivesUp, LightsOK, Machinery, lights, Called
<1>10. ASSUME NEW x \in Scripts, Consider(x), Quiet PROVE LightsOK'
  <2>1. liquor' \in Shades
    BY <1>10, ShadesAre DEF Consider, Whitened, LightsOK
  <2>2. owed' \subseteq Everything
    BY <1>10 DEF Consider, LightsOK
  <2> QED BY <1>10, <2>1, <2>2 DEF Consider, LightsOK
<1>11. ASSUME NEW x \in Scripts, Render(x), Quiet PROVE LightsOK'
  <2> DEFINE s == Stages[x][script[x].at]
  <2>1. s \in Surfaces /\ (script[x].plan = {Resolved} => Owners[s] \in Appearances)
    BY <1>11, RenderIs, OwnerShades DEF Machinery, Render, Appearances
  <2> HIDE DEF s
  <2>2. shows' \in [Surfaces -> Appearances]
    BY <1>11, <2>1 DEF Render, LightsOK, lights, s
  <2>3. liquor' \in Shades
    BY <1>11, <2>1, ShadesAre DEF Render, LightsOK, lights, LiquorAfter, Whitened, s
  <2>4. owed' \subseteq Everything
    BY <1>11, <2>1 DEF Render, LightsOK, Everything, s
  <2> QED BY <1>11, <2>2, <2>3, <2>4 DEF Render, LightsOK
<1>12. ASSUME NEW area \in {"living", "yard"}, SyncStarts(area), Quiet PROVE LightsOK'
  BY <1>12, ShadesAre, AheadIn DEF SyncStarts, GivesUp, LightsOK, Machinery, Surfaces
<1>13. ASSUME NEW area \in {"living", "yard"}, SyncStops(area), Quiet PROVE LightsOK'
  BY <1>13 DEF SyncStops, LightsOK, lights
<1>14. ASSUME NEW s \in Legacy, On(s), Quiet PROVE LightsOK'
  BY <1>14, ShadesAre, ResolverAssumption DEF On, LightsOK, runs, Everything, Surfaces
<1>15. ASSUME NEW s \in Legacy, Off(s), Quiet PROVE LightsOK'
  BY <1>15, ShadesAre, ResolverAssumption DEF Off, LightsOK, Everything, Surfaces, Called
<1>16. ASSUME NEW by \in delayed, Due(by), Quiet PROVE LightsOK'
  BY <1>16 DEF Due, Quiet, LightsOK, inputs, clock, lights, runs, cab, evening
<1>17. ASSUME Start, Quiet PROVE LightsOK'
  BY <1>17 DEF Start, Quiet, LightsOK, inputs, clock, lights, runs, cab, evening
<1>18. ASSUME TakesNext PROVE LightsOK'
  BY <1>18 DEF TakesNext, LightsOK, inputs, clock, lights, runs, cab, evening
<1>19. ASSUME Keep PROVE LightsOK'
  BY <1>19 DEF Keep, LightsOK, inputs, clock, lights, runs, cab, evening
<1>20. ASSUME White PROVE LightsOK'
  BY <1>20, ShadesAre DEF White, Whitened, LightsOK, runs
<1>21. ASSUME Restore PROVE LightsOK'
  BY <1>21, ShadesAre DEF Restore, Recalled, Restored, LightsOK, CabinetOK, runs, Everything, Surfaces
<1>22. ASSUME RestoreFails PROVE LightsOK'
  BY <1>22 DEF RestoreFails, LightsOK, runs, lights, Everything
<1>23. ASSUME Evaluate PROVE LightsOK'
  BY <1>23 DEF Evaluate, LightsOK, inputs, clock, lights, runs, cab, evening
<1>24. ASSUME Finish PROVE LightsOK'
  BY <1>24 DEF Finish, LightsOK, inputs, clock, lights, runs, cab, evening
<1>25. ASSUME NEW d \in {"left", "right"}, DoorMoves(d) PROVE LightsOK'
  BY <1>25 DEF DoorMoves, LightsOK, runs, lights, Everything
<1>26. ASSUME NEW look \in Looks \cup {"off"}, Sets(look) PROVE LightsOK'
  BY <1>26, ShadesAre DEF Sets, LightsOK, runs, Everything
<1>27. ASSUME SetsAnother PROVE LightsOK'
  BY <1>27 DEF SetsAnother, LightsOK, inputs, clock, lights, runs, cab, evening
<1>28. ASSUME RecallsScene PROVE LightsOK'
  BY <1>28, ShadesAre DEF RecallsScene, LightsOK, runs, Everything, Surfaces
<1>29. ASSUME NEW x \in Scripts, FailsIn(x) PROVE LightsOK'
  <2>1. owed' \subseteq Everything
    BY <1>29, AheadIn DEF FailsIn, Fails, LightsOK, Machinery
  <2> QED BY <1>29, <2>1 DEF FailsIn, Fails, LightsOK, lights
<1>30. ASSUME Stops PROVE LightsOK'
  BY <1>30 DEF Stops, Stop, LightsOK, lights
<1>31. ASSUME UNCHANGED vars PROVE LightsOK'
  BY <1>31 DEF vars, evening, LightsOK, inputs, clock, lights, runs, cab
<1>32. ASSUME NEW x \in Scripts, Abandon(x), Quiet PROVE LightsOK'
  <2>1. Stages[x][script[x].at] \in Surfaces
    BY <1>32, RenderIs DEF Abandon, Machinery
  <2>2. owed' \subseteq Everything
    BY <1>32, <2>1 DEF Abandon, LightsOK, Everything
  <2>3. liquor' \in {liquor, "white"}
    BY <1>32 DEF Abandon, Whitened
  <2> QED BY <1>32, <2>2, <2>3, ShadesAre DEF Abandon, LightsOK
<1> QED BY <1>1, <1>2, <1>3, <1>4, <1>5, <1>6, <1>7, <1>8, <1>9, <1>10, <1>11, <1>12, <1>13, <1>14,
       <1>15, <1>16, <1>17, <1>18, <1>19, <1>20, <1>21, <1>22, <1>23, <1>24, <1>25, <1>26, <1>27,
       <1>28, <1>29, <1>30, <1>31, <1>32, NextCases

-----------------------------------------------------------------------------
(* Types of the machinery *)

LEMMA StartsDo ==
  ASSUME Machinery, NEW trigger \in Triggers, Starts(trigger)
  PROVE  /\ Machinery'
         /\ schedule' # Resting /\ schedule'.of = trigger /\ Len(schedule'.todo) = Length(trigger)
         /\ \A x \in Scripts : script'[x] = IF script[x].by = "schedule" THEN Idle ELSE script[x]
<1>1. ScriptsOK' /\ \A x \in Scripts : script'[x] = IF script[x].by = "schedule" THEN Idle ELSE script[x]
  BY EndedSound DEF Starts, Machinery
<1>2. Track(schedule') /\ schedule' # Resting /\ schedule'.of = trigger /\ Len(schedule'.todo) = Length(trigger)
  BY Starting DEF Starts
<1> QED BY <1>1, <1>2 DEF Machinery

LEMMA GivesUpDo ==
  ASSUME ScriptsOK, NEW by, GivesUp(by)
  PROVE  ScriptsOK' /\ \A x \in Scripts : script'[x] = IF script[x].by = by THEN Idle ELSE script[x]
  BY EndedSound DEF GivesUp

LEMMA CallsDo ==
  ASSUME ScriptsOK, NEW x \in Scripts, NEW by \in Callers, Calls(x, by)
  PROVE  /\ ScriptsOK'
         /\ script'[x].by = by /\ script'[x].at = 1 /\ script'[x].plan = {}
         /\ \A y \in Scripts \ {x} : script'[y] = script[y]
<1> DEFINE r == [Idle EXCEPT !.by = by]
<1>1. Sound(x, r) /\ r.by = by /\ r.at = 1 /\ r.plan = {}
  BY CallSound
<1>2. Given(x, r)
  BY DEF Calls, Given
<1> HIDE DEF r
<1> QED BY <1>1, <1>2, GivenSound

LEMMA OnwardDo ==
  ASSUME ScriptsOK, NEW x \in Scripts, script[x].by # None, Onward(x)
  PROVE  /\ ScriptsOK' /\ script'[x] = Past(x)
         /\ \A y \in Scripts \ {x} : script'[y] = script[y]
         /\ script[x].at = Len(Stages[x]) => script'[x] = Idle
         /\ script[x].at # Len(Stages[x]) =>
              script'[x].by = script[x].by /\ script'[x].at = script[x].at + 1
<1> DEFINE r == Past(x)
<1>1. /\ Sound(x, r)
      /\ script[x].at = Len(Stages[x]) => r = Idle
      /\ script[x].at # Len(Stages[x]) => r.by = script[x].by /\ r.at = script[x].at + 1
  BY PastSound DEF ScriptsOK
<1>2. Given(x, r)
  BY DEF Onward, Given
<1> HIDE DEF r
<1>3. ScriptsOK' /\ script'[x] = r /\ \A y \in Scripts \ {x} : script'[y] = script[y]
  BY <1>1, <1>2, GivenSound
<1> QED BY <1>1, <1>3 DEF r

LEMMA PlansDo ==
  ASSUME ScriptsOK, NEW x \in Scripts, script[x].by # None,
         script' = [script EXCEPT ![x].plan = {Resolved}],
         Stages[x][script[x].at] \in Surfaces, Owners[Stages[x][script[x].at]] \notin Structural
  PROVE  /\ ScriptsOK' /\ script'[x].by = script[x].by /\ script'[x].at = script[x].at
         /\ \A y \in Scripts \ {x} : script'[y] = script[y]
<1> DEFINE r == [script[x] EXCEPT !.plan = {Resolved}]
<1>1. Sound(x, r) /\ r.by = script[x].by /\ r.at = script[x].at
  BY PlanSound DEF ScriptsOK
<1>2. Given(x, r)
  BY DEF Given
<1> HIDE DEF r
<1> QED BY <1>1, <1>2, GivenSound

\* What looking at the owners makes of the scripts.
LEMMA ConsiderDo ==
  ASSUME ScriptsOK, NEW x \in Scripts, Consider(x)
  PROVE  /\ ScriptsOK' /\ script[x].by # None
         /\ \A y \in Scripts \ {x} : script'[y] = script[y]
         /\ \/ script'[x].by = script[x].by /\ script'[x].at = script[x].at
            \/ /\ \/ Stages[x][script[x].at] = "liquor_cabinet"
                  \/ Owners[Stages[x][script[x].at]] \in Structural
               /\ script'[x] = Past(x)
               /\ script[x].at = Len(Stages[x]) => script'[x] = Idle
               /\ script[x].at # Len(Stages[x]) =>
                    script'[x].by = script[x].by /\ script'[x].at = script[x].at + 1
<1> DEFINE s == Stages[x][script[x].at]
<1>1. script[x].by # None /\ (s \in Surfaces \/ s = "liquor_cabinet") /\ "liquor_cabinet" \notin Surfaces
  BY StageIn DEF Consider, ScriptsOK, Sound, Surfaces
<1>2. CASE Onward(x) /\ (s = "liquor_cabinet" \/ Owners[s] \in Structural)
  BY <1>1, <1>2, OnwardDo
<1>3. CASE s # "liquor_cabinet" /\ Owners[s] \notin Structural /\ script' = [script EXCEPT ![x].plan = {Resolved}]
  BY <1>1, <1>3, PlansDo
<1> QED BY <1>2, <1>3 DEF Consider

LEMMA FailsDo ==
  ASSUME Machinery, NEW x \in Scripts, Fails(x)
  PROVE  /\ Machinery' /\ script'[x] = Idle /\ \A y \in Scripts \ {x} : script'[y] = script[y]
         /\ schedule' = IF script[x].by = "schedule" THEN Resting ELSE schedule
<1>1. ScriptsOK' /\ script'[x] = Idle /\ \A y \in Scripts \ {x} : script'[y] = script[y]
  BY IdleIs, GivenSound DEF Machinery, Given, Fails
<1>2. schedule' = IF script[x].by = "schedule" THEN Resting ELSE schedule
  BY DEF Fails
<1> QED BY <1>1, <1>2 DEF Machinery, Track

LEMMA CallersAre ==
  /\ {"schedule", "cabinet", "living", "yard", "bridge", "spa", "game"} \subseteq Callers
  /\ DOMAIN Called \subseteq Callers /\ \A by \in DOMAIN Called : Called[by] \in Scripts
  /\ {"evaluate", "backyard", "path"} \subseteq Scripts
  /\ \A p \in {"day", "dusk", "late", "night"} : Trigger[p] \in Triggers /\ After[p] \in {"day", "dusk", "late", "night"}
  /\ "startup" \in Triggers
  BY DEF Callers, Called, Scripts, Trigger, Triggers, After

LEMMA MachineryNext ==
  ASSUME InputsOK, LightsOK, Machinery, [Next]_vars
  PROVE  Machinery'
<1>1. ASSUME Tick, Quiet PROVE Machinery'
  <2>1. CASE up
    <3>1. Trigger[phase'] \in Triggers
      BY <1>1, CallersAre DEF Tick, InputsOK
    <3> QED BY <1>1, <2>1, <3>1, StartsDo DEF Tick
  <2>2. CASE ~up
    BY <1>1, <2>2 DEF Tick, Machinery, ScriptsOK
  <2> QED BY <2>1, <2>2
<1>2. ASSUME NoSun, Quiet PROVE Machinery'
  BY <1>2 DEF NoSun, Machinery, ScriptsOK, Track
<1>3. ASSUME HelpersQuietly PROVE Machinery'
  <2>1. PICK step : GoesOn(step)
    BY <1>3, HelpersDo DEF Machinery, InputsOK, HelpersQuietly
  <2> QED BY <1>3, <2>1 DEF GoesOn, HelpersQuietly, Machinery, ScriptsOK
<1>4. ASSUME NEW x \in Scripts, CallsNext(x) PROVE Machinery'
  <2>1. Track(schedule')
    BY <1>4, DoingIs DEF CallsNext, Done, Machinery
  <2>2. ScriptsOK'
    BY <1>4, CallsDo, CallersAre DEF CallsNext, Machinery
  <2> QED BY <2>1, <2>2 DEF Machinery
<1>5. ASSUME Pillars PROVE Machinery'
  <2>1. Track(schedule')
    BY <1>5, DoingIs DEF Pillars, Done, Machinery
  <2> QED BY <1>5, <2>1 DEF Pillars, Machinery, ScriptsOK
<1>6. ASSUME Spa, Quiet PROVE Machinery'
  BY <1>6, GivesUpDo DEF Spa, Machinery
<1>7. ASSUME GameChanges, Quiet PROVE Machinery'
  BY <1>7 DEF GameChanges, Quiet, Machinery, ScriptsOK, runs, evening
<1>8. ASSUME GameMinute, Quiet PROVE Machinery'
  BY <1>8 DEF GameMinute, Quiet, Machinery, ScriptsOK, runs, evening
<1>9. ASSUME Released, Quiet PROVE Machinery'
  BY <1>9, GivesUpDo DEF Released, Machinery
<1>10. ASSUME NEW x \in Scripts, Consider(x), Quiet PROVE Machinery'
  BY <1>10, ConsiderDo DEF Consider, Machinery
<1>11. ASSUME NEW x \in Scripts, Render(x), Quiet PROVE Machinery'
  BY <1>11, RenderIs, OnwardDo DEF Render, Machinery
<1>12. ASSUME NEW area \in {"living", "yard"}, SyncStarts(area), Quiet PROVE Machinery'
  BY <1>12, GivesUpDo DEF SyncStarts, Machinery
<1>13. ASSUME NEW area \in {"living", "yard"}, SyncStops(area), Quiet PROVE Machinery'
  <2>1. CASE UNCHANGED script
    BY <1>13, <2>1 DEF SyncStops, Machinery, ScriptsOK
  <2>2. CASE Calls(IF area = "living" THEN "evaluate" ELSE "backyard", area)
    <3>1. ScriptsOK'
      BY <1>13, <2>2, CallsDo, CallersAre DEF Machinery
    <3> QED BY <1>13, <3>1 DEF SyncStops, Machinery
  <2> QED BY <1>13, <2>1, <2>2 DEF SyncStops
<1>14. ASSUME NEW s \in Legacy, On(s), Quiet PROVE Machinery'
  BY <1>14 DEF On, Quiet, Machinery, ScriptsOK, runs, evening
<1>15. ASSUME NEW s \in Legacy, Off(s), Quiet PROVE Machinery'
  BY <1>15 DEF Off, Quiet, Machinery, ScriptsOK, runs, evening
<1>16. ASSUME NEW by \in delayed, Due(by), Quiet PROVE Machinery'
  <2>1. ScriptsOK'
    BY <1>16, CallsDo, CallersAre DEF Due, Machinery, LightsOK
  <2> QED BY <1>16, <2>1 DEF Due, Machinery
<1>17. ASSUME Start, Quiet PROVE Machinery'
  BY <1>17, StartsDo, CallersAre DEF Start
<1>18. ASSUME TakesNext PROVE Machinery'
  BY <1>18 DEF TakesNext, Machinery, ScriptsOK, runs, evening
<1>19. ASSUME Keep PROVE Machinery'
  BY <1>19 DEF Keep, Machinery, ScriptsOK, runs, evening
<1>20. ASSUME White PROVE Machinery'
  BY <1>20 DEF White, Machinery, ScriptsOK, runs, evening
<1>21. ASSUME Restore PROVE Machinery'
  BY <1>21 DEF Restore, Machinery, ScriptsOK, runs, evening
<1>22. ASSUME RestoreFails PROVE Machinery'
  BY <1>22 DEF RestoreFails, Machinery, ScriptsOK, runs, evening
<1>23. ASSUME Evaluate PROVE Machinery'
  BY <1>23, CallsDo, CallersAre DEF Evaluate, Machinery
<1>24. ASSUME Finish PROVE Machinery'
  BY <1>24 DEF Finish, Machinery, ScriptsOK, runs, evening
<1>25. ASSUME NEW d \in {"left", "right"}, DoorMoves(d) PROVE Machinery'
  BY <1>25 DEF DoorMoves, Machinery, ScriptsOK, runs, evening
<1>26. ASSUME NEW look \in Looks \cup {"off"}, Sets(look) PROVE Machinery'
  BY <1>26 DEF Sets, Machinery, ScriptsOK, runs, evening
<1>27. ASSUME SetsAnother PROVE Machinery'
  BY <1>27 DEF SetsAnother, Machinery, ScriptsOK, runs, evening
<1>28. ASSUME RecallsScene PROVE Machinery'
  BY <1>28 DEF RecallsScene, Machinery, ScriptsOK, runs, evening
<1>29. ASSUME NEW x \in Scripts, FailsIn(x) PROVE Machinery'
  BY <1>29, FailsDo DEF FailsIn
<1>30. ASSUME Stops PROVE Machinery'
  <2>1. ScriptsOK'
    BY <1>30, IdleIs DEF Stops, Stop, ScriptsOK
  <2> QED BY <1>30, <2>1 DEF Stops, Stop, Machinery, Track
<1>31. ASSUME UNCHANGED vars PROVE Machinery'
  BY <1>31 DEF vars, evening, Machinery, ScriptsOK, runs
<1>32. ASSUME NEW x \in Scripts, Abandon(x), Quiet PROVE Machinery'
  BY <1>32, RenderIs, OnwardDo DEF Abandon, Machinery
<1> QED BY <1>1, <1>2, <1>3, <1>4, <1>5, <1>6, <1>7, <1>8, <1>9, <1>10, <1>11, <1>12, <1>13, <1>14,
       <1>15, <1>16, <1>17, <1>18, <1>19, <1>20, <1>21, <1>22, <1>23, <1>24, <1>25, <1>26, <1>27,
       <1>28, <1>29, <1>30, <1>31, <1>32, NextCases

LEMMA CabinetNext ==
  ASSUME LightsOK, CabinetOK, [Next]_vars
  PROVE  CabinetOK'
<1>1. ASSUME Tick, Quiet PROVE CabinetOK'
  BY <1>1 DEF Tick, Quiet, Undisturbed, CabinetOK, cab, evening
<1>2. ASSUME NoSun, Quiet PROVE CabinetOK'
  BY <1>2 DEF NoSun, Quiet, Undisturbed, CabinetOK, cab, evening
<1>3. ASSUME HelpersQuietly PROVE CabinetOK'
  BY <1>3 DEF HelpersQuietly, Quiet, Undisturbed, CabinetOK, cab, evening
<1>4. ASSUME NEW x \in Scripts, CallsNext(x) PROVE CabinetOK'
  BY <1>4 DEF CallsNext, Quiet, Undisturbed, CabinetOK, cab, evening
<1>5. ASSUME Pillars PROVE CabinetOK'
  BY <1>5 DEF Pillars, Quiet, Undisturbed, CabinetOK, cab, evening
<1>6. ASSUME Spa, Quiet PROVE CabinetOK'
  BY <1>6 DEF Spa, Quiet, Undisturbed, CabinetOK, cab, evening
<1>7. ASSUME GameChanges, Quiet PROVE CabinetOK'
  BY <1>7 DEF GameChanges, Quiet, Undisturbed, CabinetOK, cab, evening
<1>8. ASSUME GameMinute, Quiet PROVE CabinetOK'
  BY <1>8 DEF GameMinute, Quiet, Undisturbed, CabinetOK, cab, evening
<1>9. ASSUME Released, Quiet PROVE CabinetOK'
  BY <1>9 DEF Released, Quiet, Undisturbed, CabinetOK, cab, evening
<1>10. ASSUME NEW x \in Scripts, Consider(x), Quiet PROVE CabinetOK'
  BY <1>10 DEF Consider, Quiet, Undisturbed, CabinetOK, cab, evening
<1>11. ASSUME NEW x \in Scripts, Render(x), Quiet PROVE CabinetOK'
  BY <1>11 DEF Render, Quiet, Undisturbed, CabinetOK, cab, evening
<1>12. ASSUME NEW area \in {"living", "yard"}, SyncStarts(area), Quiet PROVE CabinetOK'
  BY <1>12 DEF SyncStarts, Quiet, Undisturbed, CabinetOK, cab, evening
<1>13. ASSUME NEW area \in {"living", "yard"}, SyncStops(area), Quiet PROVE CabinetOK'
  BY <1>13 DEF SyncStops, Quiet, Undisturbed, CabinetOK, cab, evening
<1>14. ASSUME NEW s \in Legacy, On(s), Quiet PROVE CabinetOK'
  BY <1>14 DEF On, Quiet, Undisturbed, CabinetOK, cab, evening
<1>15. ASSUME NEW s \in Legacy, Off(s), Quiet PROVE CabinetOK'
  BY <1>15 DEF Off, Quiet, Undisturbed, CabinetOK, cab, evening
<1>16. ASSUME NEW by \in delayed, Due(by), Quiet PROVE CabinetOK'
  BY <1>16 DEF Due, Quiet, Undisturbed, CabinetOK, cab, evening
<1>17. ASSUME Start, Quiet PROVE CabinetOK'
  BY <1>17 DEF Start, Quiet, Undisturbed, CabinetOK, cab, evening
<1>18. ASSUME TakesNext PROVE CabinetOK'
  <2>1. Tail(queue) \in Seq({"open", "close"}) /\ Len(Tail(queue)) < MaxQueued
    BY <1>18, CabinetAssumption DEF TakesNext, CabinetOK
  <2> DEFINE e == Head(queue)
  <2>2. /\ cabinet' = [todo |-> cabinet'.todo, look |-> cabinet'.look] /\ cabinet'.todo \in Todos
        /\ cabinet'.look \in Shades /\ (cabinet'.todo = <<>> => cabinet' = Waiting)
    BY <1>18, RunOK DEF TakesNext, LightsOK
  <2> QED BY <1>18, <2>1, <2>2 DEF TakesNext, CabinetOK
<1>19. ASSUME Keep PROVE CabinetOK'
  <2>1. cabinet' = [todo |-> cabinet'.todo, look |-> cabinet'.look] /\ cabinet'.todo \in Todos
        /\ (cabinet'.todo = <<>> => cabinet' = Waiting) /\ cabinet'.look \in Shades /\ queue' = queue
    BY <1>19, CabinetTurn, OffIsShade DEF Keep, CabinetOK
  <2> QED BY <1>19, <2>1 DEF Keep, CabinetOK
<1>20. ASSUME White PROVE CabinetOK'
  <2>1. cabinet' = [todo |-> cabinet'.todo, look |-> cabinet'.look] /\ cabinet'.todo \in Todos
        /\ (cabinet'.todo = <<>> => cabinet' = Waiting) /\ cabinet'.look \in Shades /\ queue' = queue
    BY <1>20, CabinetTurn, OffIsShade DEF White, CabinetOK
  <2> QED BY <1>20, <2>1 DEF White, CabinetOK
<1>21. ASSUME Restore PROVE CabinetOK'
  <2>1. cabinet' = [todo |-> cabinet'.todo, look |-> cabinet'.look] /\ cabinet'.todo \in Todos
        /\ (cabinet'.todo = <<>> => cabinet' = Waiting) /\ cabinet'.look \in Shades /\ queue' = queue
    BY <1>21, CabinetTurn, OffIsShade DEF Restore, CabinetOK
  <2> QED BY <1>21, <2>1 DEF Restore, CabinetOK
<1>22. ASSUME RestoreFails PROVE CabinetOK'
  BY <1>22, WaitingIs, OffIsShade DEF RestoreFails, CabinetOK, Todos, cab
<1>23. ASSUME Evaluate PROVE CabinetOK'
  <2>1. cabinet' = [todo |-> cabinet'.todo, look |-> cabinet'.look] /\ cabinet'.todo \in Todos
        /\ (cabinet'.todo = <<>> => cabinet' = Waiting) /\ cabinet'.look \in Shades /\ queue' = queue
    BY <1>23, CabinetTurn, OffIsShade DEF Evaluate, CabinetOK
  <2> QED BY <1>23, <2>1 DEF Evaluate, CabinetOK
<1>24. ASSUME Finish PROVE CabinetOK'
  <2>1. cabinet' = [todo |-> cabinet'.todo, look |-> cabinet'.look] /\ cabinet'.todo \in Todos
        /\ (cabinet'.todo = <<>> => cabinet' = Waiting) /\ cabinet'.look \in Shades /\ queue' = queue
    BY <1>24, CabinetTurn, OffIsShade DEF Finish, CabinetOK
  <2> QED BY <1>24, <2>1 DEF Finish, CabinetOK
<1>25. ASSUME NEW d \in {"left", "right"}, DoorMoves(d) PROVE CabinetOK'
  <2> DEFINE e == IF d \in doors THEN "close" ELSE "open"
  <2>1. queue' \in Seq({"open", "close"}) /\ Len(queue') < MaxQueued
    <3>1. queue' = queue \/ (queue' = Append(queue, e) /\ Len(queue) + 1 < MaxQueued)
      BY <1>25 DEF DoorMoves
    <3> QED BY <3>1, CabinetAssumption DEF CabinetOK
  <2>2. /\ cabinet' = [todo |-> cabinet'.todo, look |-> cabinet'.look] /\ cabinet'.todo \in Todos
        /\ cabinet'.look \in Shades /\ (cabinet'.todo = <<>> => cabinet' = Waiting)
    <3>1. cabinet' = Run(e, doors') \/ cabinet' = cabinet
      BY <1>25 DEF DoorMoves
    <3> QED BY <3>1, RunOK DEF LightsOK, CabinetOK
  <2>3. visit' \in Shades \cup {None}
    BY <1>25 DEF DoorMoves, Found, LightsOK, CabinetOK
  <2> QED BY <1>25, <2>1, <2>2, <2>3 DEF DoorMoves, CabinetOK
<1>26. ASSUME NEW look \in Looks \cup {"off"}, Sets(look) PROVE CabinetOK'
  BY <1>26 DEF Sets, Undisturbed, CabinetOK, cab, evening
<1>27. ASSUME SetsAnother PROVE CabinetOK'
  BY <1>27 DEF SetsAnother, Undisturbed, CabinetOK, cab, evening
<1>28. ASSUME RecallsScene PROVE CabinetOK'
  BY <1>28 DEF RecallsScene, Undisturbed, CabinetOK, cab, evening
<1>29. ASSUME NEW x \in Scripts, FailsIn(x) PROVE CabinetOK'
  BY <1>29, WaitingIs, OffIsShade DEF FailsIn, CabinetOK, Todos, cab
<1>30. ASSUME Stops PROVE CabinetOK'
  BY <1>30, WaitingIs, OffIsShade, CabinetAssumption DEF Stops, CabinetOK, Todos
<1>31. ASSUME UNCHANGED vars PROVE CabinetOK'
  BY <1>31 DEF vars, evening, Undisturbed, CabinetOK, cab
<1>32. ASSUME NEW x \in Scripts, Abandon(x), Quiet PROVE CabinetOK'
  BY <1>32 DEF Abandon, Quiet, Undisturbed, CabinetOK, cab, evening
<1> QED BY <1>1, <1>2, <1>3, <1>4, <1>5, <1>6, <1>7, <1>8, <1>9, <1>10, <1>11, <1>12, <1>13, <1>14,
       <1>15, <1>16, <1>17, <1>18, <1>19, <1>20, <1>21, <1>22, <1>23, <1>24, <1>25, <1>26, <1>27,
       <1>28, <1>29, <1>30, <1>31, <1>32, NextCases

-----------------------------------------------------------------------------
(* A house that is down, and the type invariant *)

LEMMA DownNext ==
  ASSUME Typed, [Next]_vars
  PROVE  DownOK'
<1> USE DEF Typed
<1>1. ASSUME Tick, Quiet PROVE DownOK'
  BY <1>1, WaitingIs DEF Tick, Quiet, Undisturbed, DownOK, cab, lights
<1>2. ASSUME NoSun, Quiet PROVE DownOK'
  <2>1. up
    BY <1>2, DoingIs DEF NoSun, DownOK, Machinery
  <2> QED BY <1>2, <2>1 DEF NoSun, DownOK, clock, inputs
<1>3. ASSUME HelpersQuietly PROVE DownOK'
  <2>1. PICK step : GoesOn(step)
    BY <1>3, HelpersDo DEF Machinery, InputsOK, HelpersQuietly
  <2> QED BY <1>3, <2>1 DEF GoesOn, HelpersQuietly, clock, DownOK
<1>4. ASSUME NEW x \in Scripts, CallsNext(x) PROVE DownOK'
  <2>1. up
    BY <1>4, DoingIs DEF CallsNext, DownOK, Machinery
  <2> QED BY <1>4, <2>1 DEF CallsNext, DownOK, clock, inputs
<1>5. ASSUME Pillars PROVE DownOK'
  <2>1. up
    BY <1>5, DoingIs DEF Pillars, DownOK, Machinery
  <2> QED BY <1>5, <2>1 DEF Pillars, DownOK, clock, inputs
<1>6. ASSUME Spa, Quiet PROVE DownOK'
  BY <1>6 DEF Spa, Quiet, DownOK, clock, inputs, evening
<1>7. ASSUME GameChanges, Quiet PROVE DownOK'
  <2>1. CASE ~up
    <3>1. owed' = Everything /\ delayed' = delayed
      BY <1>7, <2>1 DEF GameChanges, DownOK, Everything, Surfaces
    <3> QED BY <1>7, <2>1, <3>1 DEF GameChanges, DownOK, Quiet, Undisturbed, cab
  <2>2. CASE up
    BY <1>7, <2>2 DEF GameChanges, DownOK
  <2> QED BY <2>1, <2>2 DEF InputsOK
<1>8. ASSUME GameMinute, Quiet PROVE DownOK'
  BY <1>8 DEF GameMinute, Quiet, DownOK, clock, inputs, evening
<1>9. ASSUME Released, Quiet PROVE DownOK'
  BY <1>9 DEF Released, Quiet, DownOK, clock, inputs, evening
<1>10. ASSUME NEW x \in Scripts, Consider(x), Quiet PROVE DownOK'
  <2>1. up
    BY <1>10, IdleIs DEF Consider, DownOK
  <2> QED BY <1>10, <2>1 DEF Consider, DownOK, clock, inputs
<1>11. ASSUME NEW x \in Scripts, Render(x), Quiet PROVE DownOK'
  <2>1. up
    BY <1>11, IdleIs DEF Render, DownOK
  <2> QED BY <1>11, <2>1 DEF Render, DownOK, clock, inputs
<1>12. ASSUME NEW area \in {"living", "yard"}, SyncStarts(area), Quiet PROVE DownOK'
  <2>1. CASE ~up
    <3>1. \A x \in Scripts : script'[x] = Idle
      BY <1>12, <2>1, GivesUpDo DEF SyncStarts, DownOK, Machinery
    <3>2. owed' = Everything
      BY <1>12, <2>1, AheadIn DEF SyncStarts, GivesUp, DownOK, Machinery
    <3> QED BY <1>12, <2>1, <3>1, <3>2 DEF SyncStarts, DownOK, Quiet, Undisturbed, cab
  <2>2. CASE up
    BY <1>12, <2>2 DEF SyncStarts, DownOK
  <2> QED BY <2>1, <2>2 DEF InputsOK
<1>13. ASSUME NEW area \in {"living", "yard"}, SyncStops(area), Quiet PROVE DownOK'
  BY <1>13 DEF SyncStops, DownOK, Quiet, Undisturbed, cab, lights
<1>14. ASSUME NEW s \in Legacy, On(s), Quiet PROVE DownOK'
  BY <1>14 DEF On, Quiet, DownOK, clock, inputs, evening
<1>15. ASSUME NEW s \in Legacy, Off(s), Quiet PROVE DownOK'
  BY <1>15 DEF Off, Quiet, DownOK, clock, inputs, evening
<1>16. ASSUME NEW by \in delayed, Due(by), Quiet PROVE DownOK'
  <2>1. up
    BY <1>16 DEF Due, DownOK
  <2> QED BY <1>16, <2>1 DEF Due, DownOK, clock
<1>17. ASSUME Start, Quiet PROVE DownOK'
  BY <1>17 DEF Start, DownOK
<1>18. ASSUME TakesNext PROVE DownOK'
  <2>1. up
    BY <1>18 DEF TakesNext, DownOK
  <2> QED BY <1>18, <2>1 DEF TakesNext, DownOK, evening
<1>19. ASSUME Keep PROVE DownOK'
  <2>1. up
    BY <1>19, WaitingIs DEF Keep, InCabinet, DownOK
  <2> QED BY <1>19, <2>1 DEF Keep, DownOK, clock, inputs, evening
<1>20. ASSUME White PROVE DownOK'
  <2>1. up
    BY <1>20, WaitingIs DEF White, InCabinet, DownOK
  <2> QED BY <1>20, <2>1 DEF White, DownOK, clock, inputs, evening
<1>21. ASSUME Restore PROVE DownOK'
  <2>1. up
    BY <1>21, WaitingIs DEF Restore, InCabinet, DownOK
  <2> QED BY <1>21, <2>1 DEF Restore, DownOK, clock, inputs, evening
<1>22. ASSUME RestoreFails PROVE DownOK'
  <2>1. up
    BY <1>22, WaitingIs DEF RestoreFails, InCabinet, DownOK
  <2> QED BY <1>22, <2>1 DEF RestoreFails, DownOK, clock, inputs, evening
<1>23. ASSUME Evaluate PROVE DownOK'
  <2>1. up
    BY <1>23, WaitingIs DEF Evaluate, InCabinet, DownOK
  <2> QED BY <1>23, <2>1 DEF Evaluate, DownOK, clock, inputs, evening
<1>24. ASSUME Finish PROVE DownOK'
  <2>1. up
    BY <1>24, WaitingIs DEF Finish, InCabinet, DownOK
  <2> QED BY <1>24, <2>1 DEF Finish, DownOK, clock, inputs, evening
<1>25. ASSUME NEW d \in {"left", "right"}, DoorMoves(d) PROVE DownOK'
  <2>1. CASE ~up
    <3>1. owed' = Everything
      BY <1>25, <2>1 DEF DoorMoves, DownOK, Everything
    <3> QED BY <1>25, <2>1, <3>1 DEF DoorMoves, DownOK, runs
  <2>2. CASE up
    BY <1>25, <2>2 DEF DoorMoves, DownOK
  <2> QED BY <2>1, <2>2 DEF InputsOK
<1>26. ASSUME NEW look \in Looks \cup {"off"}, Sets(look) PROVE DownOK'
  BY <1>26 DEF Sets, DownOK, clock, inputs, evening
<1>27. ASSUME SetsAnother PROVE DownOK'
  BY <1>27 DEF SetsAnother, DownOK, clock, inputs, evening
<1>28. ASSUME RecallsScene PROVE DownOK'
  BY <1>28 DEF RecallsScene, DownOK, clock, inputs, evening
<1>29. ASSUME NEW x \in Scripts, FailsIn(x) PROVE DownOK'
  <2>1. up
    BY <1>29, IdleIs DEF FailsIn, Fails, DownOK
  <2> QED BY <1>29, <2>1 DEF FailsIn, Fails, DownOK, clock
<1>30. ASSUME Stops PROVE DownOK'
  BY <1>30 DEF Stops, Stop, DownOK
<1>31. ASSUME UNCHANGED vars PROVE DownOK'
  BY <1>31 DEF vars, evening, cab, runs, DownOK
<1>32. ASSUME NEW x \in Scripts, Abandon(x), Quiet PROVE DownOK'
  <2>1. up
    BY <1>32, IdleIs DEF Abandon, DownOK
  <2> QED BY <1>32, <2>1 DEF Abandon, DownOK, clock, inputs
<1> QED BY <1>1, <1>2, <1>3, <1>4, <1>5, <1>6, <1>7, <1>8, <1>9, <1>10, <1>11, <1>12, <1>13, <1>14,
       <1>15, <1>16, <1>17, <1>18, <1>19, <1>20, <1>21, <1>22, <1>23, <1>24, <1>25, <1>26, <1>27,
       <1>28, <1>29, <1>30, <1>31, <1>32, NextCases

LEMMA TypedInit == Init => Typed
<1> SUFFICES ASSUME Init PROVE Typed
  OBVIOUS
<1>1. InputsOK
  BY DEF Init, InputsOK
<1>2. LightsOK
  BY ShadesAre DEF Init, LightsOK
<1>3. ScriptsOK
  BY IdleIs DEF Init, ScriptsOK
<1>4. Machinery
  BY <1>3 DEF Init, Machinery, Track
<1>5. CabinetOK
  <2>1. cabinet = Waiting /\ queue = <<>> /\ valid = FALSE /\ snapshot = "off" /\ visit = None
    BY DEF Init
  <2>2. Len(queue) < MaxQueued /\ queue \in Seq({"open", "close"})
    BY <2>1, CabinetAssumption
  <2>3. cabinet = [todo |-> cabinet.todo, look |-> cabinet.look] /\ cabinet.todo \in Todos
        /\ cabinet.look \in Shades
    BY <2>1, WaitingIs, ShadesAre DEF Todos
  <2> QED BY <2>1, <2>2, <2>3, ShadesAre DEF CabinetOK
<1>6. DownOK
  BY DEF Init, DownOK
<1> QED BY <1>1, <1>2, <1>4, <1>5, <1>6 DEF Typed

LEMMA TypedNext ==
  ASSUME Typed, [Next]_vars
  PROVE  Typed'
<1>1. InputsOK'
  BY InputsNext DEF Typed
<1>2. LightsOK'
  BY LightsNext DEF Typed
<1>3. Machinery'
  BY MachineryNext DEF Typed
<1>4. CabinetOK'
  BY CabinetNext DEF Typed
<1>5. DownOK'
  BY DownNext
<1> QED BY <1>1, <1>2, <1>3, <1>4, <1>5 DEF Typed

\* Every reachable state of the house has its type: whatever restarts, breaks or
\* stops the runs of the package's scripts and automations, their helpers and
\* lights stay within their ranges, and the cabinet's queue within its maximum.
THEOREM TypeInvariant == Spec => []TypeOK
<1>1. Typed => TypeOK
  <2> SUFFICES ASSUME Typed PROVE TypeOK
    OBVIOUS
  <2>1. {key, active, spa, up, recall, rebuilt, valid, festive} \subseteq BOOLEAN
    BY DEF Typed, InputsOK, CabinetOK
  <2>2. phase \in DOMAIN After
    BY DEF Typed, InputsOK, After
  <2>3. {liquor, snapshot, cabinet.look} \subseteq Appearances \cup Looks \cup {"white", "scene"}
    BY DEF Typed, LightsOK, CabinetOK, Shades
  <2>4. Len(queue) <= MaxQueued
    BY CabinetAssumption DEF Typed, CabinetOK
  <2> QED BY <2>1, <2>2, <2>3, <2>4 DEF Typed, InputsOK, LightsOK, TypeOK
<1> QED BY <1>1, TypedInit, TypedNext, PTL DEF Spec

-----------------------------------------------------------------------------
(* The helpers and the clock *)

\* The schedule waits for a script only where its program calls one.
Awaited == \E x \in Scripts : script[x].by = "schedule"
RunsLate ==
  Awaited /\ schedule # Resting => Left <= (IF schedule.of = "startup" THEN 6 ELSE 3)

\* The helpers agree with the clock.
RightNow == windows = WindowsAt[phase] /\ active = DueHoliday /\ key = DueHoliday

\* How far each program has brought the helpers, step by step.  A start-up
\* reconstructs them all; a trigger relies on what the ones before it left.
HelpersInTime ==
  /\ schedule = Resting /\ up /\ rebuilt => RightNow
  /\ schedule.of = "startup" =>
       /\ Left >= 8 => ~rebuilt
       /\ Left <= 13 => schedule.due = DueWindows
       /\ Left <= 12 => windows = DueWindows
       /\ Left <= 10 => schedule.tonight = DueHoliday
       /\ Left <= 8 => active = DueHoliday /\ key = DueHoliday
  /\ schedule.of = "holiday" =>
       /\ phase = "dusk"
       /\ rebuilt => windows = {}
       /\ Left <= 6 => schedule.tonight = DueHoliday
       /\ Left <= 4 => active = DueHoliday /\ key = DueHoliday
  /\ schedule.of = "main_area" =>
       /\ phase = "late"
       /\ rebuilt => /\ active = DueHoliday /\ key = DueHoliday
                     /\ windows = IF Left = 5 THEN {} ELSE {"main_area"}
  /\ schedule.of = "sunset" =>
       /\ phase = "night"
       /\ rebuilt => /\ active = DueHoliday /\ key = DueHoliday
                     /\ windows = IF Left = 5 THEN {"main_area"} ELSE Surfaces
  /\ schedule.of = "boundary" =>
       /\ phase = "day"
       /\ Left <= 6 => windows = {} /\ active = FALSE
       /\ Left <= 5 => key = FALSE

LEMMA RestingIs == Resting.of = None /\ None \notin Triggers
  BY DEF Resting, Triggers, None

LEMMA IdleBy == Idle.by = None /\ None \notin Callers /\ None # "schedule" /\ None # "cabinet"
  BY DEF Idle, None, Callers, Called

LEMMA TrackIs ==
  ASSUME Track(schedule), schedule # Resting
  PROVE  schedule.of \in Triggers /\ Left \in 1 .. Length(schedule.of) /\ Left \in 1 .. 15
<1>1. schedule.of \in Triggers /\ Left \in 1 .. Len(Program[schedule.of])
  BY DEF Track, Left
<1>2. Length(schedule.of) \in {5, 7, 8, 15} /\ Len(Program[schedule.of]) = Length(schedule.of)
  BY <1>1, Lengths DEF Length
<1> QED BY <1>1, <1>2

LEMMA RunsLateNext ==
  ASSUME Typed, RunsLate, [Next]_vars
  PROVE  RunsLate'
<1>1. ASSUME Tick, Quiet PROVE RunsLate'
  <2>1. CASE up
    <3>1. Trigger[phase'] \in Triggers
      BY <1>1, CallersAre DEF Tick, Typed, InputsOK
    <3>2. ~Awaited'
      BY <1>1, <2>1, <3>1, StartsDo, IdleBy DEF Tick, Awaited, Typed
    <3> QED BY <3>2 DEF RunsLate
  <2>2. CASE ~up
    BY <1>1, <2>2 DEF Tick, RunsLate, Awaited, Left
  <2> QED BY <2>1, <2>2
<1>2. ASSUME NoSun, Quiet PROVE RunsLate'
  BY <1>2 DEF NoSun, RunsLate
<1>3. ASSUME HelpersQuietly PROVE RunsLate'
  <2>1. PICK step : GoesOn(step)
    BY <1>3, HelpersDo DEF Typed, Machinery, InputsOK, HelpersQuietly
  <2>2. ~Awaited'
    BY <1>3, <2>1 DEF GoesOn, RunsOf, Awaited, HelpersQuietly
  <2> QED BY <2>2 DEF RunsLate
<1>4. ASSUME NEW x \in Scripts, CallsNext(x) PROVE RunsLate'
  <2>1. Position(schedule.of, Left, x) /\ schedule # Resting
    BY <1>4, DoingIs DEF CallsNext, Typed, Machinery
  <2>2. Left # 1 => schedule'.of = schedule.of /\ Left' = Left - 1
    BY <1>4, DoingIs DEF CallsNext, Done, Typed, Machinery, Left
  <2>3. Left = 1 => schedule' = Resting
    BY <1>4, DoingIs DEF CallsNext, Done, Typed, Machinery
  <2>4. Left \in 1 .. 4 \/ (schedule.of = "startup" /\ Left \in 5 .. 7)
    BY <2>1 DEF Position, At, Scripts
  <2>5. Left # 1 => Left' <= (IF schedule'.of = "startup" THEN 6 ELSE 3)
    BY <2>2, <2>4
  <2> QED BY <2>3, <2>5 DEF RunsLate
<1>5. ASSUME Pillars PROVE RunsLate'
  <2>1. Left = 3
    BY <1>5, DoingIs DEF Pillars, Typed, Machinery, Position
  <2>2. Left' = 2
    BY <1>5, <2>1, DoingIs DEF Pillars, Done, Typed, Machinery, Left
  <2> QED BY <2>2 DEF RunsLate
<1>6. ASSUME Spa, Quiet PROVE RunsLate'
  <2>1. schedule' = schedule /\ (Awaited' => Awaited)
    BY <1>6, GivesUpDo, IdleBy DEF Spa, Awaited, Typed, Machinery
  <2> QED BY <2>1 DEF RunsLate, Left
<1>7. ASSUME GameChanges, Quiet PROVE RunsLate'
  BY <1>7 DEF GameChanges, Quiet, RunsLate, Awaited, Left, evening, runs
<1>8. ASSUME GameMinute, Quiet PROVE RunsLate'
  BY <1>8 DEF GameMinute, Quiet, RunsLate, Awaited, Left, evening, runs
<1>9. ASSUME Released, Quiet PROVE RunsLate'
  <2>1. schedule' = schedule /\ (Awaited' => Awaited)
    BY <1>9, GivesUpDo, IdleBy DEF Released, Awaited, Typed, Machinery
  <2> QED BY <2>1 DEF RunsLate, Left
<1>10. ASSUME NEW x \in Scripts, Consider(x), Quiet PROVE RunsLate'
  <2>1. Awaited' => Awaited
    BY <1>10, ConsiderDo, IdleBy DEF Typed, Machinery, Awaited
  <2> QED BY <1>10, <2>1 DEF Consider, RunsLate, Left
<1>11. ASSUME NEW x \in Scripts, Render(x), Quiet PROVE RunsLate'
  <2>1. script[x].by # None
    BY <1>11, RenderIs DEF Render, Typed, Machinery
  <2>2. Awaited' => Awaited
    BY <1>11, <2>1, OnwardDo, IdleBy DEF Render, Typed, Machinery, Awaited
  <2> QED BY <1>11, <2>2 DEF Render, RunsLate, Left
<1>12. ASSUME NEW area \in {"living", "yard"}, SyncStarts(area), Quiet PROVE RunsLate'
  <2>1. schedule' = schedule /\ (Awaited' => Awaited)
    BY <1>12, GivesUpDo, IdleBy DEF SyncStarts, Awaited, Typed, Machinery
  <2> QED BY <2>1 DEF RunsLate, Left
<1>13. ASSUME NEW area \in {"living", "yard"}, SyncStops(area), Quiet PROVE RunsLate'
  <2>1. Awaited' => Awaited
    <3>1. CASE UNCHANGED script
      BY <3>1 DEF Awaited
    <3>2. CASE Calls(IF area = "living" THEN "evaluate" ELSE "backyard", area)
      BY <1>13, <3>2, CallsDo, CallersAre DEF Typed, Machinery, Awaited
    <3> QED BY <1>13, <3>1, <3>2 DEF SyncStops
  <2> QED BY <1>13, <2>1 DEF SyncStops, RunsLate, Left
<1>14. ASSUME NEW s \in Legacy, On(s), Quiet PROVE RunsLate'
  BY <1>14 DEF On, Quiet, RunsLate, Awaited, Left, evening, runs
<1>15. ASSUME NEW s \in Legacy, Off(s), Quiet PROVE RunsLate'
  BY <1>15 DEF Off, Quiet, RunsLate, Awaited, Left, evening, runs
<1>16. ASSUME NEW by \in delayed, Due(by), Quiet PROVE RunsLate'
  <2>1. by # "schedule" /\ by \in DOMAIN Called
    BY DEF Typed, LightsOK, Called
  <2>2. Awaited' => Awaited
    BY <1>16, <2>1, CallsDo, CallersAre DEF Due, Typed, Machinery, Awaited
  <2> QED BY <1>16, <2>2 DEF Due, RunsLate, Left
<1>17. ASSUME Start, Quiet PROVE RunsLate'
  <2>1. ~Awaited'
    BY <1>17, StartsDo, CallersAre, IdleBy DEF Start, Awaited, Typed
  <2> QED BY <2>1 DEF RunsLate
<1>18. ASSUME TakesNext PROVE RunsLate'
  BY <1>18 DEF TakesNext, RunsLate, Awaited, Left, evening, runs
<1>19. ASSUME Keep PROVE RunsLate'
  BY <1>19 DEF Keep, RunsLate, Awaited, Left, evening, runs
<1>20. ASSUME White PROVE RunsLate'
  BY <1>20 DEF White, RunsLate, Awaited, Left, evening, runs
<1>21. ASSUME Restore PROVE RunsLate'
  BY <1>21 DEF Restore, RunsLate, Awaited, Left, evening, runs
<1>22. ASSUME RestoreFails PROVE RunsLate'
  BY <1>22 DEF RestoreFails, RunsLate, Awaited, Left, evening, runs
<1>23. ASSUME Evaluate PROVE RunsLate'
  <2>1. Awaited' => Awaited
    BY <1>23, CallsDo, CallersAre DEF Evaluate, Typed, Machinery, Awaited
  <2> QED BY <1>23, <2>1 DEF Evaluate, RunsLate, Left
<1>24. ASSUME Finish PROVE RunsLate'
  BY <1>24 DEF Finish, RunsLate, Awaited, Left, evening, runs
<1>25. ASSUME NEW d \in {"left", "right"}, DoorMoves(d) PROVE RunsLate'
  BY <1>25 DEF DoorMoves, RunsLate, Awaited, Left, evening, runs
<1>26. ASSUME NEW look \in Looks \cup {"off"}, Sets(look) PROVE RunsLate'
  BY <1>26 DEF Sets, RunsLate, Awaited, Left, evening, runs
<1>27. ASSUME SetsAnother PROVE RunsLate'
  BY <1>27 DEF SetsAnother, RunsLate, Awaited, Left, evening, runs
<1>28. ASSUME RecallsScene PROVE RunsLate'
  BY <1>28 DEF RecallsScene, RunsLate, Awaited, Left, evening, runs
<1>29. ASSUME NEW x \in Scripts, FailsIn(x) PROVE RunsLate'
  <2>1. Awaited' => Awaited
    BY <1>29, FailsDo, IdleBy DEF FailsIn, Typed, Awaited
  <2> QED BY <1>29, <2>1, FailsDo DEF FailsIn, Typed, RunsLate, Left
<1>30. ASSUME Stops PROVE RunsLate'
  BY <1>30 DEF Stops, Stop, RunsLate
<1>31. ASSUME UNCHANGED vars PROVE RunsLate'
  BY <1>31 DEF vars, evening, RunsLate, Awaited, Left, runs
<1>32. ASSUME NEW x \in Scripts, Abandon(x), Quiet PROVE RunsLate'
  <2>1. script[x].by # None
    BY <1>32, RenderIs DEF Abandon, Typed, Machinery
  <2>2. Awaited' => Awaited
    BY <1>32, <2>1, OnwardDo, IdleBy DEF Abandon, Typed, Machinery, Awaited
  <2> QED BY <1>32, <2>2 DEF Abandon, RunsLate, Left
<1> QED BY <1>1, <1>2, <1>3, <1>4, <1>5, <1>6, <1>7, <1>8, <1>9, <1>10, <1>11, <1>12, <1>13, <1>14,
       <1>15, <1>16, <1>17, <1>18, <1>19, <1>20, <1>21, <1>22, <1>23, <1>24, <1>25, <1>26, <1>27,
       <1>28, <1>29, <1>30, <1>31, <1>32, NextCases

LEMMA DueIsRight ==
  ASSUME InputsOK
  PROVE  /\ DueWindows = WindowsAt[phase] /\ DueHoliday \in BOOLEAN
         /\ phase = "day" => DueHoliday = FALSE
         /\ phase # "day" => DueHoliday = festive
  BY DEF InputsOK, DueWindows, WindowsAt, SunsetWindows, Surfaces, DueHoliday

\* Behind the steps that set them, the helpers are right.
LEMMA Complete ==
  ASSUME InputsOK, Track(schedule), schedule # Resting, HelpersInTime, rebuilt,
         Left <= 4 \/ schedule.of = "startup"
  PROVE  RightNow
<1>1. schedule.of \in Triggers /\ Left \in 1 .. 15
  BY TrackIs
<1>2. CASE schedule.of = "startup"
  <2>1. Left <= 7
    BY <1>1, <1>2 DEF HelpersInTime
  <2>2. windows = DueWindows /\ active = DueHoliday /\ key = DueHoliday
    BY <1>1, <1>2, <2>1 DEF HelpersInTime
  <2> QED BY <2>2, DueIsRight DEF RightNow
<1>3. CASE schedule.of = "holiday" /\ Left <= 4
  BY <1>1, <1>3 DEF HelpersInTime, RightNow, WindowsAt
<1>4. CASE schedule.of = "main_area" /\ Left <= 4
  BY <1>1, <1>4 DEF HelpersInTime, RightNow, WindowsAt
<1>5. CASE schedule.of = "sunset" /\ Left <= 4
  BY <1>1, <1>5 DEF HelpersInTime, RightNow, WindowsAt
<1>6. CASE schedule.of = "boundary" /\ Left <= 4
  <2>1. phase = "day" /\ windows = {} /\ active = FALSE /\ key = FALSE
    BY <1>1, <1>6 DEF HelpersInTime
  <2>2. DueHoliday = FALSE /\ WindowsAt[phase] = {}
    BY <2>1, DueIsRight DEF WindowsAt
  <2> QED BY <2>1, <2>2 DEF RightNow
<1> QED BY <1>1, <1>2, <1>3, <1>4, <1>5, <1>6 DEF Triggers

LEMMA HelpersUnmoved ==
  ASSUME HelpersInTime, UNCHANGED <<schedule, windows, key, active, phase, festive, up, rebuilt>>
  PROVE  HelpersInTime'
  BY DEF HelpersInTime, RightNow, DueHoliday, DueWindows, Left

\* A step that calls a script or renders the pillars, and leaves the helpers.
LEMMA HelpersKept ==
  ASSUME Typed, HelpersInTime, NEW step, Doing(step), Done, Left <= 4 \/ (schedule.of = "startup" /\ Left <= 7),
         UNCHANGED <<windows, key, active, phase, festive, up, rebuilt>>
  PROVE  HelpersInTime'
<1>1. /\ schedule # Resting
      /\ Left = 1 => schedule' = Resting
      /\ Left # 1 => /\ schedule' # Resting /\ schedule'.of = schedule.of /\ Left' = Left - 1
                     /\ schedule'.due = schedule.due /\ schedule'.tonight = schedule.tonight
  BY DoingIs DEF Done, Typed, Machinery, Left
<1>2. schedule.of \in Triggers /\ Left \in 1 .. 15
  BY <1>1, TrackIs DEF Typed, Machinery
<1>3. /\ (schedule = Resting)' => schedule' = Resting
      /\ DueHoliday' = DueHoliday /\ DueWindows' = DueWindows
  BY DEF DueHoliday, DueWindows
<1>4. CASE Left = 1
  <2>1. up' /\ rebuilt' => RightNow'
    BY <1>1, Complete DEF Typed, Machinery, RightNow, DueHoliday
  <2> QED BY <1>1, <1>4, <2>1, RestingIs DEF HelpersInTime, Triggers
<1>5. CASE Left # 1
  <2>1. Left' = Left - 1 /\ schedule'.of = schedule.of /\ schedule' # Resting
    BY <1>1, <1>5
  <2>2. Left' <= 3 \/ (schedule.of = "startup" /\ Left' <= 6)
    BY <1>2, <2>1
  <2> QED BY <1>1, <1>2, <1>3, <1>5, <2>1, <2>2 DEF HelpersInTime
<1> QED BY <1>4, <1>5

\* Each step of a program that sets a helper does what its place promises.
LEMMA HelpersStep ==
  ASSUME Typed, HelpersInTime, NEW step, GoesOn(step), Effects(step), UNCHANGED <<phase, festive, up>>
  PROVE  HelpersInTime'
<1> DEFINE now(trigger, left) == schedule.of = trigger /\ Left = left
<1>1. /\ schedule # Resting /\ schedule' # Resting /\ schedule'.of = schedule.of /\ Left' = Left - 1
      /\ schedule'.due = IF step = "due" THEN DueWindows ELSE schedule.due
      /\ step = "calendar" => schedule'.tonight = DueHoliday
      /\ step # "calendar" => schedule'.tonight = schedule.tonight
  BY DEF GoesOn, Left
<1>2. DueHoliday' = DueHoliday /\ DueWindows' = DueWindows /\ phase' = phase
  BY DEF DueHoliday, DueWindows
<1>3. schedule.tonight \in BOOLEAN /\ DueHoliday \in BOOLEAN
  BY <1>1 DEF Typed, Machinery, Track, DueHoliday
<1>4. CASE step = "sun" /\ now("startup", 15)
  BY <1>1, <1>2, <1>3, <1>4 DEF HelpersInTime, Effects, SunsetWindows, Surfaces
<1>5. CASE step = "due" /\ now("startup", 14)
  BY <1>1, <1>2, <1>3, <1>5 DEF HelpersInTime, Effects, SunsetWindows, Surfaces
<1>6. CASE step = "windows" /\ now("startup", 13)
  BY <1>1, <1>2, <1>3, <1>6 DEF HelpersInTime, Effects, SunsetWindows, Surfaces
<1>7. CASE step = "sanity" /\ now("startup", 12)
  BY <1>1, <1>2, <1>3, <1>7 DEF HelpersInTime, Effects, SunsetWindows, Surfaces
<1>8. CASE step = "calendar" /\ now("startup", 11)
  BY <1>1, <1>2, <1>3, <1>8 DEF HelpersInTime, Effects, SunsetWindows, Surfaces
<1>9. CASE step = "holiday1" /\ now("startup", 10)
  BY <1>1, <1>2, <1>3, <1>9 DEF HelpersInTime, Effects, SunsetWindows, Surfaces
<1>10. CASE step = "holiday2" /\ now("startup", 9)
  BY <1>1, <1>2, <1>3, <1>10 DEF HelpersInTime, Effects, SunsetWindows, Surfaces
<1>11. CASE step = "rebuilt" /\ now("startup", 8)
  BY <1>1, <1>2, <1>3, <1>11 DEF HelpersInTime, Effects, SunsetWindows, Surfaces, Typed, InputsOK, DueHoliday
<1>12. CASE step = "calendar" /\ now("holiday", 7)
  BY <1>1, <1>2, <1>3, <1>12 DEF HelpersInTime, Effects, SunsetWindows, Surfaces
<1>13. CASE step = "holiday1" /\ now("holiday", 6)
  BY <1>1, <1>2, <1>3, <1>13 DEF HelpersInTime, Effects, SunsetWindows, Surfaces
<1>14. CASE step = "holiday2" /\ now("holiday", 5)
  BY <1>1, <1>2, <1>3, <1>14 DEF HelpersInTime, Effects, SunsetWindows, Surfaces
<1>15. CASE step = "main_window" /\ now("main_area", 5)
  BY <1>1, <1>2, <1>3, <1>15 DEF HelpersInTime, Effects, SunsetWindows, Surfaces
<1>16. CASE step = "sunset_windows" /\ now("sunset", 5)
  BY <1>1, <1>2, <1>3, <1>16 DEF HelpersInTime, Effects, SunsetWindows, Surfaces
<1>17. CASE step = "release" /\ now("boundary", 8)
  BY <1>1, <1>2, <1>3, <1>17 DEF HelpersInTime, Effects, SunsetWindows, Surfaces
<1>18. CASE step = "close" /\ now("boundary", 7)
  BY <1>1, <1>2, <1>3, <1>18 DEF HelpersInTime, Effects, SunsetWindows, Surfaces
<1>19. CASE step = "no_key" /\ now("boundary", 6)
  BY <1>1, <1>2, <1>3, <1>19 DEF HelpersInTime, Effects, SunsetWindows, Surfaces
<1>20. CASE step = "rebuilt" /\ now("boundary", 5)
  BY <1>1, <1>2, <1>3, <1>20 DEF HelpersInTime, Effects, SunsetWindows, Surfaces, Typed, InputsOK, DueHoliday
<1> QED BY <1>4, <1>5, <1>6, <1>7, <1>8, <1>9, <1>10, <1>11, <1>12, <1>13, <1>14, <1>15, <1>16, <1>17,
       <1>18, <1>19, <1>20 DEF GoesOn, Position, At, HelperSteps

LEMMA HelpersNext ==
  ASSUME Typed, RunsLate, HelpersInTime, [Next]_vars
  PROVE  HelpersInTime'
<1>1. ASSUME Tick, Quiet PROVE HelpersInTime'
  <2>1. CASE ~up
    <3>1. schedule = Resting /\ schedule' = Resting /\ ~up'
      BY <1>1, <2>1 DEF Tick, Typed, DownOK
    <3> QED BY <3>1, RestingIs DEF HelpersInTime, Triggers
  <2>2. CASE up
    <3>1. Trigger[phase'] \in Triggers /\ Starts(Trigger[phase']) /\ phase' = After[phase]
      BY <1>1, <2>2, CallersAre DEF Tick, Typed, InputsOK
    <3>2. schedule' # Resting /\ schedule'.of = Trigger[phase'] /\ Left' = Length(Trigger[phase'])
      BY <3>1, StartsDo DEF Typed, Left
    <3>3. rebuilt => RightNow
      <4>1. CASE schedule = Resting
        BY <2>2, <4>1 DEF HelpersInTime
      <4>2. CASE schedule # Resting /\ schedule.of = "startup"
        BY <4>2, Complete DEF Typed, Machinery
      <4> QED BY <1>1, <4>1, <4>2, TrackIs DEF Tick, Typed, Machinery, Triggers, None
    <3>4. UNCHANGED <<windows, key, active, rebuilt>> /\ (phase # "night" => festive' = festive)
      BY <1>1 DEF Tick, inputs
    <3>5. CASE phase = "day"
      <4>1. phase' = "dusk" /\ schedule'.of = "holiday" /\ Left' = 7
        BY <3>1, <3>2, <3>5 DEF After, Trigger, Length
      <4> QED BY <3>2, <3>3, <3>4, <3>5, <4>1 DEF HelpersInTime, RightNow, WindowsAt
    <3>6. CASE phase = "dusk"
      <4>1. phase' = "late" /\ schedule'.of = "main_area" /\ Left' = 5
        BY <3>1, <3>2, <3>6 DEF After, Trigger, Length
      <4>2. DueHoliday' = DueHoliday
        BY <3>4, <3>6, <4>1 DEF DueHoliday
      <4> QED BY <3>2, <3>3, <3>4, <3>6, <4>1, <4>2 DEF HelpersInTime, RightNow, WindowsAt
    <3>7. CASE phase = "late"
      <4>1. phase' = "night" /\ schedule'.of = "sunset" /\ Left' = 5
        BY <3>1, <3>2, <3>7 DEF After, Trigger, Length
      <4>2. DueHoliday' = DueHoliday
        BY <3>4, <3>7, <4>1 DEF DueHoliday
      <4> QED BY <3>2, <3>3, <3>4, <3>7, <4>1, <4>2 DEF HelpersInTime, RightNow, WindowsAt
    <3>8. CASE phase = "night"
      <4>1. phase' = "day" /\ schedule'.of = "boundary" /\ Left' = 8
        BY <3>1, <3>2, <3>8 DEF After, Trigger, Length
      <4> QED BY <3>2, <4>1 DEF HelpersInTime
    <3> QED BY <3>5, <3>6, <3>7, <3>8 DEF Typed, InputsOK
  <2> QED BY <2>1, <2>2
<1>2. ASSUME NoSun, Quiet PROVE HelpersInTime'
  <2>1. schedule # Resting /\ schedule.of = "startup" /\ Left = 15
    BY <1>2, DoingIs DEF NoSun, Typed, Machinery, Position, At
  <2>2. ~rebuilt' /\ schedule' = Resting
    BY <1>2, <2>1 DEF NoSun, HelpersInTime
  <2> QED BY <2>2, RestingIs DEF HelpersInTime, Triggers
<1>3. ASSUME HelpersQuietly PROVE HelpersInTime'
  <2>1. PICK step : GoesOn(step) /\ Effects(step)
    BY <1>3, HelpersDo DEF Typed, Machinery, InputsOK, HelpersQuietly
  <2> QED BY <1>3, <2>1, HelpersStep DEF HelpersQuietly, clock
<1>4. ASSUME NEW x \in Scripts, CallsNext(x) PROVE HelpersInTime'
  <2>1. Left <= 4 \/ (schedule.of = "startup" /\ Left <= 7)
    BY <1>4, DoingIs DEF CallsNext, Typed, Machinery, Position, At, Scripts
  <2> QED BY <1>4, <2>1, HelpersKept DEF CallsNext, inputs, clock
<1>5. ASSUME Pillars PROVE HelpersInTime'
  <2>1. Left <= 4
    BY <1>5, DoingIs DEF Pillars, Typed, Machinery, Position
  <2> QED BY <1>5, <2>1, HelpersKept DEF Pillars, inputs, clock
<1>6. ASSUME Spa, Quiet PROVE HelpersInTime'
  BY <1>6, HelpersUnmoved DEF Spa, Quiet, clock, inputs, runs, evening
<1>7. ASSUME GameChanges, Quiet PROVE HelpersInTime'
  BY <1>7, HelpersUnmoved DEF GameChanges, Quiet, clock, inputs, runs, evening
<1>8. ASSUME GameMinute, Quiet PROVE HelpersInTime'
  BY <1>8, HelpersUnmoved DEF GameMinute, Quiet, clock, inputs, runs, evening
<1>9. ASSUME Released, Quiet PROVE HelpersInTime'
  BY <1>9, HelpersUnmoved DEF Released, Quiet, clock, inputs, runs, evening
<1>10. ASSUME NEW x \in Scripts, Consider(x), Quiet PROVE HelpersInTime'
  BY <1>10, HelpersUnmoved DEF Consider, Quiet, clock, inputs, runs, evening
<1>11. ASSUME NEW x \in Scripts, Render(x), Quiet PROVE HelpersInTime'
  BY <1>11, HelpersUnmoved DEF Render, Quiet, clock, inputs, runs, evening
<1>12. ASSUME NEW area \in {"living", "yard"}, SyncStarts(area), Quiet PROVE HelpersInTime'
  BY <1>12, HelpersUnmoved DEF SyncStarts, Quiet, clock, inputs, runs, evening
<1>13. ASSUME NEW area \in {"living", "yard"}, SyncStops(area), Quiet PROVE HelpersInTime'
  BY <1>13, HelpersUnmoved DEF SyncStops, Quiet, clock, inputs, runs, evening
<1>14. ASSUME NEW s \in Legacy, On(s), Quiet PROVE HelpersInTime'
  BY <1>14, HelpersUnmoved DEF On, Quiet, clock, inputs, runs, evening
<1>15. ASSUME NEW s \in Legacy, Off(s), Quiet PROVE HelpersInTime'
  BY <1>15, HelpersUnmoved DEF Off, Quiet, clock, inputs, runs, evening
<1>16. ASSUME NEW by \in delayed, Due(by), Quiet PROVE HelpersInTime'
  BY <1>16, HelpersUnmoved DEF Due, Quiet, clock, inputs, runs, evening
<1>17. ASSUME Start, Quiet PROVE HelpersInTime'
  <2>1. /\ schedule' # Resting /\ schedule'.of = "startup" /\ Left' = 15 /\ ~rebuilt'
    BY <1>17, StartsDo, CallersAre DEF Start, Typed, Left, Length
  <2> QED BY <2>1 DEF HelpersInTime
<1>18. ASSUME TakesNext PROVE HelpersInTime'
  BY <1>18, HelpersUnmoved DEF TakesNext, clock, inputs, runs, evening
<1>19. ASSUME Keep PROVE HelpersInTime'
  BY <1>19, HelpersUnmoved DEF Keep, clock, inputs, runs, evening
<1>20. ASSUME White PROVE HelpersInTime'
  BY <1>20, HelpersUnmoved DEF White, clock, inputs, runs, evening
<1>21. ASSUME Restore PROVE HelpersInTime'
  BY <1>21, HelpersUnmoved DEF Restore, clock, inputs, runs, evening
<1>22. ASSUME RestoreFails PROVE HelpersInTime'
  BY <1>22, HelpersUnmoved DEF RestoreFails, clock, inputs, runs, evening
<1>23. ASSUME Evaluate PROVE HelpersInTime'
  BY <1>23, HelpersUnmoved DEF Evaluate, clock, inputs, runs, evening
<1>24. ASSUME Finish PROVE HelpersInTime'
  BY <1>24, HelpersUnmoved DEF Finish, clock, inputs, runs, evening
<1>25. ASSUME NEW d \in {"left", "right"}, DoorMoves(d) PROVE HelpersInTime'
  BY <1>25, HelpersUnmoved DEF DoorMoves, clock, inputs, runs, evening
<1>26. ASSUME NEW look \in Looks \cup {"off"}, Sets(look) PROVE HelpersInTime'
  BY <1>26, HelpersUnmoved DEF Sets, clock, inputs, runs, evening
<1>27. ASSUME SetsAnother PROVE HelpersInTime'
  BY <1>27, HelpersUnmoved DEF SetsAnother, clock, inputs, runs, evening
<1>28. ASSUME RecallsScene PROVE HelpersInTime'
  BY <1>28, HelpersUnmoved DEF RecallsScene, clock, inputs, runs, evening
<1>29. ASSUME NEW x \in Scripts, FailsIn(x) PROVE HelpersInTime'
  <2>1. CASE schedule' = schedule
    BY <1>29, <2>1, HelpersUnmoved DEF FailsIn, Fails, inputs, clock
  <2>2. CASE script[x].by = "schedule" /\ schedule' = Resting
    <3>1. UNCHANGED <<windows, key, active, phase, festive, up, rebuilt>>
      BY <1>29 DEF FailsIn, Fails, inputs, clock
    <3>2. up /\ rebuilt => RightNow
      <4>1. CASE schedule = Resting
        BY <4>1 DEF HelpersInTime
      <4>2. CASE schedule # Resting
        <5>1. Left <= 3 \/ schedule.of = "startup"
          BY <2>2, <4>2 DEF RunsLate, Awaited
        <5>2. Left \in 1 .. 15
          BY <4>2, TrackIs DEF Typed, Machinery
        <5> QED BY <4>2, <5>1, <5>2, Complete DEF Typed, Machinery
      <4> QED BY <4>1, <4>2
    <3> QED BY <2>2, <3>1, <3>2, RestingIs DEF HelpersInTime, Triggers, RightNow, DueHoliday
  <2> QED BY <1>29, <2>1, <2>2 DEF FailsIn, Fails
<1>30. ASSUME Stops PROVE HelpersInTime'
  <2>1. schedule' = Resting /\ ~up'
    BY <1>30 DEF Stops, Stop
  <2> QED BY <2>1, RestingIs DEF HelpersInTime, Triggers
<1>31. ASSUME UNCHANGED vars PROVE HelpersInTime'
  BY <1>31, HelpersUnmoved DEF vars, evening, clock, inputs, runs
<1>32. ASSUME NEW x \in Scripts, Abandon(x), Quiet PROVE HelpersInTime'
  BY <1>32, HelpersUnmoved DEF Abandon, clock, inputs
<1> QED BY <1>1, <1>2, <1>3, <1>4, <1>5, <1>6, <1>7, <1>8, <1>9, <1>10, <1>11, <1>12, <1>13, <1>14,
       <1>15, <1>16, <1>17, <1>18, <1>19, <1>20, <1>21, <1>22, <1>23, <1>24, <1>25, <1>26, <1>27,
       <1>28, <1>29, <1>30, <1>31, <1>32, NextCases

LEMMA HelpersInit == Init => RunsLate /\ HelpersInTime
<1> SUFFICES ASSUME Init PROVE RunsLate /\ HelpersInTime
  OBVIOUS
<1>1. schedule = Resting /\ phase = "day" /\ windows = {} /\ active = FALSE /\ key = FALSE
  BY DEF Init
<1>2. RightNow
  BY <1>1 DEF RightNow, WindowsAt, DueHoliday
<1>3. schedule.of \notin Triggers
  BY <1>1, RestingIs
<1> QED BY <1>1, <1>2, <1>3 DEF RunsLate, HelpersInTime, Triggers

\* Outside a run of the daily schedule the windows and the holiday's helpers agree
\* with the clock, whether its triggers set them or a start-up reconstructed them,
\* through any restarts whose last start-up came to reconstruct them.
THEOREM HelpersOnTime == Spec => []HelpersFollowClock
<1>1. HelpersInTime => HelpersFollowClock
  BY DEF HelpersInTime, RightNow, DueHoliday, HelpersFollowClock
<1> QED BY <1>1, TypedInit, TypedNext, HelpersInit, RunsLateNext, HelpersNext, PTL DEF Spec

-----------------------------------------------------------------------------
(* Surfaces that something will still command *)

Reach(x, n) == {Stages[x][i] : i \in n .. Len(Stages[x])}

RunWill(s) == \E x \in Scripts : script[x].by # None /\ s \in Reach(x, script[x].at)
DelayWill(s) == \E by \in delayed : s \in Reach(Called[by], 1)
\* A start-up that still waits for the sun may end there.
ScheduleWill(s) ==
  /\ schedule # Resting /\ Left <= 14
  /\ \/ Left >= 4
     \/ Left = 3 /\ s \in {"pillars", "path", "backyard"}
     \/ Left = 2 /\ s \in {"path", "backyard"}
     \/ Left = 1 /\ s = "backyard"

Coming(s) == RunWill(s) \/ DelayWill(s) \/ ScheduleWill(s)
Suits(s) == Owners[s] \in Structural \/ shows[s] = Owners[s]
ShownOrComing == \A s \in Surfaces \ owed : Suits(s) \/ Coming(s)

LEMMA ReachIs ==
  /\ \A x \in Scripts : \A n \in 1 .. Len(Stages[x]) :
       /\ Reach(x, n) \subseteq Reach(x, 1)
       /\ \A s \in Reach(x, n) : s = Stages[x][n] \/ (n # Len(Stages[x]) /\ s \in Reach(x, n + 1))
       /\ Stages[x][n] \in Reach(x, n)
  /\ Reach("path", 1) = {"path"} /\ Reach("backyard", 1) = {"backyard"}
  /\ Reach("evaluate", 1) = {"front_eve", "main_area", "liquor_cabinet"}
<1>1. \A x \in Scripts : Len(Stages[x]) \in 1 .. 3
  BY StagesAre DEF Scripts
<1>2. ASSUME NEW x \in Scripts, NEW n \in 1 .. Len(Stages[x])
      PROVE  /\ Reach(x, n) \subseteq Reach(x, 1)
             /\ \A s \in Reach(x, n) : s = Stages[x][n] \/ (n # Len(Stages[x]) /\ s \in Reach(x, n + 1))
             /\ Stages[x][n] \in Reach(x, n)
  BY <1>1 DEF Reach
<1>3. Reach("path", 1) = {"path"} /\ Reach("backyard", 1) = {"backyard"}
  BY StagesAre DEF Reach
<1>4. Reach("evaluate", 1) = {"front_eve", "main_area", "liquor_cabinet"}
  <2>1. 1 .. 3 = {1, 2, 3}
    OBVIOUS
  <2> QED BY <2>1, StagesAre DEF Reach
<1> QED BY <1>2, <1>3, <1>4

LEMMA AheadIs == \A x \in Scripts : Ahead(x) = Reach(x, script[x].at)
  BY DEF Ahead, Reach

\* What changes the scripts, and the surfaces that their runs will not reach.
LEMMA GivesUpKeeps ==
  ASSUME ScriptsOK, NEW by, GivesUp(by), NEW s, s \notin AheadOf(by), RunWill(s)
  PROVE  RunWill(s)'
<1>1. PICK x \in Scripts : script[x].by # None /\ s \in Reach(x, script[x].at)
  BY DEF RunWill
<1>2. script[x].by # by
  BY <1>1, AheadIs DEF AheadOf, RunsOf
<1>3. script'[x] = script[x]
  BY <1>2, GivesUpDo
<1> QED BY <1>1, <1>3 DEF RunWill

LEMMA CallsKeeps ==
  ASSUME ScriptsOK, NEW x \in Scripts, NEW by \in Callers, Calls(x, by), NEW s
  PROVE  /\ s \in Reach(x, 1) => RunWill(s)'
         /\ RunWill(s) => RunWill(s)'
<1>1. script'[x].by # None /\ script'[x].at = 1 /\ \A y \in Scripts \ {x} : script'[y] = script[y]
  BY CallsDo, IdleBy
<1>2. s \in Reach(x, 1) => RunWill(s)'
  BY <1>1 DEF RunWill
<1>3. ASSUME RunWill(s) PROVE RunWill(s)'
  <2>1. PICK y \in Scripts : script[y].by # None /\ s \in Reach(y, script[y].at)
    BY <1>3 DEF RunWill
  <2>2. CASE y = x
    <3>1. script[x].at \in 1 .. Len(Stages[x])
      BY DEF ScriptsOK, Sound
    <3> QED BY <1>2, <2>1, <2>2, <3>1, ReachIs
  <2>3. CASE y # x
    <3>1. script'[y] = script[y]
      BY <1>1, <2>3
    <3> QED BY <2>1, <3>1 DEF RunWill
  <2> QED BY <2>2, <2>3
<1> QED BY <1>2, <1>3

LEMMA OnwardKeeps ==
  ASSUME ScriptsOK, NEW x \in Scripts, script[x].by # None, NEW s, s # Stages[x][script[x].at], RunWill(s),
         \A y \in Scripts \ {x} : script'[y] = script[y],
         \/ script'[x].by = script[x].by /\ script'[x].at = script[x].at
         \/ /\ script[x].at # Len(Stages[x]) =>
                 script'[x].by = script[x].by /\ script'[x].at = script[x].at + 1
  PROVE  RunWill(s)'
<1>1. PICK y \in Scripts : script[y].by # None /\ s \in Reach(y, script[y].at)
  BY DEF RunWill
<1>2. CASE y # x
  <2>1. script'[y] = script[y]
    BY <1>2
  <2> QED BY <1>1, <2>1 DEF RunWill
<1>3. CASE y = x
  <2>1. script[x].at \in 1 .. Len(Stages[x])
    BY DEF ScriptsOK, Sound
  <2>2. script[x].at # Len(Stages[x]) /\ s \in Reach(x, script[x].at + 1)
    BY <1>1, <1>3, <2>1, ReachIs
  <2>3. script'[x].by # None /\ s \in Reach(x, script'[x].at)
    BY <1>1, <1>3, <2>2
  <2> QED BY <2>3 DEF RunWill
<1> QED BY <1>2, <1>3

\* The owners of the surfaces but the cabinet depend on these inputs alone.
LEMMA SameOwners ==
  ASSUME UNCHANGED <<windows, key, active, sync, spa, game>>, manual' \cap Legacy = manual \cap Legacy
  PROVE  \A s \in Surfaces : Owners'[s] = Owners[s]
<1>1. \A s : Eve(s)' = Eve(s)
  BY DEF Eve
<1>2. ASSUME NEW s \in Surfaces PROVE Owners'[s] = Owners[s]
  <2>1. CASE s = "main_area"
    BY <1>1, <2>1, OwnersTable, OwnersTableNext DEF Table, Eve
  <2>2. CASE s = "front_eve"
    BY <1>1, <2>2, OwnersTable, OwnersTableNext DEF Table, Eve
  <2>3. CASE s = "path"
    BY <1>1, <2>3, OwnersTable, OwnersTableNext DEF Table, Eve
  <2>4. CASE s = "backyard"
    BY <1>1, <2>4, OwnersTable, OwnersTableNext DEF Table, Eve
  <2>5. CASE s = "pillars"
    BY <1>1, <2>5, OwnersTable, OwnersTableNext DEF Table, Eve
  <2> QED BY <2>1, <2>2, <2>3, <2>4, <2>5 DEF Surfaces
<1> QED BY <1>2

\* The step leaves what a surface shows, unless it owes it, its owner, delays and
\* the schedule.
LEMMA StillShown ==
  ASSUME ShownOrComing, UNCHANGED <<schedule, delayed>>, owed \cap Surfaces \subseteq owed',
         \A s \in Surfaces \ owed' : shows'[s] = shows[s],
         UNCHANGED <<windows, key, active, sync, spa, game>>, manual' \cap Legacy = manual \cap Legacy,
         \A s \in Surfaces \ owed' : RunWill(s) => RunWill(s)'
  PROVE  ShownOrComing'
<1> SUFFICES ASSUME NEW s \in Surfaces, s \notin owed' PROVE (Suits(s) \/ Coming(s))'
  BY DEF ShownOrComing
<1>1. Suits(s) \/ Coming(s)
  BY DEF ShownOrComing
<1>2. Suits(s) => Suits(s)'
  BY SameOwners DEF Suits
<1>3. Coming(s) => Coming(s)'
  BY DEF Coming, DelayWill, ScheduleWill, Left
<1> QED BY <1>1, <1>2, <1>3

\* Every program ends with the same four commands.
LEMMA EndsAlike ==
  ASSUME NEW trigger \in Triggers
  PROVE  LET P == Program[trigger] n == Length(trigger) IN
         P[n - 3] = "evaluate" /\ P[n - 2] = "pillars" /\ P[n - 1] = "path" /\ P[n] = "backyard"
<1>1. CASE trigger = "startup"
  BY <1>1, StartupSteps DEF Length
<1>2. CASE trigger = "holiday"
  BY <1>2, HolidaySteps DEF Length
<1>3. CASE trigger = "main_area"
  BY <1>3, MainAreaSteps DEF Length
<1>4. CASE trigger = "sunset"
  BY <1>4, SunsetSteps DEF Length
<1>5. CASE trigger = "boundary"
  BY <1>5, BoundarySteps DEF Length
<1> QED BY <1>1, <1>2, <1>3, <1>4, <1>5 DEF Triggers

\* A run that breaks owes what it would still have commanded.
LEMMA ScheduleReach ==
  ASSUME Track(schedule), NEW s \in Surfaces, ScheduleWill(s)
  PROVE  s \in AheadOfSchedule
<1> DEFINE n == Left  todo == schedule.todo  steps == Program[schedule.of]  l == Length(schedule.of)
<1>1. schedule # Resting /\ schedule.of \in Triggers /\ n \in 1 .. l /\ l \in {5, 7, 8, 15}
  BY TrackIs DEF ScheduleWill, Length
<1>2. /\ DOMAIN todo = 1 .. n /\ Len(steps) = l
      /\ \A j \in 1 .. n : todo[j] = steps[l - n + j]
  <2>1. Len(steps) = l
    BY <1>1, Lengths
  <2>2. todo \in Seq(Steps) /\ \A j \in 1 .. Len(todo) : todo[j] = steps[Len(steps) - Len(todo) + j]
    BY <1>1 DEF Track
  <2>3. n = Len(todo)
    BY DEF Left
  <2> HIDE DEF todo, steps, l, n
  <2>4. DOMAIN todo = 1 .. n
    BY <2>2, <2>3
  <2> QED BY <2>1, <2>2, <2>3, <2>4
<1>3. steps[l - 3] = "evaluate" /\ steps[l - 2] = "pillars" /\ steps[l - 1] = "path" /\ steps[l] = "backyard"
  BY <1>1, EndsAlike
<1>4. /\ n >= 4 \/ (n = 3 /\ s \in {"pillars", "path", "backyard"})
         \/ (n = 2 /\ s \in {"path", "backyard"}) \/ (n = 1 /\ s = "backyard")
  BY DEF ScheduleWill
<1> HIDE DEF n, l, steps, todo
<1>5. n \in Nat /\ l \in Nat
  BY <1>1
<1>6. n >= 4 => n - 3 \in 1 .. n /\ todo[n - 3] = "evaluate"
  <2>1. l - n + (n - 3) = l - 3
    BY <1>5
  <2> QED BY <1>2, <1>3, <1>5, <2>1
<1>7. n >= 3 => n - 2 \in 1 .. n /\ todo[n - 2] = "pillars"
  <2>1. l - n + (n - 2) = l - 2
    BY <1>5
  <2> QED BY <1>2, <1>3, <1>5, <2>1
<1>8. n >= 2 => n - 1 \in 1 .. n /\ todo[n - 1] = "path"
  <2>1. l - n + (n - 1) = l - 1
    BY <1>5
  <2> QED BY <1>2, <1>3, <1>5, <2>1
<1>9. n >= 1 => n \in 1 .. n /\ todo[n] = "backyard"
  <2>1. l - n + n = l
    BY <1>5
  <2> QED BY <1>2, <1>3, <1>5, <2>1
<1>10. \E i \in DOMAIN todo :
         (todo[i] = "evaluate" /\ s \in {"front_eve", "main_area"}) \/ (todo[i] = s /\ s \in {"pillars", "path", "backyard"})
  <2>1. CASE s \in {"front_eve", "main_area"}
    BY <1>1, <1>2, <1>4, <1>6, <2>1
  <2>2. CASE s = "pillars"
    BY <1>1, <1>2, <1>4, <1>5, <1>7, <2>2
  <2>3. CASE s = "path"
    BY <1>1, <1>2, <1>4, <1>5, <1>8, <2>3
  <2>4. CASE s = "backyard"
    BY <1>1, <1>2, <1>4, <1>5, <1>9, <2>4
  <2> QED BY <2>1, <2>2, <2>3, <2>4 DEF Surfaces
<1>11. PICK i \in DOMAIN schedule.todo :
         \/ schedule.todo[i] = "evaluate" /\ s \in {"front_eve", "main_area"}
         \/ schedule.todo[i] = s /\ s \in {"pillars", "path", "backyard"}
  BY <1>10 DEF todo
<1>12. CASE schedule.todo[i] = "evaluate" /\ s \in {"front_eve", "main_area"}
  <2>1. 1 \in DOMAIN Stages["evaluate"] /\ 2 \in DOMAIN Stages["evaluate"]
    BY DEF Stages
  <2>2. s \in {Stages[schedule.todo[i]][j] : j \in DOMAIN Stages[schedule.todo[i]]} /\ schedule.todo[i] \in Scripts
    BY <1>12, <2>1, StagesAre DEF Scripts
  <2> QED BY <2>2 DEF AheadOfSchedule
<1>13. CASE schedule.todo[i] = s /\ s \in {"path", "backyard"}
  <2>1. 1 \in DOMAIN Stages["path"] /\ 1 \in DOMAIN Stages["backyard"]
    BY DEF Stages
  <2>2. s \in {Stages[schedule.todo[i]][j] : j \in DOMAIN Stages[schedule.todo[i]]} /\ schedule.todo[i] \in Scripts
    BY <1>13, <2>1, StagesAre DEF Scripts
  <2> QED BY <2>2 DEF AheadOfSchedule
<1>14. CASE schedule.todo[i] = s /\ s = "pillars"
  <2>1. schedule.todo[i] \notin Scripts /\ s \in {schedule.todo[i]} \cap Surfaces
    BY <1>14 DEF Scripts
  <2> QED BY <2>1 DEF AheadOfSchedule
<1> QED BY <1>11, <1>12, <1>13, <1>14

\* The owner of one surface depends on these inputs alone.
LEMMA SameOwner ==
  ASSUME UNCHANGED <<windows, key, active>>, NEW s \in Surfaces,
         s = "main_area" => ("living" \in sync' <=> "living" \in sync),
         s \in {"main_area", "front_eve"} => ((game' = "IN") <=> (game = "IN")),
         s = "backyard" => spa' = spa /\ ("yard" \in sync' <=> "yard" \in sync),
         (s \in manual' \cap Legacy) <=> (s \in manual \cap Legacy)
  PROVE  Owners'[s] = Owners[s]
<1>1. \A x : Eve(x)' = Eve(x)
  BY DEF Eve
<1>2. CASE s = "main_area"
  BY <1>1, <1>2, OwnersTable, OwnersTableNext DEF Table, Eve
<1>3. CASE s = "front_eve"
  BY <1>1, <1>3, OwnersTable, OwnersTableNext DEF Table, Eve
<1>4. CASE s = "path"
  BY <1>1, <1>4, OwnersTable, OwnersTableNext DEF Table, Eve
<1>5. CASE s = "backyard"
  BY <1>1, <1>5, OwnersTable, OwnersTableNext DEF Table, Eve
<1>6. CASE s = "pillars"
  BY <1>1, <1>6, OwnersTable, OwnersTableNext DEF Table, Eve
<1> QED BY <1>2, <1>3, <1>4, <1>5, <1>6 DEF Surfaces

\* A step that does not concern the surface.
LEMMA StillSuits ==
  ASSUME NEW s, Suits(s) \/ Coming(s), Owners'[s] = Owners[s], shows'[s] = shows[s],
         schedule' = schedule, DelayWill(s) => DelayWill(s)', RunWill(s) => RunWill(s)'
  PROVE  Suits(s)' \/ Coming(s)'
  BY DEF Suits, Coming, ScheduleWill, Left

LEMMA DelayGrows ==
  ASSUME NEW s, delayed \subseteq delayed'
  PROVE  DelayWill(s) => DelayWill(s)'
  BY DEF DelayWill

LEMMA ShownNext ==
  ASSUME Typed, ShownOrComing, [Next]_vars
  PROVE  ShownOrComing'
<1>1. ASSUME Tick, Quiet PROVE ShownOrComing'
  <2>1. CASE up
    <3>1. Trigger[phase'] \in {"holiday", "main_area", "sunset", "boundary"}
      BY <1>1 DEF Tick, Typed, InputsOK, Trigger, After
    <3>2. Starts(Trigger[phase']) /\ Trigger[phase'] \in Triggers
      BY <1>1, <2>1, <3>1 DEF Tick, Triggers
    <3>3. schedule' # Resting /\ Len(schedule'.todo) = Length(Trigger[phase'])
      BY <3>2, StartsDo DEF Typed
    <3>4. Left' \in {5, 7, 8}
      BY <3>1, <3>3 DEF Length, Left
    <3> QED BY <3>3, <3>4 DEF ScheduleWill, Coming, ShownOrComing
  <2>2. CASE ~up
    <3>1. Surfaces \subseteq owed'
      BY <1>1, <2>2 DEF Tick, Typed, DownOK, Everything
    <3> QED BY <3>1 DEF ShownOrComing
  <2> QED BY <2>1, <2>2
<1>2. ASSUME NoSun, Quiet PROVE ShownOrComing'
  <2> SUFFICES ASSUME NEW s \in Surfaces, s \notin owed' PROVE Suits(s)' \/ Coming(s)'
    BY DEF ShownOrComing
  <2>1. Left = 15
    BY <1>2, DoingIs DEF NoSun, Typed, Machinery, Position, At
  <2>2. ~ScheduleWill(s)
    BY <2>1 DEF ScheduleWill
  <2>3. Owners'[s] = Owners[s] /\ shows' = shows /\ delayed' = delayed /\ script' = script /\ owed' = owed
    BY <1>2, SameOwner DEF NoSun, inputs, lights
  <2>4. Suits(s) \/ RunWill(s) \/ DelayWill(s)
    BY <2>2, <2>3 DEF ShownOrComing, Coming
  <2> QED BY <2>3, <2>4 DEF Suits, Coming, RunWill, DelayWill
<1>3. ASSUME HelpersQuietly PROVE ShownOrComing'
  <2>1. PICK step : GoesOn(step)
    BY <1>3, HelpersDo DEF Typed, Machinery, InputsOK, HelpersQuietly
  <2>2. schedule' # Resting /\ Left' \in 4 .. 14
    BY <2>1 DEF GoesOn, Left
  <2> QED BY <2>2 DEF ScheduleWill, Coming, ShownOrComing
<1>4. ASSUME NEW x \in Scripts, CallsNext(x) PROVE ShownOrComing'
  <2> SUFFICES ASSUME NEW s \in Surfaces, s \notin owed' PROVE Suits(s)' \/ Coming(s)'
    BY DEF ShownOrComing
  <2>1. Position(schedule.of, Left, x) /\ schedule # Resting
        /\ (Left # 1 => schedule' # Resting /\ Left' = Left - 1)
    BY <1>4, DoingIs DEF CallsNext, Done, Typed, Machinery, Left
  <2>2. ScriptsOK /\ Calls(x, "schedule") /\ "schedule" \in Callers
    BY <1>4, CallersAre DEF CallsNext, Typed, Machinery
  <2>3. /\ s \in Reach(x, 1) => RunWill(s)'
        /\ RunWill(s) => RunWill(s)'
    BY <2>2, CallsKeeps
  <2>4. ScheduleWill(s) => ScheduleWill(s)' \/ s \in Reach(x, 1)
    <3>1. CASE Left \in 5 .. 15
      <4>1. Left' \in 4 .. 14 \/ Left = 15
        BY <2>1, <3>1
      <4> QED BY <2>1, <3>1, <4>1 DEF ScheduleWill
    <3>2. CASE Left = 4
      <4>1. x = "evaluate" /\ Left' = 3 /\ schedule' # Resting
        BY <2>1, <3>2 DEF Position, At, Scripts
      <4> QED BY <4>1, ReachIs DEF ScheduleWill, Surfaces
    <3>3. CASE Left = 2
      <4>1. x = "path" /\ Left' = 1 /\ schedule' # Resting
        BY <2>1, <3>3 DEF Position, At, Scripts
      <4> QED BY <3>3, <4>1, ReachIs DEF ScheduleWill
    <3>4. CASE Left = 1
      <4>1. x = "backyard"
        BY <2>1, <3>4 DEF Position, At, Scripts
      <4> QED BY <3>4, <4>1, ReachIs DEF ScheduleWill
    <3> QED BY <2>1, <3>1, <3>2, <3>3, <3>4 DEF Position, At, Scripts
  <2>5. Owners'[s] = Owners[s] /\ shows' = shows /\ delayed' = delayed /\ owed' = owed
    BY <1>4, SameOwner DEF CallsNext, inputs
  <2>6. Suits(s) \/ Coming(s)
    BY <2>5 DEF ShownOrComing
  <2>7. (Suits(s) => Suits(s)') /\ (DelayWill(s) => DelayWill(s)')
    BY <2>5 DEF Suits, DelayWill
  <2> QED BY <2>3, <2>4, <2>6, <2>7 DEF Coming
<1>5. ASSUME Pillars PROVE ShownOrComing'
  <2> SUFFICES ASSUME NEW s \in Surfaces, s \notin owed' PROVE Suits(s)' \/ Coming(s)'
    BY DEF ShownOrComing
  <2>1. /\ Left = 3 /\ schedule # Resting /\ schedule' # Resting /\ Left' = 2
    <3>1. Left = 3 /\ schedule # Resting
      BY <1>5, DoingIs DEF Pillars, Typed, Machinery, Position
    <3>2. schedule' # Resting /\ Left' = Left - 1
      BY <1>5, <3>1, DoingIs DEF Pillars, Done, Typed, Machinery, Left
    <3> QED BY <3>1, <3>2
  <2>2. Owners'[s] = Owners[s] /\ delayed' = delayed /\ script' = script
    BY <1>5, SameOwner DEF Pillars, inputs
  <2>3. CASE s = "pillars"
    <3>1. shows'[s] = Owners[s]
      BY <1>5, <2>3 DEF Pillars, Typed, LightsOK
    <3> QED BY <2>2, <3>1 DEF Suits
  <2>4. CASE s # "pillars"
    <3>1. shows'[s] = shows[s] /\ s \notin owed
      BY <1>5, <2>4 DEF Pillars, Typed, LightsOK
    <3>2. Suits(s) \/ Coming(s)
      BY <3>1 DEF ShownOrComing
    <3>3. ScheduleWill(s) => ScheduleWill(s)'
      BY <2>1, <2>4 DEF ScheduleWill
    <3> QED BY <2>2, <3>1, <3>2, <3>3 DEF Suits, Coming, RunWill, DelayWill
  <2> QED BY <2>3, <2>4
<1>6. ASSUME Spa, Quiet PROVE ShownOrComing'
  <2> SUFFICES ASSUME NEW s \in Surfaces, s \notin owed' PROVE Suits(s)' \/ Coming(s)'
    BY DEF ShownOrComing
  <2>1. ScriptsOK /\ GivesUp("spa") /\ s \notin AheadOf("spa") /\ s \notin owed
    BY <1>6 DEF Spa, GivesUp, Typed, Machinery
  <2>2. RunWill(s) => RunWill(s)'
    BY <2>1, GivesUpKeeps
  <2>3. Suits(s) \/ Coming(s)
    BY <2>1 DEF ShownOrComing
  <2>4. CASE s # "backyard"
    <3>1. Owners'[s] = Owners[s]
      BY <1>6, <2>4, SameOwner DEF Spa
    <3>2. shows'[s] = shows[s] /\ schedule' = schedule
      BY <1>6, <2>4 DEF Spa, Typed, LightsOK
    <3>3. DelayWill(s) => DelayWill(s)'
      <4>1. Called["spa"] = "backyard" /\ s \notin Reach("backyard", 1)
        BY <2>4, ReachIs DEF Called
      <4> QED BY <1>6, <4>1 DEF Spa, DelayWill
    <3> QED BY <2>2, <2>3, <3>1, <3>2, <3>3, StillSuits
  <2>5. CASE s = "backyard" /\ spa
    <3>1. "spa" \in delayed' /\ s \in Reach(Called["spa"], 1)
      BY <1>6, <2>5, ReachIs DEF Spa, Called
    <3> QED BY <3>1 DEF Coming, DelayWill
  <2>6. CASE s = "backyard" /\ ~spa
    <3>1. spa'
      BY <1>6, <2>6 DEF Spa
    <3>2. Owners'[s] \in Structural
      BY <2>6, <3>1, OwnersTableNext DEF Table, Structural
    <3> QED BY <3>2 DEF Suits
  <2> QED BY <2>4, <2>5, <2>6
<1>7. ASSUME GameChanges, Quiet PROVE ShownOrComing'
  <2> SUFFICES ASSUME NEW s \in Surfaces, s \notin owed' PROVE Suits(s)' \/ Coming(s)'
    BY DEF ShownOrComing
  <2>1. PICK next :
          /\ game' = next
          /\ IF up /\ "unknown" \notin {game, next} /\ "IN" \in {game, next}
               THEN delayed' = delayed \cup {"game"} /\ UNCHANGED owed
               ELSE /\ owed' = IF "IN" \in {game, next} THEN owed \cup {"main_area", "front_eve"} ELSE owed
                    /\ UNCHANGED delayed
          /\ UNCHANGED <<windows, key, active, manual, sync, spa, doors, clock, up, schedule, script,
                         lights, recall, rebuilt>>
    BY <1>7 DEF GameChanges
  <2>2. s \notin owed /\ delayed \subseteq delayed' /\ script' = script /\ schedule' = schedule /\ shows' = shows
    BY <2>1 DEF lights
  <2>3. CASE s \in {"main_area", "front_eve"} /\ "game" \in delayed'
    <3>1. s \in Reach(Called["game"], 1)
      BY <2>3, ReachIs DEF Called
    <3> QED BY <2>3, <3>1 DEF Coming, DelayWill
  <2>4. CASE s \in {"main_area", "front_eve"} => ((game' = "IN") <=> (game = "IN"))
    <3>1. Owners'[s] = Owners[s]
      BY <2>1, <2>4, SameOwner
    <3>2. Suits(s) \/ Coming(s)
      BY <2>2 DEF ShownOrComing
    <3>3. (DelayWill(s) => DelayWill(s)') /\ (RunWill(s) => RunWill(s)')
      BY <2>2 DEF DelayWill, RunWill
    <3> QED BY <2>2, <3>1, <3>2, <3>3, StillSuits
  <2>5. s \in {"main_area", "front_eve"} => "game" \in delayed' \/ ((game' = "IN") <=> (game = "IN"))
    BY <2>1
  <2> QED BY <2>3, <2>4, <2>5
<1>8. ASSUME GameMinute, Quiet PROVE ShownOrComing'
  <2> SUFFICES ASSUME NEW s \in Surfaces, s \notin owed' PROVE Suits(s)' \/ Coming(s)'
    BY DEF ShownOrComing
  <2>1. /\ s \notin owed /\ delayed \subseteq delayed' /\ script' = script /\ schedule' = schedule /\ shows' = shows
        /\ UNCHANGED <<windows, key, active, manual, sync, spa, game>>
    BY <1>8 DEF GameMinute, lights, inputs
  <2>2. Owners'[s] = Owners[s]
    BY <2>1, SameOwner
  <2>3. Suits(s) \/ Coming(s)
    BY <2>1 DEF ShownOrComing
  <2>4. (DelayWill(s) => DelayWill(s)') /\ (RunWill(s) => RunWill(s)')
    BY <2>1 DEF DelayWill, RunWill
  <2> QED BY <2>1, <2>2, <2>3, <2>4, StillSuits
<1>9. ASSUME Released, Quiet PROVE ShownOrComing'
  <2> SUFFICES ASSUME NEW s \in Surfaces, s \notin owed' PROVE Suits(s)' \/ Coming(s)'
    BY DEF ShownOrComing
  <2>1. ScriptsOK /\ GivesUp("bridge") /\ s \notin AheadOf("bridge") /\ s \notin owed
    BY <1>9 DEF Released, GivesUp, Typed, Machinery
  <2>2. RunWill(s) => RunWill(s)'
    BY <2>1, GivesUpKeeps
  <2>3. Suits(s) \/ Coming(s)
    BY <2>1 DEF ShownOrComing
  <2>4. /\ s \in manual' \cap Legacy <=> s \in manual \cap Legacy
        /\ UNCHANGED <<windows, key, active, sync, spa, game>>
    BY <1>9, ResolverAssumption DEF Released
  <2>5. Owners'[s] = Owners[s]
    BY <2>4, SameOwner
  <2>6. shows' = shows /\ schedule' = schedule /\ (DelayWill(s) => DelayWill(s)')
    BY <1>9, DelayGrows DEF Released, lights
  <2> QED BY <2>2, <2>3, <2>5, <2>6, StillSuits
<1>10. ASSUME NEW x \in Scripts, Consider(x), Quiet PROVE ShownOrComing'
  <2> SUFFICES ASSUME NEW s \in Surfaces, s \notin owed' PROVE Suits(s)' \/ Coming(s)'
    BY DEF ShownOrComing
  <2> DEFINE stage == Stages[x][script[x].at]
  <2>1. /\ ScriptsOK /\ s # "liquor_cabinet"
    BY DEF Typed, Machinery, Surfaces
  <2>2. /\ s \notin owed /\ shows' = shows /\ schedule' = schedule /\ delayed' = delayed
        /\ UNCHANGED <<windows, key, active, manual, sync, spa, game>>
    BY <1>10, <2>1 DEF Consider, inputs
  <2>3. Owners'[s] = Owners[s] /\ (Suits(s) \/ Coming(s)) /\ (DelayWill(s) => DelayWill(s)')
    BY <2>2, SameOwner, DelayGrows DEF ShownOrComing
  <2>4. CASE s # stage
    <3>1. RunWill(s) => RunWill(s)'
      BY <1>10, <2>1, <2>4, ConsiderDo, OnwardKeeps
    <3> QED BY <2>2, <2>3, <3>1, StillSuits
  <2>5. CASE s = stage /\ script'[x].by = script[x].by /\ script'[x].at = script[x].at
    <3>1. script[x].by # None /\ script[x].at \in 1 .. Len(Stages[x])
      BY <1>10, <2>1 DEF Consider, ScriptsOK, Sound
    <3>2. s \in Reach(x, script[x].at)
      BY <2>5, <3>1, ReachIs
    <3> QED BY <2>5, <3>1, <3>2 DEF Coming, RunWill
  <2>6. CASE s = stage /\ Owners[s] \in Structural
    BY <2>3, <2>6 DEF Suits
  <2> QED BY <1>10, <2>1, <2>4, <2>5, <2>6, ConsiderDo
<1>11. ASSUME NEW x \in Scripts, Render(x), Quiet PROVE ShownOrComing'
  <2> SUFFICES ASSUME NEW s \in Surfaces, s \notin owed' PROVE Suits(s)' \/ Coming(s)'
    BY DEF ShownOrComing
  <2> DEFINE stage == Stages[x][script[x].at]
  <2>1. ScriptsOK /\ script[x].by # None
    BY <1>11, RenderIs DEF Render, Typed, Machinery
  <2>2. /\ schedule' = schedule /\ delayed' = delayed
        /\ UNCHANGED <<windows, key, active, manual, sync, spa, game>>
    BY <1>11 DEF Render, inputs
  <2>3. Owners'[s] = Owners[s] /\ (DelayWill(s) => DelayWill(s)')
    BY <2>2, SameOwner, DelayGrows
  <2>4. CASE s # stage
    <3>1. s \notin owed /\ shows'[s] = shows[s]
      BY <1>11, <2>4 DEF Render, Typed, LightsOK, lights
    <3>2. Suits(s) \/ Coming(s)
      BY <3>1 DEF ShownOrComing
    <3>3. RunWill(s) => RunWill(s)'
      BY <1>11, <2>1, <2>4, OnwardDo, OnwardKeeps DEF Render
    <3> QED BY <2>2, <2>3, <3>1, <3>2, <3>3, StillSuits
  <2>5. CASE s = stage
    <3>1. shows'[s] = Owners[s]
      BY <1>11, <2>5 DEF Render, Typed, LightsOK
    <3> QED BY <2>3, <3>1 DEF Suits
  <2> QED BY <2>4, <2>5
<1>12. ASSUME NEW area \in {"living", "yard"}, SyncStarts(area), Quiet PROVE ShownOrComing'
  <2> SUFFICES ASSUME NEW s \in Surfaces, s \notin owed' PROVE Suits(s)' \/ Coming(s)'
    BY DEF ShownOrComing
  <2>1. ScriptsOK /\ GivesUp(area) /\ s \notin AheadOf(area) /\ s \notin owed
    BY <1>12 DEF SyncStarts, GivesUp, Typed, Machinery
  <2>2. RunWill(s) => RunWill(s)'
    BY <2>1, GivesUpKeeps
  <2>3. Suits(s) \/ Coming(s)
    BY <2>1 DEF ShownOrComing
  <2> DEFINE target == IF area = "living" THEN "main_area" ELSE "backyard"
  <2>4. CASE s = target
    <3>1. Owners'[s] \in Structural
      BY <1>12, <2>4, OwnersTableNext DEF SyncStarts, Table, Structural
    <3> QED BY <3>1 DEF Suits
  <2>5. CASE s # target
    <3>1. Owners'[s] = Owners[s]
      BY <1>12, <2>5, SameOwner DEF SyncStarts
    <3>2. shows'[s] = shows[s] /\ schedule' = schedule /\ delayed' = delayed
      BY <1>12, <2>5 DEF SyncStarts, Typed, LightsOK
    <3>3. DelayWill(s) => DelayWill(s)'
      BY <3>2, DelayGrows
    <3> QED BY <2>2, <2>3, <3>1, <3>2, <3>3, StillSuits
  <2> QED BY <2>4, <2>5
<1>13. ASSUME NEW area \in {"living", "yard"}, SyncStops(area), Quiet PROVE ShownOrComing'
  <2> SUFFICES ASSUME NEW s \in Surfaces, s \notin owed' PROVE Suits(s)' \/ Coming(s)'
    BY DEF ShownOrComing
  <2> DEFINE target == IF area = "living" THEN "main_area" ELSE "backyard"
  <2> DEFINE called == IF area = "living" THEN "evaluate" ELSE "backyard"
  <2>1. /\ s \notin owed /\ shows' = shows /\ schedule' = schedule /\ delayed' = delayed
        /\ UNCHANGED <<windows, key, active, manual, spa, game>> /\ sync' = sync \ {area}
    BY <1>13 DEF SyncStops, lights
  <2>2. (Suits(s) \/ Coming(s)) /\ (DelayWill(s) => DelayWill(s)')
    BY <2>1, DelayGrows DEF ShownOrComing
  <2>3. s # target => Owners'[s] = Owners[s]
    BY <2>1, SameOwner
  <2>4. CASE up /\ Calls(called, area)
    <3>1. ScriptsOK /\ called \in Scripts /\ area \in Callers
      BY CallersAre DEF Typed, Machinery
    <3> HIDE DEF called
    <3>2. (s \in Reach(called, 1) => RunWill(s)') /\ (RunWill(s) => RunWill(s)')
      BY <2>4, <3>1, CallsKeeps
    <3>3. s = target => s \in Reach(called, 1)
      BY ReachIs DEF called
    <3> QED BY <2>1, <2>2, <2>3, <3>2, <3>3, StillSuits DEF Coming
  <2>5. CASE ~up
    BY <2>1, <2>5 DEF Typed, DownOK, Everything
  <2>6. CASE area = "yard" /\ spa /\ UNCHANGED script
    <3>1. s = target => Owners'[s] \in Structural
      BY <2>1, <2>6, OwnersTableNext DEF Table, Structural
    <3>2. RunWill(s) => RunWill(s)'
      BY <2>6 DEF RunWill
    <3> QED BY <2>1, <2>2, <2>3, <3>1, <3>2, StillSuits DEF Suits
  <2> QED BY <1>13, <2>4, <2>5, <2>6 DEF SyncStops
<1>14. ASSUME NEW h \in Legacy, On(h), Quiet PROVE ShownOrComing'
  <2> SUFFICES ASSUME NEW s \in Surfaces, s \notin owed' PROVE Suits(s)' \/ Coming(s)'
    BY DEF ShownOrComing
  <2>1. s \notin owed /\ schedule' = schedule /\ delayed' = delayed /\ script' = script
        /\ UNCHANGED <<windows, key, active, sync, spa, game>>
    BY <1>14 DEF On, runs
  <2>2. CASE s = h
    <3>1. (s = "backyard" => ~spa /\ "yard" \notin sync) /\ manual' = manual \cup {s} /\ s \in Legacy
      BY <1>14, <2>2 DEF On
    <3>2. Owners'[s] = "manual"
      BY <2>1, <3>1, OwnersTableNext, ResolverAssumption DEF Table
    <3> QED BY <3>2 DEF Suits, Structural
  <2>3. CASE s # h
    <3>1. shows'[s] = shows[s] /\ (s \in manual' \cap Legacy <=> s \in manual \cap Legacy)
      BY <1>14, <2>3 DEF On, Typed, LightsOK
    <3>2. Owners'[s] = Owners[s]
      BY <2>1, <3>1, SameOwner
    <3>3. (Suits(s) \/ Coming(s)) /\ (DelayWill(s) => DelayWill(s)') /\ (RunWill(s) => RunWill(s)')
      BY <2>1 DEF ShownOrComing, DelayWill, RunWill
    <3> QED BY <2>1, <3>1, <3>2, <3>3, StillSuits
  <2> QED BY <2>2, <2>3
<1>15. ASSUME NEW h \in Legacy, Off(h), Quiet PROVE ShownOrComing'
  <2> SUFFICES ASSUME NEW s \in Surfaces, s \notin owed' PROVE Suits(s)' \/ Coming(s)'
    BY DEF ShownOrComing
  <2>1. s \notin owed /\ schedule' = schedule /\ delayed \subseteq delayed' /\ script' = script
        /\ UNCHANGED <<windows, key, active, sync, spa, game>>
    BY <1>15 DEF Off
  <2>2. CASE s = h
    <3>1. s \in delayed' /\ s \in Legacy
      BY <1>15, <2>2 DEF Off
    <3>2. s \in Reach(Called[s], 1)
      BY <3>1, ReachIs, ResolverAssumption DEF Called
    <3> QED BY <3>1, <3>2 DEF Coming, DelayWill
  <2>3. CASE s # h
    <3>1. shows'[s] = shows[s] /\ (s \in manual' \cap Legacy <=> s \in manual \cap Legacy)
      BY <1>15, <2>3 DEF Off, Typed, LightsOK
    <3>2. Owners'[s] = Owners[s]
      BY <2>1, <3>1, SameOwner
    <3>3. (Suits(s) \/ Coming(s)) /\ (DelayWill(s) => DelayWill(s)') /\ (RunWill(s) => RunWill(s)')
      BY <2>1 DEF ShownOrComing, DelayWill, RunWill
    <3> QED BY <2>1, <3>1, <3>2, <3>3, StillSuits
  <2> QED BY <2>2, <2>3
<1>16. ASSUME NEW by \in delayed, Due(by), Quiet PROVE ShownOrComing'
  <2> SUFFICES ASSUME NEW s \in Surfaces, s \notin owed' PROVE Suits(s)' \/ Coming(s)'
    BY DEF ShownOrComing
  <2>1. /\ s \notin owed /\ shows' = shows /\ schedule' = schedule /\ delayed' = delayed \ {by}
        /\ UNCHANGED <<windows, key, active, manual, sync, spa, game>>
    BY <1>16 DEF Due, lights, inputs
  <2>2. ScriptsOK /\ Called[by] \in Scripts /\ by \in Callers /\ Calls(Called[by], by)
    BY <1>16, CallersAre DEF Due, Typed, Machinery, LightsOK
  <2>3. (s \in Reach(Called[by], 1) => RunWill(s)') /\ (RunWill(s) => RunWill(s)')
    BY <2>2, CallsKeeps
  <2>4. Owners'[s] = Owners[s] /\ (Suits(s) \/ Coming(s))
    BY <2>1, SameOwner DEF ShownOrComing
  <2>5. CASE s \in Reach(Called[by], 1)
    BY <2>3, <2>5 DEF Coming
  <2>6. CASE s \notin Reach(Called[by], 1)
    <3>1. DelayWill(s) => DelayWill(s)'
      BY <2>1, <2>6 DEF DelayWill
    <3> QED BY <2>1, <2>3, <2>4, <3>1, StillSuits
  <2> QED BY <2>5, <2>6
<1>17. ASSUME Start, Quiet PROVE ShownOrComing'
  <2>1. Surfaces \subseteq owed'
    BY <1>17 DEF Start, Typed, DownOK, Everything
  <2> QED BY <2>1 DEF ShownOrComing
<1>18. ASSUME TakesNext PROVE ShownOrComing'
  <2>1. UNCHANGED <<schedule, script, delayed, shows, windows, key, active, sync, spa, game>>
    BY <1>18 DEF TakesNext, inputs, clock, lights, runs, cab, evening
  <2>2. owed \cap Surfaces \subseteq owed' /\ manual' \cap Legacy = manual \cap Legacy
    BY <1>18, ResolverAssumption DEF TakesNext, inputs, clock, lights, runs, cab, evening, Surfaces
  <2>3. \A s : RunWill(s) => RunWill(s)'
    BY <2>1 DEF RunWill
  <2> QED BY <2>1, <2>2, <2>3, StillShown
<1>19. ASSUME Keep PROVE ShownOrComing'
  <2>1. UNCHANGED <<schedule, script, delayed, shows, windows, key, active, sync, spa, game>>
    BY <1>19 DEF Keep, inputs, clock, lights, runs, cab, evening
  <2>2. owed \cap Surfaces \subseteq owed' /\ manual' \cap Legacy = manual \cap Legacy
    BY <1>19, ResolverAssumption DEF Keep, inputs, clock, lights, runs, cab, evening, Surfaces
  <2>3. \A s : RunWill(s) => RunWill(s)'
    BY <2>1 DEF RunWill
  <2> QED BY <2>1, <2>2, <2>3, StillShown
<1>20. ASSUME White PROVE ShownOrComing'
  <2>1. UNCHANGED <<schedule, script, delayed, shows, windows, key, active, sync, spa, game>>
    BY <1>20 DEF White, inputs, clock, lights, runs, cab, evening
  <2>2. owed \cap Surfaces \subseteq owed' /\ manual' \cap Legacy = manual \cap Legacy
    BY <1>20, ResolverAssumption DEF White, inputs, clock, lights, runs, cab, evening, Surfaces
  <2>3. \A s : RunWill(s) => RunWill(s)'
    BY <2>1 DEF RunWill
  <2> QED BY <2>1, <2>2, <2>3, StillShown
<1>21. ASSUME Restore PROVE ShownOrComing'
  <2>1. UNCHANGED <<schedule, script, delayed, windows, key, active, sync, spa, game, manual>>
    BY <1>21 DEF Restore, inputs, clock, runs
  <2>2. owed \cap Surfaces \subseteq owed' /\ \A s \in Surfaces \ owed' : shows'[s] = shows[s]
    BY <1>21 DEF Restore, Recalled, Typed, LightsOK
  <2>3. \A s : RunWill(s) => RunWill(s)'
    BY <2>1 DEF RunWill
  <2> QED BY <2>1, <2>2, <2>3, StillShown
<1>22. ASSUME RestoreFails PROVE ShownOrComing'
  <2>1. UNCHANGED <<schedule, script, delayed, shows, windows, key, active, sync, spa, game>>
    BY <1>22 DEF RestoreFails, inputs, clock, lights, runs, cab, evening
  <2>2. owed \cap Surfaces \subseteq owed' /\ manual' \cap Legacy = manual \cap Legacy
    BY <1>22, ResolverAssumption DEF RestoreFails, inputs, clock, lights, runs, cab, evening, Surfaces
  <2>3. \A s : RunWill(s) => RunWill(s)'
    BY <2>1 DEF RunWill
  <2> QED BY <2>1, <2>2, <2>3, StillShown
<1>23. ASSUME Evaluate PROVE ShownOrComing'
  <2>1. ScriptsOK /\ Calls("evaluate", "cabinet") /\ "evaluate" \in Scripts /\ "cabinet" \in Callers
    BY <1>23, CallersAre DEF Evaluate, Typed, Machinery
  <2>2. \A s : RunWill(s) => RunWill(s)'
    BY <2>1, CallsKeeps
  <2> QED BY <1>23, <2>2, StillShown DEF Evaluate, inputs, lights
<1>24. ASSUME Finish PROVE ShownOrComing'
  <2>1. UNCHANGED <<schedule, script, delayed, shows, windows, key, active, sync, spa, game>>
    BY <1>24 DEF Finish, inputs, clock, lights, runs, cab, evening
  <2>2. owed \cap Surfaces \subseteq owed' /\ manual' \cap Legacy = manual \cap Legacy
    BY <1>24, ResolverAssumption DEF Finish, inputs, clock, lights, runs, cab, evening, Surfaces
  <2>3. \A s : RunWill(s) => RunWill(s)'
    BY <2>1 DEF RunWill
  <2> QED BY <2>1, <2>2, <2>3, StillShown
<1>25. ASSUME NEW d \in {"left", "right"}, DoorMoves(d) PROVE ShownOrComing'
  <2>1. UNCHANGED <<schedule, script, delayed, shows, windows, key, active, sync, spa, game>>
    BY <1>25 DEF DoorMoves, inputs, clock, lights, runs, cab, evening
  <2>2. owed \cap Surfaces \subseteq owed' /\ manual' \cap Legacy = manual \cap Legacy
    BY <1>25, ResolverAssumption DEF DoorMoves, inputs, clock, lights, runs, cab, evening, Surfaces
  <2>3. \A s : RunWill(s) => RunWill(s)'
    BY <2>1 DEF RunWill
  <2> QED BY <2>1, <2>2, <2>3, StillShown
<1>26. ASSUME NEW look \in Looks \cup {"off"}, Sets(look) PROVE ShownOrComing'
  <2>1. UNCHANGED <<schedule, script, delayed, shows, windows, key, active, sync, spa, game>>
    BY <1>26 DEF Sets, inputs, clock, lights, runs, cab, evening
  <2>2. owed \cap Surfaces \subseteq owed' /\ manual' \cap Legacy = manual \cap Legacy
    BY <1>26, ResolverAssumption DEF Sets, inputs, clock, lights, runs, cab, evening, Surfaces
  <2>3. \A s : RunWill(s) => RunWill(s)'
    BY <2>1 DEF RunWill
  <2> QED BY <2>1, <2>2, <2>3, StillShown
<1>27. ASSUME SetsAnother PROVE ShownOrComing'
  <2>1. UNCHANGED <<schedule, script, delayed, shows, windows, key, active, sync, spa, game>>
    BY <1>27 DEF SetsAnother, inputs, clock, lights, runs, cab, evening
  <2>2. owed \cap Surfaces \subseteq owed' /\ manual' \cap Legacy = manual \cap Legacy
    BY <1>27, ResolverAssumption DEF SetsAnother, inputs, clock, lights, runs, cab, evening, Surfaces
  <2>3. \A s : RunWill(s) => RunWill(s)'
    BY <2>1 DEF RunWill
  <2> QED BY <2>1, <2>2, <2>3, StillShown
<1>28. ASSUME RecallsScene PROVE ShownOrComing'
  <2>1. /\ UNCHANGED <<schedule, script, delayed, windows, key, active, sync, spa, game>>
        /\ manual' \cap Legacy = manual \cap Legacy
    BY <1>28, ResolverAssumption DEF RecallsScene, runs, clock
  <2>2. owed \cap Surfaces \subseteq owed' /\ \A s \in Surfaces \ owed' : shows'[s] = shows[s]
    BY <1>28 DEF RecallsScene, Typed, LightsOK
  <2>3. \A s : RunWill(s) => RunWill(s)'
    BY <2>1 DEF RunWill
  <2> QED BY <2>1, <2>2, <2>3, StillShown
<1>29. ASSUME NEW x \in Scripts, FailsIn(x) PROVE ShownOrComing'
  <2> SUFFICES ASSUME NEW s \in Surfaces, s \notin owed' PROVE Suits(s)' \/ Coming(s)'
    BY DEF ShownOrComing
  <2>1. /\ ScriptsOK /\ script'[x] = Idle /\ \A y \in Scripts \ {x} : script'[y] = script[y]
        /\ schedule' = IF script[x].by = "schedule" THEN Resting ELSE schedule
    BY <1>29, FailsDo DEF FailsIn, Typed, Machinery
  <2>2. /\ s \notin owed /\ s \notin Ahead(x) /\ (script[x].by = "schedule" => s \notin AheadOfSchedule)
        /\ shows' = shows /\ delayed' = delayed /\ UNCHANGED <<windows, key, active, manual, sync, spa, game>>
    BY <1>29 DEF FailsIn, Fails, lights, inputs
  <2>3. RunWill(s) => RunWill(s)'
    <3> SUFFICES ASSUME RunWill(s) PROVE RunWill(s)'
      OBVIOUS
    <3>1. PICK y \in Scripts : script[y].by # None /\ s \in Reach(y, script[y].at)
      BY DEF RunWill
    <3>2. y # x
      BY <2>2, <3>1, AheadIs
    <3>3. script'[y] = script[y]
      BY <2>1, <3>2
    <3> QED BY <3>1, <3>3 DEF RunWill
  <2>4. Owners'[s] = Owners[s] /\ (Suits(s) \/ Coming(s)) /\ (DelayWill(s) => DelayWill(s)')
    BY <2>2, SameOwner, DelayGrows DEF ShownOrComing
  <2>5. CASE script[x].by # "schedule"
    <3>1. schedule' = schedule
      BY <2>1, <2>5
    <3> QED BY <2>2, <2>3, <2>4, <3>1, StillSuits
  <2>6. CASE script[x].by = "schedule"
    <3>1. ~ScheduleWill(s)
      BY <2>2, <2>6, ScheduleReach DEF Typed, Machinery
    <3> QED BY <2>2, <2>3, <2>4, <3>1 DEF Coming, Suits
  <2> QED BY <2>5, <2>6
<1>30. ASSUME Stops PROVE ShownOrComing'
  <2>1. Surfaces \subseteq owed'
    BY <1>30 DEF Stops, Stop, Everything
  <2> QED BY <2>1 DEF ShownOrComing
<1>31. ASSUME UNCHANGED vars PROVE ShownOrComing'
  <2>1. UNCHANGED <<schedule, script, delayed, shows, windows, key, active, sync, spa, game>>
    BY <1>31 DEF vars, evening, inputs, clock, lights, runs, cab, evening
  <2>2. owed \cap Surfaces \subseteq owed' /\ manual' \cap Legacy = manual \cap Legacy
    BY <1>31, ResolverAssumption DEF vars, evening, inputs, clock, lights, runs, cab, evening, Surfaces
  <2>3. \A s : RunWill(s) => RunWill(s)'
    BY <2>1 DEF RunWill
  <2> QED BY <2>1, <2>2, <2>3, StillShown
<1>32. ASSUME NEW x \in Scripts, Abandon(x), Quiet PROVE ShownOrComing'
  <2> DEFINE stage == Stages[x][script[x].at]
  <2>1. ScriptsOK /\ script[x].by # None
    BY <1>32, RenderIs DEF Abandon, Typed, Machinery
  <2>2. /\ UNCHANGED <<schedule, delayed, shows, windows, key, active, manual, sync, spa, game>>
        /\ owed' = owed \cup {stage} /\ Onward(x)
    BY <1>32 DEF Abandon, inputs
  <2>3. \A s \in Surfaces \ owed' : RunWill(s) => RunWill(s)'
    BY <2>1, <2>2, OnwardDo, OnwardKeeps
  <2> QED BY <2>2, <2>3, StillShown
<1> QED BY <1>1, <1>2, <1>3, <1>4, <1>5, <1>6, <1>7, <1>8, <1>9, <1>10, <1>11, <1>12, <1>13, <1>14,
       <1>15, <1>16, <1>17, <1>18, <1>19, <1>20, <1>21, <1>22, <1>23, <1>24, <1>25, <1>26, <1>27,
       <1>28, <1>29, <1>30, <1>31, <1>32, NextCases

\* Once the house has come to rest, a surface with an automatic owner shows what
\* this owner wants: the evaluators that stop each other's scripts, the daily
\* schedule and the delayed callers lose no command without a trace.
THEOREM OwnersAreShown == Spec => []OwnersShown
<1>1. Init => ShownOrComing
  <2> SUFFICES ASSUME Init, NEW s \in Surfaces PROVE Suits(s)
    BY DEF ShownOrComing
  <2>1. Owners[s] = "off"
    BY OwnersTable DEF Init, Table, Eve, Surfaces
  <2> QED BY <2>1 DEF Init, Suits
<1>2. ShownOrComing => OwnersShown
  <2> SUFFICES ASSUME ShownOrComing, Settled, NEW s \in Surfaces \ owed PROVE Suits(s)
    BY DEF OwnersShown, Suits
  <2>1. \A x \in Scripts : script[x].by = None
    BY IdleBy DEF Settled, Idle
  <2> QED BY <2>1 DEF Settled, Coming, RunWill, DelayWill, ScheduleWill, ShownOrComing
<1> QED BY <1>1, <1>2, TypedInit, TypedNext, ShownNext, PTL DEF Spec

-----------------------------------------------------------------------------
(* An open door *)

LC == "liquor_cabinet"
InQueue(event) == \E i \in DOMAIN queue : queue[i] = event

\* The cabinet's automation waits for its evaluator only before it finishes.
CabinetRuns ==
  \A x \in Scripts : script[x].by = "cabinet" => x = "evaluate" /\ cabinet.todo = <<"done">>

\* A run that gives the light back has not missed a door, and none can be
\* dropped while it does.
RestoresAlone ==
  cabinet.todo = <<"restore", "done">> =>
    /\ doors # {} => InQueue("open")
    /\ ~InQueue("open") => Len(queue) + 1 < MaxQueued

Lighting == cabinet.todo \in {<<"keep", "white">>, <<"white">>}
Lit == Owners[LC] = "door" /\ LC \notin owed =>
         liquor = "white" \/ InQueue("open") \/ Lighting \/ Coming(LC)

LEMMA DoorOwner ==
  /\ (Owners[LC] = "door") <=> ("living" \notin sync /\ doors # {})
  /\ (Owners'[LC] = "door") <=> ("living" \notin sync' /\ doors' # {})
  BY OwnersTable, OwnersTableNext DEF Table, Eve, LC

\* The steps of the house, those of the automation, and breakdowns.
LEMMA Kinds ==
  ASSUME [Next]_vars
  PROVE  \/ Around
         \/ TakesNext \/ Keep \/ White \/ Restore \/ RestoreFails \/ Evaluate \/ Finish
         \/ (\E d \in {"left", "right"} : DoorMoves(d))
         \/ (\E look \in Looks \cup {"off"} : Sets(look))
         \/ SetsAnother \/ RecallsScene
         \/ (\E x \in Scripts : FailsIn(x)) \/ Stops \/ UNCHANGED vars
  BY DEF Next, Cabinet, Breaks, FailsIn, Stops

LEMMA AroundCases ==
  ASSUME Around
  PROVE  \/ (Tick /\ Quiet) \/ (NoSun /\ Quiet) \/ HelpersQuietly
         \/ (\E x \in Scripts : CallsNext(x)) \/ Pillars
         \/ (Spa /\ Quiet) \/ (GameChanges /\ Quiet) \/ (GameMinute /\ Quiet)
         \/ (Released /\ Quiet)
         \/ (\E x \in Scripts : Consider(x) /\ Quiet) \/ (\E x \in Scripts : Render(x) /\ Quiet)
         \/ (\E x \in Scripts : Abandon(x) /\ Quiet)
         \/ (\E area \in {"living", "yard"} : SyncStarts(area) /\ Quiet)
         \/ (\E area \in {"living", "yard"} : SyncStops(area) /\ Quiet)
         \/ (\E s \in Legacy : On(s) /\ Quiet) \/ (\E s \in Legacy : Off(s) /\ Quiet)
         \/ (\E by \in delayed : Due(by) /\ Quiet) \/ (Start /\ Quiet)
  BY DEF Around, Schedule, Commands, Quiet, HelpersQuietly, CallsNext, Pillars

\* A step of the house calls no script for the automation, and touches the
\* light of a closed cabinet that the homeowner holds only to start Sync.
Aside ==
  /\ doors' = doors
  /\ \A x \in Scripts : script'[x].by = "cabinet" => script[x].by = "cabinet"
  /\ doors = {} /\ LC \in manual /\ sync' = sync => liquor' = liquor

LEMMA AroundAside ==
  ASSUME Typed, Around
  PROVE  Aside
<1>1. ASSUME Tick, Quiet PROVE Aside
  <2>1. \A x \in Scripts : script'[x].by = "cabinet" => script[x].by = "cabinet"
    <3>1. CASE up
      <4>1. Trigger[phase'] \in Triggers
        BY <1>1, CallersAre DEF Tick, Typed, InputsOK
      <4> QED BY <1>1, <3>1, <4>1, StartsDo, IdleBy DEF Tick, Typed
    <3>2. CASE ~up
      BY <1>1, <3>2 DEF Tick
    <3> QED BY <3>1, <3>2
  <2> QED BY <1>1, <2>1 DEF Tick, Aside, inputs, lights
<1>2. ASSUME NoSun, Quiet PROVE Aside
  BY <1>2 DEF NoSun, Quiet, Aside, inputs, clock, lights, runs, cab, evening
<1>3. ASSUME HelpersQuietly PROVE Aside
  BY <1>3 DEF HelpersQuietly, Helpers, inputs, lights, Aside
<1>4. ASSUME NEW x \in Scripts, CallsNext(x) PROVE Aside
  <2>1. ScriptsOK /\ Calls(x, "schedule") /\ x \in Scripts /\ "schedule" \in Callers /\ "schedule" # "cabinet"
    BY <1>4, CallersAre DEF CallsNext, Typed, Machinery, LightsOK, Called
  <2>2. \A y \in Scripts : script'[y].by = "cabinet" => script[y].by = "cabinet"
    BY <2>1, CallsDo
  <2> QED BY <1>4, <2>2 DEF CallsNext, Aside, inputs, lights
<1>5. ASSUME Pillars PROVE Aside
  BY <1>5 DEF Pillars, Quiet, Aside, inputs, clock, lights, runs, cab, evening
<1>6. ASSUME Spa, Quiet PROVE Aside
  <2>1. ScriptsOK /\ GivesUp("spa")
    BY <1>6 DEF Spa, Typed, Machinery
  <2>2. \A x \in Scripts : script'[x].by = "cabinet" => script[x].by = "cabinet"
    BY <2>1, GivesUpDo, IdleBy
  <2> QED BY <1>6, <2>2 DEF Spa, Aside, lights
<1>7. ASSUME GameChanges, Quiet PROVE Aside
  BY <1>7 DEF GameChanges, Quiet, Aside, inputs, clock, lights, runs, cab, evening
<1>8. ASSUME GameMinute, Quiet PROVE Aside
  BY <1>8 DEF GameMinute, Quiet, Aside, inputs, clock, lights, runs, cab, evening
<1>9. ASSUME Released, Quiet PROVE Aside
  <2>1. ScriptsOK /\ GivesUp("bridge")
    BY <1>9 DEF Released, Typed, Machinery
  <2>2. \A x \in Scripts : script'[x].by = "cabinet" => script[x].by = "cabinet"
    BY <2>1, GivesUpDo, IdleBy
  <2> QED BY <1>9, <2>2 DEF Released, Aside, lights
<1>10. ASSUME NEW x \in Scripts, Consider(x), Quiet PROVE Aside
  <2>1. \A y \in Scripts : script'[y].by = "cabinet" => script[y].by = "cabinet"
    BY <1>10, ConsiderDo, IdleBy DEF Typed, Machinery
  <2>2. doors = {} => liquor' = liquor
    BY <1>10, DoorOwner DEF Consider, LC
  <2> QED BY <1>10, <2>1, <2>2 DEF Consider, Aside, inputs
<1>11. ASSUME NEW x \in Scripts, Render(x), Quiet PROVE Aside
  <2>1. script[x].by # None /\ Onward(x)
    BY <1>11, RenderIs DEF Render, Typed, Machinery
  <2>2. \A y \in Scripts : script'[y].by = "cabinet" => script[y].by = "cabinet"
    BY <2>1, OnwardDo, IdleBy DEF Typed, Machinery
  <2>3. doors = {} /\ LC \in manual => liquor' = liquor
    BY <1>11 DEF Render, LiquorAfter, lights, LC
  <2> QED BY <1>11, <2>2, <2>3 DEF Render, Aside, inputs
<1>12. ASSUME NEW area \in {"living", "yard"}, SyncStarts(area), Quiet PROVE Aside
  <2>1. ScriptsOK /\ GivesUp(area)
    BY <1>12 DEF SyncStarts, Typed, Machinery
  <2>2. \A x \in Scripts : script'[x].by = "cabinet" => script[x].by = "cabinet"
    BY <2>1, GivesUpDo, IdleBy
  <2> QED BY <1>12, <2>2 DEF SyncStarts, Aside, lights
<1>13. ASSUME NEW area \in {"living", "yard"}, SyncStops(area), Quiet PROVE Aside
  <2> DEFINE called == IF area = "living" THEN "evaluate" ELSE "backyard"
  <2>1. CASE Calls(called, area)
    <3>1. ScriptsOK /\ called \in Scripts /\ area \in Callers /\ area # "cabinet"
      BY CallersAre DEF Typed, Machinery
    <3> HIDE DEF called
    <3>2. \A y \in Scripts : script'[y].by = "cabinet" => script[y].by = "cabinet"
      BY <2>1, <3>1, CallsDo
    <3> QED BY <1>13, <3>2 DEF SyncStops, Aside, lights
  <2>2. CASE UNCHANGED script
    BY <1>13, <2>2 DEF SyncStops, Aside, lights
  <2> QED BY <1>13, <2>1, <2>2 DEF SyncStops
<1>14. ASSUME NEW h \in Legacy, On(h), Quiet PROVE Aside
  BY <1>14 DEF On, Quiet, Aside, inputs, clock, lights, runs, cab, evening
<1>15. ASSUME NEW h \in Legacy, Off(h), Quiet PROVE Aside
  BY <1>15 DEF Off, Quiet, Aside, inputs, clock, lights, runs, cab, evening
<1>16. ASSUME NEW by \in delayed, Due(by), Quiet PROVE Aside
  <2>1. ScriptsOK /\ Calls(Called[by], by) /\ Called[by] \in Scripts /\ by \in Callers /\ by # "cabinet"
    BY <1>16, CallersAre DEF Due, Typed, Machinery, LightsOK, Called
  <2>2. \A y \in Scripts : script'[y].by = "cabinet" => script[y].by = "cabinet"
    BY <2>1, CallsDo
  <2> QED BY <1>16, <2>2 DEF Due, Aside, inputs, lights
<1>17. ASSUME Start, Quiet PROVE Aside
  <2>1. \A x \in Scripts : script'[x].by = "cabinet" => script[x].by = "cabinet"
    BY <1>17, StartsDo, CallersAre, IdleBy DEF Start, Typed
  <2> QED BY <1>17, <2>1 DEF Start, Aside, inputs, lights
<1>18. ASSUME NEW x \in Scripts, Abandon(x), Quiet PROVE Aside
  <2>1. script[x].by # None /\ Onward(x)
    BY <1>18, RenderIs DEF Abandon, Typed, Machinery
  <2>2. \A y \in Scripts : script'[y].by = "cabinet" => script[y].by = "cabinet"
    BY <2>1, OnwardDo, IdleBy DEF Typed, Machinery
  <2>3. doors = {} => liquor' = liquor
    BY <1>18 DEF Abandon, Whitened
  <2> QED BY <1>18, <2>2, <2>3 DEF Abandon, Aside, inputs
<1> QED BY <1>1, <1>2, <1>3, <1>4, <1>5, <1>6, <1>7, <1>8, <1>9, <1>10, <1>11, <1>12, <1>13, <1>14,
       <1>15, <1>16, <1>17, <1>18, AroundCases

LEMMA CabinetRunsNext ==
  ASSUME Typed, CabinetRuns, [Next]_vars
  PROVE  CabinetRuns'
<1>1. ASSUME Around PROVE CabinetRuns'
  BY <1>1, AroundAside DEF Aside, Around, cab, CabinetRuns
<1>2. ASSUME TakesNext PROVE CabinetRuns'
  BY <1>2, WaitingIs DEF TakesNext, CabinetRuns, evening, runs
<1>3. ASSUME Keep PROVE CabinetRuns'
  <2>1. script' = script /\ RunsOf("cabinet") = {}
    BY <1>3 DEF Keep, InCabinet, runs, evening
  <2> QED BY <2>1 DEF RunsOf, CabinetRuns
<1>4. ASSUME White PROVE CabinetRuns'
  <2>1. script' = script /\ RunsOf("cabinet") = {}
    BY <1>4 DEF White, InCabinet, runs, evening
  <2> QED BY <2>1 DEF RunsOf, CabinetRuns
<1>5. ASSUME Restore PROVE CabinetRuns'
  <2>1. script' = script /\ RunsOf("cabinet") = {}
    BY <1>5 DEF Restore, InCabinet, runs, evening
  <2> QED BY <2>1 DEF RunsOf, CabinetRuns
<1>6. ASSUME RestoreFails PROVE CabinetRuns'
  <2>1. script' = script /\ cabinet.todo # <<"done">>
    BY <1>6 DEF RestoreFails, runs
  <2> QED BY <2>1 DEF CabinetRuns
<1>7. ASSUME Evaluate PROVE CabinetRuns'
  <2>1. ScriptsOK /\ Calls("evaluate", "cabinet") /\ RunsOf("cabinet") = {} /\ cabinet'.todo = <<"done">>
    BY <1>7, CabinetTurn DEF Evaluate, InCabinet, Typed, Machinery
  <2>2. \A y \in Scripts \ {"evaluate"} : script'[y] = script[y]
    BY <2>1, CallsDo, CallersAre
  <2> QED BY <2>1, <2>2 DEF CabinetRuns, RunsOf
<1>8. ASSUME Finish PROVE CabinetRuns'
  <2>1. script' = script /\ RunsOf("cabinet") = {}
    BY <1>8 DEF Finish, InCabinet, runs, evening
  <2> QED BY <2>1 DEF RunsOf, CabinetRuns
<1>9. ASSUME NEW d \in {"left", "right"}, DoorMoves(d) PROVE CabinetRuns'
  <2>1. script' = script
    BY <1>9 DEF DoorMoves, runs
  <2>2. CASE AtRest
    BY <2>1, <2>2, WaitingIs DEF CabinetRuns, AtRest
  <2>3. CASE ~AtRest
    <3>1. cabinet' = cabinet
      BY <1>9, <2>3 DEF DoorMoves
    <3> QED BY <2>1, <3>1 DEF CabinetRuns
  <2> QED BY <2>2, <2>3
<1>10. ASSUME NEW look \in Looks \cup {"off"}, Sets(look) PROVE CabinetRuns'
  BY <1>10 DEF Sets, CabinetRuns, inputs, clock, lights, runs, cab, evening
<1>11. ASSUME SetsAnother PROVE CabinetRuns'
  BY <1>11 DEF SetsAnother, CabinetRuns, inputs, clock, lights, runs, cab, evening
<1>12. ASSUME RecallsScene PROVE CabinetRuns'
  BY <1>12 DEF RecallsScene, CabinetRuns, inputs, clock, lights, runs, cab, evening
<1>13. ASSUME NEW x \in Scripts, FailsIn(x) PROVE CabinetRuns'
  <2>1. script'[x] = Idle /\ \A y \in Scripts \ {x} : script'[y] = script[y]
    BY <1>13, FailsDo DEF FailsIn, Typed
  <2>2. cabinet' = IF script[x].by = "cabinet" THEN Waiting ELSE cabinet
    BY <1>13 DEF FailsIn
  <2>3. CASE script[x].by = "cabinet"
    BY <2>1, <2>3, IdleBy DEF CabinetRuns
  <2>4. CASE script[x].by # "cabinet"
    BY <2>1, <2>2, <2>4, IdleBy DEF CabinetRuns
  <2> QED BY <2>3, <2>4
<1>14. ASSUME Stops PROVE CabinetRuns'
  BY <1>14, IdleBy DEF Stops, Stop, CabinetRuns
<1>15. ASSUME UNCHANGED vars PROVE CabinetRuns'
  BY <1>15 DEF vars, evening, CabinetRuns, inputs, clock, lights, runs, cab, evening
<1> QED BY <1>1, <1>2, <1>3, <1>4, <1>5, <1>6, <1>7, <1>8, <1>9, <1>10, <1>11, <1>12, <1>13, <1>14,
       <1>15, Kinds

LEMMA RestoresAloneKept ==
  ASSUME RestoresAlone, cabinet' = cabinet, queue' = queue, doors' = doors
  PROVE  RestoresAlone'
  BY DEF RestoresAlone, InQueue

LEMMA QueueGrows ==
  ASSUME CabinetOK, NEW event \in {"open", "close"}, queue' = Append(queue, event)
  PROVE  /\ InQueue(event)' /\ \A other : InQueue(other) => InQueue(other)'
         /\ Len(queue') = Len(queue) + 1
<1> DEFINE n == Len(queue)
<1>1. queue \in Seq({"open", "close"}) /\ n \in Nat /\ DOMAIN queue = 1 .. n
  BY DEF CabinetOK
<1>2. DOMAIN queue' = 1 .. (n + 1) /\ Len(queue') = n + 1 /\ queue'[n + 1] = event
      /\ \A i \in 1 .. n : queue'[i] = queue[i]
  BY <1>1
<1> HIDE DEF n
<1>3. n + 1 \in 1 .. (n + 1) /\ \A i \in 1 .. n : i \in 1 .. (n + 1)
  BY <1>1
<1> QED BY <1>1, <1>2, <1>3 DEF InQueue, n

LEMMA QueueTurns ==
  ASSUME CabinetOK, queue # <<>>, queue' = Tail(queue)
  PROVE  /\ Head(queue) \in {"open", "close"}
         /\ \A other : InQueue(other) => Head(queue) = other \/ InQueue(other)'
         /\ Len(queue') = Len(queue) - 1 /\ Len(queue) \in Nat /\ Len(queue) >= 1
<1> DEFINE n == Len(queue)
<1>1. queue \in Seq({"open", "close"}) /\ n \in Nat /\ DOMAIN queue = 1 .. n /\ n >= 1
  BY DEF CabinetOK
<1>2. DOMAIN queue' = 1 .. (n - 1) /\ Len(queue') = n - 1 /\ Head(queue) = queue[1]
      /\ \A i \in 1 .. (n - 1) : queue'[i] = queue[i + 1]
  BY <1>1
<1>3. Head(queue) \in {"open", "close"}
  BY <1>1, <1>2
<1> HIDE DEF n
<1>4. ASSUME NEW other, InQueue(other) PROVE Head(queue) = other \/ InQueue(other)'
  <2>1. PICK i \in 1 .. n : queue[i] = other
    BY <1>1, <1>4 DEF InQueue
  <2>2. CASE i = 1
    BY <1>2, <2>1, <2>2
  <2>3. CASE i # 1
    <3>1. i - 1 \in 1 .. (n - 1) /\ (i - 1) + 1 = i
      BY <1>1, <2>3
    <3> QED BY <1>2, <2>1, <3>1 DEF InQueue
  <2> QED BY <2>2, <2>3
<1> QED BY <1>1, <1>2, <1>3, <1>4 DEF n

\* What the next run will be, without its look.
LEMMA RunIs ==
  ASSUME NEW event \in {"open", "close"}, NEW open
  PROVE  /\ event = "open" /\ "living" \notin sync => Run(event, open).todo \in {<<"keep", "white">>, <<"white">>}
         /\ event = "open" /\ "living" \in sync => Run(event, open) = Waiting
         /\ event = "close" /\ (open # {} \/ "living" \in sync) => Run(event, open) = Waiting
         /\ Run(event, open).todo = <<"restore", "done">> => event = "close" /\ open = {}
<1>1. CASE event = "open"
  <2>1. Run(event, open) = Opened
    BY <1>1 DEF Run
  <2> QED BY <1>1, <2>1, OpenedIs, WaitingIs, TodosApart
<1>2. CASE event = "close"
  <2> DEFINE c == Closed(open)
  <2>1. Run(event, open) = c
    BY <1>2 DEF Run
  <2>2. \/ (open # {} \/ "living" \in sync) /\ c = Waiting
        \/ open = {} /\ "living" \notin sync /\ c.todo \in {<<"restore", "done">>, <<"evaluate", "done">>}
    BY ClosedIs
  <2> HIDE DEF c
  <2> QED BY <1>2, <2>1, <2>2, WaitingIs, TodosApart
<1> QED BY <1>1, <1>2

LEMMA RestoresAloneNext ==
  ASSUME Typed, RestoresAlone, [Next]_vars
  PROVE  RestoresAlone'
<1>1. ASSUME Around PROVE RestoresAlone'
  BY <1>1, AroundAside, RestoresAloneKept DEF Aside, Around, cab
<1>2. ASSUME TakesNext PROVE RestoresAlone'
  <2>1. cabinet' = Run(Head(queue), doors) /\ queue' = Tail(queue) /\ queue # <<>> /\ doors' = doors
    BY <1>2 DEF TakesNext, evening, inputs
  <2>2. Head(queue) \in {"open", "close"} /\ Len(queue') = Len(queue) - 1 /\ Len(queue) \in Nat /\ Len(queue) < MaxQueued
    BY <2>1, QueueTurns DEF Typed, CabinetOK
  <2>3. cabinet'.todo = <<"restore", "done">> => doors' = {} /\ Len(queue') + 1 < MaxQueued
    BY <2>1, <2>2, RunIs, CabinetAssumption
  <2> QED BY <2>3 DEF RestoresAlone
<1>3. ASSUME Keep PROVE RestoresAlone'
  <2>1. cabinet'.todo = <<"white">>
    BY <1>3, CabinetTurn DEF Keep, Typed
  <2> QED BY <2>1, TodosApart DEF RestoresAlone
<1>4. ASSUME White PROVE RestoresAlone'
  <2>1. cabinet'.todo = <<>>
    BY <1>4, CabinetTurn, WaitingIs DEF White, Typed
  <2> QED BY <2>1, TodosApart DEF RestoresAlone
<1>5. ASSUME Restore PROVE RestoresAlone'
  <2>1. cabinet'.todo = <<"done">>
    BY <1>5, CabinetTurn DEF Restore, Typed
  <2> QED BY <2>1, TodosApart DEF RestoresAlone
<1>6. ASSUME RestoreFails PROVE RestoresAlone'
  BY <1>6, WaitingIs, TodosApart DEF RestoreFails, RestoresAlone
<1>7. ASSUME Evaluate PROVE RestoresAlone'
  <2>1. cabinet'.todo = <<"done">>
    BY <1>7, CabinetTurn DEF Evaluate, Typed
  <2> QED BY <2>1, TodosApart DEF RestoresAlone
<1>8. ASSUME Finish PROVE RestoresAlone'
  <2>1. cabinet'.todo = <<>>
    BY <1>8, CabinetTurn, WaitingIs DEF Finish, Typed
  <2> QED BY <2>1, TodosApart DEF RestoresAlone
<1>9. ASSUME NEW d \in {"left", "right"}, DoorMoves(d) PROVE RestoresAlone'
  <2> DEFINE event == IF d \in doors THEN "close" ELSE "open"
  <2>1. /\ doors' = IF d \in doors THEN doors \ {d} ELSE doors \cup {d}
        /\ cabinet' = IF up /\ AtRest THEN Run(event, doors') ELSE cabinet
        /\ queue' = IF (up /\ (AtRest \/ Len(queue) + 1 < MaxQueued)) /\ ~AtRest THEN Append(queue, event) ELSE queue
    BY <1>9 DEF DoorMoves
  <2>2. event \in {"open", "close"} /\ (event = "close" => doors # {})
    OBVIOUS
  <2>3. Len(queue) \in Nat
    BY DEF Typed, CabinetOK
  <2> HIDE DEF event
  <2> SUFFICES ASSUME cabinet'.todo = <<"restore", "done">>
               PROVE  (doors' # {} => InQueue("open")') /\ (~InQueue("open")' => Len(queue') + 1 < MaxQueued)
    BY DEF RestoresAlone
  <2>4. CASE up /\ AtRest
    <3>1. queue' = <<>> /\ cabinet' = Run(event, doors')
      BY <2>1, <2>4 DEF AtRest
    <3>2. doors' = {}
      BY <2>2, <3>1, RunIs
    <3>3. Len(queue') = 0
      BY <3>1
    <3> QED BY <3>2, <3>3, CabinetAssumption
  <2>5. CASE ~(up /\ AtRest)
    <3>1. cabinet.todo = <<"restore", "done">> /\ up /\ ~AtRest
      BY <2>1, <2>5, WaitingIs, TodosApart DEF Typed, DownOK
    <3>2. CASE event = "close"
      <4>1. InQueue("open")
        BY <2>2, <3>1, <3>2 DEF RestoresAlone
      <4>2. InQueue("open")'
        <5>1. CASE queue' = queue
          BY <4>1, <5>1 DEF InQueue
        <5>2. CASE queue' = Append(queue, event)
          BY <2>2, <4>1, <5>2, QueueGrows DEF Typed
        <5> QED BY <2>1, <5>1, <5>2
      <4> QED BY <4>2
    <3>3. CASE event = "open"
      <4>1. CASE Len(queue) + 1 < MaxQueued
        <5>1. queue' = Append(queue, event)
          BY <2>1, <3>1, <4>1
        <5> QED BY <2>2, <3>3, <5>1, QueueGrows DEF Typed
      <4>2. CASE ~(Len(queue) + 1 < MaxQueued)
        <5>1. queue' = queue
          BY <2>1, <4>2, <3>1
        <5> QED BY <3>1, <4>2, <5>1 DEF RestoresAlone, InQueue
      <4> QED BY <4>1, <4>2
    <3> QED BY <2>2, <3>2, <3>3
  <2> QED BY <2>4, <2>5
<1>10. ASSUME NEW look \in Looks \cup {"off"}, Sets(look) PROVE RestoresAlone'
  BY <1>10, RestoresAloneKept DEF Sets, inputs, clock, lights, runs, cab, evening
<1>11. ASSUME SetsAnother PROVE RestoresAlone'
  BY <1>11, RestoresAloneKept DEF SetsAnother, inputs, clock, lights, runs, cab, evening
<1>12. ASSUME RecallsScene PROVE RestoresAlone'
  BY <1>12, RestoresAloneKept DEF RecallsScene, inputs, clock, lights, runs, cab, evening
<1>13. ASSUME NEW x \in Scripts, FailsIn(x) PROVE RestoresAlone'
  <2>1. doors' = doors /\ queue' = queue /\ cabinet' \in {cabinet, Waiting}
    BY <1>13 DEF FailsIn, Fails, inputs
  <2>2. CASE cabinet' = cabinet
    BY <2>1, <2>2, RestoresAloneKept
  <2>3. CASE cabinet' = Waiting
    BY <2>3, WaitingIs, TodosApart DEF RestoresAlone
  <2> QED BY <2>1, <2>2, <2>3
<1>14. ASSUME Stops PROVE RestoresAlone'
  BY <1>14, WaitingIs, TodosApart DEF Stops, RestoresAlone
<1>15. ASSUME UNCHANGED vars PROVE RestoresAlone'
  BY <1>15, RestoresAloneKept DEF vars, evening, inputs, clock, lights, runs, cab, evening
<1> QED BY <1>1, <1>2, <1>3, <1>4, <1>5, <1>6, <1>7, <1>8, <1>9, <1>10, <1>11, <1>12, <1>13, <1>14,
       <1>15, Kinds

LEMMA StillLit ==
  ASSUME Lit, LC \notin owed' => LC \notin owed, "living" \notin sync' => "living" \notin sync,
         doors' = doors, liquor' = liquor, cabinet' = cabinet, queue' = queue,
         LC \notin owed' /\ Coming(LC) => Coming(LC)'
  PROVE  Lit'
  BY DoorOwner DEF Lit, InQueue, Lighting

LEMMA ComingStays ==
  ASSUME NEW s, schedule' = schedule, DelayWill(s) => DelayWill(s)', RunWill(s) => RunWill(s)'
  PROVE  Coming(s) => Coming(s)'
  BY DEF Coming, ScheduleWill, Left

LEMMA ComingUnmoved ==
  ASSUME UNCHANGED <<schedule, script, delayed>>
  PROVE  \A s : Coming(s) => Coming(s)'
  BY DEF Coming, ScheduleWill, DelayWill, RunWill, Left

LEMMA CabinetReach == LC \in Reach("evaluate", 1) /\ LC \notin Reach("path", 1) /\ LC \notin Reach("backyard", 1)
  BY ReachIs DEF LC

LEMMA CabinetAhead ==
  ASSUME Track(schedule), ScheduleWill(LC)
  PROVE  LC \in AheadOfSchedule
<1>1. ScheduleWill("main_area")
  BY DEF ScheduleWill, LC
<1> DEFINE n == Left  todo == schedule.todo  steps == Program[schedule.of]  l == Length(schedule.of)
<1>2. schedule.of \in Triggers /\ n \in 1 .. l /\ n >= 4
  BY TrackIs DEF ScheduleWill, LC
<1>3. Len(steps) = l /\ l \in {5, 7, 8, 15} /\ steps[l - 3] = "evaluate"
  BY <1>2, Lengths, EndsAlike DEF Length
<1>4. todo \in Seq(Steps) /\ \A j \in 1 .. Len(todo) : todo[j] = steps[Len(steps) - Len(todo) + j]
  BY <1>2 DEF Track, ScheduleWill
<1>5. n = Len(todo)
  BY DEF Left
<1>6. n - 3 \in DOMAIN todo /\ todo[n - 3] = "evaluate"
  <2> HIDE DEF n, todo, steps, l
  <2>1. n \in Nat /\ l \in Nat /\ l - n + (n - 3) = l - 3
    BY <1>2, <1>3
  <2>2. DOMAIN todo = 1 .. n
    BY <1>4, <1>5
  <2> QED BY <1>2, <1>3, <1>4, <1>5, <2>1, <2>2
<1>7. PICK i \in DOMAIN schedule.todo : schedule.todo[i] = "evaluate"
  BY <1>6
<1>8. 3 \in DOMAIN Stages["evaluate"]
  BY DEF Stages
<1>9. LC \in {Stages[schedule.todo[i]][j] : j \in DOMAIN Stages[schedule.todo[i]]} /\ schedule.todo[i] \in Scripts
  BY <1>7, <1>8, StagesAre DEF Scripts, LC
<1> QED BY <1>9 DEF AheadOfSchedule

LEMMA LitNext ==
  ASSUME Typed, CabinetRuns, RestoresAlone, Lit, [Next]_vars
  PROVE  Lit'
<1>1. ASSUME Tick, Quiet PROVE Lit'
  <2>1. CASE up
    <3>1. Trigger[phase'] \in {"holiday", "main_area", "sunset", "boundary"}
      BY <1>1 DEF Tick, Typed, InputsOK, Trigger, After
    <3>2. Starts(Trigger[phase']) /\ Trigger[phase'] \in Triggers
      BY <1>1, <2>1, <3>1 DEF Tick, Triggers
    <3>3. schedule' # Resting /\ Len(schedule'.todo) = Length(Trigger[phase'])
      BY <3>2, StartsDo DEF Typed
    <3>4. Left' \in {5, 7, 8}
      BY <3>1, <3>3 DEF Length, Left
    <3> QED BY <3>3, <3>4 DEF ScheduleWill, Coming, Lit
  <2>2. CASE ~up
    BY <1>1, <2>2 DEF Tick, Typed, DownOK, Everything, Lit, LC
  <2> QED BY <2>1, <2>2
<1>2. ASSUME NoSun, Quiet PROVE Lit'
  <2>1. Left = 15
    BY <1>2, DoingIs DEF NoSun, Typed, Machinery, Position, At
  <2>2. ~ScheduleWill(LC)
    BY <2>1 DEF ScheduleWill
  <2>3. delayed' = delayed /\ script' = script
    BY <1>2 DEF NoSun
  <2>9. Coming(LC) => Coming(LC)'
    BY <2>2, <2>3 DEF Coming, RunWill, DelayWill
  <2> QED BY <1>2, <2>9, StillLit DEF NoSun, Quiet, inputs, clock, lights, runs, cab, evening, LC
<1>3. ASSUME HelpersQuietly PROVE Lit'
  <2>1. PICK step : GoesOn(step)
    BY <1>3, HelpersDo DEF Typed, Machinery, InputsOK, HelpersQuietly
  <2>2. schedule' # Resting /\ Left' \in 4 .. 14
    BY <2>1 DEF GoesOn, Left
  <2> QED BY <2>2 DEF ScheduleWill, Coming, Lit
<1>4. ASSUME NEW x \in Scripts, CallsNext(x) PROVE Lit'
  <2>1. Position(schedule.of, Left, x) /\ schedule # Resting
        /\ (Left # 1 => schedule' # Resting /\ Left' = Left - 1)
    BY <1>4, DoingIs DEF CallsNext, Done, Typed, Machinery, Left
  <2>2. ScriptsOK /\ Calls(x, "schedule") /\ "schedule" \in Callers
    BY <1>4, CallersAre DEF CallsNext, Typed, Machinery
  <2>3. (LC \in Reach(x, 1) => RunWill(LC)') /\ (RunWill(LC) => RunWill(LC)')
    BY <2>2, CallsKeeps
  <2>4. ScheduleWill(LC) => ScheduleWill(LC)' \/ LC \in Reach(x, 1)
    <3>1. CASE Left \in 5 .. 15
      <4>1. Left' \in 4 .. 14
        BY <2>1, <3>1
      <4> QED BY <2>1, <3>1, <4>1 DEF ScheduleWill
    <3>2. CASE Left = 4
      BY <2>1, <3>2, CabinetReach DEF Position, At, Scripts
    <3>3. CASE Left \in 1 .. 3
      BY <3>3 DEF ScheduleWill, LC
    <3> QED BY <2>1, <3>1, <3>2, <3>3 DEF Position
  <2>5. delayed' = delayed
    BY <1>4 DEF CallsNext
  <2>9. Coming(LC) => Coming(LC)'
    BY <2>3, <2>4, <2>5 DEF Coming, DelayWill
  <2> QED BY <1>4, <2>9, StillLit DEF CallsNext, Quiet, inputs, clock, lights, runs, cab, evening, LC
<1>5. ASSUME Pillars PROVE Lit'
  <2>1. Left = 3
    BY <1>5, DoingIs DEF Pillars, Typed, Machinery, Position
  <2>2. ~ScheduleWill(LC)
    BY <2>1 DEF ScheduleWill, LC
  <2>3. delayed' = delayed /\ script' = script
    BY <1>5 DEF Pillars
  <2>9. Coming(LC) => Coming(LC)'
    BY <2>2, <2>3 DEF Coming, RunWill, DelayWill
  <2> QED BY <1>5, <2>9, StillLit DEF Pillars, Quiet, inputs, clock, lights, runs, cab, evening, LC
<1>6. ASSUME Spa, Quiet PROVE Lit'
  <2>1. ScriptsOK /\ GivesUp("spa") /\ (LC \notin owed' => LC \notin AheadOf("spa") /\ LC \notin owed)
    BY <1>6 DEF Spa, GivesUp, Typed, Machinery
  <2>2. LC \notin owed' => (RunWill(LC) => RunWill(LC)')
    BY <2>1, GivesUpKeeps
  <2>3. DelayWill(LC) => DelayWill(LC)'
    BY <1>6, CabinetReach DEF Spa, DelayWill, Called
  <2>9. LC \notin owed' /\ Coming(LC) => Coming(LC)'
    BY <1>6, <2>2, <2>3, ComingStays DEF Spa
  <2> QED BY <1>6, <2>9, StillLit DEF Spa, GivesUp, Quiet, inputs, clock, lights, runs, cab, evening, LC
<1>7. ASSUME GameChanges, Quiet PROVE Lit'
  <2>1. delayed \subseteq delayed' /\ script' = script /\ schedule' = schedule
    BY <1>7 DEF GameChanges, runs
  <2>9. Coming(LC) => Coming(LC)'
    BY <2>1, ComingStays DEF DelayWill, RunWill
  <2>2. LC \notin owed' => LC \notin owed
    BY <1>7 DEF GameChanges, LC
  <2> QED BY <1>7, <2>2, <2>9, StillLit DEF GameChanges, Quiet, cab, lights
<1>8. ASSUME GameMinute, Quiet PROVE Lit'
  <2>1. delayed \subseteq delayed' /\ script' = script /\ schedule' = schedule
    BY <1>8 DEF GameMinute, runs
  <2>9. Coming(LC) => Coming(LC)'
    BY <2>1, ComingStays DEF DelayWill, RunWill
  <2> QED BY <1>8, <2>9, StillLit DEF GameMinute, Quiet, inputs, clock, lights, runs, cab, evening, LC
<1>9. ASSUME Released, Quiet PROVE Lit'
  <2>1. ScriptsOK /\ GivesUp("bridge") /\ (LC \notin owed' => LC \notin AheadOf("bridge") /\ LC \notin owed)
    BY <1>9 DEF Released, GivesUp, Typed, Machinery
  <2>2. LC \notin owed' => (RunWill(LC) => RunWill(LC)')
    BY <2>1, GivesUpKeeps
  <2>3. DelayWill(LC) => DelayWill(LC)'
    BY <1>9, DelayGrows DEF Released, DelayWill
  <2>9. LC \notin owed' /\ Coming(LC) => Coming(LC)'
    BY <1>9, <2>2, <2>3, ComingStays DEF Released
  <2> QED BY <1>9, <2>9, StillLit DEF Released, GivesUp, Quiet, inputs, clock, lights, runs, cab, evening, LC
<1>10. ASSUME NEW x \in Scripts, Consider(x), Quiet PROVE Lit'
  <2> DEFINE stage == Stages[x][script[x].at]
  <2>1. ScriptsOK /\ schedule' = schedule /\ delayed' = delayed /\ sync' = sync /\ doors' = doors
    BY <1>10 DEF Consider, Typed, Machinery, inputs
  <2>2. CASE stage = LC
    <3>1. liquor' = IF Owners[LC] = "door" THEN Whitened ELSE liquor
      BY <1>10, <2>2 DEF Consider, LC
    <3> QED BY <2>1, <3>1, DoorOwner DEF Lit, Whitened
  <2>3. CASE stage # LC
    <3>1. RunWill(LC) => RunWill(LC)'
      BY <1>10, <2>1, <2>3, ConsiderDo, OnwardKeeps
    <3>2. Coming(LC) => Coming(LC)'
      BY <2>1, <3>1, ComingStays, DelayGrows
    <3>3. liquor' = liquor /\ owed' = owed
      BY <1>10, <2>3 DEF Consider, LC
    <3> QED BY <1>10, <2>1, <3>2, <3>3, StillLit DEF Quiet, cab
  <2> QED BY <2>2, <2>3
<1>11. ASSUME NEW x \in Scripts, Render(x), Quiet PROVE Lit'
  <2> DEFINE stage == Stages[x][script[x].at]
  <2>1. /\ ScriptsOK /\ script[x].by # None /\ schedule' = schedule /\ delayed' = delayed /\ sync' = sync /\ doors' = doors
        /\ LC # stage
    BY <1>11, RenderIs DEF Render, Typed, Machinery, inputs, LC, Surfaces
  <2>2. RunWill(LC) => RunWill(LC)'
    BY <1>11, <2>1, OnwardDo, OnwardKeeps DEF Render
  <2>3. Coming(LC) => Coming(LC)'
    BY <2>1, <2>2, ComingStays, DelayGrows
  <2>4. LC \notin owed' => LC \notin owed
    BY <1>11, <2>1 DEF Render
  <2>5. "living" \notin sync /\ doors # {} => liquor' \in {liquor, "white"}
    BY <1>11 DEF Render, LiquorAfter, Whitened, lights
  <2> QED BY <1>11, <2>1, <2>3, <2>4, <2>5, DoorOwner DEF Lit, Quiet, cab, InQueue, Lighting
<1>12. ASSUME NEW area \in {"living", "yard"}, SyncStarts(area), Quiet PROVE Lit'
  <2>1. ScriptsOK /\ GivesUp(area) /\ (LC \notin owed' => LC \notin AheadOf(area) /\ LC \notin owed)
    BY <1>12 DEF SyncStarts, GivesUp, Typed, Machinery
  <2>2. LC \notin owed' => (RunWill(LC) => RunWill(LC)')
    BY <2>1, GivesUpKeeps
  <2>3. DelayWill(LC) => DelayWill(LC)'
    BY <1>12, DelayGrows DEF SyncStarts, DelayWill
  <2>9. LC \notin owed' /\ Coming(LC) => Coming(LC)'
    BY <1>12, <2>2, <2>3, ComingStays DEF SyncStarts
  <2>4. CASE area = "living"
    BY <1>12, <2>4, DoorOwner DEF SyncStarts, Lit
  <2>5. CASE area = "yard"
    BY <1>12, <2>1, <2>5, <2>9, StillLit DEF SyncStarts, Quiet, cab
  <2> QED BY <2>4, <2>5
<1>13. ASSUME NEW area \in {"living", "yard"}, SyncStops(area), Quiet PROVE Lit'
  <2>1. /\ owed' = owed /\ schedule' = schedule /\ delayed' = delayed
    BY <1>13 DEF SyncStops
  <2>2. CASE area = "living" /\ Calls("evaluate", area)
    <3>1. ScriptsOK /\ "evaluate" \in Scripts /\ area \in Callers
      BY CallersAre DEF Typed, Machinery
    <3>2. RunWill(LC)'
      BY <2>2, <3>1, CallsKeeps, CabinetReach
    <3> QED BY <3>2 DEF Lit, Coming
  <2>3. CASE area = "yard" /\ Calls("backyard", area)
    <3>1. ScriptsOK /\ "backyard" \in Scripts /\ area \in Callers
      BY CallersAre DEF Typed, Machinery
    <3>2. RunWill(LC) => RunWill(LC)'
      BY <2>3, <3>1, CallsKeeps
    <3>3. Coming(LC) => Coming(LC)'
      BY <2>1, <3>2, ComingStays, DelayGrows
    <3> QED BY <1>13, <2>3, <3>3, StillLit DEF SyncStops, Quiet, cab, lights
  <2>4. CASE ~up
    BY <2>1, <2>4 DEF Typed, DownOK, Everything, Lit, LC
  <2>5. CASE area = "yard" /\ UNCHANGED script
    <3>1. Coming(LC) => Coming(LC)'
      BY <2>1, <2>5, ComingUnmoved
    <3> QED BY <1>13, <2>5, <3>1, StillLit DEF SyncStops, Quiet, cab, lights
  <2> QED BY <1>13, <2>2, <2>3, <2>4, <2>5 DEF SyncStops
<1>14. ASSUME NEW h \in Legacy, On(h), Quiet PROVE Lit'
  <2>9. Coming(LC) => Coming(LC)'
    BY <1>14, ComingUnmoved DEF On, runs
  <2> QED BY <1>14, <2>9, StillLit DEF On, Quiet, cab
<1>15. ASSUME NEW h \in Legacy, Off(h), Quiet PROVE Lit'
  <2>1. delayed \subseteq delayed' /\ script' = script /\ schedule' = schedule
    BY <1>15 DEF Off, runs
  <2>9. Coming(LC) => Coming(LC)'
    BY <2>1, ComingStays DEF DelayWill, RunWill
  <2> QED BY <1>15, <2>9, StillLit DEF Off, Quiet, inputs, clock, lights, runs, cab, evening, LC
<1>16. ASSUME NEW by \in delayed, Due(by), Quiet PROVE Lit'
  <2>2. ScriptsOK /\ Called[by] \in Scripts /\ by \in Callers /\ Calls(Called[by], by)
    BY <1>16, CallersAre DEF Due, Typed, Machinery, LightsOK
  <2>3. (LC \in Reach(Called[by], 1) => RunWill(LC)') /\ (RunWill(LC) => RunWill(LC)')
    BY <2>2, CallsKeeps
  <2>4. delayed' = delayed \ {by} /\ schedule' = schedule
    BY <1>16 DEF Due
  <2>5. DelayWill(LC) => DelayWill(LC)' \/ LC \in Reach(Called[by], 1)
    BY <2>4 DEF DelayWill
  <2>9. Coming(LC) => Coming(LC)'
    BY <2>3, <2>4, <2>5 DEF Coming, ScheduleWill, Left
  <2> QED BY <1>16, <2>9, StillLit DEF Due, Quiet, inputs, clock, lights, runs, cab, evening, LC
<1>17. ASSUME Start, Quiet PROVE Lit'
  BY <1>17 DEF Start, Typed, DownOK, Everything, Lit, LC
<1>18. ASSUME TakesNext PROVE Lit'
  <2>1. /\ cabinet' = Run(Head(queue), doors) /\ queue' = Tail(queue) /\ queue # <<>> /\ UNCHANGED evening
        /\ cabinet = Waiting
    BY <1>18 DEF TakesNext
  <2>2. Head(queue) \in {"open", "close"} /\ (InQueue("open") => Head(queue) = "open" \/ InQueue("open")')
    BY <2>1, QueueTurns DEF Typed
  <2>3. Coming(LC) => Coming(LC)'
    BY <2>1, ComingUnmoved DEF evening, runs
  <2>4. "living" \notin sync /\ Head(queue) = "open" => Lighting'
    BY <2>1, <2>2, RunIs DEF Lighting
  <2>5. ~Lighting
    BY <2>1, WaitingIs, TodosApart DEF Lighting
  <2> QED BY <2>1, <2>2, <2>3, <2>4, <2>5, DoorOwner DEF Lit, evening, inputs, lights
<1>19. ASSUME Keep PROVE Lit'
  <2>1. cabinet'.todo = <<"white">>
    BY <1>19, CabinetTurn DEF Keep, Typed
  <2> QED BY <2>1 DEF Lit, Lighting
<1>20. ASSUME White PROVE Lit'
  <2>1. liquor' = Whitened /\ sync' = sync /\ doors' = doors
    BY <1>20 DEF White, inputs
  <2> QED BY <2>1, DoorOwner DEF Lit, Whitened
<1>21. ASSUME Restore PROVE Lit'
  <2>1. cabinet.todo = <<"restore", "done">> /\ queue' = queue /\ doors' = doors
    BY <1>21, CabinetTurn DEF Restore, Typed, inputs
  <2>2. doors # {} => InQueue("open")'
    BY <2>1 DEF RestoresAlone, InQueue
  <2> QED BY <2>1, <2>2, DoorOwner DEF Lit
<1>22. ASSUME RestoreFails PROVE Lit'
  BY <1>22 DEF RestoreFails, Lit, LC
<1>23. ASSUME Evaluate PROVE Lit'
  <2>1. ScriptsOK /\ Calls("evaluate", "cabinet") /\ "evaluate" \in Scripts /\ "cabinet" \in Callers
    BY <1>23, CallersAre DEF Evaluate, Typed, Machinery
  <2>2. RunWill(LC)'
    BY <2>1, CallsKeeps, CabinetReach
  <2> QED BY <2>2 DEF Lit, Coming
<1>24. ASSUME Finish PROVE Lit'
  <2>1. cabinet.todo = <<"done">> /\ queue' = queue /\ UNCHANGED evening
    BY <1>24, CabinetTurn DEF Finish, Typed
  <2>2. ~Lighting
    BY <2>1, TodosApart DEF Lighting
  <2>3. Coming(LC) => Coming(LC)'
    BY <2>1, ComingUnmoved DEF evening, runs
  <2> QED BY <2>1, <2>2, <2>3, DoorOwner DEF Lit, evening, inputs, lights, InQueue
<1>25. ASSUME NEW d \in {"left", "right"}, DoorMoves(d) PROVE Lit'
  <2> DEFINE event == IF d \in doors THEN "close" ELSE "open"
  <2> DEFINE heard == up /\ (AtRest \/ Len(queue) + 1 < MaxQueued)
  <2>1. /\ doors' = IF d \in doors THEN doors \ {d} ELSE doors \cup {d}
        /\ cabinet' = IF up /\ AtRest THEN Run(event, doors') ELSE cabinet
        /\ queue' = IF heard /\ ~AtRest THEN Append(queue, event) ELSE queue
        /\ owed' = IF heard THEN owed ELSE owed \cup {LC}
        /\ sync' = sync /\ liquor' = liquor
    BY <1>25 DEF DoorMoves, lights, LC
  <2>2. event \in {"open", "close"} /\ (event = "close" => doors # {})
    OBVIOUS
  <2>3. Coming(LC) => Coming(LC)'
    BY <1>25, ComingUnmoved DEF DoorMoves, runs
  <2> HIDE DEF event
  <2> SUFFICES ASSUME "living" \notin sync, doors' # {}, heard, LC \notin owed, liquor # "white"
               PROVE  InQueue("open")' \/ Lighting' \/ Coming(LC)'
    BY <2>1, DoorOwner DEF Lit
  <2>4. event = "close" => InQueue("open") \/ Lighting \/ Coming(LC)
    BY <2>2, DoorOwner DEF Lit
  <2>5. CASE AtRest
    <3>1. cabinet' = Run(event, doors')
      BY <2>1, <2>5
    <3>2. event = "open" => Lighting'
      BY <3>1, RunIs DEF Lighting
    <3>3. ~InQueue("open") /\ ~Lighting
      BY <2>5, WaitingIs, TodosApart DEF AtRest, InQueue, Lighting
    <3> QED BY <2>2, <2>3, <2>4, <3>2, <3>3
  <2>6. CASE ~AtRest
    <3>1. cabinet' = cabinet /\ queue' = Append(queue, event)
      BY <2>1, <2>6
    <3>2. (event = "open" => InQueue("open")') /\ (InQueue("open") => InQueue("open")')
      BY <2>2, <3>1, QueueGrows DEF Typed
    <3> QED BY <2>2, <2>3, <2>4, <3>1, <3>2 DEF Lighting
  <2> QED BY <2>5, <2>6
<1>26. ASSUME NEW look \in Looks \cup {"off"}, Sets(look) PROVE Lit'
  BY <1>26 DEF Sets, Lit, LC
<1>27. ASSUME SetsAnother PROVE Lit'
  BY <1>27, ComingUnmoved, StillLit DEF SetsAnother, Quiet, inputs, clock, lights, runs, cab, evening, LC
<1>28. ASSUME RecallsScene PROVE Lit'
  BY <1>28 DEF RecallsScene, Lit, LC
<1>29. ASSUME NEW x \in Scripts, FailsIn(x) PROVE Lit'
  <2>1. /\ ScriptsOK /\ script'[x] = Idle /\ \A y \in Scripts \ {x} : script'[y] = script[y]
        /\ schedule' = IF script[x].by = "schedule" THEN Resting ELSE schedule
    BY <1>29, FailsDo DEF FailsIn, Typed, Machinery
  <2>2. /\ LC \notin owed' => /\ LC \notin owed /\ LC \notin Ahead(x)
                              /\ script[x].by = "schedule" => LC \notin AheadOfSchedule
        /\ liquor' = liquor /\ delayed' = delayed /\ sync' = sync /\ doors' = doors /\ queue' = queue
        /\ cabinet' = IF script[x].by = "cabinet" THEN Waiting ELSE cabinet
    BY <1>29 DEF FailsIn, Fails, lights, inputs
  <2>3. LC \notin owed' => (RunWill(LC) => RunWill(LC)')
    <3> SUFFICES ASSUME LC \notin owed', RunWill(LC) PROVE RunWill(LC)'
      OBVIOUS
    <3>1. PICK y \in Scripts : script[y].by # None /\ LC \in Reach(y, script[y].at)
      BY DEF RunWill
    <3>2. y # x
      BY <2>2, <3>1, AheadIs
    <3>3. script'[y] = script[y]
      BY <2>1, <3>2
    <3> QED BY <3>1, <3>3 DEF RunWill
  <2>4. LC \notin owed' => (ScheduleWill(LC) => ScheduleWill(LC)')
    <3>1. CASE script[x].by # "schedule"
      BY <2>1, <3>1 DEF ScheduleWill, Left
    <3>2. CASE script[x].by = "schedule"
      BY <2>2, <3>2, CabinetAhead DEF Typed, Machinery
    <3> QED BY <3>1, <3>2
  <2>5. LC \notin owed' => (Coming(LC) => Coming(LC)')
    BY <2>2, <2>3, <2>4 DEF Coming, DelayWill
  <2>6. Lighting => Lighting'
    BY <2>2, TodosApart DEF CabinetRuns, Lighting
  <2> QED BY <2>2, <2>5, <2>6, DoorOwner DEF Lit, InQueue
<1>30. ASSUME Stops PROVE Lit'
  BY <1>30 DEF Stops, Stop, Everything, Lit, LC
<1>31. ASSUME UNCHANGED vars PROVE Lit'
  BY <1>31, ComingUnmoved, StillLit DEF vars, evening, Quiet, inputs, clock, lights, runs, cab, evening, LC
<1>32. ASSUME NEW x \in Scripts, Abandon(x), Quiet PROVE Lit'
  <2> DEFINE stage == Stages[x][script[x].at]
  <2>1. /\ ScriptsOK /\ script[x].by # None /\ schedule' = schedule /\ delayed' = delayed /\ sync' = sync /\ doors' = doors
        /\ LC # stage
    BY <1>32, RenderIs DEF Abandon, Typed, Machinery, inputs, LC, Surfaces
  <2>2. RunWill(LC) => RunWill(LC)'
    BY <1>32, <2>1, OnwardDo, OnwardKeeps DEF Abandon
  <2>3. Coming(LC) => Coming(LC)'
    BY <2>1, <2>2, ComingStays, DelayGrows
  <2>4. LC \notin owed' => LC \notin owed
    BY <1>32, <2>1 DEF Abandon
  <2>5. liquor' \in {liquor, "white"}
    BY <1>32 DEF Abandon, Whitened
  <2> QED BY <1>32, <2>1, <2>3, <2>4, <2>5, DoorOwner DEF Lit, Quiet, cab, InQueue, Lighting
<1> QED BY <1>1, <1>2, <1>3, <1>4, <1>5, <1>6, <1>7, <1>8, <1>9, <1>10, <1>11, <1>12, <1>13, <1>14,
       <1>15, <1>16, <1>17, <1>18, <1>19, <1>20, <1>21, <1>22, <1>23, <1>24, <1>25, <1>26, <1>27,
       <1>28, <1>29, <1>30, <1>31, <1>32, NextCases

\* An open door has the cabinet lit, also when it was opened during Sync, while
\* Home Assistant was down, or while a command for the area was under way.
THEOREM OpenDoorsAreLit == Spec => []OpenDoorIsLit
<1>1. Init => CabinetRuns /\ RestoresAlone /\ Lit
  <2> SUFFICES ASSUME Init PROVE CabinetRuns /\ RestoresAlone /\ Lit
    OBVIOUS
  <2>1. CabinetRuns
    BY IdleBy DEF Init, CabinetRuns
  <2>2. RestoresAlone
    BY WaitingIs, TodosApart DEF Init, RestoresAlone
  <2>3. Lit
    BY DoorOwner DEF Init, Lit
  <2> QED BY <2>1, <2>2, <2>3
<1>2. Lit => OpenDoorIsLit
  <2> SUFFICES ASSUME Lit, Settled PROVE ~InQueue("open") /\ ~Lighting /\ ~Coming(LC)
    BY DEF OpenDoorIsLit, Lit, LC
  <2>1. \A x \in Scripts : script[x].by = None
    BY IdleBy DEF Settled, Idle
  <2>2. ~Coming(LC)
    BY <2>1 DEF Settled, Coming, RunWill, DelayWill, ScheduleWill
  <2>3. ~InQueue("open") /\ ~Lighting
    BY WaitingIs, TodosApart DEF Settled, AtRest, InQueue, Lighting
  <2> QED BY <2>2, <2>3
<1> QED BY <1>1, <1>2, TypedInit, TypedNext, CabinetRunsNext, RestoresAloneNext, LitNext, PTL DEF Spec

-----------------------------------------------------------------------------
(* A visit *)

\* An open door has an event that the automation has not taken.
Unseen == doors # {} => InQueue("open")
\* The look of the visit is in the snapshot, or on the light.
Held == valid /\ Restored = visit
Intact == ~valid /\ liquor = visit /\ Unseen

\* Where the look is, by what the automation still has to do.
VisitKept ==
  visit # None =>
    /\ {"main_area", LC} \subseteq manual /\ "living" \notin sync
    /\ recall => visit = "scene"
    /\ queue # <<>> /\ doors = {} => queue[Len(queue)] = "close"
    /\ Lighting => (doors = {} => queue # <<>>)
    /\ cabinet.todo = <<"keep", "white">> => ~valid /\ cabinet.look = visit
    /\ cabinet.todo = <<"white">> => Held
    /\ cabinet.todo = <<"restore", "done">> => Held /\ Unseen
    /\ cabinet.todo = <<"evaluate", "done">> => Intact
    /\ cabinet.todo = <<"done">> => liquor = visit /\ Unseen /\ (valid => RunsOf("cabinet") = {})
    /\ cabinet.todo = <<>> => (Held /\ (doors # {} \/ queue # <<>>)) \/ Intact

LEMMA LastStays ==
  ASSUME CabinetOK, queue # <<>>, queue' = Tail(queue), queue' # <<>>
  PROVE  queue'[Len(queue')] = queue[Len(queue)]
<1> DEFINE n == Len(queue)
<1>1. queue \in Seq({"open", "close"}) /\ n \in Nat /\ n >= 1
  BY DEF CabinetOK
<1>2. Len(queue') = n - 1 /\ n # 1 /\ \A i \in 1 .. (n - 1) : queue'[i] = queue[i + 1]
  BY <1>1
<1> HIDE DEF n
<1>3. n - 1 \in 1 .. (n - 1) /\ (n - 1) + 1 = n
  BY <1>1, <1>2
<1> QED BY <1>2, <1>3 DEF n

LEMMA LastAppended ==
  ASSUME CabinetOK, NEW event \in {"open", "close"}, queue' = Append(queue, event)
  PROVE  queue' # <<>> /\ queue'[Len(queue')] = event
<1>1. queue \in Seq({"open", "close"}) /\ Len(queue) \in Nat
  BY DEF CabinetOK
<1>2. Len(queue') = Len(queue) + 1 /\ queue'[Len(queue) + 1] = event
  BY <1>1
<1> QED BY <1>1, <1>2

\* What the automation begins, for a homeowner's look with the area Manual.
LEMMA Begins ==
  ASSUME NEW event \in {"open", "close"}, NEW open, "main_area" \in manual, "living" \notin sync, valid \in BOOLEAN
  PROVE  LET run == Run(event, open) IN
         /\ event = "open" /\ valid => run.todo = <<"white">>
         /\ event = "open" /\ ~valid => run.todo = <<"keep", "white">> /\ run.look = liquor
         /\ event = "close" /\ open # {} => run = Waiting
         /\ event = "close" /\ open = {} /\ valid => run.todo = <<"restore", "done">>
         /\ event = "close" /\ open = {} /\ ~valid => run.todo = <<"evaluate", "done">>
<1>1. CASE event = "open"
  <2>1. Run(event, open) = Opened
    BY <1>1 DEF Run
  <2>2. Captures <=> ~valid
    BY DEF Captures
  <2> QED BY <1>1, <2>1, <2>2, OpenedIs
<1>2. CASE event = "close"
  <2> DEFINE c == Closed(open)
  <2>1. Run(event, open) = c
    BY <1>2 DEF Run
  <2>2. \/ open # {} /\ c = Waiting
        \/ open = {} /\ valid /\ c.todo = <<"restore", "done">>
        \/ open = {} /\ ~valid /\ c.todo = <<"evaluate", "done">>
    BY ClosedIs
  <2> HIDE DEF c
  <2> QED BY <1>2, <2>1, <2>2
<1> QED BY <1>1, <1>2

LEMMA VisitNext ==
  ASSUME Typed, CabinetRuns, VisitKept, [Next]_vars
  PROVE  VisitKept'
<1>1. ASSUME Around PROVE VisitKept'
  <2> SUFFICES ASSUME visit' # None PROVE VisitKept'
    BY DEF VisitKept
  <2>1. /\ visit' = visit /\ manual' = manual /\ recall' = recall /\ sync' = sync
        /\ queue = <<>> \/ liquor' = liquor
        /\ cabinet' = cabinet /\ queue' = queue /\ valid' = valid /\ snapshot' = snapshot
    BY <1>1 DEF Around, Undisturbed, cab
  <2>2. /\ {"main_area", LC} \subseteq manual /\ "living" \notin sync
    BY <2>1 DEF VisitKept
  <2>3. doors' = doors /\ (RunsOf("cabinet") = {} => RunsOf("cabinet")' = {}) /\ (doors = {} => liquor' = liquor)
    BY <1>1, <2>1, <2>2, AroundAside DEF Aside, RunsOf
  <2>4. Unseen => liquor' = liquor
    BY <2>1, <2>3 DEF Unseen, InQueue
  <2>5. (Unseen => Unseen') /\ (Held => Held') /\ (Intact => Intact') /\ (Lighting' => Lighting)
    BY <2>1, <2>3, <2>4 DEF Unseen, Held, Intact, Restored, InQueue, Lighting
  <2> QED BY <2>1, <2>2, <2>3, <2>4, <2>5 DEF VisitKept
<1>2. ASSUME TakesNext PROVE VisitKept'
  <2> SUFFICES ASSUME visit' # None PROVE VisitKept'
    BY DEF VisitKept
  <2>1. /\ cabinet = Waiting /\ queue # <<>> /\ cabinet' = Run(Head(queue), doors) /\ queue' = Tail(queue)
        /\ UNCHANGED <<manual, recall, sync, doors, liquor, script, valid, snapshot, visit>>
    BY <1>2 DEF TakesNext, evening, inputs, lights, runs
  <2> DEFINE event == Head(queue)
  <2>2. /\ {"main_area", LC} \subseteq manual /\ "living" \notin sync /\ (recall => visit = "scene")
        /\ (doors = {} => queue[Len(queue)] = "close")
        /\ Held \/ Intact
    BY <2>1, WaitingIs DEF VisitKept
  <2>3. event \in {"open", "close"} /\ (InQueue("open") => event = "open" \/ InQueue("open")') /\ event = queue[1]
    BY <2>1, QueueTurns DEF Typed, CabinetOK
  <2>4. queue' # <<>> => queue'[Len(queue')] = queue[Len(queue)]
    BY <2>1, LastStays DEF Typed
  <2>5. event = "open" /\ doors = {} => queue' # <<>>
    <3>1. queue' = <<>> => Len(queue) = 1
      <4>1. Len(queue') = Len(queue) - 1 /\ Len(queue) \in Nat
        BY <2>1, QueueTurns DEF Typed
      <4> QED BY <4>1
    <3> QED BY <2>2, <2>3, <3>1
  <2> HIDE DEF event
  <2>6. /\ event = "open" /\ valid => cabinet'.todo = <<"white">>
        /\ event = "open" /\ ~valid => cabinet'.todo = <<"keep", "white">> /\ cabinet'.look = liquor
        /\ event = "close" /\ doors # {} => cabinet'.todo = <<>>
        /\ event = "close" /\ doors = {} /\ valid => cabinet'.todo = <<"restore", "done">>
        /\ event = "close" /\ doors = {} /\ ~valid => cabinet'.todo = <<"evaluate", "done">>
    BY <2>1, <2>2, <2>3, Begins, WaitingIs DEF event, Typed, CabinetOK
  <2>7. (Held => Held') /\ (event = "close" /\ Unseen => Unseen') /\ (doors = {} => Unseen')
    BY <2>1, <2>3 DEF Held, Restored, Unseen, InQueue
  <2>8. CASE event = "open" /\ valid
    <3>1. cabinet'.todo = <<"white">> /\ Held
      BY <2>2, <2>6, <2>8 DEF Intact
    <3> QED BY <2>1, <2>2, <2>4, <2>5, <2>7, <2>8, <3>1, TodosApart DEF VisitKept, Lighting
  <2>9. CASE event = "open" /\ ~valid
    <3>1. cabinet'.todo = <<"keep", "white">> /\ cabinet'.look = visit
      BY <2>2, <2>6, <2>9 DEF Intact, Held
    <3> QED BY <2>1, <2>2, <2>4, <2>5, <2>9, <3>1, TodosApart DEF VisitKept, Lighting
  <2>10. CASE event = "close" /\ doors # {}
    <3>1. cabinet'.todo = <<>> /\ (Intact => Intact')
      BY <2>1, <2>6, <2>7, <2>10 DEF Intact
    <3> QED BY <2>1, <2>2, <2>4, <2>7, <2>10, <3>1, TodosApart DEF VisitKept, Lighting
  <2>11. CASE event = "close" /\ doors = {} /\ valid
    <3>1. cabinet'.todo = <<"restore", "done">> /\ Held
      BY <2>2, <2>6, <2>11 DEF Intact
    <3> QED BY <2>1, <2>2, <2>4, <2>7, <2>11, <3>1, TodosApart DEF VisitKept, Lighting
  <2>12. CASE event = "close" /\ doors = {} /\ ~valid
    <3>1. cabinet'.todo = <<"evaluate", "done">> /\ Intact'
      BY <2>1, <2>2, <2>6, <2>7, <2>12 DEF Intact, Held
    <3> QED BY <2>1, <2>2, <2>4, <2>7, <2>12, <3>1, TodosApart DEF VisitKept, Lighting
  <2> QED BY <2>3, <2>8, <2>9, <2>10, <2>11, <2>12 DEF Typed, CabinetOK
<1>3. ASSUME Keep PROVE VisitKept'
  <2> SUFFICES ASSUME visit' # None PROVE VisitKept'
    BY DEF VisitKept
  <2>1. /\ cabinet.todo = <<"keep", "white">> /\ cabinet'.todo = <<"white">> /\ queue' = queue
        /\ snapshot' = cabinet.look /\ valid' = TRUE
        /\ UNCHANGED <<manual, recall, sync, doors, liquor, script, visit>>
    BY <1>3, CabinetTurn DEF Keep, Typed, evening, inputs, lights, runs
  <2>2. Held'
    BY <2>1 DEF VisitKept, Held, Restored
  <2> QED BY <2>1, <2>2, TodosApart DEF VisitKept, Lighting
<1>4. ASSUME White PROVE VisitKept'
  <2> SUFFICES ASSUME visit' # None PROVE VisitKept'
    BY DEF VisitKept
  <2>1. /\ cabinet.todo = <<"white">> /\ cabinet'.todo = <<>> /\ queue' = queue
        /\ UNCHANGED <<manual, recall, sync, doors, valid, snapshot, visit>>
    BY <1>4, CabinetTurn, WaitingIs DEF White, Typed, inputs
  <2>2. Held' /\ (doors # {} \/ queue # <<>>)
    BY <2>1 DEF VisitKept, Held, Restored, Lighting
  <2> QED BY <2>1, <2>2, TodosApart DEF VisitKept, Lighting
<1>5. ASSUME Restore PROVE VisitKept'
  <2> SUFFICES ASSUME visit' # None PROVE VisitKept'
    BY DEF VisitKept
  <2>1. /\ cabinet.todo = <<"restore", "done">> /\ cabinet'.todo = <<"done">> /\ queue' = queue
        /\ liquor' = Restored /\ RunsOf("cabinet") = {}
        /\ UNCHANGED <<manual, recall, sync, doors, script, visit>>
    BY <1>5, CabinetTurn DEF Restore, InCabinet, Typed, inputs, runs
  <2>2. liquor' = visit /\ Unseen' /\ RunsOf("cabinet")' = {}
    BY <2>1 DEF VisitKept, Held, Unseen, InQueue, RunsOf
  <2> QED BY <2>1, <2>2, TodosApart DEF VisitKept, Lighting
<1>6. ASSUME RestoreFails PROVE VisitKept'
  BY <1>6 DEF RestoreFails, VisitKept
<1>7. ASSUME Evaluate PROVE VisitKept'
  <2> SUFFICES ASSUME visit' # None PROVE VisitKept'
    BY DEF VisitKept
  <2>1. /\ cabinet.todo = <<"evaluate", "done">> /\ cabinet'.todo = <<"done">> /\ queue' = queue
        /\ UNCHANGED <<manual, recall, sync, doors, liquor, valid, visit>>
    BY <1>7, CabinetTurn DEF Evaluate, Typed, inputs, lights
  <2>2. liquor' = visit /\ Unseen' /\ ~valid
    BY <2>1 DEF VisitKept, Intact, Unseen, InQueue
  <2> QED BY <2>1, <2>2, TodosApart DEF VisitKept, Lighting
<1>8. ASSUME Finish PROVE VisitKept'
  <2> SUFFICES ASSUME visit' # None PROVE VisitKept'
    BY DEF VisitKept
  <2>1. /\ cabinet.todo = <<"done">> /\ cabinet'.todo = <<>> /\ queue' = queue /\ valid' = FALSE
        /\ UNCHANGED <<manual, recall, sync, doors, liquor, visit>>
    BY <1>8, CabinetTurn, WaitingIs DEF Finish, Typed, evening, inputs, lights
  <2>2. Intact'
    BY <2>1 DEF VisitKept, Intact, Unseen, InQueue
  <2> QED BY <2>1, <2>2, TodosApart DEF VisitKept, Lighting
<1>9. ASSUME NEW d \in {"left", "right"}, DoorMoves(d) PROVE VisitKept'
  <2> SUFFICES ASSUME visit' # None PROVE VisitKept'
    BY DEF VisitKept
  <2> DEFINE event == IF d \in doors THEN "close" ELSE "open"
  <2> DEFINE heard == up /\ (AtRest \/ Len(queue) + 1 < MaxQueued)
  <2>1. /\ doors' = IF d \in doors THEN doors \ {d} ELSE doors \cup {d}
        /\ cabinet' = IF up /\ AtRest THEN Run(event, doors') ELSE cabinet
        /\ queue' = IF heard /\ ~AtRest THEN Append(queue, event) ELSE queue
        /\ visit' = IF ~heard THEN None ELSE IF doors = {} /\ AtRest THEN Found ELSE visit
        /\ UNCHANGED <<manual, recall, sync, liquor, script, valid, snapshot>>
    BY <1>9 DEF DoorMoves, lights, runs
  <2>2. /\ event \in {"open", "close"} /\ (event = "close" => doors # {}) /\ (event = "open" => doors' # {})
        /\ (doors = {} => event = "open") /\ (event = "close" => doors' \subseteq doors)
    BY <2>1
  <2>3. heard /\ up /\ valid \in BOOLEAN
    BY <2>1 DEF Typed, CabinetOK
  <2> HIDE DEF event
  <2>4. CASE AtRest /\ doors = {}
    <3>1. visit' = Found /\ cabinet' = Run("open", doors') /\ queue' = <<>> /\ doors' # {}
      BY <2>1, <2>2, <2>3, <2>4 DEF AtRest
    <3>2. /\ {"main_area", LC} \subseteq manual /\ "living" \notin sync /\ ~valid /\ (recall => liquor = "scene")
          /\ visit' = liquor
      BY <3>1 DEF Found, LC
    <3>3. cabinet'.todo = <<"keep", "white">> /\ cabinet'.look = liquor
      BY <2>3, <3>1, <3>2, Begins
    <3> QED BY <2>1, <3>1, <3>2, <3>3, TodosApart DEF VisitKept, Lighting
  <2>5. CASE AtRest /\ doors # {}
    <3>1. visit' = visit /\ cabinet' = Run(event, doors') /\ queue' = <<>> /\ queue = <<>> /\ cabinet.todo = <<>>
      BY <2>1, <2>3, <2>5, WaitingIs DEF AtRest
    <3>2. /\ {"main_area", LC} \subseteq manual /\ "living" \notin sync /\ (recall => visit = "scene") /\ Held
      BY <2>5, <3>1 DEF VisitKept, Intact, Unseen, InQueue
    <3>3. Held' /\ valid
      BY <2>1, <3>1, <3>2 DEF Held, Restored
    <3>4. CASE event = "open"
      <4>1. cabinet'.todo = <<"white">>
        BY <2>2, <2>3, <3>1, <3>2, <3>3, <3>4, Begins
      <4> QED BY <2>1, <2>2, <3>1, <3>2, <3>3, <3>4, <4>1, TodosApart DEF VisitKept, Lighting
    <3>5. CASE event = "close" /\ doors' # {}
      <4>1. cabinet'.todo = <<>>
        BY <2>2, <2>3, <3>1, <3>2, <3>5, Begins, WaitingIs
      <4> QED BY <2>1, <3>1, <3>2, <3>3, <3>5, <4>1, TodosApart DEF VisitKept, Lighting
    <3>6. CASE event = "close" /\ doors' = {}
      <4>1. cabinet'.todo = <<"restore", "done">>
        BY <2>2, <2>3, <3>1, <3>2, <3>3, <3>6, Begins
      <4> QED BY <2>1, <3>1, <3>2, <3>3, <3>6, <4>1, TodosApart DEF VisitKept, Lighting, Unseen
    <3> QED BY <2>2, <3>4, <3>5, <3>6
  <2>6. CASE ~AtRest
    <3>1. visit' = visit /\ cabinet' = cabinet /\ queue' = Append(queue, event)
      BY <2>1, <2>3, <2>6
    <3>2. /\ queue' # <<>> /\ queue'[Len(queue')] = event
          /\ event = "open" \/ InQueue("open") => InQueue("open")'
      BY <2>2, <3>1, LastAppended, QueueGrows DEF Typed
    <3>3. (Held => Held') /\ (Unseen => Unseen') /\ (Intact => Intact') /\ (Lighting' => Lighting)
      BY <2>1, <2>2, <3>1, <3>2 DEF Held, Restored, Unseen, Intact, Lighting
    <3>4. doors' = {} => event = "close"
      BY <2>2
    <3> QED BY <2>1, <3>1, <3>2, <3>3, <3>4 DEF VisitKept, RunsOf
  <2> QED BY <2>4, <2>5, <2>6
<1>10. ASSUME NEW look \in Looks \cup {"off"}, Sets(look) PROVE VisitKept'
  BY <1>10 DEF Sets, VisitKept
<1>11. ASSUME SetsAnother PROVE VisitKept'
  BY <1>11 DEF SetsAnother, VisitKept
<1>12. ASSUME RecallsScene PROVE VisitKept'
  BY <1>12 DEF RecallsScene, VisitKept
<1>13. ASSUME NEW x \in Scripts, FailsIn(x) PROVE VisitKept'
  <2> SUFFICES ASSUME visit' # None PROVE VisitKept'
    BY DEF VisitKept
  <2>1. /\ cabinet' = IF script[x].by = "cabinet" THEN Waiting ELSE cabinet
        /\ UNCHANGED <<manual, recall, sync, doors, liquor, queue, valid, snapshot, visit>>
    BY <1>13 DEF FailsIn, Fails, inputs, lights
  <2>2. script'[x] = Idle /\ \A y \in Scripts \ {x} : script'[y] = script[y]
    BY <1>13, FailsDo DEF FailsIn, Typed
  <2>3. (Unseen => Unseen') /\ (Held => Held') /\ (Intact => Intact')
    BY <2>1 DEF Unseen, Held, Intact, Restored, InQueue
  <2>4. CASE script[x].by = "cabinet"
    <3>1. cabinet.todo = <<"done">> /\ RunsOf("cabinet") # {}
      BY <2>4 DEF CabinetRuns, RunsOf
    <3>2. Intact'
      BY <2>1, <2>3, <3>1 DEF VisitKept, Intact, Typed, CabinetOK
    <3>3. cabinet'.todo = <<>>
      BY <2>1, <2>4, WaitingIs
    <3> QED BY <2>1, <3>2, <3>3, TodosApart DEF VisitKept, Lighting
  <2>5. CASE script[x].by # "cabinet"
    <3>1. cabinet' = cabinet /\ (RunsOf("cabinet") = {} => RunsOf("cabinet")' = {})
      BY <2>1, <2>2, <2>5, IdleBy DEF RunsOf
    <3>2. Lighting' => Lighting
      BY <3>1 DEF Lighting
    <3> QED BY <2>1, <2>3, <3>1, <3>2 DEF VisitKept
  <2> QED BY <2>4, <2>5
<1>14. ASSUME Stops PROVE VisitKept'
  BY <1>14 DEF Stops, Stop, VisitKept
<1>15. ASSUME UNCHANGED vars PROVE VisitKept'
  <2>1. UNCHANGED <<manual, recall, sync, doors, liquor, script, cabinet, queue, valid, snapshot, visit>>
    BY <1>15 DEF vars, inputs, clock, lights, runs, cab, evening
  <2> QED BY <2>1 DEF VisitKept, Lighting, Unseen, Held, Intact, Restored, InQueue, RunsOf
<1> QED BY <1>1, <1>2, <1>3, <1>4, <1>5, <1>6, <1>7, <1>8, <1>9, <1>10, <1>11, <1>12, <1>13, <1>14,
       <1>15, Kinds

\* A visit to the cabinet leaves the homeowner's look as it was, in whatever
\* order the doors move and are noticed, and although the evaluators go on.
THEOREM LooksReturn == Spec => []LookReturned
<1>1. Init => CabinetRuns /\ VisitKept
  BY IdleBy DEF Init, CabinetRuns, VisitKept
<1>2. VisitKept => LookReturned
  <2> SUFFICES ASSUME VisitKept, AtRest, doors = {}, visit # None PROVE liquor = visit
    BY DEF LookReturned, Settled
  <2> QED BY WaitingIs DEF VisitKept, AtRest, Intact
<1> QED BY <1>1, <1>2, TypedInit, TypedNext, CabinetRunsNext, VisitNext, PTL DEF Spec
===============================================================================
