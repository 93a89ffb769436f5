------------------------- MODULE VerificationProofs -------------------------
(***************************************************************************)
(* For any lights, baselines and scenes: a repair keeps its hands off what *)
(* is not the owner's, and no repair makes another one necessary.          *)
(***************************************************************************)
EXTENDS Verification, TLAPS

LEMMA CabinetType ==
  ASSUME TypeOK
  PROVE  Cabinet \subseteq Lights
  BY VerificationAssumption DEF TypeOK, Cabinet

LEMMA SettingType ==
  ASSUME TypeOK, NEW d \in Desired
  PROVE  d = [light |-> d.light, look |-> d.look]
         /\ d.light \in Lights /\ d.look \in Looks \cup {"off"}
<1>1. CASE d \in Setting(HeldOff, LAMBDA l : "off")
  BY <1>1 DEF Setting, HeldOff, Of, TypeOK
<1>2. CASE owner = "off" /\ d \in Setting(OwnedByNobodyElse(members), LAMBDA l : "off")
  BY <1>2 DEF Setting, OwnedByNobodyElse, TypeOK
<1>3. CASE owner = "daily" /\ d \in Setting(OwnedByNobodyElse(DOMAIN Daily) \cap members,
                                            LAMBDA l : Daily[l])
  <2>1. PICK l \in DOMAIN Daily : d = [light |-> l, look |-> Daily[l]]
    BY <1>3 DEF Setting, OwnedByNobodyElse
  <2> QED BY <2>1, VerificationAssumption
<1>4. CASE d \in Setting(Cabinet, LAMBDA l : White)
  BY <1>4, CabinetType, VerificationAssumption DEF Setting
<1> QED BY <1>1, <1>2, <1>3, <1>4 DEF Desired

\* A command is one light's setting that does not hold, or the scene.
LEMMA AskedCases ==
  ASSUME NEW c \in Asked
  PROVE  \/ /\ c.kind = "light" /\ c = [kind |-> "light", setting |-> c.setting]
            /\ c.setting \in Desired /\ Differs(c.setting) /\ shown[c.setting.light] # "lost"
         \/ /\ c.kind = "scene" /\ c = [kind |-> "scene", protected |-> Protected]
            /\ c.protected = Protected /\ SceneRepairable
  BY DEF Asked

\* No light is asked for two looks, and no look is asked of a protected light
\* but Manual-OFF and white.
LEMMA OneSetting ==
  ASSUME NEW d \in Desired, NEW e \in Desired, d.light = e.light
  PROVE  d = e
<1>1. HeldOff \cap Cabinet = {} /\ HeldOff \subseteq Protected
  BY DEF HeldOff, Protected, ManualEntities, Of
<1>2. \A S : OwnedByNobodyElse(S) \cap (Protected \cup Cabinet) = {}
  BY DEF OwnedByNobodyElse
<1> QED BY <1>1, <1>2 DEF Desired, Setting

LEMMA RepairTypeOK ==
  ASSUME TypeOK, NEW c \in Asked, Repair(c)
  PROVE  TypeOK'
<1>1. CASE c.kind = "light"
  <2>1. c.setting \in Desired
    BY <1>1, AskedCases
  <2>2. c.setting.light \in Lights /\ c.setting.look \in Looks \cup {"off"}
    BY <2>1, SettingType
  <2> QED BY <1>1, <2>2 DEF TypeOK, Repair, SetLight, ownership, evidence
<1>2. CASE c.kind # "light"
  <2>1. PICK S : shown' = [l \in Lights |-> IF l \in S \cap DOMAIN Scene /\ shown[l] # "lost"
                                              THEN Scene[l] ELSE shown[l]]
    BY <1>2 DEF Repair, SetScene, SceneOn
  <2>2. shown' \in [Lights -> Looks \cup {"off", "lost"}]
    BY <2>1, VerificationAssumption DEF TypeOK
  <2>3. {readable', recalled', monitor'} \subseteq BOOLEAN
    BY <1>2 DEF Repair, SetScene, evidence, TypeOK
  <2> QED BY <2>2, <2>3 DEF TypeOK, Repair, ownership
<1> QED BY <1>1, <1>2

\* What a repair changes: the light it is about, or lights of the scene that
\* nobody else owns, under a scene that is still the owner's.
LEMMA Changed ==
  ASSUME TypeOK, NEW c \in Asked, Repair(c), NEW l \in Lights, shown'[l] # shown[l]
  PROVE  \/ /\ c.kind = "light" /\ c.setting \in Desired
            /\ c.setting.light = l /\ shown'[l] = c.setting.look
         \/ /\ c.kind = "scene" /\ owner = "scene" /\ Latest
            /\ Cabinet = {} /\ l \in (DOMAIN Scene \cap members) \ Protected
            /\ shown'[l] = Scene[l] /\ shown[l] # "lost"
<1>1. CASE c.kind = "light"
  BY <1>1, AskedCases DEF Repair, SetLight, TypeOK
<1>2. CASE c.kind = "scene"
  <2>1. c.protected = Protected /\ SceneRepairable
    BY <1>2, AskedCases
  <2>2. PICK S : /\ shown' = [k \in Lights |-> IF k \in S \cap DOMAIN Scene /\ shown[k] # "lost"
                                                 THEN Scene[k] ELSE shown[k]]
                 /\ Protected = {} \/ S \subseteq DOMAIN Scene \ Protected
    BY <1>2, <2>1 DEF Repair, SetScene, SceneOn
  <2>3. l \in S \cap DOMAIN Scene /\ shown[l] # "lost" /\ shown'[l] = Scene[l]
    BY <2>2
  <2>4. l \notin Protected
    BY <2>2, <2>3
  <2>5. owner = "scene" /\ Latest /\ DOMAIN Scene \subseteq members /\ Cabinet = {}
    BY <2>1 DEF SceneRepairable, HasScene, SceneUsable, Cabinet
  <2> QED BY <1>2, <2>3, <2>4, <2>5
<1> QED BY <1>1, <1>2, AskedCases

\* What no hold, evidence or overlay protects is automatic.
LEMMA Unprotected ==
  ASSUME TypeOK, NEW l \in members, l \notin Protected
  PROVE  hold[l] = "automatic" /\ l \notin pending /\ l \notin Overlay
  BY DEF TypeOK, Protected, ManualEntities, Pending, Of, Holds

\* Where no repair is made, the lights' types survive as well.
LEMMA HouseTypeOK ==
  ASSUME TypeOK, House
  PROVE  TypeOK'
<1>1. CASE Ownership
  BY <1>1 DEF TypeOK, Ownership, OwnersOf, evidence
<1>2. CASE LightChanges
  BY <1>2 DEF TypeOK, LightChanges, ownership, evidence
<1>3. CASE EvidenceChanges
  BY <1>3 DEF TypeOK, EvidenceChanges, ownership
<1> QED BY <1>1, <1>2, <1>3 DEF House

\* Every value stays in its range: a repair never sets what no light can show.
THEOREM TypeInvariant == Spec => []TypeOK
<1>1. Init => TypeOK
  BY DEF Init, TypeOK, Holds
<1>2. TypeOK /\ [Next]_vars => TypeOK'
  <2>1. ASSUME TypeOK, UNCHANGED vars PROVE TypeOK'
    BY <2>1 DEF TypeOK, vars, ownership, evidence
  <2> QED BY <2>1, RepairTypeOK, HouseTypeOK DEF Next
<1> QED BY <1>1, <1>2, PTL DEF Spec

\* A check of any surface that finds nothing leaves no light wrong.
THEOREM SilenceIsRight == Spec => []SilenceMeansRight
<1>1. TypeOK => SilenceMeansRight
  <2> SUFFICES ASSUME TypeOK, Clean, ~Skipped, NEW l \in Lights
               PROVE  Right(l)
    BY DEF SilenceMeansRight
  <2>1. members # {} /\ ~Outside /\ (\A d \in Desired : ~Differs(d))
        /\ (HasScene => SceneUsable /\ Strayed = {})
    BY DEF Clean
  <2>2. CASE l \in Cabinet
    <3>1. [light |-> l, look |-> White] \in Desired
      BY <2>2 DEF Desired, Setting
    <3> QED BY <3>1, <2>1, <2>2 DEF Differs, Right, Claim
  <2>3. CASE l \notin Cabinet /\ l \in HeldOff
    <3>1. [light |-> l, look |-> "off"] \in Desired
      BY <2>3 DEF Desired, Setting
    <3>2. Claim(l) = "off"
      BY <2>3 DEF Claim, HeldOff, Pending, Of
    <3> QED BY <3>1, <3>2, <2>1 DEF Differs, Right
  <2>4. CASE l \notin Cabinet /\ l \in Protected /\ l \notin HeldOff
    BY <2>4 DEF Claim, Right, Protected, ManualEntities, HeldOff, Pending, Of
  <2>5. CASE l \in members /\ l \notin Cabinet /\ l \notin Protected
    <3>1. Claim(l) \in {owner, "hands off"}
      BY <2>5, Unprotected DEF Claim
    <3>2. owner = "off" => [light |-> l, look |-> "off"] \in Desired
      BY <2>5 DEF Desired, Setting, OwnedByNobodyElse
    <3>3. owner = "daily" /\ l \in DOMAIN Daily
            => [light |-> l, look |-> Daily[l]] \in Desired
      BY <2>5 DEF Desired, Setting, OwnedByNobodyElse
    <3>4. owner = "scene" /\ l \in DOMAIN Scene => Follows(l)
      BY <2>1, <2>5 DEF HasScene, Strayed, OwnedByNobodyElse
    <3>5. owner # "door"
      BY DEF TypeOK, OwnersOf
    <3> QED BY <3>1, <3>2, <3>3, <3>4, <3>5, <2>1 DEF Differs, Right
  <2>6. CASE l \notin members /\ l \notin Cabinet
    BY <2>6 DEF Claim, Right
  <2> QED BY <2>2, <2>3, <2>4, <2>5, <2>6
<1> QED BY <1>1, TypeInvariant, PTL

\* A repair leaves alone what is the homeowner's, doubtful, or another owner's.
THEOREM RepairsKeepHandsOff == Spec => HandsOff
<1>1. ASSUME TypeOK, NEW c \in Asked, Repair(c), NEW l \in Lights, shown'[l] # shown[l]
      PROVE  Claim(l) # "hands off"
  <2>1. owner # "hands off"
    BY <1>1 DEF TypeOK, OwnersOf
  <2>2. CASE c.kind = "light" /\ c.setting \in Desired /\ c.setting.light = l
    <3>1. l \in Cabinet \/ l \in HeldOff \/ (l \in members /\ l \notin Protected /\ owner # "scene")
      BY <2>2 DEF Desired, Setting, OwnedByNobodyElse
    <3>2. l \in HeldOff => l \in members /\ l \notin pending /\ hold[l] = "manual_off"
      BY DEF HeldOff, Pending, Of
    <3> QED BY <1>1, <2>1, <3>1, <3>2, Unprotected DEF Claim
  <2>3. CASE owner = "scene" /\ Latest /\ l \in (DOMAIN Scene \cap members) \ Protected
    BY <1>1, <2>1, <2>3, Unprotected DEF Claim, Latest
  <2> QED BY <1>1, <2>2, <2>3, Changed
<1>2. TypeOK /\ [Next]_vars => [(\E c \in Asked : Repair(c)) =>
         \A l \in Lights : shown'[l] # shown[l] => Claim(l) # "hands off"]_vars
  BY <1>1
<1> QED BY <1>2, TypeInvariant, PTL DEF Spec, HandsOff

\* The checks before and after a repair differ in what the lights show and in
\* whether the newest recall is the scene's.
LEMMA SameOwnership ==
  ASSUME NEW c \in Asked, Repair(c)
  PROVE  /\ Desired' = Desired /\ Judged' = Judged /\ HasScene' = HasScene
         /\ Protected' = Protected /\ HeldOff' = HeldOff /\ Cabinet' = Cabinet
         /\ readable' = readable /\ members' = members
         /\ surface' = surface /\ door' = door
         /\ \A S : OwnedByNobodyElse(S)' = OwnedByNobodyElse(S)
<1>1. UNCHANGED <<surface, owner, door, members, hold, pending, game, bright, blocked>>
  BY DEF Repair, ownership
<1>2. readable' = readable
  BY DEF Repair, SetLight, SetScene, evidence
<1>3. Cabinet' = Cabinet /\ Overlay' = Overlay
  BY <1>1 DEF Cabinet, Overlay
<1>4. Pending' = Pending /\ ManualEntities' = ManualEntities /\ HeldOff' = HeldOff
      /\ Of({"unmanaged"})' = Of({"unmanaged"})
  BY <1>1, <1>3 DEF Pending, ManualEntities, HeldOff, Of
<1>5. Protected' = Protected
  BY <1>3, <1>4 DEF Protected
<1>6. \A S : OwnedByNobodyElse(S)' = OwnedByNobodyElse(S)
  BY <1>3, <1>5 DEF OwnedByNobodyElse
<1>7. Judged' = Judged /\ HasScene' = HasScene
  BY <1>1, <1>3, <1>5 DEF Judged, Skipped, HasScene
<1>8. Desired' = Desired
  BY <1>1, <1>3, <1>4, <1>5 DEF Desired, Setting, OwnedByNobodyElse
<1> QED BY <1>1, <1>2, <1>3, <1>4, <1>5, <1>6, <1>7, <1>8

\* Under a scene that can be repaired, the settings of single lights are about
\* protected lights.
LEMMA SettingsUnderScene ==
  ASSUME NEW d \in Desired, HasScene
  PROVE  d.light \in Protected \cup Cabinet
  BY DEF Desired, Setting, HasScene, HeldOff, Protected, ManualEntities, Of

\* A setting that a repair leaves wrong was wrong before.
LEMMA SettingsShrink ==
  ASSUME TypeOK, NEW c \in Asked, Repair(c), NEW d \in Desired,
         shown'[d.light] \notin {"lost", d.look}
  PROVE  shown[d.light] \notin {"lost", d.look}
<1>1. d.light \in Lights
  BY SettingType
<1>2. CASE shown'[d.light] = shown[d.light]
  BY <1>2
<1>3. CASE shown'[d.light] # shown[d.light] /\ c.kind = "light"
  <2>1. c.setting \in Desired /\ c.setting.light = d.light /\ shown'[d.light] = c.setting.look
    BY <1>1, <1>3, Changed
  <2>2. c.setting = d
    BY <2>1, OneSetting
  <2> QED BY <2>1, <2>2
<1>4. CASE shown'[d.light] # shown[d.light] /\ c.kind = "scene"
  <2>1. Cabinet = {} /\ d.light \notin Protected
    BY <1>1, <1>4, Changed
  <2>2. HasScene
    BY <1>4, AskedCases DEF SceneRepairable
  <2> QED BY <2>1, <2>2, SettingsUnderScene
<1> QED BY <1>2, <1>3, <1>4, AskedCases

\* A light that strays from the scene after a repair did so before.
LEMMA StrayedShrinks ==
  ASSUME TypeOK, HasScene, NEW c \in Asked, Repair(c), NEW l \in Strayed'
  PROVE  l \in Strayed /\ shown'[l] = shown[l]
<1>1. l \in OwnedByNobodyElse(DOMAIN Scene) /\ ~Follows(l)' /\ l \in Lights
  BY SameOwnership, VerificationAssumption DEF Strayed, OwnedByNobodyElse
<1>2. CASE shown'[l] = shown[l]
  BY <1>1, <1>2 DEF Strayed, Follows
<1>3. CASE shown'[l] # shown[l]
  <2>1. l \notin Protected \cup Cabinet
    BY <1>1 DEF OwnedByNobodyElse
  <2>2. shown'[l] = Scene[l]
    BY <1>1, <1>3, <2>1, Changed, SettingsUnderScene
  <2>3. Scene[l] # "lost"
    BY <1>1, VerificationAssumption DEF OwnedByNobodyElse
  <2> QED BY <1>1, <2>2, <2>3 DEF Follows
<1> QED BY <1>2, <1>3

\* A scene that is asked for after a repair was asked for before.
LEMMA SceneShrinks ==
  ASSUME TypeOK, NEW c \in Asked, Repair(c), SceneRepairable'
  PROVE  SceneRepairable
<1>1. HasScene /\ readable /\ DOMAIN Scene # {} /\ DOMAIN Scene \subseteq members
      /\ ~(surface = "main_area" /\ door)
  BY SameOwnership DEF SceneRepairable, SceneUsable
<1>2. CASE c.kind = "scene"
  BY <1>2, AskedCases
<1>3. CASE c.kind = "light"
  <2>1. c.setting \in Desired /\ c.setting.light \in Protected \cup Cabinet
    BY <1>1, <1>3, AskedCases, SettingsUnderScene
  <2>2. \A l \in OwnedByNobodyElse(DOMAIN Scene) : shown'[l] = shown[l]
    BY <2>1, <1>3, Changed, VerificationAssumption DEF OwnedByNobodyElse
  <2>3. Strayed' = Strayed /\ \A l \in Strayed : shown'[l] = shown[l]
    BY <2>2, SameOwnership DEF Strayed, Follows
  <2>4. Latest' = Latest
    BY <1>3, SameOwnership DEF Latest, Repair, SetLight, evidence, ManualEntities, Of, ownership
  <2> QED BY <1>1, <2>3, <2>4 DEF SceneRepairable, SceneUsable
<1> QED BY <1>2, <1>3, AskedCases

\* One repair never makes another necessary, and what reached its lights is not
\* asked for again.
THEOREM RepairsAreIndependent == Spec => RepairsShrink
<1>1. ASSUME TypeOK, NEW c \in Asked, Repair(c)
      PROVE  Asked' \subseteq Asked
  <2> SUFFICES ASSUME NEW e \in Asked' PROVE e \in Asked
    OBVIOUS
  <2>1. Judged /\ Judged'
    BY <1>1, SameOwnership DEF Asked
  <2>2. CASE \E d \in Desired' : /\ e = [kind |-> "light", setting |-> d]
                                 /\ Differs(d)' /\ shown'[d.light] # "lost"
    <3>1. PICK d \in Desired : /\ e = [kind |-> "light", setting |-> d]
                               /\ shown'[d.light] \notin {"lost", d.look}
      BY <1>1, <2>2, SameOwnership DEF Differs
    <3>2. Differs(d) /\ shown[d.light] # "lost"
      BY <1>1, <3>1, SettingsShrink DEF Differs
    <3> QED BY <2>1, <3>1, <3>2 DEF Asked
  <2>3. CASE SceneRepairable' /\ e = [kind |-> "scene", protected |-> Protected']
    <3>1. SceneRepairable /\ Protected' = Protected
      BY <1>1, <2>3, SceneShrinks, SameOwnership
    <3> QED BY <2>1, <2>3, <3>1 DEF Asked
  <2> QED BY <2>1, <2>2, <2>3 DEF Asked
<1>2. ASSUME TypeOK, NEW c \in Asked, Repair(c), c.kind = "light", c \in Asked'
      PROVE  FALSE
  <2>1. c.setting \in Desired /\ shown'[c.setting.light] = c.setting.look
    BY <1>2, AskedCases, SettingType DEF Repair, SetLight, TypeOK
  <2>2. Differs(c.setting)'
    BY <1>2 DEF Asked
  <2> QED BY <2>1, <2>2 DEF Differs
<1>3. ASSUME TypeOK, NEW c \in Asked, Repair(c), c.kind = "scene", c.protected = {}, c \in Asked'
      PROVE  FALSE
  <2>1. SceneRepairable /\ SceneRepairable' /\ HasScene
    BY <1>3, AskedCases DEF Asked, SceneRepairable
  <2>2. PICK l \in Strayed' : l \in Strayed /\ shown'[l] = shown[l]
    BY <1>3, <2>1, StrayedShrinks DEF SceneRepairable
  <2>3. l \in DOMAIN Scene /\ l \in Lights /\ ~Follows(l)' /\ shown[l] # "lost" /\ Scene[l] # "lost"
    BY <2>1, <2>2, VerificationAssumption DEF Strayed, OwnedByNobodyElse, SceneRepairable
  <2>4. shown'[l] = Scene[l]
    BY <1>3, <2>3 DEF Repair, SetScene, SceneOn
  <2> QED BY <2>3, <2>4 DEF Follows
<1>4. TypeOK /\ [Next]_vars => [\A c \in Asked : Repair(c) =>
         /\ Asked' \subseteq Asked
         /\ c.kind = "light" \/ c.protected = {} => c \notin Asked']_vars
  BY <1>1, <1>2, <1>3, AskedCases
<1> QED BY <1>4, TypeInvariant, PTL DEF Spec, RepairsShrink
=============================================================================
