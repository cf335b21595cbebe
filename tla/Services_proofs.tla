-------------------------- MODULE Services_proofs --------------------------
(***************************************************************************)
(* Proofs about the components around the trading loop, each for any number *)
(* of models, days, traders, stocks, receivers, messages and decisions.    *)
(***************************************************************************)
EXTENDS MCServices, Sums_proofs, SequenceTheorems, TLAPS

-----------------------------------------------------------------------------
(* The models (ModelRegistry).                                             *)

(* One model has the role of champion, and it has been registered; the one *)
(* to fall back on has been, too.                                          *)
Chosen(r, n) ==
  /\ r.champion \in 0 .. n
  /\ r.previous \in {NoModel} \union 0 .. n
  /\ \A m \in Models : r.role[m] = "CHAMPION" <=> m = r.champion

(* A rollout is at its last stage only on its way to being promoted.       *)
StagesLeft ==
  /\ rollout # Down => rollout.stage \in 0 .. 4
  /\ file.layout = "rollout" => file.content.stage \in 0 .. 4

RegistryInv ==
  /\ RegistryTypeOK
  /\ StagesLeft
  /\ registry # Down => Chosen(registry, registered)
  /\ file.layout = "registry" => Chosen(file.content, registered)

LEMMA RegistryNumbers ==
  /\ MaxModels \in Nat /\ LastDate \in Nat \ {0} /\ MaxCrashes \in Nat /\ MaxTears \in Nat
  /\ NoModel \notin Models /\ NoModel \in Int /\ Models \subseteq Nat /\ 0 \in Models
BY RegistryAssumption DEF NoModel, Models

(* A model takes a role.                                                   *)
LEMMA RegisteredIs ==
  ASSUME NEW r \in Registries, NEW m \in Models, NEW as \in Roles
  PROVE  /\ Registered(r, m, as) \in Registries
         /\ Registered(r, m, as).role = [r.role EXCEPT ![m] = as]
         /\ Registered(r, m, as).previous = r.previous
         /\ Registered(r, m, as).champion = IF as = "CHAMPION" THEN m ELSE r.champion
<1> DEFINE a == [r.role EXCEPT ![m] = as]
           b == IF as = "CHAMPION" THEN m ELSE r.champion
           c == IF as = "CHALLENGER" THEN m ELSE r.challenger
<1>1. a \in [Models -> Roles] /\ {b, c} \subseteq Models \union {NoModel}
  BY DEF Registries
<1>2. Registered(r, m, as) = [r EXCEPT !.role = a, !.champion = b, !.challenger = c]
  BY DEF Registered, Registries
<1> HIDE DEF a, b, c
<1>3. /\ [r EXCEPT !.role = a, !.champion = b, !.challenger = c] \in Registries
      /\ [r EXCEPT !.role = a, !.champion = b, !.challenger = c].role = a
      /\ [r EXCEPT !.role = a, !.champion = b, !.challenger = c].previous = r.previous
      /\ [r EXCEPT !.role = a, !.champion = b, !.challenger = c].champion = b
  BY <1>1 DEF Registries
<1> QED
  BY <1>2, <1>3 DEF a, b

(* A promoted model is the one champion, whatever role it had before.      *)
LEMMA PromoteIs ==
  ASSUME NEW r \in Registries, NEW n \in 0 .. MaxModels, Chosen(r, n), NEW m \in Models,
         NEW k \in 0 .. MaxModels, n <= k, m <= k
  PROVE  LET p == Promote(Registered(r, m, "CHALLENGER"), m)
         IN  p \in Registries /\ Chosen(p, k)
<1> USE RegistryNumbers
<1> DEFINE q == Registered(r, m, "CHALLENGER")
           a == [q.role EXCEPT ![q.champion] = "ROLLED_BACK"]
           b == [a EXCEPT ![m] = "CHAMPION"]
           p == Promote(q, m)
<1>1. /\ q \in Registries /\ q.role = [r.role EXCEPT ![m] = "CHALLENGER"]
      /\ q.previous = r.previous /\ q.champion = r.champion
  BY RegisteredIs DEF Roles
<1> HIDE DEF q
<1>2. r.champion \in Models /\ r.role \in [Models -> Roles]
  BY DEF Chosen, Models, Registries
<1>3. a \in [Models -> Roles] /\ b \in [Models -> Roles]
  BY <1>1 DEF Registries, Roles
<1>4. \A l \in Models : b[l] = "CHAMPION" <=> l = m
  <2>1. \A l \in Models : l # m => r.role[l] = q.role[l]
    BY <1>1, <1>2
  <2>2. \A l \in Models : a[l] = "CHAMPION" => l = m
    BY <1>1, <1>2, <2>1, <1>3 DEF Chosen, Registries
  <2> QED
    BY <1>3, <2>2
<1>5. Demoted(q) = [q EXCEPT !.role = a]
  BY <1>1 DEF Demoted, Registries
<1> HIDE DEF a
<1>6. p = [q EXCEPT !.role = b, !.champion = m, !.challenger = NoModel, !.previous = q.champion]
  BY <1>1, <1>3, <1>5 DEF Promote, Registries
<1> HIDE DEF b, p
<1>7. /\ p \in Registries /\ p.role = b /\ p.champion = m /\ p.previous = r.champion
  BY <1>1, <1>2, <1>3, <1>6 DEF Registries
<1>8. m \in 0 .. k /\ r.champion \in 0 .. k
  BY DEF Chosen, Models
<1>9. Chosen(p, k)
  BY <1>4, <1>7, <1>8 DEF Chosen
<1> QED
  BY <1>7, <1>9 DEF p, q

(* So is the model that is rolled back to, also when it is the same one.   *)
LEMMA RollBackIs ==
  ASSUME NEW r \in Registries, NEW n \in 0 .. MaxModels, Chosen(r, n), r.previous # NoModel
  PROVE  RollBack(r) \in Registries /\ Chosen(RollBack(r), n)
<1> USE RegistryNumbers
<1> DEFINE a == [r.role EXCEPT ![r.champion] = "ROLLED_BACK", ![r.previous] = "CHAMPION"]
           p == RollBack(r)
<1>1. r.champion \in Models /\ r.previous \in Models /\ r.role \in [Models -> Roles]
  BY DEF Chosen, Models, Registries
<1>2. a \in [Models -> Roles]
  BY <1>1 DEF Roles
<1>3. \A l \in Models : a[l] = "CHAMPION" <=> l = r.previous
  BY <1>1 DEF Chosen
<1>4. p = [r EXCEPT !.role = a, !.champion = r.previous]
  BY DEF RollBack, Registries
<1> HIDE DEF a, p
<1>5. p \in Registries /\ p.role = a /\ p.champion = r.previous /\ p.previous = r.previous
  BY <1>1, <1>2, <1>4 DEF Registries
<1>6. Chosen(p, n)
  BY <1>3, <1>5 DEF Chosen
<1> QED
  BY <1>5, <1>6 DEF p

(* What the trader loads, with the default champion if there is none.      *)
LEMMA LoadedIs ==
  ASSUME RegistryInv
  PROVE  /\ WithDefault(Loaded) \in Registries
         /\ Chosen(WithDefault(Loaded), registered)
<1> USE RegistryNumbers
<1>1. CASE file.layout = "registry"
  <2>1. file.content \in Registries /\ Chosen(file.content, registered) /\ Loaded = file.content
    BY <1>1 DEF RegistryInv, RegistryTypeOK, NoFile, TornFile, Loaded
  <2>2. file.content.champion \in Models
    BY <2>1 DEF Chosen, RegistryInv, RegistryTypeOK, Models
  <2>3. HasChampion(file.content)
    BY <2>1, <2>2 DEF HasChampion, Chosen
  <2> QED
    BY <2>1, <2>3 DEF WithDefault
<1>2. CASE file.layout # "registry"
  <2> DEFINE e == EmptyRegistry
  <2>1. Loaded = e /\ e \in Registries
    BY <1>2 DEF Loaded, EmptyRegistry, Registries, Roles
  <2>2. e.champion = NoModel /\ e.previous = NoModel /\ e.role = [m \in Models |-> "ABSENT"]
    BY DEF EmptyRegistry
  <2> HIDE DEF e
  <2>3. ~HasChampion(e) /\ "CHAMPION" \in Roles
    BY <2>2 DEF HasChampion, Roles
  <2> DEFINE d == Registered(e, 0, "CHAMPION")
  <2>4. /\ d \in Registries /\ d.role = [e.role EXCEPT ![0] = "CHAMPION"]
        /\ d.previous = e.previous /\ d.champion = 0
    BY <2>1, <2>3, RegisteredIs
  <2> HIDE DEF d
  <2>5. Chosen(d, registered)
    <3>1. registered \in Nat
      BY DEF RegistryInv, RegistryTypeOK, Models
    <3>2. 0 \in 0 .. registered
      BY <3>1
    <3>3. \A m \in Models : d.role[m] = IF m = 0 THEN "CHAMPION" ELSE "ABSENT"
      BY <2>2, <2>4
    <3>4. d.previous = NoModel
      BY <2>2, <2>4
    <3> QED
      BY <2>4, <3>2, <3>3, <3>4 DEF Chosen
  <2> QED
    BY <2>1, <2>3, <2>4, <2>5 DEF WithDefault, d
<1> QED
  BY <1>1, <1>2

(* What is saved is in memory and in the file.                             *)
LEMMA SaveStep ==
  ASSUME RegistryInv, NEW r \in Registries, Save(r), Chosen(r, registered'),
         registered' \in Models, promoted' \in Models, shadowFrom' \in [Models -> 0 .. LastDate],
         batch' \in {"idle", "train"}, batchOn' \in 0 .. LastDate,
         UNCHANGED <<rollout, date, crashes, tears>>
  PROVE  RegistryInv'
<1>1. registry' = r /\ file' = [layout |-> "registry", content |-> r]
  BY DEF Save, FileOf
<1>2. file'.layout = "registry" /\ file'.content = r
  BY <1>1
<1>3. RegistryTypeOK'
  BY <1>1, <1>2 DEF RegistryInv, RegistryTypeOK
<1> QED
  BY <1>1, <1>2, <1>3 DEF RegistryInv, StagesLeft, Chosen

LEMMA RegistryStep ==
  ASSUME RegistryInv, [RegistryNext]_registryVars
  PROVE  RegistryInv'
<1> USE RegistryNumbers
<1>1. CASE UNCHANGED registryVars
  BY <1>1 DEF registryVars, RegistryInv, RegistryTypeOK, StagesLeft, Chosen
<1>2. CASE StartTrader
  <2>1. /\ registry' = WithDefault(Loaded)
        /\ file' = IF HasChampion(Loaded) THEN file ELSE FileOf(registry')
        /\ batch' = "idle" /\ batchOn' = 0
        /\ UNCHANGED <<rollout, date, crashes, tears, registered, shadowFrom, promoted>>
    BY <1>2 DEF StartTrader
  <2>2. registry' \in Registries /\ Chosen(registry', registered)
    BY <2>1, LoadedIs
  <2>3. \/ file' = file
        \/ file'.layout = "registry" /\ file'.content = registry'
    BY <2>1 DEF FileOf
  <2>4. RegistryTypeOK'
    BY <2>1, <2>2, <2>3 DEF RegistryInv, RegistryTypeOK
  <2>5. StagesLeft'
    BY <2>1, <2>3 DEF RegistryInv, StagesLeft
  <2>6. file'.layout = "registry" => Chosen(file'.content, registered)
    BY <2>2, <2>3 DEF RegistryInv
  <2> QED
    BY <2>1, <2>2, <2>4, <2>5, <2>6 DEF RegistryInv, Chosen
<1>3. CASE EvaluateShadow
  <2>1. /\ registry # Down /\ batchOn' = date /\ batch' = "train"
        /\ UNCHANGED <<rollout, date, crashes, tears>>
        /\ \/ \E m \in Models :
                /\ Save(Promote(Registered(registry, m, "CHALLENGER"), m))
                /\ promoted' = m
                /\ registered' = IF m > registered THEN m ELSE registered
                /\ shadowFrom' = [shadowFrom EXCEPT ![m] =
                                    IF m > registered THEN date ELSE shadowFrom[m]]
           \/ UNCHANGED <<file, registry, promoted, registered, shadowFrom>>
    BY <1>3 DEF EvaluateShadow
  <2>2. CASE UNCHANGED <<file, registry, promoted, registered, shadowFrom>>
    BY <2>1, <2>2 DEF RegistryInv, RegistryTypeOK, StagesLeft, Chosen
  <2>3. ASSUME NEW m \in Models,
               Save(Promote(Registered(registry, m, "CHALLENGER"), m)), promoted' = m,
               registered' = IF m > registered THEN m ELSE registered,
               shadowFrom' = [shadowFrom EXCEPT ![m] =
                                IF m > registered THEN date ELSE shadowFrom[m]]
        PROVE  RegistryInv'
    <3>1. /\ registry \in Registries /\ Chosen(registry, registered)
          /\ registered \in 0 .. MaxModels /\ registered' \in 0 .. MaxModels
          /\ registered <= registered' /\ m <= registered'
      BY <2>1, <2>3 DEF RegistryInv, RegistryTypeOK, Models
    <3> DEFINE p == Promote(Registered(registry, m, "CHALLENGER"), m)
    <3>2. p \in Registries /\ Chosen(p, registered')
      BY <3>1, PromoteIs
    <3>3. /\ date \in 0 .. LastDate /\ shadowFrom \in [Models -> 0 .. LastDate]
          /\ registered' \in Models
      BY <3>1 DEF RegistryInv, RegistryTypeOK, Models
    <3>4. shadowFrom' \in [Models -> 0 .. LastDate]
      BY <2>3, <3>3
    <3> HIDE DEF p
    <3> QED
      BY <2>1, <2>3, <3>2, <3>3, <3>4, SaveStep DEF p
  <2> QED
    BY <2>1, <2>2, <2>3
<1>4. CASE TrainChallenger
  <2>1. /\ registry # Down /\ batch' = "idle"
        /\ UNCHANGED <<rollout, batchOn, date, crashes, tears, promoted>>
        /\ \/ /\ registered < MaxModels /\ registered' = registered + 1
              /\ Save(Registered(registry, registered + 1, "CHALLENGER"))
              /\ shadowFrom' = [shadowFrom EXCEPT ![registered + 1] = date]
           \/ UNCHANGED <<file, registry, registered, shadowFrom>>
    BY <1>4 DEF TrainChallenger
  <2>2. CASE UNCHANGED <<file, registry, registered, shadowFrom>>
    BY <2>1, <2>2 DEF RegistryInv, RegistryTypeOK, StagesLeft, Chosen
  <2>3. CASE /\ registered < MaxModels /\ registered' = registered + 1
             /\ Save(Registered(registry, registered + 1, "CHALLENGER"))
             /\ shadowFrom' = [shadowFrom EXCEPT ![registered + 1] = date]
    <3> DEFINE n == registered + 1
               q == Registered(registry, n, "CHALLENGER")
    <3>1. /\ registry \in Registries /\ Chosen(registry, registered)
          /\ registered \in 0 .. MaxModels /\ n \in Models /\ "CHALLENGER" \in Roles
          /\ registered < n /\ registered' = n
      BY <2>1, <2>3 DEF RegistryInv, RegistryTypeOK, Models, Roles
    <3> HIDE DEF n
    <3>2. /\ q \in Registries /\ q.role = [registry.role EXCEPT ![n] = "CHALLENGER"]
          /\ q.previous = registry.previous /\ q.champion = registry.champion
      <4>1. registry \in Registries /\ n \in Models /\ "CHALLENGER" \in Roles
        BY <3>1
      <4> QED
        BY <4>1, RegisteredIs
    <3> HIDE DEF q
    <3>3. Chosen(q, registered')
      <4>1. q.champion \in 0 .. n /\ q.previous \in {NoModel} \union 0 .. n /\ q.champion # n
        BY <3>1, <3>2 DEF Chosen, Models
      <4>2. \A m \in Models : q.role[m] = "CHAMPION" <=> m = q.champion
        BY <3>1, <3>2, <4>1 DEF Chosen, Registries
      <4> QED
        BY <3>1, <4>1, <4>2 DEF Chosen
    <3>4. /\ shadowFrom' \in [Models -> 0 .. LastDate] /\ registered' \in Models
          /\ batchOn' \in 0 .. LastDate /\ promoted' \in Models
      BY <2>1, <2>3, <3>1 DEF RegistryInv, RegistryTypeOK, n
    <3> QED
      BY <2>1, <2>3, <3>2, <3>3, <3>4, SaveStep DEF q, n
  <2> QED
    BY <2>1, <2>2, <2>3
<1>5. CASE RollBackChampion
  <2>1. /\ registry # Down /\ registry.previous # NoModel /\ Save(RollBack(registry))
        /\ promoted' = registry.previous
        /\ UNCHANGED <<rollout, batch, batchOn, date, crashes, tears, registered, shadowFrom>>
    BY <1>5 DEF RollBackChampion
  <2>2. /\ registry \in Registries /\ Chosen(registry, registered)
        /\ registered \in 0 .. MaxModels
    BY <2>1 DEF RegistryInv, RegistryTypeOK, Models
  <2>3. RollBack(registry) \in Registries /\ Chosen(RollBack(registry), registered)
    BY <2>1, <2>2, RollBackIs
  <2>4. /\ registry.previous \in Models
        /\ registered' \in Models /\ shadowFrom' \in [Models -> 0 .. LastDate]
        /\ batch' \in {"idle", "train"} /\ batchOn' \in 0 .. LastDate
    BY <2>1, <2>2 DEF RegistryInv, RegistryTypeOK, Registries
  <2> QED
    BY <2>1, <2>3, <2>4, SaveStep
<1>6. CASE StopTrader
  <2>1. /\ registry' = Down /\ crashes' \in 0 .. MaxCrashes
        /\ \/ UNCHANGED <<file, tears>>
           \/ file' = TornFile /\ tears' \in 0 .. MaxTears
        /\ UNCHANGED <<rollout, batch, batchOn, date, registered, shadowFrom, promoted>>
    BY <1>6 DEF StopTrader, RegistryInv, RegistryTypeOK
  <2>2. RegistryTypeOK'
    BY <2>1 DEF RegistryInv, RegistryTypeOK
  <2>3. file'.layout \in {"registry", "rollout"} => file' = file
    BY <2>1 DEF TornFile
  <2> QED
    BY <2>1, <2>2, <2>3 DEF RegistryInv, StagesLeft, Chosen
<1>7. CASE \/ LoadRollout \/ RegisterChallenger \/ AdvanceRollout \/ EmergencyRollback
           \/ StopDashboard
  <2>1. /\ UNCHANGED <<registry, batch, batchOn, date, tears, registered, shadowFrom, promoted>>
        /\ crashes' \in 0 .. MaxCrashes
        /\ rollout' = Down \/ (rollout' \in Rollouts /\ rollout'.stage \in 0 .. 4)
        /\ file' = file \/ (file' = RolloutFile(rollout') /\ rollout' \in Rollouts)
    <3>1. CASE LoadRollout
      <4>1. KnownRollout \in Rollouts /\ KnownRollout.stage \in 0 .. 4
        BY DEF KnownRollout, NewRollout, Rollouts, RegistryInv, RegistryTypeOK, StagesLeft,
           NoFile, TornFile
      <4> QED
        BY <3>1, <4>1 DEF LoadRollout, RegistryInv, RegistryTypeOK, StagesLeft
    <3>2. CASE RegisterChallenger \/ EmergencyRollback
      BY <3>2 DEF RegisterChallenger, EmergencyRollback, SaveRollout, Rollouts, RegistryInv,
         RegistryTypeOK
    <3>3. CASE AdvanceRollout
      <4>1. rollout.stage \in 0 .. 4
        BY <3>3 DEF AdvanceRollout, RegistryInv, StagesLeft
      <4>2. rollout.stage + 1 \in 1 .. 5 /\ (Stages[rollout.stage + 1] # 100 => rollout.stage + 1 \in 1 .. 4)
        BY <4>1 DEF Stages
      <4>3. \E r \in Rollouts : SaveRollout(r) /\ r.stage \in 0 .. 4
        BY <3>3, <4>2 DEF AdvanceRollout, Rollouts
      <4> QED
        BY <4>3 DEF SaveRollout, RegistryInv, RegistryTypeOK
    <3>4. CASE StopDashboard
      BY <3>4 DEF StopDashboard, RegistryInv, RegistryTypeOK
    <3> QED
      BY <1>7, <3>1, <3>2, <3>3, <3>4
  <2>2. \/ file' = file
        \/ /\ file'.layout = "rollout" /\ file'.content = rollout' /\ rollout' \in Rollouts
           /\ rollout'.stage \in 0 .. 4
    <3>1. ASSUME file' = RolloutFile(rollout'), rollout' \in Rollouts PROVE rollout'.stage \in 0 .. 4
      BY <2>1, <3>1 DEF Rollouts, Down
    <3> QED
      BY <2>1, <3>1 DEF RolloutFile
  <2>3. RegistryTypeOK' /\ StagesLeft'
    BY <2>1, <2>2 DEF RegistryInv, RegistryTypeOK, StagesLeft
  <2> QED
    BY <2>1, <2>2, <2>3 DEF RegistryInv, Chosen
<1>8. CASE NextDate
  BY <1>8 DEF NextDate, RegistryInv, RegistryTypeOK, StagesLeft, Chosen
<1> QED
  BY <1>1, <1>2, <1>3, <1>4, <1>5, <1>6, <1>7, <1>8 DEF RegistryNext

LEMMA RegistryInitInv == RegistryInit => RegistryInv
BY RegistryNumbers DEF RegistryInit, RegistryInv, RegistryTypeOK, StagesLeft, NoFile, Models

-----------------------------------------------------------------------------
(* Stocks that jump after the close (AfterHours).                          *)

(* What is remembered of today was seen after the close.                   *)
SeenAfterClose(cand) == cand.day <= today /\ (cand.day = today => clock >= 4)

AfterHoursInv ==
  /\ AfterHoursTypeOK
  /\ \A c \in Codes : SeenAfterClose(candidates[c])
  /\ \A p \in Watchers : \A c \in Codes : SeenAfterClose(copy[p][c])

LEMMA Periods ==
  /\ Len(Times) = 5
  /\ \A t \in 1 .. 5 : /\ IsOrderEntryAllowed(Times[t]) => t = 2
                       /\ InSpikeSession(Times[t]) => t = 4
<1>1. Times = <<"pre", "regular", "late", "after", "closed">>
  BY DEF Times
<1>2. Len(Times) = 5
  BY <1>1
<1>3. \A t \in 1 .. 5 : t = 1 \/ t = 2 \/ t = 3 \/ t = 4 \/ t = 5
  OBVIOUS
<1>4. /\ Times[1] = "pre" /\ Times[2] = "regular" /\ Times[3] = "late" /\ Times[4] = "after"
      /\ Times[5] = "closed"
  BY <1>1
<1>5. /\ MarketSession("pre") = "PRE_MARKET" /\ MarketSession("regular") = "REGULAR"
      /\ MarketSession("late") = "REGULAR" /\ MarketSession("after") = "AFTER_HOURS"
      /\ MarketSession("closed") = "CLOSED"
  BY DEF MarketSession
<1> QED
  BY <1>2, <1>3, <1>4, <1>5 DEF IsOrderEntryAllowed, InSpikeSession

(* One process remembers a candidate of one stock, and the table may or    *)
(* may not follow.                                                         *)
LEMMA RememberedStep ==
  ASSUME AfterHoursInv, NEW p \in Watchers, NEW c \in Codes, NEW cand \in Candidates,
         SeenAfterClose(cand),
         \/ Persist(p, c, cand)
         \/ copy' = [copy EXCEPT ![p][c] = cand] /\ UNCHANGED <<candidates, dbErrors>>,
         UNCHANGED <<today, clock, expiredOn, summarised>>
  PROVE  /\ AfterHoursInv'
         /\ \A d \in Codes : candidates'[d] = candidates[d] \/ candidates'[d] = cand
<1> USE AfterHoursAssumption
<1>1. /\ copy' = [copy EXCEPT ![p] = [copy[p] EXCEPT ![c] = cand]]
      /\ \/ candidates' = [candidates EXCEPT ![c] = cand]
         \/ candidates' = candidates
      /\ dbErrors' \in 0 .. MaxDbErrors
  BY DEF Persist, DbError, AfterHoursInv, AfterHoursTypeOK
<1>2. AfterHoursTypeOK'
  BY <1>1 DEF AfterHoursInv, AfterHoursTypeOK
<1>3. \A d \in Codes : candidates'[d] = candidates[d] \/ candidates'[d] = cand
  BY <1>1 DEF AfterHoursInv, AfterHoursTypeOK
<1>4. \A q \in Watchers : \A d \in Codes : copy'[q][d] = copy[q][d] \/ copy'[q][d] = cand
  BY <1>1 DEF AfterHoursInv, AfterHoursTypeOK
<1> QED
  BY <1>2, <1>3, <1>4 DEF AfterHoursInv, SeenAfterClose

LEMMA RememberedIs ==
  ASSUME AfterHoursInv, NEW p \in Watchers, NEW c \in Codes
  PROVE  Remembered(p, c) \in Candidates /\ SeenAfterClose(Remembered(p, c))
BY DEF AfterHoursInv, AfterHoursTypeOK, Remembered

(* A new status leaves the day of a candidate.                             *)
LEMMA StatusIs ==
  ASSUME NEW cand \in Candidates, NEW status \in Statuses
  PROVE  /\ [cand EXCEPT !.status = status] \in Candidates
         /\ [cand EXCEPT !.status = status].day = cand.day
         /\ [cand EXCEPT !.status = status].status = status
BY DEF Candidates

(* What a step does to the table, and that it keeps the invariant.         *)
EntryWaits ==
  \A c \in Codes :
    candidates'[c].status = "CONSUMED" /\ candidates[c].status # "CONSUMED"
      => candidates'[c].day < today /\ IsOrderEntryAllowed(Now)

LEMMA AfterHoursStep ==
  ASSUME AfterHoursInv, [AfterHoursNext]_afterHoursVars
  PROVE  AfterHoursInv' /\ EntryWaits
<1> USE Periods, AfterHoursAssumption
<1>1. CASE UNCHANGED afterHoursVars
  BY <1>1 DEF afterHoursVars, AfterHoursInv, AfterHoursTypeOK, SeenAfterClose, EntryWaits
<1>2. CASE Tick
  <2>1. /\ today \in 1 .. LastDay /\ today' \in 1 .. LastDay
        /\ clock \in 1 .. 5 /\ clock' \in 1 .. 5
        /\ (today' = today /\ clock' = clock + 1) \/ today' = today + 1
        /\ UNCHANGED <<candidates, copy, expiredOn, summarised, dbErrors>>
    BY <1>2 DEF Tick, AfterHoursInv, AfterHoursTypeOK
  <2>2. \A cand \in Candidates : SeenAfterClose(cand) => SeenAfterClose(cand)'
    BY <2>1 DEF SeenAfterClose, Candidates
  <2>3. AfterHoursTypeOK'
    BY <2>1 DEF AfterHoursInv, AfterHoursTypeOK
  <2> QED
    BY <2>1, <2>2, <2>3 DEF AfterHoursInv, AfterHoursTypeOK, SeenAfterClose, EntryWaits
<1>3. ASSUME NEW p \in Watchers, Restart(p)
      PROVE  AfterHoursInv' /\ EntryWaits
  <2>1. /\ copy' = [copy EXCEPT ![p] = [c \in Codes |-> IF candidates[c].status = "ACTIVE"
                                                        THEN candidates[c] ELSE NoCandidate]]
        /\ expiredOn' = [expiredOn EXCEPT ![p] = 0]
        /\ UNCHANGED <<today, clock, candidates, summarised, dbErrors>>
    BY <1>3 DEF Restart
  <2>2. NoCandidate \in Candidates /\ SeenAfterClose(NoCandidate)
    BY DEF NoCandidate, Candidates, Statuses, SeenAfterClose, AfterHoursInv, AfterHoursTypeOK
  <2>3. \A c \in Codes : copy'[p][c] \in {candidates[c], NoCandidate}
    BY <2>1 DEF AfterHoursInv, AfterHoursTypeOK
  <2>4. AfterHoursTypeOK'
    BY <2>1, <2>2 DEF AfterHoursInv, AfterHoursTypeOK
  <2>5. \A q \in Watchers : q # p => copy'[q] = copy[q]
    BY <2>1 DEF AfterHoursInv, AfterHoursTypeOK
  <2>6. \A q \in Watchers : \A c \in Codes : SeenAfterClose(copy'[q][c])
    BY <2>2, <2>3, <2>5 DEF AfterHoursInv
  <2> QED
    BY <2>1, <2>4, <2>6 DEF AfterHoursInv, SeenAfterClose, EntryWaits
<1>4. ASSUME NEW p \in Watchers, ExpireStaleWatchlist(p)
      PROVE  AfterHoursInv' /\ EntryWaits
  <2> DEFINE stale == {c \in Codes : candidates[c].status = "ACTIVE" /\ candidates[c].day < today}
             Exp(old, c) == IF c \in stale /\ old[c] # NoCandidate
                             THEN [old[c] EXCEPT !.status = "EXPIRED"] ELSE old[c]
             Expired(old) == [c \in Codes |-> Exp(old, c)]
  <2>1. /\ UNCHANGED <<today, clock, summarised>>
        /\ expiredOn' = [expiredOn EXCEPT ![p] = today]
        /\ dbErrors' \in 0 .. MaxDbErrors
        /\ \/ candidates' = Expired(candidates) /\ copy' = [copy EXCEPT ![p] = Expired(copy[p])]
           \/ UNCHANGED <<candidates, copy>>
    BY <1>4 DEF ExpireStaleWatchlist, DbError, AfterHoursInv, AfterHoursTypeOK
  <2> HIDE DEF stale
  <2>2. ASSUME NEW old \in [Codes -> Candidates], NEW c \in Codes
        PROVE  /\ Exp(old, c) \in Candidates /\ Exp(old, c).day = old[c].day
               /\ Exp(old, c).status \in {old[c].status, "EXPIRED"}
    <3>1. "EXPIRED" \in Statuses /\ old[c] \in Candidates
      BY DEF Statuses
    <3> QED
      BY <3>1, StatusIs
  <2> HIDE DEF Exp
  <2>3. \A old \in [Codes -> Candidates] :
          /\ Expired(old) \in [Codes -> Candidates]
          /\ \A c \in Codes : /\ Expired(old)[c].day = old[c].day
                              /\ Expired(old)[c].status \in {old[c].status, "EXPIRED"}
    BY <2>2
  <2> HIDE DEF Expired
  <2>4. candidates \in [Codes -> Candidates] /\ copy[p] \in [Codes -> Candidates]
    BY DEF AfterHoursInv, AfterHoursTypeOK
  <2>5. /\ candidates' \in [Codes -> Candidates]
        /\ \A c \in Codes : /\ candidates'[c].day = candidates[c].day
                            /\ candidates'[c].status \in {candidates[c].status, "EXPIRED"}
    BY <2>1, <2>3, <2>4
  <2>6. /\ copy' \in [Watchers -> [Codes -> Candidates]]
        /\ \A q \in Watchers : \A c \in Codes : copy'[q][c].day = copy[q][c].day
    <3> DEFINE e == Expired(copy[p])
    <3>1. e \in [Codes -> Candidates] /\ \A c \in Codes : e[c].day = copy[p][c].day
      BY <2>3, <2>4
    <3>2. copy' = [copy EXCEPT ![p] = e] \/ copy' = copy
      BY <2>1
    <3> HIDE DEF e
    <3> QED
      BY <3>1, <3>2 DEF AfterHoursInv, AfterHoursTypeOK
  <2>7. AfterHoursTypeOK'
    <3>1. expiredOn' \in [Watchers -> 0 .. LastDay]
      BY <2>1 DEF AfterHoursInv, AfterHoursTypeOK
    <3>2. UNCHANGED <<today, clock, summarised>> /\ dbErrors' \in 0 .. MaxDbErrors
      BY <2>1
    <3> QED
      BY <2>5, <2>6, <3>1, <3>2 DEF AfterHoursInv, AfterHoursTypeOK
  <2>8. EntryWaits
    BY <2>5 DEF EntryWaits
  <2>9. UNCHANGED <<today, clock>>
    BY <2>1
  <2> QED
    BY <2>5, <2>6, <2>7, <2>8, <2>9 DEF AfterHoursInv, SeenAfterClose
<1>5. ASSUME NEW p \in Watchers, SendDailySummary(p)
      PROVE  AfterHoursInv' /\ EntryWaits
  <2>1. /\ UNCHANGED <<today, clock, candidates, copy, expiredOn, dbErrors>>
        /\ summarised' = summarised \union {today}
    BY <1>5 DEF SendDailySummary
  <2> QED
    BY <2>1 DEF AfterHoursInv, AfterHoursTypeOK, SeenAfterClose, EntryWaits
<1>6. ASSUME NEW p \in Watchers, NEW c \in Codes, DetectAfterHoursSpike(p, c)
      PROVE  AfterHoursInv' /\ EntryWaits
  <2> DEFINE new == [day |-> today, status |-> "ACTIVE"]
  <2>1. clock = 4 /\ today \in 1 .. LastDay
    BY <1>6 DEF DetectAfterHoursSpike, Now, AfterHoursInv, AfterHoursTypeOK
  <2>2. new \in Candidates /\ SeenAfterClose(new) /\ new.status = "ACTIVE"
    BY <2>1 DEF Candidates, Statuses, SeenAfterClose
  <2> HIDE DEF new
  <2>3. UNCHANGED <<today, clock, expiredOn, summarised>>
    BY <1>6 DEF DetectAfterHoursSpike
  <2>4. CASE Persist(p, c, new)
    BY <2>2, <2>3, <2>4, RememberedStep DEF EntryWaits
  <2>5. CASE /\ copy' = [copy EXCEPT ![p][c] = Remembered(p, c)]
             /\ UNCHANGED <<candidates, dbErrors>>
    BY <2>3, <2>5, RememberedIs, RememberedStep DEF EntryWaits
  <2> QED
    BY <1>6, <2>4, <2>5 DEF DetectAfterHoursSpike, new
<1>7. ASSUME NEW p \in Watchers, NEW c \in Codes, EvaluateSignal(p, c)
      PROVE  AfterHoursInv' /\ EntryWaits
  <2> DEFINE old == Remembered(p, c)
             new(status) == [old EXCEPT !.status = status]
  <2>1. clock = 2 /\ IsOrderEntryAllowed(Now)
    BY <1>7 DEF EvaluateSignal, Now, AfterHoursInv, AfterHoursTypeOK
  <2>2. old \in Candidates /\ SeenAfterClose(old)
    BY RememberedIs
  <2>3. today \in 1 .. LastDay /\ old.day \in 0 .. LastDay
    BY <2>2 DEF Candidates, AfterHoursInv, AfterHoursTypeOK
  <2>4. old.day < today
    BY <2>1, <2>2, <2>3 DEF SeenAfterClose
  <2> HIDE DEF old
  <2>5. ASSUME NEW status \in {"REJECTED", "CONSUMED"}
        PROVE  new(status) \in Candidates /\ new(status).day = old.day
    <3>1. status \in Statuses
      BY DEF Statuses
    <3> QED
      BY <2>2, <3>1, StatusIs
  <2> HIDE DEF new
  <2>6. UNCHANGED <<today, clock, expiredOn, summarised>>
    BY <1>7 DEF EvaluateSignal
  <2>7. ASSUME NEW status \in {"REJECTED", "CONSUMED"}, Persist(p, c, new(status))
        PROVE  AfterHoursInv' /\ EntryWaits
    <3> DEFINE n == new(status)
    <3>1. n \in Candidates /\ n.day = old.day
      BY <2>5
    <3>2. SeenAfterClose(n)
      BY <2>2, <3>1 DEF SeenAfterClose
    <3>3. Persist(p, c, n)
      BY <2>7
    <3> HIDE DEF n
    <3>4. AfterHoursInv' /\ \A d \in Codes : candidates'[d] = candidates[d] \/ candidates'[d] = n
      BY <2>6, <3>1, <3>2, <3>3, RememberedStep
    <3> QED
      BY <2>1, <2>4, <3>1, <3>4 DEF EntryWaits
  <2>8. CASE copy' = [copy EXCEPT ![p][c] = old] /\ UNCHANGED <<candidates, dbErrors>>
    BY <2>2, <2>6, <2>8, RememberedStep DEF EntryWaits
  <2> QED
    BY <1>7, <2>7, <2>8 DEF EvaluateSignal, new, old
<1> QED
  BY <1>1, <1>2, <1>3, <1>4, <1>5, <1>6, <1>7 DEF AfterHoursNext

LEMMA AfterHoursInitInv == AfterHoursInit => AfterHoursInv
<1> SUFFICES ASSUME AfterHoursInit PROVE AfterHoursInv
  OBVIOUS
<1> USE Periods, AfterHoursAssumption
<1>1. NoCandidate \in Candidates /\ NoCandidate.day = 0
  BY DEF NoCandidate, Candidates, Statuses
<1>2. AfterHoursTypeOK
  BY <1>1 DEF AfterHoursInit, AfterHoursTypeOK
<1> QED
  BY <1>1, <1>2 DEF AfterHoursInit, AfterHoursInv, SeenAfterClose

-----------------------------------------------------------------------------
(* Training labels (LearningData).                                         *)

(* A stored event is known by its symbol and its second.                   *)
EventsNamed ==
  \A e \in DOMAIN snapshots :
    e \in [kind : {"EVT"}, sym : LearnSymbols, at : 0 .. LastSecond]

LearningInv == LearningTypeOK /\ EventsNamed

LabelsOwn ==
  \A e \in DOMAIN labels' \cap DOMAIN outcomes \cap DOMAIN snapshots :
    e \notin DOMAIN labels =>
      /\ labels'[e].ret = ReturnOf(outcomes[e])
      /\ ReturnOf(outcomes'[e]) = labels'[e].ret

LEMMA DaysPass ==
  ASSUME NEW a \in Nat, NEW b \in Nat, NEW d \in Nat \ {0}, a <= b
  PROVE  a \div d \in Nat /\ a \div d <= b \div d
<1>1. a \div d \in Nat /\ b \div d \in Nat
  OBVIOUS
<1> QED
  BY <1>1

LEMMA WithIs ==
  ASSUME NEW f, NEW x, NEW y
  PROVE  /\ DOMAIN With(f, x, y) = DOMAIN f \union {x}
         /\ \A T : f \in [DOMAIN f -> T] /\ y \in T => With(f, x, y) \in [DOMAIN With(f, x, y) -> T]
BY DEF With

LEMMA EarlierIs ==
  ASSUME NEW S, NEW n
  PROVE  Newest(S, n) \subseteq S
BY DEF Newest

(* The label's outcome says the label's return.                            *)
LEMMA LabelOutcomeReturns ==
  ASSUME NEW ret \in Int
  PROVE  ReturnOf(LabelOutcome(ret)) = ret
<1> DEFINE m == Max({ret, 0})
<1>1. \E x \in {ret, 0} : \A y \in {ret, 0} : x >= y
  OBVIOUS
<1>2. m \in {ret, 0} /\ m >= ret /\ m >= 0
  BY <1>1 DEF Max
<1> HIDE DEF m
<1>3. LabelOutcome(ret) = [best |-> m, net |-> ret]
  BY DEF LabelOutcome, m
<1> QED
  BY <1>2, <1>3 DEF ReturnOf

(* The first outcome from an event on is its own, if it has one.           *)
LEMMA OwnOutcomeFirst ==
  ASSUME LearningInv, NEW e \in DOMAIN outcomes \cap DOMAIN snapshots
  PROVE  FutureReturns(e) = {ReturnOf(outcomes[e])}
<1> DEFINE S == {x \in DOMAIN outcomes \cap DOMAIN snapshots : x.sym = e.sym /\ x.at >= e.at}
<1>1. \A x \in DOMAIN outcomes \cap DOMAIN snapshots :
         x \in [kind : {"EVT"}, sym : LearnSymbols, at : 0 .. LastSecond]
  BY DEF LearningInv, EventsNamed
<1>2. e \in S /\ \A x \in S : e.at <= x.at
  BY <1>1
<1>3. \A x \in S : x.at <= e.at => x = e
  BY <1>1
<1>4. FirstWithOutcome(e) = {x \in S : \A f \in S : x.at <= f.at}
  BY DEF FirstWithOutcome
<1>5. FirstWithOutcome(e) = {e}
  BY <1>2, <1>3, <1>4
<1> QED
  BY <1>5 DEF FutureReturns

LEMMA LearningStep ==
  ASSUME LearningInv, [LearningNext]_learningVars
  PROVE  LearningInv' /\ LabelsOwn
<1> USE LearningAssumption
<1>1. CASE UNCHANGED learningVars
  BY <1>1 DEF learningVars, LearningInv, LearningTypeOK, EventsNamed, Today, LabelsOwn
<1>2. CASE SecondPasses
  <2>1. /\ second \in Nat /\ second' = second + 1 /\ second' \in 0 .. LastSecond
        /\ UNCHANGED <<snapshots, refusals, tracking, outcomes, labels, batchDay>>
    BY <1>2 DEF SecondPasses, LearningInv, LearningTypeOK
  <2>2. second \div SecondsADay \in Nat /\ second' \div SecondsADay \in Nat
        /\ second \div SecondsADay <= second' \div SecondsADay
    BY <2>1, DaysPass
  <2>3. batchDay \in -1 .. Today'
    BY <2>2 DEF LearningInv, LearningTypeOK, Today
  <2> QED
    BY <2>1, <2>3 DEF LearningInv, LearningTypeOK, EventsNamed, LabelsOwn
<1>3. CASE ForgetTracking
  <2>1. /\ tracking' = <<>>
        /\ UNCHANGED <<second, snapshots, refusals, outcomes, labels, batchDay>>
    BY <1>3 DEF ForgetTracking
  <2>2. tracking' \in [DOMAIN tracking' -> Strategies] /\ DOMAIN tracking' = {}
    BY <2>1
  <2> QED
    BY <2>1, <2>2 DEF LearningInv, LearningTypeOK, EventsNamed, Today, LabelsOwn
<1>4. ASSUME NEW s \in LearnSymbols, NEW p \in Strategies, NEW d \in Decisions,
             EvaluateDecision(s, p, d)
      PROVE  LearningInv' /\ LabelsOwn
  <2> DEFINE e == Event(s)
  <2>1. /\ snapshots' = IF e \in DOMAIN snapshots THEN snapshots ELSE With(snapshots, e, d)
        /\ tracking' = IF d = "BUY" THEN tracking ELSE With(tracking, e, p)
        /\ refusals \subseteq refusals'
        /\ UNCHANGED <<second, outcomes, labels, batchDay>>
    BY <1>4 DEF EvaluateDecision
  <2>2. e \in [kind : {"EVT"}, sym : LearnSymbols, at : 0 .. LastSecond]
    BY DEF Event, LearningInv, LearningTypeOK
  <2> HIDE DEF e
  <2>3. /\ snapshots' \in [DOMAIN snapshots' -> Decisions]
        /\ DOMAIN snapshots' = DOMAIN snapshots \union {e}
    BY <2>1, WithIs DEF LearningInv, LearningTypeOK
  <2>4. /\ tracking' \in [DOMAIN tracking' -> Strategies]
        /\ DOMAIN tracking' \subseteq DOMAIN tracking \union {e}
    BY <2>1, WithIs DEF LearningInv, LearningTypeOK
  <2>5. LearningTypeOK'
    BY <2>1, <2>3, <2>4 DEF LearningInv, LearningTypeOK, Today
  <2> QED
    BY <2>1, <2>2, <2>3, <2>5 DEF LearningInv, EventsNamed, LabelsOwn
<1>5. ASSUME NEW e \in DOMAIN tracking, Resolve(e)
      PROVE  LearningInv' /\ LabelsOwn
  <2>1. /\ DOMAIN outcomes' = DOMAIN outcomes \union {e}
        /\ tracking' = Restrict(tracking, DOMAIN tracking \ {e})
        /\ UNCHANGED <<second, snapshots, refusals, labels, batchDay>>
    BY <1>5, WithIs DEF Resolve
  <2>2. /\ tracking' \in [DOMAIN tracking' -> Strategies]
        /\ DOMAIN tracking' \subseteq DOMAIN tracking
    BY <2>1 DEF Restrict, LearningInv, LearningTypeOK
  <2> QED
    BY <2>1, <2>2 DEF LearningInv, LearningTypeOK, EventsNamed, Today, LabelsOwn
<1>6. CASE CollectAndLabel
  <2>1. /\ batchDay' = Today /\ UNCHANGED <<second, snapshots, refusals, tracking>>
    BY <1>6 DEF CollectAndLabel
  <2>2. PICK ret \in [Pending -> Moves \union {5}] :
           /\ \A r \in Pending : ret[r] \in FutureReturns(r)
           /\ labels' = [r \in Pending \union DOMAIN labels |->
                IF r \in Pending THEN [ret |-> ret[r], label |-> LabelOf(DecisionOf(r), ret[r])]
                ELSE labels[r]]
           /\ outcomes' = [r \in Pending \union DOMAIN outcomes |->
                IF r \in Pending THEN LabelOutcome(ret[r]) ELSE outcomes[r]]
    BY <1>6 DEF CollectAndLabel
  <2>3. Pending \subseteq DOMAIN snapshots \union refusals
    BY EarlierIs DEF Pending
  <2>4. Today \in Nat
    BY DaysPass DEF Today, LearningInv, LearningTypeOK
  <2>5. LearningTypeOK'
    BY <2>1, <2>2, <2>3, <2>4 DEF LearningInv, LearningTypeOK, Today
  <2>6. LabelsOwn
    <3> SUFFICES ASSUME NEW e \in DOMAIN labels' \cap DOMAIN outcomes \cap DOMAIN snapshots,
                        e \notin DOMAIN labels
                 PROVE  /\ labels'[e].ret = ReturnOf(outcomes[e])
                        /\ ReturnOf(outcomes'[e]) = labels'[e].ret
      BY DEF LabelsOwn
    <3>1. e \in Pending
      BY <2>2
    <3>2. ret[e] = ReturnOf(outcomes[e])
      BY <2>2, <3>1, OwnOutcomeFirst
    <3>3. ret[e] \in Int
      BY <2>2, <3>1 DEF Moves
    <3>4. labels'[e].ret = ret[e] /\ outcomes'[e] = LabelOutcome(ret[e])
      BY <2>2, <3>1
    <3> QED
      BY <3>2, <3>3, <3>4, LabelOutcomeReturns
  <2> QED
    BY <2>1, <2>5, <2>6 DEF LearningInv, EventsNamed
<1> QED
  BY <1>1, <1>2, <1>3, <1>4, <1>5, <1>6 DEF LearningNext

LEMMA LearningInitInv == LearningInit => LearningInv
<1> SUFFICES ASSUME LearningInit PROVE LearningInv
  OBVIOUS
<1>1. \A T : <<>> \in [DOMAIN <<>> -> T] /\ DOMAIN <<>> = {}
  OBVIOUS
<1>2. 0 \div SecondsADay \in Nat
  BY DaysPass, LearningAssumption
<1> QED
  BY <1>1, <1>2, LearningAssumption DEF LearningInit, LearningInv, LearningTypeOK, EventsNamed, Today

-----------------------------------------------------------------------------
(* Finished trades (TradeBooks): types.                                    *)

SaleRecords == [sym : BookSymbols, trip : Nat, booked : BOOLEAN, qty : 1 .. MaxLot]

(* A row holds shares while it is open, and names sales that were made.    *)
Profits(n) == [fill : Nat, sale : 1 .. n, qty : Nat]
RowsOf(n) == [id : Nat, sym : BookSymbols, entry : Nat, qty : Nat, profit : SUBSET Profits(n),
              closedAt : Nat, even : BOOLEAN]
RowOK(r, n) == r \in RowsOf(n) /\ (r.qty = 0 <=> r.closedAt > 0)

BooksInv ==
  /\ paper \in BOOLEAN /\ doubled \in BOOLEAN /\ minute \in DayLength .. LastMinute
  /\ lostRows \in 0 .. MaxLost
  /\ held \in [BookSymbols -> [qty : 0 .. MaxLot, trip : Nat, booked : BOOLEAN]]
  /\ shares \in [BookSymbols -> 0 .. MaxLot]
  /\ saleOf \in Seq(SaleRecords)
  /\ IsFiniteSet(posRows) /\ IsFiniteSet(fillRows)
  /\ \A r \in posRows : RowOK(r, Len(saleOf))
  /\ tradeRows \subseteq [sale : 1 .. Len(saleOf), sym : BookSymbols, qty : 1 .. MaxLot, at : Nat]

LEMMA BooksNumbers ==
  /\ LastMinute \in Nat \ {0} /\ DayLength \in Nat \ {0} /\ MaxLot \in Nat \ {0}
  /\ MaxSales \in Nat \ {0} /\ DayLength <= LastMinute /\ MaxLost \in Nat
BY BooksAssumption

LEMMA OldestIs ==
  ASSUME NEW R, R # {}, \A r \in R : r.entry \in Nat
  PROVE  Oldest(R) \in R
<1> DEFINE T == {r.entry : r \in R}
<1>1. PICK x \in T : \A y \in T : x <= y
  BY LeastNumber
<1>2. \E r \in R : \A q \in R : r.entry <= q.entry
  BY <1>1
<1> QED
  BY <1>2 DEF Oldest

LEMMA RowsGrow ==
  ASSUME NEW m \in Nat, NEW k \in Nat, m <= k, NEW r, RowOK(r, m)
  PROVE  RowOK(r, k)
<1>1. 1 .. m \subseteq 1 .. k
  OBVIOUS
<1>2. Profits(m) \subseteq Profits(k)
  BY <1>1 DEF Profits
<1>3. RowsOf(m) \subseteq RowsOf(k)
  BY <1>2 DEF RowsOf
<1> QED
  BY <1>3 DEF RowOK

(* A sale closes the row of which it takes the rest.                       *)
LEMMA SellAppliedIs ==
  ASSUME NEW table, NEW m \in Nat, \A r \in table : RowOK(r, m),
         NEW s, NEW n \in Nat \ {0}, NEW fill \in Nat, NEW k \in Nat, m <= k, NextSale \in 1 .. k,
         minute \in Nat \ {0}
  PROVE  /\ \A r \in SellApplied(table, s, n, fill) : RowOK(r, k)
         /\ IsFiniteSet(table) => IsFiniteSet(SellApplied(table, s, n, fill))
<1> DEFINE O == OpenRows(table, s)
           r == Oldest(O)
           cut == IF n >= r.qty THEN r.qty ELSE n
           more == r.profit \cup {[fill |-> fill, sale |-> NextSale, qty |-> cut]}
           at == IF cut = r.qty THEN minute ELSE 0
           new == [r EXCEPT !.qty = r.qty - cut, !.profit = more, !.closedAt = at]
<1>1. \A x \in table : RowOK(x, k)
  BY RowsGrow
<1>2. CASE O = {}
  BY <1>1, <1>2 DEF SellApplied
<1>3. CASE O # {}
  <2>1. \A x \in O : x.entry \in Nat
    BY <1>1 DEF OpenRows, RowOK, RowsOf
  <2>2. r \in table /\ r.closedAt = 0
    BY <1>3, <2>1, OldestIs DEF OpenRows
  <2>3. SellApplied(table, s, n, fill) = (table \ {r}) \cup {new}
    BY <1>3 DEF SellApplied
  <2> HIDE DEF r
  <2>4. r \in RowsOf(k) /\ r.qty \in Nat \ {0}
    BY <1>1, <2>2 DEF RowOK, RowsOf
  <2>5. cut \in 1 .. r.qty
    BY <2>4
  <2>6. more \in SUBSET Profits(k)
    BY <2>4, <2>5 DEF RowsOf, Profits
  <2>7. at \in Nat /\ (at > 0 <=> r.qty - cut = 0) /\ r.qty - cut \in Nat
    BY <2>4, <2>5
  <2> HIDE DEF cut, more, at
  <2>8. /\ new \in RowsOf(k) /\ new.qty = r.qty - cut /\ new.closedAt = at
    BY <2>4, <2>6, <2>7 DEF RowsOf
  <2>9. RowOK(new, k)
    BY <2>7, <2>8 DEF RowOK
  <2> HIDE DEF new
  <2>10. IsFiniteSet(table) => IsFiniteSet((table \ {r}) \cup {new})
    BY FS_RemoveElement, FS_AddElement
  <2> QED
    BY <1>1, <2>3, <2>9, <2>10
<1> QED
  BY <1>2, <1>3

LEMMA BuyAppliedIs ==
  ASSUME BooksInv, NEW s \in BookSymbols, NEW n \in Nat \ {0}, NEW even \in BOOLEAN
  PROVE  /\ \A r \in BuyApplied(s, n, even) : RowOK(r, Len(saleOf))
         /\ IsFiniteSet(BuyApplied(s, n, even))
<1> DEFINE O == OpenRows(posRows, s)
           r == Oldest(O)
           m == Len(saleOf)
<1>1. /\ m \in Nat /\ minute \in Nat /\ IsFiniteSet(posRows) /\ Cardinality(posRows) \in Nat
      /\ \A x \in posRows : RowOK(x, m)
  BY BooksNumbers, FS_CardinalityType DEF BooksInv
<1> HIDE DEF m
<1>2. CASE O = {}
  <2> DEFINE new == [id |-> Cardinality(posRows) + 1, sym |-> s, entry |-> minute, qty |-> n,
                     profit |-> {}, closedAt |-> 0, even |-> even]
  <2>1. new \in RowsOf(m) /\ new.qty = n /\ new.closedAt = 0
    BY <1>1 DEF RowsOf
  <2>2. BuyApplied(s, n, even) = posRows \cup {new}
    BY <1>2 DEF BuyApplied
  <2>3. RowOK(new, m)
    BY <2>1 DEF RowOK
  <2> HIDE DEF new
  <2> QED
    BY <1>1, <2>2, <2>3, FS_AddElement DEF m
<1>3. CASE O # {}
  <2> DEFINE new == [r EXCEPT !.qty = r.qty + n]
  <2>1. \A x \in O : x.entry \in Nat
    BY <1>1 DEF OpenRows, RowOK, RowsOf
  <2>2. r \in posRows /\ r.closedAt = 0
    BY <1>3, <2>1, OldestIs DEF OpenRows
  <2>3. BuyApplied(s, n, even) = (posRows \ {r}) \cup {new}
    BY <1>3 DEF BuyApplied
  <2> HIDE DEF r
  <2>4. r \in RowsOf(m) /\ r.qty \in Nat
    BY <1>1, <2>2 DEF RowOK, RowsOf
  <2>5. new \in RowsOf(m) /\ new.qty = r.qty + n /\ new.closedAt = 0
    BY <2>2, <2>4 DEF RowsOf
  <2>6. RowOK(new, m)
    BY <2>4, <2>5 DEF RowOK
  <2> HIDE DEF new
  <2>7. IsFiniteSet((posRows \ {r}) \cup {new})
    BY <1>1, FS_RemoveElement, FS_AddElement
  <2> QED
    BY <1>1, <2>3, <2>6, <2>7 DEF m
<1> QED
  BY <1>2, <1>3

(* A fill is recorded never, once or twice.                                *)
LEMMA RecordIs ==
  ASSUME BooksInv, NEW s, NEW n \in Nat \ {0}, NEW k \in {0, 1, 2}, Record(s, n, k)
  PROVE  /\ \A r \in posRows' : RowOK(r, Len(saleOf) + 1)
         /\ IsFiniteSet(posRows') /\ IsFiniteSet(fillRows')
<1> DEFINE m == Len(saleOf)
           first == Cardinality(fillRows) + 1
           Fill(i) == [fill |-> i, sale |-> NextSale, sym |-> s, qty |-> n, at |-> minute]
           once == SellApplied(posRows, s, n, first)
           twice == SellApplied(once, s, n, first + 1)
<1>1. /\ m \in Nat /\ m + 1 \in Nat /\ m <= m + 1 /\ NextSale \in 1 .. m + 1
      /\ m + 1 <= m + 1 /\ first \in Nat /\ first + 1 \in Nat
      /\ minute \in Nat \ {0}
      /\ IsFiniteSet(posRows) /\ IsFiniteSet(fillRows)
      /\ \A x \in posRows : RowOK(x, m)
  BY BooksNumbers, FS_CardinalityType DEF BooksInv, NextSale
<1>2. \/ posRows' = posRows /\ fillRows' = fillRows
      \/ posRows' = once /\ fillRows' = fillRows \cup {Fill(first)}
      \/ posRows' = twice /\ fillRows' = fillRows \cup {Fill(first), Fill(first + 1)}
  <2>1. CASE k = 0
    BY <2>1 DEF Record
  <2>2. CASE k = 1
    BY <2>2 DEF Record
  <2>3. CASE k = 2
    BY <2>3 DEF Record
  <2> QED
    BY <2>1, <2>2, <2>3
<1>3. IsFiniteSet(fillRows')
  <2>1. \A x : IsFiniteSet(fillRows \cup {x})
    BY <1>1, FS_AddElement
  <2>2. \A x, y : IsFiniteSet((fillRows \cup {x}) \cup {y})
    BY <2>1, FS_AddElement
  <2>3. \A x, y : fillRows \cup {x, y} = (fillRows \cup {x}) \cup {y}
    OBVIOUS
  <2> DEFINE a == Fill(first)
             b == Fill(first + 1)
  <2>4. \/ fillRows' = fillRows
        \/ fillRows' = fillRows \cup {a}
        \/ fillRows' = fillRows \cup {a, b}
    BY <1>2
  <2> HIDE DEF a, b, Fill
  <2>5. fillRows \cup {a, b} = (fillRows \cup {a}) \cup {b}
    BY <2>3
  <2>6. CASE fillRows' = fillRows \cup {a, b}
    BY <2>2, <2>5, <2>6
  <2> QED
    BY <1>1, <2>1, <2>4, <2>6
<1> HIDE DEF m, first, Fill
<1>4. (\A r \in once : RowOK(r, m + 1)) /\ IsFiniteSet(once)
  BY <1>1, SellAppliedIs
<1> HIDE DEF once
<1>5. (\A r \in twice : RowOK(r, m + 1)) /\ IsFiniteSet(twice)
  BY <1>1, <1>4, SellAppliedIs
<1> HIDE DEF twice
<1>6. \A r \in posRows : RowOK(r, m + 1)
  BY <1>1, RowsGrow
<1> QED
  BY <1>1, <1>2, <1>3, <1>4, <1>5, <1>6 DEF m

LEMMA BooksStep ==
  ASSUME BooksInv, [BooksNext]_booksVars
  PROVE  BooksInv'
<1> USE BooksNumbers
<1> DEFINE m == Len(saleOf)
<1>1. CASE UNCHANGED booksVars
  BY <1>1 DEF booksVars, BooksInv, RowOK
<1>2. ASSUME NEW s \in BookSymbols, NEW n \in 1 .. MaxLot, BookBuy(s, n)
      PROVE  BooksInv'
  <2>1. /\ held' = [held EXCEPT ![s] = [qty |-> n, trip |-> held[s].trip + 1, booked |-> TRUE]]
        /\ shares' = [shares EXCEPT ![s] = n]
        /\ lostRows' \in 0 .. MaxLost
        /\ (\E even \in BOOLEAN : posRows' = BuyApplied(s, n, even)) \/ posRows' = posRows
        /\ UNCHANGED <<paper, minute, saleOf, fillRows, tradeRows, doubled>>
    BY <1>2 DEF BookBuy, Lose, BooksInv
  <2>2. n \in Nat \ {0}
    OBVIOUS
  <2>3. IsFiniteSet(posRows') /\ \A r \in posRows' : RowOK(r, m)
    BY <2>1, <2>2, BuyAppliedIs DEF BooksInv
  <2>4. held' \in [BookSymbols -> [qty : 0 .. MaxLot, trip : Nat, booked : BOOLEAN]]
    BY <2>1 DEF BooksInv
  <2>5. shares' \in [BookSymbols -> 0 .. MaxLot]
    BY <2>1 DEF BooksInv
  <2> QED
    BY <2>1, <2>3, <2>4, <2>5 DEF BooksInv, RowOK
<1>3. ASSUME NEW s \in BookSymbols, NEW n \in 1 .. MaxLot, BuyFillsLate(s, n)
      PROVE  BooksInv'
  BY <1>3 DEF BuyFillsLate, BooksInv, RowOK
<1>4. ASSUME NEW s \in BookSymbols, AdoptShares(s)
      PROVE  BooksInv'
  <2>1. /\ held' = [held EXCEPT ![s] = [qty |-> shares[s], trip |-> held[s].trip + 1,
                                        booked |-> FALSE]]
        /\ UNCHANGED <<paper, minute, shares, saleOf, posRows, fillRows, tradeRows, lostRows, doubled>>
    BY <1>4 DEF AdoptShares
  <2>2. held' \in [BookSymbols -> [qty : 0 .. MaxLot, trip : Nat, booked : BOOLEAN]]
    BY <2>1 DEF BooksInv
  <2> QED
    BY <2>1, <2>2 DEF BooksInv, RowOK
<1>5. ASSUME NEW s \in BookSymbols, NEW n \in 1 .. MaxLot, NEW k \in {1, 2}, Sold(s, n, k)
      PROVE  /\ held' \in [BookSymbols -> [qty : 0 .. MaxLot, trip : Nat, booked : BOOLEAN]]
             /\ shares' \in [BookSymbols -> 0 .. MaxLot]
             /\ saleOf' \in Seq(SaleRecords) /\ Len(saleOf') = m + 1
             /\ doubled' \in BOOLEAN /\ UNCHANGED <<paper, minute>>
  <2> DEFINE cut == MinQty(k * n, held[s].qty)
             sale == [sym |-> s, trip |-> held[s].trip, booked |-> held[s].booked, qty |-> n]
  <2>1. /\ n <= MinQty(held[s].qty, shares[s])
        /\ saleOf' = Append(saleOf, sale)
        /\ shares' = [shares EXCEPT ![s] = shares[s] - n]
        /\ held' = [held EXCEPT ![s].qty = held[s].qty - cut]
        /\ doubled' = (doubled \/ k = 2) /\ UNCHANGED <<paper, minute>>
    BY <1>5 DEF Sold
  <2>2. held[s] \in [qty : 0 .. MaxLot, trip : Nat, booked : BOOLEAN] /\ shares[s] \in 0 .. MaxLot
    BY DEF BooksInv
  <2>3. sale \in SaleRecords
    BY <2>2 DEF SaleRecords
  <2>4. cut \in 0 .. held[s].qty /\ n <= shares[s]
    <3>1. k * n \in Nat
      OBVIOUS
    <3> QED
      BY <2>1, <2>2, <3>1 DEF MinQty
  <2> HIDE DEF cut, sale
  <2>5. saleOf' \in Seq(SaleRecords) /\ Len(saleOf') = m + 1
    BY <2>1, <2>3 DEF BooksInv
  <2>6. held' \in [BookSymbols -> [qty : 0 .. MaxLot, trip : Nat, booked : BOOLEAN]]
    <3> DEFINE left == held[s].qty - cut
               h == [held[s] EXCEPT !.qty = left]
    <3>1. left \in 0 .. MaxLot
      BY <2>2, <2>4
    <3>2. held' = [held EXCEPT ![s] = h]
      BY <2>1 DEF BooksInv
    <3> HIDE DEF left
    <3>3. h \in [qty : 0 .. MaxLot, trip : Nat, booked : BOOLEAN]
      BY <2>2, <3>1
    <3> HIDE DEF h
    <3> QED
      BY <3>2, <3>3 DEF BooksInv
  <2>7. shares' \in [BookSymbols -> 0 .. MaxLot]
    BY <2>1, <2>2, <2>4 DEF BooksInv
  <2>8. doubled' \in BOOLEAN
    BY <2>1
  <2> QED
    BY <2>1, <2>5, <2>6, <2>7, <2>8
<1>6. ASSUME NEW s \in BookSymbols, NEW n \in 1 .. MaxLot, NEW k \in {1, 2}, Recorded(s, n, k)
      PROVE  /\ IsFiniteSet(posRows') /\ IsFiniteSet(fillRows')
             /\ \A r \in posRows' : RowOK(r, m + 1)
             /\ lostRows' \in 0 .. MaxLost
  <2>1. k \in {0, 1, 2} /\ k - 1 \in {0, 1, 2} /\ n \in Nat \ {0}
    OBVIOUS
  <2>2. \/ Record(s, n, k) /\ UNCHANGED lostRows
        \/ Record(s, n, k - 1) /\ Lose
    BY <1>6 DEF Recorded
  <2>3. lostRows' \in 0 .. MaxLost
    BY <2>2 DEF Lose, BooksInv
  <2> QED
    BY <2>1, <2>2, <2>3, RecordIs
<1>7. ASSUME NEW s \in BookSymbols, NEW n \in 1 .. MaxLot, SellPart(s, n)
      PROVE  BooksInv'
  <2>1. PICK k \in {1, 2} : Sold(s, n, k) /\ Recorded(s, n, k) /\ UNCHANGED tradeRows
    BY <1>7 DEF SellPart
  <2>2. m \in Nat
    BY DEF BooksInv
  <2>3. /\ held' \in [BookSymbols -> [qty : 0 .. MaxLot, trip : Nat, booked : BOOLEAN]]
        /\ shares' \in [BookSymbols -> 0 .. MaxLot]
        /\ saleOf' \in Seq(SaleRecords) /\ Len(saleOf') = m + 1
        /\ doubled' \in BOOLEAN /\ UNCHANGED <<paper, minute>>
    BY <2>1, <1>5
  <2>4. /\ IsFiniteSet(posRows') /\ IsFiniteSet(fillRows')
        /\ \A r \in posRows' : RowOK(r, m + 1)
        /\ lostRows' \in 0 .. MaxLost
    BY <2>1, <1>6
  <2>5. tradeRows' \subseteq [sale : 1 .. m + 1, sym : BookSymbols, qty : 1 .. MaxLot, at : Nat]
    BY <2>1, <2>2 DEF BooksInv
  <2> QED
    BY <2>3, <2>4, <2>5 DEF BooksInv
<1>8. ASSUME NEW s \in BookSymbols, SellRest(s)
      PROVE  BooksInv'
  <2> DEFINE n == held[s].qty
  <2>1. n \in 1 .. MaxLot /\ m \in Nat
    BY <1>8 DEF SellRest, Sold, BooksInv, MinQty
  <2>2. Sold(s, n, 1)
    BY <1>8 DEF SellRest
  <2>3. /\ held' \in [BookSymbols -> [qty : 0 .. MaxLot, trip : Nat, booked : BOOLEAN]]
        /\ shares' \in [BookSymbols -> 0 .. MaxLot]
        /\ saleOf' \in Seq(SaleRecords) /\ Len(saleOf') = m + 1
        /\ doubled' \in BOOLEAN /\ UNCHANGED <<paper, minute>>
    BY <2>1, <2>2, <1>5
  <2>4. \/ Record(s, n, 0) /\ UNCHANGED lostRows
        \/ Recorded(s, n, 1)
    BY <1>8 DEF SellRest
  <2>5. TradeRow(s, n) \/ UNCHANGED tradeRows
    BY <1>8 DEF SellRest
  <2> HIDE DEF n
  <2>6. /\ IsFiniteSet(posRows') /\ IsFiniteSet(fillRows')
        /\ \A r \in posRows' : RowOK(r, m + 1)
        /\ lostRows' \in 0 .. MaxLost
    <3>1. CASE Record(s, n, 0) /\ UNCHANGED lostRows
      <4>1. n \in Nat \ {0} /\ 0 \in {0, 1, 2}
        BY <2>1
      <4> QED
        BY <3>1, <4>1, RecordIs DEF BooksInv
    <3>2. CASE Recorded(s, n, 1)
      BY <2>1, <3>2, <1>6
    <3> QED
      BY <2>4, <3>1, <3>2
  <2>7. tradeRows' \subseteq [sale : 1 .. m + 1, sym : BookSymbols, qty : 1 .. MaxLot, at : Nat]
    <3>1. tradeRows \subseteq [sale : 1 .. m + 1, sym : BookSymbols, qty : 1 .. MaxLot, at : Nat]
      BY <2>1 DEF BooksInv
    <3>2. CASE TradeRow(s, n)
      <4>1. PICK at \in ExitMinutes :
               tradeRows' = tradeRows \cup {[sale |-> NextSale, sym |-> s, qty |-> n, at |-> at]}
        BY <3>2 DEF TradeRow
      <4>2. at \in Nat /\ NextSale \in 1 .. m + 1
        BY <2>1 DEF ExitMinutes, NextSale, BooksInv
      <4> QED
        BY <2>1, <3>1, <4>1, <4>2
    <3> QED
      BY <2>5, <3>1, <3>2
  <2> QED
    BY <2>3, <2>6, <2>7 DEF BooksInv
<1>9. CASE MinutePasses
  <2>1. /\ minute' \in DayLength .. LastMinute
        /\ UNCHANGED <<paper, shares, held, saleOf, posRows, fillRows, tradeRows, lostRows, doubled>>
    BY <1>9 DEF MinutePasses, BooksInv
  <2> QED
    BY <2>1 DEF BooksInv, RowOK
<1> QED
  BY <1>1, <1>2, <1>3, <1>4, <1>7, <1>8, <1>9 DEF BooksNext

LEMMA BooksInitInv == BooksInit => BooksInv
<1> SUFFICES ASSUME BooksInit PROVE BooksInv
  OBVIOUS
<1>1. IsFiniteSet({})
  BY FS_EmptySet
<1>2. saleOf \in Seq(SaleRecords) /\ Len(saleOf) = 0
  BY DEF BooksInit
<1>3. held \in [BookSymbols -> [qty : 0 .. MaxLot, trip : Nat, booked : BOOLEAN]]
  BY BooksNumbers DEF BooksInit
<1>4. shares \in [BookSymbols -> 0 .. MaxLot]
  BY BooksNumbers DEF BooksInit
<1>5. paper \in BOOLEAN /\ doubled \in BOOLEAN
  BY DEF BooksInit
<1>6. minute \in DayLength .. LastMinute /\ lostRows \in 0 .. MaxLost
  BY BooksNumbers DEF BooksInit
<1>7. posRows = {} /\ fillRows = {} /\ tradeRows = {}
  BY DEF BooksInit
<1> QED
  BY <1>1, <1>2, <1>3, <1>4, <1>5, <1>6, <1>7 DEF BooksInv

LEMMA BooksTypes == BooksInv => BooksTypeOK
<1> SUFFICES ASSUME BooksInv PROVE BooksTypeOK
  OBVIOUS
<1> DEFINE m == Len(saleOf)
<1>1. SalesMade = 1 .. m
  BY DEF SalesMade, BooksInv
<1>2. \A r \in posRows : /\ r.qty = 0 <=> r.closedAt > 0
                         /\ {p.sale : p \in r.profit} \subseteq SalesMade
  BY <1>1 DEF BooksInv, RowOK, RowsOf, Profits
<1>3. {t.sale : t \in tradeRows} \subseteq SalesMade
  BY <1>1 DEF BooksInv
<1>4. \A s \in BookSymbols : held[s].qty \in 0 .. MaxLot /\ shares[s] \in 0 .. MaxLot
  BY DEF BooksInv
<1> QED
  BY <1>2, <1>3, <1>4 DEF BooksInv, BooksTypeOK

-----------------------------------------------------------------------------
(* Finished trades (TradeBooks): the profit of a sale.                     *)

(* While no record was given up or doubled: a sale is in one row at most,   *)
(* once, and in one trade; if it is in both, the row closed that day.       *)
SalesOnce(R, T, S) ==
  /\ \A r, q \in R : \A p \in r.profit : \A o \in q.profit : p.sale = o.sale => r = q /\ p = o
  /\ \A r \in R : \A p \in r.profit : p.qty <= S[p.sale].qty /\ S[p.sale].sym = r.sym
  /\ \A t, u \in T : t.sale = u.sale => t = u
  /\ \A t \in T : t.qty = S[t.sale].qty /\ t.sym = S[t.sale].sym
  /\ \A r \in R : \A p \in r.profit : \A t \in T :
       t.sale = p.sale => r.closedAt > 0 /\ DayOf(r.closedAt) = DayOf(t.at)

(* On a real account, too: a recorded position has one open row, of as many *)
(* shares, any other has none; a sale of a recorded position is in a row,   *)
(* with all its shares; an open row has sales of the current round trip.    *)
RowsMatch(R, S, H) ==
  /\ \A s \in BookSymbols :
       \/ /\ H[s].booked /\ H[s].qty > 0
          /\ \E r \in R : OpenRows(R, s) = {r} /\ r.qty = H[s].qty
       \/ ~(H[s].booked /\ H[s].qty > 0) /\ OpenRows(R, s) = {}
  /\ \A x \in DOMAIN S : S[x].booked =>
       \E r \in R : \E p \in r.profit : p.sale = x /\ p.qty = S[x].qty
  /\ \A s \in BookSymbols : \A r \in OpenRows(R, s) : \A p \in r.profit :
       S[p.sale].trip = H[s].trip

BooksSafe ==
  /\ IsFiniteSet(tradeRows)
  /\ lostRows = 0 /\ ~doubled =>
       /\ SalesOnce(posRows, tradeRows, saleOf)
       /\ ~paper => RowsMatch(posRows, saleOf, held)

(* A sale has one fill, of all its shares; those of a row came after its    *)
(* entry.                                                                   *)
FillsMatch ==
  /\ \A f \in fillRows : f.sale \in 1 .. Len(saleOf) /\ f.qty = saleOf[f.sale].qty
  /\ \A f, g \in fillRows : f.sale = g.sale => f = g
  /\ \A r \in posRows : r.entry <= minute
  /\ \A r \in posRows : \A p \in r.profit : \E f \in SoldSince(r) : f.sale = p.sale
BooksFills == lostRows = 0 /\ ~doubled => FillsMatch

TradesOf(n) == [sale : 1 .. n, sym : BookSymbols, qty : 1 .. MaxLot, at : Nat]

LEMMA Appended ==
  ASSUME NEW S \in Seq(SaleRecords), NEW sale \in SaleRecords
  PROVE  /\ Append(S, sale) \in Seq(SaleRecords) /\ Len(S) \in Nat
         /\ DOMAIN Append(S, sale) = 1 .. Len(S) + 1
         /\ \A i \in 1 .. Len(S) : Append(S, sale)[i] = S[i]
         /\ Append(S, sale)[Len(S) + 1] = sale
BY AppendProperties

(* A sale changes the oldest open row of its symbol.                       *)
OneRowSold(R, m, s, n, fill) ==
  \E r \in OpenRows(R, s) : \E new \in RowsOf(m + 1) : \E cut \in 1 .. n :
    /\ SellApplied(R, s, n, fill) = (R \ {r}) \cup {new}
    /\ cut = (IF n >= r.qty THEN r.qty ELSE n)
    /\ new.sym = r.sym /\ new.qty = r.qty - cut /\ new.entry = r.entry
    /\ new.profit = r.profit \cup {[fill |-> fill, sale |-> m + 1, qty |-> cut]}
    /\ new.closedAt = (IF cut = r.qty THEN minute ELSE 0)

LEMMA RowSold ==
  ASSUME NEW R, NEW m \in Nat, \A r \in R : RowOK(r, m), NEW s, NEW n \in Nat \ {0},
         NEW fill \in Nat, OpenRows(R, s) # {}, NextSale = m + 1, minute \in Nat \ {0}
  PROVE  OneRowSold(R, m, s, n, fill)
<1> DEFINE O == OpenRows(R, s)
           r == Oldest(O)
           cut == IF n >= r.qty THEN r.qty ELSE n
           more == r.profit \cup {[fill |-> fill, sale |-> m + 1, qty |-> cut]}
           at == IF cut = r.qty THEN minute ELSE 0
           new == [r EXCEPT !.qty = r.qty - cut, !.profit = more, !.closedAt = at]
<1>1. \A x \in R : RowOK(x, m + 1)
  BY RowsGrow
<1>2. \A x \in O : x.entry \in Nat
  BY <1>1 DEF OpenRows, RowOK, RowsOf
<1>3. r \in O /\ r \in R /\ r.closedAt = 0
  BY <1>2, OldestIs DEF OpenRows
<1>4. SellApplied(R, s, n, fill) = (R \ {r}) \cup {new}
  BY DEF SellApplied
<1> HIDE DEF r, O
<1>5. r \in RowsOf(m + 1) /\ r.qty \in Nat \ {0}
  BY <1>1, <1>3 DEF RowOK, RowsOf
<1>6. cut \in 1 .. r.qty /\ cut \in 1 .. n
  BY <1>5
<1>7. more \in SUBSET Profits(m + 1)
  BY <1>5, <1>6 DEF RowsOf, Profits
<1>8. at \in Nat /\ r.qty - cut \in Nat
  BY <1>5, <1>6
<1>9. cut = (IF n >= r.qty THEN r.qty ELSE n) /\ at = (IF cut = r.qty THEN minute ELSE 0)
  OBVIOUS
<1>10. more = r.profit \cup {[fill |-> fill, sale |-> m + 1, qty |-> cut]}
  OBVIOUS
<1> HIDE DEF cut, more, at
<1>11. /\ new \in RowsOf(m + 1) /\ new.sym = r.sym /\ new.qty = r.qty - cut /\ new.entry = r.entry
       /\ new.profit = more /\ new.closedAt = at
  BY <1>5, <1>7, <1>8 DEF RowsOf
<1> HIDE DEF new
<1>12. /\ new.profit = r.profit \cup {[fill |-> fill, sale |-> m + 1, qty |-> cut]}
       /\ new.closedAt = (IF cut = r.qty THEN minute ELSE 0)
  BY <1>9, <1>10, <1>11
<1> QED
  BY <1>3, <1>4, <1>6, <1>9, <1>11, <1>12, Zenon DEF O, OneRowSold

(* What was right of the earlier sales stays right.                        *)
LEMMA OnceLonger ==
  ASSUME NEW m \in Nat, NEW R, \A r \in R : RowOK(r, m), NEW T, T \subseteq TradesOf(m),
         NEW S, NEW Z, \A i \in 1 .. m : Z[i] = S[i], SalesOnce(R, T, S)
  PROVE  SalesOnce(R, T, Z)
<1>1. \A r \in R : \A p \in r.profit : p.sale \in 1 .. m
  BY DEF RowOK, RowsOf, Profits
<1>2. \A t \in T : t.sale \in 1 .. m
  BY DEF TradesOf
<1> QED
  BY <1>1, <1>2 DEF SalesOnce

LEMMA OnceAfterFill ==
  ASSUME NEW m \in Nat, NEW R, \A x \in R : RowOK(x, m), NEW T, T \subseteq TradesOf(m),
         NEW Z, SalesOnce(R, T, Z), NEW r \in R, r.closedAt = 0, r.sym = Z[m + 1].sym,
         NEW new, NEW p, new.sym = r.sym, new.profit = r.profit \cup {p},
         p.sale = m + 1, p.qty <= Z[m + 1].qty
  PROVE  SalesOnce((R \ {r}) \cup {new}, T, Z)
<1> DEFINE Q == (R \ {r}) \cup {new}
<1>1. \A x \in R : \A o \in x.profit : o.sale \in 1 .. m
  BY DEF RowOK, RowsOf, Profits
<1>2. \A t \in T : t.sale \in 1 .. m
  BY DEF TradesOf
<1>3. m + 1 \notin 1 .. m
  OBVIOUS
<1>4. \A x, y \in Q : \A o \in x.profit : \A z \in y.profit : o.sale = z.sale => x = y /\ o = z
  <2> SUFFICES ASSUME NEW x \in Q, NEW y \in Q, NEW o \in x.profit, NEW z \in y.profit,
                      o.sale = z.sale
               PROVE  x = y /\ o = z
    OBVIOUS
  <2>1. \A a, b \in R : \A c \in a.profit : \A d \in b.profit : c.sale = d.sale => a = b /\ c = d
    BY DEF SalesOnce
  <2>2. CASE x = new /\ y = new
    <3>1. CASE o = p \/ z = p
      BY <1>1, <1>3, <2>2, <3>1
    <3>2. CASE o # p /\ z # p
      BY <2>1, <2>2, <3>2
    <3> QED
      BY <2>2, <3>1, <3>2
  <2>3. CASE x = new /\ y # new
    <3>1. y \in R \ {r}
      BY <2>3
    <3> QED
      BY <1>1, <1>3, <2>1, <2>3, <3>1
  <2>4. CASE x # new /\ y = new
    <3>1. x \in R \ {r}
      BY <2>4
    <3> QED
      BY <1>1, <1>3, <2>1, <2>4, <3>1
  <2>5. CASE x # new /\ y # new
    BY <2>1, <2>5
  <2> QED
    BY <2>2, <2>3, <2>4, <2>5
<1>5. \A x \in Q : \A o \in x.profit : o.qty <= Z[o.sale].qty /\ Z[o.sale].sym = x.sym
  BY DEF SalesOnce
<1>6. \A x \in Q : \A o \in x.profit : \A t \in T :
        t.sale = o.sale => x.closedAt > 0 /\ DayOf(x.closedAt) = DayOf(t.at)
  <2> SUFFICES ASSUME NEW x \in Q, NEW o \in x.profit, NEW t \in T, t.sale = o.sale
               PROVE  x \in R \ {r}
    BY DEF SalesOnce
  <2>1. o # p
    BY <1>2, <1>3
  <2>2. ~(o \in r.profit)
    BY DEF SalesOnce
  <2> QED
    BY <2>1, <2>2
<1> QED
  BY <1>4, <1>5, <1>6 DEF SalesOnce

LEMMA OnceAfterTrade ==
  ASSUME NEW m \in Nat, NEW R, NEW T, T \subseteq TradesOf(m), NEW Z, SalesOnce(R, T, Z),
         NEW t, t.sale = m + 1, t.qty = Z[m + 1].qty, t.sym = Z[m + 1].sym,
         \A r \in R : \A p \in r.profit :
           p.sale = m + 1 => r.closedAt > 0 /\ DayOf(r.closedAt) = DayOf(t.at)
  PROVE  SalesOnce(R, T \cup {t}, Z)
<1>1. \A u \in T : u.sale \in 1 .. m /\ u.sale # m + 1
  BY DEF TradesOf
<1>2. \A u, v \in T \cup {t} : u.sale = v.sale => u = v
  BY <1>1 DEF SalesOnce
<1>3. \A u \in T \cup {t} : u.qty = Z[u.sale].qty /\ u.sym = Z[u.sale].sym
  BY DEF SalesOnce
<1>4. \A r \in R : \A p \in r.profit : \A u \in T \cup {t} :
        u.sale = p.sale => r.closedAt > 0 /\ DayOf(r.closedAt) = DayOf(u.at)
  BY DEF SalesOnce
<1> QED
  BY <1>2, <1>3, <1>4 DEF SalesOnce

(* A purchase makes a row without profit, or adds to one.                  *)
LEMMA OnceAfterBuy ==
  ASSUME NEW R, NEW T, NEW S, SalesOnce(R, T, S), NEW new, NEW Q,
         \/ Q = R \cup {new} /\ new.profit = {}
         \/ \E r \in R : /\ Q = (R \ {r}) \cup {new} /\ new.profit = r.profit
                         /\ new.sym = r.sym /\ new.closedAt = r.closedAt
  PROVE  SalesOnce(Q, T, S)
<1>1. CASE Q = R \cup {new} /\ new.profit = {}
  BY <1>1 DEF SalesOnce
<1>2. CASE \E r \in R : /\ Q = (R \ {r}) \cup {new} /\ new.profit = r.profit
                        /\ new.sym = r.sym /\ new.closedAt = r.closedAt
  <2>1. PICK r \in R : /\ Q = (R \ {r}) \cup {new} /\ new.profit = r.profit
                       /\ new.sym = r.sym /\ new.closedAt = r.closedAt
    BY <1>2
  <2> DEFINE Was(x) == IF x = new THEN r ELSE x
  <2>2. \A x \in Q : /\ Was(x) \in R /\ x.profit = Was(x).profit
                     /\ x.sym = Was(x).sym /\ x.closedAt = Was(x).closedAt
    BY <2>1
  <2>3. \A x, y \in Q : Was(x) = Was(y) => x = y
    BY <2>1
  <2> HIDE DEF Was
  <2>4. \A x, y \in Q : \A p \in x.profit : \A o \in y.profit : p.sale = o.sale => x = y /\ p = o
    <3> SUFFICES ASSUME NEW x \in Q, NEW y \in Q, NEW p \in x.profit, NEW o \in y.profit,
                        p.sale = o.sale
                 PROVE  x = y /\ p = o
      OBVIOUS
    <3>1. Was(x) \in R /\ Was(y) \in R /\ p \in Was(x).profit /\ o \in Was(y).profit
      BY <2>2
    <3>2. Was(x) = Was(y) /\ p = o
      BY <3>1 DEF SalesOnce
    <3> QED
      BY <2>3, <3>2
  <2>5. \A x \in Q : \A p \in x.profit : p.qty <= S[p.sale].qty /\ S[p.sale].sym = x.sym
    BY <2>2 DEF SalesOnce
  <2>6. \A x \in Q : \A p \in x.profit : \A t \in T :
          t.sale = p.sale => x.closedAt > 0 /\ DayOf(x.closedAt) = DayOf(t.at)
    BY <2>2 DEF SalesOnce
  <2> QED
    BY <2>4, <2>5, <2>6 DEF SalesOnce
<1> QED
  BY <1>1, <1>2

(* Shares and rows go down together.                                       *)
LEMMA MatchAfterSale ==
  ASSUME NEW S \in Seq(SaleRecords), NEW m, m = Len(S), NEW R, \A x \in R : RowOK(x, m),
         NEW H \in [BookSymbols -> [qty : 0 .. MaxLot, trip : Nat, booked : BOOLEAN]],
         NEW s \in BookSymbols, NEW n \in 1 .. H[s].qty, NEW fill \in Nat,
         NEW sale \in SaleRecords, sale.sym = s, sale.trip = H[s].trip,
         sale.booked = H[s].booked, sale.qty = n,
         NEW K, K[s].qty = H[s].qty - n, K[s].trip = H[s].trip, K[s].booked = H[s].booked,
         \A q \in BookSymbols \ {s} : K[q] = H[q],
         RowsMatch(R, S, H), NextSale = m + 1, minute \in Nat \ {0}
  PROVE  RowsMatch(SellApplied(R, s, n, fill), Append(S, sale), K)
<1> DEFINE Z == Append(S, sale)
<1>1. /\ m \in Nat /\ DOMAIN S = 1 .. m /\ DOMAIN Z = 1 .. m + 1
      /\ \A i \in 1 .. m : Z[i] = S[i]
      /\ Z[m + 1] = sale
  BY Appended
<1> HIDE DEF Z
<1>2. \A x \in R : \A o \in x.profit : o.sale \in 1 .. m
  BY DEF RowOK, RowsOf, Profits
<1>3. H[s].qty \in 0 .. MaxLot /\ H[s].qty \in Nat /\ n \in Nat \ {0} /\ H[s].qty > 0
  BY BooksNumbers
<1>4. CASE ~H[s].booked
  <2>1. OpenRows(R, s) = {}
    BY <1>4 DEF RowsMatch
  <2>2. SellApplied(R, s, n, fill) = R
    BY <2>1 DEF SellApplied
  <2>3. \A q \in BookSymbols :
          \/ /\ K[q].booked /\ K[q].qty > 0
             /\ \E r \in R : OpenRows(R, q) = {r} /\ r.qty = K[q].qty
          \/ ~(K[q].booked /\ K[q].qty > 0) /\ OpenRows(R, q) = {}
    <3>1. ~(K[s].booked /\ K[s].qty > 0)
      BY <1>4
    <3>2. \A q \in BookSymbols \ {s} :
            \/ /\ K[q].booked /\ K[q].qty > 0
               /\ \E r \in R : OpenRows(R, q) = {r} /\ r.qty = K[q].qty
            \/ ~(K[q].booked /\ K[q].qty > 0) /\ OpenRows(R, q) = {}
      BY DEF RowsMatch
    <3> QED
      BY <2>1, <3>1, <3>2
  <2>4. \A x \in DOMAIN Z : Z[x].booked =>
          \E r \in R : \E p \in r.profit : p.sale = x /\ p.qty = Z[x].qty
    <3> SUFFICES ASSUME NEW x \in DOMAIN Z, Z[x].booked
                 PROVE  \E r \in R : \E p \in r.profit : p.sale = x /\ p.qty = Z[x].qty
      OBVIOUS
    <3>1. x \in 1 .. m
      BY <1>1, <1>4
    <3> QED
      BY <1>1, <3>1 DEF RowsMatch
  <2>5. \A q \in BookSymbols : \A r \in OpenRows(R, q) : \A p \in r.profit : Z[p.sale].trip = K[q].trip
    <3> SUFFICES ASSUME NEW q \in BookSymbols, NEW r \in OpenRows(R, q), NEW p \in r.profit
                 PROVE  Z[p.sale].trip = K[q].trip
      OBVIOUS
    <3>1. q # s /\ p.sale \in 1 .. m
      BY <1>2, <2>1 DEF OpenRows
    <3> QED
      BY <1>1, <3>1 DEF RowsMatch
  <2>6. RowsMatch(R, Z, K)
    BY <2>3, <2>4, <2>5 DEF RowsMatch
  <2> QED
    BY <2>2, <2>6 DEF Z
<1>5. CASE H[s].booked
  <2>1. PICK r \in R : OpenRows(R, s) = {r} /\ r.qty = H[s].qty
    BY <1>3, <1>5 DEF RowsMatch
  <2>2. PICK new \in RowsOf(m + 1) :
          /\ SellApplied(R, s, n, fill) = (R \ {r}) \cup {new}
          /\ new.sym = s /\ new.qty = H[s].qty - n
          /\ new.profit = r.profit \cup {[fill |-> fill, sale |-> m + 1, qty |-> n]}
          /\ new.closedAt = (IF n = H[s].qty THEN minute ELSE 0)
    <3>1. OpenRows(R, s) # {}
      BY <2>1
    <3>2. PICK q \in OpenRows(R, s) : \E new \in RowsOf(m + 1) : \E cut \in 1 .. n :
            /\ SellApplied(R, s, n, fill) = (R \ {q}) \cup {new}
            /\ cut = (IF n >= q.qty THEN q.qty ELSE n)
            /\ new.sym = q.sym /\ new.qty = q.qty - cut
            /\ new.profit = q.profit \cup {[fill |-> fill, sale |-> m + 1, qty |-> cut]}
            /\ new.closedAt = (IF cut = q.qty THEN minute ELSE 0)
      <4>1. OneRowSold(R, m, s, n, fill)
        BY <1>1, <1>3, <3>1, RowSold
      <4> QED
        BY <4>1 DEF OneRowSold
    <3>3. q = r /\ q.sym = s
      BY <2>1 DEF OpenRows
    <3>4. PICK new \in RowsOf(m + 1), cut \in 1 .. n :
            /\ SellApplied(R, s, n, fill) = (R \ {q}) \cup {new}
            /\ cut = (IF n >= q.qty THEN q.qty ELSE n)
            /\ new.sym = q.sym /\ new.qty = q.qty - cut
            /\ new.profit = q.profit \cup {[fill |-> fill, sale |-> m + 1, qty |-> cut]}
            /\ new.closedAt = (IF cut = q.qty THEN minute ELSE 0)
      BY <3>2
    <3>5. cut = n
      BY <1>3, <2>1, <3>3, <3>4
    <3> QED
      BY <2>1, <3>3, <3>4, <3>5
  <2> DEFINE Q == (R \ {r}) \cup {new}
             p1 == [fill |-> fill, sale |-> m + 1, qty |-> n]
  <2>3. r.sym = s /\ r.closedAt = 0
    BY <2>1 DEF OpenRows
  <2>4. \A q \in BookSymbols \ {s} : OpenRows(Q, q) = OpenRows(R, q)
    BY <2>2, <2>3 DEF OpenRows
  <2>5. OpenRows(Q, s) = IF n = H[s].qty THEN {} ELSE {new}
    <3>1. \A x \in R \ {r} : ~(x.sym = s /\ x.closedAt = 0)
      BY <2>1 DEF OpenRows
    <3>2. new.closedAt = 0 <=> n # H[s].qty
      BY <2>2
    <3> QED
      BY <2>2, <3>1, <3>2 DEF OpenRows
  <2>6. p1 \in new.profit /\ p1.sale = m + 1 /\ p1.qty = n /\ new \in Q
    BY <2>2
  <2>7. \A q \in BookSymbols :
          \/ /\ K[q].booked /\ K[q].qty > 0
             /\ \E x \in Q : OpenRows(Q, q) = {x} /\ x.qty = K[q].qty
          \/ ~(K[q].booked /\ K[q].qty > 0) /\ OpenRows(Q, q) = {}
    <3> SUFFICES ASSUME NEW q \in BookSymbols
                 PROVE  \/ /\ K[q].booked /\ K[q].qty > 0
                           /\ \E x \in Q : OpenRows(Q, q) = {x} /\ x.qty = K[q].qty
                        \/ ~(K[q].booked /\ K[q].qty > 0) /\ OpenRows(Q, q) = {}
      OBVIOUS
    <3>1. CASE q = s /\ n = H[s].qty
      <4>1. ~(K[s].qty > 0)
        BY <1>3, <3>1
      <4> QED
        BY <2>5, <3>1, <4>1
    <3>2. CASE q = s /\ n # H[s].qty
      <4>1. K[s].qty > 0 /\ new.qty = K[s].qty
        BY <1>3, <2>2, <3>2
      <4> QED
        BY <1>5, <2>5, <2>6, <3>2, <4>1
    <3>3. CASE q # s
      <4>1. OpenRows(Q, q) = OpenRows(R, q) /\ K[q] = H[q] /\ OpenRows(Q, q) \subseteq Q
        BY <2>4, <3>3 DEF OpenRows
      <4> HIDE DEF Q
      <4> QED
        BY <4>1 DEF RowsMatch
    <3> QED
      BY <3>1, <3>2, <3>3
  <2>8. \A x \in DOMAIN Z : Z[x].booked =>
          \E y \in Q : \E p \in y.profit : p.sale = x /\ p.qty = Z[x].qty
    <3> SUFFICES ASSUME NEW x \in DOMAIN Z, Z[x].booked
                 PROVE  \E y \in Q : \E p \in y.profit : p.sale = x /\ p.qty = Z[x].qty
      OBVIOUS
    <3>1. CASE x = m + 1
      BY <1>1, <2>6, <3>1
    <3>2. CASE x # m + 1
      <4>1. x \in 1 .. m /\ Z[x] = S[x] /\ x \in DOMAIN S
        BY <1>1, <3>2
      <4>2. PICK y \in R : \E p \in y.profit : p.sale = x /\ p.qty = Z[x].qty
        BY <4>1 DEF RowsMatch
      <4>3. CASE y = r
        BY <2>2, <2>6, <4>2, <4>3
      <4>4. CASE y # r
        BY <4>2, <4>4
      <4> QED
        BY <4>3, <4>4
    <3> QED
      BY <3>1, <3>2
  <2>9. \A q \in BookSymbols : \A x \in OpenRows(Q, q) : \A p \in x.profit : Z[p.sale].trip = K[q].trip
    <3> SUFFICES ASSUME NEW q \in BookSymbols, NEW x \in OpenRows(Q, q), NEW p \in x.profit
                 PROVE  Z[p.sale].trip = K[q].trip
      OBVIOUS
    <3>1. CASE q = s
      <4>1. x = new
        BY <2>5, <3>1
      <4>2. CASE p \in r.profit
        <5>1. r \in OpenRows(R, s) /\ p.sale \in 1 .. m
          BY <1>2, <2>1, <4>2
        <5>2. S[p.sale].trip = H[s].trip
          BY <4>2, <5>1 DEF RowsMatch
        <5> QED
          BY <1>1, <3>1, <5>1, <5>2
      <4>3. CASE p \notin r.profit
        <5>1. p.sale = m + 1
          BY <2>2, <4>1, <4>3
        <5> QED
          BY <1>1, <3>1, <5>1
      <4> QED
        BY <4>2, <4>3
    <3>2. CASE q # s
      <4>1. x \in OpenRows(R, q) /\ x \in R
        BY <2>4, <3>2 DEF OpenRows
      <4>2. p.sale \in 1 .. m /\ S[p.sale].trip = H[q].trip
        BY <1>2, <4>1 DEF RowsMatch
      <4> QED
        BY <1>1, <3>2, <4>2
    <3> QED
      BY <3>1, <3>2
  <2> HIDE DEF Q
  <2>10. SellApplied(R, s, n, fill) = Q
    BY <2>2 DEF Q
  <2>11. RowsMatch(Q, Z, K)
    BY <2>7, <2>8, <2>9 DEF RowsMatch
  <2> QED
    BY <2>10, <2>11 DEF Z
<1> QED
  BY <1>4, <1>5

LEMMA SoldIs ==
  ASSUME BooksInv, NEW s \in BookSymbols, NEW n \in 1 .. MaxLot, NEW k \in {1, 2}, Sold(s, n, k)
  PROVE  /\ n \in 1 .. held[s].qty
         /\ \E sale \in SaleRecords :
              /\ saleOf' = Append(saleOf, sale) /\ sale.sym = s /\ sale.trip = held[s].trip
              /\ sale.booked = held[s].booked /\ sale.qty = n
         /\ k = 1 => held'[s].qty = held[s].qty - n
         /\ held'[s].trip = held[s].trip /\ held'[s].booked = held[s].booked
         /\ \A q \in BookSymbols \ {s} : held'[q] = held[q]
         /\ doubled' = (doubled \/ k = 2) /\ UNCHANGED <<paper, minute>>
<1> DEFINE cut == MinQty(k * n, held[s].qty)
           sale == [sym |-> s, trip |-> held[s].trip, booked |-> held[s].booked, qty |-> n]
<1>1. /\ n <= MinQty(held[s].qty, shares[s])
      /\ saleOf' = Append(saleOf, sale)
      /\ held' = [held EXCEPT ![s].qty = held[s].qty - cut]
      /\ doubled' = (doubled \/ k = 2) /\ UNCHANGED <<paper, minute>>
  BY DEF Sold
<1>2. held[s] \in [qty : 0 .. MaxLot, trip : Nat, booked : BOOLEAN] /\ shares[s] \in 0 .. MaxLot
  BY DEF BooksInv
<1>3. /\ sale \in SaleRecords /\ sale.sym = s /\ sale.trip = held[s].trip
      /\ sale.booked = held[s].booked /\ sale.qty = n
  BY <1>2 DEF SaleRecords
<1>4. n \in 1 .. held[s].qty
  BY <1>1, <1>2 DEF MinQty
<1>5. k = 1 => cut = n
  BY <1>2, <1>4 DEF MinQty
<1> HIDE DEF cut, sale
<1>6. /\ held'[s].qty = held[s].qty - cut
      /\ held'[s].trip = held[s].trip /\ held'[s].booked = held[s].booked
      /\ \A q \in BookSymbols \ {s} : held'[q] = held[q]
  BY <1>1, <1>2 DEF BooksInv
<1> QED
  BY <1>1, <1>3, <1>4, <1>5, <1>6

(* One sale, recorded once or not.                                         *)
LEMMA SaleStep ==
  ASSUME BooksInv, SalesOnce(posRows, tradeRows, saleOf), NEW s \in BookSymbols,
         NEW n \in 1 .. MaxLot, Sold(s, n, 1), NEW fill \in Nat, NEW m, m = Len(saleOf),
         NEW Q, Q = SellApplied(posRows, s, n, fill)
  PROVE  /\ m \in Nat /\ tradeRows \subseteq TradesOf(m)
         /\ SalesOnce(posRows, tradeRows, saleOf') /\ SalesOnce(Q, tradeRows, saleOf')
         /\ saleOf'[m + 1].qty = n /\ saleOf'[m + 1].sym = s
         /\ \A r \in posRows : \A p \in r.profit : p.sale # m + 1
         /\ RowsMatch(posRows, saleOf, held) => RowsMatch(Q, saleOf', held')
         /\ RowsMatch(posRows, saleOf, held) /\ n = held[s].qty =>
              \A r \in Q : \A p \in r.profit : p.sale = m + 1 => r.closedAt = minute
<1>1. /\ saleOf \in Seq(SaleRecords) /\ m \in Nat /\ NextSale = m + 1 /\ minute \in Nat \ {0}
      /\ tradeRows \subseteq TradesOf(m) /\ (\A r \in posRows : RowOK(r, m)) /\ n \in Nat \ {0}
      /\ held \in [BookSymbols -> [qty : 0 .. MaxLot, trip : Nat, booked : BOOLEAN]]
  BY BooksNumbers DEF BooksInv, NextSale, TradesOf
<1>2. PICK sale \in SaleRecords :
        /\ saleOf' = Append(saleOf, sale) /\ sale.sym = s /\ sale.trip = held[s].trip
        /\ sale.booked = held[s].booked /\ sale.qty = n
  BY SoldIs
<1>3. (\A i \in 1 .. m : saleOf'[i] = saleOf[i]) /\ saleOf'[m + 1] = sale
  BY <1>1, <1>2, Appended
<1>4. \A r \in posRows : \A p \in r.profit : p.sale # m + 1
  BY <1>1 DEF RowOK, RowsOf, Profits
<1>5. SalesOnce(posRows, tradeRows, saleOf')
  BY <1>1, <1>3, OnceLonger
<1>6. CASE OpenRows(posRows, s) = {}
  <2>1. Q = posRows
    BY <1>6 DEF SellApplied
  <2>2. RowsMatch(posRows, saleOf, held) => RowsMatch(Q, saleOf', held')
    <3>1. n \in 1 .. held[s].qty /\ held'[s].qty = held[s].qty - n
      BY SoldIs
    <3>2. /\ held'[s].trip = held[s].trip /\ held'[s].booked = held[s].booked
          /\ \A q \in BookSymbols \ {s} : held'[q] = held[q]
      BY SoldIs
    <3> QED
      BY <1>1, <1>2, <3>1, <3>2, MatchAfterSale
  <2> QED
    BY <1>1, <1>2, <1>3, <1>4, <1>5, <2>1, <2>2
<1>7. CASE OpenRows(posRows, s) # {}
  <2>1. OneRowSold(posRows, m, s, n, fill)
    BY <1>1, <1>7, RowSold
  <2>2. PICK r \in OpenRows(posRows, s), new \in RowsOf(m + 1), cut \in 1 .. n :
          /\ SellApplied(posRows, s, n, fill) = (posRows \ {r}) \cup {new}
          /\ new.sym = r.sym
          /\ new.profit = r.profit \cup {[fill |-> fill, sale |-> m + 1, qty |-> cut]}
          /\ new.closedAt = (IF cut = r.qty THEN minute ELSE 0)
    BY <2>1 DEF OneRowSold
  <2> DEFINE p == [fill |-> fill, sale |-> m + 1, qty |-> cut]
  <2>3. /\ r \in posRows /\ r.closedAt = 0 /\ r.sym = s /\ Q = (posRows \ {r}) \cup {new}
        /\ new.sym = s
    BY <2>2 DEF OpenRows
  <2>4. /\ p.sale = m + 1 /\ p.qty <= saleOf'[m + 1].qty /\ r.sym = saleOf'[m + 1].sym
        /\ new.profit = r.profit \cup {p}
    BY <1>2, <1>3, <2>2, <2>3
  <2> HIDE DEF p
  <2>5. SalesOnce(Q, tradeRows, saleOf')
    <3>1. new.sym = r.sym
      BY <2>2
    <3>2. SalesOnce((posRows \ {r}) \cup {new}, tradeRows, saleOf')
      BY <1>1, <1>5, <2>3, <2>4, <3>1, OnceAfterFill
    <3> QED
      BY <2>3, <3>2
  <2>6. RowsMatch(posRows, saleOf, held) => RowsMatch(Q, saleOf', held')
    <3>1. n \in 1 .. held[s].qty /\ held'[s].qty = held[s].qty - n
      BY SoldIs
    <3>2. /\ held'[s].trip = held[s].trip /\ held'[s].booked = held[s].booked
          /\ \A q \in BookSymbols \ {s} : held'[q] = held[q]
      BY SoldIs
    <3> QED
      BY <1>1, <1>2, <3>1, <3>2, MatchAfterSale
  <2>7. ASSUME RowsMatch(posRows, saleOf, held), n = held[s].qty,
               NEW x \in Q, NEW o \in x.profit, o.sale = m + 1
        PROVE  x.closedAt = minute
    <3>1. x = new
      BY <1>4, <2>3, <2>7
    <3>2. held'[s].qty = 0
      <4>1. held'[s].qty = held[s].qty - n
        BY SoldIs
      <4> QED
        BY <1>1, <2>7, <4>1
    <3>3. OpenRows(Q, s) = {}
      BY <2>6, <2>7, <3>2 DEF RowsMatch
    <3>4. new.closedAt # 0
      BY <2>3, <3>3 DEF OpenRows
    <3> QED
      BY <2>2, <3>1, <3>4
  <2> QED
    BY <1>1, <1>2, <1>3, <1>4, <1>5, <2>5, <2>6, <2>7
<1> QED
  BY <1>6, <1>7

LEMMA BooksSafeStep ==
  ASSUME BooksInv, BooksSafe, [BooksNext]_booksVars
  PROVE  BooksSafe'
<1> DEFINE first == Cardinality(fillRows) + 1
           m == Len(saleOf)
<1>0. first \in Nat /\ lostRows \in Nat /\ doubled \in BOOLEAN
  BY FS_CardinalityType DEF BooksInv
<1>1. CASE UNCHANGED booksVars
  BY <1>1 DEF booksVars, BooksSafe
<1>2. CASE MinutePasses \/ \E s \in BookSymbols : \E n \in 1 .. MaxLot : BuyFillsLate(s, n)
  BY <1>2 DEF MinutePasses, BuyFillsLate, BooksSafe
<1>3. ASSUME NEW s \in BookSymbols, NEW n \in 1 .. MaxLot, BookBuy(s, n)
      PROVE  BooksSafe'
  <2>1. /\ held[s].qty = 0
        /\ held' = [held EXCEPT ![s] = [qty |-> n, trip |-> held[s].trip + 1, booked |-> TRUE]]
        /\ ((\E even \in BOOLEAN : posRows' = BuyApplied(s, n, even)) /\ UNCHANGED lostRows) \/ Lose
        /\ UNCHANGED <<paper, saleOf, tradeRows, doubled>>
    BY <1>3 DEF BookBuy
  <2> SUFFICES ASSUME lostRows' = 0, ~doubled'
               PROVE  /\ SalesOnce(posRows', tradeRows', saleOf')
                      /\ ~paper' => RowsMatch(posRows', saleOf', held')
    BY <2>1 DEF BooksSafe
  <2>a. PICK even \in BOOLEAN : posRows' = BuyApplied(s, n, even)
    BY <1>0, <2>1 DEF Lose, BooksInv
  <2>2. /\ posRows' = BuyApplied(s, n, even) /\ SalesOnce(posRows, tradeRows, saleOf)
        /\ ~paper => RowsMatch(posRows, saleOf, held)
    BY <1>0, <2>1, <2>a DEF Lose, BooksSafe
  <2> DEFINE new == [id |-> Cardinality(posRows) + 1, sym |-> s, entry |-> minute, qty |-> n,
                     profit |-> {}, closedAt |-> 0, even |-> even]
  <2>3. /\ held'[s].qty = n /\ held'[s].booked
        /\ \A q \in BookSymbols \ {s} : held'[q] = held[q]
    BY <2>1 DEF BooksInv
  <2>4. CASE OpenRows(posRows, s) = {}
    <3>1. posRows' = posRows \cup {new}
      BY <2>2, <2>4 DEF BuyApplied
    <3>2. new.sym = s /\ new.qty = n /\ new.profit = {} /\ new.closedAt = 0
      OBVIOUS
    <3> HIDE DEF new
    <3>3. SalesOnce(posRows', tradeRows, saleOf)
      BY <2>2, <3>1, <3>2, OnceAfterBuy
    <3>4. ASSUME ~paper PROVE RowsMatch(posRows', saleOf, held')
      <4>1. RowsMatch(posRows, saleOf, held)
        BY <2>2, <3>4
      <4>2. /\ OpenRows(posRows', s) = {new} /\ new \in posRows'
            /\ \A q \in BookSymbols \ {s} : OpenRows(posRows', q) = OpenRows(posRows, q)
        BY <2>4, <3>1, <3>2 DEF OpenRows
      <4>3. \A q \in BookSymbols :
              \/ /\ held'[q].booked /\ held'[q].qty > 0
                 /\ \E r \in posRows' : OpenRows(posRows', q) = {r} /\ r.qty = held'[q].qty
              \/ ~(held'[q].booked /\ held'[q].qty > 0) /\ OpenRows(posRows', q) = {}
        <5>1. held'[s].qty > 0 /\ new.qty = held'[s].qty
          BY <2>3, <3>2
        <5>2. \A q \in BookSymbols \ {s} :
                \/ /\ held[q].booked /\ held[q].qty > 0
                   /\ \E r \in posRows : OpenRows(posRows, q) = {r} /\ r.qty = held[q].qty
                \/ ~(held[q].booked /\ held[q].qty > 0) /\ OpenRows(posRows, q) = {}
          BY <4>1 DEF RowsMatch
        <5>3. posRows \subseteq posRows'
          BY <3>1
        <5> QED
          BY <2>3, <4>2, <5>1, <5>2, <5>3
      <4>4. \A x \in DOMAIN saleOf : saleOf[x].booked =>
              \E r \in posRows' : \E p \in r.profit : p.sale = x /\ p.qty = saleOf[x].qty
        BY <3>1, <4>1 DEF RowsMatch
      <4>5. \A q \in BookSymbols : \A r \in OpenRows(posRows', q) : \A p \in r.profit :
              saleOf[p.sale].trip = held'[q].trip
        BY <2>3, <3>2, <4>1, <4>2 DEF RowsMatch
      <4> QED
        BY <4>3, <4>4, <4>5 DEF RowsMatch
    <3> QED
      BY <2>1, <3>3, <3>4
  <2>5. CASE OpenRows(posRows, s) # {}
    <3> DEFINE r == Oldest(OpenRows(posRows, s))
               more == [r EXCEPT !.qty = r.qty + n]
    <3>1. \A x \in OpenRows(posRows, s) : x.entry \in Nat
      BY DEF OpenRows, BooksInv, RowOK, RowsOf
    <3>2. r \in posRows /\ posRows' = (posRows \ {r}) \cup {more}
      BY <2>2, <2>5, <3>1, OldestIs DEF BuyApplied, OpenRows
    <3> HIDE DEF r
    <3>3. r \in RowsOf(m)
      BY <3>2 DEF BooksInv, RowOK
    <3>4. more.profit = r.profit /\ more.sym = r.sym /\ more.closedAt = r.closedAt
      BY <3>3 DEF RowsOf
    <3> HIDE DEF more
    <3>5. SalesOnce(posRows', tradeRows, saleOf)
      BY <2>2, <3>2, <3>4, OnceAfterBuy
    <3>6. paper
      BY <2>1, <2>2, <2>5 DEF RowsMatch
    <3> QED
      BY <2>1, <3>5, <3>6
  <2> QED
    BY <2>4, <2>5
<1>4. ASSUME NEW s \in BookSymbols, AdoptShares(s)
      PROVE  BooksSafe'
  <2>1. /\ held[s].qty = 0
        /\ held' = [held EXCEPT ![s] = [qty |-> shares[s], trip |-> held[s].trip + 1,
                                        booked |-> FALSE]]
        /\ UNCHANGED <<paper, saleOf, posRows, tradeRows, lostRows, doubled>>
    BY <1>4 DEF AdoptShares
  <2>2. ~held'[s].booked /\ \A q \in BookSymbols \ {s} : held'[q] = held[q]
    BY <2>1 DEF BooksInv
  <2>3. ASSUME RowsMatch(posRows, saleOf, held) PROVE RowsMatch(posRows, saleOf, held')
    <3>1. OpenRows(posRows, s) = {}
      BY <2>1, <2>3 DEF RowsMatch
    <3> QED
      BY <2>2, <2>3, <3>1 DEF RowsMatch
  <2> QED
    BY <2>1, <2>3 DEF BooksSafe
<1>5. ASSUME NEW s \in BookSymbols, NEW n \in 1 .. MaxLot, SellPart(s, n)
      PROVE  BooksSafe'
  <2>1. PICK k \in {1, 2} : Sold(s, n, k) /\ Recorded(s, n, k) /\ UNCHANGED tradeRows
    BY <1>5 DEF SellPart
  <2>2. doubled' = (doubled \/ k = 2) /\ UNCHANGED paper
    BY <2>1 DEF Sold
  <2>3. CASE lostRows' = 0 /\ ~doubled'
    <3>1. k = 1 /\ ~doubled
      BY <2>2, <2>3
    <3>2. UNCHANGED lostRows /\ Record(s, n, 1)
      BY <1>0, <2>1, <2>3, <3>1 DEF Recorded, Lose
    <3>3. posRows' = SellApplied(posRows, s, n, first)
      BY <3>2 DEF Record
    <3>4. SalesOnce(posRows, tradeRows, saleOf) /\ (~paper => RowsMatch(posRows, saleOf, held))
      BY <2>3, <3>1, <3>2 DEF BooksSafe
    <3>5. Sold(s, n, 1) /\ m = Len(saleOf)
      BY <2>1, <3>1
    <3> HIDE DEF first, m
    <3>6. /\ SalesOnce(posRows', tradeRows, saleOf')
          /\ RowsMatch(posRows, saleOf, held) => RowsMatch(posRows', saleOf', held')
      BY <1>0, <3>3, <3>4, <3>5, SaleStep
    <3> QED
      BY <2>1, <2>2, <3>4, <3>6 DEF BooksSafe
  <2> QED
    BY <2>1, <2>3 DEF BooksSafe
<1>6. ASSUME NEW s \in BookSymbols, SellRest(s)
      PROVE  BooksSafe'
  <2> DEFINE n == held[s].qty
  <2>1. n \in 1 .. MaxLot /\ Sold(s, n, 1)
    BY <1>6 DEF SellRest, Sold, BooksInv, MinQty
  <2>2. doubled' = doubled /\ UNCHANGED <<paper, minute>>
    BY <1>0, <2>1 DEF Sold
  <2>3. /\ paper => TradeRow(s, n) /\ Record(s, n, 0) /\ UNCHANGED lostRows
        /\ ~paper => (TradeRow(s, n) \/ UNCHANGED tradeRows) /\ Recorded(s, n, 1)
    BY <1>6 DEF SellRest
  <2>n. n = held[s].qty
    OBVIOUS
  <2> HIDE DEF n
  <2>4. IsFiniteSet(tradeRows')
    BY <2>3, FS_AddElement DEF TradeRow, BooksSafe
  <2> SUFFICES ASSUME lostRows' = 0, ~doubled'
               PROVE  /\ SalesOnce(posRows', tradeRows', saleOf')
                      /\ ~paper' => RowsMatch(posRows', saleOf', held')
    BY <2>4 DEF BooksSafe
  <2>5. /\ UNCHANGED lostRows
        /\ paper => posRows' = posRows
        /\ ~paper => posRows' = SellApplied(posRows, s, n, first)
    BY <1>0, <2>3 DEF Recorded, Record, Lose
  <2>6. SalesOnce(posRows, tradeRows, saleOf) /\ (~paper => RowsMatch(posRows, saleOf, held))
    BY <2>2, <2>5 DEF BooksSafe
  <2>m. m = Len(saleOf)
    OBVIOUS
  <2> DEFINE Q == SellApplied(posRows, s, n, first)
  <2> HIDE DEF first, m, Q
  <2>7. /\ m \in Nat /\ tradeRows \subseteq TradesOf(m)
        /\ SalesOnce(posRows, tradeRows, saleOf') /\ SalesOnce(Q, tradeRows, saleOf')
        /\ saleOf'[m + 1].qty = n /\ saleOf'[m + 1].sym = s
        /\ \A r \in posRows : \A p \in r.profit : p.sale # m + 1
        /\ RowsMatch(posRows, saleOf, held) => RowsMatch(Q, saleOf', held')
        /\ RowsMatch(posRows, saleOf, held) /\ n = held[s].qty =>
             \A r \in Q : \A p \in r.profit : p.sale = m + 1 => r.closedAt = minute
    BY <1>0, <2>1, <2>6, <2>m, SaleStep DEF Q
  <2>8. /\ SalesOnce(posRows', tradeRows, saleOf')
        /\ ~paper => RowsMatch(posRows', saleOf', held')
        /\ \A r \in posRows' : \A p \in r.profit : p.sale = m + 1 => r.closedAt = minute
    BY <2>5, <2>6, <2>7, <2>n DEF Q
  <2>9. CASE UNCHANGED tradeRows
    BY <2>2, <2>8, <2>9
  <2>10. CASE TradeRow(s, n)
    <3>1. PICK at \in ExitMinutes :
             tradeRows' = tradeRows \cup {[sale |-> NextSale, sym |-> s, qty |-> n, at |-> at]}
      BY <2>10 DEF TradeRow
    <3> DEFINE t == [sale |-> NextSale, sym |-> s, qty |-> n, at |-> at]
    <3>2. /\ t.sale = m + 1 /\ t.qty = saleOf'[m + 1].qty /\ t.sym = saleOf'[m + 1].sym
          /\ DayOf(t.at) = DayOf(minute) /\ tradeRows' = tradeRows \cup {t}
      BY <2>7, <2>m, <3>1 DEF NextSale, ExitMinutes
    <3> HIDE DEF t
    <3>3. \A r \in posRows' : \A p \in r.profit :
            p.sale = m + 1 => r.closedAt > 0 /\ DayOf(r.closedAt) = DayOf(t.at)
      BY <2>8, <3>2, BooksNumbers DEF BooksInv
    <3>4. SalesOnce(posRows', tradeRows', saleOf')
      BY <2>7, <2>8, <3>2, <3>3, OnceAfterTrade
    <3> QED
      BY <2>2, <2>8, <3>4
  <2> QED
    BY <2>3, <2>9, <2>10
<1> QED
  BY <1>1, <1>2, <1>3, <1>4, <1>5, <1>6 DEF BooksNext

(* The fill of a sale is recorded in its row.                              *)
LEMMA FillsAfterSale ==
  ASSUME BooksInv, FillsMatch, NEW s \in BookSymbols, NEW n \in 1 .. MaxLot, Sold(s, n, 1),
         \/ Record(s, n, 0)
         \/ Record(s, n, 1)
  PROVE  FillsMatch'
<1> DEFINE first == Cardinality(fillRows) + 1
           m == Len(saleOf)
           fill == [fill |-> first, sale |-> m + 1, sym |-> s, qty |-> n, at |-> minute]
<1>1. /\ saleOf \in Seq(SaleRecords) /\ m \in Nat /\ NextSale = m + 1 /\ minute \in Nat \ {0}
      /\ \A r \in posRows : RowOK(r, m)
      /\ n \in Nat \ {0} /\ first \in Nat /\ minute' = minute
  BY BooksNumbers, FS_CardinalityType DEF BooksInv, NextSale, Sold
<1>2. PICK sale \in SaleRecords : saleOf' = Append(saleOf, sale) /\ sale.qty = n
  BY SoldIs
<1>3. /\ Len(saleOf') = m + 1 /\ \A i \in 1 .. m : saleOf'[i] = saleOf[i]
      /\ saleOf'[m + 1].qty = n
  BY <1>1, <1>2, Appended, AppendProperties
<1>4. \A r \in posRows : \A p \in r.profit : \E f \in fillRows :
        f.sym = r.sym /\ f.at >= r.entry /\ f.sale = p.sale
  BY DEF FillsMatch, SoldSince
<1>5. CASE posRows' = posRows /\ fillRows' = fillRows
  BY <1>1, <1>3, <1>5 DEF FillsMatch, SoldSince
<1>6. CASE posRows' = SellApplied(posRows, s, n, first) /\ fillRows' = fillRows \cup {fill}
  <2>1. /\ fill.sale = m + 1 /\ fill.qty = n /\ fill.sym = s /\ fill.at = minute
        /\ fillRows' = fillRows \cup {fill}
    BY <1>6
  <2> HIDE DEF fill
  <2>2. \A f \in fillRows' : f.sale \in 1 .. m + 1 /\ f.qty = saleOf'[f.sale].qty
    BY <1>1, <1>3, <2>1 DEF FillsMatch
  <2>3. \A f, g \in fillRows' : f.sale = g.sale => f = g
    BY <1>1, <2>1 DEF FillsMatch
  <2>4. CASE OpenRows(posRows, s) = {}
    <3>1. posRows' = posRows
      BY <1>6, <2>4 DEF SellApplied
    <3>2. \A r \in posRows' : \A p \in r.profit : \E f \in fillRows' :
            f.sym = r.sym /\ f.at >= r.entry /\ f.sale = p.sale
      BY <1>4, <2>1, <3>1
    <3> QED
      BY <1>1, <1>3, <2>2, <2>3, <3>1, <3>2 DEF FillsMatch, SoldSince
  <2>5. CASE OpenRows(posRows, s) # {}
    <3>1. OneRowSold(posRows, m, s, n, first)
      BY <1>1, <2>5, RowSold
    <3>2. PICK r \in OpenRows(posRows, s), new \in RowsOf(m + 1), cut \in 1 .. n :
            /\ SellApplied(posRows, s, n, first) = (posRows \ {r}) \cup {new}
            /\ new.sym = r.sym /\ new.entry = r.entry
            /\ new.profit = r.profit \cup {[fill |-> first, sale |-> m + 1, qty |-> cut]}
      BY <3>1 DEF OneRowSold
    <3>3. r \in posRows /\ r.sym = s /\ posRows' = (posRows \ {r}) \cup {new} /\ r.entry <= minute
      BY <1>6, <3>2 DEF OpenRows, FillsMatch
    <3>4. \A q \in posRows' : q.entry <= minute
      BY <3>2, <3>3 DEF FillsMatch
    <3>5. \A p \in new.profit : p \in r.profit \/ p.sale = m + 1
      BY <3>2
    <3>6. r.entry \in Nat
      BY <1>1, <3>3 DEF RowOK, RowsOf
    <3>7. \A p \in new.profit : \E f \in fillRows' :
            f.sym = new.sym /\ f.at >= new.entry /\ f.sale = p.sale
      BY <1>1, <1>4, <2>1, <3>2, <3>3, <3>5, <3>6
    <3>8. \A q \in posRows' : \A p \in q.profit : \E f \in fillRows' :
            f.sym = q.sym /\ f.at >= q.entry /\ f.sale = p.sale
      BY <1>4, <2>1, <3>3, <3>7
    <3> QED
      BY <1>1, <1>3, <2>2, <2>3, <3>4, <3>8 DEF FillsMatch, SoldSince
  <2> QED
    BY <2>4, <2>5
<1> QED
  BY <1>1, <1>5, <1>6 DEF Record

LEMMA BooksFillsStep ==
  ASSUME BooksInv, BooksFills, [BooksNext]_booksVars
  PROVE  BooksFills'
<1>0. lostRows \in Nat /\ doubled \in BOOLEAN /\ minute \in Nat /\ Len(saleOf) \in Nat
  BY BooksNumbers DEF BooksInv
<1>1. CASE UNCHANGED booksVars
  BY <1>1 DEF booksVars, BooksFills, FillsMatch, SoldSince
<1>2. CASE \E s \in BookSymbols : AdoptShares(s) \/ \E n \in 1 .. MaxLot : BuyFillsLate(s, n)
  BY <1>2 DEF AdoptShares, BuyFillsLate, BooksFills, FillsMatch, SoldSince
<1>3. CASE MinutePasses
  <2>1. \A r \in posRows : r.entry \in Nat
    BY DEF BooksInv, RowOK, RowsOf
  <2> QED
    BY <1>0, <1>3, <2>1 DEF MinutePasses, BooksFills, FillsMatch, SoldSince
<1>4. ASSUME NEW s \in BookSymbols, NEW n \in 1 .. MaxLot, BookBuy(s, n)
      PROVE  BooksFills'
  <2>1. /\ ((\E even \in BOOLEAN : posRows' = BuyApplied(s, n, even)) /\ UNCHANGED lostRows)
           \/ Lose
        /\ UNCHANGED <<minute, saleOf, fillRows, doubled>>
    BY <1>4 DEF BookBuy
  <2> SUFFICES ASSUME lostRows' = 0, ~doubled' PROVE FillsMatch'
    BY DEF BooksFills
  <2>2. PICK even \in BOOLEAN : posRows' = BuyApplied(s, n, even)
    BY <1>0, <2>1 DEF Lose
  <2>3. FillsMatch
    BY <1>0, <2>1 DEF Lose, BooksFills
  <2>4. CASE OpenRows(posRows, s) = {}
    <3> DEFINE new == [id |-> Cardinality(posRows) + 1, sym |-> s, entry |-> minute, qty |-> n,
                       profit |-> {}, closedAt |-> 0, even |-> even]
    <3>1. posRows' = posRows \cup {new} /\ new.entry = minute /\ new.profit = {}
      BY <2>2, <2>4 DEF BuyApplied
    <3> HIDE DEF new
    <3> QED
      BY <1>0, <2>1, <2>3, <3>1 DEF FillsMatch, SoldSince
  <2>5. CASE OpenRows(posRows, s) # {}
    <3> DEFINE r == Oldest(OpenRows(posRows, s))
               more == [r EXCEPT !.qty = r.qty + n]
    <3>1. \A x \in OpenRows(posRows, s) : x.entry \in Nat
      BY DEF OpenRows, BooksInv, RowOK, RowsOf
    <3>2. r \in posRows /\ posRows' = (posRows \ {r}) \cup {more}
      BY <2>2, <2>5, <3>1, OldestIs DEF BuyApplied, OpenRows
    <3> HIDE DEF r
    <3>3. r \in RowsOf(Len(saleOf))
      BY <3>2 DEF BooksInv, RowOK
    <3>4. more.profit = r.profit /\ more.sym = r.sym /\ more.entry = r.entry
      BY <3>3 DEF RowsOf
    <3> HIDE DEF more
    <3> QED
      BY <2>1, <2>3, <3>2, <3>4 DEF FillsMatch, SoldSince
  <2> QED
    BY <2>4, <2>5
<1>5. ASSUME NEW s \in BookSymbols, NEW n \in 1 .. MaxLot, SellPart(s, n)
      PROVE  BooksFills'
  <2> SUFFICES ASSUME lostRows' = 0, ~doubled' PROVE FillsMatch'
    BY DEF BooksFills
  <2>1. PICK k \in {1, 2} : Sold(s, n, k) /\ Recorded(s, n, k)
    BY <1>5 DEF SellPart
  <2>2. k = 1 /\ ~doubled
    BY <1>0, <2>1 DEF Sold
  <2>3. Record(s, n, 1) /\ lostRows = 0
    BY <1>0, <2>1, <2>2 DEF Recorded, Lose
  <2> QED
    BY <2>1, <2>2, <2>3, FillsAfterSale DEF BooksFills
<1>6. ASSUME NEW s \in BookSymbols, SellRest(s)
      PROVE  BooksFills'
  <2> DEFINE n == held[s].qty
  <2> SUFFICES ASSUME lostRows' = 0, ~doubled' PROVE FillsMatch'
    BY DEF BooksFills
  <2>1. n \in 1 .. MaxLot /\ Sold(s, n, 1) /\ ~doubled
    BY <1>0, <1>6 DEF SellRest, Sold, BooksInv, MinQty
  <2>2. \/ Record(s, n, 0) /\ UNCHANGED lostRows
        \/ Recorded(s, n, 1)
    BY <1>6 DEF SellRest
  <2> HIDE DEF n
  <2>3. (Record(s, n, 0) \/ Record(s, n, 1)) /\ lostRows = 0
    BY <1>0, <2>2 DEF Recorded, Lose
  <2> QED
    BY <2>1, <2>3, FillsAfterSale DEF BooksFills
<1> QED
  BY <1>1, <1>2, <1>3, <1>4, <1>5, <1>6 DEF BooksNext

(* A sum with one term that is not zero.                                   *)
LEMMA SumOne ==
  ASSUME NEW S, IsFiniteSet(S), NEW f, NEW x \in S, f[x] \in Int, \A y \in S \ {x} : f[y] = 0
  PROVE  SumFunctionOnSet(f, S) = f[x]
<1>1. SumFunctionOnSet(f, S) = SumFunctionOnSet(f, {x})
  <2>1. /\ {x} \in SUBSET S /\ \A y \in S : f[y] \in Int
        /\ \A y \in {x} : f[y] = f[y]
        /\ \A y \in S \ {x} : f[y] = 0
    OBVIOUS
  <2> QED
    BY <2>1, SumSubset
<1>2. SumFunctionOnSet(f, {x}) = f[x] + SumFunctionOnSet(f, {})
  <2>1. IsFiniteSet({x}) /\ {x} \ {x} = {} /\ \A y \in {x} : f[y] \in Int
    BY FS_Singleton
  <2>2. \A y \in {x} : SumFunctionOnSet(f, {x}) = f[y] + SumFunctionOnSet(f, {x} \ {y})
    BY <2>1, SumRemove
  <2> QED
    BY <2>1, <2>2
<1> QED
  BY <1>1, <1>2, SumEmpty

(* Shares of a sale in an entry that has it once, or not.                  *)
LEMMA QtyIs ==
  ASSUME NEW P
  PROVE  /\ P = {} => SumQty(P) = 0
         /\ \A p : P = {p} /\ p.qty \in Int => SumQty(P) = p.qty
<1> DEFINE f == [x \in P |-> x.qty]
<1>1. SumQty(P) = SumFunctionOnSet(f, P)
  BY DEF SumQty, SumFunction
<1>2. \A x \in P : f[x] = x.qty
  OBVIOUS
<1> HIDE DEF f
<1>3. P = {} => SumQty(P) = 0
  BY <1>1, SumEmpty
<1>4. ASSUME NEW p, P = {p}, p.qty \in Int PROVE SumQty(P) = p.qty
  <2>1. IsFiniteSet(P) /\ p \in P /\ f[p] = p.qty /\ \A y \in P \ {p} : f[y] = 0
    BY <1>2, <1>4, FS_Singleton
  <2>2. SumFunctionOnSet(f, P) = f[p]
    BY <1>4, <2>1, SumOne
  <2> QED
    BY <1>1, <2>1, <2>2
<1> QED
  BY <1>3, <1>4

(* The values of a function at finitely many arguments are finitely many.  *)
LEMMA ImageFinite ==
  ASSUME NEW S, IsFiniteSet(S), NEW f
  PROVE  IsFiniteSet({f[x] : x \in S})
<1> DEFINE P == {T \in SUBSET S : IsFiniteSet({f[x] : x \in T})}
<1>1. {} \in P
  <2>1. {f[x] : x \in {}} = {}
    OBVIOUS
  <2> QED
    BY <2>1, FS_EmptySet
<1>2. ASSUME NEW T \in P, NEW y \in S \ T PROVE T \cup {y} \in P
  <2>1. {f[x] : x \in T \cup {y}} = {f[x] : x \in T} \cup {f[y]}
    OBVIOUS
  <2>2. IsFiniteSet({f[x] : x \in T} \cup {f[y]})
    BY FS_AddElement
  <2> QED
    BY <2>1, <2>2
<1>3. S \in P
  <2>1. P \in SUBSET (SUBSET S)
    OBVIOUS
  <2>2. \A T \in P : \A y \in S \ T : T \cup {y} \in P
    BY <1>2
  <2> HIDE DEF P
  <2> QED
    BY <1>1, <2>1, <2>2, SubsetInduction
<1> QED
  BY <1>3

(* What is reported is what the one entry that has the sale says.          *)
LEMMA ReportedIs ==
  ASSUME BooksInv, IsFiniteSet(tradeRows), NEW x
  PROVE  /\ IsFiniteSet(Period(0))
         /\ (\A e \in Completed : \A p \in e.profit : p.sale # x) => ReportedOf(x, 0) = 0
         /\ \A e \in Period(0) : \A p \in e.profit :
              /\ p.sale = x /\ p.qty \in Int
              /\ \A o \in e.profit : o.sale = x => o = p
              /\ \A d \in Completed : \A o \in d.profit : o.sale = x => d = e
              => ReportedOf(x, 0) = p.qty
<1> DEFINE E == Period(0)
           Sale(e) == {p \in e.profit : p.sale = x}
           g == [e \in E |-> SumQty(Sale(e))]
<1>1. IsFiniteSet(E)
  <2>1. IsFiniteSet(posRows)
    BY DEF BooksInv
  <2>2. IsFiniteSet({RowEntry(r) : r \in {q \in posRows : q.closedAt > 0}})
    <3> DEFINE C == {q \in posRows : q.closedAt > 0}
               f == [r \in C |-> RowEntry(r)]
    <3>1. IsFiniteSet(C)
      BY <2>1, FS_Subset
    <3>2. {RowEntry(r) : r \in C} = {f[r] : r \in C}
      OBVIOUS
    <3> HIDE DEF C
    <3>3. IsFiniteSet({f[r] : r \in C})
      BY <3>1, ImageFinite
    <3> QED
      BY <3>2, <3>3 DEF C
  <2>3. IsFiniteSet(TradeEntries)
    <3> DEFINE C == {u \in Unhidden : Taken[u]}
               f == [t \in C |-> TradeEntry(t)]
    <3>1. C \subseteq tradeRows
      BY DEF Unhidden
    <3>2. {TradeEntry(t) : t \in C} = {f[t] : t \in C}
      OBVIOUS
    <3> HIDE DEF C
    <3>3. IsFiniteSet(C)
      BY <3>1, FS_Subset
    <3>4. IsFiniteSet({f[t] : t \in C})
      BY <3>3, ImageFinite
    <3> QED
      BY <3>2, <3>4 DEF TradeEntries, C
  <2>4. IsFiniteSet(Completed)
    BY <2>2, <2>3, FS_Union DEF Completed, RowEntries
  <2> QED
    BY <2>4, FS_Subset DEF Period
<1>2. ReportedOf(x, 0) = SumFunctionOnSet(g, E)
  BY DEF ReportedOf, SumFunction
<1>3. \A e \in E : g[e] = SumQty(Sale(e)) /\ e \in Completed
  BY DEF Period
<1> HIDE DEF E, g
<1>4. ASSUME \A e \in Completed : \A p \in e.profit : p.sale # x
      PROVE  ReportedOf(x, 0) = 0
  <2>1. ASSUME NEW e \in E PROVE g[e] = 0
    <3>1. Sale(e) = {}
      BY <1>3, <1>4
    <3> HIDE DEF Sale
    <3>2. SumQty(Sale(e)) = 0
      BY <3>1, QtyIs
    <3> QED
      BY <1>3, <3>2
  <2> QED
    BY <1>1, <1>2, <2>1, SumZero
<1>5. ASSUME NEW e \in E, NEW p \in e.profit, p.sale = x, p.qty \in Int,
             \A o \in e.profit : o.sale = x => o = p,
             \A d \in Completed : \A o \in d.profit : o.sale = x => d = e
      PROVE  ReportedOf(x, 0) = p.qty
  <2>1. g[e] = p.qty
    <3>1. Sale(e) = {p}
      BY <1>5
    <3> HIDE DEF Sale
    <3>2. SumQty(Sale(e)) = p.qty
      BY <1>5, <3>1, QtyIs
    <3> QED
      BY <1>3, <3>2
  <2>2. ASSUME NEW d \in E \ {e} PROVE g[d] = 0
    <3>1. Sale(d) = {}
      BY <1>3, <1>5
    <3> HIDE DEF Sale
    <3>2. SumQty(Sale(d)) = 0
      BY <3>1, QtyIs
    <3> QED
      BY <1>3, <3>2
  <2>3. g[e] \in Int
    BY <1>5, <2>1
  <2>4. SumFunctionOnSet(g, E) = g[e]
    BY <1>1, <2>2, <2>3, SumOne
  <2> QED
    BY <1>2, <2>1, <2>4
<1> QED
  BY <1>1, <1>4, <1>5 DEF E

(* The entry of a row has the sales that are in the row, if no other's were *)
(* taken for its own.                                                       *)
EntryHas(r, x) ==
  /\ \A o \in RowEntry(r).profit : o.sale = x =>
       /\ o.qty \in Int /\ o.qty <= saleOf[x].qty
       /\ \E p \in r.profit : p.sale = x
       /\ \A q \in RowEntry(r).profit : q.sale = x => q = o
  /\ \A p \in r.profit : p.sale = x =>
       \E o \in RowEntry(r).profit : o.sale = x /\ (p.qty = saleOf[x].qty => o.qty = p.qty)

LEMMA EntryIs ==
  ASSUME BooksInv, FillsMatch, SalesOnce(posRows, tradeRows, saleOf), NEW x \in SalesMade,
         ~TakenForOwn(x), NEW r \in posRows, r.closedAt > 0
  PROVE  EntryHas(r, x)
<1>1. /\ saleOf[x].qty \in Nat /\ RowOK(r, Len(saleOf))
  <2>1. x \in DOMAIN saleOf /\ saleOf \in Seq(SaleRecords)
    BY DEF SalesMade, BooksInv
  <2>2. saleOf[x] \in SaleRecords
    BY <2>1, ElementOfSeq
  <2> QED
    BY <2>2, BooksNumbers DEF SaleRecords, BooksInv
<1>2. \A p \in r.profit : p.qty \in Nat
  BY <1>1 DEF RowOK, RowsOf, Profits
<1>3. CASE ~r.even
  <2>1. RowEntry(r).profit = r.profit
    BY <1>3 DEF RowEntry
  <2> QED
    BY <1>2, <2>1 DEF EntryHas, SalesOnce
<1>4. CASE r.even
  <2>1. RowEntry(r).profit
          = {[fill |-> f.fill, sale |-> f.sale, qty |-> f.qty] : f \in SoldSince(r)}
    BY <1>4 DEF RowEntry
  <2>2. \A f \in SoldSince(r) : f \in fillRows
    BY DEF SoldSince
  <2>3. \A o \in RowEntry(r).profit : \E f \in SoldSince(r) :
          o = [fill |-> f.fill, sale |-> f.sale, qty |-> f.qty]
    BY <2>1
  <2>4. ASSUME NEW o \in RowEntry(r).profit, o.sale = x
        PROVE  /\ o.qty = saleOf[x].qty
               /\ \E p \in r.profit : p.sale = x
               /\ \A q \in RowEntry(r).profit : q.sale = x => q = o
    <3>1. PICK f \in SoldSince(r) : o = [fill |-> f.fill, sale |-> f.sale, qty |-> f.qty]
      BY <2>3
    <3>2. f.sale = x /\ f \in fillRows /\ f.qty = saleOf[x].qty /\ o.qty = f.qty
      BY <2>2, <2>4, <3>1 DEF FillsMatch
    <3>3. \E p \in r.profit : p.sale = x
      BY <1>4, <3>2 DEF TakenForOwn
    <3>4. ASSUME NEW q \in RowEntry(r).profit, q.sale = x PROVE q = o
      <4>1. PICK g \in SoldSince(r) : q = [fill |-> g.fill, sale |-> g.sale, qty |-> g.qty]
        BY <2>3
      <4>2. g.sale = f.sale /\ g \in fillRows
        BY <2>2, <3>2, <3>4, <4>1
      <4>3. g = f
        BY <3>2, <4>2 DEF FillsMatch
      <4> QED
        BY <3>1, <4>1, <4>3
    <3> QED
      BY <3>2, <3>3, <3>4
  <2>5. ASSUME NEW p \in r.profit, p.sale = x
        PROVE  \E o \in RowEntry(r).profit :
                 o.sale = x /\ (p.qty = saleOf[x].qty => o.qty = p.qty)
    <3>1. PICK f \in SoldSince(r) : f.sale = x
      BY <2>5 DEF FillsMatch
    <3>2. f.qty = saleOf[x].qty
      BY <2>2, <3>1 DEF FillsMatch
    <3>3. [fill |-> f.fill, sale |-> f.sale, qty |-> f.qty] \in RowEntry(r).profit
      BY <2>1
    <3> QED
      BY <3>1, <3>2, <3>3
  <2> QED
    BY <1>1, <2>4, <2>5 DEF EntryHas
<1>5. r.even \in BOOLEAN
  BY <1>1 DEF RowOK, RowsOf
<1> QED
  BY <1>3, <1>4, <1>5

LEMMA BooksPromise == BooksInv /\ BooksSafe /\ BooksFills => ProfitReportedOnce
<1> SUFFICES ASSUME BooksInv, BooksSafe, BooksFills, lostRows = 0, ~doubled, NEW x \in SalesMade,
                    ~TakenForOwn(x)
             PROVE  /\ ReportedOf(x, 0) <= saleOf[x].qty
                    /\ ~paper /\ saleOf[x].booked /\ Finished(x) => ReportedOf(x, 0) = saleOf[x].qty
  BY DEF ProfitReportedOnce
<1>1. /\ SalesOnce(posRows, tradeRows, saleOf) /\ IsFiniteSet(tradeRows)
      /\ ~paper => RowsMatch(posRows, saleOf, held)
  BY DEF BooksSafe
<1>2. /\ saleOf \in Seq(SaleRecords) /\ x \in 1 .. Len(saleOf) /\ saleOf[x].qty \in Nat
      /\ \A r \in posRows : RowOK(r, Len(saleOf))
  <2>1. /\ saleOf \in Seq(SaleRecords) /\ DOMAIN saleOf = 1 .. Len(saleOf)
        /\ \A r \in posRows : RowOK(r, Len(saleOf))
    BY LenProperties DEF BooksInv
  <2>2. saleOf[x] \in SaleRecords
    BY <2>1, ElementOfSeq DEF SalesMade
  <2>3. saleOf[x].qty \in Nat
    BY <2>2, BooksNumbers DEF SaleRecords
  <2> QED
    BY <2>1, <2>3 DEF SalesMade
<1>3. \A r \in posRows : /\ r.sym \in BookSymbols /\ r.closedAt \in Nat
                         /\ \A p \in r.profit : p.qty \in Nat
  BY <1>2 DEF RowOK, RowsOf, Profits
<1>4. /\ \A r : RowEntry(r).at = r.closedAt /\ RowEntry(r).sym = r.sym
      /\ \A r \in posRows : r.closedAt > 0 => EntryHas(r, x)
  BY <1>1, EntryIs DEF RowEntry, BooksFills
<1>5. \A t \in tradeRows : \A p : p \in TradeEntry(t).profit =>
        /\ p = [fill |-> 0, sale |-> t.sale, qty |-> t.qty] /\ p.sale = t.sale /\ p.qty = t.qty
  BY DEF TradeEntry
<1>6. \A e \in Completed :
        \/ \E r \in posRows : r.closedAt > 0 /\ e = RowEntry(r)
        \/ \E t \in tradeRows : ~ClosedSameDay(t) /\ e = TradeEntry(t)
  BY DEF Completed, RowEntries, TradeEntries, Unhidden
<1>7. ASSUME NEW r \in posRows, r.closedAt > 0, NEW p \in r.profit, p.sale = x
      PROVE  /\ ReportedOf(x, 0) <= saleOf[x].qty
             /\ p.qty = saleOf[x].qty => ReportedOf(x, 0) = p.qty
  <2> DEFINE e == RowEntry(r)
  <2>1. e \in RowEntries
    BY <1>7 DEF RowEntries
  <2>2. e \in Completed /\ e \in Period(0)
    BY <1>3, <1>4, <2>1 DEF Completed, Period
  <2>3. PICK c \in e.profit : c.sale = x /\ (p.qty = saleOf[x].qty => c.qty = p.qty)
    BY <1>4, <1>7 DEF EntryHas
  <2>a. /\ c.qty \in Int /\ c.qty <= saleOf[x].qty
        /\ \A o \in e.profit : o.sale = x => o = c
    BY <1>4, <1>7, <2>3 DEF EntryHas
  <2>4. ASSUME NEW d \in Completed, NEW o \in d.profit, o.sale = x PROVE d = e
    <3>1. CASE \E q \in posRows : q.closedAt > 0 /\ d = RowEntry(q)
      <4>1. PICK q \in posRows : q.closedAt > 0 /\ d = RowEntry(q)
        BY <3>1
      <4>2. PICK g \in q.profit : g.sale = x
        BY <1>4, <2>4, <4>1 DEF EntryHas
      <4>3. q = r
        BY <1>1, <1>7, <4>2 DEF SalesOnce
      <4> QED
        BY <4>1, <4>3
    <3>2. CASE \E t \in tradeRows : ~ClosedSameDay(t) /\ d = TradeEntry(t)
      <4>1. PICK t \in tradeRows : ~ClosedSameDay(t) /\ d = TradeEntry(t)
        BY <3>2
      <4>2. t.sale = p.sale
        BY <1>5, <1>7, <2>4, <4>1
      <4>3. DayOf(r.closedAt) = DayOf(t.at) /\ t.sym = r.sym
        BY <1>1, <1>7, <4>2 DEF SalesOnce
      <4>4. ClosedSameDay(t)
        BY <1>4, <2>1, <4>3 DEF ClosedSameDay
      <4> QED
        BY <4>1, <4>4
    <3> QED
      BY <1>6, <3>1, <3>2
  <2> HIDE DEF e
  <2>6. ReportedOf(x, 0) = c.qty
    BY <1>1, <2>2, <2>3, <2>4, <2>a, ReportedIs
  <2> QED
    BY <2>3, <2>6, <2>a
<1>8. ASSUME \A r \in posRows : r.closedAt > 0 => \A p \in r.profit : p.sale # x
      PROVE  ReportedOf(x, 0) <= saleOf[x].qty
  <2>1. ASSUME NEW d \in Completed, NEW o \in d.profit, o.sale = x
        PROVE  \E t \in tradeRows : d = TradeEntry(t) /\ t.sale = x
    <3>1. ~ \E q \in posRows : q.closedAt > 0 /\ d = RowEntry(q)
      BY <1>4, <1>8, <2>1 DEF EntryHas
    <3>2. PICK t \in tradeRows : d = TradeEntry(t)
      BY <1>6, <3>1
    <3> QED
      BY <1>5, <2>1, <3>2
  <2>2. CASE \A d \in Completed : \A o \in d.profit : o.sale # x
    <3>1. ReportedOf(x, 0) = 0
      BY <1>1, <2>2, ReportedIs
    <3> QED
      BY <1>2, <3>1
  <2>3. CASE \E d \in Completed : \E o \in d.profit : o.sale = x
    <3>1. PICK d \in Completed : \E o \in d.profit : o.sale = x
      BY <2>3
    <3>2. PICK t \in tradeRows : d = TradeEntry(t) /\ t.sale = x
      BY <2>1, <3>1
    <3>3. PICK o \in d.profit : o.sale = x
      BY <3>1
    <3>4. o.qty = saleOf[x].qty /\ \A q \in d.profit : q = o
      BY <1>1, <1>5, <3>2, <3>3 DEF SalesOnce
    <3>5. \A c \in Completed : \A q \in c.profit : q.sale = x => c = d
      BY <1>1, <2>1, <3>2 DEF SalesOnce
    <3>6. d \in Period(0)
      <4>1. d.at = t.at /\ t.at \in Nat
        BY <3>2 DEF TradeEntry, BooksInv
      <4> QED
        BY <4>1 DEF Period
    <3>7. ReportedOf(x, 0) = o.qty
      BY <1>1, <1>2, <3>3, <3>4, <3>5, <3>6, ReportedIs
    <3> QED
      BY <1>2, <3>4, <3>7
  <2> QED
    BY <2>2, <2>3
<1>9. ASSUME ~paper, saleOf[x].booked, Finished(x)
      PROVE  ReportedOf(x, 0) = saleOf[x].qty
  <2>1. PICK r \in posRows : \E p \in r.profit : p.sale = x /\ p.qty = saleOf[x].qty
    BY <1>1, <1>9 DEF RowsMatch, SalesMade
  <2>2. PICK p \in r.profit : p.sale = x /\ p.qty = saleOf[x].qty
    BY <2>1
  <2>3. saleOf[x].sym = r.sym
    BY <1>1, <2>2 DEF SalesOnce
  <2>4. ASSUME r.closedAt = 0 PROVE FALSE
    <3>1. r \in OpenRows(posRows, r.sym)
      BY <2>4 DEF OpenRows
    <3>2. held[r.sym].qty > 0 /\ saleOf[x].trip = held[r.sym].trip
      BY <1>1, <1>3, <1>9, <2>2, <3>1 DEF RowsMatch
    <3>3. held[r.sym].qty \in Nat /\ held[r.sym].trip \in Nat
      BY <1>3, BooksNumbers DEF BooksInv
    <3> QED
      BY <1>9, <2>3, <3>2, <3>3 DEF Finished
  <2>5. r.closedAt > 0
    BY <1>3, <2>4
  <2> QED
    BY <1>7, <2>2, <2>5
<1> QED
  BY <1>7, <1>8, <1>9

LEMMA BooksSafeInit == BooksInit => BooksSafe /\ BooksFills
<1> SUFFICES ASSUME BooksInit PROVE BooksSafe /\ BooksFills
  OBVIOUS
<1>1. /\ posRows = {} /\ tradeRows = {} /\ saleOf = <<>>
      /\ held = [s \in BookSymbols |-> [qty |-> 0, trip |-> 0, booked |-> FALSE]]
  BY DEF BooksInit
<1>2. DOMAIN saleOf = {} /\ IsFiniteSet(tradeRows)
  BY <1>1, FS_EmptySet
<1>3. SalesOnce(posRows, tradeRows, saleOf)
  BY <1>1 DEF SalesOnce
<1>4. RowsMatch(posRows, saleOf, held)
  BY <1>1, <1>2 DEF RowsMatch, OpenRows
<1>5. FillsMatch
  BY <1>1 DEF BooksInit, FillsMatch
<1> QED
  BY <1>2, <1>3, <1>4, <1>5 DEF BooksSafe, BooksFills

-----------------------------------------------------------------------------
(* Messages of the user (TelegramChannel).                                 *)

HandlingSteps == {"offset", "seen", "note", "number", "save", "check", "post", "mark"}
Rx(a) == [st : {"off", "built", "idle", "asking", "handling"}, last : 0 .. a,
          batch : Seq(1 .. a), step : HandlingSteps, n : Nat, running : BOOLEAN]

(* A receiver works on a batch exactly while it has one, and a feedback it  *)
(* is about to save has got a number.                                      *)
BatchHeld(x) == /\ (x.st = "handling") <=> (x.batch # <<>>)
                /\ x.step = "save" => x.n # 0

TelegramTypes ==
  /\ rx \in [Receivers -> Rx(arrived)]
  /\ \A r \in Receivers : BatchHeld(rx[r])
  /\ arrived \in 0 .. Len(Updates) /\ kept \in 1 .. arrived + 1 /\ stored \in 0 .. arrived
  /\ pollLock \in Receivers \cup {NoOne}
  /\ processed \subseteq Messages
  /\ answers \in [Messages -> Nat]
  /\ rows \in [DOMAIN rows -> Messages] /\ DOMAIN rows \subseteq Nat \ {0}
  /\ IsFiniteSet(DOMAIN rows)
  /\ shaky \in BOOLEAN /\ troubles \in 0 .. MaxTroubles

Active(x) == x.st \in {"idle", "asking", "handling"}
MessageOf(x) == Updates[Head(x.batch)]
Saved(m) == \E n \in DOMAIN rows : rows[n] = m

(* The message in hand is not answered before it is posted, is known as    *)
(* processed from then on, and a feedback is saved under a number of its   *)
(* own before it is confirmed.                                             *)
InHand(x) ==
  x.st = "handling" =>
    /\ x.step \in {"note", "number", "save", "check", "post"} => answers[MessageOf(x)] = 0
    /\ x.step \in {"number", "save", "check", "post"} => MessageOf(x) \in processed
    /\ x.step = "save" => x.n \in Nat \ {0} /\ DOMAIN rows = 1 .. x.n - 1
    /\ x.step \in {"check", "post"} /\ KindOf[MessageOf(x)] = "feedback" => Saved(MessageOf(x))

(* While nothing the properties excuse has happened, one process receives. *)
OneReceiver == \A r \in Receivers : Active(rx[r]) => pollLock = r

AnswersFollow ==
  /\ \A m \in Messages : answers[m] <= 1
  /\ \A m \in Messages : m \notin processed => answers[m] = 0
  /\ \A m \in Messages : KindOf[m] = "feedback" /\ answers[m] > 0 => Saved(m)
  /\ \E k \in Nat : DOMAIN rows = 1 .. k

TelegramSafe == OneReceiver /\ AnswersFollow /\ \A r \in Receivers : InHand(rx[r])

TelegramInv == TelegramTypes /\ (~shaky => TelegramSafe)

LEMMA HeadTailIs ==
  ASSUME NEW S, NEW b \in Seq(S), b # <<>>
  PROVE  /\ Head(b) \in S /\ Tail(b) \in Seq(S)
         /\ Tail(b) = <<>> <=> Len(b) = 1
<1>1. /\ Head(b) \in S /\ Tail(b) \in Seq(S) /\ Len(Tail(b)) = Len(b) - 1
      /\ Len(b) \in Nat \ {0}
  BY HeadTailProperties, EmptySeq
<1>2. Tail(b) = <<>> => Len(Tail(b)) = 0
  BY EmptySeq
<1>3. Tail(b) # <<>> => Len(Tail(b)) # 0
  BY <1>1, EmptySeq
<1> QED
  BY <1>1, <1>2, <1>3

LEMMA MessageIs ==
  ASSUME TelegramTypes, NEW r \in Receivers, rx[r].st = "handling"
  PROVE  /\ Head(rx[r].batch) \in 1 .. arrived
         /\ Message(r) \in Messages /\ Message(r) = MessageOf(rx[r])
<1>1. rx[r].batch \in Seq(1 .. arrived) /\ rx[r].batch # <<>>
  BY DEF TelegramTypes, Rx, BatchHeld
<1>2. Head(rx[r].batch) \in 1 .. arrived
  BY <1>1, HeadTailIs
<1>3. Head(rx[r].batch) \in 1 .. Len(Updates)
  BY <1>2 DEF TelegramTypes
<1>4. Updates[Head(rx[r].batch)] \in Messages
  BY <1>3, TelegramAssumption
<1> QED
  BY <1>2, <1>4 DEF Message, Update, MessageOf

(* One receiver's record changes.                                          *)
LEMMA GoToIs ==
  ASSUME TelegramTypes, NEW r \in Receivers, NEW step \in HandlingSteps
  PROVE  \E x \in Rx(arrived) :
           /\ GoTo(r, step) = [rx EXCEPT ![r] = x]
           /\ x.st = rx[r].st /\ x.last = rx[r].last /\ x.batch = rx[r].batch
           /\ x.step = step /\ x.n = rx[r].n /\ x.running = rx[r].running
<1> DEFINE x == [rx[r] EXCEPT !.step = step]
<1>1. rx[r] \in Rx(arrived)
  BY DEF TelegramTypes
<1>2. x \in Rx(arrived)
  BY <1>1 DEF Rx
<1>3. /\ x.st = rx[r].st /\ x.last = rx[r].last /\ x.batch = rx[r].batch
      /\ x.step = step /\ x.n = rx[r].n /\ x.running = rx[r].running
  BY <1>1 DEF Rx
<1>4. GoTo(r, step) = [rx EXCEPT ![r] = x]
  BY DEF GoTo
<1> QED
  BY <1>2, <1>3, <1>4

LEMMA NextUpdateIs ==
  ASSUME TelegramTypes, NEW r \in Receivers, rx[r].st = "handling"
  PROVE  \E x \in Rx(arrived) :
           /\ NextUpdate(r) = [rx EXCEPT ![r] = x]
           /\ BatchHeld(x) /\ x.step = "offset" /\ x.st \in {"idle", "handling"}
           /\ x.last = rx[r].last
<1> DEFINE b == rx[r].batch
           to == IF Len(b) = 1 THEN "idle" ELSE "handling"
           t == Tail(b)
           x == [rx[r] EXCEPT !.batch = t, !.step = "offset", !.n = 0, !.st = to]
<1>1. rx[r] \in Rx(arrived) /\ b \in Seq(1 .. arrived) /\ b # <<>>
  BY DEF TelegramTypes, Rx, BatchHeld
<1>2. t \in Seq(1 .. arrived) /\ (t = <<>> <=> Len(b) = 1) /\ to \in {"idle", "handling"}
  BY <1>1, HeadTailIs
<1>3. NextUpdate(r) = [rx EXCEPT ![r] = x]
  BY DEF NextUpdate
<1> HIDE DEF b, t
<1>4. to = "handling" <=> t # <<>>
  BY <1>2
<1> HIDE DEF to
<1>5. /\ x \in Rx(arrived)
      /\ x.st = to /\ x.batch = t /\ x.step = "offset" /\ x.last = rx[r].last
  BY <1>1, <1>2 DEF Rx, HandlingSteps
<1> HIDE DEF x
<1> QED
  BY <1>2, <1>3, <1>4, <1>5 DEF BatchHeld

LEMMA ReceiverStep ==
  ASSUME TelegramTypes, NEW r \in Receivers, NEW x \in Rx(arrived), BatchHeld(x),
         rx' = [rx EXCEPT ![r] = x], UNCHANGED arrived
  PROVE  /\ rx' \in [Receivers -> Rx(arrived')] /\ rx'[r] = x
         /\ \A q \in Receivers : BatchHeld(rx'[q])
         /\ \A q \in Receivers \ {r} : rx'[q] = rx[q]
BY DEF TelegramTypes

(* A step of one receiver: its record fits the tables after it, and only   *)
(* the one receiver that may be at work changes them.                      *)
LEMMA SafeStep ==
  ASSUME TelegramInv, ~shaky, NEW r \in Receivers, NEW x \in Rx(arrived), BatchHeld(x),
         rx' = [rx EXCEPT ![r] = x], UNCHANGED arrived,
         \A q \in Receivers \ {r} : Active(rx[q]) => pollLock' = q,
         Active(x) => pollLock' = r,
         UNCHANGED <<processed, answers, rows>> \/ Active(rx[r]),
         AnswersFollow', InHand(x)'
  PROVE  TelegramSafe'
<1>1. /\ rx'[r] = x /\ \A q \in Receivers \ {r} : rx'[q] = rx[q]
  BY ReceiverStep DEF TelegramInv
<1>2. OneReceiver'
  BY <1>1 DEF OneReceiver, Active
<1>3. ASSUME NEW q \in Receivers PROVE InHand(rx[q])'
  <2>1. CASE q = r
    BY <1>1, <2>1 DEF InHand, MessageOf, Saved
  <2>2. CASE q # r /\ Active(rx[r])
    <3>1. rx[q].st # "handling"
      BY <2>2 DEF TelegramInv, TelegramSafe, OneReceiver, Active
    <3> QED
      BY <1>1, <2>2, <3>1 DEF InHand
  <2>3. CASE q # r /\ UNCHANGED <<processed, answers, rows>>
    <3>1. InHand(rx[q])
      BY DEF TelegramInv, TelegramSafe
    <3> QED
      BY <1>1, <2>3, <3>1 DEF InHand, MessageOf, Saved
  <2> QED
    BY <2>1, <2>2, <2>3
<1> QED
  BY <1>2, <1>3 DEF TelegramSafe

(* Steps of a receiver that leave the tables alone.                        *)
LEMMA QuietStep ==
  ASSUME TelegramInv, NEW r \in Receivers, NEW x \in Rx(arrived), BatchHeld(x),
         rx' = [rx EXCEPT ![r] = x],
         UNCHANGED <<arrived, processed, answers, rows>>,
         kept' \in 1 .. arrived + 1, stored' \in 0 .. arrived,
         pollLock' \in Receivers \cup {NoOne}, shaky' \in BOOLEAN, troubles' \in 0 .. MaxTroubles,
         shaky => shaky',
         ~shaky' => /\ \A q \in Receivers \ {r} : Active(rx[q]) => pollLock' = q
                    /\ Active(x) => pollLock' = r
                    /\ InHand(x)
  PROVE  TelegramInv'
<1>1. /\ rx' \in [Receivers -> Rx(arrived')] /\ rx'[r] = x
      /\ \A q \in Receivers : BatchHeld(rx'[q])
  BY ReceiverStep DEF TelegramInv
<1>2. TelegramTypes'
  BY <1>1 DEF TelegramInv, TelegramTypes, BatchHeld
<1>3. ASSUME ~shaky' PROVE TelegramSafe'
  <2>1. ~shaky
    BY <1>3 DEF TelegramInv, TelegramTypes
  <2>2. AnswersFollow'
    BY <2>1 DEF TelegramInv, TelegramSafe, AnswersFollow, Saved
  <2>3. InHand(x)'
    BY <1>3 DEF InHand, MessageOf, Saved
  <2> QED
    BY <1>3, <2>1, <2>2, <2>3, SafeStep
<1> QED
  BY <1>2, <1>3 DEF TelegramInv

(* A step that may fail: it goes well, or a trouble is counted.            *)
LEMMA TroubleIs ==
  ASSUME TelegramTypes, Fine \/ Shaky
  PROVE  /\ shaky' \in BOOLEAN /\ troubles' \in 0 .. MaxTroubles /\ (shaky => shaky')
         /\ ~shaky' => Fine /\ ~Shaky
<1>1. shaky \in BOOLEAN /\ troubles \in 0 .. MaxTroubles /\ MaxTroubles \in Nat
  BY TelegramAssumption DEF TelegramTypes
<1>2. CASE Fine
  <2>1. shaky' = shaky /\ troubles' = troubles
    BY <1>2 DEF Fine
  <2>2. ~shaky' => ~Shaky
    BY DEF Shaky
  <2> QED
    BY <1>1, <1>2, <2>1, <2>2
<1>3. CASE Shaky
  <2>1. shaky' = TRUE /\ troubles < MaxTroubles /\ troubles' = troubles + 1
    BY <1>3 DEF Shaky, Trouble
  <2>2. troubles' \in 0 .. MaxTroubles
    BY <1>1, <2>1
  <2> QED
    BY <2>1, <2>2
<1> QED
  BY <1>2, <1>3

LEMMA IdleIs ==
  ASSUME NEW a \in Nat, NEW l \in 0 .. a
  PROVE  /\ Idle(l) \in Rx(a) /\ BatchHeld(Idle(l)) /\ Idle(l).st = "idle"
         /\ [Idle(l) EXCEPT !.st = "built"] \in Rx(a) /\ BatchHeld([Idle(l) EXCEPT !.st = "built"])
         /\ [Idle(l) EXCEPT !.st = "built"].st = "built"
         /\ Gone \in Rx(a) /\ BatchHeld(Gone) /\ Gone.st = "off"
<1>1. <<>> \in Seq(1 .. a) /\ l \in 0 .. a /\ 0 \in 0 .. a
  OBVIOUS
<1>2. \A k \in 0 .. a : /\ Idle(k) \in Rx(a) /\ Idle(k).st = "idle" /\ Idle(k).batch = <<>>
                         /\ Idle(k).step = "offset"
  BY <1>1 DEF Idle, Rx, HandlingSteps
<1>3. \A x \in Rx(a) : \A to \in {"off", "built"} :
        /\ [x EXCEPT !.st = to] \in Rx(a) /\ [x EXCEPT !.st = to].st = to
        /\ [x EXCEPT !.st = to].batch = x.batch /\ [x EXCEPT !.st = to].step = x.step
  BY DEF Rx
<1>4. Gone = [Idle(0) EXCEPT !.st = "off"]
  BY DEF Gone
<1>5. Gone \in Rx(a) /\ Gone.st = "off" /\ Gone.batch = <<>> /\ Gone.step = "offset"
  BY <1>1, <1>2, <1>3, <1>4
<1> DEFINE b == [Idle(l) EXCEPT !.st = "built"]
<1>6. b \in Rx(a) /\ b.st = "built" /\ b.batch = <<>> /\ b.step = "offset"
  BY <1>1, <1>2, <1>3
<1> HIDE DEF b
<1>7. BatchHeld(Gone) /\ BatchHeld(b) /\ BatchHeld(Idle(l))
  BY <1>2, <1>5, <1>6 DEF BatchHeld
<1> QED
  BY <1>2, <1>5, <1>6, <1>7 DEF b

(* A receiver comes, goes and takes the lock.                              *)
LEMMA LifeStep ==
  ASSUME TelegramInv, NEW r \in Receivers,
         \/ Build(r) \/ StartReceiver(r) \/ StopReceiver(r) \/ LoopEnds(r) \/ CrashReceiver(r)
  PROVE  TelegramInv'
<1> USE TelegramAssumption
<1>1. /\ TelegramTypes /\ arrived \in Nat /\ stored \in 0 .. arrived /\ kept \in 1 .. arrived + 1
      /\ 0 \in 0 .. arrived /\ pollLock \in Receivers \cup {NoOne} /\ rx[r] \in Rx(arrived)
      /\ BatchHeld(rx[r])
  BY DEF TelegramInv, TelegramTypes
<1>2. ~shaky => \A q \in Receivers : Active(rx[q]) => pollLock = q
  BY DEF TelegramInv, TelegramSafe, OneReceiver
<1>3. Unlocked(r) \in Receivers \cup {NoOne} /\ \A q \in Receivers \ {r} : pollLock = q => Unlocked(r) = q
  BY <1>1 DEF Unlocked
<1>4. CASE Build(r)
  <2>1. /\ rx[r].st = "off" /\ (Fine \/ Shaky)
        /\ \E l \in 0 .. arrived : rx' = [rx EXCEPT ![r] = [Idle(l) EXCEPT !.st = "built"]]
        /\ UNCHANGED <<pollLock, arrived, kept, stored, processed, rows, sentKeys, answers>>
    BY <1>1, <1>4 DEF Build, serverVars, tableVars
  <2>2. PICK l \in 0 .. arrived : rx' = [rx EXCEPT ![r] = [Idle(l) EXCEPT !.st = "built"]]
    BY <2>1
  <2> DEFINE x == [Idle(l) EXCEPT !.st = "built"]
  <2>3. x \in Rx(arrived) /\ BatchHeld(x) /\ x.st = "built"
    BY <1>1, IdleIs
  <2> HIDE DEF x
  <2>4. ~Active(x) /\ InHand(x)
    BY <2>3 DEF Active, InHand
  <2>5. rx' = [rx EXCEPT ![r] = x]
    BY <2>2 DEF x
  <2> QED
    BY <1>1, <1>2, <2>1, <2>3, <2>4, <2>5, TroubleIs, QuietStep
<1>5. CASE StartReceiver(r)
  <2>1. /\ Fine /\ UNCHANGED <<arrived, kept, stored, processed, rows, sentKeys, answers>>
        /\ rx[r].st = "built"
        /\ \/ pollLock = NoOne /\ pollLock' = r /\ rx' = [rx EXCEPT ![r].st = "idle"]
           \/ rx' = [rx EXCEPT ![r] = Gone] /\ UNCHANGED pollLock
    BY <1>5 DEF StartReceiver, serverVars, tableVars
  <2>2. CASE pollLock = NoOne /\ pollLock' = r /\ rx' = [rx EXCEPT ![r].st = "idle"]
    <3> DEFINE x == [rx[r] EXCEPT !.st = "idle"]
    <3>1. /\ x \in Rx(arrived) /\ x.st = "idle" /\ x.batch = rx[r].batch
          /\ x.step = rx[r].step /\ x.n = rx[r].n
      BY <1>1 DEF Rx
    <3>2. BatchHeld(x)
      BY <1>1, <2>1, <3>1 DEF BatchHeld
    <3>3. rx' = [rx EXCEPT ![r] = x]
      BY <2>2
    <3> HIDE DEF x
    <3>4. InHand(x)
      BY <3>1 DEF InHand
    <3>5. ~shaky => \A q \in Receivers : ~Active(rx[q])
      BY <1>2, <2>2
    <3> QED
      BY <1>1, <2>1, <2>2, <3>1, <3>2, <3>3, <3>4, <3>5, TroubleIs, QuietStep
  <2>3. CASE rx' = [rx EXCEPT ![r] = Gone] /\ UNCHANGED pollLock
    <3>1. Gone \in Rx(arrived) /\ BatchHeld(Gone) /\ ~Active(Gone) /\ InHand(Gone)
      BY <1>1, IdleIs DEF Active, InHand
    <3> QED
      BY <1>1, <1>2, <2>1, <2>3, <3>1, TroubleIs, QuietStep
  <2> QED
    BY <2>1, <2>2, <2>3
<1>6. CASE StopReceiver(r) \/ LoopEnds(r) \/ CrashReceiver(r)
  <2>1. /\ UNCHANGED <<arrived, kept, stored, processed, rows, sentKeys, answers>>
        /\ pollLock' \in {pollLock, Unlocked(r)}
        /\ \/ rx' = [rx EXCEPT ![r] = Gone] /\ (Fine \/ (Trouble /\ UNCHANGED shaky))
           \/ rx' = [rx EXCEPT ![r].running = FALSE] /\ Shaky
    BY <1>6 DEF StopReceiver, LoopEnds, CrashReceiver, serverVars, tableVars
  <2>2. pollLock' \in Receivers \cup {NoOne}
    BY <1>1, <1>3, <2>1
  <2>3. ~shaky => \A q \in Receivers \ {r} : Active(rx[q]) => pollLock' = q
    BY <1>2, <1>3, <2>1
  <2>4. shaky' \in BOOLEAN /\ troubles' \in 0 .. MaxTroubles /\ (shaky => shaky')
    <3>1. CASE Fine \/ Shaky
      BY <1>1, <3>1, TroubleIs
    <3>2. CASE Trouble /\ UNCHANGED shaky
      <4>1. troubles' \in 0 .. MaxTroubles
        BY <1>1, <3>2 DEF Trouble, TelegramTypes
      <4>2. shaky \in BOOLEAN /\ shaky' = shaky
        BY <1>1, <3>2 DEF TelegramTypes
      <4> QED
        BY <4>1, <4>2
    <3> QED
      BY <2>1, <3>1, <3>2
  <2>5. CASE rx' = [rx EXCEPT ![r] = Gone]
    <3>1. Gone \in Rx(arrived) /\ BatchHeld(Gone) /\ ~Active(Gone) /\ InHand(Gone)
      BY <1>1, IdleIs DEF Active, InHand
    <3> QED
      BY <1>1, <2>1, <2>2, <2>3, <2>4, <2>5, <3>1, QuietStep
  <2>6. CASE rx' = [rx EXCEPT ![r].running = FALSE] /\ Shaky
    <3> DEFINE x == [rx[r] EXCEPT !.running = FALSE]
    <3>1. /\ x \in Rx(arrived) /\ x.st = rx[r].st /\ x.batch = rx[r].batch
          /\ x.step = rx[r].step /\ x.n = rx[r].n
      BY <1>1 DEF Rx
    <3>2. BatchHeld(x)
      BY <1>1, <3>1 DEF BatchHeld
    <3>3. rx' = [rx EXCEPT ![r] = x] /\ shaky'
      BY <2>6 DEF Shaky
    <3> HIDE DEF x
    <3> QED
      BY <1>1, <2>1, <2>2, <2>4, <3>1, <3>2, <3>3, QuietStep
  <2> QED
    BY <2>1, <2>5, <2>6
<1> QED
  BY <1>4, <1>5, <1>6

(* A message arrives at the server.                                        *)
LEMMA ArriveStep ==
  ASSUME TelegramInv, Arrive
  PROVE  TelegramInv'
<1>1. /\ arrived < Len(Updates) /\ arrived' = arrived + 1
      /\ UNCHANGED <<rx, pollLock, kept, stored, processed, rows, sentKeys, answers, shaky, troubles>>
  BY DEF Arrive, tableVars, Fine
<1>2. arrived \in Nat /\ Len(Updates) \in Nat /\ arrived' \in 0 .. Len(Updates)
  BY <1>1, TelegramAssumption DEF TelegramInv, TelegramTypes
<1>3. Rx(arrived) \subseteq Rx(arrived + 1)
  <2>1. 1 .. arrived \subseteq 1 .. arrived + 1 /\ 0 .. arrived \subseteq 0 .. arrived + 1
    BY <1>2
  <2>2. Seq(1 .. arrived) \subseteq Seq(1 .. arrived + 1)
    BY <2>1, SeqMonotonic
  <2> QED
    BY <2>1, <2>2 DEF Rx
<1>4. rx' \in [Receivers -> Rx(arrived')]
  BY <1>1, <1>3 DEF TelegramInv, TelegramTypes
<1>5. TelegramTypes'
  BY <1>1, <1>2, <1>4 DEF TelegramInv, TelegramTypes, BatchHeld
<1> QED
  BY <1>1, <1>5 DEF TelegramInv, TelegramSafe, OneReceiver, AnswersFollow, InHand, MessageOf, Saved

(* The server is asked for updates.                                        *)
LEMMA PollStep ==
  ASSUME TelegramInv, NEW r \in Receivers, Poll(r) \/ PollAnswered(r) \/ PollFails(r)
  PROVE  TelegramInv'
<1>1. /\ TelegramTypes /\ arrived \in Nat /\ stored \in 0 .. arrived /\ kept \in 1 .. arrived + 1
      /\ pollLock \in Receivers \cup {NoOne} /\ rx[r] \in Rx(arrived)
      /\ BatchHeld(rx[r])
  BY TelegramAssumption DEF TelegramInv, TelegramTypes
<1>2. ~shaky => \A q \in Receivers : Active(rx[q]) => pollLock = q
  BY DEF TelegramInv, TelegramSafe, OneReceiver
<1>3. /\ Fine /\ UNCHANGED <<pollLock, arrived, stored, processed, rows, sentKeys, answers>>
      /\ rx[r].st \in {"idle", "asking"}
  BY DEF Poll, PollAnswered, PollFails, serverVars, tableVars
<1>4. kept' \in 1 .. arrived + 1
  <2>1. rx[r].last \in 0 .. arrived
    BY <1>1 DEF Rx
  <2>2. kept' \in {rx[r].last + 1, kept}
    BY DEF Poll, PollAnswered, PollFails, serverVars
  <2> QED
    BY <1>1, <2>1, <2>2
<1>5. rx[r].batch = <<>> /\ Active(rx[r])
  BY <1>1, <1>3 DEF BatchHeld, Active
<1>6. \E x \in Rx(arrived) : /\ rx' = [rx EXCEPT ![r] = x] /\ BatchHeld(x) /\ InHand(x)
  <2>1. ASSUME NEW to \in {"idle", "asking"}, rx' = [rx EXCEPT ![r].st = to]
        PROVE  \E x \in Rx(arrived) : /\ rx' = [rx EXCEPT ![r] = x] /\ BatchHeld(x) /\ InHand(x)
    <3> DEFINE x == [rx[r] EXCEPT !.st = to]
    <3>1. /\ x \in Rx(arrived) /\ x.st = to /\ x.batch = <<>>
          /\ x.step = rx[r].step /\ x.n = rx[r].n
      BY <1>1, <1>5 DEF Rx
    <3>2. rx' = [rx EXCEPT ![r] = x]
      BY <2>1
    <3> HIDE DEF x
    <3>3. BatchHeld(x) /\ InHand(x)
      BY <1>1, <3>1 DEF BatchHeld, InHand
    <3> QED
      BY <3>1, <3>2, <3>3
  <2>2. CASE Poll(r) \/ PollFails(r)
    <3>1. \E to \in {"idle", "asking"} : rx' = [rx EXCEPT ![r].st = to]
      BY <2>2 DEF Poll, PollFails
    <3> QED
      BY <2>1, <3>1
  <2>3. CASE PollAnswered(r)
    <3> DEFINE new == [i \in 1 .. (arrived - kept + 1) |-> kept + i - 1]
               to == IF new = <<>> THEN "idle" ELSE "handling"
               x == [rx[r] EXCEPT !.st = to, !.batch = new, !.step = "offset"]
    <3>1. new \in Seq(1 .. arrived)
      <4>1. arrived - kept + 1 \in Nat
        BY <1>1
      <4>2. \A i \in 1 .. (arrived - kept + 1) : kept + i - 1 \in 1 .. arrived
        BY <1>1
      <4>3. new \in [1 .. (arrived - kept + 1) -> 1 .. arrived]
        BY <4>2
      <4> HIDE DEF new
      <4> DEFINE k == arrived - kept + 1
      <4>4. k \in Nat /\ new \in [1 .. k -> 1 .. arrived]
        BY <4>1, <4>3
      <4> HIDE DEF k
      <4>5. new \in UNION {[1 .. n -> 1 .. arrived] : n \in Nat}
        BY <4>4
      <4> QED
        BY <4>5, SeqDef
    <3>2. rx' = [rx EXCEPT ![r] = x]
      BY <2>3 DEF PollAnswered
    <3> HIDE DEF new
    <3>3. to \in {"idle", "handling"} /\ (to = "handling" <=> new # <<>>)
      OBVIOUS
    <3> HIDE DEF to
    <3>4. x \in Rx(arrived) /\ x.st = to /\ x.batch = new /\ x.step = "offset"
      BY <1>1, <3>1, <3>3 DEF Rx, HandlingSteps
    <3> HIDE DEF x
    <3>5. BatchHeld(x) /\ InHand(x)
      BY <3>3, <3>4 DEF BatchHeld, InHand
    <3> QED
      BY <3>2, <3>4, <3>5
  <2> QED
    BY <2>2, <2>3
<1>7. PICK x \in Rx(arrived) : /\ rx' = [rx EXCEPT ![r] = x] /\ BatchHeld(x) /\ InHand(x)
  BY <1>6
<1>8. shaky' \in BOOLEAN /\ troubles' \in 0 .. MaxTroubles /\ (shaky => shaky') /\ shaky' = shaky
  BY <1>1, <1>3, TroubleIs DEF Fine
<1> QED
  BY <1>1, <1>2, <1>3, <1>4, <1>5, <1>7, <1>8, QuietStep

(* Steps of a receiver at work that leave the tables of answers alone: it  *)
(* goes on with the message, the next one or none.                         *)
LEMMA WorkStep ==
  ASSUME TelegramInv, NEW r \in Receivers, rx[r].st = "handling",
         NEW x \in Rx(arrived), BatchHeld(x), rx' = [rx EXCEPT ![r] = x],
         Fine \/ Shaky,
         UNCHANGED <<pollLock, arrived, kept, processed, answers, rows>>, stored' \in 0 .. arrived,
         ~shaky' => InHand(x)
  PROVE  TelegramInv'
<1>1. TelegramTypes /\ kept \in 1 .. arrived + 1 /\ pollLock \in Receivers \cup {NoOne}
  BY DEF TelegramInv, TelegramTypes
<1>2. shaky' \in BOOLEAN /\ troubles' \in 0 .. MaxTroubles /\ (shaky => shaky')
  BY <1>1, TroubleIs
<1>3. ~shaky => \A q \in Receivers : Active(rx[q]) => pollLock = q
  BY DEF TelegramInv, TelegramSafe, OneReceiver
<1>4. ~shaky' => ~shaky /\ pollLock' = r /\ \A q \in Receivers \ {r} : Active(rx[q]) => pollLock' = q
  <2>1. Active(rx[r])
    BY DEF Active
  <2>2. shaky \in BOOLEAN
    BY <1>1 DEF TelegramTypes
  <2> QED
    BY <1>2, <1>3, <2>1, <2>2
<1> QED
  BY <1>1, <1>2, <1>4, QuietStep

(* Done with a message, a receiver has nothing in hand.                    *)
LEMMA DoneStep ==
  ASSUME TelegramInv, NEW r \in Receivers, rx[r].st = "handling", rx' = NextUpdate(r),
         Fine \/ Shaky,
         UNCHANGED <<pollLock, arrived, kept, processed, answers, rows>>, stored' \in 0 .. arrived
  PROVE  TelegramInv'
<1>1. TelegramTypes
  BY DEF TelegramInv
<1>2. PICK x \in Rx(arrived) : rx' = [rx EXCEPT ![r] = x] /\ BatchHeld(x) /\ x.step = "offset"
  BY <1>1, NextUpdateIs
<1>3. InHand(x)
  BY <1>2 DEF InHand
<1> QED
  BY <1>2, <1>3, WorkStep

(* Steps of a receiver at work that change the tables it shares.           *)
LEMMA TableStep ==
  ASSUME TelegramInv, NEW r \in Receivers, rx[r].st = "handling",
         NEW x \in Rx(arrived), BatchHeld(x), rx' = [rx EXCEPT ![r] = x],
         Fine \/ Shaky,
         UNCHANGED <<pollLock, arrived, kept, stored>>,
         processed' \subseteq Messages, answers' \in [Messages -> Nat],
         rows' \in [DOMAIN rows' -> Messages], DOMAIN rows' \subseteq Nat \ {0},
         IsFiniteSet(DOMAIN rows'),
         ~shaky' => AnswersFollow' /\ InHand(x)'
  PROVE  TelegramInv'
<1>1. TelegramTypes
  BY DEF TelegramInv
<1>2. shaky' \in BOOLEAN /\ troubles' \in 0 .. MaxTroubles /\ (shaky => shaky')
  BY <1>1, TroubleIs
<1>3. /\ rx' \in [Receivers -> Rx(arrived')] /\ rx'[r] = x
      /\ \A q \in Receivers : BatchHeld(rx'[q])
  BY <1>1, ReceiverStep
<1>4. TelegramTypes'
  BY <1>1, <1>2, <1>3 DEF TelegramTypes, BatchHeld
<1>5. ASSUME ~shaky' PROVE TelegramSafe'
  <2>1. ~shaky
    BY <1>1, <1>2, <1>5 DEF TelegramTypes
  <2>2. Active(rx[r]) /\ \A q \in Receivers : Active(rx[q]) => pollLock = q
    BY <2>1 DEF TelegramInv, TelegramSafe, OneReceiver, Active
  <2> QED
    BY <1>5, <2>1, <2>2, SafeStep
<1> QED
  BY <1>4, <1>5 DEF TelegramInv

(* The offset moves on, to the message or past it.                         *)
LEMMA OffsetStep ==
  ASSUME TelegramInv, NEW r \in Receivers, SaveOffset(r)
  PROVE  TelegramInv'
<1> DEFINE u == Update(r)
           base == IF KindOf[Message(r)] = "other" THEN NextUpdate(r) ELSE GoTo(r, "seen")
<1>1. /\ TelegramTypes /\ rx[r].st = "handling" /\ u \in 1 .. arrived /\ arrived \in Nat
      /\ rx[r] \in Rx(arrived) /\ BatchHeld(rx[r]) /\ stored \in 0 .. arrived
  <2>1. TelegramTypes /\ rx[r].st = "handling"
    BY DEF TelegramInv, SaveOffset, At
  <2> QED
    BY <2>1, MessageIs, TelegramAssumption DEF TelegramTypes, Update
<1>2. /\ rx' = [base EXCEPT ![r].last = IF u > @ THEN u ELSE @]
      /\ (Fine \/ Shaky) /\ stored' \in {u, stored}
      /\ UNCHANGED <<pollLock, arrived, kept, processed, rows, sentKeys, answers>>
  BY DEF SaveOffset, serverVars
<1>3. PICK y \in Rx(arrived) : /\ base = [rx EXCEPT ![r] = y] /\ BatchHeld(y)
                               /\ y.step \in {"offset", "seen"}
  <2>1. CASE KindOf[Message(r)] = "other"
    BY <1>1, <2>1, NextUpdateIs
  <2>2. CASE KindOf[Message(r)] # "other"
    <3>1. PICK y \in Rx(arrived) :
            /\ GoTo(r, "seen") = [rx EXCEPT ![r] = y]
            /\ y.st = rx[r].st /\ y.batch = rx[r].batch /\ y.step = "seen"
      BY <1>1, GoToIs DEF HandlingSteps
    <3>2. BatchHeld(y)
      BY <1>1, <3>1 DEF BatchHeld
    <3> QED
      BY <2>2, <3>1, <3>2
  <2> QED
    BY <2>1, <2>2
<1> DEFINE last == IF u > y.last THEN u ELSE y.last
           x == [y EXCEPT !.last = last]
<1> HIDE DEF u, base
<1>4. last \in 0 .. arrived /\ stored' \in 0 .. arrived
  BY <1>1, <1>2 DEF Rx
<1>5. rx' = [rx EXCEPT ![r] = x]
  <2>1. rx' = [[rx EXCEPT ![r] = y] EXCEPT ![r].last = IF u > @ THEN u ELSE @]
    BY <1>2, <1>3
  <2>2. rx \in [Receivers -> Rx(arrived)]
    BY <1>1 DEF TelegramTypes
  <2> QED
    BY <2>1, <2>2
<1> HIDE DEF last
<1>6. /\ x \in Rx(arrived) /\ x.st = y.st /\ x.batch = y.batch /\ x.step = y.step /\ x.n = y.n
  BY <1>4 DEF Rx
<1> HIDE DEF x
<1>7. BatchHeld(x) /\ InHand(x)
  BY <1>3, <1>6 DEF BatchHeld, InHand
<1> QED
  BY <1>1, <1>2, <1>4, <1>5, <1>6, <1>7, WorkStep

(* What is in hand while the safety of the answers is not excused.         *)
LEMMA HandIs ==
  ASSUME TelegramInv, NEW r \in Receivers, NEW step, At(r, step)
  PROVE  /\ TelegramTypes /\ rx[r].st = "handling" /\ rx[r].step = step
         /\ rx[r] \in Rx(arrived) /\ BatchHeld(rx[r])
         /\ Message(r) \in Messages /\ Message(r) = MessageOf(rx[r])
         /\ ~shaky => AnswersFollow /\ InHand(rx[r])
         /\ stored \in 0 .. arrived
<1>1. TelegramTypes /\ rx[r].st = "handling" /\ rx[r].step = step
  BY DEF TelegramInv, At
<1>2. Message(r) \in Messages /\ Message(r) = MessageOf(rx[r])
  BY <1>1, MessageIs
<1>3. rx[r] \in Rx(arrived) /\ BatchHeld(rx[r]) /\ stored \in 0 .. arrived
  BY <1>1 DEF TelegramTypes
<1>4. ~shaky => AnswersFollow /\ InHand(rx[r])
  BY DEF TelegramInv, TelegramSafe
<1> QED
  BY <1>1, <1>2, <1>3, <1>4

(* A receiver goes on to another step of the same message.                 *)
LEMMA OnIs ==
  ASSUME TelegramInv, NEW r \in Receivers, rx[r].st = "handling", NEW step \in HandlingSteps \ {"save"}
  PROVE  \E x \in Rx(arrived) :
           /\ GoTo(r, step) = [rx EXCEPT ![r] = x]
           /\ BatchHeld(x) /\ x.st = "handling" /\ x.step = step
           /\ MessageOf(x) = MessageOf(rx[r])
<1>1. TelegramTypes /\ BatchHeld(rx[r])
  BY DEF TelegramInv, TelegramTypes
<1>2. PICK x \in Rx(arrived) : /\ GoTo(r, step) = [rx EXCEPT ![r] = x]
                               /\ x.st = rx[r].st /\ x.batch = rx[r].batch /\ x.step = step
  BY <1>1, GoToIs
<1>3. BatchHeld(x) /\ MessageOf(x) = MessageOf(rx[r])
  BY <1>1, <1>2 DEF BatchHeld, MessageOf
<1> QED
  BY <1>2, <1>3

LEMMA SeenStep ==
  ASSUME TelegramInv, NEW r \in Receivers, CheckProcessed(r)
  PROVE  TelegramInv'
<1>1. /\ TelegramTypes /\ rx[r].st = "handling"
      /\ Message(r) \in Messages /\ Message(r) = MessageOf(rx[r])
      /\ ~shaky => AnswersFollow /\ stored \in 0 .. arrived
  BY HandIs DEF CheckProcessed
<1>2. /\ (Fine \/ Shaky)
      /\ UNCHANGED <<pollLock, arrived, kept, stored, processed, rows, sentKeys, answers>>
      /\ \/ rx' = NextUpdate(r)
         \/ rx' = GoTo(r, "note") /\ (~shaky' => Message(r) \notin processed)
  BY DEF CheckProcessed, Known, serverVars, tableVars, Fine, Shaky
<1>3. stored' \in 0 .. arrived
  BY <1>1, <1>2 DEF TelegramTypes
<1>4. CASE rx' = NextUpdate(r)
  BY <1>1, <1>2, <1>3, <1>4, DoneStep
<1>5. CASE rx' = GoTo(r, "note") /\ (~shaky' => Message(r) \notin processed)
  <2>1. PICK x \in Rx(arrived) : /\ rx' = [rx EXCEPT ![r] = x]
                                 /\ BatchHeld(x) /\ x.step = "note"
                                 /\ MessageOf(x) = MessageOf(rx[r])
    BY <1>1, <1>5, OnIs DEF HandlingSteps
  <2>2. ASSUME ~shaky' PROVE InHand(x)
    <3>1. ~shaky
      BY <1>1, <1>2, <2>2, TroubleIs DEF TelegramTypes
    <3>2. answers[Message(r)] = 0
      BY <1>1, <1>5, <2>2, <3>1 DEF AnswersFollow
    <3> QED
      BY <1>1, <2>1, <3>2 DEF InHand
  <2> QED
    BY <1>1, <1>2, <1>3, <2>1, <2>2, WorkStep
<1> QED
  BY <1>2, <1>4, <1>5

LEMMA NoteStep ==
  ASSUME TelegramInv, NEW r \in Receivers, MarkProcessed(r)
  PROVE  TelegramInv'
<1> DEFINE m == Message(r)
           step == IF KindOf[m] = "feedback" THEN "number" ELSE "check"
<1>1. /\ TelegramTypes /\ rx[r].st = "handling" /\ rx[r].step = "note"
      /\ m \in Messages /\ m = MessageOf(rx[r])
      /\ ~shaky => AnswersFollow /\ InHand(rx[r])
  BY HandIs DEF MarkProcessed
<1>2. /\ (Fine \/ Shaky) /\ rx' = GoTo(r, step)
      /\ processed' \in {processed, processed \cup {m}}
      /\ ~shaky' => processed' = processed \cup {m}
      /\ UNCHANGED <<pollLock, arrived, kept, stored, rows, sentKeys, answers>>
  BY DEF MarkProcessed, serverVars, Shaky
<1> HIDE DEF m
<1>3. /\ step \in HandlingSteps \ {"save"} /\ step \in {"number", "check"}
      /\ step = "check" => KindOf[m] # "feedback"
  BY DEF HandlingSteps
<1> HIDE DEF step
<1>4. PICK x \in Rx(arrived) : /\ rx' = [rx EXCEPT ![r] = x]
                               /\ BatchHeld(x) /\ x.step = step
                               /\ MessageOf(x) = m
  BY <1>1, <1>2, <1>3, OnIs
<1>5. /\ processed' \subseteq Messages /\ answers' \in [Messages -> Nat]
      /\ rows' \in [DOMAIN rows' -> Messages] /\ DOMAIN rows' \subseteq Nat \ {0}
      /\ IsFiniteSet(DOMAIN rows')
  BY <1>1, <1>2 DEF TelegramTypes
<1>6. ASSUME ~shaky' PROVE AnswersFollow' /\ InHand(x)'
  <2>1. AnswersFollow /\ answers[m] = 0 /\ processed' = processed \cup {m}
    <3>1. ~shaky
      BY <1>1, <1>2, <1>6, TroubleIs DEF TelegramTypes
    <3> QED
      BY <1>1, <1>2, <1>6, <3>1 DEF InHand
  <2>2. AnswersFollow'
    BY <1>2, <2>1 DEF AnswersFollow, Saved
  <2>3. InHand(x)'
    <3>1. answers'[m] = 0 /\ m \in processed'
      BY <1>2, <2>1
    <3> QED
      BY <1>3, <1>4, <3>1 DEF InHand, MessageOf
  <2> QED
    BY <2>2, <2>3
<1> QED
  BY <1>1, <1>2, <1>4, <1>5, <1>6, TableStep

LEMMA NumberStep ==
  ASSUME TelegramInv, NEW r \in Receivers, NumberFeedback(r)
  PROVE  TelegramInv'
<1>1. /\ TelegramTypes /\ rx[r].st = "handling" /\ rx[r].step = "number"
      /\ rx[r] \in Rx(arrived) /\ BatchHeld(rx[r])
      /\ ~shaky => AnswersFollow /\ InHand(rx[r])
      /\ IsFiniteSet(DOMAIN rows)
  BY HandIs DEF NumberFeedback, TelegramTypes
<1>2. RowCount \in Nat
  BY <1>1, FS_CardinalityType DEF RowCount
<1>3. PICK n \in Nat \ {0} : /\ rx' = [GoTo(r, "save") EXCEPT ![r].n = n]
                             /\ ~shaky' => n = RowCount + 1
  BY <1>2 DEF NumberFeedback, Shaky
<1>4. /\ (Fine \/ Shaky)
      /\ UNCHANGED <<pollLock, arrived, kept, stored, processed, rows, sentKeys, answers>>
  BY DEF NumberFeedback, serverVars, tableVars
<1>5. stored' \in 0 .. arrived
  BY <1>1, <1>4 DEF TelegramTypes
<1>6. PICK y \in Rx(arrived) : /\ GoTo(r, "save") = [rx EXCEPT ![r] = y]
                               /\ y.st = rx[r].st /\ y.batch = rx[r].batch /\ y.step = "save"
  BY <1>1, GoToIs DEF HandlingSteps
<1> DEFINE x == [y EXCEPT !.n = n]
<1>7. rx' = [rx EXCEPT ![r] = x]
  <2>1. rx' = [[rx EXCEPT ![r] = y] EXCEPT ![r].n = n]
    BY <1>3, <1>6
  <2>2. rx \in [Receivers -> Rx(arrived)]
    BY <1>1 DEF TelegramTypes
  <2> QED
    BY <2>1, <2>2
<1>8. /\ x \in Rx(arrived) /\ x.st = y.st /\ x.batch = y.batch /\ x.step = "save" /\ x.n = n
  BY <1>6 DEF Rx
<1> HIDE DEF x
<1>9. BatchHeld(x) /\ MessageOf(x) = MessageOf(rx[r])
  BY <1>1, <1>3, <1>6, <1>8 DEF BatchHeld, MessageOf
<1>10. ASSUME ~shaky' PROVE InHand(x)
  <2>1. ~shaky
    BY <1>1, <1>4, <1>10, TroubleIs DEF TelegramTypes
  <2>2. PICK k \in Nat : DOMAIN rows = 1 .. k
    BY <1>1, <2>1 DEF AnswersFollow
  <2>3. Cardinality(1 .. k) = k
    BY FS_Interval
  <2>4. n - 1 = k
    BY <1>3, <1>10, <2>2, <2>3 DEF RowCount
  <2> QED
    BY <1>1, <1>8, <1>9, <2>1, <2>2, <2>4 DEF InHand
<1> QED
  BY <1>1, <1>4, <1>5, <1>7, <1>8, <1>9, <1>10, WorkStep

LEMMA SaveFeedbackStep ==
  ASSUME TelegramInv, NEW r \in Receivers, SaveFeedback(r)
  PROVE  TelegramInv'
<1>0. PICK m \in Messages : m = Message(r)
  BY HandIs DEF SaveFeedback
<1> DEFINE n == rx[r].n
           saved == [k \in DOMAIN rows \cup {n} |-> IF k = n THEN m ELSE rows[k]]
<1>1. /\ TelegramTypes /\ rx[r].st = "handling" /\ rx[r].step = "save"
      /\ m \in Messages /\ m = MessageOf(rx[r])
      /\ ~shaky => AnswersFollow /\ InHand(rx[r])
      /\ n \in Nat \ {0}
  BY <1>0, HandIs DEF SaveFeedback, Rx, BatchHeld
<1>2. /\ (Fine \/ Shaky) /\ rx' = GoTo(r, "check")
      /\ rows' \in {rows, saved}
      /\ ~shaky' => rows' = saved
      /\ UNCHANGED <<pollLock, arrived, kept, stored, processed, sentKeys, answers>>
  BY <1>0 DEF SaveFeedback, serverVars, Shaky
<1>3. PICK x \in Rx(arrived) : /\ rx' = [rx EXCEPT ![r] = x]
                               /\ BatchHeld(x) /\ x.step = "check"
                               /\ MessageOf(x) = m
  BY <1>1, <1>2, OnIs DEF HandlingSteps
<1> HIDE DEF n
<1>4. /\ DOMAIN saved = DOMAIN rows \cup {n}
      /\ saved \in [DOMAIN saved -> Messages]
      /\ saved[n] = m /\ \A k \in DOMAIN rows \ {n} : saved[k] = rows[k]
  BY <1>1 DEF TelegramTypes
<1> HIDE DEF saved
<1>5. IsFiniteSet(DOMAIN saved)
  BY <1>1, <1>4, FS_AddElement DEF TelegramTypes
<1>6. /\ processed' \subseteq Messages /\ answers' \in [Messages -> Nat]
      /\ rows' \in [DOMAIN rows' -> Messages] /\ DOMAIN rows' \subseteq Nat \ {0}
      /\ IsFiniteSet(DOMAIN rows')
  BY <1>1, <1>2, <1>4, <1>5 DEF TelegramTypes
<1>7. ASSUME ~shaky' PROVE AnswersFollow' /\ InHand(x)'
  <2>1. AnswersFollow /\ answers[m] = 0 /\ m \in processed /\ DOMAIN rows = 1 .. n - 1
    <3>1. ~shaky
      BY <1>1, <1>2, <1>7, TroubleIs DEF TelegramTypes
    <3> QED
      BY <1>1, <3>1 DEF InHand, n
  <2>2. rows' = saved
    BY <1>2, <1>7
  <2>3. DOMAIN saved = 1 .. n /\ \A k \in DOMAIN rows : saved[k] = rows[k]
    BY <1>1, <1>4, <2>1
  <2>4. (\A q \in Messages : Saved(q) => Saved(q)') /\ Saved(m)'
    <3>1. DOMAIN rows' = DOMAIN saved /\ n \in DOMAIN rows' /\ rows'[n] = m
      BY <1>4, <2>2
    <3>2. Saved(m)'
      BY <3>1 DEF Saved
    <3>3. ASSUME NEW q \in Messages, Saved(q) PROVE Saved(q)'
      <4>1. PICK k \in DOMAIN rows : rows[k] = q
        BY <3>3 DEF Saved
      <4>2. k \in DOMAIN rows' /\ rows'[k] = q
        BY <1>4, <2>2, <2>3, <4>1
      <4> QED
        BY <4>2 DEF Saved
    <3> QED
      BY <3>2, <3>3
  <2>5. AnswersFollow'
    BY <1>1, <1>2, <2>1, <2>2, <2>3, <2>4 DEF AnswersFollow
  <2>6. InHand(x)'
    <3>1. answers'[m] = 0 /\ m \in processed' /\ m = MessageOf(x)'
      BY <1>2, <1>3, <2>1 DEF MessageOf
    <3>2. Saved(MessageOf(x))'
      BY <2>4, <3>1 DEF Saved, MessageOf
    <3> QED
      BY <1>3, <3>1, <3>2 DEF InHand
  <2> QED
    BY <2>5, <2>6
<1> QED
  BY <1>1, <1>2, <1>3, <1>6, <1>7, TableStep

LEMMA CheckSentStep ==
  ASSUME TelegramInv, NEW r \in Receivers, CheckSent(r)
  PROVE  TelegramInv'
<1>1. /\ TelegramTypes /\ rx[r].st = "handling" /\ rx[r].step = "check"
      /\ ~shaky => InHand(rx[r])
  BY HandIs DEF CheckSent
<1>2. /\ (Fine \/ Shaky)
      /\ UNCHANGED <<pollLock, arrived, kept, stored, processed, rows, sentKeys, answers>>
      /\ rx' = NextUpdate(r) \/ rx' = GoTo(r, "post")
  BY DEF CheckSent, serverVars, tableVars
<1>3. stored' \in 0 .. arrived
  BY <1>1, <1>2 DEF TelegramTypes
<1>4. CASE rx' = NextUpdate(r)
  BY <1>1, <1>2, <1>3, <1>4, DoneStep
<1>5. CASE rx' = GoTo(r, "post")
  <2>1. PICK x \in Rx(arrived) : /\ rx' = [rx EXCEPT ![r] = x]
                                 /\ BatchHeld(x) /\ x.step = "post"
                                 /\ MessageOf(x) = MessageOf(rx[r])
    BY <1>1, <1>5, OnIs DEF HandlingSteps
  <2>2. ASSUME ~shaky' PROVE InHand(x)
    <3>1. ~shaky
      BY <1>1, <1>2, <2>2, TroubleIs DEF TelegramTypes
    <3> QED
      BY <1>1, <2>1, <3>1 DEF InHand
  <2> QED
    BY <1>1, <1>2, <1>3, <2>1, <2>2, WorkStep
<1> QED
  BY <1>2, <1>4, <1>5

LEMMA PostStep ==
  ASSUME TelegramInv, NEW r \in Receivers, Post(r)
  PROVE  TelegramInv'
<1> DEFINE m == Message(r)
           told == [answers EXCEPT ![m] = @ + 1]
<1>1. /\ TelegramTypes /\ rx[r].st = "handling" /\ rx[r].step = "post"
      /\ m \in Messages /\ m = MessageOf(rx[r])
      /\ ~shaky => AnswersFollow /\ InHand(rx[r])
  BY HandIs DEF Post
<1>2. /\ Fine /\ (rx' = GoTo(r, "mark") \/ rx' = NextUpdate(r))
      /\ answers' \in {answers, told}
      /\ UNCHANGED <<pollLock, arrived, kept, stored, processed, rows, sentKeys>>
  BY DEF Post, serverVars, tableVars
<1>3. PICK x \in Rx(arrived) : /\ rx' = [rx EXCEPT ![r] = x]
                               /\ BatchHeld(x) /\ x.step \in {"mark", "offset"}
  BY <1>1, <1>2, OnIs, NextUpdateIs DEF HandlingSteps
<1> HIDE DEF m
<1>4. /\ told \in [Messages -> Nat] /\ told[m] = answers[m] + 1
      /\ \A q \in Messages \ {m} : told[q] = answers[q]
  BY <1>1 DEF TelegramTypes
<1> HIDE DEF told
<1>5. /\ processed' \subseteq Messages /\ answers' \in [Messages -> Nat]
      /\ rows' \in [DOMAIN rows' -> Messages] /\ DOMAIN rows' \subseteq Nat \ {0}
      /\ IsFiniteSet(DOMAIN rows')
  BY <1>1, <1>2, <1>4 DEF TelegramTypes
<1>6. ASSUME ~shaky' PROVE AnswersFollow' /\ InHand(x)'
  <2>1. /\ AnswersFollow /\ answers[m] = 0 /\ m \in processed
        /\ KindOf[m] = "feedback" => Saved(m)
    <3>1. ~shaky
      BY <1>2, <1>6 DEF Fine
    <3> QED
      BY <1>1, <3>1 DEF InHand
  <2>2. \A q \in Messages : answers'[q] = answers[q] \/ (q = m /\ answers'[q] = 1)
    <3>1. told[m] = 1
      BY <1>4, <2>1
    <3> QED
      BY <1>2, <1>4, <3>1
  <2>3. AnswersFollow'
    BY <1>2, <2>1, <2>2 DEF AnswersFollow, Saved
  <2>4. InHand(x)'
    BY <1>3 DEF InHand
  <2> QED
    BY <2>3, <2>4
<1> QED
  BY <1>1, <1>2, <1>3, <1>5, <1>6, TableStep

(* The answer is noted as sent, or could not be made.                      *)
LEMMA LastStep ==
  ASSUME TelegramInv, NEW r \in Receivers, MarkSent(r) \/ HandlingRaises(r)
  PROVE  TelegramInv'
<1>1. TelegramTypes /\ rx[r].st = "handling" /\ rx[r] \in Rx(arrived)
  BY HandIs DEF MarkSent, HandlingRaises
<1>2. /\ (Fine \/ Shaky)
      /\ UNCHANGED <<pollLock, arrived, kept, stored, processed, rows, answers>>
  BY DEF MarkSent, HandlingRaises, serverVars, tableVars
<1>3. stored' \in 0 .. arrived
  BY <1>1, <1>2 DEF TelegramTypes
<1>4. CASE MarkSent(r)
  <2>1. rx' = NextUpdate(r)
    BY <1>4 DEF MarkSent
  <2> QED
    BY <1>1, <1>2, <1>3, <2>1, DoneStep
<1>5. CASE HandlingRaises(r)
  <2> DEFINE x == [rx[r] EXCEPT !.st = "idle", !.batch = <<>>, !.step = "offset", !.n = 0]
  <2>1. rx' = [rx EXCEPT ![r] = x]
    BY <1>5 DEF HandlingRaises
  <2>2. <<>> \in Seq(1 .. arrived)
    OBVIOUS
  <2>3. x \in Rx(arrived) /\ x.st = "idle" /\ x.batch = <<>> /\ x.step = "offset"
    BY <1>1, <2>2 DEF Rx, HandlingSteps
  <2> HIDE DEF x
  <2>4. BatchHeld(x) /\ InHand(x)
    BY <2>3 DEF BatchHeld, InHand
  <2> QED
    BY <1>1, <1>2, <1>3, <2>1, <2>3, <2>4, WorkStep
<1> QED
  BY <1>4, <1>5

(* Every step keeps the invariant of the channel.                          *)
LEMMA TelegramStep ==
  ASSUME TelegramInv, [TelegramNext]_telegramVars
  PROVE  TelegramInv'
<1>1. CASE UNCHANGED telegramVars
  BY <1>1 DEF telegramVars, TelegramInv, TelegramTypes, BatchHeld, TelegramSafe, OneReceiver,
     AnswersFollow, InHand, MessageOf, Saved
<1>2. CASE TelegramNext
  <2>1. CASE Arrive
    BY <2>1, ArriveStep
  <2>2. CASE ~Arrive
    <3>1. PICK r \in Receivers :
            \/ Build(r) \/ StartReceiver(r) \/ StopReceiver(r) \/ LoopEnds(r) \/ CrashReceiver(r)
            \/ Poll(r) \/ PollAnswered(r) \/ PollFails(r)
            \/ SaveOffset(r) \/ CheckProcessed(r) \/ MarkProcessed(r)
            \/ NumberFeedback(r) \/ SaveFeedback(r)
            \/ CheckSent(r) \/ Post(r) \/ MarkSent(r) \/ HandlingRaises(r)
      BY <1>2, <2>2 DEF TelegramNext
    <3> QED
      BY <3>1, LifeStep, PollStep, OffsetStep, SeenStep, NoteStep, NumberStep, SaveFeedbackStep,
         CheckSentStep, PostStep, LastStep
  <2> QED
    BY <2>1, <2>2
<1> QED
  BY <1>1, <1>2

LEMMA TelegramInitInv == TelegramInit => TelegramInv
<1> SUFFICES ASSUME TelegramInit PROVE TelegramInv
  OBVIOUS
<1>1. /\ rx = [r \in Receivers |-> Gone] /\ pollLock = NoOne
      /\ arrived = 0 /\ kept = 1 /\ stored = 0
      /\ processed = {} /\ rows = <<>>
      /\ answers = [m \in Messages |-> 0] /\ shaky = FALSE /\ troubles = 0
  BY DEF TelegramInit
<1>2. Gone \in Rx(0) /\ BatchHeld(Gone) /\ Gone.st = "off"
  <2>1. 0 \in Nat /\ 0 \in 0 .. 0
    OBVIOUS
  <2> QED
    BY <2>1, IdleIs
<1>3. DOMAIN rows = {} /\ IsFiniteSet(DOMAIN rows) /\ rows \in [DOMAIN rows -> Messages]
  BY <1>1, FS_EmptySet
<1>4. TelegramTypes
  <2>1. rx \in [Receivers -> Rx(arrived)] /\ \A r \in Receivers : BatchHeld(rx[r])
    BY <1>1, <1>2
  <2>2. Len(Updates) \in Nat /\ MaxTroubles \in Nat
    BY TelegramAssumption
  <2>3. /\ arrived \in 0 .. Len(Updates) /\ kept \in 1 .. arrived + 1 /\ stored \in 0 .. arrived
        /\ troubles \in 0 .. MaxTroubles
    BY <1>1, <2>2
  <2>4. /\ pollLock \in Receivers \cup {NoOne} /\ processed \subseteq Messages
        /\ answers \in [Messages -> Nat] /\ shaky \in BOOLEAN
    BY <1>1
  <2> QED
    BY <1>3, <2>1, <2>3, <2>4 DEF TelegramTypes
<1>5. DOMAIN rows = 1 .. 0
  BY <1>3
<1>6. AnswersFollow
  BY <1>1, <1>5 DEF AnswersFollow
<1>7. OneReceiver /\ \A r \in Receivers : InHand(rx[r])
  BY <1>1, <1>2 DEF OneReceiver, Active, InHand
<1> QED
  BY <1>4, <1>6, <1>7 DEF TelegramInv, TelegramSafe

LEMMA TelegramPromises == TelegramInv => TelegramTypeOK /\ AnsweredOnce /\ FeedbackKept
<1> SUFFICES ASSUME TelegramInv PROVE TelegramTypeOK /\ AnsweredOnce /\ FeedbackKept
  OBVIOUS
<1>1. TelegramTypeOK
  <2>1. ASSUME NEW r \in Receivers
        PROVE  /\ rx[r].st \in {"off", "built", "idle", "asking", "handling"}
               /\ rx[r].last \in 0 .. arrived
               /\ (rx[r].st = "handling") = (rx[r].batch # <<>>)
               /\ rx[r].n \in Nat
    BY DEF TelegramInv, TelegramTypes, Rx, BatchHeld
  <2> QED
    BY <2>1 DEF TelegramInv, TelegramTypes, TelegramTypeOK
<1>2. AnsweredOnce /\ FeedbackKept
  BY DEF TelegramInv, TelegramSafe, AnswersFollow, Saved, AnsweredOnce, FeedbackKept
<1> QED
  BY <1>1, <1>2

-----------------------------------------------------------------------------
(* The components together.                                                *)

(* Each component keeps its invariant, whichever of them moves.            *)
ServicesInv ==
  RegistryInv /\ AfterHoursInv /\ LearningInv /\ BooksInv /\ BooksSafe /\ BooksFills
  /\ TelegramInv

LEMMA ServicesInit == Init => ServicesInv
BY RegistryInitInv, AfterHoursInitInv, LearningInitInv, BooksInitInv, BooksSafeInit, TelegramInitInv
   DEF Init, ServicesInv

LEMMA PartsStep ==
  ASSUME [Next]_vars
  PROVE  /\ [RegistryNext]_registryVars /\ [AfterHoursNext]_afterHoursVars
         /\ [LearningNext]_learningVars /\ [BooksNext]_booksVars /\ [TelegramNext]_telegramVars
<1>1. CASE Next
  BY <1>1 DEF Next
<1>2. CASE UNCHANGED vars
  BY <1>2 DEF vars
<1> QED
  BY <1>1, <1>2

LEMMA ServicesStep ==
  ASSUME ServicesInv, [Next]_vars
  PROVE  ServicesInv' /\ EntryWaits /\ LabelsOwn
BY PartsStep, RegistryStep, AfterHoursStep, LearningStep, BooksStep, BooksSafeStep, BooksFillsStep,
   TelegramStep DEF ServicesInv

(* The invariant the theorems of this module follow from: one conjunct per *)
(* component, each inductive by itself.                                    *)
THEOREM ServicesInvariant == Spec => []ServicesInv
<1>1. ServicesInv /\ [Next]_vars => ServicesInv'
  BY ServicesStep
<1> QED
  BY <1>1, ServicesInit, PTL DEF Spec

(* Rows, files, candidates, snapshots and receivers have their types, a row *)
(* of the positions table is closed just when nothing is left of it, and a  *)
(* receiver works exactly while it has updates, whatever the number of      *)
(* models, symbols, codes, receivers and messages.                          *)
THEOREM ServicesTypeCorrect == Spec => []TypeOK
<1>1. ServicesInv => TypeOK
  BY BooksTypes, TelegramPromises
     DEF ServicesInv, RegistryInv, AfterHoursInv, LearningInv, TypeOK
<1> QED
  BY <1>1, ServicesInvariant, PTL

(* Registrations, promotions, roll backs, crashes and torn files            *)
(* notwithstanding, a loaded registry has one champion, the one it names    *)
(* (ml/model_registry.py).                                                  *)
THEOREM ChampionIsUnique == Spec => []OneChampion
<1>1. RegistryInv => OneChampion
  <2> SUFFICES ASSUME RegistryInv, registry # Down
               PROVE  {m \in Models : registry.role[m] = "CHAMPION"} = {registry.champion}
    BY DEF OneChampion
  <2>1. Chosen(registry, registered) /\ registered \in Models
    BY DEF RegistryInv, RegistryTypeOK
  <2>2. registry.champion \in Models
    BY <2>1, RegistryNumbers DEF Chosen, Models
  <2> QED
    BY <2>1, <2>2 DEF Chosen
<1>2. ServicesInv => OneChampion
  BY <1>1 DEF ServicesInv
<1> QED
  BY <1>2, ServicesInvariant, PTL

(* Receivers come, go, crash and share one database: while no database call *)
(* failed and none was left polling, no message of the user is answered     *)
(* twice, and a feedback said to be saved is in the table                   *)
(* (telegram_receiver.py, telegram_feedback_manager.py).                    *)
THEOREM MessagesAreHandled == Spec => []MessagesHandled
<1>1. ServicesInv => MessagesHandled
  BY TelegramPromises DEF ServicesInv, MessagesHandled
<1> QED
  BY <1>1, ServicesInvariant, PTL

(* An after-hours candidate is consumed by an entry only on a later day and *)
(* in the regular session, restarts and failed writes notwithstanding       *)
(* (strategies/after_hours_watchlist.py).                                   *)
THEOREM EntriesWait == Spec => EntryWaitsForNextDay
<1>1. ServicesInv /\ [Next]_vars => [EntryWaits]_afterHoursVars
  BY ServicesStep
<1>2. [EntryWaits]_afterHoursVars =>
        [\A c \in Codes :
           candidates'[c].status = "CONSUMED" /\ candidates[c].status # "CONSUMED"
             => candidates'[c].day < today /\ IsOrderEntryAllowed(Now)]_afterHoursVars
  BY DEF EntryWaits
<1> QED
  BY <1>1, <1>2, ServicesInvariant, PTL DEF Spec, EntryWaitsForNextDay

(* A decision's training label is made of the outcome of that very decision *)
(* (the batch pairs outcomes with snapshots by symbol and time only).       *)
THEOREM LabelsAreOwn == Spec => LabelledByOwnOutcome
<1>1. ServicesInv /\ [Next]_vars => [LabelsOwn]_learningVars
  BY ServicesStep
<1>2. [LabelsOwn]_learningVars =>
        [\A e \in DOMAIN labels' \cap DOMAIN outcomes \cap DOMAIN snapshots :
           e \notin DOMAIN labels =>
             /\ labels'[e].ret = ReturnOf(outcomes[e])
             /\ ReturnOf(outcomes'[e]) = labels'[e].ret]_learningVars
  BY DEF LabelsOwn
<1> QED
  BY <1>1, <1>2, ServicesInvariant, PTL DEF Spec, LabelledByOwnOutcome

(* The two databases together report the profit of no share twice, and on a *)
(* real account that of every share of a finished round trip whose purchase *)
(* was recorded, unless the record of a fill was given up or made twice, or *)
(* the sale is one of those a closed row of no profit counts again because  *)
(* they came after its entry (core/trade_accounting.py                      *)
(* get_completed_trades).                                                   *)
THEOREM ProfitIsReportedOnce == Spec => []ProfitReportedOnce
<1>1. ServicesInv => ProfitReportedOnce
  BY BooksPromise DEF ServicesInv
<1> QED
  BY <1>1, ServicesInvariant, PTL
=============================================================================
