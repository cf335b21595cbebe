---------------------------- MODULE ModelRegistry ----------------------------
(***************************************************************************)
(* Which model trades.  The trader keeps the registry of its models        *)
(* (ml/model_registry.py) and lets the end-of-day batch (ml/eod_worker.py) *)
(* promote the shadow model and train the next one; the dashboard keeps    *)
(* the state of a staged rollout (ml/learning_pipeline.py).  Both write    *)
(* their whole state to the one file data/model_registry.json, each in its *)
(* own layout, and take from it, when they load, the keys they know.       *)
(*                                                                         *)
(* Models are numbered in the order they were registered, 0 is the default *)
(* champion.  Their scores are left out: the batch raises a candidate's    *)
(* score above the champion's before it promotes it, and promotes it also  *)
(* when that is not enough, so that only the verdict of the shadow         *)
(* evaluation counts.                                                      *)
(***************************************************************************)
EXTENDS Integers

CONSTANTS MaxModels,  \* bound: models registered after the default one
          LastDate,   \* bound: days
          MaxCrashes, \* bound: processes that stop
          MaxTears    \* bound: of them, traders that stop within a write

ASSUME RegistryAssumption == {MaxModels, MaxCrashes, MaxTears} \subseteq Nat /\ LastDate \in Nat \ {0}

NoModel == -1
Models == 0 .. MaxModels
Roles == {"ABSENT", "CHAMPION", "CHALLENGER", "ROLLED_BACK"}
Stages == <<5, 10, 25, 50, 100>>     \* per cent of the capital

VARIABLES
  file,      \* data/model_registry.json
  registry,  \* the trader's EnhancedModelRegistry
  rollout,   \* the dashboard's ChampionChallengerManager
  batch,     \* "idle" or "train": how far the batch of the day is
  batchOn,   \* eod_batch_executed_today
  date, crashes, tears,
  registered, \* history: number of models registered so far
  shadowFrom, \* history: model -> date it was registered
  promoted    \* history: the model last promoted, or rolled back to

registryVars == <<file, registry, rollout, batch, batchOn, date, crashes, tears,
                  registered, shadowFrom, promoted>>

NoFile == [layout |-> "none"]
TornFile == [layout |-> "torn"]
EmptyRegistry == [champion |-> NoModel, challenger |-> NoModel, previous |-> NoModel,
                  role |-> [m \in Models |-> "ABSENT"]]
NewRollout == [state |-> "NONE", stage |-> 0]
Down == [layout |-> "down"]

Registries == [champion : Models \union {NoModel}, challenger : Models \union {NoModel},
               previous : Models \union {NoModel}, role : [Models -> Roles]]
Rollouts == [state : {"NONE", "SHADOW", "STAGED", "PROMOTED", "ROLLED_BACK"},
             stage : 0 .. 5]

FileOf(r) == [layout |-> "registry", content |-> r]
RolloutFile(r) == [layout |-> "rollout", content |-> r]

RegistryInit ==
  /\ file = NoFile /\ registry = Down /\ rollout = Down
  /\ batch = "idle" /\ batchOn = 0 /\ date = 1 /\ crashes = 0 /\ tears = 0
  /\ registered = 0 /\ shadowFrom = [m \in Models |-> 0] /\ promoted = 0

-----------------------------------------------------------------------------
(* The registry of the trader.                                             *)

Registered(r, m, as) ==
  [r EXCEPT !.role[m] = as,
            !.champion = IF as = "CHAMPION" THEN m ELSE @,
            !.challenger = IF as = "CHALLENGER" THEN m ELSE @]

(* load_registry: a file it cannot read, or with other keys, counts as     *)
(* empty; then _ensure_default_champion.                                   *)
Loaded == IF file.layout = "registry" THEN file.content ELSE EmptyRegistry
HasChampion(r) == r.champion # NoModel /\ r.role[r.champion] # "ABSENT"
WithDefault(r) == IF HasChampion(r) THEN r ELSE Registered(r, 0, "CHAMPION")

StartTrader ==
  /\ registry = Down
  /\ registry' = WithDefault(Loaded)
  /\ file' = IF HasChampion(Loaded) THEN file ELSE FileOf(registry')
  /\ batch' = "idle" /\ batchOn' = 0
  /\ UNCHANGED <<rollout, date, crashes, tears, registered, shadowFrom, promoted>>

Save(r) == registry' = r /\ file' = FileOf(r)

(* Mutant of Demoted: the old champion keeps its role.                     *)
NotDemoted(r) == r
Demoted(r) == [r EXCEPT !.role[r.champion] = "ROLLED_BACK"]

(* promote_challenger, and the fallback of promote_challenger_to_champion  *)
Promote(r, m) == [Demoted(r) EXCEPT !.role[m] = "CHAMPION", !.champion = m,
                                    !.challenger = NoModel, !.previous = r.champion]

(* The challenger, else the last model with the role, else a new name.     *)
Target(r) ==
  LET waiting == {m \in Models : r.role[m] = "CHALLENGER"}
  IN  IF r.challenger # NoModel THEN r.challenger
      ELSE IF waiting # {} THEN CHOOSE m \in waiting : \A n \in waiting : n <= m
      ELSE registered + 1

(* run_daily_batch up to the promotion: from 15:40, once a day as far as   *)
(* this process remembers.                                                 *)
EvaluateShadow ==
  /\ registry # Down /\ batch = "idle" /\ batchOn # date
  /\ batchOn' = date
  /\ \/ \E m \in {Target(registry)} :      \* promotion approved
          /\ m \in Models
          /\ Save(Promote(Registered(registry, m, "CHALLENGER"), m))
          /\ promoted' = m
          /\ registered' = IF m > registered THEN m ELSE registered
          /\ shadowFrom' = [shadowFrom EXCEPT ![m] = IF m > registered THEN date ELSE @]
     \/ UNCHANGED <<file, registry, promoted, registered, shadowFrom>>
  /\ batch' = "train"
  /\ UNCHANGED <<rollout, date, crashes, tears>>

(* Training the next challenger, which may raise: the batch then ends      *)
(* FAILED, whatever it promoted before.                                    *)
TrainChallenger ==
  /\ registry # Down /\ batch = "train"
  /\ batch' = "idle"
  /\ \/ /\ registered < MaxModels
        /\ registered' = registered + 1
        /\ Save(Registered(registry, registered + 1, "CHALLENGER"))
        /\ shadowFrom' = [shadowFrom EXCEPT ![registered + 1] = date]
     \/ UNCHANGED <<file, registry, registered, shadowFrom>>
  /\ UNCHANGED <<rollout, batchOn, date, crashes, tears, promoted>>

(* emergency_rollback: back to the champion before this one.               *)
RollBack(r) == [r EXCEPT !.role = [r.role EXCEPT ![r.champion] = "ROLLED_BACK",
                                                 ![r.previous] = "CHAMPION"],
                         !.champion = r.previous]
RollBackChampion ==
  /\ registry # Down /\ registry.previous # NoModel
  /\ Save(RollBack(registry))
  /\ promoted' = registry.previous
  /\ UNCHANGED <<rollout, batch, batchOn, date, crashes, tears, registered, shadowFrom>>

(* The trader stops, possibly within a write of the batch, which truncates *)
(* the file first.                                                         *)
StopTrader ==
  /\ registry # Down /\ crashes < MaxCrashes
  /\ crashes' = crashes + 1
  /\ registry' = Down
  /\ \/ UNCHANGED <<file, tears>>
     \/ /\ batch = "train" /\ tears < MaxTears
        /\ file' = TornFile /\ tears' = tears + 1
  /\ UNCHANGED <<rollout, batch, batchOn, date, registered, shadowFrom, promoted>>

-----------------------------------------------------------------------------
(* The staged rollout of the dashboard.                                    *)

KnownRollout == IF file.layout = "rollout" THEN file.content ELSE NewRollout

(* Its start and every refresh of the page (load_state); a file it cannot  *)
(* read changes nothing.                                                   *)
LoadRollout ==
  /\ rollout' = IF file.layout \in {"none", "torn"} /\ rollout # Down
                THEN rollout ELSE KnownRollout
  /\ UNCHANGED <<file, registry, batch, batchOn, date, crashes, tears,
                 registered, shadowFrom, promoted>>

SaveRollout(r) ==
  /\ rollout' = r /\ file' = RolloutFile(r)
  /\ UNCHANGED <<registry, batch, batchOn, date, crashes, tears,
                 registered, shadowFrom, promoted>>

(* trigger_candidate_retraining: register_challenger                       *)
RegisterChallenger ==
  /\ rollout # Down
  /\ SaveRollout([state |-> "SHADOW", stage |-> 0])

(* advance_rollout_stage: a new challenger is registered and started in    *)
(* one call; at the whole capital it becomes the champion.                 *)
AdvanceRollout ==
  /\ rollout # Down
  /\ \/ /\ rollout.state \in {"NONE", "SHADOW"}
        /\ SaveRollout([state |-> "STAGED", stage |-> 1])
     \/ /\ rollout.state = "STAGED"
        /\ LET s == rollout.stage + 1
           IN  SaveRollout(IF Stages[s] = 100 THEN [state |-> "PROMOTED", stage |-> 0]
                                              ELSE [state |-> "STAGED", stage |-> s])

EmergencyRollback ==
  /\ rollout # Down
  /\ SaveRollout([state |-> "ROLLED_BACK", stage |-> 0])

StopDashboard ==
  /\ rollout # Down /\ crashes < MaxCrashes
  /\ crashes' = crashes + 1 /\ rollout' = Down
  /\ UNCHANGED <<file, registry, batch, batchOn, date, tears, registered, shadowFrom,
                 promoted>>

NextDate ==
  /\ date < LastDate /\ batch = "idle" /\ date' = date + 1
  /\ UNCHANGED <<file, registry, rollout, batch, batchOn, crashes, tears,
                 registered, shadowFrom, promoted>>

RegistryNext ==
  \/ StartTrader \/ EvaluateShadow \/ TrainChallenger \/ RollBackChampion \/ StopTrader
  \/ LoadRollout \/ RegisterChallenger \/ AdvanceRollout \/ EmergencyRollback
  \/ StopDashboard \/ NextDate

RegistrySpec == RegistryInit /\ [][RegistryNext]_registryVars

-----------------------------------------------------------------------------
(* The file, both memories and the batch have their types.                 *)
RegistryTypeOK ==
  /\ \/ file \in {NoFile, TornFile}
     \/ file.layout = "registry" /\ file.content \in Registries
     \/ file.layout = "rollout" /\ file.content \in Rollouts
  /\ registry \in Registries \union {Down} /\ rollout \in Rollouts \union {Down}
  /\ batch \in {"idle", "train"} /\ date \in 1 .. LastDate
  /\ batchOn \in 0 .. LastDate /\ crashes \in 0 .. MaxCrashes /\ tears \in 0 .. MaxTears
  /\ registered \in Models /\ promoted \in Models
  /\ shadowFrom \in [Models -> 0 .. LastDate]

(* Whatever was promoted, rolled back (twice, too), torn, overwritten or   *)
(* loaded again, the running trader has one model in the role of champion, *)
(* the one it trades with.                                                 *)
OneChampion ==
  registry # Down =>
    {m \in Models : registry.role[m] = "CHAMPION"} = {registry.champion}

(* "From tomorrow the new champion model applies": the trader trades with  *)
(* the model last promoted, also after a restart.  The dashboard's save    *)
(* removes the registry from the file, and the next start takes the        *)
(* default champion.                                                       *)
PromotionSurvives == registry # Down => registry.champion = promoted
=============================================================================
