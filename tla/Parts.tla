------------------------------- MODULE Parts -------------------------------
(***************************************************************************)
(* Small parts of the backend that share no state with each other, in one  *)
(* specification: the behaviours in which one of them moves show all that  *)
(* can be said of it.                                                      *)
(***************************************************************************)
EXTENDS ModelPulls, GuiRuntime, ProviderCalls, Compaction, ThreadSettings, StoreMigration,
        StorageKey

VARIABLE moving   \* the part that moves

PartsInit ==
  /\ moving \in {"pulls", "build", "calls", "compaction", "settings", "migration", "key"}
  /\ PullsInit /\ BuildInit /\ CallsInit /\ CompactionInit /\ SettingsInit
  /\ MigrationInit /\ KeyInit
  \* a part that does not move starts in one state
  /\ image => moving = "build"
  /\ ollama => moving = "calls"
  /\ Len(saved[1].messages) > 2 => moving = "compaction"
  /\ folder \/ sidecar # {} => moving = "migration"

Only(p, action) == moving = p /\ UNCHANGED moving /\ action

PartsNext ==
  \/ /\ Only("pulls", PullsNext)
     /\ UNCHANGED <<buildVars, callVars, compactionVars, settingsVars, migrationVars, keyVars>>
  \/ /\ Only("build", BuildNext)
     /\ UNCHANGED <<pullVars, callVars, compactionVars, settingsVars, migrationVars, keyVars>>
  \/ /\ Only("calls", CallsNext)
     /\ UNCHANGED <<pullVars, buildVars, compactionVars, settingsVars, migrationVars, keyVars>>
  \/ /\ Only("compaction", CompactionNext)
     /\ UNCHANGED <<pullVars, buildVars, callVars, settingsVars, migrationVars, keyVars>>
  \/ /\ Only("settings", SettingsNext)
     /\ UNCHANGED <<pullVars, buildVars, callVars, compactionVars, migrationVars, keyVars>>
  \/ /\ Only("migration", MigrationNext)
     /\ UNCHANGED <<pullVars, buildVars, callVars, compactionVars, settingsVars, keyVars>>
  \/ /\ Only("key", KeyNext)
     /\ UNCHANGED <<pullVars, buildVars, callVars, compactionVars, settingsVars, migrationVars>>

partsVars == <<moving, pullVars, buildVars, callVars, compactionVars, settingsVars,
               migrationVars, keyVars>>

\* In a part that does not move, the actions with fairness are not enabled.
PartsSpec ==
  /\ PartsInit /\ [][PartsNext]_partsVars
  /\ PullsFairness /\ BuildFairness

\* The types and the simpler invariants of the parts: no download is forgotten or left
\* open, the GUI runtime is what it is said to be, a thread that ran has a model, and
\* the processes have one key and leave no lock behind.
PartsAreSound ==
  /\ PullsTypeOK /\ NoTransferLeft
  /\ BuildTypeOK /\ PreparingIsReal /\ ReadyIsThere
  /\ SettingsTypeOK
  /\ OneKey /\ LockHasOwner

=============================================================================
