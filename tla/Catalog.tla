-------------------------------- MODULE Catalog --------------------------------
(***************************************************************************)
(* A catalog on its way from the author into the kernel.  The author       *)
(* starts from a well-formed definition of any kind and makes DraftEdits   *)
(* edits; the game server reads it, resolves what it names and validates   *)
(* the configuration; the kernel checks it again by rules of its own and   *)
(* takes it or refuses the whole catalog.                                  *)
(***************************************************************************)
EXTENDS CatalogMaps, TLC

CONSTANT DraftEdits   \* edits an author makes to the well-formed definition

ASSUME DraftEditsAssumption == DraftEdits \in Nat

VARIABLES
    draft,       \* the authored definition and what it refers to
    draftEdits,  \* edits left
    draftStage   \* how far it has come

draftVars == <<draft, draftEdits, draftStage>>

ActorKinds == {"actor", "rig", "brain", "source"}

Drafts == TemplateDrafts \cup ActorDrafts \cup RigDrafts \cup BrainDrafts \cup SourceDrafts
            \cup PropDrafts \cup ItemDrafts \cup DirectorDrafts
            \cup SpawnerDrafts \cup PatrolDrafts \cup MapDrafts

DraftChoices(d, field) ==
    CASE d.kind = "actor" -> ActorChoices(d, field)
      [] d.kind = "rig" -> RigChoices(d, field)
      [] d.kind = "brain" -> BrainChoices(d, field)
      [] d.kind = "source" -> SourceChoices(d, field)
      [] d.kind = "prop" -> PropChoices(d, field)
      [] d.kind = "item" -> ItemChoices(d, field)
      [] d.kind = "director" -> DirectorChoices(d, field)
      [] d.kind = "spawner" -> SpawnerChoices(d, field)
      [] d.kind = "patrol" -> PatrolChoices(d, field)
      [] d.kind = "map" -> MapChoices(d, field)
      [] OTHER -> TemplateChoices(d, field)

\* What stays on the game server.
ServerKinds == {"director", "spawner", "patrol", "map"}

\* The fields that say which shape of definition it is stay as they are.
Fixed == {"kind", "type", "policy", "mode", "strike"}

load_gameplay_config_from_catalog_source(d) ==
    CASE d.kind \in ActorKinds -> LoaderAcceptsActor(d)
      [] d.kind = "prop" -> LoaderAcceptsProp(d)
      [] d.kind = "item" -> LoaderAcceptsItem(d)
      [] d.kind = "director" -> LoaderAcceptsDirector(d)
      [] d.kind = "spawner" -> LoaderAcceptsSpawner(d)
      [] d.kind = "patrol" -> apply_catalog_patrol_config(d)
      [] d.kind = "map" -> LoaderAcceptsMap(d)
      [] OTHER -> LoaderAcceptsTemplate(d)

load_gameplay_catalog(d) ==
    CASE d.kind \in ActorKinds -> KernelAcceptsActor(d)
      [] d.kind = "prop" -> KernelAcceptsProp(d)
      [] d.kind = "item" -> KernelAcceptsItem(d)
      [] d.kind \in ServerKinds -> TRUE
      [] OTHER -> KernelAcceptsTemplate(d)

DraftInit ==
    /\ draft \in Drafts
    /\ draftEdits = DraftEdits
    /\ draftStage = "authored"

EditDraft ==
    /\ draftStage = "authored" /\ draftEdits > 0
    /\ \E field \in DOMAIN draft \ Fixed :
          \E value \in DraftChoices(draft, field) \ {draft[field]} :
             draft' = [draft EXCEPT ![field] = value]
    /\ draftEdits' = draftEdits - 1
    /\ UNCHANGED draftStage

ReadDraft ==
    /\ draftStage = "authored"
    /\ draftStage' = IF load_gameplay_config_from_catalog_source(draft)
                     THEN "built" ELSE "loader refuses"
    /\ draftEdits' = 0
    /\ UNCHANGED draft

LoadDraft ==
    /\ draftStage = "built"
    /\ draftStage' = IF load_gameplay_catalog(draft) THEN "loaded" ELSE "kernel refuses"
    /\ UNCHANGED <<draft, draftEdits>>

DraftNext == EditDraft \/ ReadDraft \/ LoadDraft

DraftSpec == DraftInit /\ [][DraftNext]_draftVars

(***************************************************************************)
(* Properties.                                                             *)
(***************************************************************************)

\* Counts a definition keeps in a byte fit in one.
DraftTypeOK ==
    /\ draftEdits \in 0..DraftEdits
    /\ draft.kind = "weapon" => PelletCount(draft) \in 0..255
    /\ draft.kind = "actor" => ActiveSlot(draft) \in 0..255
    /\ draftStage \in {"authored", "built", "loader refuses", "loaded", "kernel refuses"}

\* The definitions the loader lets through and the kernel refuses in this
\* code.
DraftDrift(d) ==
    CASE d.kind \in ActorKinds -> ActorDrift(d)
      [] d.kind = "prop" -> PropDrift(d)
      [] d.kind = "item" -> TRUE      \* an item's rules are the kernel's to check
      [] d.kind \in ServerKinds -> FALSE
      [] OTHER -> TemplateDrift(d)

\* Whatever definition the loader lets through, the kernel loads, apart from
\* DraftDrift: the kernel refuses the whole catalog over one definition, and
\* says nothing of which (load_gameplay_catalog returns false).
LoaderAndKernelAgree == draftStage = "kernel refuses" => DraftDrift(draft)

\* A derived projectile is never sent, every client works it out from the
\* strike it descends from: in a catalog that loads, whoever spawns one is
\* derived itself or the marker of a targeted strike (apart from
\* UncheckedSpawn), and no chain of spawns runs in a circle.
DerivedHasRoot ==
    draftStage = "loaded" /\ draft.kind = "chain" =>
        /\ \A p \in Shots, q \in draft.derived :
              <<p, q>> \in spawned_projectile_ids(draft) =>
                  p \in draft.derived \/ (p = draft.strike /\ draft.marker)
        /\ \A p \in draft.derived, q \in Shots :
              <<p, q>> \in spawned_projectile_ids(draft) => q \in draft.derived
        /\ draft.entity.spawns \in draft.derived => UncheckedSpawn(draft)
        /\ ~HasCycle(spawned_projectile_ids(draft))

\* What a loaded catalog sets up can do what it is there for.  From everywhere
\* between the stop distance, where a chaser comes to rest, and the resume
\* distance, up to which it stays there, one of its weapons reaches (or it
\* would park in front of a target it cannot hit); a backpedal ends inside
\* that band and in sight; a patrol has a way to walk and legs to walk it.
\* A mission can be played to its end: its nodes start one after the other
\* and each waits for players, or for a group it has itself spawned and whose
\* members can be destroyed.  A wave comes out whole and free of its carrier, there
\* is one squad for any number of players, and a map can be played on.
LoadedCanAct ==
    draftStage = "loaded" =>
        /\ draft.kind = "brain" /\ Chases(draft) =>
              /\ \A d \in draft.stop..draft.resume : \E s \in WeaponSkills(draft) :
                    s.min <= d /\ (s.max = 0 \/ d <= s.max)
              /\ Backpedals(draft) =>
                    /\ RetreatTarget(draft) \in draft.stop..draft.resume
                    /\ draft.vision > 0 => RetreatTarget(draft) < draft.vision
        /\ draft.kind = "source" /\ RoleGiven(draft) = "patrol" =>
              draft.route >= 2 /\ draft.template = "moves"
        /\ draft.kind = "source" /\ RoleGiven(draft) = "sentry" =>
              draft.template = "sentry"
        /\ draft.kind = "director" /\ draft.type = "game_rule" =>
              /\ \E at \in Permutations(MissionNodes) :
                    \A edge \in draft.next : at[edge[1]] < at[edge[2]]
              /\ \A n \in MissionNodes :
                    LET node == draft.nodes[n]
                    IN node.waits = "player_count_at_least"
                         \/ (node.spawns /\ node.spawn.group = "its own" /\ node.spawn.count > 0
                              /\ node.spawn.what \in {"agent", "destructible prop"})
        /\ draft.kind = "spawner" => WavesComeOut(draft)
        /\ draft.kind = "patrol" => SquadsComeOut(draft)
        /\ draft.kind = "map" => MapIsPlayable(draft)
=============================================================================
