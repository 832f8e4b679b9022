------------------------------- MODULE ConfigEdits -------------------------------
(***************************************************************************)
(* The configuration and its card: config/index.ts, the "config." clicks,  *)
(* the /config command and the spreading of a save (router/index.ts), what *)
(* a change of one field does to others (router/config), and the choices   *)
(* kept for each agent (runner/sync-agent-choices.ts).  Edits change a     *)
(* copy, pendingConfig; saving writes the differences to the file.  A file *)
(* may hold what a person wrote by hand: comments and unknown keys, and    *)
(* values edited since the program read them.                              *)
(***************************************************************************)
EXTENDS Naturals, Sequences, FiniteSets, FiniteSetsExt, SequencesExt

CONSTANTS
    ConfigAgents,  \* among "claude", "codex", "kimi", "dsh", "opencode", "pi"
    ModelsOf,      \* [providers -> their models, in order]
    EffortsOf,     \* [models -> the efforts they support, in order]
    MaxEdits,      \* bound: clicks and commands
    MaxConfigCards \* bound: cards sent

ASSUME ConfigAssumption ==
    /\ ConfigAgents # {}
    /\ MaxEdits \in Nat /\ MaxConfigCards \in Nat

Absent == "-"
Bad == "bad"       \* a value the schema refuses
Custom == "custom" \* a model no list has
NotPending == [agent |-> Absent]
NoConfigCard == [version |-> 0]
Providers == DOMAIN ModelsOf
Models == DOMAIN EffortsOf
Efforts == UNION {ToSet(EffortsOf[m]) : m \in Models}
Blank == [provider |-> Absent, model |-> Absent, effort |-> Absent]
AgentKey == [agent |-> Absent, field |-> "agent"]
IdleKey == [agent |-> Absent, field |-> "idle"]

VARIABLES
    config,    \* the configuration in force: [agent, of: [ConfigAgents -> fields], idle]
    choices,   \* agentChoices of it: [ConfigAgents -> fields]
    pending,   \* pendingConfig
    file,      \* config.yaml: [config, choices, hand]
    queue,     \* configActionQueue: the clicks, and how far each is
    shown,     \* the messages with a card: [version, drawn: the configuration it was drawn for]
    version,   \* cards drawn
    \* History variables
    backwards, \* a message showed an older version after a newer one
    edits

configVars == <<config, choices, pending, file, queue, shown, version, backwards, edits>>

ConfigInit ==
    /\ \E a \in ConfigAgents :
         config = [agent |-> a, of |-> [b \in ConfigAgents |-> Blank], idle |-> "long"]
    /\ choices = [a \in ConfigAgents |-> Blank]
    /\ pending = NotPending
    /\ file = [config |-> config, choices |-> choices, hand |-> TRUE]
    /\ queue = <<>>
    /\ shown = <<[version |-> 0, drawn |-> config]>>
    /\ version = 0
    /\ backwards = FALSE
    /\ edits = 0

-----------------------------------------------------------------------------
(* One field and those that depend on it.                                  *)

(* setNestedValue: an absent value takes the key away.                     *)
SetNestedValue(c, key, value) ==
    IF key = AgentKey THEN [c EXCEPT !.agent = value]
    ELSE IF key = IdleKey THEN [c EXCEPT !.idle = value]
    ELSE [c EXCEPT !.of[key.agent][key.field] = value]

KeysOf(a) == {AgentKey, IdleKey} \cup [agent : {a}, field : {"provider", "model", "effort"}]

(* The effort in the middle of those a model supports.                     *)
Middle(list, k) == IF list = <<>> THEN Absent ELSE list[k + 1]

(* resetModelPatch: the first model of the provider, unless it has this one. *)
ResetModelPatch(fields, provider) ==
    IF ModelsOf[provider] = <<>> \/ fields.model \in ToSet(ModelsOf[provider]) THEN fields
    ELSE [fields EXCEPT !.model = ModelsOf[provider][1]]

(* effortPatchForModel of codex and kimi: the lower middle.                *)
LowerMiddleEffort(fields) ==
    LET list == IF fields.model \in Models THEN EffortsOf[fields.model] ELSE <<>>
    IN  IF fields.effort # Absent /\ fields.effort \in ToSet(list) THEN fields
        ELSE [fields EXCEPT !.effort = Middle(list, (Len(list) - 1) \div 2)]

(* effortPatchForModel of dsh: the upper middle; no model, no effort.      *)
UpperMiddleEffort(fields) ==
    LET list == IF fields.model \in Models THEN EffortsOf[fields.model] ELSE <<>>
    IN  IF fields.model # Absent /\ fields.effort # Absent /\ fields.effort \in ToSet(list) THEN fields
        ELSE [fields EXCEPT !.effort = IF fields.model = Absent THEN Absent ELSE Middle(list, Len(list) \div 2)]

(* buildFields of each builder: the values a card drawn for c offers for a  *)
(* field of its agent, those one may type included.                        *)
EffortsFor(model) == IF model \in Models THEN ToSet(EffortsOf[model]) ELSE {}
ModelsFor(provider) == IF provider \in Providers THEN ToSet(ModelsOf[provider]) ELSE {}
CodexFields(of) ==
    [provider |-> Providers, model |-> ModelsFor(of.provider) \cup {Custom}, effort |-> EffortsFor(of.model)]
KimiFields(of) == [provider |-> {}, model |-> Models, effort |-> EffortsFor(of.model)]
DshFields(of) ==
    [provider |-> {}, model |-> Models \cup {Absent, Custom}, effort |-> {Absent} \cup EffortsFor(of.model)]
OpencodeFields(of) == [provider |-> Providers, model |-> ModelsFor(of.provider), effort |-> {}]
PiFields(of) == [provider |-> Providers, model |-> ModelsFor(of.provider), effort |-> Efforts]
ClaudeFields(of) == [provider |-> {}, model |-> Models \cup {Custom}, effort |-> Efforts]

FieldsOf(c) ==
    LET of == c.of[c.agent]
    IN  CASE c.agent = "codex" -> CodexFields(of)
          [] c.agent = "kimi" -> KimiFields(of)
          [] c.agent = "dsh" -> DshFields(of)
          [] c.agent = "opencode" -> OpencodeFields(of)
          [] c.agent = "pi" -> PiFields(of)
          [] OTHER -> ClaudeFields(of)

(* buildConfigCardFromTabs: each field with the values it offers, those of *)
(* the agent and those of every card.                                      *)
CardOffers(c) ==
    {[key |-> AgentKey, value |-> a] : a \in ConfigAgents}
        \cup {[key |-> IdleKey, value |-> v] : v \in {"short", "long", Bad}}
        \cup UNION {{[key |-> [agent |-> c.agent, field |-> f], value |-> v] : v \in FieldsOf(c)[f]} :
                     f \in {"provider", "model", "effort"}}

(* handleFieldChange of each builder.                                      *)
CodexFieldChange(fields, field, value) ==
    LET set == [fields EXCEPT ![field] = value]
        reset == ResetModelPatch(set, value)
    IN  IF field = "model" THEN LowerMiddleEffort(set)
        ELSE IF field = "provider" /\ reset # set THEN LowerMiddleEffort(reset)
        ELSE set

KimiFieldChange(fields, field, value) ==
    IF field = "model" THEN LowerMiddleEffort([fields EXCEPT !.model = value]) ELSE [fields EXCEPT ![field] = value]

DshFieldChange(fields, field, value) ==
    IF field = "model" THEN UpperMiddleEffort([fields EXCEPT !.model = value]) ELSE [fields EXCEPT ![field] = value]

OpencodeFieldChange(fields, field, value) ==
    LET set == [fields EXCEPT ![field] = value]
    IN  IF field = "provider" THEN ResetModelPatch(set, value) ELSE set

PiFieldChange(fields, field, value) ==
    LET set == [fields EXCEPT ![field] = value]
    IN  IF field = "provider" THEN ResetModelPatch(set, value) ELSE set

ClaudeFieldChange(fields, field, value) == [fields EXCEPT ![field] = value]

(* The builder is that of the agent the pending configuration names; the   *)
(* key may be of another one, on a card drawn before.                      *)
HandleFieldChange(c, key, value) ==
    IF key \in {AgentKey, IdleKey} THEN SetNestedValue(c, key, value)
    ELSE LET old == c.of[key.agent]
             new == IF key.agent # c.agent THEN ClaudeFieldChange(old, key.field, value)
                    ELSE CASE c.agent = "codex" -> CodexFieldChange(old, key.field, value)
                           [] c.agent = "kimi" -> KimiFieldChange(old, key.field, value)
                           [] c.agent = "dsh" -> DshFieldChange(old, key.field, value)
                           [] c.agent = "opencode" -> OpencodeFieldChange(old, key.field, value)
                           [] c.agent = "pi" -> PiFieldChange(old, key.field, value)
                           [] OTHER -> ClaudeFieldChange(old, key.field, value)
         IN  [c EXCEPT !.of[key.agent] = new]

-----------------------------------------------------------------------------
(* Saving.                                                                 *)

(* diffConfig: the keys whose values differ.                               *)
AllKeys == UNION {KeysOf(a) : a \in ConfigAgents}
ValueAt(c, key) ==
    IF key = AgentKey THEN c.agent ELSE IF key = IdleKey THEN c.idle ELSE c.of[key.agent][key.field]
DiffConfig(old, new) == {k \in AllKeys : ValueAt(old, k) # ValueAt(new, k)}

(* safeParse.                                                              *)
Valid(c) == c.idle # Bad

(* renderConfigPatch: the differences, put into the file as it is now.     *)
RenderConfigPatch(old, keys, new) ==
    FoldSet(LAMBDA k, c : SetNestedValue(c, k, ValueAt(new, k)), old, keys)

(* syncAgentChoices: what the agent had; not for claude or dsh.            *)
SyncAgentChoices(c, ch) ==
    IF c.agent \in {"claude", "dsh"} THEN ch
    ELSE LET of == c.of[c.agent]
         IN  [ch EXCEPT ![c.agent] =
                [model |-> IF of.model = Absent THEN @.model ELSE of.model,
                 provider |-> IF of.provider = Absent THEN @.provider ELSE of.provider,
                 effort |-> IF c.agent \in {"kimi", "pi"} /\ of.effort # Absent THEN of.effort ELSE @.effort]]

(* setConfigValues: validated on a copy, written, and then in force; then  *)
(* propagateConfigSave.  When a field of the agent in force is among the   *)
(* differences its choices are kept, by writing the whole configuration;   *)
(* and the cached runners are dropped when an agent is concerned.          *)
SetConfigValues(new, keys) ==
    LET ofAgent == \E k \in keys \ {AgentKey, IdleKey} : k.agent = new.agent /\ new.agent # "claude"
        patched == RenderConfigPatch(file.config, keys, new)
        kept == SyncAgentChoices(new, choices)
    IN  /\ config' = new
        /\ IF ofAgent
           THEN choices' = kept /\ file' = [config |-> new, choices |-> kept, hand |-> FALSE]
           ELSE choices' = choices /\ file' = [file EXCEPT !.config = patched]

-----------------------------------------------------------------------------
(* The clicks, one after the other.                                        *)

Display == IF pending = NotPending THEN config ELSE pending

(* A click on a card, whose fields are those it was drawn with.            *)
ClickConfig(m) ==
    LET click(cmd, offer) ==
            queue' = Append(queue, [to |-> m, cmd |-> cmd, offer |-> offer, stage |-> "waiting", card |-> NoConfigCard])
    IN  /\ edits < MaxEdits
        /\ edits' = edits + 1
        /\ \/ click("config.save", [key |-> IdleKey, value |-> Absent])
           \/ \E offer \in CardOffers(shown[m].drawn) : click("config.set", offer)
        /\ UNCHANGED <<config, choices, pending, file, shown, version, backwards>>

(* Mutant of MayStart: the clicks are not chained.                         *)
MayStartAtOnce(i) == queue[i].stage = "waiting"

(* enqueueConfigAction: a click waits for the one before to be done.       *)
MayStart(i) == i = 1 /\ queue[i].stage = "waiting"

(* buildConfigCard and updateCardInPlace: the update is on its way.        *)
Draws(i) ==
    /\ version' = version + 1
    /\ queue' = [queue EXCEPT ![i].stage = "patching", ![i].card = [version |-> version + 1, drawn |-> Display']]

Done(i) == queue' = RemoveAt(queue, i)

(* config.set, config.toggle and config.input: the copy is edited.         *)
RunConfigSet(i) ==
    /\ MayStart(i)
    /\ queue[i].cmd = "config.set"
    /\ pending' = HandleFieldChange(Display, queue[i].offer.key, queue[i].offer.value)
    /\ UNCHANGED <<config, choices, file, shown, backwards, edits>>
    /\ Draws(i)

(* config.save with nothing to save.                                       *)
RunConfigSaveNothing(i) ==
    /\ MayStart(i)
    /\ queue[i].cmd = "config.save"
    /\ pending # NotPending => DiffConfig(config, pending) = {}
    /\ pending' = NotPending
    /\ Done(i)
    /\ UNCHANGED <<config, choices, file, shown, version, backwards, edits>>

(* config.save: refused, or written; the card is drawn when the catalog of *)
(* dsh has been asked for.                                                 *)
RunConfigSave(i, ok) ==
    /\ MayStart(i)
    /\ queue[i].cmd = "config.save"
    /\ pending # NotPending
    /\ DiffConfig(config, pending) # {}
    /\ IF ok /\ Valid(pending)
       THEN /\ SetConfigValues(pending, DiffConfig(config, pending))
            /\ pending' = NotPending
            /\ queue' = [queue EXCEPT ![i].stage = "fetching"]
       ELSE Done(i) /\ UNCHANGED <<config, choices, pending, file>>
    /\ UNCHANGED <<shown, version, backwards, edits>>

(* prefetchConfigCardCatalogs.                                             *)
CatalogFetched(i) ==
    /\ queue[i].stage = "fetching"
    /\ UNCHANGED <<config, choices, pending, file, shown, backwards, edits>>
    /\ Draws(i)

(* The update arrives; or it fails, and a new message shows the card, or   *)
(* none.  Either way the click is done.                                    *)
UpdateSettles(i) ==
    /\ queue[i].stage = "patching"
    /\ Done(i)
    /\ \/ /\ shown' = [shown EXCEPT ![queue[i].to] = queue[i].card]
          /\ backwards' = (backwards \/ shown[queue[i].to].version > queue[i].card.version)
       \/ /\ shown' = IF Len(shown) < MaxConfigCards THEN Append(shown, queue[i].card) ELSE shown
          /\ UNCHANGED backwards
    /\ UNCHANGED <<config, choices, pending, file, version, edits>>

-----------------------------------------------------------------------------
(* The command, which does not wait for the clicks.                        *)

CmdConfig ==
    /\ edits < MaxEdits
    /\ edits' = edits + 1
    /\ version' = version + 1
    /\ shown' = IF Len(shown) < MaxConfigCards THEN Append(shown, [version |-> version', drawn |-> Display']) ELSE shown
    /\ UNCHANGED <<queue, backwards>>

(* /config: the card.                                                      *)
CmdConfigCard ==
    /\ pending' = Display
    /\ UNCHANGED <<config, choices, file>>
    /\ CmdConfig

(* /config <key> <value>: written at once; the edits that were not saved   *)
(* are dropped, and the card says how many.                                *)
CmdConfigSet(key, value) ==
    /\ IF Valid(SetNestedValue(config, key, value))
       THEN SetConfigValues(SetNestedValue(config, key, value), {key}) /\ pending' = NotPending
       ELSE UNCHANGED <<config, choices, pending, file>>
    /\ CmdConfig

(* A person edits the file; the program does not read it again.            *)
HandEdit ==
    /\ file.config.idle # "mine"
    /\ file' = [file EXCEPT !.config.idle = "mine", !.hand = TRUE]
    /\ UNCHANGED <<config, choices, pending, queue, shown, version, backwards, edits>>

(* resolveAgentChoices: a field the agent has no value for is what it was  *)
(* the last time; not for claude or dsh, nor the effort of codex, opencode.*)
ResolveAgentChoices(c, ch) ==
    IF c.agent \in {"claude", "dsh"} THEN c
    ELSE [c EXCEPT !.of[c.agent] = [f \in DOMAIN @ |-> IF @[f] = Absent THEN ch[c.agent][f] ELSE @[f]]]

(* loadConfig, when the program starts again.                              *)
LoadConfig ==
    /\ queue = <<>>
    /\ config # file.config \/ pending # NotPending
    /\ config' = ResolveAgentChoices(file.config, file.choices)
    /\ choices' = file.choices
    /\ pending' = NotPending
    /\ UNCHANGED <<file, queue, shown, version, backwards, edits>>

ConfigStep ==
    \/ \E i \in DOMAIN queue :
         \/ RunConfigSet(i)
         \/ RunConfigSaveNothing(i)
         \/ \E ok \in BOOLEAN : RunConfigSave(i, ok)
         \/ CatalogFetched(i)
         \/ UpdateSettles(i)

ConfigNext ==
    \/ \E m \in DOMAIN shown : ClickConfig(m)
    \/ ConfigStep
    \/ CmdConfigCard
    \/ \E offer \in CardOffers(config) : CmdConfigSet(offer.key, offer.value)
    \/ HandEdit
    \/ LoadConfig

ConfigSpec == ConfigInit /\ [][ConfigNext]_configVars

-----------------------------------------------------------------------------
(* Properties.                                                             *)

(* However fast one clicks, a message never shows an older card after a    *)
(* newer one.                                                              *)
NoCardGoesBack == ~ backwards

-----------------------------------------------------------------------------
(* A statement of the comments that the code does not keep.                *)

(* renderConfigPatch: the differences are put into the file, instead of    *)
(* writing the configuration anew, so that what a person wrote by hand     *)
(* (comments, unknown keys) survives a save.                               *)
HandWrittenKept == file.hand

=============================================================================
