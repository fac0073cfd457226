-------------------------------- MODULE Routing --------------------------------
(***************************************************************************)
(* Which channels a request may be sent to, and in which order, as the     *)
(* TypeScript gateway (config.ts, index.ts) and the Rust proxy (routing.rs,*)
(* proxy.rs) work it out from the same configuration: the channels, one    *)
(* alias with its targets, and the fallback policy.                        *)
(*                                                                         *)
(* A route is the channel and the model sent to it. The path is left out   *)
(* but for the type of provider it asks for; so are uuids, which stand for *)
(* names in targets, and what has cooled down or was tried (TsGateway,     *)
(* ProxyFailover).                                                         *)
(***************************************************************************)
EXTENDS Naturals, Sequences, FiniteSets, SequencesExt

CONSTANTS
  Collated,      \* the names of the channels as localeCompare sorts them: alpha, Beta, gamma
  Bytewise,      \* as Rust sorts strings: Beta, alpha, gamma
  ModelNames,
  AliasName,     \* what clients ask the alias for
  NoEntry,
  MaxTargets     \* bound: targets of the alias

ASSUME RoutingAssumption ==
  /\ Collated # <<>> /\ IsInjective(Collated) /\ IsInjective(Bytewise)
  /\ ToSet(Collated) = ToSet(Bytewise) /\ ModelNames # {} /\ MaxTargets \in Nat \ {0}

VARIABLES
  providers,  \* the entry of each channel
  targets,    \* of the alias; none without an alias
  fallback    \* of the policy: the mode, and the custom fallback of each model

routingVars == <<providers, targets, fallback>>

Channels == ToSet(Collated)
Types == {"openai", "anthropic"}
Entry == [enabled : BOOLEAN, direct : BOOLEAN, type : Types, priority : {0, 1},
          models : SUBSET ModelNames]
Target == [channel : Channels, model : ModelNames]
Modes == {"disabled", "same_model", "any_model"}
\* Of the asked model: none, the alias, or a channel and a model, which is here (bound) not
\* named as the alias is.
Customs == [kind : {"none", "alias"}, target : {CHOOSE t \in Target : TRUE}] \cup
           [kind : {"channel:model"}, target : {t \in Target : t.model # AliasName}]
Route(c, m) == [channel |-> c, model |-> m]

Known(c) == providers[c] # NoEntry
Open(c) == Known(c) /\ providers[c].enabled
Direct(c) == Open(c) /\ providers[c].direct
Lists(c, m) == m \in providers[c].models
IsAlias(m) == m = AliasName /\ targets # <<>>

\* Entries of higher priority first, of equal priority by name.
ByPriority(names) ==
  SelectSeq(names, LAMBDA c : Known(c) /\ providers[c].priority = 1) \o
  SelectSeq(names, LAMBDA c : Known(c) /\ providers[c].priority = 0)

\* The first of those that agree on what Key tells of them.
KeepFirst(s, Key(_)) ==
  FoldLeft(LAMBDA kept, r : IF \E i \in DOMAIN kept : Key(kept[i]) = Key(r)
                            THEN kept ELSE Append(kept, r), <<>>, s)

-----------------------------------------------------------------------------
(* The TypeScript gateway                                                  *)

TsFindByModel(m, type) ==
  LET found == SelectSeq(ByPriority(Collated),
                 LAMBDA c : Direct(c) /\ providers[c].type = type /\ Lists(c, m))
  IN [i \in DOMAIN found |-> Route(found[i], m)]

(* resolveExplicitTargetRoute: an explicit-only channel is taken, and the  *)
(* model need not be among those it lists.                                 *)
TsTarget(t, type) == Open(t.channel) /\ providers[t.channel].type = type

Whole(r) == r
TsAlias(type) == KeepFirst(SelectSeq(targets, LAMBDA t : TsTarget(t, type)), Whole)

(* resolveRoutesByModel *)
TsRoutes(m, type) == IF IsAlias(m) THEN TsAlias(type) ELSE TsFindByModel(m, type)

(* resolveRoutesForFallbackModels, of one fallback: the alias, or a        *)
(* channel and a model it lists.                                           *)
TsCustom(type) ==
  LET t == fallback.custom.target
  IN CASE fallback.custom.kind = "none" -> <<>>
       [] fallback.custom.kind = "alias" -> TsAlias(type)
       [] OTHER -> IF TsTarget(t, type) /\ Lists(t.channel, t.model) THEN <<t>> ELSE <<>>

(* resolveRoutesForAnyModelFallback: every model of every channel.         *)
TsAnyModel(type) ==
  LET open == SelectSeq(ByPriority(Collated), LAMBDA c : Direct(c) /\ providers[c].type = type)
  IN FlattenSeq([i \in DOMAIN open |->
       LET models == SetToSeq(providers[open[i]].models)
       IN [j \in DOMAIN models |-> Route(open[i], models[j])]])

(* buildFallbackRoutes behind the initial route; a route may be in it      *)
(* twice.                                                                  *)
TsFallbacks(m, type) ==
  LET routes == TsRoutes(m, type)
      virtual == IF IsAlias(m) THEN Tail(routes) ELSE <<>>
      site == CASE fallback.mode = "any_model" -> TsAnyModel(type)
                [] fallback.mode = "same_model" -> routes
                [] OTHER -> <<>>
  IN SelectSeq(virtual \o TsCustom(type) \o site, LAMBDA r : r # Head(routes))

TsCandidates(m, type) ==
  LET routes == TsRoutes(m, type)
  IN IF routes = <<>> THEN <<>> ELSE <<Head(routes)>> \o TsFallbacks(m, type)

-----------------------------------------------------------------------------
(* The Rust proxy                                                          *)

\* Mutant: channels that are only for explicit routes are found by model.
RustFindHidden(m, type) ==
  LET found == SelectSeq(ByPriority(Bytewise),
                 LAMBDA c : Open(c) /\ providers[c].type = type /\ Lists(c, m))
  IN [i \in DOMAIN found |-> Route(found[i], m)]

RustFindByModel(m, type) ==
  LET found == SelectSeq(ByPriority(Bytewise),
                 LAMBDA c : Direct(c) /\ providers[c].type = type /\ Lists(c, m))
  IN [i \in DOMAIN found |-> Route(found[i], m)]

(* resolve_explicit_target_route: an explicit-only channel is passed over. *)
RustTarget(t, type) == Direct(t.channel) /\ providers[t.channel].type = type

ItsChannel(r) == r.channel
RustAlias(type) == KeepFirst(SelectSeq(targets, LAMBDA t : RustTarget(t, type)), ItsChannel)

(* resolve_routes_by_model *)
RustRoutes(m, type) == IF IsAlias(m) THEN RustAlias(type) ELSE RustFindByModel(m, type)

(* try_add_fallbacks: the routes of the same model whatever the mode; a    *)
(* custom fallback is looked up as a model's name, so one of the form      *)
(* channel:model is found nowhere; any_model adds the channels in the      *)
(* order of a hash map, asked for the model of the request.                *)
RustCustom(type) == IF fallback.custom.kind = "alias" THEN RustRoutes(AliasName, type) ELSE <<>>
RustAnyModel(m, type) ==
  {Route(c, m) : c \in {d \in Channels : Direct(d) /\ providers[d].type = type}}

RustCandidates(m, type) ==
  LET routes == RustRoutes(m, type)
      others == IF fallback.mode = "any_model"
                THEN SetToSeq(RustAnyModel(m, type)) ELSE <<>>
  IN IF routes = <<>> THEN <<>>
     ELSE KeepFirst(routes \o RustCustom(type) \o others, ItsChannel)

-----------------------------------------------------------------------------
(* The route map of the dashboard (routes-page.tsx), a third reading       *)

\* A target on a channel that was deleted is shown as one of OpenAI's type.
TypeShown(t) == IF Known(t.channel) THEN providers[t.channel].type ELSE "openai"

(* isAliasRoutable: one target on an enabled channel is enough.            *)
MapAliasRoutable == \E i \in DOMAIN targets : Open(targets[i].channel)

(* getAliasRoutes, of the type of the request. *)
MapAliasRoutes(type) ==
  IF MapAliasRoutable THEN SelectSeq(targets, LAMBDA t : TypeShown(t) = type) ELSE <<>>

(* resolveFallbackTarget *)
MapCustom(type) ==
  LET t == fallback.custom.target
  IN CASE fallback.custom.kind = "none" -> <<>>
       [] fallback.custom.kind = "alias" -> MapAliasRoutes(type)
       [] OTHER -> IF TsTarget(t, type) /\ Lists(t.channel, t.model) THEN <<t>> ELSE <<>>

\* Mutant: the fallbacks of the site come before those of the model.
MapRoutesSiteFirst(m, type) ==
  LET models == TsFindByModel(m, type)
      alias == IF m = AliasName THEN MapAliasRoutes(type) ELSE <<>>
      primary == IF alias # <<>> THEN alias ELSE SubSeq(models, 1, IF models = <<>> THEN 0 ELSE 1)
      site == CASE fallback.mode = "any_model" -> TsAnyModel(type)
                [] fallback.mode = "same_model" -> IF alias # <<>> THEN primary ELSE models
                [] OTHER -> <<>>
  IN KeepFirst(primary \o site \o MapCustom(type), Whole)

(* buildRouteMapEntries: the routes shown for a model, without the limit   *)
(* of maxFallbackAttempts.                                                 *)
MapRoutes(m, type) ==
  LET models == TsFindByModel(m, type)
      alias == IF m = AliasName THEN MapAliasRoutes(type) ELSE <<>>
      primary == IF alias # <<>> THEN alias ELSE SubSeq(models, 1, IF models = <<>> THEN 0 ELSE 1)
      site == CASE fallback.mode = "any_model" -> TsAnyModel(type)
                [] fallback.mode = "same_model" -> IF alias # <<>> THEN primary ELSE models
                [] OTHER -> <<>>
  IN KeepFirst(primary \o MapCustom(type) \o site, Whole)

(* The models it has an entry for. *)
MapModels ==
  {route \in ModelNames \X Types :
     \E c \in Channels : Direct(c) /\ providers[c].type = route[2] /\ Lists(c, route[1])} \cup
  {<<AliasName, type>> : type \in {u \in Types : MapAliasRoutes(u) # <<>>}}

-----------------------------------------------------------------------------
(* /v1/models                                                              *)

(* The first target on a channel that is enabled tells the type.           *)
AliasType ==
  LET open == SelectSeq(targets, LAMBDA t : Open(t.channel))
  IN IF open = <<>> THEN {} ELSE {providers[Head(open).channel].type}

(* getModels, where the alias is visible.                                  *)
ModelsListed ==
  {route \in ModelNames \X Types :
     \E c \in Channels : Direct(c) /\ providers[c].type = route[2] /\ Lists(c, route[1])} \cup
  {<<AliasName, type>> : type \in AliasType}
-----------------------------------------------------------------------------
RoutingInit ==
  /\ providers = [c \in Channels |-> NoEntry]
  /\ targets = <<>>
  /\ fallback = [mode |-> "none", custom |-> NoEntry]

Before(s, c, d) == \E i, j \in DOMAIN s : i < j /\ s[i] = c /\ s[j] = d

(* What is saved is saved once, the alias before the policy: the order     *)
(* does not matter.                                                        *)
SaveProvider(c, entry) ==
  /\ ~Known(c)
  /\ \A d \in Channels : Before(Collated, d, c) => Known(d)
  /\ providers' = [providers EXCEPT ![c] = entry]
  /\ UNCHANGED <<targets, fallback>>

SaveAlias(ts) ==
  /\ targets = <<>> /\ ts # <<>> /\ fallback.mode = "none"
  /\ Len(ts) > 1 => \A i \in DOMAIN ts : ts[i].channel # Collated[3]   \* bound
  /\ targets' = ts
  /\ UNCHANGED <<providers, fallback>>

SavePolicy(mode, custom) ==
  /\ fallback.mode = "none"
  /\ custom.kind = "channel:model" => Len(targets) <= 1   \* bound
  /\ fallback' = [mode |-> mode, custom |-> custom]
  /\ UNCHANGED <<providers, targets>>

\* Bound: a channel is off, of the other type or explicit-only, not two of these; if it
\* is off, its models do not matter; the channel that is first by name leaves it to the
\* second to have a priority, and the third is an ordinary one with a model of its own name.
SavedEntries(c) ==
  {e \in Entry :
     /\ c # Collated[2] => e.priority = 0
     /\ c = Collated[3] => e.enabled /\ e.type = "openai" /\ e.direct /\ e.models = ModelNames \ {AliasName}
     /\ Cardinality({x \in {"off", "other", "hidden"} :
          \/ x = "off" /\ ~e.enabled
          \/ x = "other" /\ e.type # "openai"
          \/ x = "hidden" /\ ~e.direct}) <= 1
     /\ ~e.enabled => e.models = ModelNames}

RoutingNext ==
  \/ \E c \in Channels : \E entry \in SavedEntries(c) : SaveProvider(c, entry)
  \/ \E n \in 1..MaxTargets : \E ts \in [1..n -> Target] : SaveAlias(ts)
  \/ \E mode \in Modes, custom \in Customs : SavePolicy(mode, custom)

RoutingSpec == RoutingInit /\ [][RoutingNext]_routingVars

-----------------------------------------------------------------------------
Names2(s) == [i \in DOMAIN s |-> s[i].channel]
OnChannels(s) == KeepFirst(Names2(s), Whole)

\* What the two gateways are known to read differently.
SameReading ==
  /\ \A i, j \in DOMAIN targets : i # j => targets[i].channel # targets[j].channel
  /\ \A i \in DOMAIN targets : Known(targets[i].channel) => providers[targets[i].channel].direct
  /\ fallback.custom.kind # "channel:model"
  /\ fallback.custom.kind = "alias" => targets # <<>>

\* Channels of one priority, which each gateway sorts by name in its own way.
Tied(c, d) ==
  /\ providers[c].priority = providers[d].priority
  /\ Before(Collated, c, d) /\ Before(Bytewise, d, c)

(* Where targets are on direct channels, one each, and a custom fallback   *)
(* names the alias, a request is routable for both gateways or for none    *)
(* and falls back to the same channels, but for any_model's that list no   *)
(* model. They are tried in the same order, from the first on, unless two  *)
(* channels of one priority collate otherwise than they compare            *)
(* (config.ts 354, routing.rs 290), or the custom fallback is tried by     *)
(* TypeScript before the other channels of the model and by Rust behind    *)
(* them (index.ts 538, proxy.rs 1379); any_model's come in any order. With *)
(* fallback disabled the Rust proxy still goes on to channels of the same  *)
(* model (proxy.rs 1362, index.ts 533).                                    *)
GatewaysRouteAlike ==
  fallback.mode # "none" /\ SameReading =>
    \A m \in ModelNames \cup {AliasName}, type \in Types :
      LET ts == OnChannels(TsCandidates(m, type))
          rust == OnChannels(RustCandidates(m, type))
          empty == {c \in Channels : Known(c) /\ providers[c].models = {}}
          custom == ToSet(OnChannels(RustCustom(type)))
          differ(c, d) == Tied(c, d) /\ ~IsAlias(m)
      IN /\ (ts = <<>>) <=> (rust = <<>>)
         /\ ts # <<>> => Head(ts) = Head(rust) \/ differ(Head(ts), Head(rust))
         /\ fallback.mode # "any_model" =>
              \A c, d \in Channels : Before(ts, c, d) /\ Before(rust, d, c) => differ(c, d) \/ c \in custom
         /\ fallback.mode = "same_model" => ToSet(rust) = ToSet(ts)
         /\ fallback.mode = "any_model" => ToSet(rust) \ empty \subseteq ToSet(ts)
         /\ ToSet(ts) \subseteq ToSet(rust)

\* What the map shows and the gateway does not do: targets on channels that are off or gone,
\* and the channels that list a model whose name an alias took for the other type.
MapIsTrue(m, type) ==
  /\ \A i \in DOMAIN targets : Open(targets[i].channel)
  /\ IsAlias(m) => TsAlias(type) # <<>>

(* The route map shows, in their order, the routes the TypeScript gateway  *)
(* tries for a model, and has no entry for what the gateway cannot route,  *)
(* unless a target's channel is off or gone, or an alias of the other type *)
(* took the model's name (routes-page.tsx 219-287, index.ts 526-557). So   *)
(* has /v1/models (config.ts 895).                                         *)
MapShowsRoutes ==
  \A m \in ModelNames \cup {AliasName}, type \in Types :
    fallback.mode # "none" /\ MapIsTrue(m, type) =>
      /\ <<m, type>> \in MapModels <=> TsRoutes(m, type) # <<>>
      /\ <<m, type>> \in MapModels => MapRoutes(m, type) = KeepFirst(TsCandidates(m, type), Whole)
      /\ <<m, type>> \in ModelsListed => TsRoutes(m, type) # <<>>
=============================================================================
