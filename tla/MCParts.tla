------------------------------- MODULE MCParts -------------------------------
(***************************************************************************)
(* The parts of the system that share no state with the gateways' loops,   *)
(* each from its own start to its own bound: the registry of channels and  *)
(* aliases, the dashboard and its forms, the route resolution, the         *)
(* conversion of requests and answers, the queries of the log, what a      *)
(* request used and what it costs, and whom an API key lets in. A          *)
(* behaviour is one of one part; the others stay as they start.            *)
(***************************************************************************)
EXTENDS Registry, DashboardEditors, DashboardViews, Routing, ChatStream,
        ChannelSettings, AliasSettings, TimeoutSettings, PolicySettings, LogQueries,
        UsageParsing, RequestForms, ModelRewrite, ModelCatalog, ModelPrices, KeyPush

CONSTANTS c1, c2, c3
ByName == <<c1, c2, c3>>
ByBytes == <<c2, c1, c3>>
Channels2 == {"u1", "u2"}
Named == [u \in Channels2 |-> IF u = "u1" THEN "c1" ELSE "c2"]
LogTypes == [c \in Channels2 |-> IF c = "u1" THEN "anthropic" ELSE "openai"]
Lows == [t \in Timeouts |-> IF t = "idle" THEN 0 ELSE 1]
Highs == [t \in Timeouts |-> 4]
Codes == [t \in Timeouts |-> 3]

VARIABLE part

settings == <<settingVars, aliasVars, timeoutVars, policyVars>>
requests == <<logVars, usageVars, formVars, rewriteVars>>
pricing == <<catalogVars, priceVars, pushVars>>
dashboard == <<vars, editorVars, viewVars, routingVars, chatVars>>

PartsInit ==
  /\ part \in {"registry", "editors", "views", "routing", "chat",
              "channels", "aliases", "timeouts", "policy",
              "queries", "usage", "forms", "rewrite", "catalog", "prices", "keys"}
  /\ Init /\ rows[CHOOSE n \in Names : TRUE] # NoRow   \* the names are alike
  /\ RoutingInit /\ ChatInit /\ EditorsInit /\ ViewsInit
  /\ SettingsInit /\ AliasInit /\ PolicyInit /\ LogInit
  /\ TimeoutInit
  /\ part # "timeouts" =>
       timeoutRow = NothingSet /\ \A v \in Variables : environment[v] = NotSet
  /\ UsageInit
  /\ part # "usage" => dialect = "chat"
  /\ FormsInit
  /\ part # "forms" =>
       ~asked.instructions /\ ~via.prompt /\ ~via.compat
  /\ RewriteInit
  /\ part # "rewrite" => body = RealField \o RealField
  /\ CatalogInit /\ PricesInit /\ KeyPushInit
  /\ part # "prices" => otherPrice = NoPrice

PartsNext ==
  /\ UNCHANGED part
  /\ \/ part = "registry" /\ Next
        /\ UNCHANGED <<editorVars, viewVars, routingVars, chatVars, settings, requests, pricing>>
     \/ part = "editors" /\ EditorsNext
        /\ UNCHANGED <<vars, viewVars, routingVars, chatVars, settings, requests, pricing>>
     \/ part = "views" /\ ViewsNext
        /\ UNCHANGED <<vars, editorVars, routingVars, chatVars, settings, requests, pricing>>
     \/ part = "routing" /\ RoutingNext
        /\ UNCHANGED <<vars, editorVars, viewVars, chatVars, settings, requests, pricing>>
     \/ part = "chat" /\ ChatNext
        /\ UNCHANGED <<vars, editorVars, viewVars, routingVars, settings, requests, pricing>>
     \/ part = "channels" /\ SettingsNext
        /\ UNCHANGED <<aliasVars, timeoutVars, policyVars, dashboard, requests, pricing>>
     \/ part = "aliases" /\ AliasNext
        /\ UNCHANGED <<settingVars, timeoutVars, policyVars, dashboard, requests, pricing>>
     \/ part = "timeouts" /\ TimeoutNext
        /\ UNCHANGED <<settingVars, aliasVars, policyVars, dashboard, requests, pricing>>
     \/ part = "policy" /\ PolicyNext
        /\ UNCHANGED <<settingVars, aliasVars, timeoutVars, dashboard, requests, pricing>>
     \/ part = "queries" /\ LogNext
        /\ UNCHANGED <<usageVars, formVars, rewriteVars, dashboard, settings, pricing>>
     \/ part = "usage" /\ UsageNext
        /\ UNCHANGED <<logVars, formVars, rewriteVars, dashboard, settings, pricing>>
     \/ part = "forms" /\ FormsNext
        /\ UNCHANGED <<logVars, usageVars, rewriteVars, dashboard, settings, pricing>>
     \/ part = "rewrite" /\ RewriteNext
        /\ UNCHANGED <<logVars, usageVars, formVars, dashboard, settings, pricing>>
     \/ part = "catalog" /\ CatalogNext
        /\ UNCHANGED <<priceVars, pushVars, dashboard, settings, requests>>
     \/ part = "prices" /\ PricesNext
        /\ UNCHANGED <<catalogVars, pushVars, dashboard, settings, requests>>
     \/ part = "keys" /\ KeyPushNext
        /\ UNCHANGED <<catalogVars, priceVars, dashboard, settings, requests>>

partsVars == <<part, dashboard, settings, requests, pricing>>
PartsSpec == PartsInit /\ [][PartsNext]_partsVars

-----------------------------------------------------------------------------
(* Channels and aliases: the copies the gateways use are what is stored,   *)
(* an edit keeps what it was not about, and the Rust proxy is told of      *)
(* every change (Registry).                                                *)
RegistryKept ==
  part = "registry" => CopyIsStored /\ EditsKeepTheRest /\ RustToldOfChanges

(* The dashboard shows what is chosen in it, with what this administrator  *)
(* wrote, and writes to no other channel than the one that is open         *)
(* (DashboardViews, DashboardEditors).                                     *)
DashboardTrue ==
  /\ part = "views" => ShownIsChosen
  /\ part = "editors" => OwnWritesShown /\ NoCrossWrite

(* Both gateways send a request along the same routes, and the map of the  *)
(* routes shows them (Routing).                                            *)
RoutesAgree == part = "routing" => GatewaysRouteAlike /\ MapShowsRoutes

(* What the dashboard's forms show of a channel, an alias, the timeouts    *)
(* and the policy is what was saved and what the gateways go by.           *)
FormsShown ==
  /\ part = "channels" => ChannelSavedAsShown
  /\ part = "aliases" => AliasShown
  /\ part = "timeouts" => TimeoutsShown
  /\ part = "policy" => PolicyShown

(* Saving one of the forms changes what was touched in it, and nothing     *)
(* else.                                                                   *)
FormsKeep == ChannelUntouchedKept /\ AliasKept /\ TimeoutsKept /\ PolicyKept

(* The list of requests, its filters, the statistics and the health of the *)
(* channels agree on what was logged (LogQueries).                         *)
LogsAgree == part = "queries" => LogsCounted

(* A request is said to have used, and is charged for, what its answer     *)
(* told or, failing that, an estimate that counts it once (UsageParsing),  *)
(* at the price that the page of models shows (ModelPrices), from a        *)
(* catalog that is as fresh as it is taken for (ModelCatalog).             *)
UsageSettled ==
  /\ part = "usage" => UsageCounted
  /\ part = "catalog" => CatalogKept
  /\ part = "prices" => PricesKept

(* Both gateways let an API key in, or neither does (KeyPush).             *)
KeysAgree == part = "keys" => KeysAdmittedAlike

(* A request means to its channel what it meant to its client              *)
(* (RequestForms).                                                         *)
RequestMeaningKept == part = "forms" => RequestsKept

(* The answer reaches the client whole and in order, converted from a chat *)
(* completion (ChatStream) or with the model renamed (ModelRewrite).       *)
AnswerKept ==
  /\ part = "chat" => ClientRebuilds
  /\ part = "rewrite" => BodyKept
=============================================================================
