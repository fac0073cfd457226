----------------------------- MODULE RequestForms -----------------------------
(***************************************************************************)
(* What becomes of a client's request on its way to a channel: a request   *)
(* to the Responses API that a channel only knows as a chat completion     *)
(* (openai-responses-chat-compat.ts), a message to an anthropic channel    *)
(* with instructions of its own (providers/anthropic.ts), and the headers  *)
(* and the model of both (index.ts).                                       *)
(*                                                                         *)
(* A client builds its request item by item; an item is known by its place *)
(* (0 for the instructions of the request, -1 for those of the channel).   *)
(***************************************************************************)
EXTENDS Integers, Sequences, FiniteSets, SequencesExt

CONSTANTS
  LeftOut,    \* of a field: left out
  MaxItems    \* bound: items of a request

ASSUME RequestAssumption == MaxItems \in Nat

VARIABLES
  asked,    \* the request
  via       \* the channel

formVars == <<asked, via>>

Item(kind, of) == [kind |-> kind, of |-> of]
Plain == {"system", "developer", "user", "assistant", "reasoning"}
Unsupported == {"file", "reference", "nameless_call"}
Stateful == {"previous_response_id", "conversation", "several"}

CallsOf(items) == {i \in DOMAIN items : items[i].kind = "call"}
OpenCalls(items) ==
  {i \in CallsOf(items) : \A j \in DOMAIN items : items[j].of # i}

-----------------------------------------------------------------------------
(* From Responses to a chat completion                                     *)

RoleOf(kind) ==   \* normalizeChatRole
  CASE kind \in {"developer", "system"} -> "system"
    [] kind \in {"assistant", "call"} -> "assistant"
    [] kind = "output" -> "tool"
    [] OTHER -> "user"

Message(role, items) == [role |-> role, items |-> items]

(* convertResponsesInputItemToChatMessage: none of a reasoning             *)
MessageOf(items, i) ==
  IF items[i].kind = "reasoning" THEN <<>> ELSE <<Message(RoleOf(items[i].kind), <<i>>)>>

InputMessages(items) == FlattenSeq([i \in DOMAIN items |-> MessageOf(items, i)])

LeadingSystems(ms) ==
  CHOOSE n \in 0..Len(ms) :
    /\ \A i \in 1..n : ms[i].role = "system"
    /\ n < Len(ms) => ms[n + 1].role # "system"

(* Mutant: only the first two are merged.                                  *)
MergesTwo(ms) ==
  IF LeadingSystems(ms) < 2 THEN ms
  ELSE <<Message("system", ms[1].items \o ms[2].items)>> \o SubSeq(ms, 3, Len(ms))
MergeLeadingSystemMessages(ms) ==
  LET n == LeadingSystems(ms) IN
  IF n < 2 THEN ms
  ELSE <<Message("system", FlattenSeq([i \in 1..n |-> ms[i].items]))>>
         \o SubSeq(ms, n + 1, Len(ms))

(* A tool that is no function is left out; one without a name refused      *)
ChatTools(tools) == tools \intersect {"f", "g"}
ChatToolChoice(choice, tools) ==
  IF tools = {} \/ choice = "builtin" THEN LeftOut ELSE choice
ResponseFormat(format) == IF format = "text" THEN LeftOut ELSE format

Unconvertible(r) ==
  \/ r.uses \intersect Stateful # {}
  \/ \E i \in DOMAIN r.items : r.items[i].kind \in Unsupported
  \/ "nameless" \in r.tools
  \/ r.format = "grammar"

(* isMiniMaxChatCompatTarget, sanitizeMiniMaxChatPayload                   *)
IsMiniMax(r, c) == r.model = "minimax" \/ c.host = "minimax"
Sanitized(payload) ==
  [payload EXCEPT !.choice = LeftOut, !.format = LeftOut, !.effort = LeftOut, !.strict = FALSE]

(* convertResponsesRequestToChatCompletions                                *)
ChatPayload(r, c) ==
  LET messages == (IF r.instructions THEN <<Message("system", <<0>>)>> ELSE <<>>)
                    \o InputMessages(r.items)
      tools == ChatTools(r.tools)
      payload == [model |-> r.model,
                  messages |-> MergeLeadingSystemMessages(messages),
                  tools |-> tools, strict |-> tools # {},
                  choice |-> ChatToolChoice(r.choice, tools),
                  format |-> ResponseFormat(r.format),
                  effort |-> r.effort]
  IN  IF IsMiniMax(r, c) THEN Sanitized(payload) ELSE payload

-----------------------------------------------------------------------------
(* To an anthropic channel: the instructions of the channel come first     *)

InjectRouteSystem(system, own) == IF own THEN <<-1>> \o system ELSE system

TurnOf(kind) ==
  CASE kind \in {"assistant", "call", "nameless_call", "reasoning"} -> "assistant"
    [] kind \in {"system", "developer"} -> "system"
    [] OTHER -> "user"

FirstUser(items) ==
  LET at == {i \in DOMAIN items : TurnOf(items[i].kind) = "user"}
  IN  IF at = {} THEN 0 ELSE CHOOSE i \in at : \A j \in at : i <= j

(* moveSystemIntoFirstUserTurn                                             *)
AnthropicTurns(items) == [i \in DOMAIN items |-> Message(TurnOf(items[i].kind), <<i>>)]
PrepareAnthropic(r, c) ==
  LET system == InjectRouteSystem(IF r.instructions THEN <<0>> ELSE <<>>, c.prompt)
      at == FirstUser(r.items)
      turns == AnthropicTurns(r.items)
  IN  IF ~c.compat \/ system = <<>> \/ at = 0
        THEN [system |-> system, messages |-> turns]
        ELSE [system |-> <<>>, messages |-> [turns EXCEPT ![at].items = system \o @]]

(* buildForwardHeaders                                                     *)
Credentials == {"authorization", "x-api-key", "api-key"}
NotForwarded == {"host", "content-length", "connection", "te", "upgrade"}
ForwardHeaders(sent, auth) ==
  LET kept == {h \in sent : h \notin NotForwarded}
  IN  IF auth = LeftOut THEN [h \in kept |-> "client"]
      ELSE [h \in (kept \ {"authorization", "x-api-key"}) \cup {auth} |->
              IF h = auth THEN "channel" ELSE "client"]

(* The path to ask, of one that ends in /responses or not                  *)
ChatUrl(path) ==
  CASE Last(path) = "responses" -> Front(path) \o <<"chat", "completions">>
    [] Len(path) > 1 /\ SubSeq(path, Len(path) - 1, Len(path)) = <<"chat", "completions">> -> path
    [] OTHER -> path \o <<"chat", "completions">>

-----------------------------------------------------------------------------
NothingAsked == [items |-> <<>>, instructions |-> FALSE, uses |-> {}, tools |-> {},
             choice |-> LeftOut, format |-> LeftOut, effort |-> LeftOut, model |-> "m",
             headers |-> {}]

FormsInit ==
  /\ asked \in {[NothingAsked EXCEPT !.instructions = i] : i \in BOOLEAN}
  /\ via \in [prompt : BOOLEAN, compat : BOOLEAN, host : {"h"}, auth : {LeftOut}]

Bare ==
  /\ asked.tools = {} /\ asked.uses = {} /\ asked.format = LeftOut /\ asked.headers = {}
  /\ asked.model = "m" /\ via.auth = LeftOut /\ via.host = "h"

Says == \E kind \in Plain \cup Unsupported \cup {"call"} :
  /\ Len(asked.items) < MaxItems /\ ~Unconvertible(asked) /\ Bare
  /\ asked' = [asked EXCEPT !.items = Append(@, Item(kind, 0))]
  /\ UNCHANGED via

ToolAnswers == \E i \in OpenCalls(asked.items) :
  /\ Len(asked.items) < MaxItems /\ ~Unconvertible(asked) /\ Bare
  /\ asked' = [asked EXCEPT !.items = Append(@, Item("output", i))]
  /\ UNCHANGED via

(* What is wanted besides is said of a request that says nothing else      *)
Short == asked.items = <<>> /\ asked.tools = {} /\ asked.uses = {} /\ asked.format = LeftOut
         /\ asked.headers = {} /\ via.auth = LeftOut

WantsTools == \E ts \in SUBSET {"f", "g", "builtin", "nameless"}, choice \in {LeftOut, "auto", "f", "builtin"} :
  /\ Short
  /\ choice \in {"f", "builtin"} => choice \in ts
  /\ asked' = [asked EXCEPT !.tools = ts, !.choice = choice]
  /\ UNCHANGED via

WantsMore ==
  /\ Short
  /\ \/ \E u \in Stateful : asked' = [asked EXCEPT !.uses = {u}]
     \/ \E f \in {"text", "json_schema", "grammar"} :
          asked' = [asked EXCEPT !.format = f, !.effort = "high"]
  /\ UNCHANGED via

SendsHeaders == \E hs \in SUBSET (Credentials \cup {"host", "accept"}), auth \in {LeftOut} \cup Credentials :
  /\ Bare /\ asked.items = <<>>
  /\ asked' = [asked EXCEPT !.headers = hs]
  /\ via' = [via EXCEPT !.auth = auth]

GoesTo == \E host \in {"h", "minimax"} :
  /\ Short /\ via.host = "h"
  /\ via' = [via EXCEPT !.host = host]
  /\ \E asks \in {"m", "minimax"} : asked' = [asked EXCEPT !.model = asks]

FormsNext == Says \/ ToolAnswers \/ WantsTools \/ WantsMore \/ SendsHeaders \/ GoesTo

FormsSpec == FormsInit /\ [][FormsNext]_formVars

-----------------------------------------------------------------------------
ItemsOf(ms) == FlattenSeq([i \in DOMAIN ms |-> ms[i].items])
Own(r) == IF r.instructions THEN <<0>> ELSE <<>>
NotReasoning(items) == SelectSeq([i \in DOMAIN items |-> i], LAMBDA i : items[i].kind # "reasoning")

(* A chat completion says what the Responses request said, in its order    *)
(* and each part in its role, but for the reasoning; one message of the    *)
(* system begins it at most; and a tool answers directly after it was      *)
(* called if it did in the request, as a chat completion has to have it    *)
(* (openai-responses-chat-compat.ts 220-300, 440-520).                     *)
TurnsKept ==
  LET ms == ChatPayload(asked, via).messages
      rest == NotReasoning(asked.items)
  IN  ~Unconvertible(asked) =>
        /\ ItemsOf(ms) = Own(asked) \o rest
        /\ Len(ms) >= 2 => ms[1].role # "system" \/ ms[2].role # "system"
        /\ \A k \in DOMAIN ms : \A n \in ToSet(ms[k].items) :
             ms[k].role = IF n = 0 THEN "system" ELSE RoleOf(asked.items[n].kind)
        /\ \A i \in CallsOf(asked.items), k \in DOMAIN ms :
             ms[k].items = <<i>> =>
               ((k < Len(ms) /\ ms[k + 1].role = "tool" /\ asked.items[ms[k + 1].items[1]].of = i)
                  <=> \E j \in DOMAIN rest : j < Len(rest) /\ rest[j] = i
                                               /\ asked.items[rest[j + 1]].of = i)

(* No tool is chosen where none is left, and a choice is of one that is    *)
(* left.                                                                   *)
NothingOdd ==
  LET p == ChatPayload(asked, via) IN
  ~Unconvertible(asked) /\ p.choice # LeftOut =>
    p.choice \in p.tools \cup {"auto"} /\ p.tools # {}

(* To an anthropic channel the instructions arrive in the order of channel *)
(* and client, all in one place, before everything the user says; where    *)
(* they are moved into the first turn of the user none is left behind, and *)
(* no turn changes its speaker (providers/anthropic.ts 45-115).            *)
SystemKept ==
  LET p == PrepareAnthropic(asked, via)
      all == (IF via.prompt THEN <<-1>> ELSE <<>>) \o Own(asked)
      at == FirstUser(asked.items)
  IN  /\ p.system \in {<<>>, all}
      /\ \A i \in DOMAIN p.messages :
           /\ p.messages[i].role = TurnOf(asked.items[i].kind)
           /\ p.messages[i].items =
                (IF i = at /\ p.system # all THEN all ELSE <<>>) \o <<i>>
      /\ via.compat /\ at # 0 => p.system = <<>>

(* A channel with a credential never sees the client's, though it may come *)
(* under either of the names clients use; and every path of the Responses  *)
(* API leads to one of chat completions, however often it is rewritten.    *)
CredentialsOwn ==
  LET hs == ForwardHeaders(asked.headers, via.auth) IN
  /\ via.auth # LeftOut =>
       /\ hs[via.auth] = "channel"
       /\ \A h \in DOMAIN hs \ {via.auth} : h \notin {"authorization", "x-api-key"}
  /\ via.auth = LeftOut => asked.headers \intersect Credentials \subseteq DOMAIN hs
  /\ \A path \in {<<"v1", "responses">>, <<"x", "v1", "chat", "completions">>, <<"v1">>} :
       ChatUrl(ChatUrl(path)) = ChatUrl(path) /\ Last(ChatUrl(path)) = "completions"

RequestsKept == TurnsKept /\ NothingOdd /\ SystemKept /\ CredentialsOwn
===============================================================================
