----------------------------- MODULE UsageParsing -----------------------------
(***************************************************************************)
(* What a request is said to have used and to have cost: what the parsers  *)
(* of the two protocols read from the body of an answer (providers/), the  *)
(* estimate when it tells nothing (token-estimator.ts), and the buckets    *)
(* and prices of the charge (pricing.ts). An upstream sends one event at a *)
(* time; the body that is logged may end after any of them.                *)
(*                                                                         *)
(* A piece of text is one token. What an event tells of a number may be    *)
(* Untold. Prices are in twentieths of what a token of input costs.        *)
(***************************************************************************)
EXTENDS Integers, Sequences, FiniteSetsExt, SequencesExt

CONSTANTS
  Untold,
  MaxLength   \* bound: turns of the request and events of the answer

ASSUME UsageAssumption == Untold \notin Int /\ MaxLength \in Nat

VARIABLES
  dialect,  \* of the channel, and for an anthropic one whether lines are named
  turns,    \* of the conversation asked about
  events    \* of the answer

usageVars == <<dialect, turns, events>>

Dialects == {"anthropic", "unnamed", "chat", "responses"}
TurnKinds == {"text", "image", "call", "result"}

Numbers == {"input", "output", "created", "hourly", "short", "read", "cached", "total"}
NothingUsed == [n \in Numbers |-> 0]
NothingTold == [n \in Numbers |-> Untold]
Telling(told) == [n \in Numbers |-> IF n \in DOMAIN told THEN told[n] ELSE Untold]
Or(told, else) == IF told = Untold THEN else ELSE told

-----------------------------------------------------------------------------
(* parseUsage of the two protocols, event by event                         *)

Totalled(u) == [u EXCEPT !["total"] = u["input"] + u["output"] + u["created"] + u["read"]]

OfMessageStart(u, told) ==
  Totalled([n \in Numbers |->
    IF n \in {"input", "created", "read", "hourly", "short"} THEN Or(told[n], 0) ELSE u[n]])
(* Mutant: a number that was revised is not taken over.                    *)
OfOutputOnly(u, told) ==
  Totalled([n \in Numbers |-> IF n = "output" THEN Or(told[n], u[n]) ELSE u[n]])
OfMessageDelta(u, told) ==
  Totalled([n \in Numbers |->
    IF n \in {"output", "created", "read"} THEN Or(told[n], u[n]) ELSE u[n]])
OfAnthropicBody(u, told) ==
  Totalled([n \in Numbers |-> IF n \in {"cached", "total"} THEN u[n] ELSE Or(told[n], 0)])

ApplyAnthropic(u, e) ==
  CASE e.told = NothingTold -> u
    [] e.type = "message_start" -> OfMessageStart(u, e.told)
    [] e.type = "message_delta" -> OfMessageDelta(u, e.told)
    [] e.type = "body" -> OfAnthropicBody(u, e.told)
    [] OTHER -> u

ApplyOpenAiPayload(u, e) ==
  LET known == [n \in Numbers |->
                  IF n \in {"input", "output", "total", "cached"} THEN Or(e.told[n], u[n])
                                                                   ELSE u[n]]
  IN  IF known["total"] = 0
        THEN [known EXCEPT !["total"] = known["input"] + known["output"]] ELSE known

(* A stream is read as one only if it begins with an event line            *)
ParseUsage(d, es) ==
  CASE d = "anthropic" -> FoldLeft(ApplyAnthropic, NothingUsed, es)
    [] d = "unnamed" -> NothingUsed
    [] OTHER -> FoldLeft(ApplyOpenAiPayload, NothingUsed, es)

(* hasTextualSignal, by which the time of the first token is taken         *)
HasTextualSignal(d, e) ==
  CASE d = "anthropic" -> e.type = "content_block_delta" /\ e.text > 0
    [] d = "chat" -> e.type \in {"piece", "tool_piece"}
    [] d = "responses" -> e.type \in {"text_delta", "completed"} /\ e.text > 0
    [] OTHER -> FALSE

-----------------------------------------------------------------------------
(* The estimate                                                            *)

(* extractInputParts: what is counted of a turn in each form of request    *)
CountedOfTurn(d, t) ==
  CASE t = "image" -> 0
    [] t = "result" -> IF d = "responses" THEN 0 ELSE 1   \* output is not looked at
    [] OTHER -> 1
IsMessage(d, t) == d # "responses" \/ t \in {"text", "image"}
EstimateInput(d, ts) ==
  MapThenSumSet(LAMBDA i : CountedOfTurn(d, ts[i]) + (IF IsMessage(d, ts[i]) THEN 4 ELSE 0),
                DOMAIN ts)

(* extractSseOutputText: the whole is not counted after its pieces         *)
PiecesOf(d, counted, e) ==
  CASE e.type \in {"completed", "called"} /\ counted > 0 -> 0
    [] e.type \in {"thinking_delta", "arguments_delta"} -> 0
    [] OTHER -> e.text
(* Mutant: the whole text is counted again.                                *)
CountsTwice(d, es) == FoldLeft(LAMBDA n, e : n + PiecesOf(d, 0, e), 0, es)
EstimateOutput(d, es) == FoldLeft(LAMBDA n, e : n + PiecesOf(d, n, e), 0, es)

HasNoTokenUsage(u) == u = NothingUsed
UsageOf(d, ts, es) ==   \* applyEstimatedTokenUsageFallback
  LET u == ParseUsage(d, es)
      in == EstimateInput(d, ts)
      out == EstimateOutput(d, es)
  IN  IF ~HasNoTokenUsage(u) THEN u
      ELSE [NothingUsed EXCEPT !["input"] = in, !["output"] = out, !["total"] = in + out]

-----------------------------------------------------------------------------
(* The charge                                                              *)

PriceType(d) == IF d \in {"anthropic", "unnamed"} THEN "anthropic" ELSE "openai"

CostBuckets(type, u) ==
  IF type = "openai"
    THEN [uncached |-> Max({0, u["input"] - u["cached"]}), read |-> u["cached"],
          short |-> 0, hourly |-> 0]
    ELSE LET written == Max({u["created"], u["short"] + u["hourly"]})
             hourly == Min({u["hourly"], written})
         IN  [uncached |-> u["input"], read |-> u["read"],
              short |-> written - hourly, hourly |-> hourly]

(* A price list with what it leaves out derived from the price of input    *)
CachePrice(type, list) ==
  [read |-> Or(list.read, list.input \div 10),
   short |-> IF type = "openai" THEN Or(list.write, 0)
             ELSE Or(list.write, (5 * list.input) \div 4),
   hourly |-> CASE type = "openai" -> Or(list.write, 0)
                [] list.write = Untold -> 2 * list.input
                [] OTHER -> (8 * list.write) \div 5]

Cost(type, list, u) ==
  LET b == CostBuckets(type, u)
      p == CachePrice(type, list)
  IN  b.uncached * list.input + u["output"] * list.output
        + b.read * p.read + b.short * p.short + b.hourly * p.hourly

-----------------------------------------------------------------------------
(* The answers an upstream gives                                           *)

Event(type, text, told) == [type |-> type, text |-> text, told |-> Telling(told)]
NoNumber == [n \in {} |-> 0]

TextSoFar ==
  MapThenSumSet(LAMBDA i : IF events[i].type \in {"text_delta", "arguments_delta"}
                             THEN 1 ELSE 0, DOMAIN events)

OnlyCalls == \A i \in DOMAIN events : events[i].type # "text_delta"

CacheTold ==
  {NoNumber, [read |-> 1], [created |-> 1], [created |-> 1, hourly |-> 1], [hourly |-> 1],
   [created |-> 2, short |-> 1, hourly |-> 1]}
Joined(f, g) == [n \in DOMAIN f \cup DOMAIN g |-> IF n \in DOMAIN f THEN f[n] ELSE g[n]]

AnthropicEvents ==
  IF events = <<>>
    THEN {Event("message_start", 0, Joined([input |-> i], c)) : i \in {0, 1}, c \in CacheTold}
           \cup {Event("body", 1, Joined([input |-> 1, output |-> 1], c)) : c \in CacheTold}
    ELSE {Event("content_block_delta", 1, NoNumber), Event("thinking_delta", 1, NoNumber)}
           \cup {Event("message_delta", 0, n) :
                   n \in {NoNumber, [output |-> 1], [output |-> 2], [output |-> 1, read |-> 2],
                          [output |-> 1, created |-> 1]}}

OpenAiTold ==
  {[input |-> i, output |-> o, cached |-> c] : i \in {1, 2}, o \in {0, 1}, c \in {0, 1}}
WithTotal(n) == Joined(n, [total |-> n.input + n.output])

ChatEvents ==
  {Event("piece", 1, NoNumber), Event("tool_piece", 1, NoNumber), Event("finish", 0, NoNumber)}
    \cup {Event("usage", 0, n) : n \in OpenAiTold \cup {WithTotal(n) : n \in OpenAiTold}}
    \cup {Event("body", 1, WithTotal(n)) : n \in {x \in OpenAiTold : events = <<>>}}

ResponsesEvents ==
  {Event("text_delta", 1, NoNumber), Event("arguments_delta", 1, NoNumber)}
    \cup {Event(type, TextSoFar, n) :
            type \in {IF OnlyCalls THEN "called" ELSE "completed", "incomplete"},
            n \in {NoNumber} \cup {WithTotal(x) : x \in OpenAiTold}}

MaySend ==
  CASE dialect \in {"anthropic", "unnamed"} -> AnthropicEvents
    [] dialect = "chat" -> ChatEvents
    [] OTHER -> ResponsesEvents

EndsTheAnswer == {"body", "completed", "called", "incomplete"}

UsageInit == dialect \in Dialects /\ turns = <<>> /\ events = <<>>

AsksOn == \E t \in TurnKinds :
  /\ events = <<>> /\ Len(turns) < MaxLength
  /\ turns' = Append(turns, t)
  /\ UNCHANGED <<dialect, events>>

EventSent == \E e \in MaySend :
  /\ Len(turns) + Len(events) < MaxLength
  /\ events # <<>> => Last(events).type \notin EndsTheAnswer
  /\ e.type = "body" => dialect # "unnamed"
  /\ events' = Append(events, e)
  /\ UNCHANGED <<dialect, turns>>

UsageNext == AsksOn \/ EventSent

UsageSpec == UsageInit /\ [][UsageNext]_usageVars

-----------------------------------------------------------------------------
LastTold(n) ==
  LET at == {i \in DOMAIN events : events[i].told[n] # Untold}
  IN  IF at = {} THEN 0 ELSE events[Max(at)].told[n]

Tellings == {i \in DOMAIN events : events[i].told # NothingTold}

(* Each number is the one the upstream told last (providers/anthropic.ts   *)
(* 393-455, openai.ts 83-170), and the total is their sum; in a stream of  *)
(* several usages without a total it stays that of the first.              *)
ToldIsUsed ==
  LET u == ParseUsage(dialect, events) IN
  dialect # "unnamed" =>
    /\ \A n \in Numbers \ {"total"} : u[n] = LastTold(n)
    /\ u["total"] = u["input"] + u["output"] + u["created"] + u["read"]
         \/ \E i, j \in Tellings : i < j /\ events[j].told["total"] = Untold

(* Only if nothing was told is it estimated. Then what the answer said is  *)
(* counted once, though the last event repeats it - but twice if that one  *)
(* says the answer is incomplete -, and there is a first token if anything *)
(* of it was said in words; of the question every form counts the same     *)
(* text, except that results of tools are missed in the form of Responses. *)
EstimatedOnce ==
  LET said == {i \in DOMAIN events :
                 events[i].type \in {"piece", "tool_piece", "text_delta", "content_block_delta"}}
      last == IF events = <<>> THEN "none" ELSE Last(events).type
      words == Cardinality(said)
      out == EstimateOutput(dialect, events)
      whole == IF last \in EndsTheAnswer THEN Last(events).text ELSE 0
  IN  /\ out = IF last = "incomplete" \/ words = 0 THEN words + whole ELSE words
      /\ dialect # "unnamed" /\ last \notin {"body", "called", "incomplete"} =>
           (out > 0 <=> \E i \in DOMAIN events : HasTextualSignal(dialect, events[i]))
      /\ UsageOf(dialect, turns, events) # ParseUsage(dialect, events)
           => dialect = "unnamed" \/ \A n \in Numbers : LastTold(n) = 0
      /\ EstimateInput("chat", turns) = EstimateInput("anthropic", turns)
      /\ EstimateInput("chat", turns) - 4 * Len(turns)
           = EstimateInput("responses", turns)
               - 4 * Cardinality({i \in DOMAIN turns : IsMessage("responses", turns[i])})
               + Cardinality({i \in DOMAIN turns : turns[i] = "result"})

(* Every token used is billed in one bucket (pricing.ts 197-265), more     *)
(* only where the parts of what was written to the cache exceed what is    *)
(* told of the whole; and no token of input is billed for less than a      *)
(* token read, or for nothing, whatever a price list leaves out.           *)
BilledOnce ==
  LET u == UsageOf(dialect, turns, events)
      type == PriceType(dialect)
      b == CostBuckets(type, u)
      billed == b.uncached + b.read + b.short + b.hourly
      lists == {[input |-> 20, output |-> 40, read |-> r, write |-> w] :
                  r \in {Untold, 4}, w \in {Untold, 30}}
  IN  /\ billed = (u["input"] + u["created"] + u["read"])
                    + (IF type = "openai" THEN 0
                       ELSE Max({0, u["short"] + u["hourly"] - u["created"]}))
      /\ \A list \in lists :
           /\ Cost(type, list, u) >= CachePrice(type, list).read * billed
           /\ Cost(type, list, u) = 0 => billed + u["output"] = 0
           /\ type = "anthropic" =>
                Cost(type, list, u) >= 20 * (billed - b.read) + 40 * u["output"]

UsageCounted == ToldIsUsed /\ EstimatedOnce /\ BilledOnce
===============================================================================
