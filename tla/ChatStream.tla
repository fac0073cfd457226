------------------------------ MODULE ChatStream ------------------------------
(***************************************************************************)
(* The Responses API in front of a channel that only knows chat            *)
(* completions (openai-responses-chat-compat.ts): the answer is converted  *)
(* while it streams, chunk by chunk, or at once. Text between <think> and  *)
(* </think> becomes reasoning, the rest messages; a tag may be cut by the  *)
(* end of a chunk. Tool calls are collected and told at the end.           *)
(*                                                                         *)
(* A tag is two symbols here, of which the first is the same for both, and *)
(* may be text. The frames of the stream, ids, annotations and usage are   *)
(* left out; content is a string (an array of parts is text at once and    *)
(* nothing in a stream, 663, 1082). A second choice says one symbol and    *)
(* perhaps why it finished; an answer has one oddity: that, a refusal or a *)
(* call without a name.                                                    *)
(***************************************************************************)
EXTENDS Naturals, Sequences, FiniteSets, SequencesExt

CONSTANTS
  MaxText,   \* bound: symbols of the answer and chunks about tool calls
  MaxPiece,  \* bound: symbols of a chunk
  MaxCalls,  \* bound: chunks about tool calls
  MaxOdd     \* bound: symbols of an answer with an oddity

ASSUME ChatAssumption == MaxText \in Nat /\ MaxPiece \in Nat \ {0} /\ MaxCalls \in 0..2 /\ MaxOdd \in Nat

VARIABLES
  text,    \* what the upstream said: the text of its first choice,
  told,    \* the parts of tool calls it told, in order,
  finish,  \* and why it finished
  merged,  \* the text of all its choices as it came
  refused, \* it said why it refuses to answer
  over,    \* the stream of the upstream: open, done ([DONE] came), closed
  chat,    \* StreamState
  heard,   \* the client, after the events so far
  late     \* history: the upstream went on after [DONE]

saidVars == <<text, told, finish, merged, refused>>
chatVars == <<saidVars, over, chat, heard, late>>

Symbols == {"x", "<", "think>", "/think>"}
TagOf(inThink) == IF inThink THEN <<"<", "/think>">> ELSE <<"<", "think>">>
Kind(inThink) == IF inThink THEN "reasoning" ELSE "message"
Segment(k, t) == [kind |-> k, text |-> t]
Calls == {0, 1}
Args == <<"p", "q">>
Reasons == {"none", "stop", "length"}

\* Where the tag begins in s from i on; 0 if nowhere.
IndexOf(s, tag, i) ==
  LET at == {j \in i..(Len(s) - 1) : SubSeq(s, j, j + 1) = tag}
  IN IF at = {} THEN 0 ELSE CHOOSE j \in at : \A k \in at : j <= k

(* pushThinkTextSegment *)
Push(segments, s) ==
  IF s.text = <<>> THEN segments
  ELSE IF segments # <<>> /\ Last(segments).kind = s.kind
       THEN [segments EXCEPT ![Len(segments)].text = @ \o s.text]
       ELSE Append(segments, s)

(* splitThinkTaggedText: an answer that came at once. *)
SplitTagged(s) ==
  LET from[i \in 1..(Len(s) + 1), inThink \in BOOLEAN] ==
        IF i > Len(s) THEN <<>>
        ELSE LET next == IndexOf(s, TagOf(inThink), i)
             IN IF next = 0 THEN <<Segment(Kind(inThink), SubSeq(s, i, Len(s)))>>
                ELSE <<Segment(Kind(inThink), SubSeq(s, i, next - 1))>> \o from[next + 2, ~inThink]
  IN FoldLeft(Push, <<>>, from[1, FALSE])

\* Mutant: what might begin a tag is not kept back.
HeldNothing(s, inThink) == 0

(* longestTagSuffixPrefix: what may be the beginning of a tag. *)
Held(s, inThink) == IF s # <<>> /\ Last(s) = TagOf(inThink)[1] THEN 1 ELSE 0

(* consumeThinkTaggedTextChunk: the segments of the buffer, and what is    *)
(* kept of it.                                                             *)
Consumed(s, thinking) ==
  LET from[i \in 1..(Len(s) + 1), inThink \in BOOLEAN] ==
        LET next == IndexOf(s, TagOf(inThink), i)
            rest == SubSeq(s, i, Len(s))
            held == Held(rest, inThink)
        IN IF next # 0
           THEN [from[next + 2, ~inThink] EXCEPT
                   !.segments = <<Segment(Kind(inThink), SubSeq(s, i, next - 1))>> \o @]
           ELSE [segments |-> <<Segment(Kind(inThink), SubSeq(rest, 1, Len(rest) - held))>>,
                 buffer |-> SubSeq(rest, Len(rest) - held + 1, Len(rest)),
                 inThink |-> inThink]
      all == from[1, thinking]
  IN [all EXCEPT !.segments = FoldLeft(Push, <<>>, @)]

-----------------------------------------------------------------------------
(* The client: the items it heard begin, what was added to each, and as    *)
(* what each ended.                                                        *)

Silent == [created |-> FALSE, items |-> <<>>, completed |-> <<>>, status |-> "in_progress"]

Hears(c, event) ==
  CASE event.what = "created"   -> [c EXCEPT !.created = TRUE]
    [] event.what = "added"     -> [c EXCEPT !.items = Append(@,
                                      [kind |-> event.kind, text |-> event.text, closed |-> FALSE, as |-> <<>>])]
    [] event.what = "delta"     -> [c EXCEPT !.items[event.at].text = @ \o event.text]
    [] event.what = "done"      -> [c EXCEPT !.items[event.at].closed = TRUE,
                                             !.items[event.at].as = event.text]
    [] event.what = "completed" -> [c EXCEPT !.completed = event.output,
                                             !.status = event.status]

\* One conversion at work: its state and what it has sent.
Work == [st |-> chat, out |-> heard]
Send(w, event) == [w EXCEPT !.out = Hears(@, event)]

-----------------------------------------------------------------------------
(* The conversion of a stream                                              *)

EmptyState ==
  [created |-> FALSE, finalized |-> FALSE, reason |-> "none", calls |-> <<>>,
   items |-> <<>>, active |-> 0, buffer |-> <<>>, inThink |-> FALSE]

EnsureCreated(w) ==
  IF w.st.created THEN w
  ELSE Send([w EXCEPT !.st.created = TRUE], [what |-> "created"])

FinalizeActive(w) ==
  IF w.st.active = 0 THEN w
  ELSE Send([w EXCEPT !.st.active = 0],
            [what |-> "done", at |-> w.st.active, text |-> w.st.items[w.st.active].text])

EnsureStarted(w, kind) ==
  IF w.st.active # 0 /\ w.st.items[w.st.active].kind = kind THEN w
  ELSE LET before == FinalizeActive(EnsureCreated(w))
       IN Send([before EXCEPT !.st.items = Append(@, Segment(kind, <<>>)),
                              !.st.active = Len(before.st.items) + 1],
               [what |-> "added", kind |-> kind, text |-> <<>>])

AppendDelta(w, s) ==
  IF s.text = <<>> THEN w
  ELSE LET at == EnsureStarted(w, s.kind)
       IN Send([at EXCEPT !.st.items[at.st.active].text = @ \o s.text],
               [what |-> "delta", at |-> at.st.active, text |-> s.text])

(* appendToolCallDelta: calls are kept in the order they were first told.  *)
AppendCall(w, part) ==
  LET known == {i \in DOMAIN w.st.calls : w.st.calls[i].index = part.index}
  IN IF known = {} THEN [w EXCEPT !.st.calls =
                          Append(@, [index |-> part.index, named |-> part.named, args |-> <<part.arg>>])]
     ELSE LET i == CHOOSE j \in known : TRUE
          IN [w EXCEPT !.st.calls[i].args = Append(@, part.arg),
                       !.st.calls[i].named = @ \/ part.named]

ProcessText(w, piece) ==
  LET got == Consumed(w.st.buffer \o piece, w.st.inThink)
  IN FoldLeft(AppendDelta,
              [w EXCEPT !.st.buffer = got.buffer, !.st.inThink = got.inThink], got.segments)

(* statusFromFinishReason: a stream cut short counts as completed.         *)
Status(reason) == IF reason = "length" THEN "incomplete" ELSE "completed"

\* functionCallItemsForStream: a call whose name was never told has an empty one.
CallItem(call) == Segment(IF call.named THEN "call" ELSE "nameless", call.args)

(* flushThinkTaggedText: what was kept back was no tag.                    *)
Flushed(w) ==
  AppendDelta([w EXCEPT !.st.buffer = <<>>], Segment(Kind(w.st.inThink), w.st.buffer))

(* finalizeStream: the calls come after the items, each at once.           *)
Finalize(w) ==
  LET closed == FinalizeActive(Flushed(EnsureCreated(w)))
      calls == [i \in DOMAIN closed.st.calls |-> CallItem(closed.st.calls[i])]
      TellCall(v, i) ==
        Send(Send(v, [what |-> "added", kind |-> calls[i].kind, text |-> calls[i].text]),
             [what |-> "done", at |-> Len(closed.st.items) + i, text |-> calls[i].text])
      toldAll == FoldLeft(TellCall, closed, [i \in DOMAIN calls |-> i])
  IN IF w.st.finalized THEN w
     ELSE Send([toldAll EXCEPT !.st.finalized = TRUE],
               [what |-> "completed", output |-> closed.st.items \o calls,
                status |-> Status(closed.st.reason)])

Becomes(w) == chat' = w.st /\ heard' = w.out

-----------------------------------------------------------------------------
\* An upstream that told why it finished says no more; one may go on after [DONE], once.
SaysMore == (over = "open" /\ finish = "none") \/ (over = "done" /\ ~late)

Ordinary == ~refused /\ merged = text /\ \A i \in DOMAIN told : told[i].named

(* processChatCompletionChunk: a piece of the text, or a part of a call.   *)
TextChunk(piece) ==
  /\ SaysMore /\ Len(text) + Len(piece) + Len(told) <= MaxText
  /\ Ordinary \/ Len(text) + Len(piece) <= MaxOdd
  /\ text' = text \o piece /\ merged' = merged \o piece
  /\ late' = (late \/ over = "done")
  /\ Becomes(ProcessText(EnsureCreated(Work), piece))
  /\ UNCHANGED <<told, finish, refused, over>>

\* Bound: the parts of a call agree on whether it has a name.
CallChunk(index, named) ==
  /\ SaysMore /\ Len(told) < MaxCalls /\ Len(text) + Len(told) < MaxText
  /\ named \/ (~refused /\ merged = text /\ Len(text) <= MaxOdd)
  /\ \A i \in DOMAIN told : told[i].index = index => told[i].named = named
  /\ LET part == [index |-> index, named |-> named, arg |-> Args[Len(told) + 1]]
     IN told' = Append(told, part) /\ Becomes(AppendCall(EnsureCreated(Work), part))
  /\ late' = (late \/ over = "done")
  /\ UNCHANGED <<text, finish, merged, refused, over>>

(* Another choice of the same answer is taken for more of this one.        *)
ChoiceChunk(reason) ==
  /\ over = "open" /\ finish = "none" /\ Ordinary /\ Len(text) <= MaxOdd
  /\ merged' = Append(merged, "x")
  /\ Becomes(ProcessText([EnsureCreated(Work) EXCEPT !.st.reason = reason], <<"x">>))
  /\ UNCHANGED <<text, told, finish, refused, over, late>>

(* A delta that refuses is not looked at.                                  *)
RefusalChunk ==
  /\ over = "open" /\ finish = "none" /\ Ordinary /\ Len(text) <= MaxOdd
  /\ refused' = TRUE
  /\ Becomes(EnsureCreated(Work))
  /\ UNCHANGED <<text, told, finish, merged, over, late>>

FinishChunk(reason) ==
  /\ over = "open" /\ finish = "none"
  /\ finish' = reason
  /\ Becomes([EnsureCreated(Work) EXCEPT !.st.reason = reason])
  /\ UNCHANGED <<text, told, merged, refused, over, late>>

(* [DONE] *)
Done ==
  /\ over = "open"
  /\ over' = "done"
  /\ Becomes(Finalize(Work))
  /\ UNCHANGED <<saidVars, late>>

(* The upstream closes its stream, with or without [DONE].                 *)
Closes ==
  /\ over # "closed"
  /\ over' = "closed"
  /\ Becomes(Finalize(Work))
  /\ UNCHANGED <<saidVars, late>>

ChatInit ==
  /\ text = <<>> /\ told = <<>> /\ finish = "none" /\ over = "open"
  /\ merged = <<>> /\ refused = FALSE
  /\ chat = EmptyState /\ heard = Silent /\ late = FALSE

ChatNext ==
  \/ \E n \in 1..MaxPiece : \E piece \in [1..n -> Symbols] : TextChunk(piece)
  \/ \E index \in Calls, named \in BOOLEAN : CallChunk(index, named)
  \/ \E reason \in {"none", "length"} : ChoiceChunk(reason)
  \/ \E reason \in Reasons \ {"none"} : FinishChunk(reason)
  \/ RefusalChunk \/ Done \/ Closes

ChatSpec == ChatInit /\ [][ChatNext]_chatVars

-----------------------------------------------------------------------------
\* The calls told, in the order of their first parts.
ToldCalls ==
  LET indexes == [i \in DOMAIN told |-> told[i].index]
      order == FoldLeft(LAMBDA kept, i : IF i \in ToSet(kept) THEN kept ELSE Append(kept, i), <<>>, indexes)
      part(i) == SelectSeq(told, LAMBDA p : p.index = i)
  IN [k \in DOMAIN order |->
        [named |-> Head(part(order[k])).named,
         args |-> [j \in DOMAIN part(order[k]) |-> part(order[k])[j].arg]]]

Items(calls) == [k \in DOMAIN calls |-> CallItem(calls[k])]

(* convertChatCompletionToResponsePayload: the same answer at once. Only   *)
(* the first choice is read, a refusal is all of it but for the calls, and *)
(* a call without a name is passed over.                                   *)
AtOnce ==
  (IF refused THEN <<Segment("refusal", <<>>)>> ELSE SplitTagged(text)) \o
  Items(SelectSeq(ToldCalls, LAMBDA call : call.named))

\* What a stream makes of the answer.
InPieces == SplitTagged(merged) \o Items(ToldCalls)

Ended == heard.status # "in_progress"

(* However the answer was cut into chunks, and unless the upstream goes on *)
(* after [DONE]: the items a client was told of are open one at a time and *)
(* end as what was added to them; and the response that ends the stream    *)
(* has these items and no others. They are those, and the end is the one,  *)
(* of the same answer converted at once (608, 637, 955, 1095), unless it   *)
(* has a second choice, which the stream takes for text of the first       *)
(* (1079), a refusal, which it loses (683, 1085), or a call without a      *)
(* name, which it tells (723, 925).                                        *)
ClientRebuilds ==
  ~late =>
    /\ heard.items # <<>> => heard.created
    /\ \A i \in DOMAIN heard.items :
          LET item == heard.items[i]
          IN /\ ~item.closed => i = Len(heard.items) /\ ~Ended
             /\ item.closed => item.as = item.text
    /\ Ended =>
          /\ heard.completed = [i \in DOMAIN heard.items |-> Segment(heard.items[i].kind, heard.items[i].text)]
          /\ heard.completed = InPieces
          /\ Ordinary => heard.completed = AtOnce
          /\ merged = text => heard.status = Status(finish)
=============================================================================
