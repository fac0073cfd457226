----------------------------- MODULE ModelRewrite -----------------------------
(***************************************************************************)
(* The answer to a request for an alias, on its way to the client: where   *)
(* the alias hides the real model, its name is replaced in every model     *)
(* field as the body streams by (createModelFieldRewriteBody). What might  *)
(* be the beginning of a field is to be kept back until the next chunk.    *)
(*                                                                         *)
(* A field with the real name is Field symbols long, 1 to Field in a row.  *)
(***************************************************************************)
EXTENDS Naturals, Sequences, SequencesExt

CONSTANTS
  Field,    \* length of a model field with the real name
  SafeTail  \* what is kept back of a body that goes on

ASSUME RewriteAssumption == Field \in Nat \ {0} /\ SafeTail \in Nat /\ Field <= SafeTail

VARIABLES
  body,     \* of the upstream,
  arrived,  \* and how much of it arrived
  held,     \* kept back
  passed,   \* to the client
  ended

rewriteVars == <<body, arrived, held, passed, ended>>

Other == 0          \* any other symbol
Alias == Field + 1  \* a field with the name the client asked for
RealField == [i \in 1..Field |-> i]
Begins(s, i) == i + Field - 1 <= Len(s) /\ SubSeq(s, i, i + Field - 1) = RealField

(* flushPart.replace(pattern, ...)                                         *)
Replaced(s) ==
  FlattenSeq([i \in DOMAIN s |->
    IF Begins(s, i) THEN <<Alias>>
    ELSE IF \E j \in 1..(i - 1) : Begins(s, j) /\ i < j + Field THEN <<>>
    ELSE <<s[i]>>])

(* Mutant: what is kept back is also passed on.                            *)
PassesAll(s) == [out |-> Replaced(s), rest |-> SubSeq(s, Len(s) - SafeTail + 1, Len(s))]
(* flushSafe                                                               *)
FlushSafe(s) ==
  [out |-> Replaced(SubSeq(s, 1, Len(s) - SafeTail)),
   rest |-> SubSeq(s, Len(s) - SafeTail + 1, Len(s))]

Filler(n) == [i \in 1..n |-> Other]
RewriteInit ==
  /\ body \in {Filler(a) \o RealField \o Filler(b) \o RealField \o Filler(c) :
                 a, b, c \in 0..(SafeTail + 1)}
  /\ arrived = 0 /\ held = <<>> /\ passed = <<>> /\ ended = FALSE

ChunkArrives == \E n \in (arrived + 1)..Len(body) :
  LET all == held \o SubSeq(body, arrived + 1, n)
      w == IF Len(all) <= SafeTail THEN [out |-> <<>>, rest |-> all] ELSE FlushSafe(all)
  IN  /\ ~ended
      /\ arrived' = n
      /\ held' = w.rest
      /\ passed' = passed \o w.out
      /\ UNCHANGED <<body, ended>>

BodyEnded ==
  /\ ~ended /\ arrived = Len(body)
  /\ passed' = passed \o Replaced(held)
  /\ held' = <<>> /\ ended' = TRUE
  /\ UNCHANGED <<body, arrived>>

RewriteNext == ChunkArrives \/ BodyEnded

RewriteSpec == RewriteInit /\ [][RewriteNext]_rewriteVars

-----------------------------------------------------------------------------
WithReal(s) == FlattenSeq([i \in DOMAIN s |-> IF s[i] = Alias THEN RealField ELSE <<s[i]>>])

(* Whatever the chunks, the client hears the body and nothing else: no     *)
(* part of it is lost, told twice or out of order when a chunk ends within *)
(* a field (response-observer.ts 131-139).                                 *)
BodyKept == WithReal(passed) \o held = SubSeq(body, 1, arrived)

(* No field that reached the client whole tells the real model: a tail is *)
(* kept back "to avoid chunk boundaries crossing the text to be matched"   *)
(* (response-observer.ts:135). The cut is made SafeTail before the end of  *)
(* what arrived, and may itself be within a field.                         *)
ModelHidden == \A i \in DOMAIN passed : ~Begins(passed, i)
===============================================================================
