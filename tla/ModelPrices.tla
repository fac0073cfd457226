------------------------------ MODULE ModelPrices ------------------------------
(***************************************************************************)
(* What a token of a model costs: which of the providers that models.dev   *)
(* lists for it is believed (buildCatalogMapsFromModelsDev), what an       *)
(* administrator set instead for a channel (model-metadata-overrides.ts,   *)
(* the models page), what is shown (provider-admin.ts) and what a request  *)
(* is charged by (getEffectivePricing).                                    *)
(*                                                                         *)
(* The model is "m"; another one, "n", may say it answered. Its input and  *)
(* output prices are one, base, as are the two of the cache. A provider is *)
(* known by its rank, 0 for those that have none.                          *)
(***************************************************************************)
EXTENDS Integers, Sequences, FiniteSets, SequencesExt

CONSTANTS
  NoPrice,
  HalfPrice,  \* typed: one of the input and the output price without the other
  NoDialog,
  MaxListed   \* bound: providers that list the model

ASSUME PricesAssumption == NoPrice # HalfPrice /\ MaxListed \in Nat

VARIABLES
  listing,    \* of the model on models.dev, in its order
  otherPrice, \* of the other model
  own,        \* the context the channel was configured with, 0 if none
  override,   \* the row of model_metadata_overrides
  dialog      \* of the models page

priceVars == <<listing, otherPrice, own, override, dialog>>

NoContext == 0
Price(base, cache) == [base |-> base, cache |-> cache]
Costs == {Price(b, NoPrice) : b \in 0..2} \cup {Price(b, b + 1) : b \in 0..2}
Candidates ==
  {c \in [rank : {0, 1}, context : {NoContext, 1}, cost : Costs \cup {NoPrice}] :
     c.context # NoContext \/ c.cost # NoPrice}
NoOverride == [context |-> NoContext, price |-> NoPrice]

-----------------------------------------------------------------------------
(* buildCatalogMapsFromModelsDev                                           *)

Score(c) ==
  100 * c.rank + (IF c.context # NoContext THEN 1 ELSE 0)
    + (IF c.cost = NoPrice THEN 0
       ELSE 20 + (IF c.cost.base > 0 THEN 20 ELSE 0) + (IF c.cost.cache # NoPrice THEN 10 ELSE 0))

Ranked(list) ==
  LET before(i, j) ==
        Score(list[i]) > Score(list[j]) \/ (Score(list[i]) = Score(list[j]) /\ i < j)
      order == SetToSortSeq(DOMAIN list, before)
  IN  [i \in DOMAIN list |-> list[order[i]]]

(* Mutant: from any provider that tells one.                               *)
BackfillAny(chosen, ranked) ==
  LET told == SelectSeq(ranked, LAMBDA c : c.cost # NoPrice /\ c.cost.cache # NoPrice)
  IN  IF chosen.cache # NoPrice \/ told = <<>> THEN chosen
      ELSE Price(chosen.base, Head(told).cost.cache)
(* backfillCachePricing                                                    *)
Backfill(chosen, ranked) ==
  LET told == SelectSeq(ranked, LAMBDA c :
        c.cost # NoPrice /\ c.cost.base = chosen.base /\ c.cost.cache # NoPrice)
  IN  IF chosen.cache # NoPrice \/ told = <<>> THEN chosen
      ELSE Price(chosen.base, Head(told).cost.cache)

CatalogContext(list) ==
  LET told == SelectSeq(Ranked(list), LAMBDA c : c.context # NoContext)
  IN  IF told = <<>> THEN NoContext ELSE Head(told).context

CatalogPrice(list) ==
  LET told == SelectSeq(Ranked(list), LAMBDA c : c.cost # NoPrice)
  IN  IF told = <<>> THEN NoPrice ELSE Backfill(Head(told).cost, Ranked(list))

-----------------------------------------------------------------------------
(* What is shown, enrichModel, and what is charged, getEffectivePricing    *)

First(a, none, b) == IF a # none THEN a ELSE b

Shown(set) ==
  [context |-> First(set.context, NoContext, First(own, NoContext, CatalogContext(listing))),
   price |-> First(set.price, NoPrice, CatalogPrice(listing))]

(* The row of another model than "m" has nothing set                       *)
SetFor(model) == IF model = "m" THEN override.price ELSE NoPrice
ListedFor(model) == IF model = "m" THEN CatalogPrice(listing) ELSE otherPrice
ChargedBy(answered) ==
  LET models == IF answered \in {"", "m"} THEN <<"m">> ELSE <<answered, "m">>
      set == SelectSeq(models, LAMBDA m : SetFor(m) # NoPrice)
      listed == SelectSeq(models, LAMBDA m : ListedFor(m) # NoPrice)
  IN  CASE set # <<>> -> SetFor(Head(set))
        [] listed # <<>> -> ListedFor(Head(listed))
        [] OTHER -> NoPrice

-----------------------------------------------------------------------------
(* The dialog                                                              *)

DialogOf(shown) == shown   \* createMetadataDraft: what is set, or else what is found

(* parseMetadataDraft: one of the two, and no half of a price              *)
Accepted(d) == d.price # HalfPrice /\ d # NoOverride

PricesInit ==
  /\ listing = <<>>
  /\ \/ otherPrice = NoPrice /\ own = NoContext
     \/ otherPrice = Price(2, NoPrice) /\ own = 2
  /\ override = NoOverride /\ dialog = NoDialog

ListsProvider == \E c \in Candidates :
  /\ Len(listing) < IF own = NoContext THEN MaxListed ELSE 2   \* bound
  /\ (override = NoOverride /\ dialog = NoDialog) \/ listing = <<>>
  /\ listing' = Append(listing, c)
  /\ UNCHANGED <<otherPrice, own, override, dialog>>

OpensDialog ==   \* on short listings
  /\ dialog = NoDialog /\ Len(listing) < 2
  /\ dialog' = DialogOf(Shown(override))
  /\ UNCHANGED <<listing, otherPrice, own, override>>

TypesInto ==
  /\ dialog # NoDialog
  /\ \/ \E context \in {NoContext, 3} : dialog' = [dialog EXCEPT !.context = context]
     \/ \E price \in {NoPrice, HalfPrice, Price(3, NoPrice), Price(3, 1)} :
          dialog' = [dialog EXCEPT !.price = price]
  /\ UNCHANGED <<listing, otherPrice, own, override>>

(* upsertModelMetadataOverride writes both columns                         *)
SubmitsDialog ==
  /\ dialog # NoDialog /\ Accepted(dialog)
  /\ override' = dialog /\ dialog' = NoDialog
  /\ UNCHANGED <<listing, otherPrice, own>>

CancelsDialog ==
  dialog # NoDialog /\ dialog' = NoDialog /\ UNCHANGED <<listing, otherPrice, own, override>>

ResetsModel ==
  /\ dialog # NoDialog /\ override # NoOverride
  /\ override' = NoOverride /\ dialog' = NoDialog
  /\ UNCHANGED <<listing, otherPrice, own>>

PricesNext ==
  \/ ListsProvider \/ OpensDialog \/ TypesInto
  \/ SubmitsDialog \/ CancelsDialog \/ ResetsModel

PricesSpec == PricesInit /\ [][PricesNext]_priceVars

-----------------------------------------------------------------------------
(* Of all providers the price comes from one of the best rank that tells   *)
(* one, of those without a rank from a paid one if there is any; its cache *)
(* price is that of this base price and is left out only if no provider    *)
(* with this base tells it; a context that anyone tells is known           *)
(* (model-catalog.ts 84-181).                                              *)
PriceChosen ==
  LET priced == {i \in DOMAIN listing : listing[i].cost # NoPrice}
      rank == IF \E i \in priced : listing[i].rank = 1 THEN 1 ELSE 0
      best == {i \in priced : listing[i].rank = rank}
      p == CatalogPrice(listing)
      same == {i \in priced : listing[i].cost.base = p.base}
  IN  /\ p = NoPrice <=> priced = {}
      /\ priced # {} =>
           /\ \E i \in best : listing[i].cost.base = p.base
           /\ p.base = 0 => \A i \in best : listing[i].cost.base = 0
           /\ p.cache # NoPrice => \E i \in same : listing[i].cost.cache = p.cache
           /\ p.cache = NoPrice => \A i \in same : listing[i].cost.cache = NoPrice
      /\ CatalogContext(listing) = NoContext <=>
           \A i \in DOMAIN listing : listing[i].context = NoContext

(* A request is charged by the price that is shown for the model it asked, *)
(* unless another model answered that has a price of its own and none was  *)
(* set; where a price is shown, no request is free for want of one         *)
(* (console-store.ts 573-590, provider-admin.ts 36-56).                    *)
ShownIsCharged ==
  \A answered \in {"", "m", "n"} :
    LET p == ChargedBy(answered) IN
    /\ \/ p = Shown(override).price
       \/ answered = "n" /\ override.price = NoPrice /\ p = otherPrice
    /\ p = NoPrice => Shown(override).price = NoPrice

(* Opening the dialog and saving what it shows changes nothing that is     *)
(* shown, nor what is charged for the model (models-page.tsx 493-560).      *)
DialogKeeps ==
  LET d == DialogOf(Shown(override)) IN
  Accepted(d) => Shown(d) = Shown(override)

PricesKept == PriceChosen /\ ShownIsCharged /\ DialogKeeps
===============================================================================
