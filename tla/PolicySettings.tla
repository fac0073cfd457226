---------------------------- MODULE PolicySettings ----------------------------
(***************************************************************************)
(* The failover policy: what a client of the API may send, what is stored  *)
(* of it (gateway-failover.ts), the form of the routes page with its rules *)
(* as text (routes-page.tsx), and which failures start a failover.         *)
(*                                                                         *)
(* `retries` stands for the four numbers, `timeout` for the two triggers   *)
(* without a status, `five` for the range 5xx. A name is the sequence of   *)
(* what its commas separate: the form takes <<"x", "y">> for two names.    *)
(***************************************************************************)
EXTENDS Naturals, Sequences, SequencesExt

CONSTANTS
  NotTold,        \* a field a payload does not have, and no form
  MostRetries,    \* the limits of the numbers and of the lists
  MostRules,
  MostFallbacks,
  MaxPolicyOps    \* bound: writes

ASSUME PolicySettingsAssumption ==
  {MostRetries, MostRules, MostFallbacks, MaxPolicyOps} \subseteq Nat

VARIABLES
  policy,      \* in force, and in the row
  policyForm,  \* history: the form, if the last write was its save, and what was touched
  policyOps    \* history: writes so far

policyVars == <<policy, policyForm, policyOps>>

(* CODE_DEFAULT_GATEWAY_FAILOVER_POLICY *)
CodePolicy ==
  [on |-> TRUE, retries |-> 1, mode |-> "same_model", rules |-> <<>>, timeout |-> TRUE,
   codes |-> {408, 429}, five |-> TRUE]

FallbackModes == {"disabled", "same_model", "any_model"}
PolicyRule(model, fallbacks) == [model |-> model, fallbacks |-> fallbacks]

Told(field, default) == IF field = NotTold THEN default ELSE field

\* new Set, and Array.from of it.
Once(s) == FoldLeft(LAMBDA kept, x : IF Contains(kept, x) THEN kept ELSE Append(kept, x), <<>>, s)

(* The map of rules: a second rule for a model adds to the first.          *)
Merged(rules) ==
  FoldLeft(LAMBDA kept, r :
             IF \E i \in DOMAIN kept : kept[i].model = r.model
               THEN [i \in DOMAIN kept |->
                       IF kept[i].model # r.model THEN kept[i]
                       ELSE [kept[i] EXCEPT !.fallbacks = Once(@ \o r.fallbacks)]]
               ELSE Append(kept, PolicyRule(r.model, Once(r.fallbacks))), <<>>, rules)

\* normalizeIntegerInRange, normalizeModelFallbackMode, normalizeCustomModelFallbacks.
PolicyRefused(p) ==
  \/ p.retries > MostRetries
  \/ p.mode \notin FallbackModes
  \/ Len(p.rules) > MostRules
  \/ \E i \in DOMAIN p.rules :
       \/ p.rules[i].model = <<>> \/ Contains(p.rules[i].fallbacks, <<>>)
       \/ Len(Once(p.rules[i].fallbacks)) \notin 1 .. MostFallbacks

(* normalizeGatewayFailoverPolicy: what is not told is that of the code,   *)
(* not what is in force; none when it is refused.                          *)
PolicyOutcomes(input) ==
  {[p EXCEPT !.rules = Merged(p.rules)] :
     p \in {x \in {[f \in DOMAIN CodePolicy |-> Told(input[f], CodePolicy[f])]} : ~PolicyRefused(x)}}

(* shouldTriggerFailover, of a status and of a timeout.                    *)
Triggers(p, status) ==
  p.on /\ (status \in p.codes \/ (p.five /\ status >= 500 /\ status <= 599))
TriggersTimeout(p) == p.on /\ p.timeout

-----------------------------------------------------------------------------
\* What is left of a name, or of several, once it was text of the form.
Split(names) == FlattenSeq([i \in DOMAIN names |-> [j \in DOMAIN names[i] |-> <<names[i][j]>>]])

(* toFailoverForm.                                                         *)
PolicyFormOf(p) ==
  [on |-> p.on, retries |-> p.retries, mode |-> p.mode,
   rules |-> [i \in DOMAIN p.rules |-> PolicyRule(p.rules[i].model, Split(p.rules[i].fallbacks))],
   timeout |-> p.timeout, box429 |-> 429 \in p.codes, box5xx |-> p.five]

\* The modes the form offers: the first is none of those there are.
OfferedModes == {"none", "same_model", "any_model"}

\* addCustomFallbackRule, updateCustomFallbackRule, removeCustomFallbackRule.
TouchesRules(f) ==
  (IF Len(f.rules) < MostRules
     THEN {[f EXCEPT !.rules = Append(f.rules, PolicyRule(<<>>, <<>>))]} ELSE {})
  \cup {[f EXCEPT !.rules = RemoveAt(f.rules, i)] : i \in DOMAIN f.rules}
  \cup {[f EXCEPT !.rules[i].model = <<"a">>] : i \in DOMAIN f.rules}
  \cup {[f EXCEPT !.rules[i].fallbacks = Append(f.rules[i].fallbacks, <<"x">>)] :
          i \in DOMAIN f.rules}

TouchesPolicy(f) ==
  {<<"mode", [f EXCEPT !.mode = m]>> : m \in OfferedModes}
  \cup {<<"retries", [f EXCEPT !.retries = n]>> : n \in {0, MostRetries + 1}}
  \cup {<<"rules", g>> : g \in TouchesRules(f)}
  \cup {<<"on", [f EXCEPT !.on = ~f.on]>>, <<"timeout", [f EXCEPT !.timeout = ~f.timeout]>>,
        <<"codes", [f EXCEPT !.box429 = ~f.box429]>>, <<"five", [f EXCEPT !.box5xx = ~f.box5xx]>>}

\* A set of forms, and what one more touch makes of them.
Refilled(fs) ==
  fs \cup UNION {{[form |-> t[2], touched |-> f.touched \cup {t[1]}] : t \in TouchesPolicy(f.form)} :
                   f \in fs}
TouchedOnce == Refilled({[form |-> PolicyFormOf(policy), touched |-> {}]})
PolicyForms == Refilled(TouchedOnce)

\* parseCustomModelFallbacks: rules without anything are dropped.
WrittenRules(f) == SelectSeq(f.rules, LAMBDA r : r.model # <<>> \/ r.fallbacks # <<>>)

\* What handleFailoverSave looks at before it sends the form.
PolicyFormChecked(f) ==
  /\ f.retries <= MostRetries
  /\ Len(WrittenRules(f)) <= MostRules
  /\ \A i \in DOMAIN WrittenRules(f) :
       /\ WrittenRules(f)[i].model # <<>>
       /\ Len(Once(WrittenRules(f)[i].fallbacks)) \in 1 .. MostFallbacks

\* Mutant: the form sends the codes it has a box for.
OnlyBoxes(f) ==
  [on |-> f.on, retries |-> f.retries, mode |-> f.mode,
   rules |-> [i \in DOMAIN WrittenRules(f) |->
                PolicyRule(WrittenRules(f)[i].model, Once(WrittenRules(f)[i].fallbacks))],
   timeout |-> f.timeout, codes |-> IF f.box5xx THEN {408, 429} ELSE {408}, five |-> f.box5xx]

(* handleFailoverSave: 408 is always among the codes.                      *)
PolicyPayload(f) ==
  [on |-> f.on, retries |-> f.retries, mode |-> f.mode,
   rules |-> [i \in DOMAIN WrittenRules(f) |->
                PolicyRule(WrittenRules(f)[i].model, Once(WrittenRules(f)[i].fallbacks))],
   timeout |-> f.timeout, codes |-> IF f.box429 THEN {408, 429} ELSE {408}, five |-> f.box5xx]

-----------------------------------------------------------------------------
PolicyInit == policy = CodePolicy /\ policyForm = NotTold /\ policyOps = 0

SavesPolicy ==
  \E f \in PolicyForms :
    /\ PolicyFormChecked(f.form)
    /\ policy' \in PolicyOutcomes(PolicyPayload(f.form))
    /\ policyForm' = f

\* The fields a client may send, and the rules with a name the form takes apart.
PolicyFields ==
  {<<"mode", m>> : m \in FallbackModes \cup {"none"}}
  \cup {<<f, b>> : f \in {"on", "timeout", "five"}, b \in BOOLEAN}
  \cup {<<"retries", n>> : n \in {0, MostRetries + 1}}
  \cup {<<"codes", cs>> : cs \in {{}, {503}, {408, 429}, {429, 503}}}
  \cup {<<"rules", rs>> : rs \in
          {<<>>, <<PolicyRule(<<"a">>, <<<<"x">>, <<"y">>>>), PolicyRule(<<"a">>, <<<<"x">>, <<"z">>>>)>>,
           <<PolicyRule(<<"a">>, <<<<"x", "y">>>>)>>, <<PolicyRule(<<"a">>, <<>>)>>,
           <<PolicyRule(<<"a">>, <<<<"x">>>>), PolicyRule(<<"b">>, <<<<"y">>, <<"y">>>>)>>}}

PatchesPolicy ==
  /\ \E a, b \in PolicyFields :
       policy' \in PolicyOutcomes([[f \in DOMAIN CodePolicy |-> NotTold]
                                     EXCEPT ![a[1]] = a[2], ![b[1]] = b[2]])
  /\ policyForm' = NotTold

PolicyNext ==
  /\ policyOps < MaxPolicyOps /\ policyOps' = policyOps + 1
  /\ SavesPolicy \/ PatchesPolicy

PolicySpec == PolicyInit /\ [][PolicyNext]_policyVars

-----------------------------------------------------------------------------
(* A form that was saved is shown again as it was filled in, but for what  *)
(* its rules say twice or not at all, and its boxes tell which statuses    *)
(* start a failover. What the form lets through is accepted, but for the   *)
(* mode it has a name of its own for.                                      *)
PolicyShown ==
  /\ policyForm # NotTold =>
       LET again == PolicyFormOf(policy)
           form  == policyForm.form
       IN  /\ again = [form EXCEPT !.rules = Merged(WrittenRules(form))]
           /\ Triggers(policy, 429) <=> form.on /\ form.box429
           /\ Triggers(policy, 503) <=> form.on /\ form.box5xx
           /\ TriggersTimeout(policy) <=> form.on /\ form.timeout
  /\ \A f \in TouchedOnce :
       PolicyFormChecked(f.form) =>
         (PolicyOutcomes(PolicyPayload(f.form)) = {} <=> f.form.mode = "none")

(* A form changes what was touched in it only, but that any save gives up  *)
(* the codes the form has no box for and takes names with commas apart.    *)
PolicyKept ==
  [][policyForm' # NotTold =>
       /\ \A f \in {"on", "retries", "mode", "timeout", "five"} \ policyForm'.touched :
            policy'[f] = policy[f]
       /\ "codes" \notin policyForm'.touched =>
            (429 \in policy'.codes <=> 429 \in policy.codes)
       /\ "rules" \notin policyForm'.touched =>
            policy'.rules = [i \in DOMAIN policy.rules |->
                               PolicyRule(policy.rules[i].model,
                                          Once(Split(policy.rules[i].fallbacks)))]]_policyVars
=============================================================================
