--------------------------- MODULE TimeoutSettings ---------------------------
(***************************************************************************)
(* The timeouts of the gateway: their limits, the defaults of the code and *)
(* of the environment, the row that a save leaves (gateway-timeouts.ts),   *)
(* and the form of the settings page (settings-page.tsx).                  *)
(*                                                                         *)
(* `connect` and `idle` are the timeouts of that name, `first` stands for  *)
(* the three to the first byte, each with a variable of its own and one    *)
(* they share. The cache of five seconds is modelled by ConfigSync.        *)
(***************************************************************************)
EXTENDS Naturals

CONSTANTS
  NotSet,        \* a variable, or a field of a payload or of a row
  Unavailable,   \* what reading the timeouts ends in when the code throws
  Low,           \* the limits of each timeout
  High,
  CodeDefault,   \* and its default
  Times,         \* the times tried, of a variable, a client and a user
  MaxTimeoutOps  \* bound: operations

Timeouts == {"connect", "first", "idle"}
Variables == {"connect", "first", "shared", "idle"}

ASSUME TimeoutSettingsAssumption ==
  /\ Low \in [Timeouts -> Nat] /\ High \in [Timeouts -> Nat]
  /\ CodeDefault \in [Timeouts -> Nat] /\ Low["idle"] = 0
  /\ \A t \in Timeouts : Low[t] <= CodeDefault[t] /\ CodeDefault[t] <= High[t]
  /\ MaxTimeoutOps \in Nat

VARIABLES
  environment,  \* of the process
  timeoutRow,   \* what the table of settings has
  timeoutForm,  \* history: the form, if the last operation was its save, and what was touched
  timeoutOps    \* history: operations so far

timeoutVars == <<environment, timeoutRow, timeoutForm, timeoutOps>>

NothingSet == [t \in Timeouts |-> NotSet]

-----------------------------------------------------------------------------
\* readPositiveIntegerEnv and readNonNegativeIntegerEnv.
Positive(v) == environment[v] # NotSet /\ environment[v] > 0

(* getGatewayTimeoutDefaults: a variable is read for its sign only.        *)
Defaults ==
  [t \in Timeouts |->
     CASE t = "connect" /\ Positive("connect") -> environment["connect"]
       [] t = "first" /\ Positive("first") -> environment["first"]
       [] t = "first" /\ ~Positive("first") /\ Positive("shared") -> environment["shared"]
       [] t = "idle" /\ environment["idle"] # NotSet -> environment["idle"]
       [] OTHER -> CodeDefault[t]]

InRange(t, time) == Low[t] <= time /\ time <= High[t]

\* Mutant: what is not told is taken as it is, whatever the limits.
Lenient(input, defaults) ==
  LET told == [t \in Timeouts |-> IF input[t] = NotSet THEN defaults[t] ELSE input[t]] IN
  IF \A t \in Timeouts : input[t] = NotSet \/ InRange(t, input[t]) THEN told ELSE Unavailable

(* normalizeGatewayTimeoutSettings: the default of a timeout that is not   *)
(* told must keep the limits as well, or all of it is refused.             *)
Normalized(input, defaults) ==
  LET told == [t \in Timeouts |-> IF input[t] = NotSet THEN defaults[t] ELSE input[t]] IN
  IF \A t \in Timeouts : InRange(t, told[t]) THEN told ELSE Unavailable

\* Mutant: a variable that is set hides what was saved.
EnvironmentFirst ==
  Normalized([t \in Timeouts |-> IF Defaults[t] # CodeDefault[t] THEN Defaults[t] ELSE timeoutRow[t]],
             Defaults)

(* getGatewayTimeoutSettings without a cached answer: when the row cannot  *)
(* be normalised the defaults alone are tried.                             *)
InForce ==
  LET stored == Normalized(timeoutRow, Defaults) IN
  IF stored # Unavailable THEN stored ELSE Normalized(NothingSet, Defaults)

-----------------------------------------------------------------------------
(* The form is filled with what is in force (toForm), changed field by     *)
(* field, or set to the defaults (restoreDefaults).                        *)
FilledForms ==
  LET start == [form |-> InForce, touched |-> {}]
      set(f) == {[form |-> [f.form EXCEPT ![t] = time], touched |-> f.touched \cup {t}] :
                   t \in Timeouts, time \in Times}
      restored == [form |-> Defaults, touched |-> Timeouts]
  IN  {start, restored} \cup set(start) \cup UNION {set(f) : f \in set(start) \cup {restored}}

\* parseSeconds, of each field.
FormChecked(form) == \A t \in Timeouts : InRange(t, form[t])

TimeoutInit ==
  /\ environment \in [Variables -> Times \cup {NotSet}]
  /\ \/ \A v \in Variables \ {"first", "shared"} : environment[v] = NotSet
     \/ \A v \in {"first", "shared"} : environment[v] = NotSet
  \* No row yet, or one of the version that had no timeout for the connection.
  /\ timeoutRow \in {NothingSet, [CodeDefault EXCEPT !["connect"] = NotSet]}
  /\ timeoutForm = NotSet /\ timeoutOps = 0

(* updateGatewayTimeoutSettings, of a client of the API: what it does not  *)
(* tell becomes the default, not what was in force.                        *)
PatchesTimeouts ==
  /\ \E t, u \in Timeouts, time, other \in Times :
       LET next == Normalized([NothingSet EXCEPT ![t] = time, ![u] = other], Defaults) IN
       next # Unavailable /\ timeoutRow' = next
  /\ timeoutForm' = NotSet /\ UNCHANGED environment

(* handleSave: not before the timeouts were loaded.                        *)
SavesTimeouts ==
  /\ InForce # Unavailable
  /\ \E f \in FilledForms :
       LET next == Normalized(f.form, Defaults) IN
       /\ FormChecked(f.form) /\ next # Unavailable
       /\ timeoutRow' = next /\ timeoutForm' = f
  /\ UNCHANGED environment

\* The console starts again, with another variable.
Restarts ==
  /\ \E v \in Variables, time \in Times \cup {NotSet} :
       environment' = [environment EXCEPT ![v] = time]
  /\ timeoutForm' = NotSet /\ UNCHANGED timeoutRow

TimeoutNext ==
  /\ timeoutOps < MaxTimeoutOps /\ timeoutOps' = timeoutOps + 1
  /\ PatchesTimeouts \/ SavesTimeouts \/ Restarts

TimeoutSpec == TimeoutInit /\ [][TimeoutNext]_timeoutVars

-----------------------------------------------------------------------------
SavedRow == \A t \in Timeouts : timeoutRow[t] # NotSet

(* The timeouts in force keep their limits; they are missing only while    *)
(* nothing was saved and a variable is out of them. A form that was saved  *)
(* is shown again as it was filled in, and what it let through was         *)
(* accepted.                                                               *)
TimeoutsShown ==
  /\ InForce = Unavailable => ~SavedRow /\ \E t \in Timeouts : ~InRange(t, Defaults[t])
  /\ InForce # Unavailable => \A t \in Timeouts : InRange(t, InForce[t])
  /\ timeoutForm # NotSet => InForce = timeoutForm.form
  /\ InForce # Unavailable =>
       \A f \in FilledForms : FormChecked(f.form) => Normalized(f.form, Defaults) # Unavailable

(* A form changes what was touched only, and once a row was saved no       *)
(* variable changes what is in force.                                      *)
TimeoutsKept ==
  [][/\ timeoutForm' # NotSet =>
          \A t \in Timeouts \ timeoutForm'.touched : InForce'[t] = InForce[t]
     /\ SavedRow /\ environment' # environment => InForce' = InForce]_timeoutVars
=============================================================================
