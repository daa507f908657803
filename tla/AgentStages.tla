----------------------------- MODULE AgentStages -----------------------------
(***************************************************************************)
(* .sandcastle: the stages of one Agent role in its Target Checkout        *)
(* (invocation-recovery.ts, structured-extraction-driver.ts,               *)
(* checkout-safety.ts). A substantive stage, which review, feedback and    *)
(* branch update have, works in the checkout; a formatting stage asks for  *)
(* the structured result and must leave the checkout as it finds it. Both  *)
(* repeat what fails, each within its own bounds, and an Agent is only     *)
(* told what it may not do: whatever it does to the checkout is possible.  *)
(*                                                                         *)
(* "read" is any role with a formatting stage alone: the planner, the Spec *)
(* splitter, the architecture reviewer. The checkout is what git shows of  *)
(* it. HEAD is where it was ("start"), the fetched base branch, the exact  *)
(* merge of the two, or anything else; its files are clean, or hold        *)
(* residue, or an unfinished merge of that base.                           *)
(***************************************************************************)
EXTENDS Naturals

CONSTANTS
  Roles,
  Attempts,           \* MAX_INVOCATION_ATTEMPTS
  StructuredAttempts  \* MAX_STRUCTURED_ATTEMPTS

VARIABLES
  role,        \* rigid
  checkout,
  at,          \* what is done next
  attempt, invocation, structured,
  answer,      \* of the last run: the blocks it closed, or {"rejected"}
  frozen,      \* the checkout that the stage after this one has to find
  formatOnly,  \* an update's attempt that only formats an existing merge
  expired,     \* the signal of a review's deadline
  runs, result

window == <<attempt, invocation, structured, formatOnly>>
vars == <<role, checkout, at, window, answer, frozen, expired, runs, result>>

Checkouts ==
  [head : {"start", "base", "merged", "other", "another"}, files : {"clean", "residue", "merging"}]
Clean(c) == c.files = "clean"
Blocks == SUBSET {"usable", "unusable"}
Rejected == {"rejected"}

TypeOK ==
  /\ role \in Roles /\ checkout \in Checkouts /\ frozen \in Checkouts
  /\ at \in {"merge", "attempt", "produce", "observe", "freeze", "format", "run",
             "unchanged", "validate", "done"}
  /\ attempt \in 1..Attempts /\ invocation \in 1..Attempts
  /\ structured \in 1..StructuredAttempts
  /\ answer \in Blocks \cup {Rejected}
  /\ formatOnly \in BOOLEAN /\ expired \in BOOLEAN /\ runs \in Nat
  /\ result \in {"none", "delivered", "up-to-date", "failed"}
  /\ at = "done" <=> result # "none"

Init ==
  /\ role \in Roles /\ checkout = [head |-> "start", files |-> "clean"] /\ frozen = checkout
  /\ at = CASE role = "read" -> "freeze" [] role = "update" -> "merge" [] OTHER -> "attempt"
  /\ attempt = 1 /\ invocation = 1 /\ structured = 1 /\ answer = {}
  /\ formatOnly = FALSE /\ expired = FALSE /\ runs = 0 /\ result = "none"

Goes(a) == at' = a /\ UNCHANGED <<attempt, invocation, structured, result>>
Ends(r) == at' = "done" /\ result' = r /\ UNCHANGED <<attempt, invocation, structured>>
\* invokeWithRecovery around the substantive stage. The wait before the next
\* attempt ends at once when the signal is there.
AttemptFails ==
  IF attempt < Attempts /\ ~expired
  THEN at' = "attempt" /\ attempt' = attempt + 1 /\ UNCHANGED <<invocation, structured, result>>
  ELSE Ends("failed")
Retries == AttemptFails
\* Unchanged(checkout) is violated, or nothing can be observed: the sentinel ends
\* every window it passes. The conflict resolver is a process of its own, whose
\* sentinel reaches the update as the failure of an attempt.
Stops == IF role = "update" THEN AttemptFails ELSE Ends("failed")
\* invokeWithRecovery around one structured attempt.
InvocationFails ==
  IF invocation < Attempts /\ ~expired
  THEN at' = "format" /\ invocation' = invocation + 1 /\ UNCHANGED <<attempt, structured, result>>
  ELSE Stops

-----------------------------------------------------------------------------
(* The merge of a branch update, before any Agent.                         *)

Merge ==
  /\ at = "merge"
  /\ \/ Ends("up-to-date") /\ UNCHANGED <<checkout, frozen>>
     \/ \* merged or fast-forwarded, and pushed
        /\ checkout' \in {[head |-> h, files |-> "clean"] : h \in {"merged", "base"}}
        /\ frozen' = checkout' /\ Ends("delivered")
     \/ checkout' = [checkout EXCEPT !.files = "merging"] /\ Goes("attempt") /\ UNCHANGED frozen
     \/ Ends("failed") /\ UNCHANGED <<checkout, frozen>>
  /\ UNCHANGED <<role, answer, formatOnly, expired, runs>>

\* createMergeStateClassifier: what is durable in the checkout decides.
MergeState ==
  CASE checkout = [head |-> "start", files |-> "merging"] -> "active-conflict"
    [] checkout = [head |-> "start", files |-> "clean"]   -> "aborted-merge"
    [] checkout = [head |-> "merged", files |-> "clean"]  -> "completed-merge"
    [] OTHER -> "invalid"

\* Every command of the classification may fail, which is a failed attempt.
Classify ==
  /\ at = "attempt" /\ role = "update"
  /\ formatOnly' = (MergeState = "completed-merge")
  /\ \/ AttemptFails /\ UNCHANGED <<checkout, frozen>>
     \/ MergeState = "invalid" /\ Ends("failed") /\ UNCHANGED <<checkout, frozen>>
     \/ MergeState = "active-conflict" /\ Goes("produce") /\ UNCHANGED <<checkout, frozen>>
     \/ /\ MergeState = "completed-merge"
        /\ frozen' = checkout /\ Goes("freeze") /\ UNCHANGED checkout
     \/ \* the merge is repeated
        /\ MergeState = "aborted-merge"
        /\ \/ checkout' = [checkout EXCEPT !.files = "merging"] /\ Goes("produce") /\ UNCHANGED frozen
           \/ checkout' = [checkout EXCEPT !.head = "merged"] /\ frozen' = checkout' /\ Ends("delivered")
  /\ UNCHANGED <<role, answer, expired, runs>>

BeginAttempt ==
  /\ at = "attempt" /\ role # "update"
  /\ IF expired THEN Ends("failed") ELSE Goes("produce")
  /\ UNCHANGED <<role, checkout, answer, frozen, formatOnly, expired, runs>>

-----------------------------------------------------------------------------
(* The substantive stage.                                                  *)

AnyCheckout == {c \in Checkouts : role # "update" => c.files # "merging" /\ c.head \notin {"base", "merged"}}
Answers(answers) == answer' \in answers /\ checkout' \in AnyCheckout /\ runs' = runs + 1

Produce ==
  /\ at = "produce" /\ Answers({Rejected, {}})
  /\ IF answer' = Rejected THEN AttemptFails ELSE Goes("observe")
  /\ UNCHANGED <<role, frozen, formatOnly, expired>>

\* A run that says it is done: what it left is observed, and it must be possible
\* to go on with its session.
Produced(c) == Clean(c) /\ (role = "feedback" => c.head # "start")
ObserveProduced ==
  /\ at = "observe"
  /\ \/ Produced(checkout) /\ frozen' = checkout /\ Goes("freeze")
     \/ AttemptFails /\ UNCHANGED frozen
     \/ Stops /\ UNCHANGED frozen
  /\ UNCHANGED <<role, checkout, answer, formatOnly, expired, runs>>

-----------------------------------------------------------------------------
(* The formatting stage: createStructuredExtractionDriver.                 *)

\* requireClean. What review and feedback find must be what was produced.
Freeze ==
  /\ at = "freeze"
  /\ \/ /\ Clean(checkout) /\ (role \in {"review", "feedback"} => checkout = frozen)
        /\ at' = "format" /\ invocation' = 1 /\ structured' = 1 /\ frozen' = checkout
        /\ UNCHANGED <<attempt, result>>
     \/ Stops /\ UNCHANGED frozen
  /\ UNCHANGED <<role, checkout, answer, formatOnly, expired, runs>>

BeginRun ==
  /\ at = "format"
  /\ IF expired THEN Ends("failed") ELSE Goes("run")
  /\ UNCHANGED <<role, checkout, answer, frozen, formatOnly, expired, runs>>

Format ==
  /\ at = "run" /\ Answers({Rejected} \cup Blocks) /\ Goes("unchanged")
  /\ UNCHANGED <<role, frozen, formatOnly, expired>>

UnchangedIfAnswered(c) == answer # Rejected => c = frozen
\* requireUnchanged, after a rejected run too.
Unchanged(c) == c = frozen
\* extractFromStdout: a usable block counts, also one that later ones follow.
Usable == "usable" \in answer
Delivers == IF role = "update" THEN Goes("validate") ELSE Ends("delivered")
CheckUnchanged ==
  /\ at = "unchanged"
  /\ \/ Stops
     \/ /\ Unchanged(checkout)
        /\ \/ answer = Rejected /\ InvocationFails
           \/ Usable /\ Delivers
           \/ /\ answer # Rejected /\ ~Usable
              /\ IF structured < StructuredAttempts
                 THEN /\ at' = "format" /\ structured' = structured + 1 /\ invocation' = 1
                      /\ UNCHANGED <<attempt, result>>
                 ELSE Stops
  /\ UNCHANGED <<role, checkout, answer, frozen, formatOnly, expired, runs>>

-----------------------------------------------------------------------------
(* What an update pushes.                                                  *)

\* validateResolvedMerge, and the checks after a format of its own.
Resolved(c) == c.head = "merged" /\ Clean(c)
Validate ==
  /\ at = "validate"
  /\ IF Resolved(checkout) THEN Ends("delivered") \/ AttemptFails ELSE AttemptFails
  /\ UNCHANGED <<role, checkout, answer, frozen, formatOnly, expired, runs>>

Expire ==
  /\ role \in {"read", "review"} /\ at # "done" /\ ~expired /\ expired' = TRUE
  /\ UNCHANGED <<role, checkout, at, window, answer, frozen, runs, result>>

Next ==
  \/ Merge \/ Classify \/ BeginAttempt \/ Produce \/ ObserveProduced
  \/ Freeze \/ BeginRun \/ Format \/ CheckUnchanged \/ Validate \/ Expire
Spec == Init /\ [][Next]_vars

-----------------------------------------------------------------------------
\* However runs are rejected, answers unusable, checkouts changed and merges
\* aborted, an operation makes as many Agent runs as its nested windows allow.
FormatRuns == Attempts * StructuredAttempts
RunsWithinBudget ==
  runs <= CASE role = "read" -> FormatRuns
            [] role = "update" -> Attempts * (1 + FormatRuns)
            [] OTHER -> Attempts + FormatRuns

\* The result that an operation acts on, which it posts, plans with or pushes, was
\* given in a checkout that is still what the substantive stage left, and what it
\* left is what the role had to make: for an update the exact merge of the two
\* frozen commits. And while the stages repeat, no Agent is asked for a structured
\* result in a checkout that an earlier, perhaps rejected, run has changed, and
\* none is asked for anything once the deadline has passed.
DeliversProven ==
  /\ result # "delivered" /\ result' = "delivered" =>
       /\ Clean(checkout')
       /\ checkout' = frozen'
       /\ role = "feedback" => checkout'.head # "start"
       /\ role = "update" => checkout'.head = "merged" \/ runs = 0
  /\ at = "format" /\ at' = "run" => checkout = frozen /\ ~expired
=============================================================================
