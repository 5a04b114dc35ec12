----------------------------- MODULE PolicyForm -----------------------------
(***************************************************************************)
(* How the protection policy is changed: the settings form                 *)
(* (policy-form.tsx), PUT /api/policy, PATCH /api/policy/execution-mode,   *)
(* and the cached product data the form is filled from                     *)
(* (product/data.ts).  A save is on its way while the owner goes on        *)
(* editing; its answer may be lost and the write still come, also after a  *)
(* later one; a page that was being read when the row changed is cached    *)
(* as it was; a database failure puts the defaults in place of the row.    *)
(*                                                                         *)
(* Abstractions.  A policy is its mode and whether protection is enabled;  *)
(* its thresholds and limits are valid or the request is refused.          *)
(***************************************************************************)
EXTENDS Integers, FiniteSets

CONSTANTS
  Modes,          \* ExecutionMode, or some of them
  Autonomous,     \* AUTONOMOUS
  DefaultMode,    \* that of EMPTY_POLICY
  Absent,         \* no policy yet, nothing cached, no answer
  MaxPuts         \* bound: requests that are on their way

ASSUME ModesOfThePolicy == /\ {Autonomous, DefaultMode} \subseteq Modes
                           /\ Autonomous # DefaultMode
ASSUME AbsentIsNoPolicy == Absent \notin [mode : Modes, enabled : BOOLEAN]
ASSUME MaxPutsIsNat     == MaxPuts \in Nat

Policies == [mode : Modes, enabled : BOOLEAN]
Defaults == [mode |-> DefaultMode, enabled |-> FALSE]

VARIABLES
  stored,     \* the row of protectionPolicy, or Absent
  form,       \* policy, confirmed, dirty, busy
  puts,       \* requests at the server: policy, confirmed, heard
  answer,     \* the answer on its way to the form: a policy, "error" or "none"
  cached,     \* the policy of the cached product data, or Absent
  fill,       \* what a load that will fill the cache has read, or Absent
  agreed      \* what the owner agreed to, of the form, the requests and the
              \* row; not a variable of the code

formVars == <<stored, form, puts, answer, cached, fill, agreed>>

\* useState(initial), and the effect on initial.
Synced(p) == [policy |-> p, confirmed |-> p.mode = Autonomous, dirty |-> FALSE, busy |-> FALSE]

NoAnswer == [kind |-> "none", policy |-> Defaults]

FormInit ==
  /\ stored = Absent
  /\ form = Synced(Defaults)
  /\ puts = {} /\ answer = NoAnswer
  /\ cached = Absent /\ fill = Absent
  /\ agreed = [form |-> FALSE, row |-> FALSE]

-----------------------------------------------------------------------------
(***************************************************************************)
(* The owner edits.                                                        *)
(***************************************************************************)

\* Mutant: the confirmation outlives a change of mode.
ConfirmedAnyway(mode) == form.confirmed

\* setMode.
ConfirmedAfter(mode) == form.confirmed /\ mode = Autonomous

ChooseMode(mode) ==
  /\ mode # form.policy.mode
  /\ form' = [form EXCEPT !.policy.mode = mode, !.dirty = TRUE,
                          !.confirmed = ConfirmedAfter(mode)]
  /\ agreed' = [agreed EXCEPT !.form = FALSE]
  /\ UNCHANGED <<stored, puts, answer, cached, fill>>

\* The box is there while AUTONOMOUS is chosen.
Confirm ==
  /\ form.policy.mode = Autonomous
  /\ form' = [form EXCEPT !.confirmed = ~@, !.dirty = TRUE]
  /\ agreed' = [agreed EXCEPT !.form = ~form.confirmed]
  /\ UNCHANGED <<stored, puts, answer, cached, fill>>

ToggleEnabled ==
  /\ form' = [form EXCEPT !.policy.enabled = ~@, !.dirty = TRUE]
  /\ UNCHANGED <<stored, puts, answer, cached, fill, agreed>>

\* save(): the button is off while AUTONOMOUS is not confirmed.
Save ==
  /\ ~form.busy /\ Cardinality(puts) < MaxPuts
  /\ form.policy.mode = Autonomous => form.confirmed
  /\ puts' = puts \cup {[policy |-> form.policy, confirmed |-> form.confirmed,
                         heard |-> TRUE, agreed |-> agreed.form]}
  /\ form' = [form EXCEPT !.busy = TRUE]
  /\ UNCHANGED <<stored, answer, cached, fill, agreed>>

-----------------------------------------------------------------------------
(***************************************************************************)
(* PUT /api/policy.                                                        *)
(***************************************************************************)

Answered(put, kind) ==
  answer' = IF put.heard THEN [kind |-> kind, policy |-> put.policy] ELSE answer

Admitted(put) == put.policy.mode = Autonomous => put.confirmed

\* The transaction with its audit event; then the tags and the answer.
PutCommits(put) ==
  /\ Admitted(put)
  /\ stored' = put.policy
  /\ agreed' = [agreed EXCEPT !.row = put.agreed]
  /\ cached' = Absent
  /\ puts' = puts \ {put}
  /\ Answered(put, "saved")
  /\ UNCHANGED <<form, fill>>

\* It commits and the process dies before revalidateTag.
PutCommitsUntold(put) ==
  /\ Admitted(put)
  /\ stored' = put.policy
  /\ agreed' = [agreed EXCEPT !.row = put.agreed]
  /\ puts' = puts \ {put}
  /\ Answered(put, "error")
  /\ UNCHANGED <<form, cached, fill>>

\* No session, an invalid policy, AUTONOMOUS_CONFIRMATION_REQUIRED, no user, or
\* the transaction fails.
PutRefused(put) ==
  /\ puts' = puts \ {put}
  /\ Answered(put, "error")
  /\ UNCHANGED <<stored, form, cached, fill, agreed>>

\* fetch fails in the browser; the request goes on.
ConnectionLost(put) ==
  /\ put.heard
  /\ puts' = (puts \ {put}) \cup {[put EXCEPT !.heard = FALSE]}
  /\ answer' = [kind |-> "error", policy |-> put.policy]
  /\ UNCHANGED <<stored, form, cached, fill, agreed>>

\* The answer replaces what the owner has edited in the meantime.
SaveAnswered ==
  /\ answer.kind = "saved"
  /\ form' = Synced(answer.policy)
  /\ answer' = NoAnswer
  /\ agreed' = [agreed EXCEPT !.form = answer.policy.mode = Autonomous]
  /\ UNCHANGED <<stored, puts, cached, fill>>

SaveFailed ==
  /\ answer.kind = "error"
  /\ form' = [form EXCEPT !.busy = FALSE]
  /\ answer' = NoAnswer
  /\ UNCHANGED <<stored, puts, cached, fill, agreed>>

\* PATCH /api/policy/execution-mode, which no page uses: the update, then the
\* audit event, without which nothing is revalidated and the answer is 503.
PatchMode(mode, confirmed) ==
  /\ stored # Absent
  /\ mode = Autonomous => confirmed
  /\ stored' = [stored EXCEPT !.mode = mode]
  /\ agreed' = [agreed EXCEPT !.row = confirmed]
  /\ cached' \in {cached, Absent}
  /\ UNCHANGED <<form, puts, answer, fill>>

-----------------------------------------------------------------------------
(***************************************************************************)
(* loadSharedProductData and the pages.                                    *)
(***************************************************************************)

\* The policy of the page: no row, or no database, gives EMPTY_POLICY.
ReadPolicy == {Defaults} \cup (IF stored = Absent THEN {} ELSE {stored})

BeginFill ==
  /\ cached = Absent /\ fill = Absent
  /\ fill' \in ReadPolicy
  /\ UNCHANGED <<stored, form, puts, answer, cached, agreed>>

EndFill ==
  /\ fill # Absent
  /\ cached' = fill /\ fill' = Absent
  /\ UNCHANGED <<stored, form, puts, answer, agreed>>

\* revalidate: 15.
CacheExpires ==
  /\ cached # Absent
  /\ cached' = Absent
  /\ UNCHANGED <<stored, form, puts, answer, fill, agreed>>

\* router.refresh(), with the page as it is cached: only a form that was not
\* edited takes it up.
Refresh ==
  /\ cached # Absent /\ ~form.dirty
  /\ form' = [Synced(cached) EXCEPT !.busy = form.busy]
  /\ agreed' = [agreed EXCEPT !.form = cached.mode = Autonomous]
  /\ UNCHANGED <<stored, puts, answer, cached, fill>>

\* The page is left and opened again: useState(initial); what was in flight no
\* longer finds the form.
OpenForm ==
  /\ cached # Absent
  /\ form' = Synced(cached)
  /\ agreed' = [agreed EXCEPT !.form = cached.mode = Autonomous]
  /\ puts' = {[p EXCEPT !.heard = FALSE] : p \in puts}
  /\ answer' = NoAnswer
  /\ UNCHANGED <<stored, cached, fill>>

FormNext ==
  \/ \E mode \in Modes : ChooseMode(mode)
  \/ Confirm \/ ToggleEnabled \/ Save \/ SaveAnswered \/ SaveFailed
  \/ \E put \in puts : \/ PutCommits(put) \/ PutCommitsUntold(put)
                       \/ PutRefused(put) \/ ConnectionLost(put)
  \/ \E mode \in Modes, confirmed \in BOOLEAN : PatchMode(mode, confirmed)
  \/ BeginFill \/ EndFill \/ CacheExpires \/ Refresh \/ OpenForm

FormSpec == FormInit /\ [][FormNext]_formVars

-----------------------------------------------------------------------------
(***************************************************************************)
(* Properties.                                                             *)
(***************************************************************************)

Puts == [policy : Policies, confirmed : BOOLEAN, heard : BOOLEAN, agreed : BOOLEAN]

FormTypeOK ==
  /\ stored \in Policies \cup {Absent}
  /\ form \in [policy : Policies, confirmed : BOOLEAN, dirty : BOOLEAN, busy : BOOLEAN]
  /\ puts \subseteq Puts
  /\ answer \in [kind : {"none", "saved", "error"}, policy : Policies]
  /\ cached \in Policies \cup {Absent} /\ fill \in Policies \cup {Absent}
  /\ agreed \in [form : BOOLEAN, row : BOOLEAN]

\* A row is AUTONOMOUS only if whoever wrote it agreed to that: the owner ticked
\* the box after choosing it, or the form had found it so, or the request said
\* so; whatever the owner chose in between, and in whatever order writes arrive.
AutonomyConsented == (stored # Absent /\ stored.mode = Autonomous) => agreed.row
=============================================================================
