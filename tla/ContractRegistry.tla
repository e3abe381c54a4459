-------------------------- MODULE ContractRegistry --------------------------
(***************************************************************************)
(* The ledger of contract revisions: publication under any free revision   *)
(* number, retirement with an optional replacement, inventories, and the   *)
(* dependency rows that bind consumers to a revision.  Callers are service *)
(* pipelines that know nothing of each other, so revisions arrive in any   *)
(* order.  Reconciliation and CompatibilityWork model what follows a       *)
(* change; this module models what is recorded and what verdict it gets.   *)
(*                                                                         *)
(* Each operation is one SERIALIZABLE transaction, hence one action; the   *)
(* calls the code answers with an error, or with the existing row of an    *)
(* idempotent repetition, change nothing.  All contracts belong to one     *)
(* provider service and all rows to one consumer file.                     *)
(***************************************************************************)
EXTENDS Differencer, FiniteSetsExt

CONSTANTS
  Contracts,    \* service_contracts.contract_id
  LastRevision, \* bound: the largest revision_number published
  MaxRevision,  \* the same, by contract
  Commits,      \* source commits of inventories
  SchemasOf,    \* the interfaces the pipelines of each contract publish
  Declared,     \* the compatibility its callers declare
  Consumed,     \* the rows (contract and revision) the consumer asks for
  NoRow, Tombstone, NoContract

\* A tombstone is one above the newest revision.
Revisions == 1..(LastRevision + 1)

Confirmations == {"NONE", "DECLARED", "REJECTED", "CONFIRMED"}

ASSUME RegistryAssumption ==
  /\ LastRevision \in Nat /\ MaxRevision \in [Contracts -> 0..LastRevision]
  /\ Declared \subseteq Declarations
  /\ SchemasOf \in [Contracts -> SUBSET Interfaces]
  /\ NoRow \notin Interfaces /\ Tombstone \notin Interfaces /\ NoRow # Tombstone
  /\ NoContract \notin Contracts

VARIABLES
  lifecycle,    \* service_contracts.lifecycle_state, UNKNOWN for no row
  ledger,       \* service_contract_revisions.schema_json
  active,       \* revisions with is_active
  replacement,  \* service_contracts.replacement_contract_id
  verdicts,     \* per revision: the classifications its events carry
  inventories,  \* contract_inventory_publications: commit and contract_keys
  work,         \* breaking work items: contract, revision, dependency row
  deps,         \* http_interface_dependencies.confirmation_status
  bound         \* the dependency rows that tasks are bound to

registryVars == <<lifecycle, ledger, active, replacement, verdicts>>
bindingVars  == <<deps, bound>>
vars == <<lifecycle, ledger, active, replacement, verdicts, inventories,
          work, deps, bound>>

RegistryTypeOK ==
  /\ lifecycle \in [Contracts -> {"UNKNOWN", "ACTIVE", "RETIRED"}]
  /\ ledger \in [Contracts -> [Revisions -> Interfaces \cup {NoRow, Tombstone}]]
  /\ active \in [Contracts -> SUBSET Revisions]
  /\ replacement \in [Contracts -> Contracts \cup {NoContract}]
  /\ verdicts \in [Contracts -> [Revisions -> SUBSET Verdicts]]
  /\ inventories \subseteq Commits \X SUBSET Contracts
  /\ deps \in [Contracts -> [Revisions -> Confirmations]]
  /\ work \subseteq Contracts \X Revisions \X Revisions
  /\ bound \subseteq Contracts \X Revisions

Published(c) == { n \in Revisions : ledger[c][n] # NoRow }

\* create_compatibility_work_for_contract_change: a breaking event makes one
\* item per confirmed row.  The items of a review are left out: they are never
\* claimable, so no approval follows from them (see CompatibilityWork).
CreateWork(c, n, verdict) ==
  work' = IF verdict # "BREAKING" THEN work
          ELSE work \cup { <<c, n, d>> : d \in { d \in Revisions : deps[c][d] = "CONFIRMED" } }

-----------------------------------------------------------------------------
(* Publication. *)

\* Variant: the new revision becomes the only active one.
AllOthers(c, n) == active[c]

\* UPDATE ... SET is_active = false WHERE revision_number < n
Superseded(c, n) == { m \in active[c] : m < n }

\* Steps 4 to 8 of publish_contract_revision, with the verdict found before.
Append(c, n, s, verdict) ==
  /\ lifecycle' = [lifecycle EXCEPT ![c] = "ACTIVE"]
  /\ ledger' = [ledger EXCEPT ![c][n] = s]
  /\ active' = [active EXCEPT ![c] = (@ \ Superseded(c, n)) \cup {n}]
  /\ verdicts' = [verdicts EXCEPT ![c][n] = @ \cup {verdict}]
  /\ CreateWork(c, n, verdict)
  /\ UNCHANGED <<replacement, inventories, bindingVars>>

\* A retired contract refuses, and a revision that exists is immutable.
MayPublish(c, n, s) ==
  /\ s \in SchemasOf[c] /\ n <= MaxRevision[c]
  /\ lifecycle[c] # "RETIRED"
  /\ ledger[c][n] = NoRow

\* Revision 1 is not compared: it carries the diff its caller sends, or none.
PublishFirst(c, s, declared) ==
  /\ MayPublish(c, 1, s)
  /\ Append(c, 1, s, IF declared = "NONE" THEN "NON_BREAKING" ELSE declared)

\* Variant: nothing to compare with is treated like a first revision.
VerdictOfComparable(c, n, s, declared) ==
  IF ledger[c][n - 1] = NoRow THEN "NON_BREAKING"
  ELSE Verdict(ledger[c][n - 1], s, declared)

\* A later revision is compared with its predecessor, when that is known.
VerdictOf(c, n, s, declared) ==
  IF ledger[c][n - 1] = NoRow THEN "REVIEW_REQUIRED"
  ELSE Verdict(ledger[c][n - 1], s, declared)

PublishNext(c, n, s, declared) ==
  /\ n > 1 /\ MayPublish(c, n, s)
  /\ Append(c, n, s, VerdictOf(c, n, s, declared))

-----------------------------------------------------------------------------
(* Retirement and inventories. *)

\* Variant: a replacement need only be another known contract.
KnownReplacement(c, r) == r # NoContract => r # c /\ lifecycle[r] # "UNKNOWN"

MayReplace(c, r) == r # NoContract => r # c /\ lifecycle[r] = "ACTIVE"

MayRetire(c) == lifecycle[c] = "ACTIVE"

Retire(c, r) ==
  LET n == Max(Published(c)) + 1 IN
    /\ MayRetire(c) /\ MayReplace(c, r)
    /\ lifecycle' = [lifecycle EXCEPT ![c] = "RETIRED"]
    /\ ledger' = [ledger EXCEPT ![c][n] = Tombstone]
    /\ active' = [active EXCEPT ![c] = {}]
    /\ replacement' = [replacement EXCEPT ![c] = r]
    /\ verdicts' = [verdicts EXCEPT ![c][n] = @ \cup {"BREAKING"}]
    /\ CreateWork(c, n, "BREAKING")
    /\ UNCHANGED <<inventories, bindingVars>>

\* publish_contract_inventory: one publication per commit; every active
\* contract it leaves out gets a review at its newest revision.
Inventory(k, keys) ==
  /\ \A i \in inventories : i[1] # k
  /\ inventories' = inventories \cup {<<k, keys>>}
  /\ verdicts' =
       [c \in Contracts |-> [n \in Revisions |->
          verdicts[c][n] \cup
            IF /\ c \notin keys /\ lifecycle[c] = "ACTIVE"
               /\ Published(c) # {} /\ n = Max(Published(c))
            THEN {"REVIEW_REQUIRED"} ELSE {}]]
  /\ UNCHANGED <<lifecycle, ledger, active, replacement, work, bindingVars>>

-----------------------------------------------------------------------------
(* Dependency rows. *)

\* persist_http_interface_dependency: the row of an active contract's known
\* revision, inserted or overwritten with the status the declaration asks for.
Persistable(c, n) == lifecycle[c] = "ACTIVE" /\ ledger[c][n] # NoRow

\* A confirmed declaration that lists body fields must list those the provider
\* requires.
SendsRequired(c, n, sends) ==
  \/ sends = {}
  \/ \A x \in Names \ Params :
       Has(ledger[c][n], x) /\ ledger[c][n].fields[x].required => x \in sends

Persist(c, n, status, sends) ==
  /\ Persistable(c, n)
  /\ status = "CONFIRMED" => SendsRequired(c, n, sends)
  /\ deps' = [deps EXCEPT ![c][n] = status]

\* Variant: the row is written in a transaction of its own, which stays when
\* the registration is refused for want of a confirmation.
RegisterInTwo(c, n, status, sends) ==
  /\ Persist(c, n, status, sends)
  /\ bound' = IF status = "CONFIRMED" THEN bound \cup {<<c, n>>} ELSE bound
  /\ UNCHANGED <<registryVars, inventories, work>>

\* create_agent_task with the interface of a dependency: the row is written,
\* then read back and required to be confirmed, all in one transaction.
Register(c, n, status, sends) ==
  /\ Persist(c, n, status, sends)
  /\ deps'[c][n] = "CONFIRMED"
  /\ bound' = bound \cup {<<c, n>>}
  /\ UNCHANGED <<registryVars, inventories, work>>

\* confirm_internal_http_dependency, and the demo's own row: no task yet.
\* Discovery offers the active revisions only.
ConfirmDiscovered(c, n, sends) ==
  /\ n \in active[c]
  /\ Persist(c, n, "CONFIRMED", sends)
  /\ UNCHANGED <<registryVars, inventories, work, bound>>

\* create_agent_task with the id of an existing row.
BindExisting(c, n) ==
  /\ deps[c][n] = "CONFIRMED"
  /\ bound' = bound \cup {<<c, n>>}
  /\ UNCHANGED <<registryVars, inventories, work, deps>>

\* approve_compatibility_work: the task of the item moves to the revision the
\* item is about, on a copy of the confirmed row, which is not checked against
\* that revision.  Another task may stay on the old row, and the task may be
\* bound to another row or to none by now.
Approve(item, moves, alone) ==
  LET c == item[1]  new == <<c, item[2]>>  old == <<c, item[3]>> IN
    /\ item \in work /\ deps[c][item[3]] = "CONFIRMED"
    /\ deps' = [deps EXCEPT ![c][item[2]] = "CONFIRMED"]
    /\ bound' = IF moves /\ old \in bound
                THEN (IF alone THEN bound \ {old} ELSE bound) \cup {new}
                ELSE bound
    /\ UNCHANGED <<registryVars, inventories, work>>

-----------------------------------------------------------------------------
Init ==
  /\ lifecycle = [c \in Contracts |-> "UNKNOWN"]
  /\ ledger = [c \in Contracts |-> [n \in Revisions |-> NoRow]]
  /\ active = [c \in Contracts |-> {}]
  /\ replacement = [c \in Contracts |-> NoContract]
  /\ verdicts = [c \in Contracts |-> [n \in Revisions |-> {}]]
  /\ inventories = {}
  /\ work = {}
  /\ deps = [c \in Contracts |-> [n \in Revisions |-> "NONE"]]
  /\ bound = {}

Next ==
  \/ \E c \in Contracts, d \in Declared : \E s \in SchemasOf[c] :
       \/ PublishFirst(c, s, d)
       \/ \E n \in Revisions : PublishNext(c, n, s, d)
  \/ \E c \in Contracts, r \in Contracts \cup {NoContract} : Retire(c, r)
  \/ \E k \in Commits, keys \in SUBSET Contracts : Inventory(k, keys)
  \/ \E c \in Contracts, n \in Revisions : <<c, n>> \in Consumed /\
       \/ BindExisting(c, n)
       \/ \E sends \in SUBSET (Names \ Params) :
            \/ \E status \in Confirmations \ {"NONE"} : Register(c, n, status, sends)
            \/ ConfirmDiscovered(c, n, sends)
  \/ \E item \in work, moves, alone \in BOOLEAN : Approve(item, moves, alone)

Spec == Init /\ [][Next]_vars

-----------------------------------------------------------------------------
(* Properties. *)

Interventions(c, n) == verdicts[c][n] \cap {"BREAKING", "REVIEW_REQUIRED"}

\* Does revision n refuse a call that revision k served?  A tombstone has no
\* differencer verdict: it refuses every call.
RefusesCallersOf(c, k, n) ==
  \/ ledger[c][n] = Tombstone
  \/ ledger[c][k] # Tombstone /\ Breaks(ledger[c][k], ledger[c][n])

\* A revision whose change an optional addition hid from the differencer.
MaskedStep(c, n) ==
  /\ n > 1 /\ {ledger[c][n - 1], ledger[c][n]} \subseteq Interfaces
  /\ Masked(ledger[c][n - 1], ledger[c][n])

\* Between two revisions of the ledger, the later of which refuses calls that
\* the earlier served, some revision was announced as breaking or for review:
\* whatever the order of publication and the gaps, a consumer of the earlier
\* revision is told (masked changes apart).
CallersAreWarned ==
  \A c \in Contracts : \A k, n \in Published(c) :
    k < n /\ RefusesCallersOf(c, k, n) =>
      \E m \in (k + 1)..n : Interventions(c, m) # {} \/ MaskedStep(c, m)

\* The newest revision of a live contract is active, however late an older one
\* arrives; a retired contract ends in its only tombstone, and none is active.
NewestIsActive ==
  \A c \in Contracts :
    /\ lifecycle[c] = "ACTIVE" => Max(Published(c)) \in active[c]
    /\ lifecycle[c] = "RETIRED" =>
         /\ active[c] = {}
         /\ \A n \in Published(c) :
              ledger[c][n] = Tombstone <=> n = Max(Published(c))

\* Following replacements leads to a contract that has none: no set of
\* contracts is closed under replacement.
ReplacementsAreAcyclic ==
  \A S \in (SUBSET Contracts) \ {{}} : \E c \in S : replacement[c] \notin S

\* A row that tasks are bound to stays confirmed and names a revision of the
\* ledger, although registering a dependency overwrites the row's status.
BoundRowsAreConfirmed ==
  \A row \in bound :
    deps[row[1]][row[2]] = "CONFIRMED" /\ ledger[row[1]][row[2]] # NoRow

\* README.md:110-112, unknown changes are REVIEW_REQUIRED, "not silently
\* classified as safe": no revision published after its predecessor, and
\* refusing calls that one served, is announced as NON_BREAKING only.
UnknownChangesAreReviewed ==
  \A c \in Contracts : \A n \in Published(c) \ {1} :
    verdicts[c][n] = {"NON_BREAKING"} /\ ledger[c][n - 1] # NoRow =>
      ~RefusesCallersOf(c, n - 1, n)
=============================================================================
