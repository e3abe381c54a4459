----------------------- MODULE ContractRegistryProofs -----------------------
(***************************************************************************)
(* Safety of the registry, for any contracts, interfaces and order of      *)
(* publication.  The ledger is append-only, and the invariant says of each *)
(* of its revisions why it carries no warning: its predecessor was there   *)
(* and the differencer called the change safe.  What the verdict is worth  *)
(* is SafeVerdictsAreSafe; a consumer of an older revision is warned by    *)
(* the first revision after its own that refuses one of its calls.         *)
(***************************************************************************)
EXTENDS ContractRegistry, TLAPS, WellFoundedInduction

-----------------------------------------------------------------------------
(* The differencer: what its verdict guarantees, for every interface. *)

\* The publisher's declaration never lowers the verdict: what is breaking by
\* the rules stays breaking, and what needs a review is never called safe.
THEOREM DeclarationsOnlyRaise ==
  ASSUME NEW old \in Interfaces, NEW new \in Interfaces, NEW d \in Declarations
  PROVE  /\ Verdict(old, new, "NONE") = "BREAKING" => Verdict(old, new, d) = "BREAKING"
         /\ Verdict(old, new, d) = "NON_BREAKING" =>
              Verdict(old, new, "NONE") = "NON_BREAKING"
  BY DEF Verdict

\* A verdict of NON_BREAKING is right, unless an optional addition masks the
\* change: no call that the old revision serves is refused by the new one.
THEOREM SafeVerdictsAreSafe ==
  ASSUME NEW old \in Interfaces, NEW new \in Interfaces, NEW d \in Declarations,
         Verdict(old, new, d) = "NON_BREAKING", ~Masked(old, new)
  PROVE  ~Breaks(old, new)
<1>1. ~Breaking(old, new) /\ ~Uncertain(old, new) /\ ~Unrecognised(old, new)
  BY DEF Verdict
<1> SUFFICES ASSUME NEW call \in Calls, Serves(old, call), ~Serves(new, call)
             PROVE  FALSE
  BY DEF Breaks
<1>2. OptionalAdded(old, new)
  BY <1>1 DEF Unrecognised
<1>3. old.security = new.security
  BY <1>2 DEF Masked
<1>4. call.expects \in new.statuses /\ Admits(new, call.grants)
  BY <1>1, <1>3 DEF Serves, Breaking, Admits
<1>5. PICK x \in Names :
        ~ /\ call.sent[x] # Absent =>
               Has(new, x) /\ Takes(new.fields[x], call.sent[x])
          /\ call.sent[x] = Absent => ~(Has(new, x) /\ new.fields[x].required)
  BY <1>4 DEF Serves, Accepts
<1>6. /\ call.sent[x] # Absent =>
            Has(old, x) /\ Takes(old.fields[x], call.sent[x])
      /\ call.sent[x] = Absent => ~(Has(old, x) /\ old.fields[x].required)
  BY DEF Serves, Accepts
<1>7. CASE call.sent[x] = Absent
  <2>1. Has(new, x) /\ new.fields[x].required
    BY <1>5, <1>7
  <2>2. CASE Has(old, x)
    <3>1. x \in Kept(old, new) /\ ~old.fields[x].required
      BY <2>1, <2>2, <1>6, <1>7 DEF Kept
    <3>2. QED
      BY <3>1, <2>1, <1>1 DEF Breaking, InputBreaks, FieldBreaks
  <2>3. CASE ~Has(old, x)
    BY <2>1, <2>3, <1>1 DEF Breaking, Added
  <2>4. QED
    BY <2>2, <2>3
<1>8. CASE call.sent[x] # Absent
  <2>1. Has(old, x) /\ Takes(old.fields[x], call.sent[x])
    BY <1>6, <1>8
  <2>2. CASE ~Has(new, x)
    <3>1. x \in Removed(old, new)
      BY <2>1, <2>2 DEF Removed
    <3>2. QED
      BY <3>1, <1>1 DEF Breaking, Uncertain
  <2>3. CASE Has(new, x)
    <3> DEFINE f == old.fields[x]
               g == new.fields[x]
    <3>1. x \in Kept(old, new) /\ ~Takes(g, call.sent[x])
      BY <2>1, <2>3, <1>5, <1>8 DEF Kept
    <3>2. f \in Fields /\ g \in Fields
      BY <2>1, <2>3 DEF Has, Interfaces
    <3>3. call.sent[x] \in Inputs
      BY <1>8 DEF Calls
    <3>4. CASE x \in Params
      <4>1. SchemaOf(f) = SchemaOf(g)
        BY <3>1, <3>4, <1>1 DEF Uncertain
      <4>2. QED
        BY <4>1, <3>1, <2>1 DEF SchemaOf, Takes
    <3>5. CASE x \notin Params
      <4>1. ~FieldBreaks(f, g)
        BY <3>1, <3>5, <1>1 DEF Breaking
      <4>2. ~(g.closed /\ ~f.closed)
        BY <3>1, <3>5, <1>2 DEF Masked
      <4>3. /\ f.type = g.type
            /\ f.closed /\ g.closed => f.enum \subseteq g.enum
            /\ ~(g.floor > f.floor)
        BY <4>1 DEF FieldBreaks, InputBreaks
      <4>4. /\ f.closed \in BOOLEAN /\ g.closed \in BOOLEAN
            /\ f.floor \in Nat /\ g.floor \in Nat /\ call.sent[x].value \in Nat
        BY <3>2, <3>3, InterfaceAssumption DEF Fields, Inputs
      <4>5. /\ call.sent[x].type = f.type /\ call.sent[x].value >= f.floor
            /\ f.closed => call.sent[x].value \in f.enum
        BY <2>1 DEF Takes
      <4>6. call.sent[x].type = g.type /\ call.sent[x].value >= g.floor
        <5>1. call.sent[x].type = g.type
          BY <4>3, <4>5
        <5>2. call.sent[x].value >= g.floor
          <6> HIDE DEF f, g
          <6>1. QED
            BY <4>3, <4>4, <4>5, SMT
        <5>3. QED
          BY <5>1, <5>2
      <4>7. g.closed => call.sent[x].value \in g.enum
        <5> HIDE DEF f, g
        <5>1. QED
          BY <4>2, <4>3, <4>5
      <4>8. QED
        BY <3>1, <4>6, <4>7 DEF Takes
    <3>6. QED
      BY <3>4, <3>5
  <2>4. QED
    BY <2>2, <2>3
<1>9. QED
  BY <1>7, <1>8

-----------------------------------------------------------------------------
(* The newest of the published revisions. *)

LEMMA NatMin ==
  ASSUME NEW S \in SUBSET Nat, S # {}
  PROVE  \E x \in S : \A y \in S : x <= y
<1>1. PICK x \in S : \A y \in S : <<y, x>> \notin OpToRel(<, Nat)
  BY NatLessThanWellFounded, WFMin
<1>2. \A y \in S : ~(y < x)
  BY <1>1 DEF OpToRel
<1>3. QED
  BY <1>2

LEMMA RevisionMax ==
  ASSUME NEW S \in SUBSET Revisions, S # {}
  PROVE  Max(S) \in S /\ \A y \in S : y <= Max(S)
<1> DEFINE T == { LastRevision + 1 - y : y \in S }
<1>1. LastRevision \in Nat /\ \A y \in S : y \in Nat /\ y <= LastRevision + 1
  BY RegistryAssumption DEF Revisions
<1>2. T \in SUBSET Nat
  <2>1. SUFFICES ASSUME NEW y \in S PROVE LastRevision + 1 - y \in Nat
    OBVIOUS
  <2>2. QED
    BY <1>1
<1>3. T # {}
  OBVIOUS
<1>4. PICK t \in T : \A u \in T : t <= u
  BY <1>2, <1>3, NatMin
<1>5. PICK x \in S : t = LastRevision + 1 - x
  OBVIOUS
<1>6. ASSUME NEW y \in S PROVE x >= y
  <2>1. t <= LastRevision + 1 - y
    BY <1>4
  <2>2. QED
    BY <1>1, <1>5, <2>1
<1>7. Max(S) \in S /\ \A y \in S : Max(S) >= y
  BY <1>6 DEF Max
<1>8. QED
  BY <1>1, <1>7

-----------------------------------------------------------------------------
(* The inductive invariant. *)

IsNewest(c, n) == n \in Published(c) /\ \A m \in Published(c) : m <= n

\* What the ledger of a contract holds in each part of its life.
LedgerFollowsLife ==
  \A c \in Contracts :
    /\ lifecycle[c] = "ACTIVE" => Published(c) # {}
    /\ lifecycle[c] = "UNKNOWN" => Published(c) = {}
    /\ lifecycle[c] # "RETIRED" => \A n \in Published(c) :
         n <= MaxRevision[c] /\ ledger[c][n] \in Interfaces

\* NewestIsActive, without Max.
ActiveIsNewest ==
  \A c \in Contracts :
    /\ lifecycle[c] = "ACTIVE" =>
         \A n \in Published(c) : IsNewest(c, n) => n \in active[c]
    /\ lifecycle[c] = "RETIRED" =>
         /\ active[c] = {}
         /\ \A n \in Published(c) : ledger[c][n] = Tombstone <=> IsNewest(c, n)

OnlyRetiredAreReplaced ==
  \A c \in Contracts : lifecycle[c] # "RETIRED" => replacement[c] = NoContract

\* A revision without a warning was compared with its predecessor.
SilenceIsJustified ==
  \A c \in Contracts : \A n \in Published(c) : n > 1 /\ Interventions(c, n) = {} =>
    /\ n - 1 \in Published(c)
    /\ ledger[c][n - 1] \in Interfaces /\ ledger[c][n] \in Interfaces
    /\ \E d \in Declarations : Verdict(ledger[c][n - 1], ledger[c][n], d) = "NON_BREAKING"

RowsAreRecorded ==
  /\ \A c \in Contracts, n \in Revisions : deps[c][n] # "NONE" => n \in Published(c)
  /\ \A item \in work : item[2] \in Published(item[1])
  /\ \A row \in bound : deps[row[1]][row[2]] = "CONFIRMED"

RegistryInv ==
  /\ LedgerFollowsLife /\ ActiveIsNewest /\ OnlyRetiredAreReplaced
  /\ ReplacementsAreAcyclic /\ SilenceIsJustified

Inv == RegistryTypeOK /\ RegistryInv /\ RowsAreRecorded

LEMMA InitInv == Init => Inv
<1> SUFFICES ASSUME Init PROVE Inv
  OBVIOUS
<1>1. RegistryTypeOK
  BY DEF Init, RegistryTypeOK, Confirmations
<1>2. \A c \in Contracts : Published(c) = {} /\ lifecycle[c] = "UNKNOWN"
  BY DEF Init, Published
<1>3. ReplacementsAreAcyclic
  <2>1. SUFFICES ASSUME NEW S \in (SUBSET Contracts) \ {{}}
                 PROVE  \E c \in S : replacement[c] \notin S
    BY DEF ReplacementsAreAcyclic
  <2>2. \A c \in Contracts : replacement[c] = NoContract
    BY DEF Init
  <2>3. S # {} /\ S \subseteq Contracts /\ NoContract \notin S
    BY RegistryAssumption
  <2>4. QED
    BY <2>2, <2>3
<1>4. QED
  BY <1>1, <1>2, <1>3
     DEF Init, Inv, RegistryInv, LedgerFollowsLife, ActiveIsNewest, OnlyRetiredAreReplaced,
         SilenceIsJustified, RowsAreRecorded

\* One new row of the ledger, with a verdict of its own.
Adds(c, n, s, v) ==
  /\ ledger[c][n] = NoRow /\ s # NoRow
  /\ ledger' = [ledger EXCEPT ![c][n] = s]
  /\ verdicts' = [verdicts EXCEPT ![c][n] = @ \cup {v}]

LEMMA AddsRow ==
  ASSUME Inv, NEW c \in Contracts, NEW n \in Revisions, NEW s, NEW v, Adds(c, n, s, v)
  PROVE  /\ Published(c)' = Published(c) \cup {n} /\ n \notin Published(c)
         /\ ledger'[c][n] = s
         /\ \A m \in Published(c) : ledger'[c][m] = ledger[c][m]
         /\ \A d \in Contracts \ {c} :
              /\ Published(d)' = Published(d) /\ ledger'[d] = ledger[d]
              /\ verdicts'[d] = verdicts[d]
         /\ v \in verdicts'[c][n]
         /\ \A m \in Revisions : verdicts[c][m] \subseteq verdicts'[c][m]
<1>1. /\ ledger \in [Contracts -> [Revisions -> Interfaces \cup {NoRow, Tombstone}]]
      /\ verdicts \in [Contracts -> [Revisions -> SUBSET Verdicts]]
  BY DEF Inv, RegistryTypeOK
<1>2. /\ ledger'[c] = [ledger[c] EXCEPT ![n] = s]
      /\ \A d \in Contracts \ {c} : ledger'[d] = ledger[d]
  BY <1>1 DEF Adds
<1>3. /\ ledger'[c][n] = s /\ \A m \in Revisions \ {n} : ledger'[c][m] = ledger[c][m]
  BY <1>1, <1>2
<1>4. /\ verdicts'[c] = [verdicts[c] EXCEPT ![n] = @ \cup {v}]
      /\ \A d \in Contracts \ {c} : verdicts'[d] = verdicts[d]
  <2>1. verdicts' = [verdicts EXCEPT ![c] = [verdicts[c] EXCEPT ![n] = @ \cup {v}]]
    BY DEF Adds
  <2>2. QED
    BY <1>1, <2>1
<1>5. v \in verdicts'[c][n] /\ \A m \in Revisions : verdicts[c][m] \subseteq verdicts'[c][m]
  BY <1>1, <1>4
<1>6. Published(c)' = Published(c) \cup {n} /\ n \notin Published(c)
  BY <1>3 DEF Published, Adds
<1>7. \A d \in Contracts \ {c} : Published(d)' = Published(d)
  BY <1>2 DEF Published
<1>8. \A m \in Published(c) : ledger'[c][m] = ledger[c][m]
  BY <1>3, <1>6 DEF Published
<1>9. QED
  BY <1>2, <1>3, <1>4, <1>5, <1>6, <1>7, <1>8

\* The new row is justified, so every silent revision still is.
LEMMA AddsJustified ==
  ASSUME Inv, NEW c \in Contracts, NEW n \in Revisions, NEW s, NEW v, Adds(c, n, s, v),
         v \notin {"BREAKING", "REVIEW_REQUIRED"} /\ n > 1 =>
           /\ n - 1 \in Published(c)
           /\ ledger[c][n - 1] \in Interfaces /\ s \in Interfaces
           /\ \E d \in Declarations : Verdict(ledger[c][n - 1], s, d) = "NON_BREAKING"
  PROVE  SilenceIsJustified'
<1> SUFFICES ASSUME NEW d \in Contracts, NEW m \in Published(d)', m > 1,
                    Interventions(d, m)' = {}
             PROVE  /\ m - 1 \in Published(d)'
                    /\ ledger'[d][m - 1] \in Interfaces /\ ledger'[d][m] \in Interfaces
                    /\ \E e \in Declarations :
                         Verdict(ledger'[d][m - 1], ledger'[d][m], e) = "NON_BREAKING"
  BY DEF SilenceIsJustified
<1>1. CASE d = c /\ m = n
  <2>1. v \notin {"BREAKING", "REVIEW_REQUIRED"}
    BY <1>1, AddsRow DEF Interventions
  <2>2. n - 1 \in Published(c) /\ n > 1
    BY <1>1, <2>1
  <2>3. ledger'[c][n - 1] = ledger[c][n - 1] /\ ledger'[c][n] = s
    BY <2>2, AddsRow
  <2>4. QED
    BY <1>1, <2>1, <2>2, <2>3, AddsRow
<1>2. CASE d = c /\ m # n
  <2>1. m \in Published(c) /\ m \in Revisions
    BY <1>2, AddsRow DEF Published
  <2>2. Interventions(c, m) = {}
    BY <1>2, <2>1, AddsRow DEF Interventions
  <2>3. /\ m - 1 \in Published(c)
        /\ ledger[c][m - 1] \in Interfaces /\ ledger[c][m] \in Interfaces
        /\ \E e \in Declarations :
             Verdict(ledger[c][m - 1], ledger[c][m], e) = "NON_BREAKING"
    BY <2>1, <2>2 DEF Inv, RegistryInv, SilenceIsJustified
  <2>4. ledger'[c][m - 1] = ledger[c][m - 1] /\ ledger'[c][m] = ledger[c][m]
    BY <2>1, <2>3, AddsRow
  <2>5. QED
    BY <1>2, <2>3, <2>4, AddsRow
<1>3. CASE d # c
  <2>1. /\ Published(d)' = Published(d) /\ ledger'[d] = ledger[d]
        /\ verdicts'[d] = verdicts[d]
    BY <1>3, AddsRow
  <2>2. Interventions(d, m) = {}
    BY <2>1 DEF Interventions
  <2>3. QED
    BY <2>1, <2>2 DEF Inv, RegistryInv, SilenceIsJustified
<1>4. QED
  BY <1>1, <1>2, <1>3

\* Rows of dependencies and work items stay recorded when the ledger grows.
LEMMA AddsRows ==
  ASSUME Inv, NEW c \in Contracts, NEW n \in Revisions, NEW s, NEW v, Adds(c, n, s, v),
         CreateWork(c, n, v), UNCHANGED <<deps, bound>>
  PROVE  /\ work' \subseteq Contracts \X Revisions \X Revisions
         /\ RowsAreRecorded'
<1>1. work' \subseteq work \cup { <<c, n, d>> : d \in Revisions }
  BY DEF CreateWork
<1>2. work' \subseteq Contracts \X Revisions \X Revisions
  BY <1>1 DEF Inv, RegistryTypeOK
<1>3. \A d \in Contracts : Published(d) \subseteq Published(d)'
  BY AddsRow
<1>4. ASSUME NEW item \in work'
      PROVE  item[2] \in Published(item[1])'
  <2>1. CASE item \in work
    <3>1. item[1] \in Contracts /\ item[2] \in Published(item[1])
      BY <2>1 DEF Inv, RegistryTypeOK, RowsAreRecorded
    <3>2. QED
      BY <1>3, <3>1
  <2>2. CASE item \in { <<c, n, d>> : d \in Revisions }
    <3>1. item[1] = c /\ item[2] = n
      BY <2>2
    <3>2. QED
      BY <3>1, AddsRow
  <2>3. QED
    BY <1>1, <2>1, <2>2
<1>5. QED
  BY <1>2, <1>3, <1>4 DEF Inv, RowsAreRecorded

LEMMA AppendStep ==
  ASSUME Inv, NEW c \in Contracts, NEW n \in Revisions, NEW s, NEW v \in Verdicts,
         MayPublish(c, n, s), Append(c, n, s, v),
         v = "NON_BREAKING" /\ n > 1 =>
           /\ ledger[c][n - 1] # NoRow
           /\ \E d \in Declarations : Verdict(ledger[c][n - 1], s, d) = "NON_BREAKING"
  PROVE  Inv'
<1>1. /\ s \in Interfaces /\ s # NoRow /\ s # Tombstone /\ n <= MaxRevision[c]
      /\ lifecycle[c] # "RETIRED"
  BY RegistryAssumption DEF MayPublish
<1>2. Adds(c, n, s, v)
  BY <1>1 DEF MayPublish, Append, Adds
<1>3. /\ lifecycle' = [lifecycle EXCEPT ![c] = "ACTIVE"]
      /\ active' = [active EXCEPT ![c] = (@ \ Superseded(c, n)) \cup {n}]
      /\ CreateWork(c, n, v)
      /\ UNCHANGED <<replacement, inventories, deps, bound>>
  BY DEF Append, bindingVars
<1>4. /\ lifecycle'[c] = "ACTIVE" /\ active'[c] = (active[c] \ Superseded(c, n)) \cup {n}
      /\ \A d \in Contracts \ {c} : lifecycle'[d] = lifecycle[d] /\ active'[d] = active[d]
  BY <1>3 DEF Inv, RegistryTypeOK
<1>5. work' \subseteq Contracts \X Revisions \X Revisions /\ RowsAreRecorded'
  BY <1>2, <1>3, AddsRows
<1>6. RegistryTypeOK'
  <2>1. ledger' \in [Contracts -> [Revisions -> Interfaces \cup {NoRow, Tombstone}]]
    BY <1>1, <1>2 DEF Inv, RegistryTypeOK, Adds
  <2>2. verdicts' \in [Contracts -> [Revisions -> SUBSET Verdicts]]
    BY <1>2 DEF Inv, RegistryTypeOK, Adds
  <2>3. active' \in [Contracts -> SUBSET Revisions]
    BY <1>3 DEF Inv, RegistryTypeOK
  <2>4. lifecycle' \in [Contracts -> {"UNKNOWN", "ACTIVE", "RETIRED"}]
    BY <1>3 DEF Inv, RegistryTypeOK
  <2>5. QED
    BY <1>3, <1>5, <2>1, <2>2, <2>3, <2>4 DEF Inv, RegistryTypeOK
<1>7. LedgerFollowsLife'
  <2>1. ASSUME NEW m \in Published(c)'
        PROVE  m <= MaxRevision[c] /\ ledger'[c][m] \in Interfaces
    BY <1>1, <1>2, AddsRow DEF Inv, RegistryInv, LedgerFollowsLife
  <2>2. Published(c)' # {}
    BY <1>2, AddsRow
  <2>3. ASSUME NEW d \in Contracts \ {c}
        PROVE  /\ lifecycle'[d] = "ACTIVE" => Published(d)' # {}
               /\ lifecycle'[d] = "UNKNOWN" => Published(d)' = {}
               /\ lifecycle'[d] # "RETIRED" => \A m \in Published(d)' :
                    m <= MaxRevision[d] /\ ledger'[d][m] \in Interfaces
    BY <1>2, <1>4, AddsRow DEF Inv, RegistryInv, LedgerFollowsLife
  <2>4. QED
    BY <1>4, <2>1, <2>2, <2>3 DEF LedgerFollowsLife
<1>8. ActiveIsNewest'
  <2>1. ASSUME NEW m \in Published(c)', IsNewest(c, m)' PROVE m \in active'[c]
    <3>1. CASE m = n
      BY <1>4, <3>1
    <3>2. CASE m # n
      <4>1. m \in Published(c) /\ IsNewest(c, m) /\ n <= m
        BY <1>2, <2>1, <3>2, AddsRow DEF IsNewest
      <4>2. lifecycle[c] = "ACTIVE"
        BY <4>1, <1>1 DEF Inv, RegistryTypeOK, RegistryInv, LedgerFollowsLife
      <4>3. m \in active[c] /\ m \in Int /\ n \in Int
        BY <4>1, <4>2 DEF Inv, RegistryInv, ActiveIsNewest, Published, Revisions
      <4>4. QED
        BY <1>4, <4>1, <4>3 DEF Superseded
    <3>3. QED
      BY <3>1, <3>2
  <2>2. ASSUME NEW d \in Contracts \ {c}
        PROVE  /\ lifecycle'[d] = lifecycle[d] /\ active'[d] = active[d]
               /\ Published(d)' = Published(d) /\ ledger'[d] = ledger[d]
               /\ \A m : IsNewest(d, m)' <=> IsNewest(d, m)
    BY <1>2, <1>4, AddsRow DEF IsNewest
  <2>3. QED
    BY <1>4, <2>1, <2>2 DEF Inv, RegistryInv, ActiveIsNewest
<1>9. OnlyRetiredAreReplaced' /\ ReplacementsAreAcyclic'
  BY <1>1, <1>3, <1>4 DEF Inv, RegistryInv, OnlyRetiredAreReplaced, ReplacementsAreAcyclic
<1>10. SilenceIsJustified'
  <2>1. SUFFICES ASSUME v \notin {"BREAKING", "REVIEW_REQUIRED"}, n > 1
                 PROVE  /\ n - 1 \in Published(c)
                        /\ ledger[c][n - 1] \in Interfaces
                        /\ \E d \in Declarations :
                             Verdict(ledger[c][n - 1], s, d) = "NON_BREAKING"
    BY <1>1, <1>2, AddsJustified
  <2>2. v = "NON_BREAKING"
    BY <2>1 DEF Verdicts
  <2>3. n - 1 \in Revisions
    BY <2>1, RegistryAssumption DEF Revisions
  <2>4. n - 1 \in Published(c)
    BY <2>1, <2>2, <2>3 DEF Published
  <2>5. QED
    BY <1>1, <2>1, <2>2, <2>4 DEF Inv, RegistryInv, LedgerFollowsLife
<1>11. QED
  BY <1>5, <1>6, <1>7, <1>8, <1>9, <1>10 DEF Inv, RegistryInv

LEMMA PublishStep ==
  ASSUME Inv, NEW c \in Contracts, NEW d \in Declared, NEW s \in SchemasOf[c],
         PublishFirst(c, s, d) \/ \E n \in Revisions : PublishNext(c, n, s, d)
  PROVE  Inv'
<1>1. d \in Declarations
  BY RegistryAssumption
<1>2. CASE PublishFirst(c, s, d)
  <2>1. 1 \in Revisions
    BY RegistryAssumption DEF Revisions
  <2>2. (IF d = "NONE" THEN "NON_BREAKING" ELSE d) \in Verdicts
    BY <1>1 DEF Declarations, Verdicts
  <2>3. QED
    BY <1>2, <2>1, <2>2, AppendStep DEF PublishFirst
<1>3. ASSUME NEW n \in Revisions, PublishNext(c, n, s, d) PROVE Inv'
  <2>1. VerdictOf(c, n, s, d) \in Verdicts
    BY DEF VerdictOf, Verdict, Verdicts
  <2>2. VerdictOf(c, n, s, d) = "NON_BREAKING" =>
          /\ ledger[c][n - 1] # NoRow
          /\ Verdict(ledger[c][n - 1], s, d) = "NON_BREAKING"
    BY DEF VerdictOf
  <2>3. MayPublish(c, n, s) /\ Append(c, n, s, VerdictOf(c, n, s, d))
    BY <1>3 DEF PublishNext
  <2> HIDE DEF VerdictOf
  <2>4. QED
    BY <1>1, <2>1, <2>2, <2>3, AppendStep
<1>4. QED
  BY <1>2, <1>3

LEMMA RetireStep ==
  ASSUME Inv, NEW c \in Contracts, NEW r \in Contracts \cup {NoContract}, Retire(c, r)
  PROVE  Inv'
<1> DEFINE n == Max(Published(c)) + 1
<1>1. /\ lifecycle[c] = "ACTIVE" /\ (r # NoContract => r # c /\ lifecycle[r] = "ACTIVE")
      /\ lifecycle' = [lifecycle EXCEPT ![c] = "RETIRED"]
      /\ ledger' = [ledger EXCEPT ![c][n] = Tombstone]
      /\ active' = [active EXCEPT ![c] = {}]
      /\ replacement' = [replacement EXCEPT ![c] = r]
      /\ verdicts' = [verdicts EXCEPT ![c][n] = @ \cup {"BREAKING"}]
      /\ CreateWork(c, n, "BREAKING")
      /\ UNCHANGED <<inventories, deps, bound>>
  BY DEF Retire, MayRetire, MayReplace, bindingVars
<1>2. /\ Published(c) # {} /\ Published(c) \in SUBSET Revisions
      /\ \A m \in Published(c) : m <= MaxRevision[c] /\ ledger[c][m] \in Interfaces
  BY <1>1 DEF Inv, RegistryInv, LedgerFollowsLife, Published
<1>3. Max(Published(c)) \in Published(c) /\ \A m \in Published(c) : m <= Max(Published(c))
  BY <1>2, RevisionMax
<1>4. /\ n \in Revisions /\ n > 1 /\ n \notin Published(c)
      /\ \A m \in Published(c) : m < n
  <2>1. /\ Max(Published(c)) \in Revisions /\ Max(Published(c)) <= MaxRevision[c]
        /\ MaxRevision[c] \in 0..LastRevision /\ LastRevision \in Nat
        /\ \A m \in Published(c) : m \in Int
    BY <1>2, <1>3, RegistryAssumption DEF Revisions
  <2>2. n \in Revisions /\ n > 1
    BY <2>1 DEF Revisions
  <2>3. \A m \in Published(c) : m < n
    BY <1>3, <2>1 DEF Revisions
  <2>4. QED
    BY <2>1, <2>2, <2>3 DEF Revisions
<1> HIDE DEF n
<1>5. Adds(c, n, Tombstone, "BREAKING")
  BY <1>1, <1>4, RegistryAssumption DEF Adds, Published
<1>6. /\ lifecycle'[c] = "RETIRED" /\ active'[c] = {} /\ replacement'[c] = r
      /\ \A d \in Contracts \ {c} :
           /\ lifecycle'[d] = lifecycle[d] /\ active'[d] = active[d]
           /\ replacement'[d] = replacement[d]
  BY <1>1 DEF Inv, RegistryTypeOK
<1>7. work' \subseteq Contracts \X Revisions \X Revisions /\ RowsAreRecorded'
  BY <1>1, <1>4, <1>5, AddsRows
<1>8. RegistryTypeOK'
  <2>1. ledger' \in [Contracts -> [Revisions -> Interfaces \cup {NoRow, Tombstone}]]
    BY <1>5 DEF Inv, RegistryTypeOK, Adds
  <2>2. verdicts' \in [Contracts -> [Revisions -> SUBSET Verdicts]]
    BY <1>5 DEF Inv, RegistryTypeOK, Adds, Verdicts
  <2>3. /\ active' \in [Contracts -> SUBSET Revisions]
        /\ lifecycle' \in [Contracts -> {"UNKNOWN", "ACTIVE", "RETIRED"}]
        /\ replacement' \in [Contracts -> Contracts \cup {NoContract}]
    BY <1>1 DEF Inv, RegistryTypeOK
  <2>4. QED
    BY <1>1, <1>7, <2>1, <2>2, <2>3 DEF Inv, RegistryTypeOK
<1>9. ASSUME NEW d \in Contracts \ {c}
      PROVE  /\ Published(d)' = Published(d) /\ ledger'[d] = ledger[d]
             /\ \A m : IsNewest(d, m)' <=> IsNewest(d, m)
  BY <1>4, <1>5, AddsRow DEF IsNewest
<1>10. LedgerFollowsLife'
  BY <1>6, <1>9 DEF Inv, RegistryInv, LedgerFollowsLife
<1>11. ASSUME NEW m \in Published(c)'
       PROVE  ledger'[c][m] = Tombstone <=> IsNewest(c, m)'
  <2>1. Published(c)' = Published(c) \cup {n} /\ ledger'[c][n] = Tombstone
        /\ \A k \in Published(c) : ledger'[c][k] = ledger[c][k]
    BY <1>4, <1>5, AddsRow
  <2>2. n \in Int
    BY <1>4 DEF Revisions
  <2>3. CASE m = n
    BY <1>4, <2>1, <2>2, <2>3 DEF IsNewest
  <2>4. CASE m # n
    <3>1. m \in Published(c) /\ m < n /\ m \in Int
      BY <1>2, <1>4, <2>1, <2>4 DEF Revisions
    <3>2. ledger'[c][m] # Tombstone
      BY <1>2, <2>1, <3>1, RegistryAssumption
    <3>3. ~(n <= m)
      BY <2>2, <3>1
    <3>4. ~IsNewest(c, m)'
      BY <2>1, <3>3 DEF IsNewest
    <3>5. QED
      BY <3>2, <3>4
  <2>5. QED
    BY <2>3, <2>4
<1>12. ActiveIsNewest'
  BY <1>6, <1>9, <1>11 DEF Inv, RegistryInv, ActiveIsNewest
<1>13. OnlyRetiredAreReplaced'
  BY <1>6 DEF Inv, RegistryInv, OnlyRetiredAreReplaced
<1>14. ReplacementsAreAcyclic'
  <2>1. SUFFICES ASSUME NEW S \in (SUBSET Contracts) \ {{}}
                 PROVE  \E d \in S : replacement'[d] \notin S
    BY DEF ReplacementsAreAcyclic
  <2>2. CASE c \notin S
    BY <1>6, <2>2 DEF Inv, RegistryInv, ReplacementsAreAcyclic
  <2>3. CASE c \in S /\ r \notin S
    BY <1>6, <2>3
  <2>4. CASE c \in S /\ r \in S
    <3>1. r \in Contracts \ {c} /\ lifecycle[r] = "ACTIVE"
      BY <1>1, <2>4, RegistryAssumption
    <3>2. replacement'[r] = NoContract
      BY <1>6, <3>1 DEF Inv, RegistryInv, OnlyRetiredAreReplaced
    <3>3. QED
      BY <2>4, <3>2, RegistryAssumption
  <2>5. QED
    BY <2>2, <2>3, <2>4
<1>15. SilenceIsJustified'
  BY <1>4, <1>5, AddsJustified
<1>16. QED
  BY <1>7, <1>8, <1>10, <1>12, <1>13, <1>14, <1>15 DEF Inv, RegistryInv

LEMMA InventoryStep ==
  ASSUME Inv, NEW k \in Commits, NEW keys \in SUBSET Contracts, Inventory(k, keys)
  PROVE  Inv'
<1>1. /\ UNCHANGED <<lifecycle, ledger, active, replacement, work, deps, bound>>
      /\ inventories' = inventories \cup {<<k, keys>>}
  BY DEF Inventory, bindingVars
<1>2. /\ verdicts' \in [Contracts -> [Revisions -> SUBSET Verdicts]]
      /\ \A c \in Contracts : \A n \in Revisions : verdicts[c][n] \subseteq verdicts'[c][n]
  <2> DEFINE more(c, n) == IF /\ c \notin keys /\ lifecycle[c] = "ACTIVE"
                              /\ Published(c) # {} /\ n = Max(Published(c))
                           THEN {"REVIEW_REQUIRED"} ELSE {}
  <2>1. verdicts' = [c \in Contracts |-> [n \in Revisions |-> verdicts[c][n] \cup more(c, n)]]
    BY DEF Inventory
  <2>2. \A c, n : more(c, n) \in SUBSET Verdicts
    BY DEF Verdicts
  <2>3. \A c \in Contracts : \A n \in Revisions : verdicts[c][n] \in SUBSET Verdicts
    BY DEF Inv, RegistryTypeOK
  <2> HIDE DEF more
  <2>4. QED
    BY <2>1, <2>2, <2>3
<1>3. RegistryTypeOK'
  BY <1>1, <1>2 DEF Inv, RegistryTypeOK
<1>4. \A c : Published(c)' = Published(c) /\ \A n : IsNewest(c, n)' <=> IsNewest(c, n)
  BY <1>1 DEF Published, IsNewest
<1>5. SilenceIsJustified'
  <2>1. ASSUME NEW c \in Contracts, NEW n \in Published(c), Interventions(c, n)' = {}
        PROVE  Interventions(c, n) = {}
    BY <1>2, <2>1 DEF Interventions, Published
  <2>2. QED
    BY <1>1, <1>4, <2>1 DEF Inv, RegistryInv, SilenceIsJustified
<1>6. QED
  BY <1>1, <1>3, <1>4, <1>5
     DEF Inv, RegistryInv, LedgerFollowsLife, ActiveIsNewest, OnlyRetiredAreReplaced,
         ReplacementsAreAcyclic, RowsAreRecorded

\* Steps on dependency rows: the registry stands still.
LEMMA RowStep ==
  ASSUME Inv, UNCHANGED <<registryVars, inventories, work>>,
         deps' \in [Contracts -> [Revisions -> Confirmations]],
         bound' \subseteq Contracts \X Revisions,
         \A c \in Contracts, n \in Revisions : deps'[c][n] # "NONE" => n \in Published(c),
         \A row \in bound' : deps'[row[1]][row[2]] = "CONFIRMED"
  PROVE  Inv'
<1>1. UNCHANGED <<lifecycle, ledger, active, replacement, verdicts, inventories, work>>
  BY DEF registryVars
<1>2. \A c : /\ Published(c)' = Published(c)
             /\ \A n : /\ IsNewest(c, n)' <=> IsNewest(c, n)
                       /\ Interventions(c, n)' = Interventions(c, n)
  BY <1>1 DEF Published, IsNewest, Interventions
<1>3. RegistryTypeOK'
  BY <1>1 DEF Inv, RegistryTypeOK
<1>4. RegistryInv'
  BY <1>1, <1>2 DEF Inv, RegistryInv, LedgerFollowsLife, ActiveIsNewest,
     OnlyRetiredAreReplaced, ReplacementsAreAcyclic, SilenceIsJustified
<1>5. RowsAreRecorded'
  BY <1>1, <1>2 DEF Inv, RowsAreRecorded
<1>6. QED
  BY <1>3, <1>4, <1>5 DEF Inv

\* A row written for a known revision is of a published one.
LEMMA WrittenRow ==
  ASSUME Inv, NEW c \in Contracts, NEW n \in Published(c), NEW s \in Confirmations,
         deps' = [deps EXCEPT ![c][n] = s]
  PROVE  /\ deps' \in [Contracts -> [Revisions -> Confirmations]] /\ deps'[c][n] = s
         /\ \A d \in Contracts, m \in Revisions : deps'[d][m] # "NONE" => m \in Published(d)
         /\ \A d \in Contracts, m \in Revisions :
              <<d, m>> # <<c, n>> => deps'[d][m] = deps[d][m]
<1>1. deps \in [Contracts -> [Revisions -> Confirmations]] /\ n \in Revisions
  BY DEF Inv, RegistryTypeOK, Published
<1>2. deps' = [deps EXCEPT ![c] = [deps[c] EXCEPT ![n] = s]]
  OBVIOUS
<1>3. /\ deps'[c] = [deps[c] EXCEPT ![n] = s]
      /\ \A d \in Contracts \ {c} : deps'[d] = deps[d]
  BY <1>1, <1>2
<1>4. deps'[c][n] = s /\ \A m \in Revisions \ {n} : deps'[c][m] = deps[c][m]
  BY <1>1, <1>3
<1>5. deps' \in [Contracts -> [Revisions -> Confirmations]]
  BY <1>1
<1>6. \A d \in Contracts, m \in Revisions : <<d, m>> # <<c, n>> => deps'[d][m] = deps[d][m]
  BY <1>3, <1>4
<1>7. QED
  BY <1>4, <1>5, <1>6 DEF Inv, RowsAreRecorded

\* A confirmed row of a published revision, to which tasks may be bound.
LEMMA ConfirmStep ==
  ASSUME Inv, NEW c \in Contracts, NEW n \in Published(c),
         deps' = [deps EXCEPT ![c][n] = "CONFIRMED"],
         bound' \subseteq bound \cup {<<c, n>>},
         UNCHANGED <<registryVars, inventories, work>>
  PROVE  Inv'
<1>1. "CONFIRMED" \in Confirmations /\ n \in Revisions
  BY DEF Confirmations, Published
<1>2. bound \subseteq Contracts \X Revisions
  BY DEF Inv, RegistryTypeOK
<1>3. bound' \subseteq Contracts \X Revisions
  BY <1>1, <1>2
<1>4. ASSUME NEW row \in bound' PROVE deps'[row[1]][row[2]] = "CONFIRMED"
  <2>1. row[1] \in Contracts /\ row[2] \in Revisions /\ row = <<row[1], row[2]>>
    BY <1>3
  <2>2. CASE row = <<c, n>>
    <3>1. row[1] = c /\ row[2] = n
      BY <2>2
    <3>2. QED
      BY <1>1, <3>1, WrittenRow
  <2>3. CASE row # <<c, n>>
    <3>1. deps[row[1]][row[2]] = "CONFIRMED"
      BY <2>3 DEF Inv, RowsAreRecorded
    <3>2. deps'[row[1]][row[2]] = deps[row[1]][row[2]]
      BY <1>1, <2>1, <2>3, WrittenRow
    <3>3. QED
      BY <3>1, <3>2
  <2>4. QED
    BY <2>2, <2>3
<1>5. /\ deps' \in [Contracts -> [Revisions -> Confirmations]]
      /\ \A d \in Contracts, m \in Revisions : deps'[d][m] # "NONE" => m \in Published(d)
  BY <1>1, WrittenRow
<1>6. QED
  BY <1>3, <1>4, <1>5, RowStep

LEMMA DependencyStep ==
  ASSUME Inv, NEW c \in Contracts, NEW n \in Revisions, NEW sends,
         \/ BindExisting(c, n)
         \/ \E status \in Confirmations \ {"NONE"} : Register(c, n, status, sends)
         \/ ConfirmDiscovered(c, n, sends)
  PROVE  Inv'
<1>1. CASE BindExisting(c, n)
  <2>1. /\ deps[c][n] = "CONFIRMED" /\ bound' = bound \cup {<<c, n>>}
        /\ UNCHANGED <<registryVars, inventories, work, deps>>
    BY <1>1 DEF BindExisting
  <2>2. n \in Published(c)
    BY <2>1 DEF Inv, RowsAreRecorded
  <2>3. deps' = [deps EXCEPT ![c][n] = "CONFIRMED"]
    BY <2>1 DEF Inv, RegistryTypeOK
  <2>4. QED
    BY <2>1, <2>2, <2>3, ConfirmStep
<1>2. ASSUME NEW status \in Confirmations, Register(c, n, status, sends) PROVE Inv'
  <2>1. /\ ledger[c][n] # NoRow /\ deps' = [deps EXCEPT ![c][n] = status]
        /\ deps'[c][n] = "CONFIRMED" /\ bound' = bound \cup {<<c, n>>}
        /\ UNCHANGED <<registryVars, inventories, work>>
    BY <1>2 DEF Register, Persist, Persistable
  <2>2. n \in Published(c)
    BY <2>1 DEF Published
  <2>3. status = "CONFIRMED"
    BY <2>1, <2>2, WrittenRow
  <2>4. QED
    BY <2>1, <2>2, <2>3, ConfirmStep
<1>3. CASE ConfirmDiscovered(c, n, sends)
  <2>1. /\ ledger[c][n] # NoRow /\ deps' = [deps EXCEPT ![c][n] = "CONFIRMED"]
        /\ UNCHANGED <<registryVars, inventories, work, bound>>
    BY <1>3 DEF ConfirmDiscovered, Persist, Persistable
  <2>2. n \in Published(c)
    BY <2>1 DEF Published
  <2>3. QED
    BY <2>1, <2>2, ConfirmStep
<1>4. QED
  BY <1>1, <1>2, <1>3

LEMMA ApproveStep ==
  ASSUME Inv, NEW item \in work, NEW moves \in BOOLEAN, NEW alone \in BOOLEAN,
         Approve(item, moves, alone)
  PROVE  Inv'
<1>1. item[1] \in Contracts /\ item[2] \in Published(item[1])
  BY DEF Inv, RegistryTypeOK, RowsAreRecorded
<1>2. /\ deps' = [deps EXCEPT ![item[1]][item[2]] = "CONFIRMED"]
      /\ bound' \subseteq bound \cup {<<item[1], item[2]>>}
      /\ UNCHANGED <<registryVars, inventories, work>>
  BY DEF Approve
<1>3. QED
  BY <1>1, <1>2, ConfirmStep

LEMMA NextInv == Inv /\ [Next]_vars => Inv'
<1> SUFFICES ASSUME Inv, [Next]_vars PROVE Inv'
  OBVIOUS
<1>1. CASE \E c \in Contracts, d \in Declared : \E s \in SchemasOf[c] :
             PublishFirst(c, s, d) \/ \E n \in Revisions : PublishNext(c, n, s, d)
  BY <1>1, PublishStep
<1>2. CASE \E c \in Contracts, r \in Contracts \cup {NoContract} : Retire(c, r)
  BY <1>2, RetireStep
<1>3. CASE \E k \in Commits, keys \in SUBSET Contracts : Inventory(k, keys)
  BY <1>3, InventoryStep
<1>4. CASE \E c \in Contracts, n \in Revisions : <<c, n>> \in Consumed /\
             \/ BindExisting(c, n)
             \/ \E sends \in SUBSET (Names \ Params) :
                  \/ \E status \in Confirmations \ {"NONE"} : Register(c, n, status, sends)
                  \/ ConfirmDiscovered(c, n, sends)
  BY <1>4, DependencyStep
<1>5. CASE \E item \in work, moves, alone \in BOOLEAN : Approve(item, moves, alone)
  BY <1>5, ApproveStep
<1>6. CASE UNCHANGED vars
  <2>1. UNCHANGED <<registryVars, inventories, work, deps, bound>>
    BY <1>6 DEF vars, registryVars
  <2>2. QED
    BY <2>1, RowStep DEF Inv, RegistryTypeOK, RowsAreRecorded
<1>7. QED
  BY <1>1, <1>2, <1>3, <1>4, <1>5, <1>6 DEF Next

LEMMA Invariance == Spec => []Inv
BY InitInv, NextInv, PTL DEF Spec

-----------------------------------------------------------------------------
(* What the invariant is worth. *)

\* The first revision after k that refuses one of k's calls carries a warning.
LEMMA FirstRefusalWarns ==
  ASSUME Inv, NEW c \in Contracts, NEW k \in Published(c), NEW m \in Published(c),
         k < m, RefusesCallersOf(c, k, m),
         \A j \in Published(c) : k < j /\ j < m => ~RefusesCallersOf(c, k, j)
  PROVE  Interventions(c, m) # {} \/ MaskedStep(c, m)
<1> SUFFICES ASSUME Interventions(c, m) = {} PROVE MaskedStep(c, m)
  OBVIOUS
<1> DEFINE before == ledger[c][m - 1]
           after  == ledger[c][m]
<1>1. k \in Nat /\ m \in Nat /\ k >= 1 /\ m > 1
  BY RegistryAssumption DEF Published, Revisions
<1>2. /\ m - 1 \in Published(c) /\ before \in Interfaces /\ after \in Interfaces
      /\ \E d \in Declarations : Verdict(before, after, d) = "NON_BREAKING"
  BY <1>1 DEF Inv, RegistryInv, SilenceIsJustified
<1>3. ledger[c][k] # Tombstone /\ Breaks(ledger[c][k], after)
  BY <1>2, RegistryAssumption DEF RefusesCallersOf
<1>4. PICK call \in Calls : Serves(ledger[c][k], call) /\ ~Serves(after, call)
  BY <1>3 DEF Breaks
<1>5. Serves(before, call)
  <2>1. CASE m - 1 = k
    BY <1>4, <2>1
  <2>2. CASE k < m - 1
    <3>1. ~RefusesCallersOf(c, k, m - 1)
      BY <1>1, <1>2, <2>2
    <3>2. ~Breaks(ledger[c][k], before)
      BY <1>3, <3>1 DEF RefusesCallersOf
    <3>3. QED
      BY <1>4, <3>2 DEF Breaks
  <2>3. QED
    BY <1>1, <2>1, <2>2
<1>6. Breaks(before, after)
  BY <1>4, <1>5 DEF Breaks
<1>7. Masked(before, after)
  BY <1>2, <1>6, SafeVerdictsAreSafe
<1>8. QED
  BY <1>1, <1>2, <1>7 DEF MaskedStep

LEMMA InvWarns == Inv => CallersAreWarned
<1> SUFFICES ASSUME Inv, NEW c \in Contracts, NEW k \in Published(c), NEW n \in Published(c),
                    k < n, RefusesCallersOf(c, k, n)
             PROVE  \E m \in (k + 1)..n : Interventions(c, m) # {} \/ MaskedStep(c, m)
  BY DEF CallersAreWarned
<1> DEFINE S == { m \in Published(c) : k < m /\ RefusesCallersOf(c, k, m) }
<1>1. Published(c) \subseteq Nat
  BY RegistryAssumption DEF Published, Revisions
<1>2. S \in SUBSET Nat /\ n \in S
  BY <1>1
<1>3. PICK m \in S : \A j \in S : m <= j
  BY <1>2, NatMin
<1>4. m \in (k + 1)..n
  BY <1>1, <1>2, <1>3
<1>5. \A j \in Published(c) : k < j /\ j < m => ~RefusesCallersOf(c, k, j)
  <2>1. SUFFICES ASSUME NEW j \in Published(c), k < j, j < m, RefusesCallersOf(c, k, j)
                 PROVE  FALSE
    OBVIOUS
  <2>2. m <= j
    BY <1>3, <2>1
  <2>3. QED
    BY <1>1, <2>1, <2>2
<1>6. Interventions(c, m) # {} \/ MaskedStep(c, m)
  BY <1>3, <1>5, FirstRefusalWarns
<1>7. QED
  BY <1>4, <1>6

LEMMA InvNewest == Inv => NewestIsActive
<1> SUFFICES ASSUME Inv, NEW c \in Contracts
             PROVE  /\ lifecycle[c] = "ACTIVE" => Max(Published(c)) \in active[c]
                    /\ lifecycle[c] = "RETIRED" =>
                         /\ active[c] = {}
                         /\ \A n \in Published(c) :
                              ledger[c][n] = Tombstone <=> n = Max(Published(c))
  BY DEF NewestIsActive
<1>1. Published(c) \in SUBSET Revisions /\ Published(c) \subseteq Int
  BY DEF Published, Revisions
<1>2. ASSUME Published(c) # {}
      PROVE  \A n \in Published(c) : IsNewest(c, n) <=> n = Max(Published(c))
  <2>1. /\ Max(Published(c)) \in Published(c)
        /\ \A m \in Published(c) : m <= Max(Published(c))
    BY <1>1, <1>2, RevisionMax
  <2>2. SUFFICES ASSUME NEW n \in Published(c), IsNewest(c, n)
                 PROVE  n = Max(Published(c))
    BY <2>1 DEF IsNewest
  <2>3. n <= Max(Published(c)) /\ Max(Published(c)) <= n
    BY <2>1, <2>2 DEF IsNewest
  <2>4. QED
    BY <1>1, <2>1, <2>3
<1>3. ASSUME lifecycle[c] = "ACTIVE" PROVE Max(Published(c)) \in active[c]
  <2>1. Published(c) # {}
    BY <1>3 DEF Inv, RegistryInv, LedgerFollowsLife
  <2>2. Max(Published(c)) \in Published(c)
    BY <1>1, <2>1, RevisionMax
  <2>3. QED
    BY <1>2, <1>3, <2>1, <2>2 DEF Inv, RegistryInv, ActiveIsNewest
<1>4. ASSUME lifecycle[c] = "RETIRED"
      PROVE  /\ active[c] = {}
             /\ \A n \in Published(c) : ledger[c][n] = Tombstone <=> n = Max(Published(c))
  BY <1>2, <1>4 DEF Inv, RegistryInv, ActiveIsNewest
<1>5. QED
  BY <1>3, <1>4

LEMMA InvBound == Inv => BoundRowsAreConfirmed
<1> SUFFICES ASSUME Inv, NEW row \in bound
             PROVE  deps[row[1]][row[2]] = "CONFIRMED" /\ ledger[row[1]][row[2]] # NoRow
  BY DEF BoundRowsAreConfirmed
<1>1. row[1] \in Contracts /\ row[2] \in Revisions
  BY DEF Inv, RegistryTypeOK
<1>2. deps[row[1]][row[2]] = "CONFIRMED"
  BY DEF Inv, RowsAreRecorded
<1>3. QED
  BY <1>1, <1>2 DEF Inv, RowsAreRecorded, Published

\* Every reachable state of the registry is well typed.
THEOREM TypeSafety == Spec => []RegistryTypeOK
BY Invariance, PTL DEF Inv

\* publish_contract_revision: in whatever order and with whatever gaps revisions
\* are published, a consumer of one is warned before a later one refuses its
\* calls, unless the change is one that an optional addition masks.
THEOREM Warned == Spec => []CallersAreWarned
BY Invariance, InvWarns, PTL

\* A late lower revision never displaces the newest, and retirement leaves one
\* tombstone, the newest revision, and nothing active.
THEOREM NewestActive == Spec => []NewestIsActive
BY Invariance, InvNewest, PTL

\* retire_contract: no chain of replacements ever closes on itself.
THEOREM AcyclicReplacement == Spec => []ReplacementsAreAcyclic
BY Invariance, PTL DEF Inv, RegistryInv

\* create_agent_task, persist_http_interface_dependency, approvals: the row a
\* task is bound to stays confirmed and names a published revision.
THEOREM BoundRows == Spec => []BoundRowsAreConfirmed
BY Invariance, InvBound, PTL
=============================================================================
