---------------------------- MODULE Differencer ----------------------------
(***************************************************************************)
(* coordinator/differencer.py: what the coordinator says of a revision of  *)
(* an HTTP contract, given the revision before it.  compute_schema_diff is *)
(* a pure function, so this module has no variables: Verdict is what the   *)
(* code answers and Breaks is what it is for, whether some call that the   *)
(* old revision serves is refused by the new one.                          *)
(*                                                                         *)
(* The interface of an operation is abstracted to its named inputs         *)
(* (parameters, headers and flattened body fields), its response statuses  *)
(* and its security requirements.  What a response body holds is left out. *)
(***************************************************************************)
EXTENDS Integers, FiniteSets

CONSTANTS
  Names,     \* parameters, headers and body fields, by their flattened path
  Params,    \* those that are parameters or headers
  Types,     \* type signatures
  Values,    \* values a field may take, for every type
  Floors,    \* lower bounds; 0 stands for no bound
  Statuses,  \* response status codes
  Grants,    \* security schemes, and scopes of a scheme
  Absent     \* the name is not in the interface or the call

ASSUME InterfaceAssumption ==
  /\ Params \subseteq Names
  /\ Values \subseteq Nat /\ Floors \subseteq Nat /\ 0 \in Floors

Fields ==
  [required : BOOLEAN, type : Types,
   closed : BOOLEAN,          \* the property has an "enum" list
   enum : SUBSET Values,      \* its members
   floor : Floors]            \* minimum, minLength, ...: any lower bound

\* A security requirement is met by a caller that holds all its grants; the
\* alternatives of an operation are a set of requirements, {} for none.
Interfaces ==
  [fields : [Names -> Fields \cup {Absent}],
   statuses : SUBSET Statuses,
   security : SUBSET (SUBSET Grants)]

Declarations == {"NONE", "NON_BREAKING", "REVIEW_REQUIRED", "BREAKING"}

Verdicts == {"NON_BREAKING", "REVIEW_REQUIRED", "BREAKING"}

-----------------------------------------------------------------------------
(* The rules. *)

Has(s, x) == s.fields[x] # Absent

Kept(old, new)    == { x \in Names : Has(old, x) /\ Has(new, x) }
Removed(old, new) == { x \in Names : Has(old, x) /\ ~Has(new, x) }
Added(old, new)   == { x \in Names : ~Has(old, x) /\ Has(new, x) }

\* Type, enum and required: the rules parameters and body fields share.
InputBreaks(f, g) ==
  \/ f.type # g.type
  \/ f.closed /\ g.closed /\ ~(f.enum \subseteq g.enum)
  \/ ~f.required /\ g.required

\* A parameter's schema has no properties, so the loop that compares bounds
\* never sees it: there any other difference is an unstructured change.
SchemaOf(f) == <<f.type, f.closed, f.enum, f.floor>>

FieldBreaks(f, g) == InputBreaks(f, g) \/ g.floor > f.floor

\* _security_tightened: every new alternative asks for strictly more than some
\* old one.
Tightened(old, new) ==
  IF old = {} \/ new = {} THEN old = {} /\ new # {}
  ELSE \A r \in new : \E q \in old : q \subseteq r /\ q # r

Breaking(old, new) ==
  \/ \E x \in Kept(old, new) :
       IF x \in Params THEN InputBreaks(old.fields[x], new.fields[x])
                       ELSE FieldBreaks(old.fields[x], new.fields[x])
  \/ \E x \in Removed(old, new) : x \notin Params \/ old.fields[x].required
  \/ \E x \in Added(old, new) : new.fields[x].required
  \/ ~(old.statuses \subseteq new.statuses)
  \/ Tightened(old.security, new.security)

Uncertain(old, new) ==
  \/ \E x \in Removed(old, new) \cap Params : ~old.fields[x].required
  \/ \E x \in Kept(old, new) \cap Params :
       SchemaOf(old.fields[x]) # SchemaOf(new.fields[x])

OptionalAdded(old, new) == \E x \in Added(old, new) : ~new.fields[x].required

\* "Contract changed without a recognized deterministic compatibility rule".
\* The other conjuncts of the exemption hold when nothing is breaking.
Unrecognised(old, new) == old # new /\ ~OptionalAdded(old, new)

\* compute_schema_diff, with the classification the publisher declared.  A
\* declaration can raise the verdict and never lower it.
Verdict(old, new, declared) ==
  IF Breaking(old, new) \/ declared = "BREAKING" THEN "BREAKING"
  ELSE IF \/ Uncertain(old, new) \/ Unrecognised(old, new)
          \/ declared = "REVIEW_REQUIRED"
       THEN "REVIEW_REQUIRED"
       ELSE "NON_BREAKING"

-----------------------------------------------------------------------------
(* What the verdict is for. *)

Inputs == [type : Types, value : Values]

Calls ==
  [sent : [Names -> Inputs \cup {Absent}],
   grants : SUBSET Grants,    \* what the caller's credentials allow
   expects : Statuses]        \* a status its code handles

Takes(f, v) ==
  /\ v.type = f.type /\ v.value >= f.floor
  /\ f.closed => v.value \in f.enum

Accepts(s, sent) ==
  \A x \in Names :
    /\ sent[x] # Absent => Has(s, x) /\ Takes(s.fields[x], sent[x])
    /\ sent[x] = Absent => ~(Has(s, x) /\ s.fields[x].required)

Admits(s, grants) == s.security = {} \/ \E r \in s.security : r \subseteq grants

Serves(s, call) ==
  /\ Accepts(s, call.sent) /\ Admits(s, call.grants)
  /\ call.expects \in s.statuses

Breaks(old, new) == \E call \in Calls : Serves(old, call) /\ ~Serves(new, call)

\* The changes an optional addition hides: an enum put on a field that had
\* none, and security alternatives replaced rather than tightened.
Masked(old, new) ==
  /\ OptionalAdded(old, new)
  /\ \/ \E x \in Kept(old, new) \ Params :
          new.fields[x].closed /\ ~old.fields[x].closed
     \/ old.security # new.security
=============================================================================
