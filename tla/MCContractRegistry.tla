------------------------- MODULE MCContractRegistry -------------------------
(* A small registry: one contract with varied revisions, others to replace it. *)
EXTENDS ContractRegistry

CONSTANTS c1, c2

Field(required, closed, enum, floor) ==
  [required |-> required, type |-> "int", closed |-> closed,
   enum |-> enum, floor |-> floor]

Interface(q, b, statuses, security) ==
  [fields |-> [x \in Names |-> IF x = "q" THEN q ELSE b],
   statuses |-> statuses, security |-> security]

Open == Field(TRUE, FALSE, {}, 0)
Plain == Interface(Absent, Open, {200}, {})

MCSchemas ==
  { Plain,
    Interface(Absent, Field(TRUE, FALSE, {}, 1), {200}, {}),  \* a bound raised
    Interface(Field(FALSE, FALSE, {}, 0), Field(TRUE, TRUE, {1}, 0), {200}, {}) }
                                    \* an option more, and an enum it masks

\* All that revisions of one contract may look like.
AllSchemas ==
  { Interface(q, b, {200}, security) :
      q \in {Absent, Field(FALSE, FALSE, {}, 0), Field(TRUE, FALSE, {}, 0)},
      b \in {Absent, Open, Field(FALSE, FALSE, {}, 0), Field(TRUE, TRUE, {0, 1}, 0),
             Field(TRUE, TRUE, {1}, 0), Field(TRUE, FALSE, {}, 1)},
      security \in {{}, {{"key"}}, {{"token"}}} }

Bounds(n) == [c \in Contracts |-> IF c = c1 THEN n ELSE 1]
ThreeRevisions == Bounds(3)
TwoRevisions == Bounds(2)

\* Tasks are written against the first two revisions of c1.
EarlyRows == {c1} \X (1..2)

Varied == [c \in Contracts |-> IF c = c1 THEN MCSchemas ELSE {Plain}]
Any == [c \in Contracts |-> AllSchemas]
=============================================================================
