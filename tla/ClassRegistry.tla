--------------------------- MODULE ClassRegistry ---------------------------
(***************************************************************************)
(* The startup registry of classes, kept sorted by name.  The embedding    *)
(* program offers it definitions in any order before it starts the server; *)
(* sessions only read it.                                                  *)
(***************************************************************************)
EXTENDS Contracts

CONSTANT MaxObjectStateBytes  \* max_object_state_bytes

VARIABLES
  registry, \* class_registry::definitions_
  offered   \* the definitions that are still to be offered

registryVars == <<registry, offered>>

RegistryInit == registry = <<>> /\ offered = Definitions

\* lower_bound and upper_bound: the first entry whose name is not below, or is above.
LowerBound(name) == Cardinality({i \in DOMAIN registry : registry[i].name < name}) + 1
UpperBound(name) == Cardinality({i \in DOMAIN registry : registry[i].name <= name}) + 1

Registered(name) == \E i \in DOMAIN registry : registry[i].name = name

\* class_registry::find, of a registered name.
find(name) == registry[CHOOSE i \in DOMAIN registry : registry[i].name = name]

acceptable(d) ==
  /\ valid_description(d) /\ d.create # "none"
  /\ d.max_state_bytes \in 1..MaxObjectStateBytes
  /\ ~Registered(d.name)

\* definitions_.insert, before position k.
Inserted(k, d) == SubSeq(registry, 1, k - 1) \o <<d>> \o SubSeq(registry, k, Len(registry))

\* class_registry::add; a refusal leaves the registry as it was.
Add(d) ==
  /\ offered' = offered \ {d}
  /\ registry' = IF acceptable(d) /\ Len(registry) < MaxEntries
                 THEN Inserted(LowerBound(d.name), d)
                 ELSE registry

Remaining(after) == Len(registry) - UpperBound(after) + 1

\* class_registry::list, asked for a valid page.
list(after, limit) ==
  LET count == Min({limit, Remaining(after)})
      names == [i \in 1..count |-> registry[UpperBound(after) + i - 1].name]
  IN classes_page(names, IF count < Remaining(after) THEN names[count] ELSE 0)
=============================================================================
