-------------------------- MODULE MCKnowledgeContext --------------------------
(***************************************************************************)
(* A small instance of KnowledgeContext: a glossary that defines a term    *)
(* and its concept, a note bound by an asset, and two installations, of    *)
(* which only one has the note.                                            *)
(***************************************************************************)
EXTENDS KnowledgeContext, TLC

CONSTANTS root, glossary, note, one, two, org, other, project, key, k1, k2, alice

Entry(type, component, token, concept, priority) ==
  [type |-> type, component |-> component, tokens |-> {token}, concept |-> concept,
   priority |-> priority, times |-> {"now"}, purposes |-> {"answer"}]

TermEntry == Entry("TERM", glossary, "term", "concept", 0)
ConceptEntry == Entry("CONCEPT", glossary, "concept", "concept", 0)
NoteEntry == Entry("KNOWLEDGE", note, "note", None, 0)

MCEntries == {TermEntry, ConceptEntry, NoteEntry}
MCPosition == (ConceptEntry :> 1) @@ (TermEntry :> 2) @@ (NoteEntry :> 3)
MCLength(entries) == Cardinality(entries)

MCContextRequests ==
  {[asks |-> {[type |-> "TERM", token |-> "term"], [type |-> "KNOWLEDGE", token |-> "note"]},
    purpose |-> "answer", time |-> "now", items |-> 2, chars |-> 3]}
MCCandidates == {[ids |-> {"concept"}, cites |-> {NoteEntry}, wrongEnds |-> FALSE]}

MCOwner == [pv \in PackageVersions |-> Platform]
MCOrganizationOf == [p \in Projects |-> org]
Disabled(refs) ==
  [organization |-> org, root |-> root, refs |-> refs, state |-> "INSTALLED_DISABLED"]
MCInstalled == (one :> Disabled({root})) @@ (two :> Disabled({root, glossary, note}))

MCActorOf == [k \in Keys |-> alice]
MCSelected == [p \in Projects |-> <<two>>]
MCKeysFor == [operation \in Operations |->
  CASE operation \in {<<"context", "compile">>, <<"semantic-payload", "withdraw">>} -> {k1, k2}
    [] operation = <<"knowledge-version", "withdraw">> -> {}
    [] OTHER -> {key}]
MCGoverned == {<<glossary, "WITHDRAWN">>, <<two, "DISABLED">>}
MCComparisons == {<<glossary, glossary>>}
MCAudited == {<<"semantic-payload", "withdraw">>}

Symmetry == Permutations(Handlers) \cup Permutations({k1, k2})
===============================================================================
