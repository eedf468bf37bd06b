----------------------------- MODULE MCEditing ------------------------------
EXTENDS EditorDrafts, TLC

\* Tabs, requests, panels and titles are interchangeable.
Symmetry == Permutations(Tabs) \union Permutations(Requests) \union Permutations(Panels) \union Permutations(Titles)

\* Bound: one page is on its way at a time.
OnePage == Cardinality({t \in Tabs : page[t] # None}) <= 1
=============================================================================
