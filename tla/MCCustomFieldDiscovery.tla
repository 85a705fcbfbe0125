---------------------- MODULE MCCustomFieldDiscovery ----------------------
(***************************************************************************)
(* Small instances of CustomFieldDiscovery for TLC: fields 1 and 2, whose  *)
(* names slugify alike or give the fallback key of the other one.          *)
(***************************************************************************)
EXTENDS CustomFieldDiscovery

Word == 0    \* "field"
Other == 9
Def(id, slug) == [id |-> id, slug |-> slug]

(* Two named alike, and a third one added; field 2 named "field 1". *)
Alike == <<Def(1, <<Other>>), Def(2, <<Other>>)>>
SomeCatalogs == {Alike, Append(Alike, Def(3, <<Word, 1>>)), <<Def(2, <<Word, 1>>)>>}

(* Pages as requested, in answers that report no limit, and pages of one   *)
(* definition in answers that report the limit requested.                  *)
SomePagings == {[size |-> 2, limit |-> 0], [size |-> 1, limit |-> 2]}

(* Both fields, or none: one that has an entity before the other is what an *)
(* unload leaves that registers a part of those pending, or a deletion.     *)
SomeCollections == {<<>>, <<2, 1>>}
=============================================================================
