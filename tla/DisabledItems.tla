---------------------------- MODULE DisabledItems ----------------------------
(***************************************************************************)
(* For whom an item is disabled (asab/library/service.py, check_disabled()). *)
(* One item stands for all, in one directory below the root.  An entry of  *)
(* the list is for the item or for a directory above it, and names the     *)
(* tenants, or everybody.                                                  *)
(***************************************************************************)
EXTENDS Sequences, SequencesExt

CONSTANTS
  Owner,        \* the tenant that has items of its own
  Everybody,    \* "*"
  None          \* no tenant, or no credentials, in the context

Item == <<"directory", "item">>
Entries == {<<>>, <<"directory">>, Item}     \* all but the last end with a slash
Lists == [Entries -> SUBSET {Everybody, Owner}]
Empty == [e \in Entries |-> {}]

Means(entry, tenant) == Everybody \in entry \/ tenant \in entry \ {None}

CheckDisabled(list, path, tenant) ==
  \E e \in Entries : (e = path \/ (e # Item /\ IsPrefix(e, path))) /\ Means(list[e], tenant)
=============================================================================
