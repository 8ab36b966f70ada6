--------------------------- MODULE LibraryDisabled ---------------------------
(***************************************************************************)
(* The list of disabled items as the library reads it from its upper       *)
(* layer, and whom it tells of what changed (_read_disabled() and          *)
(* _publish_change_for_disabled_diff() of asab/library/service.py).        *)
(*                                                                         *)
(* It is read by the watch of the file, which publishes the changes, and   *)
(* by ticks and when the layer becomes ready, which do not.  A reading     *)
(* remembers the list, awaits the file and compares; another may set the   *)
(* list meanwhile.  One subscription is made, to ZooKeeper or to another   *)
(* provider.                                                               *)
(***************************************************************************)
EXTENDS Naturals, FiniteSets, DisabledItems

CONSTANTS
  Readings,        \* the readings of the list that may run at once
  MaxEntries       \* bound on the entries of a list

VARIABLES
  subscriptions,   \* whether the provider of the upper layer has the attribute Subscriptions
  path, target,    \* what is subscribed to
  disabled,        \* Disabled and DisabledPaths: for whom each entry is
  reading,         \* each reading: whether it publishes, and the list when it began
  knows,           \* history: the list when the subscriber was told last, or in the beginning
  silent           \* history: the list changed since in a way of which nobody is told

disVars == <<subscriptions, path, target, disabled, reading, knows, silent>>

ShortLists == {l \in Lists : Cardinality({e \in Entries : l[e] # {}}) <= MaxEntries}
Targets == {"global", "tenant", "owner"}
NotReading == [at |-> "idle", publish |-> FALSE, old |-> Empty]

TypeOK ==
  /\ subscriptions \in BOOLEAN /\ path \in Entries \ {Item} /\ target \in Targets
  /\ disabled \in Lists /\ knows \in Lists /\ silent \in BOOLEAN
  /\ reading \in [Readings -> [at: {"idle", "await"}, publish: BOOLEAN, old: Lists]]

Init ==
  /\ subscriptions \in BOOLEAN /\ path \in Entries \ {Item} /\ target \in Targets
  /\ disabled = Empty /\ knows = Empty /\ silent = FALSE
  /\ reading = [r \in Readings |-> NotReading]
-----------------------------------------------------------------------------
(* _is_disabled_for_target() and _is_disabled_diff_affecting_path().       *)

\* The sets that are compared for all tenants, and the flag for others.
Flag(entry, t) ==
  CASE t = "tenant" -> entry
    [] t = "global" -> entry \cap {Everybody}
    [] t = "owner"  -> {e \in {Owner} : Means(entry, Owner)}
    [] OTHER        -> {}

\* Mutant of DiffAffects: only the entries of items are compared.
DiffAffectsItems(old, new, p, t) ==
  \E e \in Entries : e = Item /\ Flag(old[e], t) # Flag(new[e], t)

\* Entries at the path or below it are compared.
DiffAffects(old, new, p, t) ==
  \E e \in Entries : IsPrefix(p, e) /\ Flag(old[e], t) # Flag(new[e], t)
-----------------------------------------------------------------------------
(* _read_disabled().                                                       *)

\* The list is copied before the file is read.
ReadBegin(r, publish) ==
  /\ reading[r].at = "idle"
  /\ reading' = [reading EXCEPT ![r] = [at |-> "await", publish |-> publish, old |-> disabled]]
  /\ UNCHANGED <<subscriptions, path, target, disabled, knows, silent>>

\* The cases in which a change of the list is passed over: a reading that does not publish,
\* one that another has overtaken, an entry strictly above the subscribed path, and a
\* provider without subscriptions.
PassedOver(r, list) ==
  \/ ~reading[r].publish \/ ~subscriptions
  \/ reading[r].old # disabled
  \/ \E e \in Entries : IsStrictPrefix(e, path) /\ disabled[e] # list[e]

\* The list is set, and the subscriber told or not.
Set(r, list, told) ==
  /\ disabled' = list
  /\ knows' = IF told THEN list ELSE knows
  /\ silent' = (~told /\ (silent \/ (list # disabled /\ PassedOver(r, list))))
  /\ reading' = [reading EXCEPT ![r] = NotReading]
  /\ UNCHANGED <<subscriptions, path, target>>

\* The file has entries, or there is none: the list is compared with the copy if the reading
\* publishes, and if the provider has subscriptions.
ReadDone(r, list) ==
  /\ reading[r].at = "await"
  /\ Set(r, list, /\ reading[r].publish /\ subscriptions
                  /\ DiffAffects(reading[r].old, list, path, target))

\* The file is empty or malformed: the list is reset and the reading returns.
ReadEmpty(r) ==
  /\ reading[r].at = "await"
  /\ disabled' = Empty
  /\ silent' = (silent \/ disabled # Empty)
  /\ reading' = [reading EXCEPT ![r] = NotReading]
  /\ UNCHANGED <<subscriptions, path, target, knows>>

\* The file cannot be read: the list stays.
ReadFails(r) ==
  /\ reading[r].at = "await"
  /\ reading' = [reading EXCEPT ![r] = NotReading]
  /\ UNCHANGED <<subscriptions, path, target, disabled, knows, silent>>

Next ==
  \E r \in Readings :
    \/ \E publish \in BOOLEAN : ReadBegin(r, publish)
    \/ \E list \in ShortLists : ReadDone(r, list)
    \/ ReadEmpty(r) \/ ReadFails(r)
-----------------------------------------------------------------------------
(* Properties.                                                             *)

\* The tenants in whose contexts a subscriber of the target reads.
TenantsOf(t) ==
  CASE t = "tenant" -> {Owner, None}
    [] t = "global" -> {None}
    [] OTHER        -> {Owner}

\* A subscriber sees the item as it did when it was told last, after any readings side by
\* side, unless the list has changed since in a way that is passed over: by a reading that
\* does not publish or was overtaken, of an empty or malformed file, above the path, or of a
\* provider without subscriptions, as all but ZooKeeper are.
DisabledKnown ==
  ~silent => \A t \in TenantsOf(target) :
               CheckDisabled(knows, Item, t) = CheckDisabled(disabled, Item, t)
=============================================================================
