--------------------------- MODULE Configuration ---------------------------
(***************************************************************************)
(* How the configuration is put together when an Application is made       *)
(* (src/asab/config.py): the file of the command line or ASAB_CONFIG, the  *)
(* defaults for what it does not set, and the files that the option        *)
(* include of [general] names; each of them may include others, by the     *)
(* same option, which is taken up after the file was read.                 *)
(*                                                                         *)
(* What is read later overrides what was read before: the sequence of what *)
(* was read is all there is to know of the values.                         *)
(***************************************************************************)
EXTENDS Naturals, Sequences, FiniteSets, Functions

CONSTANTS
  File,         \* files of the configuration
  MainFile,     \* the one of general, config_file
  Globs,        \* sets of files that a glob in an option include may match
  Defaults,     \* _default_values, which count as read before everything else
  Node          \* a node of ZooKeeper, included as zookeeper://...

\* An item of an option include: the files that a glob matches, or the node.
Items == Globs \cup {Node}

VARIABLES
  includes,     \* the option include of each file, and of the node
  option,       \* the option include as it is now
  reads,        \* what was read, in this order
  included,     \* _included
  stack,        \* the calls of _traverse_includes(): the items and the matches left of each
  loading       \* "begin", "include", "done" or "exited"

confVars == <<includes, option, reads, included, stack, loading>>

\* What the files may name: MainFile up to two items, the others one, the node a file or none.
Short == {<<>>} \cup {<<i>> : i \in Items}
Links ==
  {links \in [File \cup {Node} -> Short \cup (Items \X Items)] :
     /\ \A f \in File \ {MainFile} : links[f] \in Short
     /\ links[Node] \in {<<>>, <<{MainFile}>>}}

Init ==
  /\ includes \in Links
  /\ option = <<>>
  /\ reads = <<>>
  /\ included = {}
  /\ stack = <<>>
  /\ loading = "begin"

-----------------------------------------------------------------------------
Frame(items) == [items |-> items, matches |-> {}]

\* _load(): there is a file, or none is configured.
Load ==
  /\ loading = "begin"
  /\ \E given \in BOOLEAN :
       /\ option' = IF given THEN includes[MainFile] ELSE <<>>
       /\ reads' = IF given THEN <<Defaults, MainFile>> ELSE <<Defaults>>
  /\ stack' = <<Frame(option')>>
  /\ loading' = "include"
  /\ UNCHANGED <<includes, included>>

\* ... or the one that is configured is missing, and the process exits.
LoadFails ==
  /\ loading = "begin"
  /\ loading' = "exited"
  /\ UNCHANGED <<includes, option, reads, included, stack>>

Top == Head(stack)

\* The next item is a glob.
NextGlob ==
  /\ loading = "include"
  /\ Top.matches = {} /\ Top.items # <<>> /\ Head(Top.items) # Node
  /\ stack' = <<[items |-> Tail(Top.items), matches |-> Head(Top.items)]>> \o Tail(stack)
  /\ UNCHANGED <<includes, option, reads, included, loading>>

\* The next item is a node: it is read, and what it includes is left in the option.
IncludeFromZooKeeper ==
  /\ loading = "include"
  /\ Top.matches = {} /\ Top.items # <<>> /\ Head(Top.items) = Node
  /\ reads' = Append(reads, Node)
  /\ option' = IF includes[Node] = <<>> THEN option ELSE includes[Node]
  /\ stack' = <<Frame(Tail(Top.items))>> \o Tail(stack)
  /\ UNCHANGED <<includes, included, loading>>

\* ... or it cannot be read, or is of another format, or a value of it has a "$", which wants
\* the directory of the file that is read: the process exits.
IncludeFromZooKeeperFails ==
  /\ loading = "include"
  /\ Top.matches = {} /\ Top.items # <<>> /\ Head(Top.items) = Node
  /\ loading' = "exited"
  /\ UNCHANGED <<includes, option, reads, included, stack>>

\* A file that a glob matches is read with an option of its own, and what it includes is next.
Include(f) ==
  /\ loading = "include"
  /\ f \in Top.matches
  /\ f \notin included
  /\ included' = included \cup {f}
  /\ option' = includes[f]
  /\ reads' = Append(reads, f)
  /\ stack' = <<Frame(option'), [Top EXCEPT !.matches = @ \ {f}]>> \o Tail(stack)
  /\ UNCHANGED <<includes, loading>>

\* One that was included before is not read again.
IncludedBefore(f) ==
  /\ loading = "include"
  /\ f \in Top.matches
  /\ f \in included
  /\ stack' = <<[Top EXCEPT !.matches = @ \ {f}]>> \o Tail(stack)
  /\ UNCHANGED <<includes, option, reads, included, loading>>

\* The option is used up: back to the glob that named the file, or to the end.
Return ==
  /\ loading = "include"
  /\ Top = Frame(<<>>)
  /\ stack' = Tail(stack)
  /\ loading' = IF stack' = <<>> THEN "done" ELSE "include"
  /\ UNCHANGED <<includes, option, reads, included>>

LoadStep ==
  \/ Load \/ LoadFails \/ NextGlob \/ IncludeFromZooKeeper \/ IncludeFromZooKeeperFails \/ Return
  \/ \E f \in File : Include(f) \/ IncludedBefore(f)

Next == LoadStep

-----------------------------------------------------------------------------
(* Properties.                                                             *)

\* What the files of a set name in their options.
Named(files) == UNION {i \in Globs : \E f \in files : i \in Range(includes[f])}

\* The files that MainFile names, directly or through others: those of every set that has what
\* MainFile names and what its files name.
Reachable ==
  {f \in File : \A S \in SUBSET File : Named({MainFile} \cup S) \subseteq S => f \in S}

Times(x) == Cardinality({i \in DOMAIN reads : reads[i] = x})

\* However files include each other, themselves and the first one: each that is included is read
\* once, after one that names it, and the first one once before all and once more if it is
\* named; in the end nothing that is named is missing (config.py:182-220).
IncludedOnce ==
  /\ \A f \in File : Times(f) <= (IF f = MainFile THEN 2 ELSE 1)
  /\ \A i \in DOMAIN reads : i > 2 /\ reads[i] # Node =>
       \E j \in 1..(i - 1) : reads[j] \in File /\ reads[i] \in Named({reads[j]})
  /\ loading = "done" /\ MainFile \in Range(reads) =>
       \A f \in File : Times(f) = (IF f = MainFile THEN 1 ELSE 0) + (IF f \in Reachable THEN 1 ELSE 0)

\* Loading comes to an end.
Loaded == <>(loading \in {"done", "exited"})
=============================================================================
