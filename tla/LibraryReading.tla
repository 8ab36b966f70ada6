---------------------------- MODULE LibraryReading ----------------------------
(***************************************************************************)
(* What the library finds, lists, describes and opens (asab/library/       *)
(* service.py, and read(), list() and find() of the providers in           *)
(* library/providers/filesystem.py and zookeeper.py).                      *)
(*                                                                         *)
(* The upper of two layers has the item of DisabledItems for the           *)
(* credentials of a tenant, for that tenant, or for all; the lower for     *)
(* all.  Both are in ZooKeeper, on a file system with scopes, or in the    *)
(* files of a repository, which has none.                                  *)
(***************************************************************************)
EXTENDS Naturals, DisabledItems

CONSTANT
  Person        \* the credentials that have items of their own

VARIABLES
  kind,         \* the providers: "simple", "fs" or "zk"
  dotted,       \* whether the name of the directory is one like "my.io" or "conf.d"
  stored,       \* the places that have the item
  directory,    \* whether the upper layer has the directory for all
  disabled,     \* Disabled and DisabledPaths: for whom each entry is
  favorites     \* Favorites and FavoritePaths, likewise

readVars == <<kind, dotted, stored, directory, disabled, favorites>>

Place(layer, base) == [layer |-> layer, base |-> base]
Places == {Place(0, b) : b \in {<<>>, <<".tenants", Owner>>, <<".personal", Owner, Person>>}}
            \cup {Place(1, <<>>)}
Contexts == [tenant: {Owner, None}, cred: {Person, None}]

\* Files of favorites have one entry here, for somebody.
FavoriteLists == {Empty} \cup {[Empty EXCEPT ![e] = {t}] : e \in Entries, t \in {Everybody, Owner}}

TypeOK ==
  /\ kind \in {"simple", "fs", "zk"} /\ stored \subseteq Places
  /\ dotted \in BOOLEAN /\ directory \in BOOLEAN
  /\ disabled \in Lists /\ favorites \in FavoriteLists

Init ==
  /\ kind \in {"simple", "fs", "zk"} /\ stored \in SUBSET Places
  /\ dotted \in {d \in BOOLEAN : kind # "zk" => ~d}     \* see FilesFind
  /\ directory \in {d \in BOOLEAN : Place(0, <<>>) \in stored => d}
  /\ disabled = Empty /\ favorites = Empty
-----------------------------------------------------------------------------
(* Paths.                                                                  *)

\* How a caller may spell the path of the item: as it is named, or so that it names the same
\* file only on a disk, or none.
Spellings == {"plain", "relative", "bare", "doubled", "dots", "tilde"}

\* _validate_path_item() and _validate_path_directory(): a name with "//" passes the first.
ValidItem == Spellings \ {"relative", "bare", "dots", "tilde"}
ValidDirectory == Spellings \ {"relative", "bare", "doubled", "dots", "tilde"}

\* The assertions of build_path() of each provider, and of _validate_read_path().
ValidRead == Spellings \ {"relative", "bare", "doubled"}

\* build_path(): the tenant's part of the tree, if there is a tenant.
BuildPath(tenantSpecific, c) ==
  IF tenantSpecific /\ c.tenant # None THEN <<".tenants", c.tenant>> ELSE <<>>

\* _personal_path(): nothing, or one path.
PersonalPath(c) ==
  IF None \in {c.tenant, c.cred} THEN <<>> ELSE << <<".personal", c.tenant, c.cred>> >>

\* The paths to try, in their precedence; with no tenant two of them are the same.
Candidates(c) ==
  PersonalPath(c) \o IF BuildPath(TRUE, c) = BuildPath(FALSE, c) THEN <<BuildPath(FALSE, c)>>
                     ELSE <<BuildPath(TRUE, c), BuildPath(FALSE, c)>>
-----------------------------------------------------------------------------
(* check_favorite().                                                       *)

CheckFavorite(path, tenant, inherit) ==
  \E e \in Entries : (e = path \/ (inherit /\ e # Item /\ IsPrefix(e, path)))
                     /\ Means(favorites[e], tenant)
-----------------------------------------------------------------------------
(* Reading.                                                                *)

Has(layer, base) == Place(layer, base) \in stored

\* read() of the files of a repository: those for all.
SimpleRead(layer) == IF Has(layer, <<>>) THEN <<Place(layer, <<>>)>> ELSE <<>>

\* read() of the file system: three attempts, one after the other.
FilesRead(layer, c) ==
  IF \E i \in DOMAIN PersonalPath(c) : Has(layer, PersonalPath(c)[i])
    THEN <<Place(layer, PersonalPath(c)[1])>>
  ELSE IF Has(layer, BuildPath(TRUE, c)) THEN <<Place(layer, BuildPath(TRUE, c))>>
  ELSE SimpleRead(layer)

\* read() of ZooKeeper: the first candidate that is a node.
NodesRead(layer, c) ==
  LET found == {i \in DOMAIN Candidates(c) : Has(layer, Candidates(c)[i])}
  IN  IF found = {} THEN <<>> ELSE <<Place(layer, Candidates(c)[Min(found)])>>

ProviderRead(layer, c) ==
  CASE kind = "simple" -> SimpleRead(layer)
    [] kind = "fs"     -> FilesRead(layer, c)
    [] kind = "zk"     -> NodesRead(layer, c)

\* read(): what is not disabled, from the first layer that has it.
Read(c) ==
  IF CheckDisabled(disabled, Item, c.tenant) THEN <<>>
  ELSE IF ProviderRead(0, c) # <<>> THEN ProviderRead(0, c) ELSE ProviderRead(1, c)

\* open() of a spelling, which raises or gives nothing for all that is not the name: the
\* list of disabled items is about names.
Open(spelling, c) == IF spelling \in ValidItem \cap ValidRead THEN Read(c) ELSE <<>>

\* find() looks in the tree for all, disabled or not.  On a file system it goes into every
\* directory but those that are hidden or have a dot and no ".io" or ".d"; in ZooKeeper into
\* those without a dot.
FilesFind == {l \in {0, 1} : Has(l, <<>>)}
NodesFind == {l \in {0, 1} : Has(l, <<>>) /\ ~dotted}
Find == IF kind = "zk" THEN NodesFind ELSE FilesFind
-----------------------------------------------------------------------------
(* list(), get_item_metadata() and export().                               *)

\* What the directory has in a scope, and in those of the context.
InPlace(layer, base) == IF Has(layer, base) THEN <<Place(layer, base)>> ELSE <<>>
PersonalItems(layer, c) ==
  IF PersonalPath(c) = <<>> THEN <<>> ELSE InPlace(layer, PersonalPath(c)[1])
TenantItems(layer, c) ==
  IF BuildPath(TRUE, c) = BuildPath(FALSE, c) THEN <<>> ELSE InPlace(layer, BuildPath(TRUE, c))

\* list() of a repository: what its directory has.
SimpleList(layer) == SimpleRead(layer)

\* list() of the file system, which has to have the directory for all.
FilesList(layer, c) ==
  IF layer = 0 /\ ~directory THEN <<>>
  ELSE PersonalItems(layer, c) \o TenantItems(layer, c) \o InPlace(layer, BuildPath(FALSE, c))

\* list() of ZooKeeper.
NodesList(layer, c) ==
  PersonalItems(layer, c) \o TenantItems(layer, c) \o InPlace(layer, BuildPath(FALSE, c))

\* Mutant of ProviderList: what is for all comes first.
ProviderListReversed(layer, c) ==
  CASE kind = "simple" -> SimpleList(layer)
    [] kind = "fs"     -> Reverse(FilesList(layer, c))
    [] kind = "zk"     -> Reverse(NodesList(layer, c))

\* The items of all scopes, not merged.
ProviderList(layer, c) ==
  CASE kind = "simple" -> SimpleList(layer)
    [] kind = "fs"     -> FilesList(layer, c)
    [] kind = "zk"     -> NodesList(layer, c)

\* _list(): items of one name are merged into the first, with the layers of all.
List(providers, c) ==
  (IF 0 \in providers THEN ProviderList(0, c) ELSE <<>>)
    \o (IF 1 \in providers THEN ProviderList(1, c) ELSE <<>>)

\* list() of the directory, spelled as the path of the item.
ListPath(spelling, c) == IF spelling \in ValidDirectory THEN List({0, 1}, c) ELSE <<>>

\* The root lists the directory with the providers that have it, in a scope of the context.
DirectoryProviders(c) ==
  {l \in {0, 1} : ProviderRead(l, c) # <<>>} \cup (IF directory THEN {0} ELSE {})

ListRecursive(c) == List(DirectoryProviders(c), c)

\* get_item_metadata(): the flags that list() has set, and the layers.
NoMetadata == [layers |-> {}, disabled |-> FALSE, favorite |-> FALSE]
GetItemMetadata(c) ==
  IF List({0, 1}, c) = <<>> THEN NoMetadata
  ELSE [layers   |-> {List({0, 1}, c)[i].layer : i \in DOMAIN List({0, 1}, c)},
        disabled |-> CheckDisabled(disabled, Item, c.tenant),
        favorite |-> CheckFavorite(Item, c.tenant, FALSE)]

\* export() reads from the upper layer what that lists, disabled or not.
Export(c) == ProviderList(0, c)
-----------------------------------------------------------------------------
(* _read_disabled() and _read_favorites().                                 *)

\* The list of disabled items is edited and read: LibraryDisabled has its steps.
ReadDisabled(list) ==
  /\ favorites = Empty
  /\ disabled' = list
  /\ UNCHANGED <<kind, dotted, stored, directory, favorites>>

\* _read_favorites(): the file is read, or is missing or malformed.  A read that fails keeps the
\* favorites.
ReadFavorites(list) ==
  /\ disabled = Empty
  /\ favorites' = list
  /\ UNCHANGED <<kind, dotted, stored, directory, disabled>>
NoFavorites ==
  /\ favorites # Empty
  /\ favorites' = Empty
  /\ UNCHANGED <<kind, dotted, stored, directory, disabled>>

\* One of the two files is edited in a run: they have nothing in common.
Next ==
  \/ \E list \in Lists : ReadDisabled(list)
  \/ \E list \in FavoriteLists : ReadFavorites(list)
  \/ NoFavorites
-----------------------------------------------------------------------------
(* Properties.                                                             *)

\* The item of the upper layer that only a scope has, in no directory for all.
Hidden(c) == kind = "fs" /\ ~directory /\ ProviderRead(0, c) # <<>>

\* In every context: what is listed first is what is opened; what is disabled, itself or with
\* a directory above it, is not opened, however its path is spelled; what is opened is listed,
\* in a recursive list of the root, too; the metadata say of an item where it is and whether it
\* can be opened; what is found for all can be opened, and the other way around but for
\* directories with a dot in ZooKeeper; and what is exported can be read.
ListedIsOpened ==
  \A c \in Contexts :
    LET opened == Open("plain", c)
        flagged == CheckDisabled(disabled, Item, c.tenant)
        meta == GetItemMetadata(c)
    IN
    /\ ListPath("plain", c) = ListRecursive(c)
    /\ Export(c) # <<>> => ProviderRead(0, c) # <<>>
    /\ Hidden(c) \/ opened = IF flagged \/ List({0, 1}, c) = <<>> THEN <<>>
                             ELSE <<List({0, 1}, c)[1]>>
    /\ \A s \in Spellings : Open(s, c) # <<>> => ~flagged /\ (Hidden(c) \/ ListPath(s, c) # <<>>)
    /\ opened # <<>> => Hidden(c) \/ (~meta.disabled /\ opened[1].layer \in meta.layers)
    /\ meta.favorite => CheckFavorite(Item, c.tenant, TRUE)
    /\ Find # {} => opened # <<>> \/ flagged
    /\ opened # <<>> /\ opened[1].base = <<>> => opened[1].layer \in Find \/ (kind = "zk" /\ dotted)
=============================================================================
