-------------------------- MODULE LibraryProviders --------------------------
(***************************************************************************)
(* The providers that LibraryService._create_library() chooses from by the *)
(* URL of a layer (asab/library/service.py:130-174), each on its own: what *)
(* an application may count on, whichever provider it is given.  That of   *)
(* ZooKeeper is in LibraryReadiness and LibraryChanges.                    *)
(*                                                                         *)
(* One provider is chosen in the beginning and the others stay as they     *)
(* are, so that a state is one of that provider.                           *)
(***************************************************************************)
EXTENDS Naturals, Sequences

CONSTANTS
  Paths, Inits, MaxCommits, MaxGitErrors, MaxCrashes,              \* of GitProvider
  Mirrors, MaxVersions, Few, MaxDownloadErrors,                    \* of RegistryProvider
  Names, MaxDepth, Layered, MaxFileEdits, MaxListFails,            \* of FileSystemProvider
  Reads, MaxBlob, MaxBroken,                                       \* of AzureProvider
  Owner, Person, Everybody, None,                                  \* of LibraryReading
  Readings, MaxEntries,                                            \* of LibraryDisabled
  Tenant, MaxTargetEdits, MaxAsks                                  \* of LibraryTargets

\* The periodic pull is not one of the initializations.
ASSUME InitsAssumption == "pull" \notin Inits
ASSUME DepthAssumption == MaxDepth \in Nat

VARIABLES
  provider,     \* the provider that was chosen, or "layers" for two of them,
                \* "disabled" for the list of one, or "targets" of subscriptions
  gCommits, gDisk, gHead, gTree, gOpened, gReady, gKnown, gRecent, gWorker, gTorn, gUntold,
  gErrors, gCrashes,
  rPublished, rContent, rEtag, rReady, rKnown, rRecent, rPull, rTorn, rErrors, rCrashes,
  fInode, fKernel, fInotify, fWds, fAggr, fTimer, fReader, fSubscribed, fStale, fLost,
  fEdits, fListFails,
  aModel, aBlob, aCached, aTag, aReads, aSpoilt, aServed, aBroken,
  lKind, lDotted, lStored, lDirectory, lDisabled, lFavorites,
  dSubscriptions, dPath, dTarget, dDisabled, dReading, dKnows, dSilent,
  tContent, tReady, tSubscriptions, tActual, tDigests, tEdits, tAsks, tChecked, tHidden

Git == INSTANCE GitProvider WITH
  commits <- gCommits, disk <- gDisk, head <- gHead, tree <- gTree, opened <- gOpened,
  gitReady <- gReady, known <- gKnown, recent <- gRecent, worker <- gWorker, torn <- gTorn,
  untold <- gUntold, gitErrors <- gErrors, crashes <- gCrashes
Registry == INSTANCE RegistryProvider WITH
  published <- rPublished, content <- rContent, etag <- rEtag, regReady <- rReady,
  regKnown <- rKnown, regRecent <- rRecent, pull <- rPull, torn <- rTorn,
  downloadErrors <- rErrors, regCrashes <- rCrashes
Files == INSTANCE FileSystemProvider WITH
  MaxEdits <- MaxFileEdits, inode <- fInode, kernel <- fKernel, inotify <- fInotify,
  wds <- fWds, aggr <- fAggr, aggrTimer <- fTimer, reader <- fReader,
  fsSubscribed <- fSubscribed, stale <- fStale, lost <- fLost, edits <- fEdits,
  listFails <- fListFails
Azure == INSTANCE AzureProvider WITH
  model <- aModel, blob <- aBlob, cached <- aCached, blobTag <- aTag, reads <- aReads,
  spoilt <- aSpoilt, served <- aServed, broken <- aBroken
Layers == INSTANCE LibraryReading WITH
  kind <- lKind, dotted <- lDotted, stored <- lStored, directory <- lDirectory,
  disabled <- lDisabled, favorites <- lFavorites
Disabling == INSTANCE LibraryDisabled WITH
  subscriptions <- dSubscriptions, path <- dPath, target <- dTarget, disabled <- dDisabled,
  reading <- dReading, knows <- dKnows, silent <- dSilent
Scopes == INSTANCE LibraryTargets WITH
  MaxEdits <- MaxTargetEdits, content <- tContent, ready <- tReady,
  subscriptions <- tSubscriptions, actual <- tActual, digests <- tDigests, edits <- tEdits,
  asks <- tAsks, checked <- tChecked, hidden <- tHidden

gitVars == <<gCommits, gDisk, gHead, gTree, gOpened, gReady, gKnown, gRecent, gWorker, gTorn,
             gUntold, gErrors, gCrashes>>
regVars == <<rPublished, rContent, rEtag, rReady, rKnown, rRecent, rPull, rTorn, rErrors,
             rCrashes>>
fileVars == <<fInode, fKernel, fInotify, fWds, fAggr, fTimer, fReader, fSubscribed, fStale,
              fLost, fEdits, fListFails>>
azureVars == <<aModel, aBlob, aCached, aTag, aReads, aSpoilt, aServed, aBroken>>
layerVars == <<lKind, lDotted, lStored, lDirectory, lDisabled, lFavorites>>
disabledVars == <<dSubscriptions, dPath, dTarget, dDisabled, dReading, dKnows, dSilent>>
targetVars == <<tContent, tReady, tSubscriptions, tActual, tDigests, tEdits, tAsks, tChecked,
                tHidden>>
allVars == <<gitVars, regVars, fileVars, azureVars, layerVars, disabledVars, targetVars, provider>>

ProvidersInit ==
  /\ provider \in {"git", "registry", "files", "azure", "layers", "disabled", "targets"}
  /\ Registry!Init /\ Files!Init /\ Azure!Init
  /\ Git!Init /\ (provider # "git" => gDisk = "none" /\ gCommits = <<CHOOSE p \in Paths : TRUE>>
                                    /\ gWorker[CHOOSE i \in Inits : TRUE].at = "begin")
  /\ Layers!Init
  /\ (provider # "layers" => lKind = "fs" /\ ~lDotted /\ lStored = {} /\ ~lDirectory)
  /\ Disabling!Init
  /\ (provider # "disabled" => ~dSubscriptions /\ dPath = <<>> /\ dTarget = "global")
  /\ Scopes!Init
  /\ (provider # "targets" => ~tReady /\ \A p \in DOMAIN tContent : tContent[p] = 1)

ProvidersNext ==
  \/ provider = "git" /\ Git!Next
     /\ UNCHANGED <<regVars, fileVars, azureVars, layerVars, disabledVars, targetVars>>
  \/ provider = "registry" /\ Registry!Next
     /\ UNCHANGED <<gitVars, fileVars, azureVars, layerVars, disabledVars, targetVars>>
  \/ provider = "files" /\ Files!Next
     /\ UNCHANGED <<gitVars, regVars, azureVars, layerVars, disabledVars, targetVars>>
  \/ provider = "azure" /\ Azure!Next
     /\ UNCHANGED <<gitVars, regVars, fileVars, layerVars, disabledVars, targetVars>>
  \/ provider = "layers" /\ Layers!Next
     /\ UNCHANGED <<gitVars, regVars, fileVars, azureVars, disabledVars, targetVars>>
  \/ provider = "targets" /\ Scopes!Next
     /\ UNCHANGED <<gitVars, regVars, fileVars, azureVars, layerVars, disabledVars>>
  \/ provider = "disabled" /\ Disabling!Next
     /\ UNCHANGED <<gitVars, regVars, fileVars, azureVars, layerVars, targetVars>>

\* Git: threads end, ticks come and intervals pass.  Not every clone takes longer than it
\* takes the next tick to schedule an initialization, which removes a clone without files.
GitFairness ==
  /\ \A w \in Git!Workers :
       WF_gitVars(provider = "git" /\ Git!Thread(w)) /\ SF_gitVars(provider = "git" /\ Git!CloneDone(w))
  /\ WF_gitVars(provider = "git" /\ (Git!Tick \/ Git!Expire \/ Git!PullDone))

\* Registry: ticks come, intervals pass and requests are answered.
RegistryFairness ==
  /\ WF_regVars(provider = "registry" /\ Registry!Expire)
  /\ WF_regVars(provider = "registry" /\ Registry!PullStep)

\* Files: the event loop calls the reader of the descriptor and the timer; changes are few,
\* or the timer would be restarted forever.
FilesFairness == WF_fileVars(provider = "files" /\ Files!ReaderStep)

ProvidersSpec ==
  /\ ProvidersInit /\ [][ProvidersNext /\ UNCHANGED provider]_allVars
  /\ GitFairness /\ RegistryFairness /\ FilesFairness
-----------------------------------------------------------------------------
(* Properties.                                                             *)

\* Between two pulls, and with no event on its way, a subscriber of the provider from Git
\* or from the registry knows the content as it is, and every directory of a subscription
\* of the file system is watched; after a check of ZooKeeper each subscriber knows the places of
\* its target: nothing that was missed is hidden for good
\* (git.py:345-355, libsreg.py:146-153, filesystem.py:209-232, zookeeper.py:494-619).
SubscribersKnow ==
  Git!SubscribersKnow /\ Registry!SubscriberKnows /\ Files!AllWatched /\ Scopes!TargetsKnown

\* Changes come to the library and its subscribers in the end, from a repository, from mirrors that differ and from a directory, through breaks, errors and
\* crashes, but for the cases that each module names.
ChangesArrive ==
  <>[](/\ provider = "git" => Git!Pulled
       /\ provider = "registry" => Registry!Fetched
       /\ provider = "files" => Files!Reported)

\* What a read of a blob is given is the version of the stored tag: the whole of it or, while
\* another read downloads it, its first part; unless a download of it broke or ran beside
\* another (azurestorage.py:168-232).
ServedWhole == Azure!ServedWhole

\* What is listed is what is opened, in every context (service.py:375-437, and list() and
\* read() of the providers).
ListedIsOpened == provider = "layers" => Layers!ListedIsOpened

\* A subscriber sees what is disabled as when it was told last, however readings of the list
\* interleave, but for the changes that are passed over (service.py:556-711).
DisabledKnown == Disabling!DisabledKnown
=============================================================================
