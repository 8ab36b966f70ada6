----------------------------- MODULE GitProvider -----------------------------
(***************************************************************************)
(* The Git provider of the library (asab/library/providers/git.py): it     *)
(* clones or opens a repository on the disk, pulls from the remote one by  *)
(* ticks, and publishes Library.change! for the subscribed directories     *)
(* that a pull has changed.                                                *)
(*                                                                         *)
(* Cloning and pulling run in threads of the Proactor.  PullLock keeps two *)
(* periodic pulls apart, but not a pull from an initialization, nor two    *)
(* initializations: a tick that finds no repository yet schedules another  *)
(* one.  The process may crash between any two calls of the Git library.   *)
(*                                                                         *)
(* Commits are numbered; each changes one directory, and 0 is no commit.   *)
(***************************************************************************)
EXTENDS Naturals, Sequences

CONSTANTS
  Paths,         \* the directories that commits change and users subscribe to
  Inits,         \* coroutines of initialize_git_repository() under way at once
  MaxCommits,    \* bound on the commits of the remote repository
  MaxGitErrors,  \* bound on the calls of the Git library that raise GitError
  MaxCrashes     \* bound on the crashes of the process

VARIABLES
  commits,       \* of the remote branch: the directory that each has changed
  disk,          \* RepoPath: "none", "cloning" or "repo"
  head, tree,    \* the commit of HEAD, and the one in the working tree
  opened,        \* whether GitRepository is not None
  gitReady,      \* IsReady
  known,         \* SubscribedPaths, and the commit at which the subscriber has read each
  recent,        \* whether LastPull is less than PullInterval ago
  worker,        \* where the periodic pull and each initialization are
  torn,          \* history: a crash or an error came between the two halves of a reset
  untold,        \* history: directories whose subscribers have met the pull of an
                 \* initialization, or came between the diff and the reset of a pull
  gitErrors, crashes

gitVars == <<commits, disk, head, tree, opened, gitReady, known, recent, worker, torn,
             untold, gitErrors, crashes>>

Workers == {"pull"} \cup Inits
Remote == Len(commits)

TypeOK ==
  /\ commits \in Seq(Paths) /\ Remote <= MaxCommits
  /\ disk \in {"none", "cloning", "repo"}
  /\ head \in 0..MaxCommits /\ tree \in 0..MaxCommits
  /\ {opened, gitReady, recent, torn} \subseteq BOOLEAN
  /\ known \in [Paths -> 0..MaxCommits]
  /\ worker \in [Workers -> [at: {"idle", "begin", "clone", "fetch", "diff", "move", "reset",
                                  "done"},
                             new: 0..MaxCommits, publish: SUBSET Paths]]
  /\ untold \subseteq Paths
  /\ gitErrors \in 0..MaxGitErrors /\ crashes \in 0..MaxCrashes

Idle == [at |-> "idle", new |-> 0, publish |-> {}]
Go(w, at) == worker' = [worker EXCEPT ![w].at = at]

\* The directories that differ between two commits.
Diff(from, to) ==
  {commits[n] : n \in (from + 1..to) \cup (to + 1..from)}

\* What a process has in memory when it starts: one initialization is scheduled.
Started(init) ==
  /\ opened' = FALSE /\ gitReady' = FALSE /\ recent' = FALSE
  /\ known' = [p \in Paths |-> 0]
  /\ worker' = [w \in Workers |-> IF w = init THEN [Idle EXCEPT !.at = "begin"] ELSE Idle]
  /\ untold' = {}

\* The disk is empty, or holds what an earlier process has cloned.
Init ==
  /\ commits \in {<<p>> : p \in Paths}
  /\ \/ disk = "none" /\ head = 0 /\ tree = 0
     \/ disk = "repo" /\ head = 1 /\ tree = 1
  /\ opened = FALSE /\ gitReady = FALSE /\ recent = FALSE
  /\ known = [p \in Paths |-> 0]
  /\ \E init \in Inits :
       worker = [w \in Workers |-> IF w = init THEN [Idle EXCEPT !.at = "begin"] ELSE Idle]
  /\ torn = FALSE /\ untold = {}
  /\ gitErrors = 0 /\ crashes = 0
-----------------------------------------------------------------------------
(* The environment.                                                        *)

Commit(p) ==
  /\ Remote < MaxCommits
  /\ commits' = Append(commits, p)
  /\ UNCHANGED <<disk, head, tree, opened, gitReady, known, recent, worker, torn, untold,
                 gitErrors, crashes>>

\* What is on the disk stays there, and the next process starts on it.
Crash ==
  /\ crashes < MaxCrashes
  /\ crashes' = crashes + 1
  /\ \E init \in Inits : Started(init)
  /\ torn' = (torn \/ head # tree)
  /\ UNCHANGED <<commits, disk, head, tree, gitErrors>>

GitError ==
  /\ gitErrors < MaxGitErrors
  /\ gitErrors' = gitErrors + 1

\* PullInterval is over.
Expire ==
  /\ recent
  /\ recent' = FALSE
  /\ UNCHANGED <<commits, disk, head, tree, opened, gitReady, known, worker, torn, untold,
                 gitErrors, crashes>>

\* subscribe() of a library that is ready, and the subscriber reads the directory.
Subscribe(p) ==
  /\ gitReady
  /\ known[p] = 0
  /\ known' = [known EXCEPT ![p] = tree]
  /\ untold' = IF \E w \in Workers : \/ worker[w].at \in {"move", "reset"}
                                      \/ (w # "pull" /\ worker[w].at \in {"fetch", "diff"})
                 THEN untold \cup {p} ELSE untold
  /\ UNCHANGED <<commits, disk, head, tree, opened, gitReady, recent, worker, torn,
                 gitErrors, crashes>>
-----------------------------------------------------------------------------
(* _periodic_pull() up to its thread, and initialize_git_repository().     *)

\* Mutant of Tick: it pulls what is open, and does not try a failed initialization again.
TickOpened ==
  /\ worker["pull"].at = "idle" /\ ~recent
  /\ opened /\ Go("pull", "fetch")
  /\ UNCHANGED <<commits, disk, head, tree, opened, gitReady, known, recent, torn, untold,
                 gitErrors, crashes>>

\* PullLock is free and the interval is over.  What a tick schedules while all
\* coroutines of Inits are under way is left out.
Tick ==
  /\ worker["pull"].at = "idle" /\ ~recent
  /\ IF opened THEN Go("pull", "fetch")
     ELSE \E init \in Inits : worker[init] = Idle /\ Go(init, "begin")
  /\ UNCHANGED <<commits, disk, head, tree, opened, gitReady, known, recent, torn, untold,
                 gitErrors, crashes>>

InitBegin(w) ==
  /\ worker[w].at = "begin"
  /\ IF disk = "none"
       THEN disk' = "cloning" /\ Go(w, "clone") /\ UNCHANGED <<opened, untold>>
       ELSE /\ opened' = TRUE /\ Go(w, "fetch")
            /\ untold' = untold \cup {p \in Paths : known[p] > 0}
            /\ UNCHANGED disk
  /\ UNCHANGED <<commits, head, tree, gitReady, known, recent, torn, gitErrors, crashes>>

CloneDone(w) ==
  /\ worker[w].at = "clone"
  /\ disk = "cloning"
  /\ disk' = "repo" /\ head' = Remote /\ tree' = Remote
  /\ opened' = TRUE
  /\ Go(w, "done")
  /\ UNCHANGED <<commits, gitReady, known, recent, torn, untold, gitErrors, crashes>>

\* A clone that raises removes what it has made; the error is logged, and a tick tries
\* again.  It raises too when another initialization has removed its directory.
CloneFails(w) ==
  /\ worker[w].at = "clone"
  /\ IF disk = "cloning" THEN GitError ELSE UNCHANGED gitErrors
  /\ disk' = IF disk = "cloning" THEN "none" ELSE disk
  /\ worker' = [worker EXCEPT ![w] = Idle]
  /\ UNCHANGED <<commits, head, tree, opened, gitReady, known, recent, torn, untold, crashes>>

\* The rest of initialize_git_repository(): a working tree without files is removed to be
\* cloned again, any other makes the provider ready, whether its pull went well or not.
InitDone(w) ==
  /\ w # "pull" /\ worker[w].at = "done"
  /\ IF tree = 0
       THEN /\ disk' = "none" /\ head' = 0 /\ opened' = FALSE
            /\ UNCHANGED gitReady
       ELSE /\ gitReady' = TRUE
            /\ UNCHANGED <<disk, head, opened>>
  /\ worker' = [worker EXCEPT ![w] = Idle]
  /\ UNCHANGED <<commits, tree, known, recent, torn, untold, gitErrors, crashes>>
-----------------------------------------------------------------------------
(* _do_pull(), in the thread of a periodic pull or of an initialization.   *)

\* GitError: a periodic pull ends without LastPull, an initialization goes on.
PullFails(w) ==
  /\ worker[w].at \in {"fetch", "move", "reset"}
  /\ IF disk = "repo" THEN GitError ELSE UNCHANGED gitErrors
  /\ worker' = [worker EXCEPT ![w] = IF w = "pull" THEN Idle ELSE [Idle EXCEPT !.at = "done"]]
  /\ torn' = (torn \/ (worker[w].at = "reset" /\ head # tree))
  /\ UNCHANGED <<commits, disk, head, tree, opened, gitReady, known, recent, untold, crashes>>

\* _do_fetch(), and the comparison with HEAD.
Fetch(w) ==
  /\ worker[w].at = "fetch" /\ disk = "repo"
  /\ worker' = [worker EXCEPT ![w].new = Remote,
                              ![w].at = IF head = Remote THEN "done" ELSE "diff"]
  /\ UNCHANGED <<commits, disk, head, tree, opened, gitReady, known, recent, torn, untold,
                 gitErrors, crashes>>

\* Mutant of MakeDiff: it is made when HEAD has been moved, and is empty.
MakeDiffLate(w) ==
  /\ worker[w].at = "diff"
  /\ Go(w, "move")
  /\ UNCHANGED <<commits, disk, head, tree, opened, gitReady, known, recent, torn, untold,
                 gitErrors, crashes>>

\* An initialization throws away what it would have to publish.
MakeDiff(w) ==
  /\ worker[w].at = "diff"
  /\ worker' = [worker EXCEPT ![w].at = "move",
                 ![w].publish = {p \in Diff(head, worker[w].new) : known[p] > 0}]
  /\ UNCHANGED <<commits, disk, head, tree, opened, gitReady, known, recent, torn, untold,
                 gitErrors, crashes>>

\* HEAD is moved; the working tree is still the old one.
SetTarget(w) ==
  /\ worker[w].at = "move" /\ disk = "repo"
  /\ head' = worker[w].new
  /\ Go(w, "reset")
  /\ UNCHANGED <<commits, disk, tree, opened, gitReady, known, recent, torn, untold,
                 gitErrors, crashes>>

Reset(w) ==
  /\ worker[w].at = "reset" /\ disk = "repo"
  /\ head' = worker[w].new /\ tree' = worker[w].new
  /\ Go(w, "done")
  /\ UNCHANGED <<commits, disk, opened, gitReady, known, recent, torn, untold,
                 gitErrors, crashes>>

\* Back on the main loop: LastPull is set, and Library.change! makes its subscribers read.
PullDone ==
  /\ worker["pull"].at = "done"
  /\ recent' = TRUE
  /\ known' = [p \in Paths |-> IF p \in worker["pull"].publish THEN tree ELSE known[p]]
  /\ worker' = [worker EXCEPT !["pull"] = Idle]
  /\ UNCHANGED <<commits, disk, head, tree, opened, gitReady, torn, untold, gitErrors, crashes>>
-----------------------------------------------------------------------------
Thread(w) ==
  \/ InitBegin(w) \/ CloneDone(w) \/ CloneFails(w) \/ InitDone(w)
  \/ Fetch(w) \/ PullFails(w) \/ MakeDiff(w) \/ SetTarget(w) \/ Reset(w)

Next ==
  \/ \E p \in Paths : Commit(p) \/ Subscribe(p)
  \/ Crash \/ Expire \/ Tick \/ PullDone
  \/ \E w \in Workers : Thread(w)
-----------------------------------------------------------------------------
(* Properties.                                                             *)

\* When no thread is at work, a subscriber who is not among the untold knows his directory
\* as it is in the working tree, however pulls, initializations and crashes overlapped;
\* unless HEAD was torn from the working tree, which hides the change for good.
SubscribersKnow ==
  (~torn /\ \A w \in Workers : worker[w].at = "idle") =>
    \A p \in Paths \ untold : known[p] > 0 => p \notin Diff(known[p], tree)

\* The provider becomes ready, and the working tree comes to the last commit, unless
\* HEAD was torn from the working tree, which the next pull takes for current.
Pulled == torn \/ (gitReady /\ tree = Remote)
=============================================================================
