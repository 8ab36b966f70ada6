--------------------------- MODULE RegistryProvider ---------------------------
(***************************************************************************)
(* The provider of the libraries registry                                  *)
(* (asab/library/providers/libsreg.py, library/dirsync.py): by ticks it    *)
(* asks mirrors for an archive that differs from the one whose entity tag  *)
(* it has on the disk, synchronizes a directory with it and then stores    *)
(* the new tag.                                                            *)
(*                                                                         *)
(* Mirrors come to new versions one after the other.  A request may fail,  *)
(* a download may break or be corrupt, and the process may crash at any    *)
(* point, in the middle of the synchronization too.                        *)
(***************************************************************************)
EXTENDS Naturals

CONSTANTS
  Mirrors,            \* the servers of the URL
  MaxVersions,        \* bound on the versions of the archive, numbered from 1
  Few,                \* the versions of at most 5 files, for which the tag is not used
  MaxDownloadErrors,  \* bound on the requests and downloads that fail
  MaxCrashes          \* bound on the crashes of the process

VARIABLES
  published,     \* the version that each mirror has
  content,       \* of RepoPath: the versions from which its files are
  etag,          \* the file "etag", 0 if there is none
  regReady,      \* IsReady
  regKnown,      \* the content that the subscriber has read last, {} for no subscriber
  regRecent,     \* whether LastPull is less than PullInterval ago
  pull,          \* what _periodic_pull() is doing
  torn,         \* history: a crash came between a synchronization and its tag
  downloadErrors, regCrashes

regVars == <<published, content, etag, regReady, regKnown, regRecent, pull, torn,
             downloadErrors, regCrashes>>

Versions == 1..MaxVersions
Rounds == 3

TypeOK ==
  /\ published \in [Mirrors -> Versions]
  /\ content \subseteq Versions
  /\ etag \in 0..MaxVersions
  /\ {regReady, regRecent, torn} \subseteq BOOLEAN
  /\ regKnown \subseteq Versions
  /\ pull \in [at: {"idle", "ask", "download", "ready", "tag", "done"},
               left: SUBSET Mirrors, from: SUBSET Mirrors, rounds: 0..Rounds, old: 0..MaxVersions,
               conditional: BOOLEAN, new: 0..MaxVersions]
  /\ downloadErrors \in 0..MaxDownloadErrors /\ regCrashes \in 0..MaxCrashes

Idle == [at |-> "idle", left |-> {}, from |-> {}, rounds |-> 0, old |-> 0,
         conditional |-> FALSE, new |-> 0]

Init ==
  /\ published = [m \in Mirrors |-> 1]
  /\ content = {} /\ etag = 0
  /\ regReady = FALSE /\ regKnown = {} /\ regRecent = FALSE
  /\ pull = Idle
  /\ torn = FALSE /\ downloadErrors = 0 /\ regCrashes = 0
-----------------------------------------------------------------------------
(* The environment.                                                        *)

Publish(m) ==
  /\ published[m] < MaxVersions
  /\ published' = [published EXCEPT ![m] = published[m] + 1]
  /\ UNCHANGED <<content, etag, regReady, regKnown, regRecent, pull, torn, downloadErrors,
                 regCrashes>>

Expire ==
  /\ regRecent
  /\ regRecent' = FALSE
  /\ UNCHANGED <<published, content, etag, regReady, regKnown, pull, torn, downloadErrors,
                 regCrashes>>

\* A crash in synchronize_dirs() leaves files of both versions, one after it the old tag.
Crash ==
  /\ regCrashes < MaxCrashes
  /\ regCrashes' = regCrashes + 1
  /\ \/ UNCHANGED content /\ torn' = (torn \/ pull.at \in {"ready", "tag"})
     \/ pull.at = "download" /\ content' = content \cup {pull.new} /\ torn' = TRUE
  /\ regReady' = FALSE /\ regKnown' = {} /\ regRecent' = FALSE /\ pull' = Idle
  /\ UNCHANGED <<published, etag, downloadErrors>>

\* subscribe() of a library that is ready, and the subscriber reads it.
Subscribe ==
  /\ regReady /\ regKnown = {}
  /\ regKnown' = content
  /\ UNCHANGED <<published, content, etag, regReady, regRecent, pull, torn, downloadErrors,
                 regCrashes>>
-----------------------------------------------------------------------------
(* _periodic_pull(), at the start and by ticks, and _do_pull().            *)

\* PullLock is free and the interval is over: the tag is read from its file, and the
\* files are counted.
Begin ==
  /\ pull = Idle /\ ~regRecent
  /\ pull' = [Idle EXCEPT !.at = "ask", !.left = Mirrors, !.rounds = Rounds, !.old = etag,
                          !.conditional = etag # 0 /\ ~\E v \in Few : content \subseteq {v}]
  /\ UNCHANGED <<published, content, etag, regReady, regKnown, regRecent, torn,
                 downloadErrors, regCrashes>>

\* The next URL is asked, after a pause when each has been asked once more; with none
\* left the pull gives up, without LastPull.
NextUrl(m) ==
  LET left == pull.left \ {m} IN
  IF left # {} THEN [pull EXCEPT !.at = "ask", !.from = {}, !.left = left]
  ELSE IF pull.rounds > 1
    THEN [pull EXCEPT !.at = "ask", !.from = {}, !.left = Mirrors, !.rounds = pull.rounds - 1]
    ELSE Idle

AskFails(m) ==
  /\ (pull.at = "ask" /\ m \in pull.left) \/ (pull.at = "download" /\ pull.from = {m})
  /\ downloadErrors < MaxDownloadErrors
  /\ downloadErrors' = downloadErrors + 1
  /\ pull' = NextUrl(m)
  /\ UNCHANGED <<published, content, etag, regReady, regKnown, regRecent, torn, regCrashes>>

\* 200: the archive is downloaded.
Ask(m) ==
  /\ pull.at = "ask" /\ m \in pull.left
  /\ ~(pull.conditional /\ published[m] = pull.old)
  /\ pull' = [pull EXCEPT !.at = "download", !.new = published[m], !.from = {m}]
  /\ UNCHANGED <<published, content, etag, regReady, regKnown, regRecent, torn,
                 downloadErrors, regCrashes>>

\* 304: the provider is ready with what is on the disk.
NotModified(m) ==
  /\ pull.at = "ask" /\ m \in pull.left
  /\ pull.conditional /\ published[m] = pull.old
  /\ regReady' = TRUE
  /\ pull' = [pull EXCEPT !.at = "done", !.new = pull.old]
  /\ UNCHANGED <<published, content, etag, regKnown, regRecent, torn, downloadErrors,
                 regCrashes>>

\* The archive is unpacked beside the content, which synchronize_dirs() makes equal to it.
Synchronize ==
  /\ pull.at = "download"
  /\ content' = {pull.new} /\ torn' = FALSE
  /\ pull' = [pull EXCEPT !.at = IF regReady THEN "tag" ELSE "ready"]
  /\ UNCHANGED <<published, etag, regReady, regKnown, regRecent, downloadErrors, regCrashes>>

SetReady ==
  /\ pull.at = "ready"
  /\ regReady' = TRUE
  /\ pull' = [pull EXCEPT !.at = "tag"]
  /\ UNCHANGED <<published, content, etag, regKnown, regRecent, torn, downloadErrors,
                 regCrashes>>

StoreTag ==
  /\ pull.at = "tag"
  /\ etag' = pull.new
  /\ pull' = [pull EXCEPT !.at = "done"]
  /\ UNCHANGED <<published, content, regReady, regKnown, regRecent, torn, downloadErrors,
                 regCrashes>>

\* LastPull is set; a tag that differs from the old one is announced to all subscribers.
Done ==
  /\ pull.at = "done"
  /\ regRecent' = TRUE
  /\ regKnown' = IF pull.new # pull.old /\ regKnown # {} THEN content ELSE regKnown
  /\ pull' = Idle
  /\ UNCHANGED <<published, content, etag, regReady, torn, downloadErrors, regCrashes>>
-----------------------------------------------------------------------------
PullStep ==
  \/ Begin \/ Synchronize \/ SetReady \/ StoreTag \/ Done
  \/ \E m \in Mirrors : Ask(m) \/ NotModified(m) \/ AskFails(m)

Next ==
  \/ \E m \in Mirrors : Publish(m)
  \/ Expire \/ Crash \/ Subscribe
  \/ PullStep
-----------------------------------------------------------------------------
(* Properties.                                                             *)

\* Between two pulls the content is that of one archive, unless a crash has mixed two,
\* and the subscriber knows it as it is.
SubscriberKnows ==
  pull = Idle /\ regReady =>
    /\ torn \/ \E v \in content : content = {v}
    /\ regKnown \in {{}, content}

\* When all mirrors have the same version the provider comes to it and is ready, wherever
\* a crash or an error has interrupted it before, and although mirrors may have answered
\* with older versions in between; but for a crash between the synchronization with
\* such an answer and its tag, after which the tag on the disk hides that files were replaced.
Fetched ==
  regReady /\ \A v \in Versions :
    (\A m \in Mirrors : published[m] = v) => content = {v} \/ (torn /\ etag = v)
=============================================================================
