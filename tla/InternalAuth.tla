---------------------------- MODULE InternalAuth ----------------------------
(***************************************************************************)
(* The key that the services of a cluster share for internal              *)
(* authorization (asab/api/internal_auth.py).  The private key lives in a  *)
(* znode.  Every service, whenever it connects and at every tick/300,      *)
(* schedules a task that reads the key, creates it when it is missing,     *)
(* derives the public key that it trusts, and renews its token.            *)
(*                                                                         *)
(* The calls of kazoo in this task are synchronous: they block the event   *)
(* loop of the service, so nothing else of the service happens between     *)
(* them, while other services and the ZooKeeper cluster go on.             *)
(***************************************************************************)
EXTENDS Naturals

CONSTANTS
  Services,       \* services with an ApiService and an AuthService
  Early,          \* those that may connect before their initialize()
  Lifetime,       \* validity of a token, in ticks (30 minutes are 6 ticks)
  Leeway,         \* a token is renewed when it expires so soon (10 minutes are 2 ticks)
  MaxTodo,        \* bound on the scheduled tasks of a service
  MaxKeys,        \* bound on the keys that are ever generated
  MaxDeletes,     \* bound on removals of the znode by an administrator
  MaxBreaks,      \* bound on breaks of connections
  MaxRaises       \* bound on calls of ZooKeeper that raise what the task does not catch

ASSUME LifetimeAssumption == Lifetime \in Nat /\ Leeway \in 0..Lifetime
ASSUME BoundsAssumption == /\ {MaxKeys, MaxDeletes, MaxBreaks, MaxRaises} \subseteq Nat
                           /\ MaxTodo \in Nat \ {0}
                           /\ Early \subseteq Services

VARIABLES
  zkKey,          \* the key in the znode, 0 when there is none
  generated,      \* the number of keys that were generated; the last one is the newest
  initialized,    \* whether initialize() has registered the PublicKeyProvider
  connected,      \* whether the client of the service is connected
  todo,           \* the number of scheduled tasks
  pc,             \* where the running task is: "idle", "get", "create"
  own,            \* the key that the running task has generated
  privateKey,     \* PrivateKey, 0 for None
  publicKey,      \* the key of the PublicKeyProvider, 0 when it has none
  tokenKey,       \* the key that signed IdToken, 0 for None
  tokenAge,       \* the age of IdToken in ticks
  deletes, breaks, raises   \* how often the bounded disturbances have happened

perService == <<initialized, connected, todo, pc, own, privateKey, publicKey, tokenKey, tokenAge>>
vars == <<zkKey, generated, perService, deletes, breaks, raises>>

Keys == 0..MaxKeys
NoKey == 0

\* Every variable has its type.
TypeOK ==
  /\ zkKey \in Keys /\ generated \in Keys
  /\ initialized \in [Services -> BOOLEAN]
  /\ connected \in [Services -> BOOLEAN]
  /\ todo \in [Services -> 0..MaxTodo]
  /\ pc \in [Services -> {"idle", "get", "create"}]
  /\ own \in [Services -> Keys]
  /\ privateKey \in [Services -> Keys]
  /\ publicKey \in [Services -> Keys]
  /\ tokenKey \in [Services -> Keys]
  /\ tokenAge \in [Services -> 0..(Lifetime + 1)]
  /\ deletes \in 0..MaxDeletes /\ breaks \in 0..MaxBreaks
  /\ raises \in 0..MaxRaises

Init ==
  /\ zkKey = NoKey /\ generated = 0
  /\ initialized = [s \in Services |-> FALSE]
  /\ connected = [s \in Services |-> FALSE]
  /\ todo = [s \in Services |-> 0]
  /\ pc = [s \in Services |-> "idle"]
  /\ own = [s \in Services |-> NoKey]
  /\ privateKey = [s \in Services |-> NoKey]
  /\ publicKey = [s \in Services |-> NoKey]
  /\ tokenKey = [s \in Services |-> NoKey]
  /\ tokenAge = [s \in Services |-> 0]
  /\ deletes = 0 /\ breaks = 0 /\ raises = 0

Idle(s) == pc[s] = "idle"
-----------------------------------------------------------------------------
\* The environment: an administrator, the connections, the clock.

Delete ==
  /\ zkKey # NoKey /\ deletes < MaxDeletes
  /\ zkKey' = NoKey /\ deletes' = deletes + 1
  /\ UNCHANGED <<generated, perService, breaks, raises>>

Break(s) ==
  /\ connected[s] /\ breaks < MaxBreaks
  /\ connected' = [connected EXCEPT ![s] = FALSE]
  /\ breaks' = breaks + 1
  /\ UNCHANGED <<zkKey, generated, initialized, todo, pc, own, privateKey, publicKey,
                 tokenKey, tokenAge, deletes, raises>>

\* _schedule_key_and_token_update(); more tasks than MaxTodo change nothing.
Schedule(s) == todo' = [todo EXCEPT ![s] = IF @ < MaxTodo THEN @ + 1 ELSE @]

\* The client connects and CONNECTED! is published, in init-time too: the client is
\* started in the constructor.  A blocked loop handles the event when the task has ended.
Connect(s) ==
  /\ ~connected[s]
  /\ initialized[s] \/ s \in Early
  /\ connected' = [connected EXCEPT ![s] = TRUE]
  /\ Schedule(s)
  /\ UNCHANGED <<zkKey, generated, initialized, pc, own, privateKey, publicKey,
                 tokenKey, tokenAge, deletes, breaks, raises>>

\* tick/300, only in run-time; the token gets older.
Tick(s) ==
  /\ initialized[s] /\ Idle(s) /\ todo[s] = 0
  /\ tokenAge' = [tokenAge EXCEPT ![s] = IF tokenKey[s] # NoKey /\ @ <= Lifetime THEN @ + 1 ELSE @]
  /\ Schedule(s)
  /\ UNCHANGED <<zkKey, generated, initialized, connected, pc, own, privateKey, publicKey,
                 tokenKey, deletes, breaks, raises>>
-----------------------------------------------------------------------------
\* initialize(): an empty provider of the public key is registered.
Initialize(s) ==
  /\ ~initialized[s] /\ Idle(s)
  /\ initialized' = [initialized EXCEPT ![s] = TRUE]
  /\ UNCHANGED <<zkKey, generated, connected, todo, pc, own, privateKey, publicKey,
                 tokenKey, tokenAge, deletes, breaks, raises>>

\* _is_id_token_ready(required_leeway)
IsIdTokenReady(s, leeway) == tokenKey[s] # NoKey /\ tokenAge[s] + leeway <= Lifetime

\* _issue_id_token() with the key k
IssueIdToken(s, k) ==
  /\ tokenKey' = [tokenKey EXCEPT ![s] = k]
  /\ tokenAge' = [tokenAge EXCEPT ![s] = 0]

\* Mutant of Prepared: the public key is set once and not when the key is replaced.
PreparedUntold(s, k) ==
  /\ pc' = [pc EXCEPT ![s] = "idle"]
  /\ own' = [own EXCEPT ![s] = NoKey]
  /\ privateKey' = [privateKey EXCEPT ![s] = k]
  /\ publicKey' = IF privateKey[s] = NoKey THEN [publicKey EXCEPT ![s] = k] ELSE publicKey
  /\ IF k # privateKey[s] \/ ~IsIdTokenReady(s, Leeway) THEN IssueIdToken(s, k)
     ELSE UNCHANGED <<tokenKey, tokenAge>>

\* Mutant of Prepared: the token is renewed when it gets old and not when the key changes.
PreparedStale(s, k) ==
  /\ pc' = [pc EXCEPT ![s] = "idle"]
  /\ own' = [own EXCEPT ![s] = NoKey]
  /\ privateKey' = [privateKey EXCEPT ![s] = k]
  /\ publicKey' = IF k # privateKey[s] /\ initialized[s] THEN [publicKey EXCEPT ![s] = k] ELSE publicKey
  /\ IF ~IsIdTokenReady(s, Leeway) THEN IssueIdToken(s, k) ELSE UNCHANGED <<tokenKey, tokenAge>>

\* The rest of _prepare_keys_and_tokens() when _ensure_private_key() has the key k.
Prepared(s, k) ==
  LET changed == k # privateKey[s] IN
  /\ pc' = [pc EXCEPT ![s] = "idle"]
  /\ own' = [own EXCEPT ![s] = NoKey]
  /\ privateKey' = [privateKey EXCEPT ![s] = k]
  /\ publicKey' = IF changed /\ initialized[s] THEN [publicKey EXCEPT ![s] = k] ELSE publicKey
  /\ IF changed \/ ~IsIdTokenReady(s, Leeway) THEN IssueIdToken(s, k)
     ELSE UNCHANGED <<tokenKey, tokenAge>>

Start(s) ==
  /\ Idle(s) /\ todo[s] > 0
  /\ todo' = [todo EXCEPT ![s] = @ - 1]
  /\ pc' = [pc EXCEPT ![s] = "get"]
  /\ UNCHANGED <<zkKey, generated, initialized, connected, own, privateKey, publicKey,
                 tokenKey, tokenAge, deletes, breaks, raises>>

\* Client.get() finds the key.
GetFound(s) ==
  /\ pc[s] = "get" /\ connected[s] /\ zkKey # NoKey
  /\ Prepared(s, zkKey)
  /\ UNCHANGED <<zkKey, generated, initialized, connected, todo, deletes, breaks, raises>>

\* NoNodeError: a new key is generated.
GetNoNode(s) ==
  /\ pc[s] = "get" /\ connected[s] /\ zkKey = NoKey /\ generated < MaxKeys
  /\ generated' = generated + 1
  /\ own' = [own EXCEPT ![s] = generated + 1]
  /\ pc' = [pc EXCEPT ![s] = "create"]
  /\ UNCHANGED <<zkKey, initialized, connected, todo, privateKey, publicKey, tokenKey,
                 tokenAge, deletes, breaks, raises>>

\* ConnectionLoss or ConnectionClosedError: the key stays as it is; the token is renewed.
GetLost(s) ==
  /\ pc[s] = "get" /\ ~connected[s]
  /\ pc' = [pc EXCEPT ![s] = "idle"]
  /\ IF privateKey[s] # NoKey /\ ~IsIdTokenReady(s, Leeway) THEN IssueIdToken(s, privateKey[s])
     ELSE UNCHANGED <<tokenKey, tokenAge>>
  /\ UNCHANGED <<zkKey, generated, initialized, connected, todo, own, privateKey, publicKey,
                 deletes, breaks, raises>>

\* Client.create() succeeds.
CreateDone(s) ==
  /\ pc[s] = "create" /\ connected[s] /\ zkKey = NoKey
  /\ zkKey' = own[s]
  /\ Prepared(s, own[s])
  /\ UNCHANGED <<generated, initialized, connected, todo, deletes, breaks, raises>>

\* NodeExistsError: the loop ends, since private_key_json holds the key just generated.
CreateExists(s) ==
  /\ pc[s] = "create" /\ connected[s] /\ zkKey # NoKey
  /\ Prepared(s, own[s])
  /\ UNCHANGED <<zkKey, generated, initialized, connected, todo, deletes, breaks, raises>>

\* Client.create() without a connection raises; the request may have been carried out.
CreateLost(s) ==
  /\ pc[s] = "create" /\ ~connected[s]
  /\ zkKey' \in {zkKey, IF zkKey = NoKey THEN own[s] ELSE zkKey}
  /\ own' = [own EXCEPT ![s] = NoKey]
  /\ pc' = [pc EXCEPT ![s] = "idle"]
  /\ UNCHANGED <<generated, initialized, connected, todo, privateKey, publicKey, tokenKey,
                 tokenAge, deletes, breaks, raises>>

\* Another exception (SessionExpiredError, ...) ends the task.
CallRaises(s) ==
  /\ pc[s] # "idle" /\ raises < MaxRaises
  /\ raises' = raises + 1
  /\ own' = [own EXCEPT ![s] = NoKey]
  /\ pc' = [pc EXCEPT ![s] = "idle"]
  /\ UNCHANGED <<zkKey, generated, initialized, connected, todo, privateKey, publicKey,
                 tokenKey, tokenAge, deletes, breaks>>

\* get_authorization_header(): an expired token is renewed on demand.
GetAuthorizationHeader(s) ==
  /\ Idle(s) /\ privateKey[s] # NoKey /\ ~IsIdTokenReady(s, 0)
  /\ IssueIdToken(s, privateKey[s])
  /\ UNCHANGED <<zkKey, generated, initialized, connected, todo, pc, own, privateKey,
                 publicKey, deletes, breaks, raises>>

Task(s) ==
  \/ Start(s) \/ GetFound(s) \/ GetNoNode(s) \/ GetLost(s)
  \/ CreateDone(s) \/ CreateExists(s) \/ CreateLost(s)

Next ==
  \/ Delete
  \/ \E s \in Services :
       \/ Break(s) \/ Connect(s) \/ Tick(s) \/ Initialize(s)
       \/ Task(s) \/ CallRaises(s) \/ GetAuthorizationHeader(s)

Spec == Init /\ [][Next]_vars

\* Applications initialize and connect, their loops and clocks run, calls return.
Fairness ==
  \A s \in Services : /\ WF_vars(Initialize(s)) /\ WF_vars(Connect(s))
                      /\ WF_vars(Tick(s)) /\ WF_vars(Task(s))

FairSpec == Spec /\ Fairness
-----------------------------------------------------------------------------
(* A service is of one mind: between tasks its token is signed by its      *)
(* private key, and the public key that it trusts belongs to the same key, *)
(* unless it was not initialized when it got the key (lines 112-121).      *)
OneKey ==
  \A s \in Services : Idle(s) =>
    /\ tokenKey[s] = privateKey[s]
    /\ s \notin Early => publicKey[s] = privateKey[s]

(* A service that has a key never lets its token come so near to its       *)
(* expiration that a request could outlive it, even when ZooKeeper cannot  *)
(* be reached for hours (lines 120-121): after each task the leeway is     *)
(* kept, unless a task has raised or the key was removed.                  *)
Renewed ==
  deletes = 0 /\ raises = 0 =>
    \A s \in Services :
      Idle(s) /\ todo[s] = 0 /\ privateKey[s] # NoKey => tokenAge[s] + Leeway <= Lifetime

\* When the administrator and the network leave them alone, all services agree
\* (lines 124-165): each signs with the key of the znode, and trusts it unless it
\* may have got that key before its initialize().
Converges ==
  <>[](\A s \in Services : /\ zkKey # NoKey
                           /\ tokenKey[s] = zkKey
                           /\ s \notin Early => publicKey[s] = zkKey)
=============================================================================
