------------------------------- MODULE OAuth -------------------------------
(***************************************************************************)
(* The OAuth profiles of packages/cli/src/oauth: setups create the master  *)
(* key and encrypt a profile each (storage.ts, storage/master-key.ts); the *)
(* proxies that use one profile refresh its tokens when the server rejects *)
(* them (provider.ts); a login command replaces its credentials            *)
(* (commands/oauth.ts, with the flow of OAuthLogin).                       *)
(*                                                                         *)
(* A private file is written under its lock, by a compare and swap that    *)
(* undoes itself when the lock cannot be released: FileTransaction and     *)
(* PrivateLock show so much, and a write is one action here.  The          *)
(* authorization server is external: it may rotate a refresh token, which  *)
(* makes the old one worthless.                                            *)
(***************************************************************************)
EXTENDS OAuthLogin

CONSTANTS
    Setups,     \* each creates a profile of its own
    Profile,    \* the setup whose profile the proxies and the login use
    Proxies,
    MaxTokens,  \* bound: refresh tokens that the server hands out
    MaxWrites,  \* bound: versions of the profile
    MaxMishaps, \* bound: crashes and I/O errors
    Casts,      \* the programs that may run together
    None

Login == "login"

ASSUME OAuthAssumption ==
    /\ Profile \in Setups
    /\ None \notin Setups \union Proxies
    /\ Login \notin Proxies
    /\ Casts \subseteq SUBSET (Setups \union Proxies \union {Login})
    /\ MaxTokens \in Nat \ {0}
    /\ {MaxWrites, MaxMishaps} \subseteq Nat

VARIABLES
    running,   \* the programs that run
    container, \* the key is a file of the container, not an entry of the keyring
    key,       \* the setup whose random key is stored
    keyLock,   \* the setup that holds the lock of the key
    keyUndone, \* a key was stored and taken back
    setup,     \* what each setup does next
    profile,   \* the stored profiles
    valid,     \* refresh tokens that the server accepts
    issued,    \* how many it handed out
    pc,        \* what each proxy does next about a rejected token
    holder,    \* the proxy that holds the lock of the refresh
    before,    \* the snapshot of the profile that a proxy or the login read
    installed, \* the profile that a proxy wrote
    sent,      \* the token of a refresh request that the server did not see yet
    reply,     \* the token that came back, to a proxy or to the login
    outcome,   \* how the login command ended
    mishaps    \* what went wrong so far

keyVars == <<running, container, key, keyLock, keyUndone, setup>>
serverVars == <<valid, issued>>
proxyVars == <<pc, holder, installed, sent, reply>>
vars == <<keyVars, profile, serverVars, proxyVars, before, outcome, mishaps, loginVars>>

(* Tokens are numbered in the order of issue; a profile is sealed with a   *)
(* key, and its version stands for the identity of the file.               *)
Tokens == 1..MaxTokens
Rejected == 0
Contents == [version : Nat, key : Setups, token : Tokens, grant : {"setup", "login"}]

ASSUME NoneAssumption == None \notin Contents \union Tokens \union {Rejected}

TypeOK ==
    /\ LoginTypeOK
    /\ {container, keyUndone} \subseteq BOOLEAN
    /\ {key, keyLock} \subseteq Setups \union {None}
    /\ setup \in [Setups -> {"prepare", "winner", "release", "undo", "loser", "encrypt", "done",
                             "failed"}]
    /\ profile \in [Setups -> Contents \union {None}]
    /\ valid \subseteq Tokens /\ issued \in 0..MaxTokens
    /\ pc \in [Proxies -> {"idle", "lock", "read", "wait", "write", "release", "rollback",
                           "fail", "throw", "crashed"}]
    /\ holder \in Proxies \union {None}
    /\ before \in [Proxies \union {Login} -> Contents \union {None}]
    /\ installed \in [Proxies -> Contents \union {None}]
    /\ sent \in [Proxies -> Tokens \union {None}]
    /\ reply \in [Proxies \union {Login} -> Tokens \union {None, Rejected}]
    /\ outcome \in {"none", "updated", "failed"}
    /\ \A m \in mishaps : m \in [kind : {"key", "crash", "timeout", "write", "release"},
                                 of : Setups \union Proxies]

Init ==
    /\ LoginInit
    /\ running \in Casts
    /\ container \in BOOLEAN
    /\ key = None /\ keyLock = None /\ keyUndone = FALSE
    /\ setup = [s \in Setups |-> "prepare"]
    /\ profile = [s \in Setups |-> None]
    /\ valid = {} /\ issued = 0
    /\ pc = [p \in Proxies |-> "idle"]
    /\ holder = None
    /\ before = [a \in Proxies \union {Login} |-> None]
    /\ installed = [p \in Proxies |-> None]
    /\ sent = [p \in Proxies |-> None]
    /\ reply = [a \in Proxies \union {Login} |-> None]
    /\ outcome = "none"
    /\ mishaps = {}

Blame(k, a) == mishaps' = mishaps \union {[kind |-> k, of |-> a]}
Mishap(k, a) ==
    /\ Cardinality({m \in mishaps : m.kind # "timeout"}) < MaxMishaps
    /\ Blame(k, a)

(* The server hands out a token, and takes back the one it replaces. *)
Issue(replaced) ==
    /\ issued < MaxTokens
    /\ issued' = issued + 1
    /\ valid' = (valid \ replaced) \union {issued'}

NextVersion(s) == IF profile[s] = None THEN 1 ELSE profile[s].version + 1

-----------------------------------------------------------------------------
(* Setups and the master key.                                              *)

SetupMoves(s, to) == setup' = [setup EXCEPT ![s] = to]
SetupFrame == UNCHANGED <<running, container, proxyVars, before, outcome, loginVars>>

(* prepareMasterKeyForSetup: a stored key is taken.  Otherwise the lock of *)
(* the key is waited for.                                                  *)
FindKey(s) ==
    /\ setup[s] = "prepare"
    /\ key # None
    /\ SetupMoves(s, "encrypt")
    /\ SetupFrame
    /\ UNCHANGED <<key, keyLock, keyUndone, profile, serverVars, mishaps>>

LockKey(s) ==
    /\ setup[s] = "prepare"
    /\ keyLock = None
    /\ keyLock' = s
    /\ SetupMoves(s, "winner")
    /\ SetupFrame
    /\ UNCHANGED <<key, keyUndone, profile, serverVars, mishaps>>

\* Bug: a key found missing before the lock was taken is stored without another look.
StoreKeyBlindly(s) ==
    /\ setup[s] = "winner"
    /\ key' = s
    /\ SetupMoves(s, "release")
    /\ SetupFrame
    /\ UNCHANGED <<keyLock, keyUndone, profile, serverVars, mishaps>>

(* With the lock held the key is looked for again, and stored only if it   *)
(* is still missing.  A container's setup that finds one has lost.         *)
StoreKey(s) ==
    /\ setup[s] = "winner"
    /\ key' = IF key = None THEN s ELSE key
    /\ SetupMoves(s, IF container /\ key # None THEN "loser" ELSE "release")
    /\ keyLock' = IF container /\ key # None THEN None ELSE s
    /\ SetupFrame
    /\ UNCHANGED <<keyUndone, profile, serverVars, mishaps>>

ReleaseKey(s) ==
    /\ setup[s] = "release"
    /\ keyLock' = None
    /\ SetupMoves(s, "encrypt")
    /\ SetupFrame
    /\ UNCHANGED <<key, keyUndone, profile, serverVars, mishaps>>

(* The lock of the key cannot be released at first.  The setup fails; only *)
(* a key file is taken back, and its setup then looks for another's.       *)
KeyReleaseFails(s) ==
    /\ setup[s] = "release"
    /\ Mishap("key", s)
    /\ SetupMoves(s, IF container THEN "undo" ELSE "failed")
    /\ keyLock' = IF container THEN s ELSE None
    /\ SetupFrame
    /\ UNCHANGED <<key, keyUndone, profile, serverVars>>

UndoKey(s) ==
    /\ setup[s] = "undo"
    /\ key' = None
    /\ keyUndone' = TRUE
    /\ keyLock' = None
    /\ SetupMoves(s, "loser")
    /\ SetupFrame
    /\ UNCHANGED <<profile, serverVars, mishaps>>

LoadWinner(s) ==
    /\ setup[s] = "loser"
    /\ SetupMoves(s, IF key = None THEN "failed" ELSE "encrypt")
    /\ SetupFrame
    /\ UNCHANGED <<key, keyLock, keyUndone, profile, serverVars, mishaps>>

(* prepareOAuthProfileWrite loads the key once more; the profile holds the *)
(* tokens of the setup's own login.                                        *)
InstallProfile(s) ==
    /\ setup[s] = "encrypt"
    /\ key # None
    /\ IF s = Profile THEN Issue({}) ELSE UNCHANGED serverVars
    /\ profile' = [profile EXCEPT ![s] = [version |-> NextVersion(s), key |-> key,
                                          token |-> 1, grant |-> "setup"]]
    /\ SetupMoves(s, "done")
    /\ SetupFrame
    /\ UNCHANGED <<key, keyLock, keyUndone, mishaps>>

SetupFails(s) ==
    /\ setup[s] = "encrypt"
    /\ SetupMoves(s, "failed")
    /\ SetupFrame
    /\ UNCHANGED <<key, keyLock, keyUndone, profile, serverVars, mishaps>>

-----------------------------------------------------------------------------
(* Proxies: onUnauthorized.                                                *)

Moves(p, to) == pc' = [pc EXCEPT ![p] = to]
ProxyFrame == UNCHANGED <<keyVars, outcome, loginVars>>

Readable == profile[Profile] # None /\ profile[Profile].key = key

(* The server answers 401; the proxy waits for the lock of the refresh. *)
OnUnauthorized(p) ==
    /\ pc[p] = "idle"
    /\ Readable
    /\ profile[Profile].version < MaxWrites
    /\ Moves(p, "lock")
    /\ ProxyFrame
    /\ UNCHANGED <<profile, serverVars, holder, before, installed, sent, reply, mishaps>>

\* Bug: proxies refresh without a lock.
LockNothing(p) ==
    /\ pc[p] = "lock"
    /\ holder' = p
    /\ Moves(p, "read")
    /\ ProxyFrame
    /\ UNCHANGED <<profile, serverVars, before, installed, sent, reply, mishaps>>

LockRefresh(p) ==
    /\ pc[p] = "lock"
    /\ holder = None
    /\ holder' = p
    /\ Moves(p, "read")
    /\ ProxyFrame
    /\ UNCHANGED <<profile, serverVars, before, installed, sent, reply, mishaps>>

LockTimesOut(p) ==
    /\ pc[p] = "lock"
    /\ holder # None
    /\ Blame("timeout", p)
    /\ Moves(p, "throw")
    /\ ProxyFrame
    /\ UNCHANGED <<profile, serverVars, holder, before, installed, sent, reply>>

(* readOAuthProfileSnapshot and refreshProfile up to the request.  The     *)
(* binding and the issuers of this profile are the ones it was set up for. *)
ReadFails(p) ==
    /\ pc[p] = "read"
    /\ ~Readable
    /\ Moves(p, "fail")
    /\ ProxyFrame
    /\ UNCHANGED <<profile, serverVars, holder, before, installed, sent, reply, mishaps>>

RequestRefresh(p) ==
    /\ pc[p] = "read"
    /\ Readable
    /\ before' = [before EXCEPT ![p] = profile[Profile]]
    /\ sent' = [sent EXCEPT ![p] = profile[Profile].token]
    /\ reply' = [reply EXCEPT ![p] = None]
    /\ Moves(p, "wait")
    /\ ProxyFrame
    /\ UNCHANGED <<profile, serverVars, holder, installed, mishaps>>

(* The server answers a request, also one whose sender gave up: it rotates *)
(* the token, or lets it stay, or rejects one that it no longer accepts.   *)
ServeRefresh(p) ==
    /\ sent[p] # None
    /\ sent' = [sent EXCEPT ![p] = None]
    /\ \/ /\ sent[p] \in valid
          /\ Issue({sent[p]})
          /\ reply' = [reply EXCEPT ![p] = issued']
       \/ /\ reply' = [reply EXCEPT ![p] = IF sent[p] \in valid THEN sent[p] ELSE Rejected]
          /\ UNCHANGED serverVars
    /\ ProxyFrame
    /\ UNCHANGED <<profile, pc, holder, before, installed, mishaps>>

ReceiveTokens(p) ==
    /\ pc[p] = "wait"
    /\ reply[p] # None
    /\ Moves(p, IF reply[p] = Rejected THEN "fail" ELSE "write")
    /\ ProxyFrame
    /\ UNCHANGED <<profile, serverVars, holder, before, installed, sent, reply, mishaps>>

\* Bug: the timeout reaches the fetch only, and one that ignores it is awaited.
RefreshOutlastsTimeout(p) ==
    /\ pc[p] = "wait"
    /\ sent[p] = None
    /\ Blame("timeout", p)
    /\ Moves(p, "fail")
    /\ ProxyFrame
    /\ UNCHANGED <<profile, serverVars, holder, before, installed, sent, reply>>

(* Thirty seconds pass, the proxy stops, or the request fails.  What was   *)
(* sent may still reach the server.                                        *)
RefreshTimesOut(p) ==
    /\ pc[p] = "wait"
    /\ Blame("timeout", p)
    /\ Moves(p, "fail")
    /\ ProxyFrame
    /\ UNCHANGED <<profile, serverVars, holder, before, installed, sent, reply>>

\* Bug: the profile is written whatever is there.
Overwritten(snapshot) == TRUE

(* writeOAuthProfile: only over the snapshot that was read. *)
Unchanged(snapshot) == profile[Profile] = snapshot

\* Bug: the refresh token of the answer is forgotten.
StoreAccessToken(p) ==
    /\ pc[p] = "write"
    /\ IF key # None /\ Unchanged(before[p])
       THEN /\ profile' = [profile EXCEPT ![Profile] = [@ EXCEPT !.version = @ + 1, !.key = key]]
            /\ installed' = [installed EXCEPT ![p] = profile'[Profile]]
            /\ Moves(p, "release")
       ELSE /\ Moves(p, "fail")
            /\ UNCHANGED <<profile, installed>>
    /\ ProxyFrame
    /\ UNCHANGED <<serverVars, holder, before, sent, reply, mishaps>>

Renewed(p) == [profile[Profile] EXCEPT !.version = @ + 1, !.key = key, !.token = reply[p]]

StoreTokens(p) ==
    /\ pc[p] = "write"
    /\ IF key # None /\ Unchanged(before[p])
       THEN /\ profile' = [profile EXCEPT ![Profile] = Renewed(p)]
            /\ installed' = [installed EXCEPT ![p] = profile'[Profile]]
            /\ Moves(p, "release")
       ELSE /\ Moves(p, "fail")
            /\ UNCHANGED <<profile, installed>>
    /\ ProxyFrame
    /\ UNCHANGED <<serverVars, holder, before, sent, reply, mishaps>>

StoreFails(p) ==
    /\ pc[p] = "write"
    /\ Mishap("write", p)
    /\ Moves(p, "fail")
    /\ ProxyFrame
    /\ UNCHANGED <<profile, serverVars, holder, before, installed, sent, reply>>

Release(p) ==
    /\ pc[p] \in {"release", "fail"}
    /\ holder' = None
    /\ Moves(p, IF pc[p] = "release" THEN "idle" ELSE "throw")
    /\ ProxyFrame
    /\ UNCHANGED <<profile, serverVars, before, installed, sent, reply, mishaps>>

(* The lock of the refresh is not released at first: the old profile is    *)
(* put back in place of the one that was installed.                        *)
ReleaseFails(p) ==
    /\ pc[p] = "release"
    /\ Mishap("release", p)
    /\ Moves(p, "rollback")
    /\ ProxyFrame
    /\ UNCHANGED <<profile, serverVars, holder, before, installed, sent, reply>>

RollBack(p) ==
    /\ pc[p] = "rollback"
    /\ profile' = IF Unchanged(installed[p])
                  THEN [profile EXCEPT ![Profile] = [before[p] EXCEPT !.version = installed[p].version + 1]]
                  ELSE profile
    /\ Moves(p, "fail")
    /\ ProxyFrame
    /\ UNCHANGED <<serverVars, holder, before, installed, sent, reply, mishaps>>

(* The proxy dies; its lock is taken from it. *)
Crash(p) ==
    /\ pc[p] \notin {"idle", "throw", "crashed"}
    /\ Mishap("crash", p)
    /\ holder' = IF holder = p THEN None ELSE holder
    /\ Moves(p, "crashed")
    /\ ProxyFrame
    /\ UNCHANGED <<profile, serverVars, before, installed, sent, reply>>

-----------------------------------------------------------------------------
(* The login command.                                                      *)

LoginFrame == UNCHANGED <<keyVars, proxyVars, mishaps>>

RunOAuthLoginCommand ==
    /\ Login \in running
    /\ Readable
    /\ before' = [before EXCEPT ![Login] = profile[Profile]]
    /\ LoginStart
    /\ LoginFrame
    /\ UNCHANGED <<profile, serverVars, outcome>>

(* The flow runs; the server hands out the tokens of a new grant. *)
LoginStep ==
    /\ \/ (LoginProceeds \/ LoginDepends) /\ UNCHANGED <<serverVars, reply>>
       \/ SdkExchanges /\ Issue({}) /\ reply' = [reply EXCEPT ![Login] = issued']
    /\ UNCHANGED <<keyVars, profile, pc, holder, installed, sent, before, outcome, mishaps>>

(* The credentials replace the profile that was read at the start, if it   *)
(* is still there and nothing aborted meanwhile.                           *)
StoreLogin ==
    /\ phase = "done" /\ granted
    /\ outcome = "none"
    /\ IF key # None /\ Unchanged(before[Login])
       THEN /\ profile' = [profile EXCEPT ![Profile] =
                 [version |-> @.version + 1, key |-> key, token |-> reply[Login],
                  grant |-> "login"]]
            /\ outcome' = "updated"
       ELSE /\ profile' = profile
            /\ outcome' = "failed"
    /\ LoginFrame
    /\ UNCHANGED <<serverVars, before, loginVars>>

LoginFails ==
    /\ phase = "done"
    /\ outcome = "none"
    /\ ~granted \/ aborted
    /\ outcome' = "failed"
    /\ LoginFrame
    /\ UNCHANGED <<profile, serverVars, before, loginVars>>

-----------------------------------------------------------------------------
SetupProceeds(s) ==
    \/ FindKey(s) \/ LockKey(s) \/ StoreKey(s) \/ ReleaseKey(s) \/ KeyReleaseFails(s)
    \/ UndoKey(s) \/ LoadWinner(s) \/ InstallProfile(s) \/ SetupFails(s)

ProxyProceeds(p) ==
    \/ LockRefresh(p) \/ LockTimesOut(p) \/ ReadFails(p) \/ RequestRefresh(p) \/ ReceiveTokens(p)
    \/ RefreshTimesOut(p) \/ StoreTokens(p) \/ Release(p) \/ RollBack(p)

Next ==
    \/ \E s \in Setups \intersect running : SetupProceeds(s)
    \/ \E p \in Proxies \intersect running :
        ProxyProceeds(p) \/ OnUnauthorized(p) \/ ServeRefresh(p) \/ StoreFails(p)
        \/ ReleaseFails(p) \/ Crash(p)
    \/ RunOAuthLoginCommand \/ LoginStep \/ StoreLogin \/ LoginFails

(* A live program takes its steps, and its timers fire.  The server, the   *)
(* user and the browser need not do anything.                              *)
Fairness ==
    /\ \A p \in Proxies : WF_vars(ProxyProceeds(p))
    /\ WF_vars(LoginProceeds /\ LoginStep) /\ WF_vars(LoginAbort /\ LoginStep)
    /\ WF_vars(StoreLogin \/ LoginFails)

Spec == Init /\ [][Next]_vars /\ Fairness

-----------------------------------------------------------------------------
(* Properties                                                              *)

(* However setups race to create the master key, every stored profile can  *)
(* be decrypted with the key that is stored (master-key.ts:46-62,          *)
(* 124-143); only a key file that is taken back, because its lock could    *)
(* not be released, may leave one behind that was sealed meanwhile.        *)
ProfilesDecrypt == \A s \in Setups : profile[s] # None => keyUndone \/ profile[s].key = key

(* The server's only valid refresh token is never lost by refreshes and    *)
(* logins that overlap: when the stored one is worthless, a live proxy     *)
(* holds its successor, or a proxy died, gave up on a request, or could    *)
(* not write or unlock (provider.ts:58-80).                                *)
TokensSurvive ==
    profile[Profile] # None /\ profile[Profile].token \notin valid =>
        \/ \E p \in Proxies : pc[p] \in {"wait", "write"} /\ reply[p] \in valid
        \/ keyUndone \/ \E m \in mishaps : m.of \in Proxies

(* The user is told to log in again only for a reason: something went      *)
(* wrong, or a login replaced the profile during the refresh               *)
(* (provider.ts:81-83).  Two proxies never spoil each other's refresh.     *)
LoginRequiredIsMeant ==
    (\E p \in Proxies : pc[p] = "throw") =>
        outcome = "updated" \/ keyUndone \/ \E m \in mishaps : m.of \in Proxies

(* No refresh, and no rollback of one, that began before a login puts the  *)
(* credentials back that the login replaced (commands/oauth.ts:185).       *)
LoginStays == [][profile[Profile] # None /\ profile[Profile].grant = "login" =>
                    profile'[Profile].grant = "login"]_vars

(* A login ends with its listener closed and without state or code, on     *)
(* every path, and was authorized by a redirect of its own state           *)
(* (login.ts:152-166, callback.ts:84-118, 192-230).                        *)
LoginLeavesNothing ==
    /\ phase = "done" => listener \in {"none", "closed"} /\ secrets \subseteq {"verifier"}
    /\ granted => settled = "ours"

(* Every refresh ends, whatever the server does, and so does every login,  *)
(* except that a browser's connection to the listener can hold up its      *)
(* closing (provider.ts:98-113, login.ts:60-63, 135-148).                  *)
EveryoneEnds ==
    /\ \A p \in Proxies : pc[p] = "lock" ~> pc[p] \in {"idle", "throw", "crashed"}
    /\ phase = "delivery" ~> phase = "done" \/ (listener = "closing" /\ held)
=============================================================================
