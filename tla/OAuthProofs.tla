---------------------------- MODULE OAuthProofs ----------------------------
(***************************************************************************)
(* For any number of setups, proxies and tokens: stored profiles can be    *)
(* decrypted, the refresh token the server accepts is never lost, nobody   *)
(* is told to log in without a reason, a login is not undone by a refresh  *)
(* and leaves nothing behind.                                              *)
(*                                                                         *)
(* The argument: whatever was read or stored is sealed with the key, which *)
(* only a taken-back key file replaces (Keyed).  Only the holder of the    *)
(* lock has a request at the server (Tied); a token it was sent is the     *)
(* stored one unless a login stored its own, which nobody has used before  *)
(* (Bounded, Fresh).  So, as long as nothing goes wrong, either the stored *)
(* token is valid or its successor is in the hands of that proxy, whose    *)
(* compare and swap will succeed (Secured).                                *)
(***************************************************************************)
EXTENDS OAuth, TLAPS

(* Where a proxy holds the lock. *)
Inside == {"read", "wait", "write", "release", "rollback", "fail"}

(* The login's own part. *)
Orderly ==
    /\ phase = "idle" => sdk = "idle" /\ ~granted /\ listener = "none"
    /\ phase = "closing" => listener # "open"
    /\ phase = "done" => listener \in {"none", "closed"}
    /\ phase \in {"closing", "done"} => secrets \subseteq {"verifier"}
    /\ sdk \in {"exchanging", "authorized"} => settled = "ours"
    /\ granted => phase \in {"close", "closing", "done"} /\ sdk = "authorized"

(* What a step of a proxy relies on. *)
Tied ==
    /\ setup[Profile] # "done" => profile[Profile] = None
    /\ profile[Profile] = None =>
         /\ issued = 0 /\ phase = "idle"
         /\ \A p \in Proxies : pc[p] = "idle" /\ sent[p] = None
    /\ sdk = "authorized" => reply[Login] \in Tokens
    /\ \A p \in Proxies :
         /\ holder = p <=> pc[p] \in Inside
         /\ pc[p] \in {"wait", "write", "release", "rollback"} => before[p] # None
         /\ pc[p] \in {"release", "rollback"} =>
              installed[p] # None /\ installed[p].grant = before[p].grant
         /\ pc[p] = "write" => reply[p] \in Tokens
         /\ sent[p] # None => reply[p] = None

(* Whatever was read or stored is sealed with the key. *)
Keyed ==
    ~keyUndone =>
        /\ \A s \in Setups : profile[s] # None => profile[s].key = key
        /\ \A p \in Proxies : before[p] # None => before[p].key = key

(* Tokens in use were issued. *)
Bounded ==
    /\ profile[Profile] # None => profile[Profile].token <= issued
    /\ \A p \in Proxies :
         /\ sent[p] # None => sent[p] <= issued
         /\ reply[p] # None => reply[p] <= issued
         /\ before[p] # None => before[p].token <= issued
    /\ reply[Login] # None => reply[Login] <= issued

(* Nobody else uses the token of a login that is not stored yet. *)
Fresh ==
    outcome = "none" /\ reply[Login] \in Tokens =>
        /\ reply[Login] \in valid
        /\ profile[Profile] # None => profile[Profile].token # reply[Login]
        /\ \A p \in Proxies :
             /\ sent[p] # reply[Login] /\ reply[p] # reply[Login]
             /\ before[p] # None => before[p].token # reply[Login]

(* Nothing went wrong so far. *)
Clean == ~keyUndone /\ \A m \in mishaps : m.of \notin Proxies

(* The stored token is valid or its successor is about to be stored. *)
Secured ==
    Clean =>
        /\ profile[Profile] # None /\ profile[Profile].token \notin valid =>
             \E p \in Proxies : /\ pc[p] \in {"wait", "write"}
                                /\ reply[p] \in valid
                                /\ before[p] = profile[Profile]
        /\ \A p \in Proxies :
             /\ pc[p] \notin {"crashed", "rollback"}
             /\ sent[p] # None => /\ pc[p] = "wait"
                                  /\ sent[p] = before[p].token
                                  /\ sent[p] \in valid
             /\ pc[p] \in {"wait", "write"} /\ reply[p] # None => reply[p] \in valid
             /\ pc[p] \in {"wait", "write"} /\ before[p] # profile[Profile] =>
                  /\ outcome = "updated"
                  /\ profile[Profile].token \in valid
                  /\ profile[Profile].token # before[p].token
             /\ pc[p] \in {"fail", "throw"} => outcome = "updated"

IInv == TypeOK /\ Orderly /\ Tied /\ Keyed /\ Bounded /\ Fresh /\ Secured

-----------------------------------------------------------------------------
(* The login's own part.                                                   *)

LEMMA FlowKeeps ==
    ASSUME LoginTypeOK, Orderly, LoginProceeds \/ LoginDepends
    PROVE  /\ LoginTypeOK' /\ Orderly'
           /\ phase' = "idle" <=> phase = "idle"
           /\ sdk' = "authorized" => sdk = "authorized"
<1> USE DEF Phases, Waiting, Redirects, ValidateCallback
<1>1. CASE LoginAbort \/ LoginThrows
  <2>1. LoginTypeOK'
    BY <1>1 DEF LoginTypeOK, LoginAbort, LoginThrows
  <2>2. Orderly'
    BY <1>1 DEF Orderly, LoginAbort, LoginThrows
  <2>3. (phase' = "idle" <=> phase = "idle") /\ (sdk' = "authorized" => sdk = "authorized")
    BY <1>1 DEF LoginAbort, LoginThrows
  <2> QED
    BY <2>1, <2>2, <2>3
<1>2. CASE SelectDelivery \/ SelectCallback \/ ResolveDiscovery
  <2>1. LoginTypeOK'
    BY <1>2 DEF LoginTypeOK, SelectDelivery, SelectCallback, ResolveDiscovery
  <2>2. Orderly'
    BY <1>2 DEF Orderly, SelectDelivery, SelectCallback, ResolveDiscovery
  <2>3. (phase' = "idle" <=> phase = "idle") /\ (sdk' = "authorized" => sdk = "authorized")
    BY <1>2 DEF SelectDelivery, SelectCallback, ResolveDiscovery
  <2> QED
    BY <2>1, <2>2, <2>3
<1>3. CASE ConfirmServer \/ SdkStarts \/ SdkRedirects \/ AwaitRedirect
  <2>1. LoginTypeOK'
    BY <1>3 DEF LoginTypeOK, ConfirmServer, SdkStarts, SdkRedirects, AwaitRedirect
  <2>2. Orderly'
    BY <1>3 DEF Orderly, ConfirmServer, SdkStarts, SdkRedirects, AwaitRedirect
  <2>3. (phase' = "idle" <=> phase = "idle") /\ (sdk' = "authorized" => sdk = "authorized")
    BY <1>3 DEF ConfirmServer, SdkStarts, SdkRedirects, AwaitRedirect
  <2> QED
    BY <2>1, <2>2, <2>3
<1>4. CASE \E redirect \in Redirects : ListenerRequest(redirect) \/ PasteRedirect(redirect)
  <2>1. LoginTypeOK'
    BY <1>4 DEF LoginTypeOK, ListenerRequest, PasteRedirect
  <2>2. Orderly'
    BY <1>4 DEF Orderly, ListenerRequest, PasteRedirect
  <2>3. (phase' = "idle" <=> phase = "idle") /\ (sdk' = "authorized" => sdk = "authorized")
    BY <1>4 DEF ListenerRequest, PasteRedirect
  <2> QED
    BY <2>1, <2>2, <2>3
<1>5. CASE HoldConnection \/ ReleaseConnection
  <2>1. LoginTypeOK'
    BY <1>5 DEF LoginTypeOK, HoldConnection, ReleaseConnection
  <2>2. Orderly'
    BY <1>5 DEF Orderly, HoldConnection, ReleaseConnection
  <2>3. (phase' = "idle" <=> phase = "idle") /\ (sdk' = "authorized" => sdk = "authorized")
    BY <1>5 DEF HoldConnection, ReleaseConnection
  <2> QED
    BY <2>1, <2>2, <2>3
<1>6. CASE ReceiveRedirect \/ RejectRedirect
  <2>1. LoginTypeOK'
    BY <1>6 DEF LoginTypeOK, ReceiveRedirect, RejectRedirect
  <2>2. Orderly'
    BY <1>6 DEF Orderly, ReceiveRedirect, RejectRedirect
  <2>3. (phase' = "idle" <=> phase = "idle") /\ (sdk' = "authorized" => sdk = "authorized")
    BY <1>6 DEF ReceiveRedirect, RejectRedirect
  <2> QED
    BY <2>1, <2>2, <2>3
<1>7. CASE SdkFails \/ Authorized
  <2>1. LoginTypeOK'
    BY <1>7 DEF LoginTypeOK, SdkFails, Authorized
  <2>2. Orderly'
    BY <1>7 DEF Orderly, SdkFails, Authorized
  <2>3. (phase' = "idle" <=> phase = "idle") /\ (sdk' = "authorized" => sdk = "authorized")
    BY <1>7 DEF SdkFails, Authorized
  <2> QED
    BY <2>1, <2>2, <2>3
<1>8. CASE Finally \/ Finished
  <2>1. LoginTypeOK'
    BY <1>8 DEF LoginTypeOK, Finally, Finished
  <2>2. Orderly'
    <3>1. listener \in {"none", "open", "closing", "closed"}
      BY DEF LoginTypeOK
    <3> QED
      BY <1>8, <3>1 DEF Orderly, Finally, Finished
  <2>3. (phase' = "idle" <=> phase = "idle") /\ (sdk' = "authorized" => sdk = "authorized")
    BY <1>8 DEF Finally, Finished
  <2> QED
    BY <2>1, <2>2, <2>3
<1> QED
  BY <1>1, <1>2, <1>3, <1>4, <1>5, <1>6, <1>7, <1>8 DEF LoginProceeds, LoginDepends

LEMMA ExchangeKeeps ==
    ASSUME LoginTypeOK, Orderly, SdkExchanges
    PROVE  LoginTypeOK' /\ Orderly' /\ phase' = phase /\ phase # "idle"
  BY DEF LoginTypeOK, Orderly, Phases, Waiting, Redirects, SdkExchanges

LEMMA StartKeeps ==
    ASSUME LoginTypeOK, Orderly, LoginStart
    PROVE  LoginTypeOK' /\ Orderly' /\ phase' # "idle" /\ sdk' = sdk
  BY DEF LoginTypeOK, Orderly, Phases, Waiting, Redirects, LoginStart

LEMMA LoginUnchanged ==
    ASSUME LoginTypeOK, Orderly, UNCHANGED loginVars
    PROVE  LoginTypeOK' /\ Orderly' /\ phase' = phase /\ sdk' = sdk
  BY DEF LoginTypeOK, Orderly, Phases, Waiting, Redirects, loginVars

-----------------------------------------------------------------------------
(* The setups.                                                             *)

(* A step that touches neither proxies, server, profiles nor the login.    *)
LEMMA QuietKeeps ==
    ASSUME IInv,
           UNCHANGED <<profile, serverVars, proxyVars, before, outcome, loginVars>>,
           setup'[Profile] = "done" <=> setup[Profile] = "done",
           keyUndone => keyUndone', mishaps \subseteq mishaps'
    PROVE  Orderly' /\ Tied' /\ Bounded' /\ Fresh' /\ Secured'
<1>1. Orderly' /\ phase' = phase /\ sdk' = sdk
  BY LoginUnchanged DEF IInv, TypeOK
<1>2. Tied'
  BY <1>1 DEF IInv, Tied, serverVars, proxyVars
<1>3. Bounded' /\ Fresh'
  BY DEF IInv, Bounded, Fresh, serverVars, proxyVars
<1>4. Secured'
  <2>1. Clean' => Clean
    BY DEF Clean
  <2> QED
    BY <2>1 DEF IInv, Secured, serverVars, proxyVars
<1> QED
  BY <1>1, <1>2, <1>3, <1>4

LEMMA KeyStepKeeps ==
    ASSUME IInv, NEW s \in Setups,
           \/ FindKey(s) \/ LockKey(s) \/ StoreKey(s) \/ ReleaseKey(s)
           \/ KeyReleaseFails(s) \/ UndoKey(s) \/ LoadWinner(s) \/ SetupFails(s)
    PROVE  IInv'
<1> USE DEF SetupMoves, SetupFrame
<1>1. /\ UNCHANGED <<profile, serverVars, proxyVars, before, outcome, loginVars>>
      /\ UNCHANGED <<container, running>>
  BY DEF FindKey, LockKey, StoreKey, ReleaseKey, KeyReleaseFails, UndoKey, LoadWinner, SetupFails
<1>2. /\ setup' \in [Setups -> {"prepare", "winner", "release", "undo", "loser", "encrypt",
                                "done", "failed"}]
      /\ setup'[Profile] = "done" <=> setup[Profile] = "done"
  <2>1. PICK to \in {"winner", "release", "undo", "loser", "encrypt", "failed"} : SetupMoves(s, to)
    BY DEF FindKey, LockKey, StoreKey, ReleaseKey, KeyReleaseFails, UndoKey, LoadWinner,
           SetupFails
  <2>2. setup[s] # "done"
    BY DEF FindKey, LockKey, StoreKey, ReleaseKey, KeyReleaseFails, UndoKey, LoadWinner,
           SetupFails
  <2> QED
    BY <2>1, <2>2, OAuthAssumption DEF IInv, TypeOK
<1>3. /\ {key', keyLock'} \subseteq Setups \union {None}
      /\ keyUndone' \in BOOLEAN
      /\ keyUndone => keyUndone'
  <2>1. {key', keyLock'} \subseteq Setups \union {None}
    BY DEF FindKey, LockKey, StoreKey, ReleaseKey, KeyReleaseFails, UndoKey, LoadWinner,
           SetupFails, IInv, TypeOK
  <2>2. keyUndone' = keyUndone \/ keyUndone' = TRUE
    BY DEF FindKey, LockKey, StoreKey, ReleaseKey, KeyReleaseFails, UndoKey, LoadWinner,
           SetupFails
  <2>3. keyUndone' \in BOOLEAN
    BY <2>2 DEF IInv, TypeOK
  <2>4. keyUndone => keyUndone'
    BY <2>2
  <2> QED
    BY <2>1, <2>3, <2>4
<1>4. mishaps' = mishaps \/ Blame("key", s)
  BY DEF FindKey, LockKey, StoreKey, ReleaseKey, KeyReleaseFails, UndoKey, LoadWinner,
         SetupFails, Mishap
<1>5. /\ mishaps \subseteq mishaps'
      /\ \A m \in mishaps' : m \in [kind : {"key", "crash", "timeout", "write", "release"},
                                    of : Setups \union Proxies]
  BY <1>4 DEF Blame, IInv, TypeOK
<1>6. Orderly' /\ Tied' /\ Bounded' /\ Fresh' /\ Secured'
  BY <1>1, <1>2, <1>3, <1>5, QuietKeeps
<1>7. TypeOK'
  <2>1. LoginTypeOK'
    BY <1>1, LoginUnchanged DEF IInv, TypeOK
  <2> QED
    BY <2>1, <1>1, <1>2, <1>3, <1>5 DEF IInv, TypeOK, serverVars, proxyVars
<1>8. Keyed'
  <2>1. keyUndone' \/ key' = key \/ key = None
    BY DEF FindKey, LockKey, StoreKey, ReleaseKey, KeyReleaseFails, UndoKey, LoadWinner,
           SetupFails
  <2>2. \A s2 \in Setups : profile[s2] # None => profile[s2].key # None
    BY OAuthAssumption DEF IInv, TypeOK, Contents
  <2>3. \A p \in Proxies : before[p] # None => before[p].key # None
    BY OAuthAssumption DEF IInv, TypeOK, Contents
  <2> QED
    BY <2>1, <2>2, <2>3, <1>1, <1>3 DEF IInv, Keyed
<1> QED
  BY <1>6, <1>7, <1>8 DEF IInv

LEMMA InstallKeeps ==
    ASSUME IInv, NEW s \in Setups, InstallProfile(s)
    PROVE  IInv'
<1> USE DEF SetupFrame, SetupMoves
<1>1. LoginTypeOK' /\ Orderly' /\ phase' = phase /\ sdk' = sdk
  BY LoginUnchanged DEF IInv, TypeOK, InstallProfile
<1>2. NextVersion(s) \in Nat /\ key \in Setups /\ 1 \in Tokens
  BY OAuthAssumption DEF IInv, TypeOK, InstallProfile, NextVersion, Contents, Tokens
<1>3. [version |-> NextVersion(s), key |-> key, token |-> 1, grant |-> "setup"] \in Contents
  BY <1>2 DEF Contents
<1>4. /\ profile' \in [Setups -> Contents \union {None}]
      /\ profile'[s] # None /\ profile'[s].key = key /\ profile'[s].token = 1
      /\ \A x \in Setups : x # s => profile'[x] = profile[x]
  BY <1>3, NoneAssumption DEF IInv, TypeOK, InstallProfile
<1>5. s = Profile => issued = 0 /\ issued' = 1 /\ valid' = valid \union {1} /\ profile[Profile] = None
  BY DEF IInv, TypeOK, Tied, InstallProfile, Issue
<1>6. s # Profile => UNCHANGED <<issued, valid>>
  BY DEF InstallProfile, serverVars
<1>7. /\ UNCHANGED <<proxyVars, before, outcome, mishaps, key, keyLock, keyUndone, running, container>>
      /\ setup' \in [Setups -> {"prepare", "winner", "release", "undo", "loser", "encrypt",
                                "done", "failed"}]
      /\ setup'[s] = "done" /\ \A x \in Setups : x # s => setup'[x] = setup[x]
  BY DEF InstallProfile, IInv, TypeOK
<1>8. valid' \subseteq Tokens /\ issued' \in 0..MaxTokens
  <2>1. 1 \in Tokens /\ 1 \in 0..MaxTokens
    BY OAuthAssumption DEF Tokens
  <2>2. CASE s = Profile
    BY <1>5, <2>1, <2>2 DEF IInv, TypeOK
  <2>3. CASE s # Profile
    BY <1>6, <2>3 DEF IInv, TypeOK
  <2> QED
    BY <2>2, <2>3
<1>9. TypeOK'
  BY <1>1, <1>4, <1>7, <1>8 DEF IInv, TypeOK, proxyVars
<1>10. Tied'
  BY <1>1, <1>4, <1>5, <1>6, <1>7, OAuthAssumption DEF IInv, Tied, proxyVars
<1>11. Keyed'
  BY <1>4, <1>7 DEF IInv, Keyed
<1>12. Bounded'
  <2>1. issued \in Nat /\ issued' \in Nat /\ issued <= issued'
    BY <1>5, <1>6, <1>8, OAuthAssumption DEF IInv, TypeOK
  <2>2. /\ \A p \in Proxies : sent[p] \in Nat \union {None}
        /\ \A a \in Proxies \union {Login} :
             /\ reply[a] \in Nat \union {None}
             /\ before[a] # None => before[a].token \in Nat
    BY OAuthAssumption DEF IInv, TypeOK, Tokens, Rejected, Contents
  <2>3. /\ reply' = reply /\ sent' = sent /\ before' = before
    BY <1>7 DEF proxyVars
  <2>4. profile'[Profile] # None => profile'[Profile].token <= issued'
    <3>1. CASE s = Profile
      BY <1>4, <1>5, <3>1
    <3>2. CASE s # Profile
      BY <1>4, <1>6, <3>2, OAuthAssumption DEF IInv, Bounded
    <3> QED
      BY <3>1, <3>2
  <2> QED
    BY <2>1, <2>2, <2>3, <2>4 DEF IInv, Bounded
<1>13. Fresh'
  BY <1>4, <1>5, <1>6, <1>7, OAuthAssumption, NoneAssumption DEF IInv, Fresh, Bounded, TypeOK, Tokens, proxyVars
<1>14. Secured'
  <2>1. Clean' => Clean
    BY <1>7 DEF Clean
  <2>2. CASE s = Profile
    BY <2>1, <2>2, <1>4, <1>5, <1>7 DEF IInv, Secured, Tied, proxyVars
  <2>3. CASE s # Profile
    BY <2>1, <2>3, <1>4, <1>6, <1>7, OAuthAssumption DEF IInv, Secured, proxyVars
  <2> QED
    BY <2>2, <2>3
<1> QED
  BY <1>1, <1>9, <1>10, <1>11, <1>12, <1>13, <1>14 DEF IInv

-----------------------------------------------------------------------------
(* The proxies.                                                            *)

(* The steps that only move a proxy, perhaps with the lock or a mishap.     *)
MovesOnly(p) ==
    \/ OnUnauthorized(p) \/ LockRefresh(p) \/ LockTimesOut(p) \/ ReadFails(p)
    \/ ReceiveTokens(p) \/ RefreshTimesOut(p) \/ StoreFails(p) \/ Release(p)
    \/ ReleaseFails(p) \/ Crash(p)

Places == {"lock", "read", "wait", "write", "release", "rollback", "fail", "throw", "idle", "crashed"}

LEMMA ProxyMoves ==
    ASSUME IInv, NEW p \in Proxies, NEW to, Moves(p, to)
    PROVE  /\ pc'[p] = to
           /\ \A q \in Proxies : q # p => pc'[q] = pc[q]
  BY DEF IInv, TypeOK, Moves

(* Where such a step takes the proxy, and why. *)
Effect(p) ==
    \/ /\ pc[p] = "idle" /\ pc'[p] = "lock"
       /\ holder' = holder
    \/ /\ pc[p] = "lock" /\ pc'[p] = "read"
       /\ holder = None /\ holder' = p
    \/ /\ pc[p] = "read" /\ pc'[p] = "fail"
       /\ holder' = holder
       /\ ~Readable
    \/ /\ pc[p] = "wait" /\ pc'[p] = "write"
       /\ holder' = holder
       /\ reply[p] \in Tokens
    \/ /\ pc[p] = "wait" /\ pc'[p] = "fail"
       /\ holder' = holder
       /\ reply[p] = Rejected
    \/ /\ \/ pc[p] = "release" /\ pc'[p] = "idle"
          \/ pc[p] = "fail" /\ pc'[p] = "throw"
       /\ holder' = None
    \/ /\ \/ pc[p] = "lock" /\ pc'[p] = "throw"
          \/ pc[p] \in {"wait", "write"} /\ pc'[p] = "fail"
          \/ pc[p] = "release" /\ pc'[p] = "rollback"
       /\ holder' = holder
       /\ ~Clean'
    \/ /\ pc[p] \notin {"idle", "throw", "crashed"} /\ pc'[p] = "crashed"
       /\ holder' = IF holder = p THEN None ELSE holder
       /\ ~Clean'

LEMMA MovesEffect ==
    ASSUME IInv, NEW p \in Proxies, MovesOnly(p)
    PROVE  Effect(p) /\ (mishaps' = mishaps \/ ~Clean')
<1> USE ProxyMoves DEF Effect
<1> DEFINE Blames == \E k \in {"crash", "timeout", "write", "release"} : Blame(k, p)
<1>1. Blames => ~Clean'
  <2> SUFFICES ASSUME NEW k \in {"crash", "timeout", "write", "release"}, Blame(k, p)
               PROVE  ~Clean'
    OBVIOUS
  <2>1. [kind |-> k, of |-> p] \in mishaps' /\ [kind |-> k, of |-> p].of = p
    BY DEF Blame
  <2> QED
    BY <2>1 DEF Clean
<1>2. CASE OnUnauthorized(p)
  BY <1>2 DEF OnUnauthorized
<1>3. CASE LockRefresh(p)
  BY <1>3 DEF LockRefresh
<1>4. CASE LockTimesOut(p)
  BY <1>1, <1>4 DEF LockTimesOut
<1>5. CASE ReadFails(p)
  BY <1>5 DEF ReadFails
<1>6. CASE ReceiveTokens(p)
  <2>1. reply[p] \in Tokens \union {None, Rejected}
    BY DEF IInv, TypeOK
  <2> QED
    BY <1>6, <2>1 DEF ReceiveTokens
<1>7. CASE RefreshTimesOut(p)
  BY <1>1, <1>7 DEF RefreshTimesOut
<1>8. CASE StoreFails(p)
  BY <1>1, <1>8 DEF StoreFails, Mishap
<1>9. CASE Release(p)
  BY <1>9 DEF Release
<1>10. CASE ReleaseFails(p)
  BY <1>1, <1>10 DEF ReleaseFails, Mishap
<1>11. CASE Crash(p)
  BY <1>1, <1>11 DEF Crash, Mishap
<1> QED
  BY <1>2, <1>3, <1>4, <1>5, <1>6, <1>7, <1>8, <1>9, <1>10, <1>11 DEF MovesOnly

LEMMA MovesOnlyKeeps ==
    ASSUME IInv, NEW p \in Proxies, MovesOnly(p)
    PROVE  IInv'
<1> USE DEF MovesOnly
<1>1. UNCHANGED <<profile, serverVars, before, installed, sent, reply, keyVars, outcome, loginVars>>
  BY DEF OnUnauthorized, LockRefresh, LockTimesOut, ReadFails, ReceiveTokens,
         RefreshTimesOut, StoreFails, Release, ReleaseFails, Crash, ProxyFrame
<1>2. LoginTypeOK' /\ Orderly' /\ phase' = phase /\ sdk' = sdk
  BY <1>1, LoginUnchanged DEF IInv, TypeOK
<1>3. PICK to \in Places : Moves(p, to)
  BY DEF OnUnauthorized, LockRefresh, LockTimesOut, ReadFails, ReceiveTokens,
         RefreshTimesOut, StoreFails, Release, ReleaseFails, Crash, Places
<1>4. holder' \in {holder, p, None}
  BY DEF OnUnauthorized, LockRefresh, LockTimesOut, ReadFails, ReceiveTokens,
         RefreshTimesOut, StoreFails, Release, ReleaseFails, Crash
<1>5. mishaps' = mishaps
      \/ \E k \in {"crash", "timeout", "write", "release"} : Blame(k, p)
  BY DEF OnUnauthorized, LockRefresh, LockTimesOut, ReadFails, ReceiveTokens,
         RefreshTimesOut, StoreFails, Release, ReleaseFails, Crash, Mishap
<1>6. TypeOK'
  <2>1. pc' \in [Proxies -> {"idle", "lock", "read", "wait", "write", "release", "rollback",
                             "fail", "throw", "crashed"}]
    BY <1>3 DEF Places, Moves, IInv, TypeOK
  <2>2. holder' \in Proxies \union {None}
    BY <1>4 DEF IInv, TypeOK
  <2>3. \A m \in mishaps' : m \in [kind : {"key", "crash", "timeout", "write", "release"},
                                   of : Setups \union Proxies]
    BY <1>5 DEF Blame, IInv, TypeOK
  <2> QED
    BY <1>1, <1>2, <2>1, <2>2, <2>3 DEF IInv, TypeOK, serverVars, keyVars
<1>7. Keyed' /\ Bounded' /\ Fresh'
  BY <1>1 DEF IInv, Keyed, Bounded, Fresh, serverVars, keyVars
<1>8. /\ \A q \in Proxies : q # p => pc'[q] = pc[q]
      /\ profile[Profile] # None
  <2>1. \A q \in Proxies : q # p => pc'[q] = pc[q]
    BY <1>3, ProxyMoves
  <2>2. pc[p] # "idle" \/ OnUnauthorized(p)
    BY DEF OnUnauthorized, LockRefresh, LockTimesOut, ReadFails, ReceiveTokens,
           RefreshTimesOut, StoreFails, Release, ReleaseFails, Crash
  <2>3. profile[Profile] # None
    BY <2>2 DEF IInv, Tied, OnUnauthorized, Readable
  <2> QED
    BY <2>1, <2>3
<1>9. Tied'
  <2>1. Effect(p) /\ None \notin Proxies
    BY MovesEffect, OAuthAssumption
  <2>2. holder' = p <=> pc'[p] \in Inside
    BY <2>1 DEF Effect, Inside, IInv, Tied
  <2>3. \A q \in Proxies : q # p => (holder' = q <=> holder = q)
    BY <2>1 DEF Effect, Inside, IInv, Tied
  <2>4. ASSUME NEW q \in Proxies
        PROVE  /\ holder' = q <=> pc'[q] \in Inside
               /\ pc'[q] \in {"wait", "write", "release", "rollback"} => before[q] # None
               /\ pc'[q] \in {"release", "rollback"} =>
                    installed[q] # None /\ installed[q].grant = before[q].grant
               /\ pc'[q] = "write" => reply[q] \in Tokens
    <3>1. CASE q = p
      BY <3>1, <2>1, <2>2 DEF Effect, IInv, Tied
    <3>2. CASE q # p
      BY <3>2, <2>3, <1>8 DEF IInv, Tied
    <3> QED
      BY <3>1, <3>2
  <2> QED
    BY <1>1, <1>2, <1>8, <2>4 DEF IInv, Tied, serverVars, keyVars
<1>10. Secured'
  <2> SUFFICES ASSUME Clean' PROVE Secured'
    BY DEF Secured
  <2>1. Clean /\ Effect(p)
    BY <1>1, MovesEffect DEF Clean, keyVars
  <2>2. Readable
    BY <2>1, <1>8, OAuthAssumption DEF IInv, Keyed, Clean, Readable
  <2>3. Rejected \notin valid
    BY DEF IInv, TypeOK, Tokens, Rejected
  <2>4. sent[p] = None
    <3>1. sent[p] # None => pc[p] = "wait" /\ reply[p] = None
      BY <2>1 DEF IInv, Secured, Tied
    <3>2. pc[p] = "wait" => reply[p] \in Tokens \union {Rejected}
      BY <2>1 DEF Effect
    <3> QED
      BY <3>1, <3>2, NoneAssumption
  <2>5. pc[p] \in {"wait", "write"} <=> pc'[p] \in {"wait", "write"}
    <3>1. pc[p] = "wait" => reply[p] \in valid
      BY <2>1, NoneAssumption DEF Effect, IInv, Secured
    <3> QED
      BY <2>1, <2>3, <3>1 DEF Effect
  <2>6. /\ pc'[p] \notin {"crashed", "rollback"}
        /\ pc'[p] \in {"fail", "throw"} => outcome = "updated"
    <3>1. pc[p] = "wait" => pc'[p] # "fail"
      BY <2>5
    <3> QED
      BY <2>1, <2>2, <3>1 DEF Effect, IInv, Secured
  <2> QED
    BY <1>1, <1>8, <2>1, <2>4, <2>5, <2>6 DEF IInv, Secured, serverVars, keyVars
<1> QED
  BY <1>2, <1>6, <1>7, <1>9, <1>10 DEF IInv

LEMMA Numbers ==
    ASSUME IInv
    PROVE  /\ issued \in Nat /\ valid \subseteq Tokens /\ Tokens \subseteq Nat
           /\ \A c \in Contents : c.token \in Tokens /\ c.version \in Nat /\ c.key \in Setups
           /\ None \notin Contents /\ None \notin Tokens
           /\ \A p \in Proxies : sent[p] \in Tokens \union {None}
           /\ \A a \in Proxies \union {Login} : /\ reply[a] \in Tokens \union {None, Rejected}
                                                /\ before[a] \in Contents \union {None}
           /\ \A s \in Setups : profile[s] \in Contents \union {None}
           /\ Profile \in Setups /\ Login \notin Proxies
<1>1. /\ issued \in Nat /\ valid \subseteq Tokens /\ Tokens \subseteq Nat
      /\ None \notin Contents /\ None \notin Tokens
      /\ Profile \in Setups /\ Login \notin Proxies
  BY OAuthAssumption, NoneAssumption DEF IInv, TypeOK, Tokens
<1>2. \A c \in Contents : c.token \in Tokens /\ c.version \in Nat /\ c.key \in Setups
  BY DEF Contents
<1> QED
  BY <1>1, <1>2 DEF IInv, TypeOK

LEMMA RequestKeeps ==
    ASSUME IInv, NEW p \in Proxies, RequestRefresh(p)
    PROVE  IInv'
<1>1. /\ UNCHANGED <<profile, serverVars, holder, installed, keyVars, outcome, loginVars, mishaps>>
      /\ pc[p] = "read" /\ profile[Profile] # None
  BY DEF RequestRefresh, ProxyFrame, Readable
<1>2. LoginTypeOK' /\ Orderly' /\ phase' = phase /\ sdk' = sdk
  BY <1>1, LoginUnchanged DEF IInv, TypeOK
<1>3. /\ pc'[p] = "wait"
      /\ sent'[p] = profile[Profile].token
      /\ reply'[p] = None
      /\ before'[p] = profile[Profile]
      /\ before'[Login] = before[Login] /\ reply'[Login] = reply[Login]
      /\ \A q \in Proxies : q # p => /\ pc'[q] = pc[q] /\ sent'[q] = sent[q]
                                     /\ reply'[q] = reply[q] /\ before'[q] = before[q]
  BY ProxyMoves, Numbers DEF RequestRefresh, IInv, TypeOK
<1>4. TypeOK'
  BY <1>1, <1>2, Numbers DEF IInv, TypeOK, serverVars, keyVars, RequestRefresh, Moves
<1>5. Tied'
  BY <1>1, <1>2, <1>3, Numbers DEF IInv, Tied, serverVars, keyVars, Inside
<1>6. Keyed'
  BY <1>1, <1>3, Numbers DEF IInv, Keyed, keyVars
<1>7. Bounded'
  BY <1>1, <1>3, Numbers DEF IInv, Bounded, serverVars
<1>8. Fresh'
  BY <1>1, <1>3, Numbers DEF IInv, Fresh, serverVars
<1>9. Secured'
  <2> SUFFICES ASSUME Clean PROVE Secured'
    BY <1>1 DEF Secured, Clean, keyVars
  <2>1. profile[Profile].token \in valid
    <3>1. \A q \in Proxies : pc[q] \notin {"wait", "write"}
      BY <1>1 DEF IInv, Tied, Inside
    <3> QED
      BY <1>1, <3>1 DEF IInv, Secured
  <2> QED
    BY <1>1, <1>3, <2>1 DEF IInv, Secured, serverVars
<1> QED
  BY <1>2, <1>4, <1>5, <1>6, <1>7, <1>8, <1>9 DEF IInv

LEMMA ServeKeeps ==
    ASSUME IInv, NEW p \in Proxies, ServeRefresh(p)
    PROVE  IInv'
<1>1. /\ UNCHANGED <<profile, pc, holder, before, installed, keyVars, outcome, loginVars, mishaps>>
      /\ sent[p] \in Tokens /\ reply[p] = None
  BY Numbers DEF ServeRefresh, ProxyFrame, IInv, Tied
<1>2. LoginTypeOK' /\ Orderly' /\ phase' = phase /\ sdk' = sdk
  BY <1>1, LoginUnchanged DEF IInv, TypeOK
<1>3. /\ sent'[p] = None
      /\ reply'[Login] = reply[Login]
      /\ \A q \in Proxies : q # p => sent'[q] = sent[q] /\ reply'[q] = reply[q]
  BY Numbers DEF ServeRefresh, IInv, TypeOK
<1>4. \/ /\ sent[p] \in valid
         /\ issued < MaxTokens /\ issued' = issued + 1
         /\ valid' = (valid \ {sent[p]}) \union {issued'}
         /\ reply'[p] = issued'
      \/ /\ UNCHANGED <<issued, valid>>
         /\ \/ sent[p] \in valid /\ reply'[p] = sent[p]
            \/ sent[p] \notin valid /\ reply'[p] = Rejected
  BY DEF ServeRefresh, Issue, serverVars, IInv, TypeOK
<1>5. /\ issued <= issued' /\ issued' \in 0..MaxTokens /\ valid' \subseteq Tokens
      /\ reply'[p] \in Tokens \union {Rejected}
      /\ reply'[p] <= issued'
  <2>1. issued \in 0..MaxTokens /\ MaxTokens \in Nat /\ sent[p] <= issued
    BY <1>1, Numbers, OAuthAssumption DEF IInv, TypeOK, Bounded
  <2> QED
    BY <1>1, <1>4, <2>1, Numbers DEF Tokens, Rejected
<1>6. TypeOK'
  <2>1. sent' \in [Proxies -> Tokens \union {None}]
    BY DEF ServeRefresh, IInv, TypeOK
  <2>2. reply' \in [Proxies \union {Login} -> Tokens \union {None, Rejected}]
    <3>1. \E r : reply' = [reply EXCEPT ![p] = r]
      BY DEF ServeRefresh
    <3> QED
      BY <1>5, <3>1 DEF IInv, TypeOK
  <2> QED
    BY <1>1, <1>2, <1>5, <2>1, <2>2 DEF IInv, TypeOK, keyVars
<1>8. Tied'
  <2>1. profile[Profile] # None
    BY <1>1, Numbers DEF IInv, Tied
  <2>2. pc[p] # "write"
    BY <1>1, Numbers, NoneAssumption DEF IInv, Tied
  <2> QED
    BY <1>1, <1>2, <1>3, <2>1, <2>2 DEF IInv, Tied, keyVars
<1>9. Keyed'
  BY <1>1 DEF IInv, Keyed, keyVars
<1>10. Bounded'
  <2>1. issued' \in Nat
    BY <1>5, OAuthAssumption
  <2>2. /\ profile'[Profile] # None => profile'[Profile].token <= issued'
        /\ reply'[Login] # None => reply'[Login] <= issued'
    BY <1>1, <1>3, <1>5, <2>1, Numbers DEF IInv, Bounded, Rejected
  <2>3. ASSUME NEW q \in Proxies
        PROVE  /\ sent'[q] # None => sent'[q] <= issued'
               /\ reply'[q] # None => reply'[q] <= issued'
               /\ before'[q] # None => before'[q].token <= issued'
    BY <1>1, <1>3, <1>5, <2>1, Numbers DEF IInv, Bounded, Rejected
  <2> QED
    BY <2>2, <2>3 DEF Bounded
<1>11. Fresh'
  <2> SUFFICES ASSUME outcome = "none", reply[Login] \in Tokens PROVE Fresh'
    BY <1>1, <1>3 DEF Fresh
  <2>1. reply[Login] # sent[p] /\ reply[Login] \in valid /\ reply[Login] <= issued
    BY Numbers DEF IInv, Fresh, Bounded
  <2>2. reply[Login] # Rejected /\ reply[Login] # None
    BY NoneAssumption DEF Tokens, Rejected
  <2>3. reply'[p] # reply[Login] /\ reply[Login] \in valid'
    BY <1>4, <2>1, <2>2, Numbers
  <2> QED
    BY <1>1, <1>3, <2>2, <2>3 DEF IInv, Fresh
<1>12. Secured'
  <2> SUFFICES ASSUME Clean PROVE Secured'
    BY <1>1 DEF Secured, Clean, keyVars
  <2>1. /\ pc[p] = "wait" /\ sent[p] = before[p].token /\ sent[p] \in valid
        /\ reply'[p] \in valid'
    BY <1>1, <1>4, Numbers DEF IInv, Secured
  <2>2. \A q \in Proxies : q # p => pc[q] \notin {"wait", "write"} /\ sent[q] = None
    BY <2>1 DEF IInv, Tied, Secured, Inside
  <2>3. before[p] # profile[Profile] =>
            /\ outcome = "updated"
            /\ profile[Profile].token \in valid'
            /\ profile[Profile].token # before[p].token
    BY <1>4, <2>1 DEF IInv, Secured
  <2> QED
    BY <1>1, <1>3, <2>1, <2>2, <2>3 DEF IInv, Secured
<1> QED
  BY <1>2, <1>6, <1>8, <1>9, <1>10, <1>11, <1>12 DEF IInv

LEMMA StoreKeeps ==
    ASSUME IInv, NEW p \in Proxies, StoreTokens(p)
    PROVE  IInv'
<1>1. /\ UNCHANGED <<serverVars, holder, before, sent, reply, keyVars, outcome, loginVars, mishaps>>
      /\ pc[p] = "write" /\ reply[p] \in Tokens /\ profile[Profile] \in Contents
      /\ before[p] \in Contents
  BY Numbers DEF StoreTokens, ProxyFrame, IInv, Tied
<1>2. LoginTypeOK' /\ Orderly' /\ phase' = phase /\ sdk' = sdk
  BY <1>1, LoginUnchanged DEF IInv, TypeOK
<1>3. \A q \in Proxies : q # p => pc'[q] = pc[q] /\ pc[q] \notin {"wait", "write"}
  BY <1>1, ProxyMoves DEF StoreTokens, IInv, Tied, Inside
<1>4. sent[p] = None
  BY <1>1, Numbers DEF IInv, Tied
<1>5. CASE key # None /\ Unchanged(before[p])
  <2> DEFINE new == Renewed(p)
  <2>1. key \in Setups
    BY <1>5 DEF IInv, TypeOK
  <2>2. /\ new \in Contents
        /\ new.token = reply[p] /\ new.key = key /\ new.grant = profile[Profile].grant
    <3>1. profile[Profile].version + 1 \in Nat
      BY <1>1, Numbers
    <3>2. new \in Contents
      BY <1>1, <2>1, <3>1 DEF Contents, Renewed
    <3>3. new.token = reply[p] /\ new.key = key /\ new.grant = profile[Profile].grant
      BY <1>1 DEF Contents, Renewed
    <3> QED
      BY <3>2, <3>3
  <2>3. /\ profile' \in [Setups -> Contents \union {None}]
        /\ profile'[Profile] = new
        /\ \A s \in Setups : s # Profile => profile'[s] = profile[s]
        /\ installed' \in [Proxies -> Contents \union {None}]
        /\ installed'[p] = new
        /\ \A q \in Proxies : q # p => installed'[q] = installed[q]
        /\ pc'[p] = "release" /\ Moves(p, "release")
    <3>1. /\ profile' = [profile EXCEPT ![Profile] = new]
          /\ installed' = [installed EXCEPT ![p] = profile'[Profile]]
          /\ Moves(p, "release")
      <4>1. profile' = [profile EXCEPT ![Profile] = new]
        BY <1>5 DEF StoreTokens
      <4>2. installed' = [installed EXCEPT ![p] = profile'[Profile]] /\ Moves(p, "release")
        BY <1>5 DEF StoreTokens
      <4> QED
        BY <4>1, <4>2
    <3> HIDE DEF new
    <3>2. /\ profile' \in [Setups -> Contents \union {None}]
          /\ profile'[Profile] = new
          /\ \A s \in Setups : s # Profile => profile'[s] = profile[s]
      BY <2>2, <3>1, Numbers DEF IInv, TypeOK
    <3>3. /\ installed' \in [Proxies -> Contents \union {None}]
          /\ installed'[p] = new
          /\ \A q \in Proxies : q # p => installed'[q] = installed[q]
      BY <2>2, <3>1, <3>2 DEF IInv, TypeOK
    <3> QED
      BY <3>1, <3>2, <3>3, ProxyMoves
  <2> HIDE DEF new
  <2>4. new # None
    BY <2>2, Numbers
  <2>5. TypeOK'
    BY <1>1, <1>2, <2>3 DEF IInv, TypeOK, serverVars, keyVars, Moves
  <2>6. Tied'
    <3>1. profile'[Profile] # None /\ setup'[Profile] = "done"
      BY <1>1, <2>3, <2>4, Numbers DEF IInv, Tied, keyVars
    <3>2. ASSUME NEW q \in Proxies
          PROVE  /\ holder' = q <=> pc'[q] \in Inside
                 /\ pc'[q] \in {"wait", "write", "release", "rollback"} => before[q] # None
                 /\ pc'[q] \in {"release", "rollback"} =>
                      installed'[q] # None /\ installed'[q].grant = before[q].grant
                 /\ pc'[q] = "write" => reply[q] \in Tokens
      <4>1. CASE q = p
        BY <4>1, <1>1, <1>5, <2>2, <2>3, <2>4, Numbers DEF IInv, Tied, Inside, Unchanged
      <4>2. CASE q # p
        BY <4>2, <1>1, <1>3, <2>3 DEF IInv, Tied
      <4> QED
        BY <4>1, <4>2
    <3> QED
      BY <1>1, <1>2, <3>1, <3>2 DEF IInv, Tied, serverVars, keyVars
  <2>7. Keyed'
    BY <1>1, <2>2, <2>3 DEF IInv, Keyed, keyVars
  <2>8. Bounded'
    BY <1>1, <2>2, <2>3, Numbers DEF IInv, Bounded, serverVars
  <2>9. Fresh'
    BY <1>1, <2>2, <2>3, Numbers DEF IInv, Fresh, serverVars
  <2>10. Secured'
    <3> SUFFICES ASSUME Clean PROVE Secured'
      BY <1>1 DEF Secured, Clean, keyVars
    <3>1. new.token \in valid
      BY <1>1, <2>2, Numbers DEF IInv, Secured
    <3> QED
      BY <1>1, <1>3, <1>4, <2>3, <3>1 DEF IInv, Secured, serverVars
  <2> QED
    BY <1>2, <2>5, <2>6, <2>7, <2>8, <2>9, <2>10 DEF IInv
<1>6. CASE ~(key # None /\ Unchanged(before[p]))
  <2>1. UNCHANGED <<profile, installed>> /\ Moves(p, "fail") /\ pc'[p] = "fail"
    BY <1>6, ProxyMoves DEF StoreTokens
  <2>2. TypeOK'
    BY <1>1, <1>2, <2>1 DEF IInv, TypeOK, serverVars, keyVars, Moves
  <2>3. Tied'
    BY <1>1, <1>2, <1>3, <2>1, Numbers DEF IInv, Tied, serverVars, keyVars, Inside
  <2>4. Keyed' /\ Bounded' /\ Fresh'
    BY <1>1, <2>1 DEF IInv, Keyed, Bounded, Fresh, serverVars, keyVars
  <2>5. Secured'
    <3> SUFFICES ASSUME Clean PROVE Secured'
      BY <1>1 DEF Secured, Clean, keyVars
    <3>1. key # None
      BY <1>1, Numbers, OAuthAssumption DEF IInv, Keyed, Clean
    <3>2. before[p] # profile[Profile] /\ outcome = "updated" /\ profile[Profile].token \in valid
      BY <1>1, <1>6, <3>1 DEF IInv, Secured, Unchanged
    <3> QED
      BY <1>1, <1>3, <1>4, <2>1, <3>2 DEF IInv, Secured, serverVars
  <2> QED
    BY <1>2, <2>2, <2>3, <2>4, <2>5 DEF IInv
<1> QED
  BY <1>5, <1>6

LEMMA RollBackKeeps ==
    ASSUME IInv, NEW p \in Proxies, RollBack(p)
    PROVE  IInv'
<1>1. /\ UNCHANGED <<serverVars, holder, before, installed, sent, reply, keyVars, outcome,
                     loginVars, mishaps>>
      /\ pc[p] = "rollback" /\ Moves(p, "fail") /\ pc'[p] = "fail"
      /\ before[p] \in Contents /\ installed[p] \in Contents
  BY Numbers, ProxyMoves DEF RollBack, ProxyFrame, IInv, Tied, TypeOK
<1>2. LoginTypeOK' /\ Orderly' /\ phase' = phase /\ sdk' = sdk
  BY <1>1, LoginUnchanged DEF IInv, TypeOK
<1>3. \A q \in Proxies : q # p => pc'[q] = pc[q]
  BY <1>1, ProxyMoves
<1>4. ~Clean'
  BY <1>1 DEF IInv, Secured, Clean, keyVars
<1> DEFINE old == [before[p] EXCEPT !.version = installed[p].version + 1]
<1>5. /\ old \in Contents
      /\ old.token = before[p].token /\ old.key = before[p].key
  BY <1>1, Numbers DEF Contents
<1>6. /\ profile' \in [Setups -> Contents \union {None}]
      /\ profile[Profile] # None /\ profile'[Profile] \in {profile[Profile], old}
      /\ \A s \in Setups : s # Profile => profile'[s] = profile[s]
  BY <1>1, <1>5, Numbers DEF RollBack, IInv, TypeOK, Tied
<1> HIDE DEF old
<1>7. old # None
  BY <1>5, Numbers
<1>8. TypeOK'
  BY <1>1, <1>2, <1>6 DEF IInv, TypeOK, serverVars, keyVars, Moves
<1>9. Tied'
  <2>1. setup'[Profile] = "done" /\ profile'[Profile] # None
    BY <1>1, <1>6, <1>7 DEF IInv, Tied, keyVars
  <2> QED
    BY <1>1, <1>2, <1>3, <2>1 DEF IInv, Tied, serverVars, keyVars, Inside
<1>10. Keyed'
  BY <1>1, <1>5, <1>6, Numbers DEF IInv, Keyed, keyVars
<1>11. Bounded' /\ Fresh'
  BY <1>1, <1>5, <1>6, Numbers DEF IInv, Bounded, Fresh, serverVars
<1>12. Secured'
  BY <1>4 DEF Secured
<1> QED
  BY <1>2, <1>8, <1>9, <1>10, <1>11, <1>12 DEF IInv

-----------------------------------------------------------------------------
(* The login command.                                                      *)

LEMMA LoginCommandKeeps ==
    ASSUME IInv, RunOAuthLoginCommand \/ LoginFails
    PROVE  IInv'
<1>1. /\ UNCHANGED <<profile, serverVars, keyVars, proxyVars, mishaps>>
      /\ \A p \in Proxies : before'[p] = before[p]
      /\ profile[Profile] # None
      /\ outcome' # outcome => outcome = "none" /\ outcome' = "failed"
  <2>1. CASE RunOAuthLoginCommand
    <3>1. before' = [before EXCEPT ![Login] = profile[Profile]]
      BY <2>1 DEF RunOAuthLoginCommand
    <3>2. \A p \in Proxies : before'[p] = before[p]
      BY <3>1, Numbers DEF IInv, TypeOK
    <3>3. profile[Profile] # None /\ outcome' = outcome
      BY <2>1 DEF RunOAuthLoginCommand, Readable
    <3>4. UNCHANGED <<profile, serverVars, keyVars, proxyVars, mishaps>>
      BY <2>1 DEF RunOAuthLoginCommand, LoginFrame
    <3> QED
      BY <3>2, <3>3, <3>4
  <2>2. CASE LoginFails
    BY <2>2 DEF LoginFails, LoginFrame, IInv, Tied
  <2> QED
    BY <2>1, <2>2
<1>2. LoginTypeOK' /\ Orderly' /\ sdk' = sdk
  BY StartKeeps, LoginUnchanged DEF RunOAuthLoginCommand, LoginFails, IInv, TypeOK
<1>3. TypeOK'
  <2>1. before' \in [Proxies \union {Login} -> Contents \union {None}]
    BY Numbers DEF RunOAuthLoginCommand, LoginFails, IInv, TypeOK
  <2> QED
    BY <1>1, <1>2, <2>1 DEF IInv, TypeOK, serverVars, keyVars, proxyVars
<1>4. Tied'
  BY <1>1, <1>2 DEF IInv, Tied, serverVars, keyVars, proxyVars
<1>5. Keyed' /\ Bounded' /\ Fresh'
  BY <1>1 DEF IInv, Keyed, Bounded, Fresh, serverVars, keyVars, proxyVars
<1>6. Secured'
  <2>1. Clean' => Clean
    BY <1>1 DEF Clean, keyVars
  <2> QED
    BY <1>1, <2>1 DEF IInv, Secured, serverVars, proxyVars
<1> QED
  BY <1>2, <1>3, <1>4, <1>5, <1>6 DEF IInv

LEMMA LoginStepKeeps ==
    ASSUME IInv, LoginStep
    PROVE  IInv'
<1>1. UNCHANGED <<keyVars, profile, pc, holder, installed, sent, before, outcome, mishaps>>
  BY DEF LoginStep
<1>2. CASE (LoginProceeds \/ LoginDepends) /\ UNCHANGED <<serverVars, reply>>
  <2>1. /\ LoginTypeOK' /\ Orderly'
        /\ phase' = "idle" <=> phase = "idle"
        /\ sdk' = "authorized" => sdk = "authorized"
    BY <1>2, FlowKeeps DEF IInv, TypeOK
  <2>2. TypeOK'
    BY <1>1, <1>2, <2>1 DEF IInv, TypeOK, serverVars, keyVars
  <2>3. Tied'
    BY <1>1, <1>2, <2>1 DEF IInv, Tied, serverVars, keyVars
  <2>4. Keyed' /\ Bounded' /\ Fresh'
    BY <1>1, <1>2 DEF IInv, Keyed, Bounded, Fresh, serverVars, keyVars
  <2>5. Secured'
    BY <1>1, <1>2 DEF IInv, Secured, Clean, serverVars, keyVars
  <2> QED
    BY <2>1, <2>2, <2>3, <2>4, <2>5 DEF IInv
<1>3. CASE SdkExchanges /\ Issue({}) /\ reply' = [reply EXCEPT ![Login] = issued']
  <2>1. LoginTypeOK' /\ Orderly' /\ phase' = phase /\ phase # "idle"
    BY <1>3, ExchangeKeeps DEF IInv, TypeOK
  <2>2. /\ issued' = issued + 1 /\ issued' \in Tokens /\ issued' \in 0..MaxTokens
        /\ valid' = valid \union {issued'} /\ valid' \subseteq Tokens
    BY <1>3, OAuthAssumption, Numbers DEF Issue, IInv, TypeOK, Tokens
  <2>3. /\ reply' \in [Proxies \union {Login} -> Tokens \union {None, Rejected}]
        /\ reply'[Login] = issued'
        /\ \A p \in Proxies : reply'[p] = reply[p]
        /\ profile[Profile] # None
    BY <1>3, <2>1, <2>2, Numbers DEF IInv, TypeOK, Tied
  <2>4. TypeOK'
    BY <1>1, <2>1, <2>2, <2>3 DEF IInv, TypeOK, keyVars
  <2>5. Tied'
    BY <1>1, <2>1, <2>2, <2>3 DEF IInv, Tied, keyVars
  <2>6. Keyed'
    BY <1>1 DEF IInv, Keyed, keyVars
  <2>7. Bounded'
    <3>1. issued' \in Nat /\ issued \in Nat /\ issued <= issued'
      BY <2>2, Numbers
    <3>4. /\ profile[Profile].token \in Nat
          /\ profile[Profile].token <= issued
          /\ \A p \in Proxies :
               /\ sent[p] # None => sent[p] \in Nat /\ sent[p] <= issued
               /\ reply[p] # None => reply[p] \in Nat /\ reply[p] <= issued
               /\ before[p] # None => before[p].token \in Nat /\ before[p].token <= issued
      BY <2>3, Numbers DEF IInv, Bounded, Rejected
    <3>2. /\ profile'[Profile].token <= issued'
          /\ reply'[Login] <= issued'
      BY <1>1, <2>3, <3>1, <3>4
    <3>3. ASSUME NEW p \in Proxies
          PROVE  /\ sent'[p] # None => sent'[p] <= issued'
                 /\ reply'[p] # None => reply'[p] <= issued'
                 /\ before'[p] # None => before'[p].token <= issued'
      BY <1>1, <2>3, <3>1, <3>4
    <3> QED
      BY <3>2, <3>3 DEF Bounded
  <2>8. Fresh'
    BY <1>1, <2>2, <2>3, Numbers, NoneAssumption DEF IInv, Bounded, Fresh, Rejected
  <2>9. Secured'
    BY <1>1, <2>2, <2>3 DEF IInv, Secured, Clean, keyVars
  <2> QED
    BY <2>1, <2>4, <2>5, <2>6, <2>7, <2>8, <2>9 DEF IInv
<1> QED
  BY <1>2, <1>3 DEF LoginStep

LEMMA StoreLoginKeeps ==
    ASSUME IInv, StoreLogin
    PROVE  IInv'
<1>1. /\ UNCHANGED <<serverVars, before, loginVars, keyVars, proxyVars, mishaps>>
      /\ phase = "done" /\ granted /\ outcome = "none"
      /\ reply[Login] \in Tokens
      /\ profile[Profile] \in Contents
  BY Numbers DEF StoreLogin, LoginFrame, IInv, Tied, Orderly
<1>2. LoginTypeOK' /\ Orderly' /\ phase' = phase /\ sdk' = sdk
  BY <1>1, LoginUnchanged DEF IInv, TypeOK
<1>3. CASE key # None /\ Unchanged(before[Login])
  <2> DEFINE new == [version |-> profile[Profile].version + 1, key |-> key,
                     token |-> reply[Login], grant |-> "login"]
  <2>1. new \in Contents /\ new.token = reply[Login] /\ new.key = key
    BY <1>1, <1>3, Numbers DEF IInv, TypeOK, Contents
  <2>2. /\ profile' \in [Setups -> Contents \union {None}]
        /\ profile'[Profile] = new
        /\ \A s \in Setups : s # Profile => profile'[s] = profile[s]
        /\ outcome' = "updated"
    BY <1>1, <1>3, <2>1, Numbers DEF StoreLogin, IInv, TypeOK
  <2> HIDE DEF new
  <2>3. new # None /\ profile[Profile] # None
    BY <1>1, <2>1, Numbers
  <2>4. TypeOK'
    BY <1>1, <1>2, <2>2 DEF IInv, TypeOK, serverVars, keyVars, proxyVars
  <2>5. Tied'
    BY <1>1, <1>2, <2>2, <2>3 DEF IInv, Tied, serverVars, keyVars, proxyVars
  <2>6. Keyed'
    BY <1>1, <2>1, <2>2 DEF IInv, Keyed, keyVars
  <2>7. Bounded'
    BY <1>1, <2>1, <2>2, Numbers DEF IInv, Bounded, serverVars, proxyVars
  <2>8. Fresh'
    BY <2>2 DEF Fresh
  <2>9. Secured'
    <3> SUFFICES ASSUME Clean PROVE Secured'
      BY <1>1 DEF Secured, Clean, keyVars
    <3>1. new.token \in valid
      BY <1>1, <2>1 DEF IInv, Fresh
    <3>2. \A p \in Proxies : before[p] # None => before[p].token # new.token
      BY <1>1, <2>1 DEF IInv, Fresh
    <3>3. \A p \in Proxies : pc[p] \in {"wait", "write"} => before[p] # None
      BY DEF IInv, Tied
    <3> QED
      BY <1>1, <2>2, <3>1, <3>2, <3>3 DEF IInv, Secured, serverVars, proxyVars
  <2> QED
    BY <1>2, <2>4, <2>5, <2>6, <2>7, <2>8, <2>9 DEF IInv
<1>4. CASE ~(key # None /\ Unchanged(before[Login]))
  <2>1. profile' = profile /\ outcome' = "failed"
    BY <1>4 DEF StoreLogin
  <2>2. TypeOK'
    BY <1>1, <1>2, <2>1 DEF IInv, TypeOK, serverVars, keyVars, proxyVars
  <2>3. Tied'
    BY <1>1, <1>2, <2>1 DEF IInv, Tied, serverVars, keyVars, proxyVars
  <2>4. Keyed' /\ Bounded' /\ Fresh'
    BY <1>1, <2>1 DEF IInv, Keyed, Bounded, Fresh, serverVars, keyVars, proxyVars
  <2>5. Secured'
    BY <1>1, <2>1 DEF IInv, Secured, Clean, serverVars, keyVars, proxyVars
  <2> QED
    BY <1>2, <2>2, <2>3, <2>4, <2>5 DEF IInv
<1> QED
  BY <1>3, <1>4

LEMMA NextKeeps ==
    ASSUME IInv, Next
    PROVE  IInv'
<1>1. CASE \E s \in Setups \intersect running : SetupProceeds(s)
  BY <1>1, KeyStepKeeps, InstallKeeps DEF SetupProceeds
<1>2. CASE \E p \in Proxies \intersect running :
             ProxyProceeds(p) \/ OnUnauthorized(p) \/ ServeRefresh(p) \/ StoreFails(p)
             \/ ReleaseFails(p) \/ Crash(p)
  BY <1>2, MovesOnlyKeeps, RequestKeeps, ServeKeeps, StoreKeeps, RollBackKeeps
     DEF ProxyProceeds, MovesOnly
<1>3. CASE RunOAuthLoginCommand \/ LoginStep \/ StoreLogin \/ LoginFails
  BY <1>3, LoginCommandKeeps, LoginStepKeeps, StoreLoginKeeps
<1> QED
  BY <1>1, <1>2, <1>3 DEF Next

LEMMA StutterKeeps ==
    ASSUME IInv, UNCHANGED vars
    PROVE  IInv'
<1>1. Orderly' /\ Tied' /\ Bounded' /\ Fresh' /\ Secured'
  BY QuietKeeps DEF vars, keyVars
<1>2. Keyed'
  BY DEF IInv, Keyed, vars, keyVars
<1>3. TypeOK'
  <2>1. LoginTypeOK'
    BY LoginUnchanged DEF IInv, TypeOK, vars
  <2> QED
    BY <2>1 DEF IInv, TypeOK, vars, keyVars, serverVars, proxyVars
<1> QED
  BY <1>1, <1>2, <1>3 DEF IInv

(* The invariant holds for any number of setups, proxies and tokens. *)
THEOREM Invariant == Spec => []IInv
<1>1. Init => IInv
  <2> SUFFICES ASSUME Init PROVE IInv
    OBVIOUS
  <2>1. LoginTypeOK /\ Orderly
    BY DEF Init, LoginInit, LoginTypeOK, Orderly, Phases
  <2>2. TypeOK
    <3>1. container \in BOOLEAN /\ keyUndone \in BOOLEAN
      BY DEF Init
    <3>2. 0 \in 0..MaxTokens
      BY OAuthAssumption
    <3>3. /\ setup \in [Setups -> {"prepare", "winner", "release", "undo", "loser", "encrypt",
                                   "done", "failed"}]
          /\ pc \in [Proxies -> {"idle", "lock", "read", "wait", "write", "release",
                                 "rollback", "fail", "throw", "crashed"}]
          /\ profile \in [Setups -> Contents \union {None}]
          /\ before \in [Proxies \union {Login} -> Contents \union {None}]
          /\ installed \in [Proxies -> Contents \union {None}]
          /\ sent \in [Proxies -> Tokens \union {None}]
          /\ reply \in [Proxies \union {Login} -> Tokens \union {None, Rejected}]
      BY DEF Init
    <3> QED
      BY <2>1, <3>1, <3>2, <3>3 DEF Init, TypeOK
  <2>3. Tied /\ Keyed /\ Bounded
    BY OAuthAssumption, NoneAssumption DEF Init, LoginInit, Tied, Keyed, Bounded, Inside
  <2>4. Fresh /\ Secured
    BY OAuthAssumption, NoneAssumption DEF Init, Fresh, Secured
  <2> QED
    BY <2>1, <2>2, <2>3, <2>4 DEF IInv
<1>2. IInv /\ [Next]_vars => IInv'
  BY NextKeeps, StutterKeeps
<1> QED
  BY <1>1, <1>2, PTL DEF Spec

(* Every stored profile is sealed with the stored key, however many setups *)
(* race to create it, unless a key file was taken back.                    *)
THEOREM Decryptable == Spec => []ProfilesDecrypt
<1>1. IInv => ProfilesDecrypt
  BY DEF IInv, Keyed, ProfilesDecrypt
<1> QED
  BY <1>1, Invariant, PTL

(* Refreshes and logins that overlap never lose the refresh token that the *)
(* server accepts.                                                         *)
THEOREM TokensKept == Spec => []TokensSurvive
<1>1. IInv => TokensSurvive
  BY DEF IInv, Secured, Clean, TokensSurvive
<1> QED
  BY <1>1, Invariant, PTL

(* A proxy tells its user to log in again only if something went wrong or  *)
(* a login came in between.                                                *)
THEOREM LoginMeant == Spec => []LoginRequiredIsMeant
<1>1. IInv => LoginRequiredIsMeant
  BY DEF IInv, Secured, Clean, LoginRequiredIsMeant
<1> QED
  BY <1>1, Invariant, PTL

(* A login that ended has closed its listener and forgotten every secret   *)
(* but a verifier nobody used; what it was granted was authorized by       *)
(* a redirect of its own, on every path.                                   *)
THEOREM LoginClean == Spec => []LoginLeavesNothing
<1>1. IInv => LoginLeavesNothing
  BY DEF IInv, Orderly, LoginLeavesNothing
<1> QED
  BY <1>1, Invariant, PTL

(* The only steps that write the profile of a login keep its grant.        *)
LEMMA GrantStays ==
    ASSUME IInv, [Next]_vars, profile[Profile] # None, profile[Profile].grant = "login"
    PROVE  profile'[Profile].grant = "login"
<1>1. CASE \E s \in Setups : InstallProfile(s)
  BY <1>1, Numbers DEF InstallProfile, IInv, TypeOK, Tied
<1>2. CASE \E p \in Proxies : StoreTokens(p)
  <2> SUFFICES ASSUME NEW p \in Proxies, StoreTokens(p), profile' # profile
               PROVE  profile'[Profile].grant = "login"
    BY <1>2
  <2>1. profile[Profile] \in Contents
    BY Numbers
  <2>2. profile'[Profile] = Renewed(p)
    BY Numbers DEF StoreTokens, IInv, TypeOK
  <2> QED
    BY <2>1, <2>2 DEF Contents, Renewed
<1>3. CASE \E p \in Proxies : RollBack(p)
  <2> SUFFICES ASSUME NEW p \in Proxies, RollBack(p), Unchanged(installed[p])
               PROVE  profile'[Profile].grant = "login"
    BY <1>3 DEF RollBack
  <2>1. before[p] \in Contents /\ before[p].grant = "login"
    BY Numbers DEF RollBack, Unchanged, IInv, Tied
  <2>2. profile'[Profile] = [before[p] EXCEPT !.version = installed[p].version + 1]
    BY Numbers DEF RollBack, IInv, TypeOK
  <2> QED
    BY <2>1, <2>2 DEF Contents
<1>4. CASE StoreLogin
  BY <1>4, Numbers DEF StoreLogin, IInv, TypeOK
<1>5. CASE UNCHANGED profile
  BY <1>5
<1> QED
  BY <1>1, <1>2, <1>3, <1>4, <1>5 DEF Next, SetupProceeds, ProxyProceeds, vars,
     FindKey, LockKey, StoreKey, ReleaseKey, KeyReleaseFails, UndoKey, LoadWinner, SetupFails,
     OnUnauthorized, LockRefresh, LockTimesOut, ReadFails, RequestRefresh, ServeRefresh,
     ReceiveTokens, RefreshTimesOut, StoreFails, Release, ReleaseFails, Crash,
     RunOAuthLoginCommand, LoginStep, LoginFails

(* No refresh or rollback that began before a login puts back the          *)
(* credentials it replaced.                                                *)
THEOREM LoginsStay == Spec => LoginStays
<1>1. IInv /\ [Next]_vars =>
        [profile[Profile] # None /\ profile[Profile].grant = "login" =>
            profile'[Profile].grant = "login"]_vars
  BY GrantStays
<1> QED
  BY <1>1, Invariant, PTL DEF Spec, LoginStays
=============================================================================
