---------------------------- MODULE OAuthLogin ----------------------------
(***************************************************************************)
(* loginOAuthProfile (packages/cli/src/oauth/login.ts, login/callback.ts,  *)
(* login/discovery.ts): one interactive authorization code flow.  The      *)
(* program binds a loopback listener or asks for the redirected URL, finds *)
(* the authorization server, asks the user, lets the SDK's auth() print    *)
(* the authorization URL, waits for the redirect and exchanges its code.   *)
(*                                                                         *)
(* An abort, or the login's timeout, rejects whatever the login waits for, *)
(* but auth() itself runs on.  Names and URLs are reduced to whether they  *)
(* pass their check; a redirect is reduced to its state and its code.      *)
(***************************************************************************)
EXTENDS Naturals, FiniteSets

VARIABLES
    phase,    \* what the login does next
    aborted,  \* the signal of the caller, or the timeout, fired
    listener, \* the server that waits for the redirect
    held,     \* a browser keeps a connection to it open
    settled,  \* the redirect that the listener accepted or the user pasted
    secrets,  \* what the transient provider still holds
    sdk,      \* what auth() does, also after the login gave up on it
    granted   \* the login collected its credentials

loginVars == <<phase, aborted, listener, held, settled, secrets, sdk, granted>>

Waiting == {"delivery", "discover", "confirm", "authorize", "receive", "exchange"}
Phases == Waiting \union {"idle", "callback", "close", "closing", "done"}

(* The state of the redirect that arrives is this login's, or it is not. *)
Redirects == {"ours", "forged"}

LoginTypeOK ==
    /\ phase \in Phases
    /\ listener \in {"none", "open", "closing", "closed"}
    /\ settled \in Redirects \union {"no"}
    /\ secrets \subseteq {"state", "verifier", "code"}
    /\ sdk \in {"idle", "starting", "started", "redirected", "exchanging", "authorized", "error"}
    /\ {aborted, held, granted} \subseteq BOOLEAN

LoginInit ==
    /\ phase = "idle"
    /\ listener = "none"
    /\ settled = "no"
    /\ secrets = {}
    /\ sdk = "idle"
    /\ aborted = FALSE /\ held = FALSE /\ granted = FALSE

LoginStart ==
    /\ phase = "idle"
    /\ phase' = "delivery"
    /\ UNCHANGED <<aborted, listener, held, settled, secrets, sdk, granted>>

(* The caller aborts, or the login's five minutes pass. *)
LoginAbort ==
    /\ phase \notin {"idle", "done"}
    /\ ~aborted
    /\ aborted' = TRUE
    /\ UNCHANGED <<phase, listener, held, settled, secrets, sdk, granted>>

(* A wait throws once aborted, and most steps may fail; only the redirect  *)
(* can be waited for forever.                                              *)
LoginThrows ==
    /\ phase \in Waiting \union {"callback"}
    /\ phase = "receive" => aborted
    /\ phase' = "close"
    /\ UNCHANGED <<aborted, listener, held, settled, secrets, sdk, granted>>

(* The state is made and the user chooses how the redirect is delivered. *)
SelectDelivery ==
    /\ phase = "delivery"
    /\ ~aborted
    /\ secrets' = {"state"}
    /\ phase' = "callback"
    /\ UNCHANGED <<aborted, listener, held, settled, sdk, granted>>

(* A listener is bound, or the user will paste the redirected URL: by      *)
(* choice, off loopback, or because the port is taken.                     *)
SelectCallback ==
    /\ phase = "callback"
    /\ listener' \in {"open", "none"}
    /\ phase' = "discover"
    /\ UNCHANGED <<aborted, held, settled, secrets, sdk, granted>>

(* The metadata of the authorization server is cached or fetched, with the *)
(* signal, and validated.                                                  *)
ResolveDiscovery ==
    /\ phase = "discover"
    /\ ~aborted
    /\ phase' = "confirm"
    /\ UNCHANGED <<aborted, listener, held, settled, secrets, sdk, granted>>

(* The user agrees to the authorization server; auth() begins. *)
ConfirmServer ==
    /\ phase = "confirm"
    /\ ~aborted
    /\ phase' = "authorize"
    /\ sdk' = "starting"
    /\ UNCHANGED <<aborted, listener, held, settled, secrets, granted>>

(* auth() asks the provider for the state, which it lacks once cleared. *)
SdkStarts ==
    /\ sdk = "starting"
    /\ sdk' \in {"error"} \union (IF "state" \in secrets THEN {"started"} ELSE {})
    /\ UNCHANGED <<phase, aborted, listener, held, settled, secrets, granted>>

(* auth() saves the verifier and prints the URL, aborted or not. *)
SdkRedirects ==
    /\ sdk = "started"
    /\ secrets' = secrets \union {"verifier"}
    /\ sdk' = "redirected"
    /\ UNCHANGED <<phase, aborted, listener, held, settled, granted>>

AwaitRedirect ==
    /\ phase = "authorize"
    /\ ~aborted
    /\ sdk = "redirected"
    /\ phase' = "receive"
    /\ UNCHANGED <<aborted, listener, held, settled, secrets, sdk, granted>>

ValidateCallback(redirect) == redirect = "ours"

(* A request reaches the listener.  The first valid one settles the        *)
(* redirect and stops the server; any other is answered with an error.  A  *)
(* redirect of ours needs the URL to be printed.                           *)
ListenerRequest(redirect) ==
    /\ listener = "open"
    /\ redirect = "ours" => sdk = "redirected"
    /\ ValidateCallback(redirect)
    /\ settled' = redirect
    /\ listener' = "closed"
    /\ UNCHANGED <<phase, aborted, held, secrets, sdk, granted>>

PasteRedirect(redirect) ==
    /\ phase = "receive"
    /\ ~aborted
    /\ listener = "none"
    /\ settled = "no"
    /\ settled' = redirect
    /\ UNCHANGED <<phase, aborted, listener, held, secrets, sdk, granted>>

(* A browser connects ahead of a request and keeps the connection. *)
HoldConnection ==
    /\ listener = "open"
    /\ ~held
    /\ held' = TRUE
    /\ UNCHANGED <<phase, aborted, listener, settled, secrets, sdk, granted>>

ReleaseConnection ==
    /\ held
    /\ held' = FALSE
    /\ listener' = IF listener = "closing" THEN "closed" ELSE listener
    /\ UNCHANGED <<phase, aborted, settled, secrets, sdk, granted>>

(* The redirect is validated, again when the listener did already, and its *)
(* code given to auth().                                                   *)
ReceiveRedirect ==
    /\ phase = "receive"
    /\ ~aborted
    /\ ValidateCallback(settled)
    /\ secrets' = secrets \union {"code"}
    /\ sdk' = "exchanging"
    /\ phase' = "exchange"
    /\ UNCHANGED <<aborted, listener, held, settled, granted>>

RejectRedirect ==
    /\ phase = "receive"
    /\ settled \in Redirects
    /\ ~ValidateCallback(settled)
    /\ phase' = "close"
    /\ UNCHANGED <<aborted, listener, held, settled, secrets, sdk, granted>>

(* auth() exchanges the code, if the provider still has the verifier. *)
SdkExchanges ==
    /\ sdk = "exchanging"
    /\ "verifier" \in secrets
    /\ sdk' = "authorized"
    /\ UNCHANGED <<phase, aborted, listener, held, settled, secrets, granted>>

SdkFails ==
    /\ sdk = "exchanging"
    /\ sdk' = "error"
    /\ UNCHANGED <<phase, aborted, listener, held, settled, secrets, granted>>

(* The login collects the tokens that auth() saved. *)
Authorized ==
    /\ phase = "exchange"
    /\ ~aborted
    /\ sdk = "authorized"
    /\ granted' = TRUE
    /\ phase' = "close"
    /\ UNCHANGED <<aborted, listener, held, settled, secrets, sdk>>

\* Bug: the callback is closed on the way out of a login that went well.
FinallyOnSuccess ==
    /\ phase = "close"
    /\ secrets' = {}
    /\ listener' = IF granted /\ listener = "open" THEN "closed" ELSE listener
    /\ phase' = "closing"
    /\ UNCHANGED <<aborted, held, settled, sdk, granted>>

(* The finally block clears the provider and closes the server, which      *)
(* waits for open connections unless the server was stopped before.        *)
Finally ==
    /\ phase = "close"
    /\ secrets' = {}
    /\ listener' = IF listener = "open" THEN IF held THEN "closing" ELSE "closed"
                   ELSE listener
    /\ phase' = "closing"
    /\ UNCHANGED <<aborted, held, settled, sdk, granted>>

(* The callback is closed; the login returns its credentials or throws. *)
Finished ==
    /\ phase = "closing"
    /\ listener # "closing"
    /\ phase' = "done"
    /\ UNCHANGED <<aborted, listener, held, settled, secrets, sdk, granted>>

(* What the program does by itself, and what it depends on others for. *)
LoginProceeds ==
    \/ SelectCallback \/ AwaitRedirect \/ ReceiveRedirect \/ RejectRedirect
    \/ Authorized \/ Finally \/ Finished \/ SdkRedirects \/ (aborted /\ LoginThrows)

LoginDepends ==
    \/ LoginAbort \/ LoginThrows \/ SelectDelivery \/ ResolveDiscovery \/ ConfirmServer
    \/ SdkStarts \/ SdkFails \/ HoldConnection \/ ReleaseConnection
    \/ \E redirect \in Redirects : ListenerRequest(redirect) \/ PasteRedirect(redirect)
=============================================================================
