----------------------------- MODULE EntraToken ------------------------------
(***************************************************************************)
(* EntraCache (entra.go): the credential connections share, and the tokens  *)
(* it issues.  Connections, and Warm calls ahead of them, ask for a token   *)
(* of one identity at once; the one that holds the credential's semaphore   *)
(* signs in, the others wait and reuse what it got.  Contexts end, sign-ins *)
(* fail, tokens run out, and Clear forgets everything.                      *)
(***************************************************************************)
EXTENDS Naturals

CONSTANTS
    Requests,       \* goroutines asking for a token
    Warmers,        \* those that may call Warm
    NoRequest,
    MaxCredentials, \* credentials ever created
    MaxLife,        \* ticks the longest token lives
    entraTokenMargin

ASSUME EntraAssumption ==
    /\ NoRequest \notin Requests
    /\ Warmers \subseteq Requests
    /\ {MaxCredentials, MaxLife, entraTokenMargin} \subseteq Nat

VARIABLES
    creds,          \* the credential in the cache; 0 if there is none
    created,        \* how many there have been
    servers,        \* the server's announcement is remembered
    sem,            \* per credential, who holds its semaphore
    tokens,         \* per credential, its cached token; NoToken if there is none
    stage,          \* per request: where it is
    over,           \* its context has ended
    using,          \* the credential it uses
    cleared,        \* how many credentials there had been at the last Clear
    since,          \* the oldest credential for it: none of before the last Clear
    hand            \* the token its login goes by, and how that is going

entra == <<creds, created, servers, sem, tokens, stage, over, using, cleared, since, hand>>

Credentials == 1..MaxCredentials

\* A token is the ticks until it expires, and until its issuer would have it
\* renewed (as many, if the issuer says nothing).
Token == [left : 0..MaxLife, renew : 0..MaxLife]
NoToken == [left |-> 0, renew |-> 0]
Issued == {tk \in Token : 0 < tk.renew /\ tk.renew <= tk.left}

\* In hand: the ticks left, those the login has taken, and whether it is new.
Hand == [left : 0..MaxLife, took : 0..entraTokenMargin, new : BOOLEAN]
NoHand == [left |-> 0, took |-> 0, new |-> FALSE]

EntraTypeOK ==
    /\ creds \in {0} \cup Credentials
    /\ created \in {0} \cup Credentials
    /\ servers \in BOOLEAN
    /\ sem \in [Credentials -> Requests \cup {NoRequest}]
    /\ tokens \in [Credentials -> Token]
    /\ stage \in [Requests -> {"rest", "asks", "credential", "waits", "looks",
                               "signsIn", "login"}]
    /\ over \in [Requests -> BOOLEAN]
    /\ using \in [Requests -> {0} \cup Credentials]
    /\ \A r \in Requests : using[r] = 0 => stage[r] \in {"rest", "asks", "credential"}
    /\ cleared \in {0} \cup Credentials
    /\ since \in [Requests -> 0..(MaxCredentials + 1)]
    /\ hand \in [Requests -> Hand]

EntraInit ==
    /\ creds = 0 /\ created = 0 /\ servers = FALSE
    /\ sem = [c \in Credentials |-> NoRequest]
    /\ tokens = [c \in Credentials |-> NoToken]
    /\ stage = [r \in Requests |-> "rest"]
    /\ over = [r \in Requests |-> FALSE]
    /\ using = [r \in Requests |-> 0]
    /\ cleared = 0
    /\ since = [r \in Requests |-> 0]
    /\ hand = [r \in Requests |-> NoHand]

-----------------------------------------------------------------------------
To(r, label) == stage' = [stage EXCEPT ![r] = label]

\* Its caller has the token or the error.
Done(r) ==
    /\ To(r, "rest")
    /\ over' = [over EXCEPT ![r] = FALSE]
    /\ using' = [using EXCEPT ![r] = 0]
    /\ since' = [since EXCEPT ![r] = 0]
    /\ hand' = [hand EXCEPT ![r] = NoHand]

\* A connection asks for a token in its login; Warm asks the server first, unless
\* it is remembered (askServer).
Asks(r) ==
    /\ stage[r] = "rest"
    /\ \/ To(r, "credential")
       \/ r \in Warmers /\ ~servers /\ To(r, "asks")
    /\ since' = [since EXCEPT ![r] = cleared + 1]
    /\ UNCHANGED <<creds, created, cleared, servers, sem, tokens, over, using, hand>>

AsksServer(r) ==
    /\ stage[r] = "asks"
    /\ ~over[r]
    /\ servers' = TRUE
    /\ To(r, "credential")
    /\ UNCHANGED <<creds, created, cleared, sem, tokens, over, using, since, hand>>

ServerSilent(r) ==
    /\ stage[r] = "asks"
    /\ Done(r)
    /\ UNCHANGED <<creds, created, cleared, servers, sem, tokens>>

\* credential: the cached one, or a new one, which may not be built.
Credential(r) ==
    /\ stage[r] = "credential"
    /\ \/ /\ creds # 0
          /\ UNCHANGED <<creds, created>>
       \/ /\ creds = 0 /\ created < MaxCredentials
          /\ created' = created + 1
          /\ creds' = created'
    /\ using' = [using EXCEPT ![r] = creds']
    /\ To(r, "waits")
    /\ UNCHANGED <<cleared, servers, sem, tokens, over, since, hand>>

NoCredential(r) ==
    /\ stage[r] = "credential"
    /\ creds = 0
    /\ Done(r)
    /\ UNCHANGED <<creds, created, cleared, servers, sem, tokens>>

\* Fault: the semaphore has room for everybody.
EntersAnyway(r) ==
    /\ stage[r] = "waits"
    /\ sem' = [sem EXCEPT ![using[r]] = r]
    /\ To(r, "looks")
    /\ UNCHANGED <<creds, created, cleared, servers, tokens, over, using, since, hand>>

\* token: whoever can take the semaphore does, or gives up if its context is over.
Enters(r) ==
    /\ stage[r] = "waits"
    /\ sem[using[r]] = NoRequest
    /\ sem' = [sem EXCEPT ![using[r]] = r]
    /\ To(r, "looks")
    /\ UNCHANGED <<creds, created, cleared, servers, tokens, over, using, since, hand>>

\* Fault: a waiter stays, whatever becomes of its context.
GivesUpNever(r) == FALSE /\ UNCHANGED entra
GivesUp(r) ==
    /\ stage[r] = "waits"
    /\ over[r]
    /\ Done(r)
    /\ UNCHANGED <<creds, created, cleared, servers, sem, tokens>>

Leaves(r) == sem' = [sem EXCEPT ![using[r]] = NoRequest]

\* Fault: a token is good until it expires.
tokenUnexpired(tk) == tk.renew > 0 /\ tk.left > 0
tokenFresh(tk) == tk.renew > 0 /\ tk.left > entraTokenMargin

LogsIn(r, tk, new) ==
    /\ To(r, "login")
    /\ hand' = [hand EXCEPT ![r] = [left |-> tk.left, took |-> 0, new |-> new]]

Looks(r) ==
    LET tk == tokens[using[r]]
    IN  /\ stage[r] = "looks"
        /\ IF tokenFresh(tk) THEN LogsIn(r, tk, FALSE) /\ Leaves(r)
           ELSE To(r, "signsIn") /\ UNCHANGED <<sem, hand>>
        /\ UNCHANGED <<creds, created, cleared, servers, tokens, over, using, since>>

SignedIn(r) ==
    /\ stage[r] = "signsIn"
    /\ \E tk \in Issued :
          /\ tokens' = [tokens EXCEPT ![using[r]] = tk]
          /\ LogsIn(r, tk, TRUE)
    /\ Leaves(r)
    /\ UNCHANGED <<creds, created, cleared, servers, over, using, since>>

\* GetToken fails, at the latest when the context ends.
NotSignedIn(r) ==
    /\ stage[r] = "signsIn"
    /\ Leaves(r)
    /\ Done(r)
    /\ UNCHANGED <<creds, created, cleared, servers, tokens>>

\* The server has taken the token, or the login has failed.
LoggedIn(r) ==
    /\ stage[r] = "login"
    /\ Done(r)
    /\ UNCHANGED <<creds, created, cleared, servers, sem, tokens>>

\* A request's context ends; once it logs in, that is one way for LoggedIn to come.
ContextOver(r) ==
    /\ stage[r] \notin {"rest", "login"}
    /\ ~over[r]
    /\ over' = [over EXCEPT ![r] = TRUE]
    /\ UNCHANGED <<creds, created, cleared, servers, sem, tokens, stage, using, since, hand>>

-----------------------------------------------------------------------------
\* Fault: only what servers announced is forgotten.
ClearServers ==
    /\ servers' = FALSE
    /\ cleared' = created
    /\ UNCHANGED <<creds, created, sem, tokens, stage, over, using, since, hand>>

\* Clear empties the cache; who has a credential in hand keeps it.
Clear ==
    /\ creds' = 0
    /\ servers' = FALSE
    /\ cleared' = created
    /\ UNCHANGED <<created, sem, tokens, stage, over, using, since, hand>>

\* Time passes.  A login takes no longer than the margin.
Less(n) == IF n = 0 THEN 0 ELSE n - 1
EntraPasses ==
    /\ \A r \in Requests : stage[r] = "login" => hand[r].took < entraTokenMargin
    /\ tokens' = [c \in Credentials |->
                     [left |-> Less(tokens[c].left), renew |-> Less(tokens[c].renew)]]
    /\ hand' = [r \in Requests |->
                  IF stage[r] # "login" THEN hand[r]
                  ELSE [hand[r] EXCEPT !.left = Less(@), !.took = @ + 1]]
    /\ UNCHANGED <<creds, created, cleared, servers, sem, stage, over, using, since>>

Proceeds(r) ==
    \/ AsksServer(r) \/ ServerSilent(r)
    \/ Credential(r) \/ NoCredential(r)
    \/ Enters(r) \/ GivesUp(r) \/ Looks(r) \/ LoggedIn(r)

EntraNext ==
    \/ \E r \in Requests : Asks(r) \/ Proceeds(r) \/ SignedIn(r) \/ NotSignedIn(r)
                           \/ ContextOver(r)
    \/ Clear
    \/ EntraPasses

EntraSpec == EntraInit /\ [][EntraNext]_entra

\* A request goes on with what it does itself, and gives up a sign-in when its
\* context ends; nothing makes a user sign in.
EntraFairness ==
    \A r \in Requests :
        /\ WF_entra(Proceeds(r))
        /\ WF_entra(over[r] /\ NotSignedIn(r))

-----------------------------------------------------------------------------
(* Properties.                                                             *)

\* "The first signs in and the rest wait for - and then reuse - its token": while
\* a request signs in, no other one does with the same credential, and there is
\* no token it could have used.
SignsInOnce ==
    \A r \in Requests : stage[r] = "signsIn" =>
        /\ ~tokenFresh(tokens[using[r]])
        /\ \A q \in Requests \ {r} : stage[q] = "signsIn" => using[q] # using[r]

\* "A connection is never opened with a token that lapses during the login
\* handshake", unless it was issued with no more life than that.
NeverLapses == \A r \in Requests : stage[r] = "login" /\ ~hand[r].new => hand[r].left > 0

\* Clear: "The next connection through c signs in again": what was asked for after
\* it never comes from a credential of before it.
ClearForgets == \A r \in Requests : using[r] # 0 => using[r] >= since[r]

\* A request whose context is over ends, although another one goes on signing in.
OverEnds == \A r \in Requests : over[r] ~> stage[r] = "rest"
=============================================================================
