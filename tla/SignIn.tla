------------------------------- MODULE SignIn -------------------------------
(***************************************************************************)
(* Signing in through an OpenID provider.                                   *)
(*                                                                         *)
(* The server keeps nothing about an attempt: its state, nonce and verifier *)
(* travel in one sealed transaction cookie, and the session in another.  A  *)
(* browser may have several tabs signing in, a callback may be reloaded,    *)
(* and every answer of the server replaces or clears the cookies of all     *)
(* tabs.                                                                    *)
(***************************************************************************)
EXTENDS Integers, Sequences, FiniteSets

CONSTANTS
    TransactionTtl,   \* how long the sealed transaction counts
    CookieAge,        \* how long the browser keeps its cookie
    SessionTtl,       \* how long the sealed session counts
    MaxTime,          \* bounds on time, on attempts, on callbacks
    MaxAttempts,
    MaxCallbacks,
    MaxProviderFaults \* and on failures of the provider and restarts

NoCookie == 0

ASSUME SessionsExpire == SessionTtl \in Nat

VARIABLES
    discovery,     \* the promise of the provider's endpoints
    attempts,      \* when each attempt began; its place is its state and nonce
    transaction,   \* the transaction cookie: an attempt or NoCookie
    session,       \* the session cookie: an attempt and its expiry
    codes,         \* attempts the provider authenticated somebody for
    spentCodes,    \* the codes that were exchanged
    callbacks,     \* callback requests under way
    sent,          \* how many were sent
    sessions,      \* the sessions the server ever sealed
    time,
    faults

provider == <<codes, spentCodes>>
cookies == <<transaction, session>>
signInVars == <<discovery, attempts, transaction, session, codes, spentCodes,
                callbacks, sent, sessions, time, faults>>

NoSession == [attempt |-> NoCookie, expires |-> 0]

SignInInit ==
    /\ discovery = "unknown"
    /\ attempts = <<>>
    /\ transaction = NoCookie
    /\ session = NoSession
    /\ codes = {} /\ spentCodes = {}
    /\ callbacks = {}
    /\ sent = 0
    /\ sessions = {}
    /\ time = 0
    /\ faults = 0

Fault == faults < MaxProviderFaults /\ faults' = faults + 1

\* The first request that needs the endpoints asks for them.  A failure is
\* kept like an answer: every later request of the process fails with it.
Discover(ok) ==
    /\ discovery = "unknown"
    /\ IF ok
       THEN discovery' = "known" /\ UNCHANGED faults
       ELSE discovery' = "failed" /\ Fault
    /\ UNCHANGED <<attempts, cookies, provider, callbacks, sent, sessions, time>>

\* A new process of the server forgets the endpoints, and nothing else.
RestartServer ==
    /\ discovery # "unknown"
    /\ discovery' = "unknown"
    /\ Fault
    /\ UNCHANGED <<attempts, cookies, provider, callbacks, sent, sessions, time>>

\* login: the cookie of the attempt replaces that of any other tab.
Begin ==
    /\ discovery = "known"
    /\ Len(attempts) < MaxAttempts
    /\ attempts' = Append(attempts, time)
    /\ transaction' = Len(attempts) + 1
    /\ UNCHANGED <<discovery, session, provider, callbacks, sent, sessions, time,
                   faults>>

\* Somebody signs in at the provider, which sends the browser back with a code.
Authenticate(n) ==
    /\ codes' = codes \cup {n}
    /\ UNCHANGED <<discovery, attempts, cookies, spentCodes, callbacks, sent,
                   sessions, time, faults>>

KeptCookie ==
    IF transaction # NoCookie /\ time < attempts[transaction] + CookieAge
    THEN transaction ELSE NoCookie

\* The browser follows the redirection, or reloads it, with the cookie it has.
SendCallback(n) ==
    /\ n \in codes
    /\ sent < MaxCallbacks
    /\ sent' = sent + 1
    /\ callbacks' = callbacks \cup
            {[id |-> sent, code |-> n, cookie |-> KeptCookie, checked |-> FALSE]}
    /\ UNCHANGED <<discovery, attempts, cookies, provider, sessions, time, faults>>

\* Every failure clears the transaction cookie, whichever attempt it holds.
Fails(c) ==
    /\ callbacks' = callbacks \ {c}
    /\ transaction' = NoCookie
    /\ UNCHANGED <<session, sessions>>

Unexpired(n) == time < attempts[n] + TransactionTtl

\* Mutant of Belongs: the state of the callback is not compared.
BelongsMutant(c) == c.cookie # NoCookie /\ Unexpired(c.cookie)
Belongs(c) == c.cookie # NoCookie /\ Unexpired(c.cookie) /\ c.cookie = c.code

\* complete, up to its calls: the cookie is there, young, and of this state.
CheckCallback(c) ==
    /\ ~c.checked
    /\ IF Belongs(c) /\ discovery # "failed"
       THEN /\ discovery = "known"
            /\ callbacks' = (callbacks \ {c}) \cup
                    {[c EXCEPT !.checked = TRUE]}
            /\ UNCHANGED <<cookies, sessions>>
       ELSE Fails(c)
    /\ UNCHANGED <<discovery, attempts, provider, sent, time, faults>>

\* The provider exchanges a code once, for the verifier of the attempt it is of.
Redeems(c) == c.code \notin spentCodes /\ c.cookie = c.code
\* The token of that code carries the nonce of the attempt the cookie holds.
IdTokenVerifies(c) == c.code = c.cookie

\* complete, from its calls: the session starts when the token is there.
Exchange(c) ==
    /\ c.checked
    /\ spentCodes' = spentCodes \cup {c.code}
    /\ IF ~Redeems(c) \/ ~IdTokenVerifies(c)
       THEN Fails(c)
       ELSE LET new == [attempt |-> c.cookie, expires |-> time + SessionTtl]
            IN  /\ session' = new
                /\ transaction' = NoCookie
                /\ sessions' = sessions \cup {new}
                /\ callbacks' = callbacks \ {c}
    /\ UNCHANGED <<discovery, attempts, codes, sent, time, faults>>

\* The exchange, or the keys of the token, cannot be had; the code may be gone.
ExchangeFails(c, used) ==
    /\ c.checked
    /\ Fault
    /\ spentCodes' = IF used THEN spentCodes \cup {c.code} ELSE spentCodes
    /\ Fails(c)
    /\ UNCHANGED <<discovery, attempts, codes, sent, time>>

Logout ==
    /\ session # NoSession
    /\ session' = NoSession
    /\ UNCHANGED <<discovery, attempts, transaction, provider, callbacks, sent,
                   sessions, time, faults>>

MinutePasses ==
    /\ time < MaxTime
    /\ time' = time + 1
    /\ UNCHANGED <<discovery, attempts, cookies, provider, callbacks, sent,
                   sessions, faults>>

SignInNext ==
    \/ \E ok \in BOOLEAN : Discover(ok)
    \/ RestartServer \/ Begin \/ Logout \/ MinutePasses
    \/ \E n \in DOMAIN attempts : Authenticate(n) \/ SendCallback(n)
    \/ \E c \in callbacks :
            \/ CheckCallback(c) \/ Exchange(c)
            \/ \E used \in BOOLEAN : ExchangeFails(c, used)

\* readSession.
Principal ==
    IF session # NoSession /\ time < session.expires
    THEN session.attempt ELSE NoCookie

-----------------------------------------------------------------------------
(* Properties.                                                              *)

\* What the browser, the provider and the requests hold.
Attempt == 1 .. Len(attempts)
Callback == [id : Nat, code : Attempt, cookie : Attempt \cup {NoCookie},
             checked : BOOLEAN]
Session == [attempt : Attempt, expires : Int]
SignInTypes ==
    /\ discovery \in {"unknown", "known", "failed"}
    /\ attempts \in Seq(Nat)
    /\ transaction \in Attempt \cup {NoCookie}
    /\ session \in Session \cup {NoSession}
    /\ codes \in SUBSET Attempt /\ spentCodes \in SUBSET Attempt
    /\ callbacks \in SUBSET Callback
    /\ sessions \in SUBSET Session
    /\ sent \in Nat /\ time \in Nat /\ faults \in Nat

\* A session belongs to one attempt of this browser that somebody signed in
\* for, and no attempt gives two, however often its callback is reloaded; and
\* several tabs do not spoil each other's sign-in at the provider: a code is gone
\* without a session only if the provider failed, never because it was offered
\* under the cookie of another tab (oidc-service.ts begin, complete, readSession;
\* oidc-http.ts callback).
SessionsAreEarned ==
    /\ \A s, t \in sessions : s.attempt = t.attempt => s = t
    /\ \A s \in sessions : s.attempt \in codes \cap spentCodes
    /\ session # NoSession => session \in sessions
    /\ Principal # NoCookie => Principal \in codes
    /\ Cardinality(spentCodes \ {s.attempt : s \in sessions}) <= faults
=============================================================================
