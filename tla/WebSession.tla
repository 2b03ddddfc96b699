------------------------------ MODULE WebSession ------------------------------
(***************************************************************************)
(* Who the web client is signed in as, and what it keeps for that person:  *)
(* services/web/src/services/authService.ts, stores/authStore.ts, app/     *)
(* providers.tsx, app/queryClient.ts, services/apiClient.ts and the        *)
(* callback, sign-in and settings pages.                                   *)
(*                                                                         *)
(* The user lives in sessionStorage and survives a page load; everything   *)
(* else is memory.  Reading sessionStorage takes microtasks only, so a     *)
(* read and the set that follows it are one step, and so are a set of the  *)
(* session and the effect on its subject.  What waits for the network --   *)
(* exchanging the code, renewing, a request, a redirect -- is a step of    *)
(* its own.  Requests are those of the pages' queries.                     *)
(***************************************************************************)
EXTENDS Naturals

CONSTANTS
    Subject,       \* who may sign in
    None,          \* null: nobody; also whom an anonymous request is made as
    NoData,        \* a query that has no data
    Developer,     \* VITE_DEV_SUBJECT, or None
    Modes,         \* the values of authMode to look at
    Query,         \* the queries of the mounted pages
    RetryLimit     \* how often a failed query is tried again

ASSUME SessionAssumption ==
    /\ None \notin Subject \cup [subject: Subject, expired: BOOLEAN]
    /\ NoData \notin Subject \cup {None}
    /\ Developer \in Subject \cup {None}
    /\ Modes \subseteq {"disabled", "development", "oidc", "misconfigured"}
    /\ RetryLimit \in Nat

VARIABLES
    mode,        \* authMode; "misconfigured": oidc, but a required setting is missing
    user,        \* the stored user: subject and whether the token is expired
    code,        \* the address carries an authorization code nobody has used
    auth,        \* useAuthStore
    place,       \* the page
    callback,    \* what became of the exchange of the code
    exchanges,   \* signinRedirectCallback calls under way, each with who awaits it
    leaving,     \* a redirect to the provider is being prepared
    query,       \* per query, its fetch
    cache        \* per query, whom the data the query cache holds was fetched as

identityVars == <<user, auth, query, cache>>
pageVars == <<code, place, callback, exchanges, leaving>>
sessionVars == <<mode, identityVars, pageVars>>

User == [subject: Subject, expired: BOOLEAN]
Auth == [session: Subject \cup {None}, loading: BOOLEAN, error: BOOLEAN]
Place == {"app", "signIn", "callback"}

\* A fetch that was cancelled goes on renewing the token, its answer is dropped.
Fetch == [step: {"idle", "renewing", "sent"}, as: Subject \cup {None},
          failures: 0..RetryLimit, live: BOOLEAN]
NoFetch == [step |-> "idle", as |-> None, failures |-> 0, live |-> TRUE]

-----------------------------------------------------------------------------
\* activeSession
Active(u) == IF u = None THEN None ELSE IF u.expired THEN None ELSE u.subject

\* getSession, and what initialize makes of it.  Without its settings
\* getUserManager throws in subscribeAuth, outside initialize's try.
Initialized(m, u) ==
    [session |-> IF m = "oidc" THEN Active(u)
                 ELSE IF m = "development" THEN Developer ELSE None,
     loading |-> m = "misconfigured",
     error |-> FALSE]

\* queryClient.clear(): no data is left, and what is on its way is dropped.
Cleared(q) ==
    IF q.step = "renewing" THEN [q EXCEPT !.live = FALSE] ELSE NoFetch

\* Mutant: the effect has nothing to do when somebody signs in.
SetSessionSignOutOnly(session, queries) ==
    /\ auth' = [session |-> session, loading |-> FALSE, error |-> FALSE]
    /\ IF session = auth.session \/ session # None
         THEN query' = queries /\ UNCHANGED cache
         ELSE /\ query' = [r \in Query |-> Cleared(queries[r])]
              /\ cache' = [r \in Query |-> NoData]

\* set({ session, ... }), and the effect on the subject if it is another one.
SetSession(session, queries) ==
    /\ auth' = [session |-> session, loading |-> FALSE, error |-> FALSE]
    /\ IF session = auth.session
         THEN query' = queries /\ UNCHANGED cache
         ELSE /\ query' = [r \in Query |-> Cleared(queries[r])]
              /\ cache' = [r \in Query |-> NoData]

\* storeUser and removeUser of the OIDC client, with the event each one raises.
StoreUser(subject, queries) ==
    /\ user' = [subject |-> subject, expired |-> FALSE]
    /\ SetSession(subject, queries)

\* Mutant: nobody listens to addUserUnloaded.
RemoveUserQuietly(queries) ==
    /\ user' = None
    /\ query' = queries
    /\ UNCHANGED <<auth, cache>>

RemoveUser(queries) ==
    /\ user' = None
    /\ SetSession(None, queries)

-----------------------------------------------------------------------------
\* The effect of the callback page.  StrictMode runs it, its cleanup, and it again:
\* what the ended one awaits still goes on, but only the active one navigates.
Effects == {{"active"}, {"ended", "active"}}

\* Mutant: every call of completeSignIn exchanges the code.
ExchangesEach(effects) == {{e} : e \in effects}

\* completeSignIn: whoever calls it gets the same promise (authService.ts:56).
Exchanges(effects) == {effects}

\* A document at page p.
Loaded(p, m, u) ==
    /\ auth' = Initialized(m, u)
    /\ place' = p
    /\ IF p = "callback" /\ m = "oidc"
         THEN /\ callback' = "pending"
              /\ \E effects \in Effects : exchanges' = Exchanges(effects)
         ELSE /\ exchanges' = {}
              /\ callback' = IF p = "callback" THEN "failed" ELSE "none"
    /\ leaving' = "no"
    /\ query' = [r \in Query |-> NoFetch]
    /\ cache' = [r \in Query |-> NoData]

\* The router has no callback page and no sign-in page when accounts are disabled.
Routed(p, m) == IF m = "disabled" THEN "app" ELSE p

SessionInit ==
    /\ mode \in Modes
    /\ user \in User \cup {None}
    /\ mode # "oidc" => user = None
    /\ code = FALSE
    /\ place = Routed("signIn", mode)
    /\ auth = Initialized(mode, user)
    /\ callback = "none"
    /\ exchanges = {}
    /\ leaving = "no"
    /\ query = [r \in Query |-> NoFetch]
    /\ cache = [r \in Query |-> NoData]

\* Reloading, or entering an address.
LoadPage(p) ==
    /\ Loaded(Routed(p, mode), mode, user)
    /\ UNCHANGED <<mode, user, code>>

\* A link within the application; "Try again" of the callback page is one too.
Navigate(p) ==
    /\ p \in {"app", "signIn"}
    /\ place = "callback" => callback = "failed"
    /\ place' = Routed(p, mode)
    /\ UNCHANGED <<mode, identityVars, code, callback, exchanges, leaving>>

-----------------------------------------------------------------------------
(* Signing in and out                                                      *)

\* signIn up to the redirect.  The page's button is for those without a session.
SignIn ==
    /\ place = "signIn"
    /\ mode = "oidc"
    /\ auth.session = None
    /\ ~auth.loading
    /\ auth' = [auth EXCEPT !.loading = TRUE, !.error = FALSE]
    /\ leaving' = "signIn"
    /\ UNCHANGED <<mode, user, query, cache, code, place, callback, exchanges>>

\* signOut: signoutRedirect removes the user before it asks where to go.
SignOut ==
    /\ mode = "oidc"
    /\ auth.session # None
    /\ leaving = "no"
    /\ RemoveUser(query)
    /\ leaving' = "signOut"
    /\ UNCHANGED <<mode, code, place, callback, exchanges>>

\* The provider is reached; it sends the browser back, after a sign-in with a code.
Redirected ==
    /\ leaving # "no"
    /\ IF leaving = "signIn"
         THEN code' = TRUE /\ Loaded("callback", mode, user)
         ELSE code' = FALSE /\ Loaded("app", mode, user)
    /\ UNCHANGED <<mode, user>>

\* Mutant: the button stays disabled.
RedirectFailedStillLoading ==
    /\ leaving # "no"
    /\ leaving' = "no"
    /\ auth' = [auth EXCEPT !.error = TRUE]
    /\ UNCHANGED <<mode, user, query, cache, code, place, callback, exchanges>>

\* catch of signIn and signOut
RedirectFailed ==
    /\ leaving # "no"
    /\ leaving' = "no"
    /\ auth' = [auth EXCEPT !.loading = FALSE, !.error = TRUE]
    /\ UNCHANGED <<mode, user, query, cache, code, place, callback, exchanges>>

\* Mutant: the stored user is not read again, and nobody is sent on.
CallbackSucceedsUnseen(awaiting, subject) ==
    /\ awaiting \in exchanges
    /\ code
    /\ code' = FALSE
    /\ exchanges' = exchanges \ {awaiting}
    /\ callback' = "pending"
    /\ StoreUser(subject, query)
    /\ UNCHANGED <<mode, place, leaving>>

\* The code is exchanged: the user is stored, refresh reads it, the active effect
\* navigates.
CallbackSucceeds(awaiting, subject) ==
    /\ awaiting \in exchanges
    /\ code
    /\ code' = FALSE
    /\ exchanges' = exchanges \ {awaiting}
    /\ callback' = "done"
    /\ place' = IF place = "callback" /\ "active" \in awaiting THEN "app" ELSE place
    /\ StoreUser(subject, query)
    /\ UNCHANGED <<mode, leaving>>

CallbackFails(awaiting) ==
    /\ awaiting \in exchanges
    /\ code' = FALSE
    /\ exchanges' = exchanges \ {awaiting}
    /\ callback' = IF "active" \in awaiting THEN "failed" ELSE callback
    /\ UNCHANGED <<mode, identityVars, place, leaving>>

-----------------------------------------------------------------------------
(* Time                                                                    *)

Expire ==
    /\ user # None
    /\ user' = [user EXCEPT !.expired = TRUE]
    /\ UNCHANGED <<mode, auth, query, cache, pageVars>>

\* addAccessTokenExpired
TokenExpired ==
    /\ user # None
    /\ user.expired
    /\ SetSession(None, query)
    /\ UNCHANGED <<mode, user, pageVars>>

\* automaticSilentRenew; a failure changes nothing.
AutomaticRenewal ==
    /\ user # None
    /\ StoreUser(user.subject, query)
    /\ UNCHANGED <<mode, pageVars>>

-----------------------------------------------------------------------------
(* Queries                                                                 *)

\* The fetch starts, or is tried again: getAuthHeaders.  Without its settings the client
\* has no headers to send and the query fails at once.
StartFetch(r) ==
    /\ query[r].step = "idle"
    /\ mode # "misconfigured"
    /\ query' = [query EXCEPT ![r].step =
                     IF mode = "oidc" /\ user # None /\ Active(user) = None
                       THEN "renewing" ELSE "sent",
                 ![r].as =
                     IF mode = "development" THEN Developer
                     ELSE IF user # None THEN user.subject ELSE None]
    /\ UNCHANGED <<mode, user, auth, cache, pageVars>>

Headed(r, as) == [query EXCEPT ![r] = IF @.live THEN [@ EXCEPT !.step = "sent", !.as = as]
                                      ELSE NoFetch]

\* signinSilent succeeds, for the user it was called for.
RenewalSucceeds(r) ==
    /\ query[r].step = "renewing"
    /\ StoreUser(query[r].as, Headed(r, query[r].as))
    /\ UNCHANGED <<mode, pageVars>>

\* signinSilent fails: whichever user is stored by now is removed, and the request
\* goes out without a token.
RenewalFails(r) ==
    /\ query[r].step = "renewing"
    /\ RemoveUser(Headed(r, None))
    /\ UNCHANGED <<mode, pageVars>>

FetchSucceeds(r) ==
    /\ query[r].step = "sent"
    /\ cache' = [cache EXCEPT ![r] = query[r].as]
    /\ query' = [query EXCEPT ![r] = NoFetch]
    /\ UNCHANGED <<mode, user, auth, pageVars>>

\* Mutant: failures are not counted.
FetchFailsForEver(r) ==
    /\ query[r].step = "sent"
    /\ query' = [query EXCEPT ![r] = [NoFetch EXCEPT !.failures = query[r].failures + 1]]
    /\ UNCHANGED <<mode, user, auth, cache, pageVars>>

\* A status from 400 to 499, or one failure too many, is final.
FetchFails(r) ==
    /\ query[r].step = "sent"
    /\ \/ query' = [query EXCEPT ![r] = NoFetch]
       \/ /\ query[r].failures < RetryLimit
          /\ query' = [query EXCEPT ![r] = [NoFetch EXCEPT !.failures = query[r].failures + 1]]
    /\ UNCHANGED <<mode, user, auth, cache, pageVars>>

-----------------------------------------------------------------------------
CallbackStep ==
    \E awaiting \in exchanges :
        \/ CallbackFails(awaiting)
        \/ \E s \in Subject : CallbackSucceeds(awaiting, s)
RedirectStep == Redirected \/ RedirectFailed
FetchStep(r) ==
    StartFetch(r) \/ RenewalSucceeds(r) \/ RenewalFails(r) \/ FetchSucceeds(r) \/ FetchFails(r)

SessionNext ==
    \/ \E p \in Place : LoadPage(p) \/ Navigate(p)
    \/ SignIn \/ SignOut \/ RedirectStep \/ CallbackStep
    \/ Expire \/ TokenExpired \/ AutomaticRenewal
    \/ \E r \in Query : FetchStep(r)

SessionSpec == SessionInit /\ [][SessionNext]_sessionVars

\* The provider answers or the request to it fails.
SessionFairness == WF_sessionVars(CallbackStep) /\ WF_sessionVars(RedirectStep)
FairSessionSpec == SessionSpec /\ SessionFairness

-----------------------------------------------------------------------------
(* Properties                                                              *)

\* Every variable has its type.
SessionTypeOK ==
    /\ mode \in Modes
    /\ user \in User \cup {None}
    /\ code \in BOOLEAN
    /\ auth \in Auth
    /\ place \in Place
    /\ callback \in {"none", "pending", "done", "failed"}
    /\ exchanges \subseteq Effects \cup {{"ended"}}
    /\ leaving \in {"no", "signIn", "signOut"}
    /\ query \in [Query -> Fetch]
    /\ cache \in [Query -> Subject \cup {None, NoData}]

\* The session on display is that of the stored user, whichever of the start-up
\* read, the callback, the renewals and the timers came last; with a token that is
\* still good nobody is shown as signed out.
SessionFollowsUser ==
    mode = "oidc" =>
        /\ auth.session # None => user # None /\ user.subject = auth.session
        /\ Active(user) # None => auth.session = Active(user)

\* What a page is given was fetched as whoever is signed in now, or without a token if
\* nobody is: neither data that was there before the identity changed is left nor an
\* answer that was on its way when it did (providers.tsx:16-22).
CacheIsCurrent ==
    \A r \in Query : cache[r] \in {NoData, auth.session}

\* Whoever was signed in by the callback page is taken on from it, and is neither left
\* there nor told that it failed, although the effect may run twice and a code is good
\* for one exchange only (authService.ts:56, main.tsx:12).
SignInIsSeen == callback = "done" => place # "callback"

\* The callback page does not stay at "Completing sign-in".
CallbackSettles ==
    (place = "callback" /\ callback = "pending") ~> (place # "callback" \/ callback = "failed")

\* With its settings in place the client does not show "Connecting..." for ever.
LoadingEnds == (auth.loading /\ mode # "misconfigured") ~> ~auth.loading

=============================================================================
