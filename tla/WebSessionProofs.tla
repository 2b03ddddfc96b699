--------------------------- MODULE WebSessionProofs ---------------------------
(***************************************************************************)
(* Proofs about WebSession: for any number of people and queries, the      *)
(* session on display follows the stored user, the query cache holds       *)
(* nothing of another identity, and a sign-in is seen.                     *)
(***************************************************************************)
EXTENDS WebSession, TLAPS

\* Only OIDC stores a user, exchanges a code or renews a token; the other modes have
\* the one session they start with.
OnlyOidc ==
    /\ mode # "oidc" => user = None /\ exchanges = {}
    /\ mode = "development" => auth.session = Developer
    /\ mode \in {"disabled", "misconfigured"} => auth.session = None
    /\ \A r \in Query : query[r].step = "renewing" => mode = "oidc" /\ query[r].as \in Subject

\* A request that is out was sent as whoever is signed in: what was sent before an
\* identity changed is dropped with the cache.
SentIsCurrent == \A r \in Query : query[r].step = "sent" => query[r].as = auth.session

\* Somebody awaits every exchange who is still there to navigate.
Awaited == \A awaiting \in exchanges : "active" \in awaiting

SessionInv ==
    /\ SessionTypeOK
    /\ OnlyOidc
    /\ SessionFollowsUser
    /\ SentIsCurrent
    /\ CacheIsCurrent
    /\ Awaited
    /\ SignInIsSeen

-----------------------------------------------------------------------------
(* Setting the session                                                     *)

\* What SetSession does to the queries and the cache, for the invariant: it is told
\* who is signed in, and queries that are typed.
Settable(s, queries) ==
    /\ s \in Subject \cup {None}
    /\ queries \in [Query -> Fetch]
    /\ \A r \in Query :
         /\ queries[r].step = "renewing" => mode = "oidc" /\ queries[r].as \in Subject
         /\ queries[r].step = "sent" /\ s = auth.session => queries[r].as = s

LEMMA ClearedFetch ==
    ASSUME NEW q \in Fetch
    PROVE  /\ Cleared(q) \in Fetch
           /\ Cleared(q).step # "sent"
           /\ Cleared(q).step = "renewing" => q.step = "renewing" /\ Cleared(q).as = q.as
<1>0. NoFetch \in Fetch
  BY SessionAssumption DEF NoFetch, Fetch
<1>1. CASE q.step = "renewing"
  <2>1. Cleared(q) = [q EXCEPT !.live = FALSE]
    BY <1>1 DEF Cleared
  <2> QED BY <1>1, <2>1 DEF Fetch
<1>2. CASE q.step # "renewing"
  <2>1. Cleared(q) = NoFetch
    BY <1>2 DEF Cleared
  <2> QED BY <1>0, <2>1 DEF NoFetch
<1> QED BY <1>1, <1>2

\* Whoever is signed in afterwards, the cache and the requests that are out are theirs.
LEMMA SessionSet ==
    ASSUME SessionTypeOK, SessionFollowsUser, CacheIsCurrent,
           NEW s, NEW queries, Settable(s, queries), SetSession(s, queries)
    PROVE  /\ auth' = [session |-> s, loading |-> FALSE, error |-> FALSE]
           /\ query' \in [Query -> Fetch]
           /\ cache' \in [Query -> Subject \cup {None, NoData}]
           /\ \A r \in Query :
                /\ query'[r].step = "renewing" => mode = "oidc" /\ query'[r].as \in Subject
                /\ query'[r].step = "sent" => query'[r].as = s
                /\ cache'[r] \in {NoData, s}
<1>1. auth' = [session |-> s, loading |-> FALSE, error |-> FALSE]
  BY DEF SetSession
<1>2. CASE s = auth.session
  BY <1>1, <1>2 DEF SetSession, Settable, CacheIsCurrent, SessionTypeOK
<1>3. CASE s # auth.session
  <2>1. /\ query' = [r \in Query |-> Cleared(queries[r])]
        /\ cache' = [r \in Query |-> NoData]
    BY <1>3 DEF SetSession
  <2>2. \A r \in Query : queries[r] \in Fetch
    BY DEF Settable
  <2>3. \A r \in Query :
          /\ query'[r] \in Fetch
          /\ query'[r].step # "sent"
          /\ query'[r].step = "renewing" => mode = "oidc" /\ query'[r].as \in Subject
    BY <2>1, <2>2, ClearedFetch DEF Settable
  <2> QED BY <1>1, <2>1, <2>3
<1> QED BY <1>2, <1>3

\* The whole invariant after a step that stores, keeps or removes a user and sets the
\* session accordingly, if the rest of the step is typed.
Rest ==
    /\ mode \in Modes
    /\ code \in BOOLEAN
    /\ place \in Place
    /\ callback \in {"none", "pending", "done", "failed"}
    /\ exchanges \subseteq Effects \cup {{"ended"}}
    /\ leaving \in {"no", "signIn", "signOut"}
    /\ Awaited
    /\ SignInIsSeen

LEMMA UserSet ==
    ASSUME SessionInv, NEW s, NEW queries, Settable(s, queries), SetSession(s, queries),
           mode = "oidc", mode' = mode, Rest',
           user' \in User \cup {None},
           s # None => user' # None /\ user'.subject = s,
           Active(user)' # None => s = Active(user)'
    PROVE  SessionInv'
<1>1. /\ auth' = [session |-> s, loading |-> FALSE, error |-> FALSE]
      /\ query' \in [Query -> Fetch]
      /\ cache' \in [Query -> Subject \cup {None, NoData}]
      /\ \A r \in Query :
           /\ query'[r].step = "renewing" => mode = "oidc" /\ query'[r].as \in Subject
           /\ query'[r].step = "sent" => query'[r].as = s
           /\ cache'[r] \in {NoData, s}
  BY SessionSet DEF SessionInv
<1>2. s \in Subject \cup {None}
  BY DEF Settable
<1>3. SessionTypeOK'
  BY <1>1, <1>2 DEF SessionTypeOK, Rest, Auth
<1>4. OnlyOidc' /\ SessionFollowsUser'
  BY <1>1 DEF OnlyOidc, SessionFollowsUser
<1>5. SentIsCurrent' /\ CacheIsCurrent'
  BY <1>1 DEF SentIsCurrent, CacheIsCurrent
<1> QED BY <1>3, <1>4, <1>5 DEF SessionInv, Rest

LEMMA StoredUser ==
    ASSUME NEW s \in Subject
    PROVE  /\ [subject |-> s, expired |-> FALSE] \in User
           /\ [subject |-> s, expired |-> FALSE] # None
<1>1. [subject |-> s, expired |-> FALSE] \in User
  BY DEF User
<1>2. None \notin User
  BY SessionAssumption DEF User
<1> QED BY <1>1, <1>2

\* The invariant lets a session be set.
LEMMA QueriesSettable ==
    ASSUME SessionInv, NEW s \in Subject \cup {None}
    PROVE  Settable(s, query)
BY DEF SessionInv, Settable, SessionTypeOK, OnlyOidc, SentIsCurrent

LEMMA HeadedFetch ==
    ASSUME SessionInv, NEW r \in Query, NEW s \in Subject \cup {None}
    PROVE  Settable(s, Headed(r, s))
<1> DEFINE q == IF query[r].live THEN [query[r] EXCEPT !.step = "sent", !.as = s] ELSE NoFetch
<1>0. query \in [Query -> Fetch]
  BY DEF SessionInv, SessionTypeOK
<1>1. q \in Fetch /\ (q.step = "renewing" => FALSE) /\ (q.step = "sent" => q.as = s)
  <2>1. CASE query[r].live
    BY <1>0, <2>1 DEF Fetch
  <2>2. CASE ~query[r].live
    BY <2>2, SessionAssumption DEF Fetch, NoFetch
  <2> QED BY <2>1, <2>2
<1>2. Headed(r, s) = [query EXCEPT ![r] = q]
  BY DEF Headed
<1> HIDE DEF q
<1>3. /\ Headed(r, s) \in [Query -> Fetch]
      /\ \A t \in Query : Headed(r, s)[t] = IF t = r THEN q ELSE query[t]
  BY <1>0, <1>1, <1>2
<1> QED BY <1>1, <1>3 DEF Settable, SessionInv, OnlyOidc, SentIsCurrent

-----------------------------------------------------------------------------
(* The steps                                                               *)

LEMMA SessionInvInit == SessionInit => SessionInv
<1> SUFFICES ASSUME SessionInit
             PROVE  SessionInv
  OBVIOUS
<1>0. NoFetch \in Fetch
  BY SessionAssumption DEF NoFetch, Fetch
<1>1. Active(user) \in Subject \cup {None}
  BY DEF SessionInit, Active, User
<1>2. SessionTypeOK
  BY <1>0, <1>1, SessionAssumption DEF SessionTypeOK, SessionInit, Initialized, Auth, Routed, Place
<1>3. OnlyOidc
  BY SessionAssumption DEF OnlyOidc, SessionInit, Initialized, NoFetch
<1>4. SessionFollowsUser
  BY SessionAssumption DEF SessionFollowsUser, SessionInit, Initialized, Active, User
<1>5. SentIsCurrent /\ CacheIsCurrent /\ Awaited /\ SignInIsSeen
  BY DEF SentIsCurrent, CacheIsCurrent, Awaited, SignInIsSeen, SessionInit, NoFetch
<1> QED BY <1>2, <1>3, <1>4, <1>5 DEF SessionInv

\* A page load reads the stored user again and starts with empty memory.
LEMMA LoadedInv ==
    ASSUME SessionInv, NEW p \in Place, Loaded(p, mode, user),
           mode' = mode, user' = user, code' \in BOOLEAN
    PROVE  SessionInv'
<1>0. NoFetch \in Fetch
  BY SessionAssumption DEF NoFetch, Fetch
<1>1. /\ mode \in Modes
      /\ user \in User \cup {None}
      /\ mode # "oidc" => user = None
  BY DEF SessionInv, SessionTypeOK, OnlyOidc
<1>2. Active(user) \in Subject \cup {None}
  BY <1>1 DEF Active, User
<1>3. /\ auth' = Initialized(mode, user)
      /\ place' = p
      /\ leaving' = "no"
      /\ query' = [r \in Query |-> NoFetch]
      /\ cache' = [r \in Query |-> NoData]
  BY DEF Loaded
<1>4. /\ callback' \in {"none", "pending", "failed"}
      /\ exchanges' \subseteq Effects
      /\ mode # "oidc" => exchanges' = {}
      /\ \A awaiting \in exchanges' : "active" \in awaiting
  BY DEF Loaded, Exchanges, Effects
<1>5. SessionTypeOK'
  BY <1>0, <1>1, <1>2, <1>3, <1>4, SessionAssumption DEF SessionTypeOK, Initialized, Auth
<1>6. OnlyOidc'
  BY <1>1, <1>3, <1>4, SessionAssumption DEF OnlyOidc, Initialized, NoFetch
<1>7. SessionFollowsUser'
  BY <1>1, <1>3, SessionAssumption DEF SessionFollowsUser, Initialized, Active, User
<1>8. SentIsCurrent' /\ CacheIsCurrent' /\ Awaited' /\ SignInIsSeen'
  BY <1>3, <1>4 DEF SentIsCurrent, CacheIsCurrent, Awaited, SignInIsSeen, NoFetch
<1> QED BY <1>5, <1>6, <1>7, <1>8 DEF SessionInv

\* A step that changes neither the user, the session nor what was fetched.
LEMMA PageStepInv ==
    ASSUME SessionInv, UNCHANGED <<mode, user, query, cache>>,
           auth'.session = auth.session, auth' \in Auth, Rest',
           mode # "oidc" => exchanges' = {}
    PROVE  SessionInv'
<1>1. SessionTypeOK'
  BY DEF SessionInv, SessionTypeOK, Rest
<1>2. OnlyOidc' /\ SentIsCurrent' /\ CacheIsCurrent'
  BY DEF SessionInv, OnlyOidc, SentIsCurrent, CacheIsCurrent
<1>3. SessionFollowsUser'
  BY DEF SessionInv, SessionFollowsUser, Active
<1> QED BY <1>1, <1>2, <1>3 DEF SessionInv, Rest

\* A step of the queries that changes nothing else.
LEMMA QueryStepInv ==
    ASSUME SessionInv, UNCHANGED <<mode, user, auth, pageVars>>,
           NEW r \in Query, NEW q \in Fetch, query' = [query EXCEPT ![r] = q],
           q.step = "renewing" => mode = "oidc" /\ q.as \in Subject,
           q.step = "sent" => q.as = auth.session,
           cache' \in [Query -> Subject \cup {None, NoData}],
           \A t \in Query : cache'[t] \in {NoData, auth.session}
    PROVE  SessionInv'
<1>1. /\ query' \in [Query -> Fetch]
      /\ \A t \in Query : query'[t] = IF t = r THEN q ELSE query[t]
  BY DEF SessionInv, SessionTypeOK
<1>2. SessionTypeOK'
  BY <1>1 DEF SessionInv, SessionTypeOK, pageVars
<1>3. OnlyOidc'
  BY <1>1 DEF SessionInv, OnlyOidc, pageVars
<1>4. SessionFollowsUser'
  BY DEF SessionInv, SessionFollowsUser, Active
<1>5. SentIsCurrent' /\ CacheIsCurrent'
  BY <1>1 DEF SessionInv, SentIsCurrent, CacheIsCurrent
<1>6. Awaited' /\ SignInIsSeen'
  BY DEF SessionInv, Awaited, SignInIsSeen, pageVars
<1> QED BY <1>2, <1>3, <1>4, <1>5, <1>6 DEF SessionInv

LEMMA SessionInvNext == SessionInv /\ [SessionNext]_sessionVars => SessionInv'
<1> SUFFICES ASSUME SessionInv, [SessionNext]_sessionVars
             PROVE  SessionInv'
  OBVIOUS
<1> USE DEF Place
<1>t. /\ mode \in Modes
      /\ user \in User \cup {None}
      /\ code \in BOOLEAN
      /\ auth \in Auth
      /\ place \in Place
      /\ callback \in {"none", "pending", "done", "failed"}
      /\ exchanges \subseteq Effects \cup {{"ended"}}
      /\ leaving \in {"no", "signIn", "signOut"}
      /\ query \in [Query -> Fetch]
      /\ cache \in [Query -> Subject \cup {None, NoData}]
  BY DEF SessionInv, SessionTypeOK
<1>o. /\ mode # "oidc" => user = None /\ exchanges = {}
      /\ Awaited
      /\ SignInIsSeen
  BY DEF SessionInv, OnlyOidc
<1>f. mode = "oidc" => /\ auth.session # None => user # None /\ user.subject = auth.session
                       /\ Active(user) # None => auth.session = Active(user)
  BY DEF SessionInv, SessionFollowsUser
<1>q. \A r \in Query :
        /\ query[r].step = "renewing" => mode = "oidc" /\ query[r].as \in Subject
        /\ query[r].step = "sent" => query[r].as = auth.session
        /\ cache[r] \in {NoData, auth.session}
  BY DEF SessionInv, OnlyOidc, SentIsCurrent, CacheIsCurrent
<1>n. NoFetch \in Fetch
  BY SessionAssumption DEF NoFetch, Fetch
<1>1. ASSUME NEW p \in Place, LoadPage(p)
      PROVE  SessionInv'
  <2>1. PICK page \in Place : page = Routed(p, mode)
    BY <1>1 DEF Routed
  <2> QED BY <1>1, <1>t, <2>1, LoadedInv DEF LoadPage, Routed
<1>2. ASSUME NEW p \in Place, Navigate(p)
      PROVE  SessionInv'
  BY <1>2, <1>t, <1>o, PageStepInv
     DEF Navigate, Rest, Awaited, SignInIsSeen, Routed, identityVars
<1>3. CASE SignIn
  BY <1>3, <1>t, <1>o, PageStepInv DEF SignIn, Rest, Awaited, SignInIsSeen, Auth
<1>4. CASE SignOut
  <2>1. Rest'
    BY <1>4, <1>t, <1>o DEF SignOut, Rest, Awaited, SignInIsSeen
  <2>2. /\ mode = "oidc" /\ mode' = mode
        /\ user' = None
        /\ SetSession(None, query)
    BY <1>4 DEF SignOut, RemoveUser
  <2>3. PICK queries : queries = query
    OBVIOUS
  <2>4. Settable(None, queries)
    BY <2>3, QueriesSettable
  <2> QED BY <2>1, <2>2, <2>3, <2>4, UserSet DEF Active
<1>5. CASE Redirected
  <2>1. \/ Loaded("callback", mode, user) /\ leaving = "signIn"
        \/ Loaded("app", mode, user)
    BY <1>5 DEF Redirected
  <2>2. code' \in BOOLEAN /\ mode' = mode /\ user' = user
    BY <1>5 DEF Redirected
  <2> QED BY <1>o, <2>1, <2>2, LoadedInv
<1>6. CASE RedirectFailed
  BY <1>6, <1>t, <1>o, PageStepInv DEF RedirectFailed, Rest, Awaited, SignInIsSeen, Auth
<1>7. ASSUME NEW awaiting \in exchanges, CallbackFails(awaiting)
      PROVE  SessionInv'
  BY <1>7, <1>t, <1>o, PageStepInv
     DEF CallbackFails, Rest, Awaited, SignInIsSeen, identityVars
<1>8. ASSUME NEW awaiting \in exchanges, NEW s \in Subject, CallbackSucceeds(awaiting, s)
      PROVE  SessionInv'
  <2>1. "active" \in awaiting /\ mode = "oidc"
    BY <1>o DEF Awaited
  <2>2. Rest'
    BY <1>8, <1>t, <1>o, <2>1 DEF CallbackSucceeds, Rest, Awaited, SignInIsSeen
  <2>3. /\ mode' = mode
        /\ user' = [subject |-> s, expired |-> FALSE]
        /\ SetSession(s, query)
    BY <1>8 DEF CallbackSucceeds, StoreUser
  <2>4. PICK queries : queries = query
    OBVIOUS
  <2>5. Settable(s, queries)
    BY <2>4, QueriesSettable
  <2>6. user' \in User /\ user' # None
    BY <2>3, StoredUser
  <2>7. Active(user)' = s
    BY <2>3, <2>6 DEF Active
  <2> QED BY <2>1, <2>2, <2>3, <2>4, <2>5, <2>6, <2>7, UserSet
<1>9. CASE Expire
  <2>1. /\ user' = [user EXCEPT !.expired = TRUE]
        /\ user \in User
        /\ mode = "oidc"
        /\ UNCHANGED <<mode, auth, query, cache, pageVars>>
    BY <1>9, <1>t, <1>o DEF Expire
  <2>2. user' \in User /\ user'.subject = user.subject /\ user'.expired
    BY <2>1 DEF User
  <2>3. Active(user)' = None
    BY <2>2 DEF Active
  <2>4. user # None
    BY <1>9 DEF Expire
  <2>5. SessionFollowsUser'
    BY <2>1, <2>2, <2>3, <1>f, SessionAssumption DEF SessionFollowsUser, User
  <2>6. SessionTypeOK'
    BY <1>t, <2>1, <2>2 DEF SessionTypeOK, pageVars
  <2>7. OnlyOidc' /\ SentIsCurrent' /\ CacheIsCurrent' /\ Awaited' /\ SignInIsSeen'
    BY <2>1 DEF SessionInv, OnlyOidc, SentIsCurrent, CacheIsCurrent, Awaited, SignInIsSeen,
                pageVars
  <2> QED BY <2>5, <2>6, <2>7 DEF SessionInv
<1>10. CASE TokenExpired
  <2>1. Rest'
    BY <1>10, <1>t, <1>o DEF TokenExpired, Rest, Awaited, SignInIsSeen, pageVars
  <2>2. /\ mode = "oidc" /\ mode' = mode
        /\ user' = user /\ user.expired
        /\ SetSession(None, query)
    BY <1>10, <1>o DEF TokenExpired
  <2>3. PICK queries : queries = query
    OBVIOUS
  <2>4. Settable(None, queries)
    BY <2>3, QueriesSettable
  <2>5. Active(user)' = None
    BY <2>2 DEF Active
  <2> QED BY <1>t, <2>1, <2>2, <2>3, <2>4, <2>5, UserSet
<1>11. CASE AutomaticRenewal
  <2>1. Rest'
    BY <1>11, <1>t, <1>o DEF AutomaticRenewal, Rest, Awaited, SignInIsSeen, pageVars
  <2>2. PICK s \in Subject : s = user.subject
    BY <1>11, <1>t DEF AutomaticRenewal, User
  <2>3. /\ mode = "oidc" /\ mode' = mode
        /\ user' = [subject |-> s, expired |-> FALSE]
        /\ SetSession(s, query)
    BY <1>11, <1>o, <2>2 DEF AutomaticRenewal, StoreUser
  <2>4. PICK queries : queries = query
    OBVIOUS
  <2>5. Settable(s, queries)
    BY <2>4, QueriesSettable
  <2>6. user' \in User /\ user' # None
    BY <2>3, StoredUser
  <2>7. Active(user)' = s
    BY <2>3, <2>6 DEF Active
  <2> QED BY <2>1, <2>3, <2>4, <2>5, <2>6, <2>7, UserSet
<1>12. ASSUME NEW r \in Query, StartFetch(r)
       PROVE  SessionInv'
  <2> DEFINE q == [query[r] EXCEPT
        !.step = IF mode = "oidc" /\ user # None /\ Active(user) = None
                   THEN "renewing" ELSE "sent",
        !.as = IF mode = "development" THEN Developer
               ELSE IF user # None THEN user.subject ELSE None]
  <2>1. query' = [query EXCEPT ![r] = q]
    BY <1>12, <1>t DEF StartFetch
  <2>2. query[r] \in Fetch
    BY <1>t
  <2>3. q \in Fetch
    BY <2>2, <1>t, SessionAssumption DEF Fetch, User
  <2>4. q.step = "renewing" => mode = "oidc" /\ q.as \in Subject
    BY <2>2, <1>t DEF Fetch, User
  <2>5. q.step = "sent" => q.as = auth.session
    <3>1. q.step = "sent" <=> ~(mode = "oidc" /\ user # None /\ Active(user) = None)
      BY <2>2 DEF Fetch
    <3>2. q.as = IF mode = "development" THEN Developer
                 ELSE IF user # None THEN user.subject ELSE None
      BY <2>2 DEF Fetch
    <3>3. mode \in {"disabled", "development", "oidc"}
      BY <1>t, <1>12, SessionAssumption DEF StartFetch
    <3>4. CASE mode = "oidc" /\ user # None /\ Active(user) # None
      <4>1. Active(user) = user.subject
        BY <3>4 DEF Active
      <4> QED BY <3>2, <3>4, <4>1, <1>f
    <3>5. CASE mode = "oidc" /\ user = None
      BY <3>2, <3>5, <1>f
    <3>6. CASE mode # "oidc"
      BY <3>2, <3>3, <3>6, <1>o DEF SessionInv, OnlyOidc
    <3> QED BY <3>1, <3>4, <3>5, <3>6
  <2>6. UNCHANGED <<mode, user, auth, cache, pageVars>>
    BY <1>12 DEF StartFetch
  <2> HIDE DEF q
  <2>7. PICK f \in Fetch : f = q
    BY <2>3
  <2> QED BY <2>1, <2>4, <2>5, <2>6, <2>7, <1>t, <1>q, QueryStepInv
<1>13. ASSUME NEW r \in Query, RenewalSucceeds(r)
       PROVE  SessionInv'
  <2>1. Rest'
    BY <1>13, <1>t, <1>o DEF RenewalSucceeds, Rest, Awaited, SignInIsSeen, pageVars
  <2>2. PICK s \in Subject : s = query[r].as
    BY <1>13, <1>q DEF RenewalSucceeds
  <2>3. PICK queries : queries = Headed(r, s)
    OBVIOUS
  <2>4. /\ mode = "oidc" /\ mode' = mode
        /\ user' = [subject |-> s, expired |-> FALSE]
        /\ SetSession(s, queries)
    BY <1>13, <1>q, <2>2, <2>3 DEF RenewalSucceeds, StoreUser
  <2>5. Settable(s, queries)
    BY <2>3, HeadedFetch
  <2>6. user' \in User /\ user' # None
    BY <2>4, StoredUser
  <2>7. Active(user)' = s
    BY <2>4, <2>6 DEF Active
  <2> QED BY <2>1, <2>4, <2>5, <2>6, <2>7, UserSet
<1>14. ASSUME NEW r \in Query, RenewalFails(r)
       PROVE  SessionInv'
  <2>1. Rest'
    BY <1>14, <1>t, <1>o DEF RenewalFails, Rest, Awaited, SignInIsSeen, pageVars
  <2>3. PICK queries : queries = Headed(r, None)
    OBVIOUS
  <2>4. /\ mode = "oidc" /\ mode' = mode
        /\ user' = None
        /\ SetSession(None, queries)
    BY <1>14, <1>q, <2>3 DEF RenewalFails, RemoveUser
  <2>5. Settable(None, queries)
    BY <2>3, HeadedFetch
  <2> QED BY <2>1, <2>4, <2>5, UserSet DEF Active
<1>15. ASSUME NEW r \in Query, FetchSucceeds(r)
       PROVE  SessionInv'
  <2>1. /\ query' = [query EXCEPT ![r] = NoFetch]
        /\ cache' = [cache EXCEPT ![r] = auth.session]
        /\ UNCHANGED <<mode, user, auth, pageVars>>
    BY <1>15, <1>q DEF FetchSucceeds
  <2>2. auth.session \in Subject \cup {None}
    BY <1>t DEF Auth
  <2> QED BY <2>1, <2>2, <1>n, <1>t, <1>q, QueryStepInv DEF NoFetch
<1>16. ASSUME NEW r \in Query, FetchFails(r)
       PROVE  SessionInv'
  <2>1. PICK f \in Fetch : query' = [query EXCEPT ![r] = f] /\ f.step = "idle"
    <3>1. CASE query' = [query EXCEPT ![r] = NoFetch]
      BY <3>1, <1>n DEF NoFetch
    <3>2. CASE /\ query[r].failures < RetryLimit
               /\ query' = [query EXCEPT ![r] =
                                [NoFetch EXCEPT !.failures = query[r].failures + 1]]
      <4>1. query[r].failures + 1 \in 0..RetryLimit
        BY <3>2, <1>t, SessionAssumption DEF Fetch
      <4>2. PICK n \in 0..RetryLimit : n = query[r].failures + 1
        BY <4>1
      <4>3. [NoFetch EXCEPT !.failures = n] \in Fetch
        BY <1>n DEF Fetch
      <4>4. [NoFetch EXCEPT !.failures = n].step = "idle"
        BY DEF NoFetch
      <4> QED BY <3>2, <4>2, <4>3, <4>4
    <3> QED BY <1>16, <3>1, <3>2 DEF FetchFails
  <2> QED BY <1>16, <1>t, <1>q, <2>1, QueryStepInv DEF FetchFails
<1>17. CASE UNCHANGED sessionVars
  BY <1>17 DEF SessionInv, SessionTypeOK, OnlyOidc, SessionFollowsUser, SentIsCurrent,
               CacheIsCurrent, Awaited, SignInIsSeen, sessionVars, identityVars, pageVars
<1> QED
  BY <1>1, <1>2, <1>3, <1>4, <1>5, <1>6, <1>7, <1>8, <1>9, <1>10, <1>11, <1>12, <1>13, <1>14,
     <1>15, <1>16, <1>17
  DEF SessionNext, CallbackStep, RedirectStep, FetchStep

-----------------------------------------------------------------------------
(* The theorems                                                            *)

LEMMA SessionInvAlways == SessionSpec => []SessionInv
BY SessionInvInit, SessionInvNext, PTL DEF SessionSpec

\* Every reachable state of the web client's session is well typed.
THEOREM SessionTypeCorrect == SessionSpec => []SessionTypeOK
BY SessionInvAlways, PTL DEF SessionInv

\* Whatever order the start-up read, the events, the timers and the renewals come in,
\* the session on display is that of the stored user.
THEOREM SessionFollows == SessionSpec => []SessionFollowsUser
BY SessionInvAlways, PTL DEF SessionInv

\* With any number of requests under way when an identity changes, the cache never
\* holds what was fetched as somebody else.
THEOREM CacheOfOneIdentity == SessionSpec => []CacheIsCurrent
BY SessionInvAlways, PTL DEF SessionInv

\* Whoever signed in is not left on the callback page and is not told that it failed.
THEOREM SignInSeen == SessionSpec => []SignInIsSeen
BY SessionInvAlways, PTL DEF SessionInv

=============================================================================
