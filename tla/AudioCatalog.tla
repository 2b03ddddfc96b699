----------------------------- MODULE AudioCatalog -----------------------------
(***************************************************************************)
(* Reading the audios table while it changes: ListAudios page by page, and *)
(* UpdateVisibility (services/api/internal/audio/service.go,               *)
(* postgres/repository.go), and the two pages of the web client that keep  *)
(* such a list (DiscoverPage.tsx, LibraryPage.tsx) in an infinite query:   *)
(* "Load more" adds a page, a refetch reads as many pages as there are     *)
(* from the start again and replaces the list only when it has them all.   *)
(*                                                                         *)
(* Every page is a query of its own.  Between two pages of one list rows   *)
(* are inserted, become READY or stop being READY, and are published or    *)
(* withdrawn.  A row is inserted with the time the API read before the     *)
(* INSERT, so rows need not appear in the order of created_at, and two may *)
(* have the same one; the id then breaks the tie.  Ids are numbers here    *)
(* because the query compares them.                                        *)
(***************************************************************************)
EXTENDS Integers, FiniteSets

CONSTANTS
    Audio,              \* the audio ids
    Subject,            \* signed-in users
    Nobody,             \* the owner of no row
    Reader,             \* lists that are read at the same time
    RequestedLimits,    \* values of ?limit=; 0: it is missing, as in the web client's
    DefaultListLimit,
    MaxListLimit,
    MaxTime             \* bound: the times a row may carry

ASSUME CatalogAssumption ==
    /\ Audio \subseteq Nat
    /\ IsFiniteSet(Audio)
    /\ Nobody \notin Subject
    /\ "public" \notin Subject
    /\ RequestedLimits \subseteq Nat
    /\ DefaultListLimit \in 1..MaxListLimit
    /\ MaxListLimit \in Nat
    /\ MaxTime \in Nat

VARIABLES
    rows,        \* the audios table
    lists,       \* per reader, its infinite query and whether the page is open
    steady       \* history: per reader, the rows listed ever since a walk began

catalogVars == <<rows, lists, steady>>

Time == 0..MaxTime
Visibility == {"private", "public"}

Missing == [owner |-> Nobody, visibility |-> "private", ready |-> FALSE, created |-> 0]
Row == [owner: Subject, visibility: Visibility, ready: BOOLEAN, created: Time]

Present(a) == rows[a] # Missing

\* What one list is about: the catalogue, or the tracks of one owner.
Scope == {"public"} \cup Subject

\* A walk through a list: its pages, where the last one ended (the keyset cursor), how
\* often each row was on a page, and whether there is a next page.
NoCursor == [created |-> -1, id |-> -1]
Cursor == {NoCursor} \cup [created: Time, id: Audio]
Walk == [pages: Nat, passed: Cursor, shown: [Audio -> Nat], more: BOOLEAN]
NoPages == [pages |-> 0, passed |-> NoCursor, shown |-> [a \in Audio |-> 0], more |-> TRUE]

\* "data" is what the query holds; a fetch of "all" pages builds a walk of its own.
List == [open: BOOLEAN, scope: Scope, data: Walk, failed: BOOLEAN,
         fetch: {"none", "next", "all"}, built: Walk]
NoList(scope) == [open |-> FALSE, scope |-> scope, data |-> NoPages, failed |-> FALSE,
                  fetch |-> "none", built |-> NoPages]

-----------------------------------------------------------------------------
(* The two list queries                                                    *)

\* The WHERE clause: every row of the owner, or public and READY.
Listed(table, scope) ==
    {a \in Audio : /\ table[a] # Missing
                   /\ IF scope = "public"
                        THEN table[a].visibility = "public" /\ table[a].ready
                        ELSE table[a].owner = scope}

Key(a) == [created |-> rows[a].created, id |-> a]

\* (created_at, id) < (c.created_at, c.id), as PostgreSQL compares rows.
Below(k, c) ==
    \/ k.created < c.created
    \/ k.created = c.created /\ k.id < c.id

\* Mutant: the cursor is the time alone.
BeyondTime(a, c) == c = NoCursor \/ rows[a].created < c.created

Beyond(a, c) == c = NoCursor \/ Below(Key(a), c)

PageSize(limit) ==
    IF limit <= 0 THEN DefaultListLimit
    ELSE IF limit > MaxListLimit THEN MaxListLimit ELSE limit

\* ORDER BY created_at DESC, id DESC LIMIT n
FirstOf(S, n) ==
    {a \in S : Cardinality({b \in S : Below(Key(a), Key(b))}) < n}

LastOf(S) == CHOOSE a \in S : \A b \in S : b = a \/ Below(Key(a), Key(b))

-----------------------------------------------------------------------------
CatalogInit ==
    /\ rows = [a \in Audio |-> Missing]
    /\ lists = [r \in Reader |-> NoList("public")]
    /\ steady = [r \in Reader |-> [data |-> {}, built |-> {}]]

\* A step of the table; a row that a list ever lacks is not steady for it.
Becomes(table) ==
    /\ rows' = table
    /\ steady' = [r \in Reader |->
           [data |-> steady[r].data \cap Listed(table, lists[r].scope),
            built |-> steady[r].built \cap Listed(table, lists[r].scope)]]
    /\ UNCHANGED lists

\* CreateUpload inserts a time it read some while before.
CreateUpload(a, owner, visibility) ==
    /\ ~Present(a)
    /\ \E created \in Time :
         Becomes([rows EXCEPT ![a] = [owner |-> owner, visibility |-> visibility,
                                      ready |-> FALSE, created |-> created]])

\* audio-events writes the status; it may also take READY back (events.go:138).
ChangeStatus(a) ==
    /\ Present(a)
    /\ Becomes([rows EXCEPT ![a].ready = ~@])

\* Mutant: an upsert.
UpdateVisibilityUnchecked(a, visibility) ==
    Becomes([rows EXCEPT ![a].visibility = visibility])

\* UpdateVisibility: what it read before, the owner, is never written again, so
\* only the write matters.
UpdateVisibility(a, visibility) ==
    /\ Present(a)
    /\ Becomes([rows EXCEPT ![a].visibility = visibility])

-----------------------------------------------------------------------------
(* The pages                                                               *)

\* What the page shows.  A list that failed shows the error, whatever data it holds.
View(list) ==
    IF list.failed THEN "error"
    ELSE IF list.data.pages = 0 THEN "busy"
    ELSE IF list.data.shown = NoPages.shown THEN "empty" ELSE "list"

\* Mutant: a refetch begins where the list ends.
RefetchedOnto(list) == [list EXCEPT !.fetch = "all", !.built = list.data,
                                    !.failed = @ /\ list.data.pages > 0]

\* A fetch from the first page starts; without data the query is pending again.
Refetched(list) == [list EXCEPT !.fetch = "all", !.built = NoPages,
                                !.failed = @ /\ list.data.pages > 0]
Restarted(r) == [steady EXCEPT ![r].built = Listed(rows, lists'[r].scope)]

\* The page of a list opens and nothing about it is in the cache (any more).
Open(r, scope) ==
    /\ ~lists[r].open
    /\ lists' = [lists EXCEPT ![r] = Refetched([NoList(scope) EXCEPT !.open = TRUE])]
    /\ steady' = [Restarted(r) EXCEPT ![r].data = {}]
    /\ UNCHANGED rows

\* The page opens again.  What is stale, or never arrived, is fetched.
Reopen(r) ==
    /\ ~lists[r].open
    /\ LET list == [lists[r] EXCEPT !.open = TRUE]
       IN  \/ /\ list.fetch # "none" \/ list.data.pages > 0
              /\ lists' = [lists EXCEPT ![r] = list]
              /\ UNCHANGED steady
           \/ /\ list.fetch = "none"
              /\ lists' = [lists EXCEPT ![r] = Refetched(list)]
              /\ steady' = Restarted(r)
    /\ UNCHANGED rows

\* The network is back and the list is stale.
Reconnect(r) ==
    /\ lists[r].open
    /\ lists[r].fetch = "none"
    /\ lists' = [lists EXCEPT ![r] = Refetched(@)]
    /\ steady' = Restarted(r)
    /\ UNCHANGED rows

\* Another page; the fetch goes on without it.
Close(r) ==
    /\ lists[r].open
    /\ lists' = [lists EXCEPT ![r].open = FALSE]
    /\ UNCHANGED <<rows, steady>>

\* "Load more" is disabled only while a next page is on its way; a refetch is given up.
LoadMore(r) ==
    /\ lists[r].open
    /\ View(lists[r]) = "list"
    /\ lists[r].data.more
    /\ lists[r].fetch # "next"
    /\ lists' = [lists EXCEPT ![r].fetch = "next", ![r].built = NoPages]
    /\ steady' = [steady EXCEPT ![r].built = {}]
    /\ UNCHANGED rows

-----------------------------------------------------------------------------
(* One page of a walk                                                      *)

\* ListAudios: a row more than the page holds is read to see whether there is another
\* page; the cursor of that page is the last row of this one.
ListAudios(walk, scope, limit) ==
    LET n == PageSize(limit)
        found == FirstOf({a \in Listed(rows, scope) : Beyond(a, walk.passed)}, n + 1)
        items == FirstOf(found, n)
    IN  [pages |-> walk.pages + 1,
         shown |-> [a \in Audio |-> walk.shown[a] + (IF a \in items THEN 1 ELSE 0)],
         more |-> found # items,
         passed |-> IF found = items THEN walk.passed ELSE Key(LastOf(items))]

NextPage(r, limit) ==
    /\ lists[r].fetch = "next"
    /\ lists' = [lists EXCEPT ![r].data = ListAudios(@, lists[r].scope, limit),
                              ![r].fetch = "none", ![r].failed = FALSE]
    /\ UNCHANGED <<rows, steady>>

\* A page of a refetch.  It ends with as many pages as there were, or with the last one.
PageAgain(r, limit) ==
    LET list == lists[r]
        walk == ListAudios(list.built, list.scope, limit)
    IN  /\ list.fetch = "all"
        /\ IF walk.more /\ walk.pages < list.data.pages
             THEN /\ lists' = [lists EXCEPT ![r].built = walk]
                  /\ UNCHANGED steady
             ELSE /\ lists' = [lists EXCEPT ![r].data = walk, ![r].built = NoPages,
                                            ![r].fetch = "none", ![r].failed = FALSE]
                  /\ steady' = [steady EXCEPT ![r].data = steady[r].built, ![r].built = {}]
        /\ UNCHANGED rows

\* The last try failed: the data is kept, the fetch is over.
PageFails(r) ==
    /\ lists[r].fetch # "none"
    /\ lists' = [lists EXCEPT ![r].fetch = "none", ![r].built = NoPages, ![r].failed = TRUE]
    /\ steady' = [steady EXCEPT ![r].built = {}]
    /\ UNCHANGED rows

PageArrives(r) ==
    \/ \E limit \in RequestedLimits : NextPage(r, limit) \/ PageAgain(r, limit)
    \/ PageFails(r)

CatalogNext ==
    \/ \E a \in Audio, s \in Subject, v \in Visibility : CreateUpload(a, s, v)
    \/ \E a \in Audio, v \in Visibility : UpdateVisibility(a, v)
    \/ \E a \in Audio : ChangeStatus(a)
    \/ \E r \in Reader, scope \in Scope : Open(r, scope)
    \/ \E r \in Reader : Reopen(r) \/ Reconnect(r) \/ Close(r) \/ LoadMore(r) \/ PageArrives(r)

CatalogSpec == CatalogInit /\ [][CatalogNext]_catalogVars

-----------------------------------------------------------------------------
(* Properties                                                              *)

\* Every variable has its type.
CatalogTypeOK ==
    /\ rows \in [Audio -> Row \cup {Missing}]
    /\ lists \in [Reader -> List]
    /\ steady \in [Reader -> [data: SUBSET Audio, built: SUBSET Audio]]

Walks == {<<lists[r].data, steady[r].data>> : r \in Reader}
           \cup {<<lists[r].built, steady[r].built>> : r \in Reader}

\* No list shows a track twice (it is the key of its row), whatever is uploaded,
\* published or withdrawn between two pages, however many tracks share a created_at,
\* and whatever refetch the button overtakes (README.md:148-150: the reason for keyset
\* pages).
NothingRepeats == \A w \in Walks : \A a \in Audio : w[1].shown[a] <= 1

\* A list shows every track it has gone past that was in it ever since its first page
\* was asked for; one that offers no more pages, or says that there is nothing, shows
\* all of these.
NothingSkipped ==
    \A w \in Walks : w[1].pages > 0 =>
        \A a \in w[2] : ~w[1].more \/ ~Beyond(a, w[1].passed) => w[1].shown[a] >= 1

=============================================================================
