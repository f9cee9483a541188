------------------------------- MODULE Catalog -------------------------------
(***************************************************************************)
(* Pools and the permissions of users on them: the tables of the gorm      *)
(* storage and the endpoints of the frontend that change and list them.    *)
(* Creating a pool is a handler of five statements, each of which can      *)
(* fail, and any of which can be the last one before a restart.  The table *)
(* of permissions has no unique key, and rows are deleted softly.          *)
(***************************************************************************)
EXTENDS Naturals, FiniteSetsExt, SequencesExt

CONSTANTS Pool,    \* the pools that may be created
          User,
          Client,  \* the requests for a new pool that may run at a time
          MaxRows  \* bound: rows of permissions

VARIABLES pools,        \* the rows of pools: none, live or deleted
          permissions,  \* the rows of permissions, counted live and deleted
          creating,     \* createPoolEp, per client
          answered,     \* history: pools and users whose creation was answered
          removed       \* history: pools and users whose permissions were removed

catalogVars == <<pools, permissions, creating, answered, removed>>

Permissions == {"create_session", "register_agent", "admin"}

\* The names a request may hold.
Names == Permissions \cup {"other"}

\* models.PermissionTypeFromString: -1 for a name it does not know.
PermissionTypeFromString(name) == IF name \in Permissions THEN name ELSE "unknown"

Types == Permissions \cup {"unknown"}

CatalogInit ==
    /\ pools = [p \in Pool |-> "none"]
    /\ permissions = [r \in Pool \X User \X Types |-> [live |-> 0, deleted |-> 0]]
    /\ creating = [c \in Client |-> [at |-> "idle"]]
    /\ answered = {}
    /\ removed = {}

----------------------------------------------------------------------------
(* gormDriver.                                                             *)

CreatePool(p) ==
    /\ pools[p] = "none"
    /\ pools' = [pools EXCEPT ![p] = "live"]

RowsOf(row) == permissions[row].live + permissions[row].deleted

\* No key keeps a permission from being given twice.
AddPermission(p, u, name) ==
    LET row == <<p, u, PermissionTypeFromString(name)>>
    IN  /\ MapThenSumSet(RowsOf, DOMAIN permissions) < MaxRows
        /\ permissions' = [permissions EXCEPT ![row].live = @ + 1]

\* Every permission of the user on the pool, whichever the request names.
RemovePermission(p, u) ==
    permissions' = [r \in DOMAIN permissions |->
        IF r[1] = p /\ r[2] = u
        THEN [live |-> 0, deleted |-> RowsOf(r)]
        ELSE permissions[r]]

\* Mutant of RowOfPool: the query forgets deleted_at, which it has to say itself.
RowOfPoolUnscoped(p, u, t) ==
    RowsOf(<<p, u, t>>) > 0 /\ pools[p] # "none"

\* A row of the raw query of GetPermissions: the pool may be a deleted one.
RowOfPool(p, u, t) == permissions[<<p, u, t>>].live > 0 /\ pools[p] # "none"

UserCount(p) == Cardinality({u \in User : \E t \in Types : permissions[<<p, u, t>>].live > 0})

\* GetPermissions: one unknown permission of the user fails the whole list.
GetPermissions(u) ==
    LET rows == {r \in Pool \X Types : RowOfPool(r[1], u, r[2])}
    IN  [ok |-> \A r \in rows : r[2] # "unknown",
         pools |-> {[permission |-> r[2], pool |-> r[1], users |-> UserCount(r[1])] : r \in rows}]

\* GetPoolPermissions: the permissions of each user as a bag, since every row of
\* the table is appended to his list; one unknown permission on the pool fails
\* the whole list.
GetPoolPermissions(p) ==
    LET rows == {r \in User \X Types : permissions[<<p, r[1], r[2]>>].live > 0}
    IN  [ok |-> \A r \in rows : r[2] # "unknown",
         users |-> [u \in {r[1] : r \in rows} |->
                       [t \in {r[2] : r \in {q \in rows : q[1] = u}} |->
                           permissions[<<p, u, t>>].live]]]

----------------------------------------------------------------------------
(* createPoolEp.                                                           *)

CreateBegins(c, u, p) ==
    /\ creating[c].at = "idle"
    /\ CreatePool(p)
    /\ creating' = [creating EXCEPT ![c] = [at |-> "claims", user |-> u, pool |-> p]]
    /\ UNCHANGED <<permissions, answered, removed>>

\* The request holds no claims or no subject: the handler asks a nil error for
\* its text and panics, and the pool stays.
CreateWithoutClaims(c) ==
    /\ creating[c].at = "claims"
    /\ creating' = [creating EXCEPT ![c] = [at |-> "idle"]]
    /\ UNCHANGED <<pools, permissions, answered, removed>>

CreateFindsUser(c) ==
    /\ creating[c].at = "claims"
    /\ creating' = [creating EXCEPT
          ![c] = [at |-> "adding", user |-> @.user, pool |-> @.pool,
                  todo |-> <<"admin", "create_session", "register_agent">>]]
    /\ UNCHANGED <<pools, permissions, answered, removed>>

AfterAdding(request) ==
    IF Len(request.todo) = 1
    THEN [at |-> "answering", user |-> request.user, pool |-> request.pool]
    ELSE [request EXCEPT !.todo = Tail(@)]

\* Mutant of AfterError: the handler goes on with the next permission.
AfterErrorGoesOn(request) == AfterAdding(request)

\* The handler answers with the error: what it has added so far stays.
AfterError(request) == [at |-> "idle"]

CreateAddsOne(c) ==
    LET request == creating[c]
    IN  /\ request.at = "adding"
        /\ AddPermission(request.pool, request.user, Head(request.todo))
        /\ creating' = [creating EXCEPT ![c] = AfterAdding(request)]
        /\ UNCHANGED <<pools, answered, removed>>

CreateFails(c) ==
    /\ creating[c].at = "adding"
    /\ creating' = [creating EXCEPT ![c] = AfterError(@)]
    /\ UNCHANGED <<pools, permissions, answered, removed>>

CreateAnswers(c) ==
    /\ creating[c].at = "answering"
    /\ answered' = answered \cup {<<creating[c].pool, creating[c].user>>}
    /\ creating' = [creating EXCEPT ![c] = [at |-> "idle"]]
    /\ UNCHANGED <<pools, permissions, removed>>

\* The process is killed: the requests it was handling are gone.
FrontendRestarts ==
    /\ creating' = [c \in Client |-> [at |-> "idle"]]
    /\ UNCHANGED <<pools, permissions, answered, removed>>

----------------------------------------------------------------------------
(* The endpoints of one statement.  A pool is known once it exists.        *)

AddPermissionEp(p, u, name) ==
    /\ pools[p] # "none"
    /\ AddPermission(p, u, name)
    /\ UNCHANGED <<pools, creating, answered, removed>>

DeletePermissionEp(p, u) ==
    /\ pools[p] # "none"
    /\ RemovePermission(p, u)
    /\ removed' = removed \cup {<<p, u>>}
    /\ UNCHANGED <<pools, creating, answered>>

\* The row is deleted softly; its permissions stay.
DeletePoolEp(p) ==
    /\ pools[p] = "live"
    /\ pools' = [pools EXCEPT ![p] = "deleted"]
    /\ UNCHANGED <<permissions, creating, answered, removed>>

----------------------------------------------------------------------------

CreateStep(c) ==
    \/ \E u \in User, p \in Pool : CreateBegins(c, u, p)
    \/ CreateWithoutClaims(c) \/ CreateFindsUser(c)
    \/ CreateAddsOne(c) \/ CreateFails(c) \/ CreateAnswers(c)

CatalogNext ==
    \/ \E c \in Client : CreateStep(c)
    \/ FrontendRestarts
    \/ \E p \in Pool :
          \/ DeletePoolEp(p)
          \/ \E u \in User : DeletePermissionEp(p, u) \/ \E name \in Names : AddPermissionEp(p, u, name)

CatalogSpec == CatalogInit /\ [][CatalogNext]_catalogVars

----------------------------------------------------------------------------
(* Properties.                                                             *)

\* Who is told that the pool is created can do everything on it, whatever
\* failed or was restarted in between, until his permissions are removed
\* (createPoolEp, AddPermission).
CreatorHoldsAll ==
    \A creation \in answered \ removed :
        \A t \in Permissions : permissions[<<creation[1], creation[2], t>>].live > 0

\* The two listings, one raw SQL and one of gorm, agree wherever both succeed:
\* on who may do what on which pool, and on how many users a pool has, with
\* permissions taken away and given again and with deleted pools.  They do not
\* agree on how often: a permission that was given twice is one of the groups of
\* the query for the user, and is twice in the list of the pool.
ListingsAgree ==
    \A u \in User, p \in Pool :
        LET mine == GetPermissions(u)
            ofPool == GetPoolPermissions(p)
        IN  mine.ok /\ ofPool.ok =>
              /\ {r.permission : r \in {q \in mine.pools : q.pool = p}}
                    = IF u \in DOMAIN ofPool.users THEN BagToSet(ofPool.users[u]) ELSE {}
              /\ \A r \in mine.pools : r.pool = p => r.users = Cardinality(DOMAIN ofPool.users)

==============================================================================
