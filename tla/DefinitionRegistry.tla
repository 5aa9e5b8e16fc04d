-------------------------- MODULE DefinitionRegistry --------------------------
(***************************************************************************)
(* One workflow definition: its rows in workflow_definitions, and the cache *)
(* that each process (the orchestrator and the workers) keeps of it.        *)
(*                                                                         *)
(* A Get is three steps: the cache is looked at, the newest row is read,    *)
(* and what was read is cached.  Between them rows are created, replaced    *)
(* and deleted, of which only a Create tells a cache, and only that of its  *)
(* own process.  Time passes in ticks; `left' counts down to expiresAt.     *)
(***************************************************************************)
EXTENDS Naturals, FiniteSets

CONSTANTS
    Procs,        \* the processes with a registry
    Server,       \* the orchestrator, which serves the public API
    Tenants,
    Contents,     \* YAML texts that parse
    NoText,       \* the empty text; in a cache, no entry
    RowIds,       \* bound on rows ever inserted
    MaxVersion,   \* bound on the version of a row
    TTL,          \* the five minutes of a cache entry, in ticks
    MaxLag        \* ticks that a Get takes at most

Malformed == "malformed"
Unknown == "unknown"

ASSUME RegistryAssumption ==
    /\ Server \in Procs
    /\ NoText \notin Contents /\ Malformed \notin Contents
    /\ Unknown \notin RowIds \cup Tenants
    /\ MaxVersion \in Nat \ {0} /\ TTL \in Nat \ {0} /\ MaxLag \in Nat

VARIABLES
    rows,         \* version 0 stands for a row that does not exist
    cache,        \* per process
    get,          \* the Get in progress per process
    invalidate,   \* a Store (one at a time) has still to invalidate the cache
    age           \* ticks since the rows changed last

vars == <<rows, cache, get, invalidate, age>>

MaxAge == TTL + MaxLag

Texts == Contents \cup {NoText}

Rows == [tenant : Tenants, version : 0 .. MaxVersion, yaml : Texts]

\* The type invariant.
TypeOK ==
    /\ rows \in [RowIds -> Rows]
    /\ cache \in [Procs -> [yaml : Texts, left : 0 .. TTL]]
    /\ get \in [Procs -> [pc : {"idle", "select", "store"}, yaml : Texts, lag : 0 .. MaxLag]]
    /\ invalidate \in BOOLEAN
    /\ age \in 0 .. MaxAge

Empty == [yaml |-> NoText, left |-> 0]
NoGet == [pc |-> "idle", yaml |-> NoText, lag |-> 0]

Init ==
    /\ \E t \in Tenants : rows = [r \in RowIds |-> [tenant |-> t, version |-> 0, yaml |-> NoText]]
    /\ cache = [p \in Procs |-> Empty]
    /\ get = [p \in Procs |-> NoGet]
    /\ invalidate = FALSE
    /\ age = 0

-------------------------------------------------------------------------------
(* Messages.                                                                *)

CreateWorkflowDefinitionRequest ==
    [tenant : Tenants \cup {Unknown}, yaml_content : Texts \cup {Malformed}]

UpdateWorkflowDefinitionRequest ==
    [id : RowIds \cup {Unknown}, yaml_content : Texts \cup {Malformed}]

DeleteWorkflowDefinitionRequest == [id : RowIds \cup {Unknown}]

\* yaml_content is given and parser.Parse accepts it.
Parses(text) == text \in Contents

-------------------------------------------------------------------------------
(* The table.                                                               *)

Existing == {r \in RowIds : rows[r].version > 0}

\* The rows ORDER BY version DESC may put first.
Newest == {r \in Existing : \A q \in Existing : rows[q].version <= rows[r].version}

NewestTexts == {rows[r].yaml : r \in Newest}

\* UNIQUE (tenant_id, definition_id, version)
Conflicting(t, v) == {r \in Existing : rows[r].tenant = t /\ rows[r].version = v}

Write(r, row) == rows' = [rows EXCEPT ![r] = row] /\ age' = 0

(* CreateWorkflowDefinition: INSERT ... ON CONFLICT DO UPDATE of version 1, *)
(* whatever newer versions there are; the cache follows.                    *)
CreateWorkflowDefinition(req) ==
    /\ Parses(req.yaml_content)
    /\ req.tenant \in Tenants
    /\ ~invalidate
    /\ \E r \in IF Conflicting(req.tenant, 1) # {} THEN Conflicting(req.tenant, 1)
                ELSE RowIds \ Existing :
         Write(r, [tenant |-> req.tenant, version |-> 1, yaml |-> req.yaml_content])
    /\ invalidate' = TRUE
    /\ UNCHANGED <<cache, get>>

InvalidateCache ==
    /\ invalidate
    /\ invalidate' = FALSE
    /\ cache' = [cache EXCEPT ![Server] = Empty]
    /\ UNCHANGED <<rows, get, age>>

(* UpdateWorkflowDefinition: the row itself gets the next version; an id    *)
(* that is not known changes nothing.                                       *)
UpdateWorkflowDefinition(req) ==
    /\ Parses(req.yaml_content)
    /\ req.id \in Existing
    /\ rows[req.id].version < MaxVersion
    /\ Conflicting(rows[req.id].tenant, rows[req.id].version + 1) = {}
    /\ Write(req.id, [rows[req.id] EXCEPT !.version = @ + 1, !.yaml = req.yaml_content])
    /\ UNCHANGED <<cache, get, invalidate>>

DeleteWorkflowDefinition(req) ==
    /\ req.id \in Existing
    /\ Write(req.id, [rows[req.id] EXCEPT !.version = 0, !.yaml = NoText])
    /\ UNCHANGED <<cache, get, invalidate>>

-------------------------------------------------------------------------------
(* DefinitionRegistry.Get.                                                  *)

\* A seeded bug: an entry is served whatever its age.
LiveForEver(p) == cache[p].yaml # NoText

Live(p) == cache[p].left > 0

(* Load: a live entry is the answer; an expired one is deleted.  One Get of *)
(* a process at a time: two that overlap each leave an entry no older than  *)
(* their own length, and the later one's replaces the other's.              *)
GetFromCache(p) ==
    /\ get[p].pc = "idle"
    /\ ~Live(p)
    /\ cache' = [cache EXCEPT ![p] = Empty]
    /\ get' = [get EXCEPT ![p].pc = "select"]
    /\ UNCHANGED <<rows, invalidate, age>>

(* SELECT ... LIMIT 1.  Without a row the answer is the file, whose Store   *)
(* fails for want of a tenant, and nothing is cached.                       *)
GetFromDatabase(p) ==
    /\ get[p].pc = "select"
    /\ IF Existing = {} THEN get' = [get EXCEPT ![p] = NoGet]
       ELSE \E text \in NewestTexts :
              get' = [get EXCEPT ![p].pc = "store", ![p].yaml = text]
    /\ UNCHANGED <<rows, cache, invalidate, age>>

\* A seeded bug: the entry lives one tick too long.
CacheTooLong(p) ==
    /\ get[p].pc = "store"
    /\ cache' = [cache EXCEPT ![p] = [yaml |-> get[p].yaml, left |-> TTL + 1]]
    /\ get' = [get EXCEPT ![p] = NoGet]
    /\ UNCHANGED <<rows, invalidate, age>>

CacheDefinition(p) ==
    /\ get[p].pc = "store"
    /\ cache' = [cache EXCEPT ![p] = [yaml |-> get[p].yaml, left |-> TTL]]
    /\ get' = [get EXCEPT ![p] = NoGet]
    /\ UNCHANGED <<rows, invalidate, age>>

\* A process ends, a worker by its supervisor, and another one starts.
Restart(p) ==
    /\ cache' = [cache EXCEPT ![p] = Empty]
    /\ get' = [get EXCEPT ![p] = NoGet]
    /\ invalidate' = (invalidate /\ p # Server)
    /\ UNCHANGED <<rows, age>>

Pred(n) == IF n = 0 THEN 0 ELSE n - 1

Tick ==
    /\ \A p \in Procs : get[p].pc # "idle" => get[p].lag < MaxLag
    /\ age' = IF age = MaxAge THEN MaxAge ELSE age + 1
    /\ cache' = [p \in Procs |-> [cache[p] EXCEPT !.left = Pred(@)]]
    /\ get' = [p \in Procs |-> IF get[p].pc = "idle" THEN get[p]
                               ELSE [get[p] EXCEPT !.lag = @ + 1]]
    /\ UNCHANGED <<rows, invalidate>>

-------------------------------------------------------------------------------

ServerStep ==
    \/ \E req \in CreateWorkflowDefinitionRequest : CreateWorkflowDefinition(req)
    \/ \E req \in UpdateWorkflowDefinitionRequest : UpdateWorkflowDefinition(req)
    \/ \E req \in DeleteWorkflowDefinitionRequest : DeleteWorkflowDefinition(req)
    \/ InvalidateCache

GetStep(p) == GetFromCache(p) \/ GetFromDatabase(p) \/ CacheDefinition(p)

Next == ServerStep \/ Tick \/ \E p \in Procs : GetStep(p) \/ Restart(p)

Spec == Init /\ [][Next]_vars

\* Processes go on with the calls they have begun, and time passes.
FairSpec == Spec /\ WF_vars(Tick) /\ \A p \in Procs : WF_vars(GetFromDatabase(p) \/ CacheDefinition(p))

-------------------------------------------------------------------------------

\* What a Get of p answers now, if it answers from the cache.
Served(p) == IF Live(p) THEN {cache[p].yaml} ELSE {}

(* No process serves a definition that was replaced or deleted more than    *)
(* the life of a cache entry and the length of one Get ago, however writes, *)
(* invalidations and slow Gets interleave: a Get that read before an update *)
(* and caches after it adds its own length to the entry's life.             *)
BoundedStaleness ==
    age = MaxAge => \A p \in Procs : Served(p) \subseteq NewestTexts

(* When the rows change no more, every process comes to serve nothing but   *)
(* the newest definition, for ever.                                         *)
EventuallyFresh ==
    (<>[][UNCHANGED rows]_rows) => <>[](\A p \in Procs : Served(p) \subseteq NewestTexts)
===============================================================================
