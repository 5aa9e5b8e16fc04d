----------------------------- MODULE RegistryProofs ----------------------------
(***************************************************************************)
(* How old a served definition can be: BoundedStaleness of module           *)
(* DefinitionRegistry for any number of processes, rows and texts, any life *)
(* of a cache entry and any length of a Get.                                *)
(*                                                                         *)
(* FreshInv measures the age of a text that is no longer the newest where   *)
(* it comes from: a Get in progress has read it no longer ago than the Get  *)
(* lasts, a cache entry no longer ago than its own age and the longest Get. *)
(* Neither a write (which makes everything else old at once, but resets the *)
(* clock) nor an invalidation has to find the Gets in progress.             *)
(***************************************************************************)
EXTENDS DefinitionRegistry, TLAPS

Outdated(text) == text \notin NewestTexts

FreshInv ==
    \A p \in Procs :
        /\ Live(p) /\ Outdated(cache[p].yaml) => age + cache[p].left <= TTL + MaxLag
        /\ get[p].pc = "store" /\ Outdated(get[p].yaml) => age <= get[p].lag

\* The empty values have their types.
LEMMA EmptyType ==
  /\ Empty \in [yaml : Texts, left : 0 .. TTL]
  /\ NoGet \in [pc : {"idle", "select", "store"}, yaml : Texts, lag : 0 .. MaxLag]
  /\ Empty.left = 0 /\ NoGet.pc = "idle"
  BY RegistryAssumption DEF Empty, NoGet, Texts

\* A write keeps the table well typed and sets the clock to zero.
LEMMA WriteType ==
  ASSUME TypeOK, NEW r \in RowIds, NEW row \in Rows, Write(r, row)
  PROVE  rows' \in [RowIds -> Rows] /\ age' = 0
  BY DEF TypeOK, Write

\* Right after a write everything is as fresh as FreshInv asks for.
LEMMA WriteFresh ==
  ASSUME TypeOK, age' = 0, UNCHANGED get, \A p \in Procs : cache'[p].left \in 0 .. TTL
  PROVE  FreshInv'
  BY RegistryAssumption DEF TypeOK, FreshInv, Live

\* Without a write, what is the newest stays the newest.
LEMMA SameNewest ==
  ASSUME UNCHANGED rows
  PROVE  \A text : Outdated(text)' <=> Outdated(text)
  BY DEF Outdated, NewestTexts, Newest, Existing

\* FreshInv is inductive together with the types: one step per action.
LEMMA FreshInductive ==
  ASSUME TypeOK, FreshInv, [Next]_vars
  PROVE  TypeOK' /\ FreshInv'
<1>t. /\ rows \in [RowIds -> Rows]
      /\ cache \in [Procs -> [yaml : Texts, left : 0 .. TTL]]
      /\ get \in [Procs -> [pc : {"idle", "select", "store"}, yaml : Texts, lag : 0 .. MaxLag]]
      /\ invalidate \in BOOLEAN /\ age \in 0 .. MaxAge
  BY DEF TypeOK
<1>a. /\ TTL \in Nat \ {0} /\ MaxLag \in Nat /\ MaxAge = TTL + MaxLag /\ MaxVersion \in Nat \ {0}
      /\ Server \in Procs /\ 0 \in 0 .. MaxAge
  BY RegistryAssumption DEF MaxAge
<1>r. \A r \in RowIds : rows[r] \in Rows
  BY <1>t
<1>p. \A p \in Procs :
        /\ cache[p].left \in 0 .. TTL
        /\ get[p] \in [pc : {"idle", "select", "store"}, yaml : Texts, lag : 0 .. MaxLag]
        /\ get[p].lag \in 0 .. MaxLag
  BY <1>t
<1>1. ASSUME NEW req \in CreateWorkflowDefinitionRequest, CreateWorkflowDefinition(req)
      PROVE  TypeOK' /\ FreshInv'
  <2> DEFINE row == [tenant |-> req.tenant, version |-> 1, yaml |-> req.yaml_content]
  <2>1. PICK r \in RowIds : Write(r, row)
    BY <1>1 DEF CreateWorkflowDefinition, Conflicting, Existing
  <2>2. row \in Rows
    BY <1>1, <1>a DEF CreateWorkflowDefinition, Parses, Rows, Texts
  <2>3. rows' \in [RowIds -> Rows] /\ age' = 0 /\ invalidate' = TRUE /\ UNCHANGED <<cache, get>>
    BY <1>1, <2>1, <2>2, WriteType DEF CreateWorkflowDefinition
  <2>4. TypeOK'
    BY <1>t, <1>a, <2>3 DEF TypeOK
  <2> QED BY <1>t, <2>3, <2>4, WriteFresh
<1>2. ASSUME NEW req \in UpdateWorkflowDefinitionRequest, UpdateWorkflowDefinition(req)
      PROVE  TypeOK' /\ FreshInv'
  <2> DEFINE row == [rows[req.id] EXCEPT !.version = @ + 1, !.yaml = req.yaml_content]
  <2>1. req.id \in RowIds /\ Write(req.id, row) /\ rows[req.id].version < MaxVersion
        /\ req.yaml_content \in Contents
    BY <1>2 DEF UpdateWorkflowDefinition, Existing, Parses
  <2>2. row \in Rows
    <3>1. rows[req.id] \in Rows /\ rows[req.id].version \in 0 .. MaxVersion
      BY <1>r, <2>1 DEF Rows
    <3>2. rows[req.id].version + 1 \in 0 .. MaxVersion
      BY <1>a, <2>1, <3>1
    <3> QED BY <2>1, <3>1, <3>2 DEF Rows, Texts
  <2>3. rows' \in [RowIds -> Rows] /\ age' = 0 /\ UNCHANGED <<cache, get, invalidate>>
    BY <1>2, <2>1, <2>2, WriteType DEF UpdateWorkflowDefinition
  <2>4. TypeOK'
    BY <1>t, <1>a, <2>3 DEF TypeOK
  <2> QED BY <1>t, <2>3, <2>4, WriteFresh
<1>3. ASSUME NEW req \in DeleteWorkflowDefinitionRequest, DeleteWorkflowDefinition(req)
      PROVE  TypeOK' /\ FreshInv'
  <2> DEFINE row == [rows[req.id] EXCEPT !.version = 0, !.yaml = NoText]
  <2>1. req.id \in RowIds /\ Write(req.id, row)
    BY <1>3 DEF DeleteWorkflowDefinition, Existing
  <2>2. row \in Rows
    <3>1. rows[req.id] \in Rows /\ 0 \in 0 .. MaxVersion
      BY <1>a, <1>r, <2>1
    <3> QED BY <3>1 DEF Rows, Texts
  <2>3. rows' \in [RowIds -> Rows] /\ age' = 0 /\ UNCHANGED <<cache, get, invalidate>>
    BY <1>3, <2>1, <2>2, WriteType DEF DeleteWorkflowDefinition
  <2>4. TypeOK'
    BY <1>t, <1>a, <2>3 DEF TypeOK
  <2> QED BY <1>t, <2>3, <2>4, WriteFresh
<1>4. CASE InvalidateCache
  <2>1. cache' = [cache EXCEPT ![Server] = Empty] /\ invalidate' = FALSE
        /\ UNCHANGED <<rows, get, age>>
    BY <1>4 DEF InvalidateCache
  <2>2. TypeOK'
    BY <1>t, <1>a, <2>1, EmptyType DEF TypeOK
  <2>3. \A p \in Procs : cache'[p] = cache[p] \/ cache'[p].left = 0
    BY <1>t, <2>1, EmptyType
  <2> QED BY <2>1, <2>2, <2>3, SameNewest DEF FreshInv, Live
<1>5. ASSUME NEW p \in Procs, GetFromCache(p) PROVE TypeOK' /\ FreshInv'
  <2>1. /\ cache' = [cache EXCEPT ![p] = Empty] /\ get' = [get EXCEPT ![p].pc = "select"]
        /\ UNCHANGED <<rows, invalidate, age>>
    BY <1>5 DEF GetFromCache
  <2>2. TypeOK'
    BY <1>t, <2>1, EmptyType DEF TypeOK
  <2>3. \A q \in Procs : /\ cache'[q] = cache[q] \/ cache'[q].left = 0
                         /\ get'[q] = get[q] \/ get'[q].pc = "select"
    BY <1>t, <2>1, EmptyType
  <2> QED BY <2>1, <2>2, <2>3, SameNewest DEF FreshInv, Live
<1>6. ASSUME NEW p \in Procs, GetFromDatabase(p) PROVE TypeOK' /\ FreshInv'
  <2>1. UNCHANGED <<rows, cache, invalidate, age>>
    BY <1>6 DEF GetFromDatabase
  <2>2. CASE get' = [get EXCEPT ![p] = NoGet]
    <3>1. TypeOK'
      BY <1>t, <2>1, <2>2, EmptyType DEF TypeOK
    <3>2. \A q \in Procs : get'[q] = get[q] \/ get'[q].pc = "idle"
      BY <1>t, <2>2, EmptyType
    <3> QED BY <2>1, <3>1, <3>2, SameNewest DEF FreshInv, Live
  <2>3. ASSUME NEW text \in NewestTexts,
               get' = [get EXCEPT ![p].pc = "store", ![p].yaml = text]
        PROVE  TypeOK' /\ FreshInv'
    <3>1. text \in Texts
      BY <1>t DEF NewestTexts, Newest, Existing, Rows
    <3>2. TypeOK'
      BY <1>t, <2>1, <2>3, <3>1 DEF TypeOK
    <3>3. get'[p].yaml = text /\ \A q \in Procs \ {p} : get'[q] = get[q]
      BY <1>t, <2>3
    <3>4. ~Outdated(text)
      BY DEF Outdated
    <3> QED BY <2>1, <3>2, <3>3, <3>4, SameNewest DEF FreshInv, Live
  <2> QED BY <1>6, <2>2, <2>3 DEF GetFromDatabase
<1>7. ASSUME NEW p \in Procs, CacheDefinition(p) PROVE TypeOK' /\ FreshInv'
  <2>1. /\ get[p].pc = "store" /\ get' = [get EXCEPT ![p] = NoGet]
        /\ cache' = [cache EXCEPT ![p] = [yaml |-> get[p].yaml, left |-> TTL]]
        /\ UNCHANGED <<rows, invalidate, age>>
    BY <1>7 DEF CacheDefinition
  <2>2. TypeOK'
    BY <1>t, <1>a, <2>1, EmptyType DEF TypeOK
  <2>3. /\ cache'[p].left = TTL /\ cache'[p].yaml = get[p].yaml /\ get'[p].pc = "idle"
        /\ \A q \in Procs \ {p} : cache'[q] = cache[q] /\ get'[q] = get[q]
    BY <1>t, <2>1, EmptyType
  <2>4. Outdated(get[p].yaml) => age + TTL <= TTL + MaxLag
    BY <1>t, <1>a, <2>1 DEF FreshInv
  <2> QED BY <2>1, <2>2, <2>3, <2>4, SameNewest DEF FreshInv, Live
<1>8. ASSUME NEW p \in Procs, Restart(p) PROVE TypeOK' /\ FreshInv'
  <2>1. /\ cache' = [cache EXCEPT ![p] = Empty] /\ get' = [get EXCEPT ![p] = NoGet]
        /\ invalidate' \in BOOLEAN /\ UNCHANGED <<rows, age>>
    BY <1>8 DEF Restart
  <2>2. TypeOK'
    BY <1>t, <2>1, EmptyType DEF TypeOK
  <2>3. \A q \in Procs : /\ cache'[q] = cache[q] \/ cache'[q].left = 0
                         /\ get'[q] = get[q] \/ get'[q].pc = "idle"
    BY <1>t, <2>1, EmptyType
  <2> QED BY <2>1, <2>2, <2>3, SameNewest DEF FreshInv, Live
<1>9. CASE Tick
  <2>1. UNCHANGED <<rows, invalidate>> /\ age' = IF age = MaxAge THEN MaxAge ELSE age + 1
    BY <1>9 DEF Tick
  <2>2. \A p \in Procs : /\ cache'[p] = [cache[p] EXCEPT !.left = Pred(cache[p].left)]
                         /\ cache'[p].yaml = cache[p].yaml
                         /\ cache'[p].left = Pred(cache[p].left)
    BY <1>9, <1>t DEF Tick
  <2>3. \A p \in Procs :
          \/ get[p].pc = "idle" /\ get'[p] = get[p]
          \/ /\ get[p].lag < MaxLag /\ get'[p] = [get[p] EXCEPT !.lag = get[p].lag + 1]
             /\ get'[p].pc = get[p].pc /\ get'[p].yaml = get[p].yaml
             /\ get'[p].lag = get[p].lag + 1
    BY <1>9, <1>t DEF Tick
  <2>4. age' \in 0 .. MaxAge /\ age' <= age + 1
    BY <1>t, <1>a, <2>1
  <2>5. \A p \in Procs : Pred(cache[p].left) \in 0 .. TTL
    BY <1>p, <1>a DEF Pred
  <2>6. cache' \in [Procs -> [yaml : Texts, left : 0 .. TTL]]
    BY <1>9, <1>t, <2>5 DEF Tick
  <2>7. \A p \in Procs :
          get'[p] \in [pc : {"idle", "select", "store"}, yaml : Texts, lag : 0 .. MaxLag]
    <3> SUFFICES ASSUME NEW p \in Procs, get[p].lag < MaxLag,
                        get'[p] = [get[p] EXCEPT !.lag = get[p].lag + 1]
                 PROVE  get'[p] \in [pc : {"idle", "select", "store"}, yaml : Texts,
                                     lag : 0 .. MaxLag]
      BY <1>p, <2>3
    <3>1. get[p].lag + 1 \in 0 .. MaxLag
      BY <1>a, <1>p
    <3> QED BY <1>p, <3>1
  <2>8. TypeOK'
    BY <1>9, <1>t, <2>1, <2>4, <2>6, <2>7 DEF TypeOK, Tick
  <2>9. ASSUME NEW p \in Procs, Live(p)', Outdated(cache'[p].yaml)
        PROVE  age' + cache'[p].left <= TTL + MaxLag
    <3>0. cache[p].left \in Nat /\ cache'[p].left = Pred(cache[p].left) /\ cache'[p].left > 0
      <4>1. cache[p].left \in Nat
        BY <1>p, <1>a
      <4>2. cache'[p].left = Pred(cache[p].left)
        BY <2>2
      <4>3. cache'[p].left > 0
        BY <2>9 DEF Live
      <4> QED BY <4>1, <4>2, <4>3
    <3>1. cache'[p].left = cache[p].left - 1 /\ cache[p].left > 0
      BY <3>0 DEF Pred
    <3>2. age + cache[p].left <= TTL + MaxLag
      BY <2>2, <2>9, <3>1 DEF FreshInv, Live
    <3> QED BY <1>t, <1>a, <2>4, <3>0, <3>1, <3>2
  <2>10. ASSUME NEW p \in Procs, get'[p].pc = "store", Outdated(get'[p].yaml)
         PROVE  age' <= get'[p].lag
    <3>0. get[p].lag \in Nat
      BY <1>p, <1>a
    <3>1. get[p].pc = "store" /\ get'[p].yaml = get[p].yaml /\ get'[p].lag = get[p].lag + 1
      BY <2>3, <2>10
    <3>2. age <= get[p].lag
      BY <2>10, <3>1 DEF FreshInv
    <3> QED BY <1>t, <1>a, <2>4, <3>0, <3>1, <3>2
  <2> QED BY <2>1, <2>8, <2>9, <2>10, SameNewest DEF FreshInv
<1>10. CASE UNCHANGED vars
  BY <1>10, SameNewest DEF vars, TypeOK, FreshInv, Live
<1>11. CASE Next
  BY <1>11, <1>1, <1>2, <1>3, <1>4, <1>5, <1>6, <1>7, <1>8, <1>9 DEF Next, ServerStep, GetStep
<1> QED BY <1>10, <1>11

\* Both hold initially.
LEMMA FreshInitial == Init => TypeOK /\ FreshInv
<1> SUFFICES ASSUME Init PROVE TypeOK /\ FreshInv
  OBVIOUS
<1>1. PICK t \in Tenants : rows = [r \in RowIds |-> [tenant |-> t, version |-> 0, yaml |-> NoText]]
  BY DEF Init
<1>2. rows \in [RowIds -> Rows]
  BY <1>1, RegistryAssumption DEF Rows, Texts
<1>3. 0 \in 0 .. MaxAge
  BY RegistryAssumption DEF MaxAge
<1>4. TypeOK
  BY <1>2, <1>3, EmptyType DEF Init, TypeOK
<1>5. FreshInv
  BY EmptyType DEF Init, FreshInv, Live
<1> QED BY <1>4, <1>5

(* The rows of workflow_definitions, the caches and the Gets in progress    *)
(* keep their types: versions stay in their bounds and no entry outlives    *)
(* its five minutes.                                                        *)
THEOREM RegistryTypeCorrect == Spec => []TypeOK
  BY FreshInitial, FreshInductive, PTL DEF Spec

(* No process serves a definition that was replaced or deleted longer ago   *)
(* than the life of a cache entry plus the longest Get: not when Create,    *)
(* Update and Delete tell no other process, not when a slow Get caches what *)
(* it read before an invalidation, and not across restarts.                 *)
THEOREM StalenessIsBounded == Spec => []BoundedStaleness
<1>1. ASSUME TypeOK, FreshInv PROVE BoundedStaleness
  <2> SUFFICES ASSUME age = MaxAge, NEW p \in Procs, Live(p), Outdated(cache[p].yaml) PROVE FALSE
    BY DEF BoundedStaleness, Served, Outdated
  <2>1. age + cache[p].left <= TTL + MaxLag
    BY <1>1 DEF FreshInv
  <2> QED BY <1>1, <2>1, RegistryAssumption DEF TypeOK, MaxAge, Live
<1> QED BY <1>1, FreshInitial, FreshInductive, PTL DEF Spec
===============================================================================
