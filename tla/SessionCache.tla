---------------------------- MODULE SessionCache ----------------------------
(***************************************************************************)
(* The MCP server's cache of workbook sessions, and the tool handlers that *)
(* use it.  A handler gets a handle on a session (a clone of the Arc that  *)
(* the cache keeps), waits its turn for the session's lock one to three    *)
(* times, and touches the session before it answers.  Sessions leave the   *)
(* cache when they are closed, when they expire and, at capacity, when a   *)
(* new one needs the room; the strong count of the Arc tells whether a     *)
(* handler holds one.  Each operation of the cache runs under its mutex.   *)
(***************************************************************************)
EXTENDS Naturals, FiniteSets, Sequences, Functions

CONSTANTS
  Client,    \* the requests served at the same time
  Maximum,   \* --max-sessions
  Ttl,       \* --session-ttl-seconds
  MaxId,     \* bound on the sessions ever created
  MaxClock   \* bound on time

ASSUME CacheAssumption ==
  Maximum \in Nat \ {0} /\ Ttl \in Nat \ {0} /\ MaxId \in Nat /\ MaxClock \in Nat

VARIABLES
  entries,   \* the resident sessions, with the time of their last access
  nextId,
  clock,
  queues,    \* who holds (first) or waits for the lock of each workbook
  handlers        \* what every client's handler is doing

cacheVars == <<entries, nextId, clock, queues, handlers>>

Id == 1 .. MaxId

Idle == [kind |-> "idle"]

(***************************************************************************)
(* How often a handler takes the lock of its session: a read, an edit or a *)
(* save once, a calculation to prepare and to install, and if its request  *)
(* is cancelled to prepare, to cancel and to abandon.                      *)
(***************************************************************************)
Turns == 1 .. 3

CacheInit ==
  /\ entries = <<>>
  /\ nextId = 1
  /\ clock = 0
  /\ queues = [id \in Id |-> <<>>]
  /\ handlers = [c \in Client |-> Idle]

-----------------------------------------------------------------------------
(***************************************************************************)
(* The workbooks a handler holds an Arc of.  The others keep their handle  *)
(* until they answer; the worker of an import gives up each Arc with the   *)
(* lock that consumed it, long before the handler answers.                 *)
(***************************************************************************)
Holds(op) ==
  CASE op.kind = "use" -> {op.id}
    [] op.kind = "source" -> {op.source}
    [] op.kind = "import" -> {id \in {op.id} : op.left > 0} \union {id \in {op.source} : op.left = 2}
    [] OTHER -> {}

(* Mutant: the handles handed out are not counted.                         *)
HandlesIgnored(id) == TRUE

(* Arc::strong_count is 1: only the cache holds the workbook.              *)
Unshared(id) == \A c \in Client : id \notin Holds(handlers[c])

Expired(id) == Unshared(id) /\ clock - entries[id] >= Ttl

(* prune_expired.                                                          *)
Pruned == RestrictDomain(entries, LAMBDA id : ~Expired(id))

Found(id) == id \in DOMAIN entries /\ ~Expired(id)

(* get: an expired session is dropped; otherwise the expired ones among    *)
(* the others are, and the session is used now.                            *)
AfterGet(id) ==
  IF Found(id) THEN [Pruned EXCEPT ![id] = clock]
  ELSE IF id \in DOMAIN entries THEN RestrictDomain(entries, LAMBDA i : i # id)
  ELSE Pruned

-----------------------------------------------------------------------------
(* A handler that uses one session starts, or does not find it.            *)
Get(c, id, turns) ==
  /\ handlers[c] = Idle
  /\ entries' = AfterGet(id)
  /\ handlers' = IF Found(id)
            THEN [handlers EXCEPT ![c] = [kind |-> "use", id |-> id, left |-> turns, waits |-> FALSE]]
            ELSE handlers
  /\ UNCHANGED <<nextId, clock, queues>>

(* workbook_import_sheet gets the source and then the target.              *)
GetSource(c, source) ==
  /\ handlers[c] = Idle
  /\ entries' = AfterGet(source)
  /\ handlers' = IF Found(source) THEN [handlers EXCEPT ![c] = [kind |-> "source", source |-> source]] ELSE handlers
  /\ UNCHANGED <<nextId, clock, queues>>

GetTarget(c, id) ==
  /\ handlers[c].kind = "source"
  /\ entries' = AfterGet(id)
  /\ handlers' = [handlers EXCEPT ![c] =
               IF Found(id) THEN [kind |-> "import", source |-> handlers[c].source, id |-> id,
                                  left |-> 2, waits |-> FALSE]
               ELSE Idle]
  /\ UNCHANGED <<nextId, clock, queues>>

(* The session whose lock the handler takes next.                          *)
Wanted(op) == IF op.kind = "import" /\ op.left = 2 THEN op.source ELSE op.id

Working(op) == op.kind \in {"use", "import"} /\ op.left > 0

(* The handler asks for the lock, which serves requests in their order.    *)
Lock(c) ==
  /\ Working(handlers[c]) /\ ~handlers[c].waits
  /\ queues' = [queues EXCEPT ![Wanted(handlers[c])] = Append(@, c)]
  /\ handlers' = [handlers EXCEPT ![c].waits = TRUE]
  /\ UNCHANGED <<entries, nextId, clock>>

HasLock(c) == Working(handlers[c]) /\ handlers[c].waits /\ Head(queues[Wanted(handlers[c])]) = c

(* Mutant: an import keeps the source locked while it takes the target.    *)
KeepsSource(c) ==
  /\ HasLock(c)
  /\ queues' = IF handlers[c].kind = "import" /\ handlers[c].left = 2 THEN queues
               ELSE [id \in Id |-> SelectSeq(queues[id], LAMBDA d : d # c)]
  /\ handlers' = [handlers EXCEPT ![c].waits = FALSE, ![c].left = @ - 1]
  /\ UNCHANGED <<entries, nextId, clock>>

(* The handler, at its turn, does its work on the workbook and unlocks it. *)
Unlock(c) ==
  /\ HasLock(c)
  /\ queues' = [queues EXCEPT ![Wanted(handlers[c])] = Tail(@)]
  /\ handlers' = [handlers EXCEPT ![c].waits = FALSE, ![c].left = @ - 1]
  /\ UNCHANGED <<entries, nextId, clock>>

Answers(c) == handlers[c].kind = "touch" \/ (handlers[c].kind \in {"use", "import"} /\ handlers[c].left = 0)

(***************************************************************************)
(* touch, then the answer: session_not_found if the session is gone.  An   *)
(* import touches its target and, with "touch", its source.                *)
(***************************************************************************)
FinishHandler(c) ==
  /\ Answers(c)
  /\ entries' = IF handlers[c].id \in DOMAIN entries THEN [entries EXCEPT ![handlers[c].id] = clock] ELSE entries
  /\ handlers' = [handlers EXCEPT ![c] = IF handlers[c].kind = "import" /\ handlers[c].id \in DOMAIN entries
                               THEN [kind |-> "touch", id |-> handlers[c].source] ELSE Idle]
  /\ UNCHANGED <<nextId, clock, queues>>

(* The work failed, or its answer is too large: no touch.  An import may   *)
(* also fail to read the source.                                           *)
Fail(c) ==
  /\ handlers[c].kind \in {"use", "import"} /\ ~handlers[c].waits
  /\ handlers[c].left = 0 \/ (handlers[c].kind = "import" /\ handlers[c].left = 1)
  /\ handlers' = [handlers EXCEPT ![c] = Idle]
  /\ UNCHANGED <<entries, nextId, clock, queues>>

-----------------------------------------------------------------------------
(* Whom prepare_insert evicts: the idle session used longest ago.          *)
Evictable(resident) ==
  LET older(i, j) == resident[i] < resident[j] \/ (resident[i] = resident[j] /\ i < j) IN
  {id \in DOMAIN resident :
     /\ Unshared(id)
     /\ \A other \in DOMAIN resident \ {id} : Unshared(other) => older(id, other)}

Room(resident) == Cardinality(DOMAIN resident) < Maximum

(* Mutant: the session that does not fit is kept.                          *)
NothingEvicted(resident) == resident

(* The resident sessions without the one that has to go.                   *)
Evicted(resident) ==
  RestrictDomain(resident, LAMBDA id : Room(resident) \/ id \notin Evictable(resident))

(***************************************************************************)
(* workbook_create, workbook_open and workbook_open_csv: prepare_insert    *)
(* and, unless the cache is full or the answer too large, commit.          *)
(***************************************************************************)
Create(c) ==
  /\ handlers[c] = Idle
  /\ nextId <= MaxId
  /\ \/ /\ Room(Pruned) \/ Evictable(Pruned) # {}
        /\ entries' = [id \in DOMAIN Evicted(Pruned) \union {nextId} |->
                         IF id = nextId THEN clock ELSE Pruned[id]]
        /\ nextId' = nextId + 1
     \/ entries' = Pruned /\ UNCHANGED nextId
  /\ UNCHANGED <<clock, queues, handlers>>

(* workbook_close: a session in use is busy.                               *)
Close(c, id) ==
  /\ handlers[c] = Idle
  /\ id \in DOMAIN entries /\ Unshared(id)
  /\ entries' = RestrictDomain(entries, LAMBDA i : i # id)
  /\ UNCHANGED <<nextId, clock, queues, handlers>>

(* ids, for the list of resources.                                         *)
ListIds ==
  /\ entries' = Pruned
  /\ UNCHANGED <<nextId, clock, queues, handlers>>

Tick ==
  /\ clock < MaxClock
  /\ clock' = clock + 1
  /\ UNCHANGED <<entries, nextId, queues, handlers>>

Step(c) == Lock(c) \/ Unlock(c) \/ FinishHandler(c) \/ Fail(c) \/ \E id \in Id : GetTarget(c, id)

CacheNext ==
  \/ \E c \in Client :
       \/ Step(c)
       \/ \E id \in Id : GetSource(c, id) \/ Close(c, id) \/ \E turns \in Turns : Get(c, id, turns)
       \/ Create(c)
  \/ ListIds
  \/ Tick

CacheSpec == CacheInit /\ [][CacheNext]_cacheVars

(* Handlers and their workers run: every handler that can go on does.      *)
CacheFairness == \A c \in Client : WF_cacheVars(Step(c))

-----------------------------------------------------------------------------
UseOp == [kind : {"use"}, id : Id, left : 0 .. 3, waits : BOOLEAN]
SourceOp == [kind : {"source"}, source : Id]
ImportOp == [kind : {"import"}, source : Id, id : Id, left : 0 .. 2, waits : BOOLEAN]
TouchOp == [kind : {"touch"}, id : Id]

(* The cache, the locks and the handlers have their types.                 *)
CacheTypeOK ==
  /\ DOMAIN entries \subseteq Id /\ \A id \in DOMAIN entries : entries[id] \in 0 .. clock
  /\ nextId \in 1 .. MaxId + 1
  /\ clock \in 0 .. MaxClock
  /\ queues \in [Id -> Seq(Client)]
  /\ handlers \in [Client -> {Idle} \union UseOp \union SourceOp \union ImportOp \union TouchOp]

(***************************************************************************)
(* The cache keeps at most --max-sessions sessions, whatever expires, is   *)
(* closed or is in use when new ones are created (prepare_insert, commit). *)
(***************************************************************************)
CapacityHolds == Cardinality(DOMAIN entries) <= Maximum

(***************************************************************************)
(* A workbook that a handler holds a handle on stays resident: neither     *)
(* expiry, nor eviction, nor close removes it underneath the handler       *)
(* (strong_count in get, prune_expired, prepare_insert and close).         *)
(***************************************************************************)
HeldSessionsStayResident ==
  \A c \in Client : Holds(handlers[c]) \subseteq DOMAIN entries

(***************************************************************************)
(* Every handler that found its session answers: nobody waits for ever for *)
(* a lock, although an import takes the locks of two workbooks and two     *)
(* imports may cross, or one may import from the workbook it imports into  *)
(* ("The source is released before the target is taken").                  *)
(***************************************************************************)
HandlersAnswer ==
  \A c \in Client : handlers[c] # Idle ~> handlers[c] = Idle

(***************************************************************************)
(* "A session with another active operation is rejected as busy instead of *)
(* being removed underneath that operation", and "active sessions are      *)
(* never evicted" (workbook_close, workbook_create): a session that a      *)
(* handler got and has not yet answered for is resident.                   *)
(***************************************************************************)
ActiveSessionsStayResident ==
  \A c \in Client :
    /\ handlers[c].kind \in {"use", "import", "touch"} => handlers[c].id \in DOMAIN entries
    /\ handlers[c].kind \in {"source", "import"} => handlers[c].source \in DOMAIN entries
=============================================================================
