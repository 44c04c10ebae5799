---------------------------- MODULE VersionedCache ----------------------------
(***************************************************************************)
(* CacheService in front of one kind of database entity: readers go        *)
(* through getOrSetEntity (PermissionResolverService, @Cacheable), writers *)
(* commit a change and then call deleteEntity (the use cases that assign   *)
(* and revoke roles and permissions, verify-email, @CacheEvict).           *)
(*                                                                         *)
(* The keys of all entities of a prefix carry the prefix's version, so a   *)
(* bump is meant to put every older entry out of reach at once.  Every     *)
(* Redis or database call is a step of its own.  The value of an entity is *)
(* the number of changes it holds.                                         *)
(*                                                                         *)
(* The options `lock' and `staleTtl' are off, as in every call of the      *)
(* repository.                                                             *)
(***************************************************************************)
EXTENDS Naturals, Sequences, FiniteSets

CONSTANTS
  Ids,        \* entities sharing the prefix
  Readers,    \* calls of getOrSetEntity in progress
  Writers,    \* use cases in progress
  NoReader,
  Hosts,      \* instances of the service
  HostOf,     \* the instance a reader runs on
  MaxCommits  \* bound: changes per entity

ASSUME CacheAssumption ==
  /\ NoReader \notin Readers
  /\ HostOf \in [Readers -> Hosts]
  /\ MaxCommits \in Nat

VARIABLES
  db,      \* committed value of an entity
  version, \* the version key in Redis, 0: missing
  store,   \* Redis: <<entity, version, value>>, one per entity and version
  writer,  \* step of a use case
  target,  \* the entity it changes
  found,   \* versions whose keys KEYS returned
  reader,  \* step of a read
  want,    \* the entity it reads
  ver,     \* the version its key was built with
  got,     \* the value it read
  lead,    \* whose promise it awaits: itself, another or, on a bypass, nobody
  began,   \* history: bumps at its start
  bumps    \* history: the database at every bump

cacheVars  == <<version, store>>
writerVars == <<writer, target, found>>
readerVars == <<reader, want, ver, got, lead, began>>
vars == <<db, cacheVars, writerVars, readerVars, bumps>>

WriterSteps == {"idle", "keys", "del", "bump"}
ReaderSteps ==
  {"idle", "version", "resolve", "lookup", "compute", "write", "joined", "answered"}

\* The versions there can be, for bounds and fairness.
Versions == 1..(MaxCommits * Cardinality(Ids) + 1)

Zero == [i \in Ids |-> 0]

Init ==
  /\ db = Zero /\ version = 0 /\ store = {} /\ bumps = <<>>
  /\ writer = [w \in Writers |-> "idle"]
  /\ target \in [Writers -> Ids]
  /\ found  = [w \in Writers |-> {}]
  /\ reader = [r \in Readers |-> "idle"]
  /\ want \in [Readers -> Ids]
  /\ ver   = [r \in Readers |-> 0]
  /\ got   = [r \in Readers |-> 0]
  /\ lead  = [r \in Readers |-> NoReader]
  /\ began = [r \in Readers |-> 0]

-----------------------------------------------------------------------------
(* Writers: the transaction, then deleteEntity.                            *)

WriterAt(w, from, to) == writer[w] = from /\ writer' = [writer EXCEPT ![w] = to]

Commit(w, i) ==
  /\ WriterAt(w, "idle", "keys")
  /\ db[i] < MaxCommits
  /\ db' = [db EXCEPT ![i] = @ + 1]
  /\ target' = [target EXCEPT ![w] = i]
  /\ UNCHANGED <<cacheVars, found, readerVars, bumps>>

\* delByPattern is a KEYS and then a DEL of what it returned.
ListKeys(w) ==
  /\ WriterAt(w, "keys", "del")
  /\ found' = [found EXCEPT ![w] = {t[2] : t \in {s \in store : s[1] = target[w]}}]
  /\ UNCHANGED <<db, cacheVars, target, readerVars, bumps>>

DeleteKeys(w) ==
  /\ WriterAt(w, "del", "bump")
  /\ store' = {t \in store : t[1] # target[w] \/ t[2] \notin found[w]}
  /\ found' = [found EXCEPT ![w] = {}]
  /\ UNCHANGED <<db, version, target, readerVars, bumps>>

\* INCR, of a missing key as of 0.  Nobody subscribes to the publish after it.
Bump(w) ==
  /\ WriterAt(w, "bump", "idle")
  /\ version' = version + 1
  /\ bumps' = Append(bumps, db)
  /\ UNCHANGED <<db, store, target, found, readerVars>>

\* The process dies or Redis answers with an error: the commit stands, the
\* rest of deleteEntity never happens.
Abandon(w) ==
  /\ writer[w] # "idle"
  /\ writer' = [writer EXCEPT ![w] = "idle"]
  /\ found'  = [found EXCEPT ![w] = {}]
  /\ UNCHANGED <<db, cacheVars, target, readerVars, bumps>>

-----------------------------------------------------------------------------
(* Changes that are nobody's to invalidate.                                *)

\* An assignment reaches its expiresAt, or UpdatePermissionUseCase turns a
\* permission off or on: the factory reads something else from now on, and no
\* deleteEntity follows.
Drift(i) ==
  /\ db[i] < MaxCommits
  /\ db' = [db EXCEPT ![i] = @ + 1]
  /\ UNCHANGED <<cacheVars, writerVars, readerVars, bumps>>

-----------------------------------------------------------------------------
(* Readers: getOrSetEntity.                                                *)

ReaderAt(r, from, to) == reader[r] = from /\ reader' = [reader EXCEPT ![r] = to]

StartRead(r, i) ==
  /\ ReaderAt(r, "idle", "version")
  /\ want'  = [want EXCEPT ![r] = i]
  /\ began' = [began EXCEPT ![r] = Len(bumps)]
  /\ UNCHANGED <<db, cacheVars, writerVars, ver, got, lead, bumps>>

\* getVersion: a missing version key reads as 1.
KnownVersion == IF version = 0 THEN 1 ELSE version

GetVersion(r) ==
  /\ ReaderAt(r, "version", "resolve")
  /\ ver' = [ver EXCEPT ![r] = KnownVersion]
  /\ UNCHANGED <<db, cacheVars, writerVars, want, got, lead, began, bumps>>

\* The reads that own a promise of the `inflight' map.
Leads(q) == lead[q] = q /\ reader[q] \in {"lookup", "compute", "write"}

SameKey(q, r) == want[q] = want[r] /\ ver[q] = ver[r]

InFlight(r) == {q \in Readers : Leads(q) /\ SameKey(q, r) /\ HostOf[q] = HostOf[r]}

Join(r) ==
  /\ ReaderAt(r, "resolve", "joined")
  /\ \E q \in InFlight(r) : lead' = [lead EXCEPT ![r] = q]
  /\ UNCHANGED <<db, cacheVars, writerVars, want, ver, got, began, bumps>>

Lead(r) ==
  /\ ReaderAt(r, "resolve", "lookup")
  /\ InFlight(r) = {}
  /\ lead' = [lead EXCEPT ![r] = r]
  /\ UNCHANGED <<db, cacheVars, writerVars, want, ver, got, began, bumps>>

\* The x-cache-bypass header: no read and no promise, but a write through.
Bypass(r) ==
  /\ ReaderAt(r, "resolve", "compute")
  /\ UNCHANGED <<db, cacheVars, writerVars, want, ver, got, lead, began, bumps>>

\* The reads that end with r: r and those that joined its promise.
Waiting(r) == {r} \union {q \in Readers : reader[q] = "joined" /\ lead[q] = r}

Settle(r, step, value) ==
  /\ reader' = [q \in Readers |-> IF q \in Waiting(r) THEN step ELSE reader[q]]
  /\ got'    = [q \in Readers |-> IF q \in Waiting(r) THEN value ELSE got[q]]
  /\ lead'   = [q \in Readers |-> IF q \in Waiting(r) THEN NoReader ELSE lead[q]]

Forget(S) ==
  /\ ver'   = [q \in Readers |-> IF q \in S THEN 0 ELSE ver[q]]
  /\ began' = [q \in Readers |-> IF q \in S THEN 0 ELSE began[q]]

Hit(r) ==
  /\ reader[r] = "lookup"
  /\ \E t \in store : t[1] = want[r] /\ t[2] = ver[r] /\ Settle(r, "answered", t[3])
  /\ UNCHANGED <<db, cacheVars, writerVars, want, ver, began, bumps>>

\* No such key; or the GET failed, which counts as a miss.
Miss(r) ==
  /\ ReaderAt(r, "lookup", "compute")
  /\ UNCHANGED <<db, cacheVars, writerVars, want, ver, got, lead, began, bumps>>

\* The factory.
Compute(r) ==
  /\ ReaderAt(r, "compute", "write")
  /\ got' = [got EXCEPT ![r] = db[want[r]]]
  /\ UNCHANGED <<db, cacheVars, writerVars, want, ver, lead, began, bumps>>

\* Mutant: the key is built when the value is there.
KeyOfLate(r) == <<want[r], KnownVersion>>

\* buildEntityKey ran before the value was read.
KeyOf(r) == <<want[r], ver[r]>>

WriteBack(r) ==
  /\ reader[r] = "write"
  /\ store' = {t \in store : <<t[1], t[2]>> # KeyOf(r)}
                \union {<<KeyOf(r)[1], KeyOf(r)[2], got[r]>>}
  /\ Settle(r, "answered", got[r])
  /\ UNCHANGED <<db, version, writerVars, want, ver, began, bumps>>

\* A failing getVersion, factory or SET rejects the promise for all who share it.
ReadFails(r) ==
  /\ reader[r] \in {"version", "compute", "write"}
  /\ Settle(r, "idle", 0) /\ Forget(Waiting(r))
  /\ UNCHANGED <<db, cacheVars, writerVars, want, bumps>>

\* The caller has its answer.
Return(r) ==
  /\ ReaderAt(r, "answered", "idle")
  /\ got' = [got EXCEPT ![r] = 0]
  /\ Forget({r})
  /\ UNCHANGED <<db, cacheVars, writerVars, want, lead, bumps>>

\* Mutant: entries are written without EX.
EvictNever(i, v) == FALSE /\ UNCHANGED vars

\* Redis drops an entry whose TTL is over.
Evict(i, v) ==
  /\ \E t \in store : t[1] = i /\ t[2] = v
  /\ store' = {t \in store : t[1] # i \/ t[2] # v}
  /\ UNCHANGED <<db, version, writerVars, readerVars, bumps>>

-----------------------------------------------------------------------------

Write(w) ==
  \/ \E i \in Ids : Commit(w, i)
  \/ ListKeys(w) \/ DeleteKeys(w) \/ Bump(w) \/ Abandon(w)

Progress(r) ==
  \/ GetVersion(r) \/ Join(r) \/ Lead(r) \/ Bypass(r) \/ Hit(r) \/ Miss(r)
  \/ Compute(r) \/ WriteBack(r) \/ ReadFails(r) \/ Return(r)

Read(r) == Progress(r) \/ \E i \in Ids : StartRead(r, i)

Next ==
  \/ \E w \in Writers : Write(w)
  \/ \E r \in Readers : Read(r)
  \/ \E i \in Ids : Drift(i)
  \/ \E i \in Ids, v \in Versions : Evict(i, v)

\* Every call returns or fails in the end, and every entry is written with an
\* expiry, so Redis drops it unless it is written again.
Fairness ==
  /\ \A r \in Readers : WF_vars(Progress(r))
  /\ \A i \in Ids, v \in Versions : WF_vars(Evict(i, v))

Spec == Init /\ [][Next]_vars

FairSpec == Spec /\ Fairness

-----------------------------------------------------------------------------
(* Properties.                                                             *)

TypeOK ==
  /\ db \in [Ids -> Nat] /\ version = Len(bumps) /\ bumps \in Seq([Ids -> Nat])
  /\ store \subseteq Ids \X (Nat \ {0}) \X Nat
  /\ writer \in [Writers -> WriterSteps]
  /\ target \in [Writers -> Ids]
  /\ found \in [Writers -> SUBSET (Nat \ {0})]
  /\ reader \in [Readers -> ReaderSteps]
  /\ want \in [Readers -> Ids]
  /\ ver \in [Readers -> Nat] /\ got \in [Readers -> Nat] /\ began \in [Readers -> Nat]
  /\ lead \in [Readers -> Readers \union {NoReader}]

\* A read that started after the bump number `n' answers with nothing older
\* than the database was at that bump, whoever was filling the cache meanwhile.
NotOlderThanBump(r, n) ==
  reader[r] = "answered" /\ began[r] >= n => got[r] >= bumps[began[r]][want[r]]

\* What the comment of bumpVersion says: a bump invalidates all versioned keys
\* under the prefix.
BumpInvalidates == \A r \in Readers : NotOlderThanBump(r, 1)

\* True of every bump but the first, which creates the version key with the
\* value a missing key already stood for: neither a slow fill, nor a promise
\* shared by several reads, nor an invalidation that stops halfway lets a read
\* see behind a later bump of its own or of another entity.
LaterBumpsInvalidate == \A r \in Readers : NotOlderThanBump(r, 2)

\* Staleness ends: when changes have stopped, also those that nobody invalidates
\* and those whose use case died before it could, every answer is current from
\* some point on.
StalenessEnds ==
  <>[](\A r \in Readers : reader[r] = "answered" => got[r] = db[want[r]])
=============================================================================
