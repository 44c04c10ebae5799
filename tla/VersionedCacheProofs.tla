------------------------- MODULE VersionedCacheProofs -------------------------
(***************************************************************************)
(* Every bump of a prefix but the first invalidates, for any number of     *)
(* entities, readers, writers and commits.  The argument: a key of version *)
(* n >= 2 is only ever built after the n-th bump, and the database is read *)
(* after the key is built, so nothing stored under that key is older than  *)
(* the n-th bump (StoreFacts); a read that started after bump m builds a   *)
(* key of some version n >= m, and later bumps saw later databases         *)
(* (BumpFacts), so what it finds, computes or is handed by the promise it  *)
(* joined, which has the same key, is not older than bump m (ReadFacts).   *)
(***************************************************************************)
EXTENDS VersionedCache, TLAPS

AtLeast(n, i, value) == n >= 2 => value >= bumps[n][i]

BumpFacts ==
  \A n \in 1..Len(bumps) : \A i \in Ids :
    /\ bumps[n][i] <= db[i]
    /\ \A m \in 1..n : bumps[m][i] <= bumps[n][i]

StoreFacts == \A t \in store : t[2] <= KnownVersion /\ AtLeast(t[2], t[1], t[3])

\* The steps of a read that has built its key.
Keyed(r) == reader[r] \in {"resolve", "lookup", "compute", "write", "joined"}

ReadFact(r) ==
  /\ began[r] <= Len(bumps)
  /\ Keyed(r) => ver[r] \in 1..KnownVersion /\ began[r] <= ver[r]
  /\ reader[r] = "write" => AtLeast(ver[r], want[r], got[r])
  /\ reader[r] = "answered" => AtLeast(began[r], want[r], got[r])
  /\ reader[r] = "joined" =>
       lead[r] \in Readers /\ Leads(lead[r]) /\ SameKey(lead[r], r)

ReadFacts == \A r \in Readers : ReadFact(r)

CacheInv == TypeOK /\ BumpFacts /\ StoreFacts /\ ReadFacts

-----------------------------------------------------------------------------

LEMMA InitInv == Init => CacheInv
  BY DEF Init, CacheInv, TypeOK, BumpFacts, StoreFacts, ReadFacts, ReadFact, Keyed,
         AtLeast, Zero, WriterSteps, ReaderSteps

\* A version key is never taken for less than 1, or for more than was counted.
LEMMA KnownVersionIs ==
  ASSUME TypeOK
  PROVE  KnownVersion \in Nat /\ KnownVersion >= 1 /\ KnownVersion >= Len(bumps)
         /\ (KnownVersion >= 2 => KnownVersion = Len(bumps))
  BY DEF KnownVersion, TypeOK

\* What a key of r may yield is good enough for a read that began before it
\* was built.
LEMMA KeyedIsEnough ==
  ASSUME CacheInv, NEW r \in Readers, Keyed(r), NEW value \in Nat,
         AtLeast(ver[r], want[r], value)
  PROVE  AtLeast(began[r], want[r], value)
  <1>1. CASE began[r] >= 2
    <2>1. ver[r] \in 1..Len(bumps) /\ ver[r] >= 2 /\ began[r] \in 1..ver[r]
      <3>1. ver[r] \in 1..KnownVersion /\ began[r] <= ver[r]
        BY DEF CacheInv, ReadFacts, ReadFact
      <3>2. began[r] \in Nat /\ ver[r] \in Nat
        BY DEF CacheInv, TypeOK
      <3>3. KnownVersion \in Nat /\ (KnownVersion >= 2 => KnownVersion = Len(bumps))
        BY KnownVersionIs DEF CacheInv
      <3> QED BY <1>1, <3>1, <3>2, <3>3
    <2>2. bumps[began[r]][want[r]] <= bumps[ver[r]][want[r]]
      BY <2>1 DEF CacheInv, BumpFacts, TypeOK
    <2>3. /\ bumps[began[r]][want[r]] \in Nat
          /\ bumps[ver[r]][want[r]] \in Nat
      BY <2>1 DEF CacheInv, TypeOK
    <2> QED BY <2>1, <2>2, <2>3 DEF AtLeast
  <1>2. CASE ~(began[r] >= 2)
    BY <1>2 DEF AtLeast
  <1> QED BY <1>1, <1>2

\* Settling a read with a value fit for its key keeps the facts of all reads.
LEMMA SettleAnswers ==
  ASSUME CacheInv, NEW r \in Readers, Keyed(r), reader[r] # "joined",
         NEW value \in Nat, AtLeast(ver[r], want[r], value),
         Settle(r, "answered", value),
         UNCHANGED <<version, bumps, want, ver, began>>
  PROVE  ReadFacts'
  <1> SUFFICES ASSUME NEW q \in Readers PROVE ReadFact(q)'
    BY DEF ReadFacts
  <1>1. CASE q \in Waiting(r)
    <2>1. Keyed(q) /\ SameKey(q, r)
      BY <1>1 DEF Waiting, CacheInv, ReadFacts, ReadFact, SameKey, Keyed
    <2>2. AtLeast(began[q], want[q], value)
      BY <2>1, KeyedIsEnough DEF SameKey
    <2>3. reader'[q] = "answered" /\ got'[q] = value
      BY <1>1 DEF Settle
    <2> QED
      BY <2>2, <2>3 DEF ReadFact, Keyed, AtLeast, CacheInv, ReadFacts
  <1>2. CASE q \notin Waiting(r)
    <2>1. reader'[q] = reader[q] /\ got'[q] = got[q] /\ lead'[q] = lead[q]
      BY <1>2 DEF Settle
    <2>2. ASSUME reader[q] = "joined"
          PROVE  lead[q] \in Readers /\ (Leads(lead[q]) /\ SameKey(lead[q], q))'
      <3>1. lead[q] \in Readers /\ Leads(lead[q]) /\ SameKey(lead[q], q) /\ lead[q] # r
        BY <1>2, <2>2 DEF CacheInv, ReadFacts, ReadFact, Waiting
      <3>2. lead[q] \notin Waiting(r)
        BY <3>1 DEF Waiting, Leads
      <3> QED BY <2>1, <3>1, <3>2 DEF Settle, Leads, SameKey
    <2> QED
      BY <2>1, <2>2 DEF ReadFact, ReadFacts, CacheInv, Keyed, AtLeast, KnownVersion
  <1> QED BY <1>1, <1>2

\* A step that leaves the bumps and the version alone and moves no read.
LEMMA ReadsUntouched ==
  ASSUME CacheInv, UNCHANGED <<readerVars, bumps, version>>
  PROVE  ReadFacts'
  BY DEF CacheInv, ReadFacts, ReadFact, Keyed, Leads, SameKey, AtLeast, KnownVersion,
         readerVars

\* One read moves on, and is not one that others wait for or no longer leads.
LEMMA OneReadMoves ==
  ASSUME CacheInv, NEW r \in Readers,
         \A q \in Readers \ {r} :
           /\ reader'[q] = reader[q] /\ got'[q] = got[q] /\ lead'[q] = lead[q]
           /\ ver'[q] = ver[q] /\ want'[q] = want[q] /\ began'[q] = began[q],
         UNCHANGED <<bumps, version>>,
         Leads(r) => Leads(r)' /\ want'[r] = want[r] /\ ver'[r] = ver[r],
         ReadFact(r)'
  PROVE  ReadFacts'
  <1> SUFFICES ASSUME NEW q \in Readers \ {r} PROVE ReadFact(q)'
    BY DEF ReadFacts
  <1>1. ASSUME reader[q] = "joined"
        PROVE  lead[q] \in Readers /\ (Leads(lead[q]) /\ SameKey(lead[q], q))'
    <2>1. lead[q] \in Readers /\ Leads(lead[q]) /\ SameKey(lead[q], q)
      BY <1>1 DEF CacheInv, ReadFacts, ReadFact
    <2>2. CASE lead[q] = r
      BY <2>1, <2>2 DEF SameKey
    <2>3. CASE lead[q] # r
      BY <2>1, <2>3 DEF SameKey, Leads
    <2> QED BY <2>2, <2>3
  <1> QED
    BY <1>1 DEF CacheInv, ReadFacts, ReadFact, Keyed, AtLeast, KnownVersion

-----------------------------------------------------------------------------

\* What a step can do to each part of the invariant: the types first.
LEMMA TypeStep == CacheInv /\ [Next]_vars => TypeOK'
  <1> SUFFICES ASSUME CacheInv, [Next]_vars PROVE TypeOK'
    OBVIOUS
  <1>0. TypeOK
    BY DEF CacheInv
  <1> USE <1>0 DEF TypeOK, WriterSteps, ReaderSteps, cacheVars, writerVars, readerVars
  <1>1. ASSUME NEW w \in Writers, NEW i \in Ids, Commit(w, i) PROVE TypeOK'
    BY <1>1 DEF Commit, WriterAt
  <1>2. ASSUME NEW w \in Writers, ListKeys(w) PROVE TypeOK'
    BY <1>2 DEF ListKeys, WriterAt
  <1>3. ASSUME NEW w \in Writers, DeleteKeys(w) PROVE TypeOK'
    BY <1>3 DEF DeleteKeys, WriterAt
  <1>4. ASSUME NEW w \in Writers, Bump(w) PROVE TypeOK'
    BY <1>4 DEF Bump, WriterAt
  <1>5. ASSUME NEW w \in Writers, Abandon(w) PROVE TypeOK'
    BY <1>5 DEF Abandon
  <1>6. ASSUME NEW r \in Readers, NEW i \in Ids, StartRead(r, i) PROVE TypeOK'
    BY <1>6 DEF StartRead, ReaderAt
  <1>7. ASSUME NEW r \in Readers, GetVersion(r) PROVE TypeOK'
    BY <1>7 DEF GetVersion, ReaderAt, KnownVersion
  <1>8. ASSUME NEW r \in Readers, Join(r) PROVE TypeOK'
    BY <1>8 DEF Join, InFlight, ReaderAt
  <1>9. ASSUME NEW r \in Readers, Lead(r) \/ Bypass(r) \/ Miss(r) PROVE TypeOK'
    <2>1. CASE Lead(r)
      BY <2>1 DEF Lead, ReaderAt
    <2>2. CASE Bypass(r)
      BY <2>2 DEF Bypass, ReaderAt
    <2>3. CASE Miss(r)
      BY <2>3 DEF Miss, ReaderAt
    <2> QED BY <1>9, <2>1, <2>2, <2>3
  <1>10. ASSUME NEW r \in Readers, Hit(r) PROVE TypeOK'
    <2>1. PICK t \in store : Settle(r, "answered", t[3])
      BY <1>10 DEF Hit
    <2>2. t[3] \in Nat
      OBVIOUS
    <2> QED BY <1>10, <2>1, <2>2 DEF Hit, Settle
  <1>11. ASSUME NEW r \in Readers, Compute(r) PROVE TypeOK'
    BY <1>11 DEF Compute, ReaderAt
  <1>12. ASSUME NEW r \in Readers, WriteBack(r) PROVE TypeOK'
    <2>1. ver[r] \in Nat \ {0}
      BY <1>12 DEF WriteBack, CacheInv, ReadFacts, ReadFact, Keyed
    <2>2. store' \subseteq Ids \X (Nat \ {0}) \X Nat
      BY <1>12, <2>1 DEF WriteBack, KeyOf
    <2> QED BY <1>12, <2>2 DEF WriteBack, Settle
  <1>13. ASSUME NEW r \in Readers, ReadFails(r) PROVE TypeOK'
    BY <1>13 DEF ReadFails, Settle, Forget
  <1>14. ASSUME NEW r \in Readers, Return(r) PROVE TypeOK'
    BY <1>14 DEF Return, ReaderAt, Forget
  <1>15. ASSUME NEW i \in Ids, NEW v \in Versions, Evict(i, v) PROVE TypeOK'
    BY <1>15 DEF Evict
  <1>16. CASE UNCHANGED vars
    BY <1>16 DEF vars
  <1>17. ASSUME NEW i \in Ids, Drift(i) PROVE TypeOK'
    BY <1>17 DEF Drift
  <1> QED
    BY <1>1, <1>2, <1>3, <1>4, <1>5, <1>6, <1>7, <1>8, <1>9, <1>10, <1>11, <1>12,
       <1>13, <1>14, <1>15, <1>16, <1>17 DEF Next, Write, Read, Progress

\* The database only grows, and a bump takes it as it is.
LEMMA BumpStep == CacheInv /\ [Next]_vars => BumpFacts'
  <1> SUFFICES ASSUME CacheInv, [Next]_vars PROVE BumpFacts'
    OBVIOUS
  <1>0. TypeOK /\ BumpFacts
    BY DEF CacheInv
  <1>1. ASSUME NEW w \in Writers, NEW i \in Ids, Commit(w, i) PROVE BumpFacts'
    BY <1>0, <1>1 DEF Commit, BumpFacts, TypeOK
  <1>2. ASSUME NEW w \in Writers, Bump(w) PROVE BumpFacts'
    <2>1. bumps' = Append(bumps, db) /\ db' = db
      BY <1>2 DEF Bump
    <2>2. SUFFICES ASSUME NEW n \in 1..Len(bumps'), NEW i \in Ids
                   PROVE  /\ bumps'[n][i] <= db[i]
                          /\ \A m \in 1..n : bumps'[m][i] <= bumps'[n][i]
      BY <2>1 DEF BumpFacts
    <2>3. CASE n = Len(bumps) + 1
      <3>1. bumps'[n] = db /\ db[i] \in Nat
        BY <1>0, <2>1, <2>3 DEF TypeOK
      <3>2. \A m \in 1..Len(bumps) : bumps'[m] = bumps[m] /\ bumps[m][i] <= db[i]
        BY <1>0, <2>1 DEF TypeOK, BumpFacts
      <3>3. ASSUME NEW m \in 1..n PROVE bumps'[m][i] <= db[i]
        <4>1. m \in 1..Len(bumps) \/ m = n
          BY <1>0, <2>3 DEF TypeOK
        <4> QED BY <3>1, <3>2, <4>1
      <3>4. bumps'[n][i] = db[i] /\ db[i] <= db[i]
        BY <3>1
      <3> QED BY <3>3, <3>4
    <2>4. CASE n \in 1..Len(bumps)
      <3>1. \A m \in 1..n : bumps'[m] = bumps[m]
        BY <1>0, <2>1, <2>4 DEF TypeOK
      <3> QED BY <1>0, <2>4, <3>1 DEF BumpFacts
    <2> QED BY <1>0, <2>1, <2>3, <2>4 DEF TypeOK
  <1>3. ASSUME UNCHANGED <<db, bumps>> PROVE BumpFacts'
    BY <1>0, <1>3 DEF BumpFacts
  <1>4. ASSUME NEW i \in Ids, Drift(i) PROVE BumpFacts'
    BY <1>0, <1>4 DEF Drift, BumpFacts, TypeOK
  <1> QED
    BY <1>1, <1>2, <1>3, <1>4
    DEF Next, Write, Read, Progress, ListKeys, DeleteKeys, Abandon, StartRead, GetVersion,
        Join, Lead, Bypass, Hit, Miss, Compute, WriteBack, ReadFails, Return, Evict, vars

\* Only a write back adds an entry, and it adds what its key allows.
LEMMA StoreStep == CacheInv /\ [Next]_vars => StoreFacts'
  <1> SUFFICES ASSUME CacheInv, [Next]_vars PROVE StoreFacts'
    OBVIOUS
  <1>0. TypeOK /\ StoreFacts
    BY DEF CacheInv
  <1>1. ASSUME store' \subseteq store, UNCHANGED <<version, bumps>> PROVE StoreFacts'
    BY <1>0, <1>1 DEF StoreFacts, AtLeast, KnownVersion
  <1>2. ASSUME NEW w \in Writers, Bump(w) PROVE StoreFacts'
    <2>1. bumps' = Append(bumps, db) /\ version' = version + 1 /\ store' = store
      BY <1>2 DEF Bump
    <2> SUFFICES ASSUME NEW t \in store PROVE (t[2] <= KnownVersion /\ AtLeast(t[2], t[1], t[3]))'
      BY <2>1 DEF StoreFacts
    <2>2. t[2] \in Nat /\ t[2] <= KnownVersion /\ AtLeast(t[2], t[1], t[3])
      BY <1>0 DEF StoreFacts, TypeOK
    <2>3. t[2] <= KnownVersion'
      BY <1>0, <2>1, <2>2 DEF KnownVersion, TypeOK
    <2>4. t[2] >= 2 => t[2] \in 1..Len(bumps)
      BY <1>0, <2>2 DEF KnownVersion, TypeOK
    <2>5. \A n \in 1..Len(bumps) : bumps'[n] = bumps[n]
      BY <1>0, <2>1 DEF TypeOK
    <2> QED BY <2>2, <2>3, <2>4, <2>5 DEF AtLeast
  <1>3. ASSUME NEW r \in Readers, WriteBack(r) PROVE StoreFacts'
    <2>1. ver[r] <= KnownVersion /\ AtLeast(ver[r], want[r], got[r])
      BY <1>0, <1>3, KnownVersionIs DEF WriteBack, CacheInv, ReadFacts, ReadFact, Keyed
    <2>2. \A t \in store' : t \in store \/ t = <<want[r], ver[r], got[r]>>
      BY <1>3 DEF WriteBack, KeyOf
    <2>3. UNCHANGED <<version, bumps>>
      BY <1>3 DEF WriteBack
    <2> QED BY <1>0, <2>1, <2>2, <2>3 DEF StoreFacts, AtLeast, KnownVersion
  <1> QED
    BY <1>1, <1>2, <1>3
    DEF Next, Write, Read, Progress, Drift, Commit, ListKeys, DeleteKeys, Abandon, StartRead,
        GetVersion, Join, Lead, Bypass, Hit, Miss, Compute, ReadFails, Return, Evict,
        vars, cacheVars

\* Reads move on with values fit for the key they have built.
LEMMA ReadStep == CacheInv /\ [Next]_vars => ReadFacts'
  <1> SUFFICES ASSUME CacheInv, [Next]_vars PROVE ReadFacts'
    OBVIOUS
  <1>0. TypeOK /\ BumpFacts /\ StoreFacts /\ \A r \in Readers : ReadFact(r)
    BY DEF CacheInv, ReadFacts
  <1>1. ASSUME NEW w \in Writers, Bump(w) PROVE ReadFacts'
    <2>1. /\ bumps' = Append(bumps, db) /\ version' = version + 1
          /\ UNCHANGED readerVars
      BY <1>1 DEF Bump
    <2> SUFFICES ASSUME NEW r \in Readers PROVE ReadFact(r)'
      BY DEF ReadFacts
    <2>2. Len(bumps) \in Nat /\ Len(bumps') = Len(bumps) + 1
          /\ \A n \in 1..Len(bumps) : bumps'[n] = bumps[n]
      BY <1>0, <2>1 DEF TypeOK
    <2>3. KnownVersion \in Nat /\ KnownVersion' \in Nat /\ KnownVersion <= KnownVersion'
          /\ (KnownVersion >= 2 => KnownVersion = Len(bumps))
      BY <1>0, <2>1 DEF KnownVersion, TypeOK
    <2>4. ReadFact(r) /\ began[r] \in Nat /\ ver[r] \in Nat
      BY <1>0 DEF TypeOK
    <2>5. /\ reader' = reader /\ want' = want /\ ver' = ver /\ got' = got
          /\ lead' = lead /\ began' = began
      BY <2>1 DEF readerVars
    <2>6. Keyed(r) => ver[r] \in 1..KnownVersion' /\ (ver[r] >= 2 => ver[r] \in 1..Len(bumps))
      BY <2>2, <2>3, <2>4 DEF ReadFact
    <2>7. reader[r] = "write" => AtLeast(ver[r], want[r], got[r])'
      <3> SUFFICES ASSUME reader[r] = "write", ver[r] >= 2
                   PROVE  got[r] >= bumps'[ver[r]][want[r]]
        BY <2>5 DEF AtLeast
      <3>1. bumps'[ver[r]] = bumps[ver[r]]
        BY <2>2, <2>6 DEF Keyed
      <3> QED BY <2>4, <3>1 DEF ReadFact, AtLeast
    <2>8. reader[r] = "answered" => AtLeast(began[r], want[r], got[r])'
      <3> SUFFICES ASSUME reader[r] = "answered", began[r] >= 2
                   PROVE  got[r] >= bumps'[began[r]][want[r]]
        BY <2>5 DEF AtLeast
      <3>1. bumps'[began[r]] = bumps[began[r]]
        BY <2>2, <2>4 DEF ReadFact
      <3> QED BY <2>4, <3>1 DEF ReadFact, AtLeast
    <2>9. began'[r] <= Len(bumps')
      BY <2>2, <2>4, <2>5 DEF ReadFact
    <2>10. (Keyed(r) => ver[r] \in 1..KnownVersion /\ began[r] <= ver[r])'
      BY <2>4, <2>5, <2>6 DEF ReadFact, Keyed
    <2>11. (reader[r] = "joined" =>
              lead[r] \in Readers /\ Leads(lead[r]) /\ SameKey(lead[r], r))'
      BY <2>4, <2>5 DEF ReadFact, Leads, SameKey
    <2> QED
      BY <2>5, <2>7, <2>8, <2>9, <2>10, <2>11 DEF ReadFact
  <1>2. ASSUME NEW r \in Readers, NEW i \in Ids, StartRead(r, i) PROVE ReadFacts'
    <2>1. ReadFact(r)'
      BY <1>0, <1>2 DEF StartRead, ReaderAt, ReadFact, Keyed, TypeOK
    <2> QED
      BY <1>0, <1>2, <2>1, OneReadMoves
      DEF StartRead, ReaderAt, Leads, TypeOK, cacheVars
  <1>3. ASSUME NEW r \in Readers, GetVersion(r) PROVE ReadFacts'
    <2>1. ReadFact(r)'
      BY <1>0, <1>3, KnownVersionIs
      DEF GetVersion, ReaderAt, ReadFact, Keyed, TypeOK, KnownVersion, cacheVars
    <2> QED
      BY <1>0, <1>3, <2>1, OneReadMoves DEF GetVersion, ReaderAt, Leads, TypeOK, cacheVars
  <1>4. ASSUME NEW r \in Readers, Join(r) PROVE ReadFacts'
    <2>1. PICK q \in InFlight(r) : lead' = [lead EXCEPT ![r] = q]
      BY <1>4 DEF Join
    <2>2. q \in Readers /\ Leads(q) /\ SameKey(q, r) /\ q # r
      BY <1>4, <2>1 DEF InFlight, Leads, Join, ReaderAt
    <2>3. lead'[r] = q /\ (Leads(q) /\ SameKey(q, r))'
      BY <1>0, <1>4, <2>1, <2>2 DEF Join, ReaderAt, Leads, SameKey, TypeOK
    <2>4. ReadFact(r)'
      BY <1>0, <1>4, <2>2, <2>3
      DEF Join, ReaderAt, ReadFact, Keyed, TypeOK, KnownVersion, cacheVars
    <2> QED
      BY <1>0, <1>4, <2>4, OneReadMoves DEF Join, ReaderAt, Leads, TypeOK, cacheVars
  <1>5. ASSUME NEW r \in Readers, Lead(r) PROVE ReadFacts'
    <2>1. ReadFact(r)'
      BY <1>0, <1>5 DEF Lead, ReaderAt, ReadFact, Keyed, TypeOK, KnownVersion, cacheVars
    <2> QED
      BY <1>0, <1>5, <2>1, OneReadMoves DEF Lead, ReaderAt, Leads, TypeOK, cacheVars
  <1>6. ASSUME NEW r \in Readers, Bypass(r) \/ Miss(r) PROVE ReadFacts'
    <2>1. ReadFact(r)'
      BY <1>0, <1>6
      DEF Bypass, Miss, ReaderAt, ReadFact, Keyed, TypeOK, KnownVersion, cacheVars
    <2> QED
      BY <1>0, <1>6, <2>1, OneReadMoves
      DEF Bypass, Miss, ReaderAt, Leads, TypeOK, cacheVars
  <1>7. ASSUME NEW r \in Readers, Hit(r) PROVE ReadFacts'
    <2>1. PICK t \in store : t[1] = want[r] /\ t[2] = ver[r] /\ Settle(r, "answered", t[3])
      BY <1>7 DEF Hit
    <2>2. t[3] \in Nat /\ AtLeast(ver[r], want[r], t[3])
      BY <1>0, <2>1 DEF StoreFacts, TypeOK
    <2> QED
      BY <1>7, <2>1, <2>2, SettleAnswers DEF Hit, Keyed, cacheVars
  <1>8. ASSUME NEW r \in Readers, Compute(r) PROVE ReadFacts'
    <2>1. ver[r] \in Nat /\ (ver[r] >= 2 => ver[r] \in 1..Len(bumps))
      <3>1. reader[r] = "compute" /\ ver[r] \in Nat
        BY <1>0, <1>8 DEF Compute, ReaderAt, TypeOK
      <3>2. ver[r] \in 1..KnownVersion
        BY <1>0, <3>1 DEF ReadFact, Keyed
      <3>3. KnownVersion \in Nat /\ (KnownVersion >= 2 => KnownVersion = Len(bumps))
        BY <1>0, KnownVersionIs
      <3> QED BY <3>1, <3>2, <3>3
    <2>2. AtLeast(ver[r], want[r], db[want[r]])
      BY <1>0, <2>1 DEF BumpFacts, AtLeast, TypeOK
    <2>3. ReadFact(r)'
      BY <1>0, <1>8, <2>2
      DEF Compute, ReaderAt, ReadFact, Keyed, TypeOK, KnownVersion, AtLeast, cacheVars
    <2> QED
      BY <1>0, <1>8, <2>3, OneReadMoves DEF Compute, ReaderAt, Leads, TypeOK, cacheVars
  <1>9. ASSUME NEW r \in Readers, WriteBack(r) PROVE ReadFacts'
    <2>1. got[r] \in Nat /\ AtLeast(ver[r], want[r], got[r])
      BY <1>0, <1>9 DEF WriteBack, ReadFact, TypeOK
    <2> QED
      BY <1>9, <2>1, SettleAnswers DEF WriteBack, Keyed
  <1>10. ASSUME NEW r \in Readers, ReadFails(r) PROVE ReadFacts'
    <2> SUFFICES ASSUME NEW q \in Readers PROVE ReadFact(q)'
      BY DEF ReadFacts
    <2>1. CASE q \in Waiting(r)
      BY <1>0, <1>10, <2>1 DEF ReadFails, Settle, Forget, ReadFact, Keyed, TypeOK
    <2>2. CASE q \notin Waiting(r)
      <3>1. /\ reader'[q] = reader[q] /\ got'[q] = got[q] /\ lead'[q] = lead[q]
            /\ ver'[q] = ver[q] /\ began'[q] = began[q] /\ want'[q] = want[q]
        BY <1>10, <2>2 DEF ReadFails, Settle, Forget
      <3>2. ASSUME reader[q] = "joined"
            PROVE  lead[q] \in Readers /\ (Leads(lead[q]) /\ SameKey(lead[q], q))'
        <4>1. lead[q] \in Readers /\ Leads(lead[q]) /\ SameKey(lead[q], q) /\ lead[q] # r
          BY <1>0, <2>2, <3>2 DEF ReadFact, Waiting
        <4>2. lead[q] \notin Waiting(r)
          BY <4>1 DEF Waiting, Leads
        <4> QED BY <1>10, <3>1, <4>1, <4>2 DEF ReadFails, Settle, Forget, Leads, SameKey
      <3> QED
        BY <1>0, <1>10, <3>1, <3>2
        DEF ReadFails, ReadFact, Keyed, AtLeast, KnownVersion, cacheVars
    <2> QED BY <2>1, <2>2
  <1>11. ASSUME NEW r \in Readers, Return(r) PROVE ReadFacts'
    <2>1. ReadFact(r)'
      BY <1>0, <1>11 DEF Return, ReaderAt, Forget, ReadFact, Keyed, TypeOK
    <2> QED
      BY <1>0, <1>11, <2>1, OneReadMoves
      DEF Return, ReaderAt, Forget, Leads, TypeOK, cacheVars
  <1>12. ASSUME UNCHANGED <<readerVars, bumps, version>> PROVE ReadFacts'
    BY <1>12, ReadsUntouched
  <1> QED
    BY <1>1, <1>2, <1>3, <1>4, <1>5, <1>6, <1>7, <1>8, <1>9, <1>10, <1>11, <1>12
    DEF Next, Write, Read, Progress, Drift, Commit, ListKeys, DeleteKeys, Abandon, Evict, vars,
        cacheVars

LEMMA NextInv == CacheInv /\ [Next]_vars => CacheInv'
  BY TypeStep, BumpStep, StoreStep, ReadStep DEF CacheInv

\* The cache stays in its types for any number of entities, readers and writers.
THEOREM TypeCorrect == Spec => []TypeOK
  <1>1. CacheInv => TypeOK
    BY DEF CacheInv
  <1> QED BY InitInv, NextInv, <1>1, PTL DEF Spec

\* No read that started after a bump of the prefix, the first excepted, is
\* answered with something older, whatever fills, shared promises and broken
\* invalidations were under way.
THEOREM NothingBehindABump == Spec => []LaterBumpsInvalidate
  <1>1. CacheInv => LaterBumpsInvalidate
    BY DEF CacheInv, ReadFacts, ReadFact, AtLeast, LaterBumpsInvalidate, NotOlderThanBump
  <1> QED BY InitInv, NextInv, <1>1, PTL DEF Spec
=============================================================================
