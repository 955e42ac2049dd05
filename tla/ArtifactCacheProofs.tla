------------------------- MODULE ArtifactCacheProofs ------------------------
(* The artifact cache, for any number of requests, paths and artifacts and  *)
(* any budget: its single flight, the counts of its readers, the lock of    *)
(* its evictions and, when requests come one at a time, its books.          *)
EXTENDS ArtifactCache, FiniteSetTheorems, SequenceTheorems, TLAPS

-----------------------------------------------------------------------------
(* The shape of the state.  What a request carries besides stage, path and  *)
(* artifact does not matter here; it is only said to be there.              *)
Fields(q) ==
    q = [stage |-> q.stage, path |-> q.path, leader |-> q.leader,
         known |-> q.known, got |-> q.got, answer |-> q.answer,
         used |-> q.used, todo |-> q.todo]

Shape ==
    /\ req = [r \in Requests |-> req[r]]
    /\ \A r \in Requests : Fields(req[r])
    /\ inflight = [p \in Paths |-> inflight[p]]

(* q is a request in stage s on path p with artifact g.                     *)
Is(q, s, p, g) == Fields(q) /\ q.stage = s /\ q.path = p /\ q.got = g

(* The request r becomes such a one, and the others stay as they are.       *)
Becomes(r, q)     == req' = [f \in Requests |-> IF f = r THEN q ELSE req[f]]
Turns(r, s, p, g) == \E q : Is(q, s, p, g) /\ Becomes(r, q)

LEMMA FieldSet ==
  ASSUME NEW q, NEW s, NEW p, NEW g, Is(q, s, p, g), NEW z
  PROVE  /\ Is([q EXCEPT !.stage = z], z, p, g)
         /\ Is([q EXCEPT !.path = z], s, z, g)
         /\ Is([q EXCEPT !.got = z], s, p, z)
         /\ Is([q EXCEPT !.leader = z], s, p, g)
         /\ Is([q EXCEPT !.known = z], s, p, g)
         /\ Is([q EXCEPT !.answer = z], s, p, g)
         /\ Is([q EXCEPT !.used = z], s, p, g)
         /\ Is([q EXCEPT !.todo = z], s, p, g)
<1> USE DEF Is, Fields
<1>1. Is([q EXCEPT !.stage = z], z, p, g)
  OBVIOUS
<1>2. Is([q EXCEPT !.path = z], s, z, g)
  OBVIOUS
<1>3. Is([q EXCEPT !.got = z], s, p, z)
  OBVIOUS
<1>4. Is([q EXCEPT !.leader = z], s, p, g)
  OBVIOUS
<1>5. Is([q EXCEPT !.known = z], s, p, g)
  OBVIOUS
<1>6. Is([q EXCEPT !.answer = z], s, p, g)
  OBVIOUS
<1>7. Is([q EXCEPT !.used = z], s, p, g)
  OBVIOUS
<1>8. Is([q EXCEPT !.todo = z], s, p, g)
  OBVIOUS
<1> QED
  BY <1>1, <1>2, <1>3, <1>4, <1>5, <1>6, <1>7, <1>8

(* The ways in which the actions update a request.                          *)
LEMMA Turning ==
  ASSUME Shape, NEW r \in Requests, NEW s, NEW p, NEW d, NEW a, NEW u, NEW t
  PROVE  /\ Goto(r, s) => Turns(r, s, req[r].path, req[r].got)
         /\ req' = [req EXCEPT ![r].stage = s, ![r].got = d, ![r].answer = a]
              => Turns(r, s, req[r].path, d)
         /\ req' = [req EXCEPT ![r].stage = s, ![r].used = u, ![r].todo = t]
              => Turns(r, s, req[r].path, req[r].got)
         /\ req' = [req EXCEPT ![r].stage = s, ![r].todo = t]
              => Turns(r, s, req[r].path, req[r].got)
         /\ req' = [req EXCEPT ![r].todo = t]
              => Turns(r, req[r].stage, req[r].path, req[r].got)
         /\ req' = [req EXCEPT ![r].stage = s, ![r].known = t, ![r].leader = a]
              => Turns(r, s, req[r].path, req[r].got)
         /\ Over(r) => Turns(r, "finish", req[r].path, None)
         /\ req' = [req EXCEPT ![r] = NoReq] => Turns(r, "idle", None, None)
         /\ req' = [req EXCEPT ![r] = [NoReq EXCEPT !.stage = s, !.path = p,
                                                    !.leader = a]]
              => Turns(r, s, p, None)
<1> DEFINE q == req[r]
<1>1. Is(q, q.stage, q.path, q.got) /\ Is(NoReq, "idle", None, None)
  BY DEF Shape, Is, Fields, NoReq
<1>2. \A n : req' = [req EXCEPT ![r] = n] => Becomes(r, n)
  BY DEF Shape, Becomes
<1>3. Is([q EXCEPT !.stage = s], s, q.path, q.got)
  BY <1>1, FieldSet
<1>4. Goto(r, s) => Turns(r, s, q.path, q.got)
  BY <1>2, <1>3 DEF Goto, Turns
<1>5. Is([q EXCEPT !.stage = s, !.got = d], s, q.path, d)
  BY <1>3, FieldSet
<1>6. Is([q EXCEPT !.stage = s, !.got = d, !.answer = a], s, q.path, d)
  BY <1>5, FieldSet
<1>7. Is([q EXCEPT !.stage = s, !.used = u], s, q.path, q.got)
  BY <1>3, FieldSet
<1>8. Is([q EXCEPT !.stage = s, !.used = u, !.todo = t], s, q.path, q.got)
  BY <1>7, FieldSet
<1>9. Is([q EXCEPT !.stage = s, !.todo = t], s, q.path, q.got)
  BY <1>3, FieldSet
<1>10. Is([q EXCEPT !.todo = t], q.stage, q.path, q.got)
  BY <1>1, FieldSet
<1>11. Is([q EXCEPT !.stage = s, !.known = t], s, q.path, q.got)
  BY <1>3, FieldSet
<1>12. Is([q EXCEPT !.stage = s, !.known = t, !.leader = a], s, q.path, q.got)
  BY <1>11, FieldSet
<1>13. Is([NoReq EXCEPT !.stage = "finish"], "finish", None, None)
       /\ Is([NoReq EXCEPT !.stage = s], s, None, None)
  BY <1>1, FieldSet
<1>14. Is([NoReq EXCEPT !.stage = "finish", !.path = q.path], "finish", q.path, None)
       /\ Is([NoReq EXCEPT !.stage = s, !.path = p], s, p, None)
  BY <1>13, FieldSet
<1>15. Is([NoReq EXCEPT !.stage = s, !.path = p, !.leader = a], s, p, None)
  BY <1>14, FieldSet
<1>16. Over(r) => Turns(r, "finish", q.path, None)
  BY <1>2, <1>14 DEF Over, Turns
<1>17. /\ req' = [req EXCEPT ![r] = NoReq] => Turns(r, "idle", None, None)
       /\ req' = [req EXCEPT ![r] = [NoReq EXCEPT !.stage = s, !.path = p,
                                                  !.leader = a]]
            => Turns(r, s, p, None)
  BY <1>1, <1>2, <1>15 DEF Turns
<1>18. req' = [req EXCEPT ![r].stage = s, ![r].got = d, ![r].answer = a]
         => Turns(r, s, q.path, d)
  BY <1>6 DEF Turns, Becomes, Shape
<1>19. req' = [req EXCEPT ![r].stage = s, ![r].used = u, ![r].todo = t]
         => Turns(r, s, q.path, q.got)
  BY <1>8 DEF Turns, Becomes, Shape
<1>20. req' = [req EXCEPT ![r].stage = s, ![r].todo = t] => Turns(r, s, q.path, q.got)
  BY <1>9 DEF Turns, Becomes, Shape
<1>21. req' = [req EXCEPT ![r].todo = t] => Turns(r, q.stage, q.path, q.got)
  BY <1>10 DEF Turns, Becomes, Shape
<1>22. req' = [req EXCEPT ![r].stage = s, ![r].known = t, ![r].leader = a]
         => Turns(r, s, q.path, q.got)
  BY <1>12 DEF Turns, Becomes, Shape
<1> QED
  BY <1>4, <1>16, <1>17, <1>18, <1>19, <1>20, <1>21, <1>22

-----------------------------------------------------------------------------
(* The invariants.                                                          *)
OnPath == \A r \in Requests : ~At(r, "idle") => req[r].path \in Paths

(* Who fills a path has its inflight entry.                                 *)
FillerLeads ==
    \A r \in Requests : req[r].stage \in Filling => inflight[req[r].path] = r

FlightInv == Shape /\ OnPath /\ FillerLeads /\ EntryHasLeader

(* What a request stores or reads is an artifact.                           *)
Holding == {"reserve", "evict", "remove", "settle", "stream", "commit", "rename",
            "count", "index", "read"}

Artifacts ==
    /\ blobs \subseteq Digests
    /\ refcounts \in [Digests -> Nat]
    /\ upstream \in [Paths -> Digests]
    /\ \A r \in Requests : req[r].stage \in Holding => req[r].got \in Digests

CacheInv == FlightInv /\ Artifacts /\ ReadersCounted

LEMMA CacheInit == Init => CacheInv
<1> SUFFICES ASSUME Init PROVE CacheInv
  OBVIOUS
<1>1. \A r \in Requests : req[r] = NoReq
  BY DEF Init
<1>2. FlightInv
  BY <1>1, CacheAssumption
     DEF Init, NoReq, FlightInv, Shape, Fields, OnPath, FillerLeads, EntryHasLeader,
         At, Filling
<1>3. Artifacts
  BY <1>1 DEF Init, NoReq, Artifacts, Holding
<1>4. ReadersCounted
  <2> SUFFICES ASSUME NEW d \in Digests
               PROVE  0 >= Cardinality({r \in Requests : At(r, "read") /\ req[r].got = d})
    BY DEF Init, ReadersCounted
  <2>1. {r \in Requests : At(r, "read") /\ req[r].got = d} = {}
    BY <1>1 DEF At, NoReq
  <2> QED
    BY <2>1, FS_EmptySet
<1> QED
  BY <1>2, <1>3, <1>4 DEF CacheInv

-----------------------------------------------------------------------------
(* Steps.  What a step of a filling request, but for the reading of a blob  *)
(* and the end, comes to.                                                   *)
Proceeds(r) ==
    /\ req[r].stage \in Filling \ {"read"}
    /\ UNCHANGED <<inflight, refcounts, upstream>>
    /\ blobs' \subseteq Digests
    /\ \E s \in Filling \ {"read"} : \E g :
        /\ Turns(r, s, req[r].path, g)
        /\ s \in Holding => g \in Digests

LEMMA FillProceeds ==
  ASSUME CacheInv, NEW r \in Requests, Fill(r), ~Finish(r), ~ReadBlob(r),
         ~(ServeBlob(r) /\ req[r].got \in blobs)
  PROVE  Proceeds(r)
<1> Shape /\ Artifacts
  BY DEF CacheInv, FlightInv
<1> DEFINE Alike == UNCHANGED <<inflight, refcounts, upstream>> /\ blobs' = blobs
<1>a. req[r].stage \in Filling => req[r].path \in Paths
  BY DEF CacheInv, FlightInv, OnPath, At, Filling
<1>b. UNCHANGED <<cache, upstream>> => Alike
  BY DEF cache, store, flight
<1> USE DEF At, Filling, Stages, Holding, Artifacts
<1>1. CASE NotModified(r)
  <2>1. PICK d, a : req' = [req EXCEPT ![r].stage = "serve", ![r].got = d, ![r].answer = a]
    BY <1>1, Zenon DEF NotModified
  <2>2. Turns(r, "serve", req[r].path, d)
    BY <2>1, Turning
  <2> QED
    BY <1>1, <1>b, <2>2 DEF NotModified, Proceeds
<1>2. CASE Sized(r)
  <2> DEFINE d == upstream[req[r].path]
  <2>1. d \in Digests /\ req[r].stage = "fetch" /\ Alike
    BY <1>2, <1>a, <1>b DEF Sized
  <2>2. Turns(r, "reserve", req[r].path, d) \/ Turns(r, "finish", req[r].path, None)
    BY <1>2, Turning DEF Sized
  <2> QED
    BY <2>1, <2>2 DEF Proceeds
<1>3. CASE Unsized(r)
  <2> DEFINE d == upstream[req[r].path]
  <2>1. d \in Digests /\ req[r].stage = "fetch" /\ Alike
    BY <1>3, <1>a, <1>b DEF Unsized
  <2>2. Turns(r, "stream", req[r].path, d)
    BY <1>3, Turning DEF Unsized
  <2> QED
    BY <2>1, <2>2 DEF Proceeds
<1>4. CASE FetchFails(r) \/ StreamFails(r) \/ (ServeBlob(r) /\ req[r].got \notin blobs)
  <2>1. Over(r) /\ Alike /\ req[r].stage \in {"fetch", "stream", "rename", "serve"}
    BY <1>4, <1>b DEF FetchFails, StreamFails, ServeBlob, flight
  <2>2. Turns(r, "finish", req[r].path, None)
    BY <2>1, Turning
  <2> QED
    BY <2>1, <2>2 DEF Proceeds
<1>5. CASE Reserve(r)
  <2>1. req[r].stage = "reserve" /\ Alike
    BY <1>5 DEF Reserve, store
  <2>2. \/ Turns(r, "stream", req[r].path, req[r].got)
        \/ Turns(r, "evict", req[r].path, req[r].got)
    BY <1>5, Turning, Zenon DEF Reserve
  <2> QED
    BY <2>1, <2>2 DEF Proceeds
<1>6. CASE EvictEnds(r)
  <2>1. req[r].stage = "evict" /\ Alike
    BY <1>6 DEF EvictEnds, store
  <2>2. Turns(r, "stream", req[r].path, req[r].got) \/ Turns(r, "finish", req[r].path, None)
    BY <1>6, Turning, Zenon DEF EvictEnds
  <2> QED
    BY <2>1, <2>2 DEF Proceeds
<1>7. CASE EvictNext(r)
  <2>1. req[r].stage = "evict" /\ Alike
    BY <1>7, <1>b DEF EvictNext
  <2>2. \/ Turns(r, "evict", req[r].path, req[r].got)
        \/ Turns(r, "remove", req[r].path, req[r].got)
    BY <1>7, Turning, Zenon DEF EvictNext
  <2> QED
    BY <2>1, <2>2 DEF Proceeds
<1>8. CASE EvictRemove(r)
  <2>1. req[r].stage = "remove" /\ UNCHANGED <<inflight, refcounts, upstream>>
        /\ blobs' \subseteq blobs
    BY <1>8 DEF EvictRemove, flight
  <2>2. \/ Turns(r, "evict", req[r].path, req[r].got)
        \/ Turns(r, "settle", req[r].path, req[r].got)
    BY <1>8, Turning, Zenon DEF EvictRemove
  <2> QED
    BY <2>1, <2>2 DEF Proceeds
<1>9. CASE EvictSettle(r)
  <2>1. req[r].stage = "settle" /\ Alike
    BY <1>9, Zenon DEF EvictSettle, flight
  <2>2. Turns(r, "evict", req[r].path, req[r].got)
    BY <1>9, Turning, Zenon DEF EvictSettle
  <2> QED
    BY <2>1, <2>2 DEF Proceeds
<1>10. CASE Streamed(r) \/ Commit(r) \/ Count(r)
  <2>1. req[r].stage \in {"stream", "commit", "count"} /\ Alike
    BY <1>10, <1>b DEF Streamed, Commit, Count, flight
  <2>2. \E s \in {"commit", "index", "rename"} : Turns(r, s, req[r].path, req[r].got)
    BY <1>10, Turning DEF Streamed, Commit, Count
  <2> QED
    BY <2>1, <2>2 DEF Proceeds
<1>11. CASE Rename(r)
  <2>1. req[r].stage = "rename" /\ UNCHANGED <<inflight, refcounts, upstream>>
        /\ blobs' = blobs \cup {req[r].got}
    BY <1>11 DEF Rename, flight
  <2>2. Turns(r, "count", req[r].path, req[r].got)
    BY <1>11, Turning DEF Rename
  <2> QED
    BY <2>1, <2>2 DEF Proceeds
<1>12. CASE IndexBlob(r)
  <2>1. req[r].stage = "index" /\ Alike /\ Over(r)
    BY <1>12, Zenon DEF IndexBlob, flight
  <2>2. Turns(r, "finish", req[r].path, None)
    BY <2>1, Turning
  <2> QED
    BY <2>1, <2>2 DEF Proceeds
<1> QED
  BY <1>1, <1>2, <1>3, <1>4, <1>5, <1>6, <1>7, <1>8, <1>9, <1>10, <1>11, <1>12, Zenon
  DEF Fill

-----------------------------------------------------------------------------
(* What each kind of step does to the invariants.                           *)
LEMMA ProceedsKept ==
  ASSUME FlightInv, Artifacts, NEW r \in Requests, Proceeds(r)
  PROVE  FlightInv' /\ Artifacts'
<1>1. PICK s, g, q :
          /\ s \in Filling \ {"read"}
          /\ Is(q, s, req[r].path, g) /\ Becomes(r, q)
          /\ s \in Holding => g \in Digests
  BY DEF Proceeds, Turns
<1>2. \A f \in Requests : req'[f] = IF f = r THEN q ELSE req[f]
  BY <1>1 DEF Becomes
<1>3. Shape'
  BY <1>1, <1>2 DEF FlightInv, Shape, Becomes, Proceeds, Is
<1>4. OnPath' /\ FillerLeads' /\ EntryHasLeader'
  BY <1>1, <1>2 DEF FlightInv, OnPath, FillerLeads, EntryHasLeader, At, Filling, Proceeds, Is
<1>5. Artifacts'
  BY <1>1, <1>2 DEF Artifacts, Proceeds, Is
<1> QED
  BY <1>3, <1>4, <1>5 DEF FlightInv

Readers(d) == {r \in Requests : At(r, "read") /\ req[r].got = d}

LEMMA ReadersFinite ==
  \A d : IsFiniteSet(Readers(d)) /\ Cardinality(Readers(d)) \in Nat
  BY CacheAssumption, FS_Subset, FS_CardinalityType DEF Readers

(* A step that adds no reader.                                              *)
LEMMA NoNewReader ==
  ASSUME Artifacts, ReadersCounted, refcounts' = refcounts,
         \A f \in Requests : req'[f].stage = "read" =>
             req[f].stage = "read" /\ req'[f].got = req[f].got
  PROVE  ReadersCounted'
<1> SUFFICES ASSUME NEW d \in Digests
             PROVE  refcounts[d] >= Cardinality(Readers(d)')
  BY DEF ReadersCounted, Readers
<1>1. Readers(d)' \subseteq Readers(d)
  BY DEF Readers, At
<1>2. /\ Cardinality(Readers(d)') <= Cardinality(Readers(d))
      /\ Cardinality(Readers(d)') \in Nat /\ Cardinality(Readers(d)) \in Nat
  BY <1>1, ReadersFinite, FS_Subset, FS_CardinalityType
<1>3. refcounts[d] \in Nat /\ refcounts[d] >= Cardinality(Readers(d))
  BY DEF Artifacts, ReadersCounted, Readers
<1> QED
  BY <1>2, <1>3

LEMMA ReadStarts ==
  ASSUME CacheInv, NEW r \in Requests, ServeBlob(r), req[r].got \in blobs
  PROVE  CacheInv'
<1> DEFINE e == req[r].got
<1>1. /\ req[r].stage = "serve" /\ Goto(r, "read")
      /\ refcounts' = [refcounts EXCEPT ![e] = @ + 1]
      /\ UNCHANGED <<blobs, inflight, upstream>>
  BY DEF ServeBlob, At, flight
<1>2. PICK q : Is(q, "read", req[r].path, e) /\ Becomes(r, q)
  BY <1>1, Turning DEF CacheInv, FlightInv, Turns
<1>3. \A f \in Requests : req'[f] = IF f = r THEN q ELSE req[f]
  BY <1>2 DEF Becomes
<1>4. Shape'
  BY <1>1, <1>2, <1>3 DEF CacheInv, FlightInv, Shape, Becomes, Is
<1>5. OnPath' /\ FillerLeads' /\ EntryHasLeader'
  BY <1>1, <1>2, <1>3
  DEF CacheInv, FlightInv, OnPath, FillerLeads, EntryHasLeader, At, Filling, Stages, Is
<1>6. Artifacts'
  BY <1>1, <1>2, <1>3 DEF CacheInv, Artifacts, Is
<1>7. ReadersCounted'
  <2> SUFFICES ASSUME NEW d \in Digests
               PROVE  refcounts'[d] >= Cardinality(Readers(d)')
    BY DEF ReadersCounted, Readers
  <2>1. refcounts[d] \in Nat /\ refcounts[d] >= Cardinality(Readers(d))
    BY DEF CacheInv, Artifacts, ReadersCounted, Readers
  <2>2. CASE d = e
    <3>1. Readers(d)' = Readers(d) \cup {r} /\ r \notin Readers(d)
      BY <1>1, <1>2, <1>3, <2>2 DEF Readers, At, Is
    <3>2. Cardinality(Readers(d)') = Cardinality(Readers(d)) + 1
      BY <3>1, ReadersFinite, FS_AddElement
    <3>3. refcounts'[d] = refcounts[d] + 1
      BY <1>1, <2>2 DEF CacheInv, Artifacts
    <3> QED
      BY <2>1, <3>2, <3>3, ReadersFinite
  <2>3. CASE d # e
    <3>1. Readers(d)' = Readers(d)
      BY <1>1, <1>2, <1>3, <2>3 DEF Readers, At, Is
    <3>2. refcounts'[d] = refcounts[d]
      BY <1>1, <2>3 DEF CacheInv, Artifacts
    <3> QED
      BY <2>1, <3>1, <3>2
  <2> QED
    BY <2>2, <2>3
<1> QED
  BY <1>4, <1>5, <1>6, <1>7 DEF CacheInv, FlightInv

(* A reader gives its reference back, or leaves it when the read fails.     *)
LEMMA ReadEnds ==
  ASSUME CacheInv, NEW r \in Requests, ReadBlob(r)
  PROVE  CacheInv'
<1> DEFINE e == req[r].got
<1>1. /\ req[r].stage = "read" /\ Over(r)
      /\ \/ refcounts' = [refcounts EXCEPT ![e] = @ - 1]
         \/ refcounts' = refcounts
      /\ UNCHANGED <<blobs, inflight, upstream>>
  BY DEF ReadBlob, At, flight
<1>2. PICK q : Is(q, "finish", req[r].path, None) /\ Becomes(r, q)
  BY <1>1, Turning DEF CacheInv, FlightInv, Turns
<1>3. \A f \in Requests : req'[f] = IF f = r THEN q ELSE req[f]
  BY <1>2 DEF Becomes
<1>4. Shape'
  BY <1>1, <1>2, <1>3 DEF CacheInv, FlightInv, Shape, Becomes, Is
<1>5. OnPath' /\ FillerLeads' /\ EntryHasLeader'
  BY <1>1, <1>2, <1>3
  DEF CacheInv, FlightInv, OnPath, FillerLeads, EntryHasLeader, At, Filling, Stages, Is
<1>6. e \in Digests
  BY <1>1 DEF CacheInv, Artifacts, Holding
<1>7. \A d \in Digests : Readers(d)' = Readers(d) \ {r}
  BY <1>1, <1>2, <1>3 DEF Readers, At, Is
<1>8. \A d \in Digests :
        /\ Cardinality(Readers(d)) \in Nat /\ Cardinality(Readers(d)') \in Nat
        /\ Cardinality(Readers(d)') <= Cardinality(Readers(d))
        /\ d = e => Cardinality(Readers(d)') = Cardinality(Readers(d)) - 1
  <2> SUFFICES ASSUME NEW d \in Digests
               PROVE  /\ Cardinality(Readers(d)) \in Nat
                      /\ Cardinality(Readers(d)') \in Nat
                      /\ Cardinality(Readers(d)') <= Cardinality(Readers(d))
                      /\ d = e => Cardinality(Readers(d)') = Cardinality(Readers(d)) - 1
    OBVIOUS
  <2>1. Readers(d)' \subseteq Readers(d)
    BY <1>7
  <2>2. /\ IsFiniteSet(Readers(d)') /\ Cardinality(Readers(d)') \in Nat
        /\ Cardinality(Readers(d)') <= Cardinality(Readers(d))
    BY <2>1, ReadersFinite, FS_Subset, FS_CardinalityType
  <2>3. ASSUME d = e PROVE Cardinality(Readers(d)') = Cardinality(Readers(d)) - 1
    <3>1. r \in Readers(d)
      BY <1>1, <2>3 DEF Readers, At
    <3> QED
      BY <1>7, <3>1, ReadersFinite, FS_RemoveElement
  <2> QED
    BY <2>2, <2>3, ReadersFinite
<1>9. \A d \in Digests :
        refcounts[d] \in Nat /\ refcounts[d] >= Cardinality(Readers(d))
  BY DEF CacheInv, Artifacts, ReadersCounted, Readers
<1>10. \A d \in Digests :
        refcounts'[d] \in Nat /\ refcounts'[d] >= Cardinality(Readers(d)')
  <2> SUFFICES ASSUME NEW d \in Digests
               PROVE  refcounts'[d] \in Nat /\ refcounts'[d] >= Cardinality(Readers(d)')
    OBVIOUS
  <2>1. \/ refcounts'[d] = refcounts[d]
        \/ d = e /\ refcounts'[d] = refcounts[d] - 1
    BY <1>1 DEF CacheInv, Artifacts
  <2> QED
    BY <1>8, <1>9, <2>1
<1>11. refcounts' = [d \in Digests |-> refcounts'[d]]
  BY <1>1 DEF CacheInv, Artifacts
<1>12. Artifacts'
  BY <1>1, <1>2, <1>3, <1>10, <1>11 DEF CacheInv, Artifacts, Is, Holding
<1>13. ReadersCounted'
  BY <1>10 DEF ReadersCounted, Readers
<1> QED
  BY <1>4, <1>5, <1>12, <1>13 DEF CacheInv, FlightInv

(* Outside of a fill.                                                       *)
LEMMA OutsideKept ==
  ASSUME CacheInv, NEW r \in Requests, NEW s, NEW p, NEW g, Turns(r, s, p, g),
         req[r].stage \notin Filling, s \notin Filling, s # "idle" => p \in Paths,
         UNCHANGED <<blobs, inflight, refcounts, upstream>>
  PROVE  CacheInv'
<1>1. PICK q : Is(q, s, p, g) /\ Becomes(r, q)
  BY DEF Turns
<1>2. \A f \in Requests : req'[f] = IF f = r THEN q ELSE req[f]
  BY <1>1 DEF Becomes
<1>3. Shape'
  BY <1>1, <1>2 DEF CacheInv, FlightInv, Shape, Becomes, Is
<1>4. OnPath' /\ FillerLeads' /\ EntryHasLeader'
  BY <1>1, <1>2 DEF CacheInv, FlightInv, OnPath, FillerLeads, EntryHasLeader, At, Is
<1>5. Artifacts'
  BY <1>1, <1>2 DEF CacheInv, Artifacts, Holding, Filling, Stages, Is
<1>6. ReadersCounted'
  BY <1>1, <1>2, NoNewReader DEF CacheInv, Filling, Stages, Is
<1> QED
  BY <1>3, <1>4, <1>5, <1>6 DEF CacheInv, FlightInv

LEMMA LeaderKept ==
  ASSUME CacheInv, NEW r \in Requests, BecomeLeader(r)
  PROVE  CacheInv'
<1>1. /\ req[r].stage = "elect" /\ Goto(r, "fetch") /\ req[r].path \in Paths
      /\ inflight[req[r].path] = None
      /\ inflight' = [inflight EXCEPT ![req[r].path] = r]
      /\ UNCHANGED <<blobs, refcounts, upstream>>
  BY DEF BecomeLeader, At, store, CacheInv, FlightInv, OnPath
<1>2. PICK q : Is(q, "fetch", req[r].path, req[r].got) /\ Becomes(r, q)
  BY <1>1, Turning DEF CacheInv, FlightInv, Turns
<1>3. \A f \in Requests : req'[f] = IF f = r THEN q ELSE req[f]
  BY <1>2 DEF Becomes
<1>4. Shape'
  BY <1>1, <1>2, <1>3 DEF CacheInv, FlightInv, Shape, Becomes, Is
<1>5. OnPath' /\ EntryHasLeader'
  BY <1>1, <1>2, <1>3
  DEF CacheInv, FlightInv, Shape, OnPath, EntryHasLeader, At, Filling, Stages, Is
<1>6. FillerLeads'
  BY <1>1, <1>2, <1>3, CacheAssumption
  DEF CacheInv, FlightInv, Shape, OnPath, FillerLeads, At, Filling, Stages, Is
<1>7. Artifacts'
  BY <1>1, <1>2, <1>3 DEF CacheInv, Artifacts, Holding, Is
<1>8. ReadersCounted'
  BY <1>1, <1>2, <1>3, NoNewReader DEF CacheInv, Is
<1> QED
  BY <1>4, <1>5, <1>6, <1>7, <1>8 DEF CacheInv, FlightInv

(* A request that is dropped leaves its inflight entry an orphan.           *)
LEMMA CancelKept ==
  ASSUME CacheInv, NEW r \in Requests, Cancel(r)
  PROVE  CacheInv'
<1>1. /\ req' = [req EXCEPT ![r] = NoReq]
      /\ inflight' = [p \in Paths |-> IF inflight[p] = r THEN Orphan ELSE inflight[p]]
      /\ UNCHANGED <<blobs, refcounts, upstream>>
  BY DEF Cancel, store
<1>2. PICK q : Is(q, "idle", None, None) /\ Becomes(r, q)
  BY <1>1, Turning DEF CacheInv, FlightInv, Turns
<1>3. \A f \in Requests : req'[f] = IF f = r THEN q ELSE req[f]
  BY <1>2 DEF Becomes
<1>4. Shape'
  BY <1>1, <1>2, <1>3 DEF CacheInv, FlightInv, Shape, Becomes, Is
<1>5. OnPath' /\ EntryHasLeader'
  BY <1>1, <1>2, <1>3, CacheAssumption
  DEF CacheInv, FlightInv, OnPath, EntryHasLeader, At, Is
<1>6. FillerLeads'
  BY <1>1, <1>2, <1>3
  DEF CacheInv, FlightInv, OnPath, FillerLeads, At, Filling, Is
<1>7. Artifacts'
  BY <1>1, <1>2, <1>3 DEF CacheInv, Artifacts, Holding, Is
<1>8. ReadersCounted'
  BY <1>1, <1>2, <1>3, NoNewReader DEF CacheInv, Is
<1> QED
  BY <1>4, <1>5, <1>6, <1>7, <1>8 DEF CacheInv, FlightInv

(* The end of a fill wakes followers, which go on outside of it.            *)
LEMMA FinishKept ==
  ASSUME CacheInv, NEW r \in Requests, Finish(r)
  PROVE  CacheInv'
<1> DEFINE p == req[r].path
<1>1. /\ req[r].stage = "finish" /\ p \in Paths /\ inflight[p] = r
      /\ inflight' = [inflight EXCEPT ![p] = None]
      /\ UNCHANGED <<blobs, refcounts, upstream>>
  BY DEF Finish, At, store, CacheInv, FlightInv, OnPath, FillerLeads, Filling, Stages
<1>2. req' = Woken(r)
  BY DEF Finish
<1>3. Is(req'[r], "idle", None, None)
  BY <1>2 DEF Woken, NoReq, Is, Fields
<1>4. \A f \in Requests \ {r} :
        \/ Is(req'[f], req[f].stage, req[f].path, req[f].got)
        \/ Is(req'[f], "known", req[f].path, req[f].got) /\ req[f].stage = "waiting"
  <2> SUFFICES ASSUME NEW f \in Requests, f # r
               PROVE  \/ Is(req'[f], req[f].stage, req[f].path, req[f].got)
                      \/ /\ Is(req'[f], "known", req[f].path, req[f].got)
                         /\ req[f].stage = "waiting"
    OBVIOUS
  <2> DEFINE q == req[f]
  <2>1. Is(q, q.stage, q.path, q.got)
    BY DEF CacheInv, FlightInv, Shape, Is
  <2>2. Is([q EXCEPT !.leader = None], q.stage, q.path, q.got)
    BY <2>1, FieldSet
  <2>3. Is([q EXCEPT !.stage = "known"], "known", q.path, q.got)
    BY <2>1, FieldSet
  <2>4. Is([q EXCEPT !.stage = "known", !.leader = None], "known", q.path, q.got)
    BY <2>3, FieldSet
  <2>5. req'[f] = IF Follows(f, r) /\ At(f, "waiting")
                  THEN [q EXCEPT !.stage = "known", !.leader = None]
                  ELSE IF Follows(f, r) THEN [q EXCEPT !.leader = None]
                  ELSE q
    BY <1>2, Zenon DEF Woken
  <2> QED
    BY <2>1, <2>2, <2>4, <2>5 DEF At
<1>5. Shape'
  BY <1>1, <1>2, <1>3, <1>4 DEF CacheInv, FlightInv, Shape, Woken, Is
<1>6. OnPath' /\ EntryHasLeader'
  BY <1>1, <1>3, <1>4, CacheAssumption
  DEF CacheInv, FlightInv, Shape, OnPath, EntryHasLeader, At, Filling, Stages, Is
<1>7. FillerLeads'
  BY <1>1, <1>3, <1>4
  DEF CacheInv, FlightInv, Shape, OnPath, FillerLeads, At, Filling, Stages, Is
<1>8. Artifacts'
  BY <1>1, <1>3, <1>4 DEF CacheInv, Artifacts, Holding, Is
<1>9. ReadersCounted'
  BY <1>1, <1>3, <1>4, NoNewReader DEF CacheInv, Is
<1> QED
  BY <1>5, <1>6, <1>7, <1>8, <1>9 DEF CacheInv, FlightInv

LEMMA RestartKept == CacheInv /\ Restart => CacheInv'
<1> SUFFICES ASSUME CacheInv, Restart PROVE CacheInv'
  OBVIOUS
<1>1. \A r \in Requests : req'[r] = NoReq
  BY DEF Restart
<1>2. Shape'
  BY DEF Restart, Shape, NoReq, Fields
<1>3. OnPath' /\ FillerLeads' /\ EntryHasLeader'
  BY <1>1, CacheAssumption
  DEF Restart, OnPath, FillerLeads, EntryHasLeader, NoReq, At, Filling
<1>4. Artifacts'
  BY <1>1 DEF Restart, CacheInv, Artifacts, NoReq, Holding
<1>5. ReadersCounted'
  <2> SUFFICES ASSUME NEW d \in Digests PROVE 0 >= Cardinality(Readers(d)')
    BY DEF Restart, ReadersCounted, Readers
  <2>1. Readers(d)' = {}
    BY <1>1 DEF Readers, At, NoReq
  <2> QED
    BY <2>1, FS_EmptySet
<1> QED
  BY <1>2, <1>3, <1>4, <1>5 DEF CacheInv, FlightInv

LEMMA CacheStep == CacheInv /\ [Next]_vars => CacheInv'
<1> SUFFICES ASSUME CacheInv, [Next]_vars PROVE CacheInv'
  OBVIOUS
<1> Shape
  BY DEF CacheInv, FlightInv
<1> DEFINE Alike == UNCHANGED <<blobs, inflight, refcounts, upstream>>
<1>b. UNCHANGED <<cache, upstream>> => Alike
  BY DEF cache, store, flight
<1>1. ASSUME NEW r \in Requests, NEW p \in Paths, Arrive(r, p) PROVE CacheInv'
  <2>1. PICK s \in {"known", "subscribe"} : Turns(r, s, p, None)
    BY <1>1, Turning, Zenon DEF Arrive
  <2>2. req[r].stage = "idle" /\ Alike
    BY <1>1, <1>b DEF Arrive, At
  <2> QED
    BY <2>1, <2>2, OutsideKept DEF Filling, Stages
<1>2. ASSUME NEW r \in Requests, Subscribe(r) \/ ReadIndex(r) PROVE CacheInv'
  <2>1. PICK s \in {"waiting", "elect"} : Turns(r, s, req[r].path, req[r].got)
    BY <1>2, Turning, Zenon DEF Subscribe, ReadIndex
  <2>2. req[r].stage \in {"subscribe", "known"} /\ Alike /\ req[r].path \in Paths
    BY <1>2, <1>b DEF Subscribe, ReadIndex, At, CacheInv, FlightInv, OnPath
  <2> QED
    BY <2>1, <2>2, OutsideKept DEF Filling, Stages
<1>3. ASSUME NEW r \in Requests, TimeOut(r) \/ Bypass(r) PROVE CacheInv'
  <2>1. Turns(r, "idle", None, None)
    BY <1>3, Turning DEF TimeOut, Bypass
  <2>2. req[r].stage \in {"waiting", "elect"} /\ Alike
    BY <1>3, <1>b DEF TimeOut, Bypass, At
  <2> QED
    BY <2>1, <2>2, OutsideKept DEF Filling, Stages
<1>4. ASSUME NEW r \in Requests, Fill(r) PROVE CacheInv'
  <2>1. CASE Finish(r)
    BY <2>1, FinishKept
  <2>2. CASE ReadBlob(r)
    BY <2>2, ReadEnds
  <2>3. CASE ServeBlob(r) /\ req[r].got \in blobs
    BY <2>3, ReadStarts
  <2>4. CASE ~Finish(r) /\ ~ReadBlob(r) /\ ~(ServeBlob(r) /\ req[r].got \in blobs)
    <3>1. Proceeds(r)
      BY <1>4, <2>4, FillProceeds
    <3>2. FlightInv' /\ Artifacts'
      BY <3>1, ProceedsKept DEF CacheInv
    <3>3. ReadersCounted'
      BY <3>1, NoNewReader DEF CacheInv, Proceeds, Turns, Is, Becomes
    <3> QED
      BY <3>2, <3>3 DEF CacheInv
  <2> QED
    BY <2>1, <2>2, <2>3, <2>4
<1>5. ASSUME NEW p \in Paths, NEW d \in Digests, Publish(p, d) PROVE CacheInv'
  <2>1. UNCHANGED <<req, blobs, inflight, refcounts>>
    BY <1>5 DEF Publish, cache, store, flight
  <2>2. FlightInv' /\ ReadersCounted'
    BY <2>1 DEF CacheInv, FlightInv, Shape, OnPath, FillerLeads, EntryHasLeader,
       ReadersCounted, At
  <2>3. Artifacts'
    BY <1>5, <2>1 DEF Publish, CacheInv, Artifacts
  <2> QED
    BY <2>2, <2>3 DEF CacheInv
<1>6. ASSUME UNCHANGED vars PROVE CacheInv'
  BY <1>6 DEF vars, cache, store, flight, CacheInv, FlightInv, Shape, OnPath,
     FillerLeads, EntryHasLeader, Artifacts, ReadersCounted, At
<1> QED
  BY <1>1, <1>2, <1>3, <1>4, <1>5, <1>6, LeaderKept, CancelKept, RestartKept, Zenon
  DEF Next, Follow

LEMMA CacheInvariant == Spec => []CacheInv
  BY CacheInit, CacheStep, PTL DEF Spec

-----------------------------------------------------------------------------
(* Sequences without repetition: the index of a path and the LRU order.     *)
LEMMA UniqSeq ==
  \A s : s \in Uniq <=> s \in Seq(Digests) /\ \A i, j \in 1..Len(s) : s[i] = s[j] => i = j
<1> DEFINE n == Cardinality(Digests)
<1>1. n \in Nat
  BY CacheAssumption, FS_CardinalityType
<1>2. ASSUME NEW s \in Uniq
      PROVE  s \in Seq(Digests) /\ \A i, j \in 1..Len(s) : s[i] = s[j] => i = j
  <2>1. PICK k \in 0..n : s \in [1..k -> Digests]
    BY DEF Uniq
  <2>2. s \in Seq(Digests) /\ Len(s) = k /\ DOMAIN s = 1..k
    BY <1>1, <2>1, SeqDef, LenProperties
  <2> QED
    BY <2>2 DEF Uniq
<1>3. ASSUME NEW s \in Seq(Digests), \A i, j \in 1..Len(s) : s[i] = s[j] => i = j
      PROVE  s \in Uniq
  <2>1. s \in [1..Len(s) -> Digests] /\ Len(s) \in Nat /\ DOMAIN s = 1..Len(s)
    BY LenProperties
  <2>2. s \in Injection(1..Len(s), Digests)
    BY <1>3, <2>1 DEF Injection, IsInjective
  <2>3. Cardinality(1..Len(s)) = Len(s)
    <3>1. 1 \in Int /\ Len(s) \in Int
      BY <2>1
    <3>2. Cardinality(1..Len(s)) = IF 1 > Len(s) THEN 0 ELSE Len(s) - 1 + 1
      BY <3>1, FS_Interval
    <3> QED
      BY <2>1, <3>2
  <2>4. Len(s) <= n
    BY <2>2, <2>3, CacheAssumption, FS_Injection
  <2> QED
    BY <1>1, <1>3, <2>1, <2>4 DEF Uniq
<1> QED
  BY <1>2, <1>3

(* As nothing is in it twice, RemoveFirst takes an artifact out.            *)
LEMMA WithoutFirst ==
  ASSUME NEW s \in Uniq, NEW d
  PROVE  RemoveFirst(s, d) \in Uniq /\ ToSet(RemoveFirst(s, d)) = ToSet(s) \ {d}
<1>1. /\ s \in Seq(Digests) /\ \A i, j \in 1..Len(s) : s[i] = s[j] => i = j
      /\ Len(s) \in Nat /\ DOMAIN s = 1..Len(s)
  BY UniqSeq, LenProperties
<1>2. CASE d \notin ToSet(s)
  <2>1. RemoveFirst(s, d) = s
    BY <1>1, <1>2 DEF ToSet, RemoveFirst
  <2> QED
    BY <1>2, <2>1
<1>3. CASE d \in ToSet(s)
  <2>1. PICK k \in 1..Len(s) : s[k] = d
    BY <1>1, <1>3 DEF ToSet
  <2>2. {i \in 1..Len(s) : s[i] = d} = {k}
    BY <1>1, <2>1
  <2>3. Min({k}) = k
    BY <2>1 DEF Min
  <2>4. RemoveFirst(s, d) = RemoveAt(s, k)
    BY <2>1, <2>2, <2>3 DEF RemoveFirst, SelectInSeq
  <2> DEFINE a == SubSeq(s, 1, k - 1)
             b == SubSeq(s, k + 1, Len(s))
             t == a \o b
  <2>5. /\ a \in Seq(Digests) /\ Len(a) = k - 1
        /\ \A i \in 1..(k - 1) : a[i] = s[i]
    <3>1. \A i \in 1..(k - 1) : s[i] \in Digests
      BY <1>1, <2>1, ElementOfSeq
    <3> QED
      BY <1>1, <2>1, <3>1, SubSeqProperties
  <2>6. /\ b \in Seq(Digests) /\ Len(b) = Len(s) - k
        /\ \A i \in 1..(Len(s) - k) : b[i] = s[k + i]
    <3>1. \A i \in (k + 1)..Len(s) : s[i] \in Digests
      BY <1>1, <2>1, ElementOfSeq
    <3> HIDE DEF b
    <3>2. /\ b \in Seq(Digests)
          /\ Len(b) = IF k + 1 <= Len(s) THEN Len(s) - (k + 1) + 1 ELSE 0
          /\ \A i \in 1..(Len(s) - (k + 1) + 1) : b[i] = s[k + 1 + i - 1]
      BY <1>1, <2>1, <3>1, SubSeqProperties DEF b
    <3> QED
      BY <1>1, <2>1, <3>2
  <2>7. /\ t \in Seq(Digests) /\ Len(t) = Len(s) - 1
        /\ \A i \in 1..(Len(s) - 1) : t[i] = IF i < k THEN s[i] ELSE s[i + 1]
    <3> HIDE DEF a, b
    <3>1. /\ t \in Seq(Digests) /\ Len(t) = Len(a) + Len(b)
          /\ \A i \in 1..(Len(a) + Len(b)) :
                t[i] = IF i <= Len(a) THEN a[i] ELSE b[i - Len(a)]
      BY <2>5, <2>6, ConcatProperties
    <3>2. ASSUME NEW i \in 1..(Len(s) - 1)
          PROVE  t[i] = IF i < k THEN s[i] ELSE s[i + 1]
      <4>1. t[i] = IF i <= k - 1 THEN a[i] ELSE b[i - (k - 1)]
        BY <1>1, <2>1, <2>5, <2>6, <3>1
      <4>2. CASE i < k
        BY <1>1, <2>1, <2>5, <4>1, <4>2
      <4>3. CASE ~(i < k)
        <5>1. i - (k - 1) \in 1..(Len(s) - k) /\ k + (i - (k - 1)) = i + 1
          BY <1>1, <2>1, <4>3
        <5>2. b[i - (k - 1)] = s[i + 1]
          BY <2>6, <5>1
        <5> QED
          BY <1>1, <2>1, <4>1, <4>3, <5>2
      <4> QED
        BY <4>2, <4>3
    <3>3. Len(t) = Len(s) - 1
      BY <1>1, <2>1, <2>5, <2>6, <3>1
    <3> QED
      BY <3>1, <3>2, <3>3
  <2>8. RemoveFirst(s, d) = t
    BY <2>4 DEF RemoveAt
  <2> HIDE DEF t
  <2>9. t \in Uniq
    <3>1. \A i, j \in 1..Len(t) : t[i] = t[j] => i = j
      BY <1>1, <2>1, <2>7
    <3> QED
      BY <2>7, <3>1, UniqSeq
  <2>10. DOMAIN t = 1..Len(t)
    BY <2>7, LenProperties
  <2>11. ASSUME NEW i \in 1..Len(t) PROVE t[i] \in ToSet(s) \ {d}
    <3>1. PICK j \in 1..Len(s) : t[i] = s[j] /\ j # k
      <4>1. CASE i < k
        BY <1>1, <2>1, <2>7, <4>1
      <4>2. CASE ~(i < k)
        <5>1. t[i] = s[i + 1] /\ i + 1 \in 1..Len(s) /\ i + 1 # k
          BY <1>1, <2>1, <2>7, <4>2
        <5> QED
          BY <5>1
      <4> QED
        BY <4>1, <4>2
    <3>2. s[j] # d
      BY <1>1, <2>1, <3>1
    <3> QED
      BY <1>1, <2>1, <3>1, <3>2 DEF ToSet
  <2>12. \A i \in 1..Len(s) \ {k} : \E j \in 1..Len(t) : t[j] = s[i]
    <3> SUFFICES ASSUME NEW i \in 1..Len(s), i # k
                 PROVE  \E j \in 1..Len(t) : t[j] = s[i]
      OBVIOUS
    <3>1. CASE i < k
      BY <1>1, <2>1, <2>7, <3>1
    <3>2. CASE i > k
      <4>1. i - 1 \in 1..Len(t) /\ t[i - 1] = s[i]
        BY <1>1, <2>1, <2>7, <3>2
      <4> QED
        BY <4>1
    <3> QED
      BY <1>1, <2>1, <3>1, <3>2
  <2>13. ToSet(t) = ToSet(s) \ {d}
    BY <1>1, <2>1, <2>10, <2>11, <2>12 DEF ToSet
  <2> QED
    BY <2>8, <2>9, <2>13
<1> QED
  BY <1>2, <1>3

(* An artifact that is not in it is put at its end or its beginning.        *)
LEMMA OneMore ==
  ASSUME NEW s \in Uniq, NEW d \in Digests \ ToSet(s)
  PROVE  /\ Append(s, d) \in Uniq /\ ToSet(Append(s, d)) = ToSet(s) \cup {d}
         /\ <<d>> \o s \in Uniq /\ ToSet(<<d>> \o s) = ToSet(s) \cup {d}
<1>1. /\ s \in Seq(Digests) /\ \A i, j \in 1..Len(s) : s[i] = s[j] => i = j
      /\ Len(s) \in Nat /\ DOMAIN s = 1..Len(s)
  BY UniqSeq, LenProperties
<1>2. \A i \in 1..Len(s) : s[i] # d
  BY <1>1 DEF ToSet
<1>3. Append(s, d) \in Uniq /\ ToSet(Append(s, d)) = ToSet(s) \cup {d}
  <2> DEFINE t == Append(s, d)
  <2>1. /\ t \in Seq(Digests) /\ Len(t) = Len(s) + 1
        /\ \A i \in 1..Len(s) : t[i] = s[i]
        /\ t[Len(s) + 1] = d /\ DOMAIN t = 1..Len(t)
    BY <1>1, AppendProperties, LenProperties
  <2> HIDE DEF t
  <2>2. \A i \in 1..Len(t) : i \in 1..Len(s) \/ i = Len(s) + 1
    BY <1>1, <2>1
  <2>3. t \in Uniq
    <3>1. \A i, j \in 1..Len(t) : t[i] = t[j] => i = j
      BY <1>1, <1>2, <2>1, <2>2
    <3> QED
      BY <2>1, <3>1, UniqSeq
  <2>4. ToSet(t) = ToSet(s) \cup {d}
    <3>1. 1..Len(t) = 1..Len(s) \cup {Len(s) + 1}
      BY <1>1, <2>1
    <3> QED
      BY <1>1, <2>1, <3>1 DEF ToSet
  <2> QED
    BY <2>3, <2>4 DEF t
<1>4. <<d>> \o s \in Uniq /\ ToSet(<<d>> \o s) = ToSet(s) \cup {d}
  <2> DEFINE t == <<d>> \o s
  <2>1. <<d>> \in Seq(Digests) /\ Len(<<d>>) = 1 /\ <<d>>[1] = d
    OBVIOUS
  <2>2. /\ t \in Seq(Digests) /\ Len(t) = Len(s) + 1
        /\ \A i \in 1..Len(t) : t[i] = IF i = 1 THEN d ELSE s[i - 1]
        /\ DOMAIN t = 1..Len(t)
    <3> HIDE DEF t
    <3>1. /\ t \in Seq(Digests) /\ Len(t) = 1 + Len(s)
          /\ \A i \in 1..(1 + Len(s)) : t[i] = IF i <= 1 THEN <<d>>[i] ELSE s[i - 1]
      BY <1>1, <2>1, ConcatProperties DEF t
    <3> QED
      BY <1>1, <2>1, <3>1, LenProperties
  <2> HIDE DEF t
  <2>3. t \in Uniq
    <3>1. \A i, j \in 1..Len(t) : t[i] = t[j] => i = j
      BY <1>1, <1>2, <2>2
    <3> QED
      BY <2>2, <3>1, UniqSeq
  <2>4. ToSet(t) = ToSet(s) \cup {d}
    <3>1. \A i \in 1..Len(s) : i + 1 \in 1..Len(t) /\ t[i + 1] = s[i]
      BY <1>1, <2>2
    <3>2. 1 \in 1..Len(t) /\ t[1] = d
      BY <1>1, <2>2
    <3>3. \A i \in 1..Len(t) : i = 1 \/ i - 1 \in 1..Len(s)
      BY <1>1, <2>2
    <3> QED
      BY <1>1, <2>2, <3>1, <3>2, <3>3 DEF ToSet
  <2> QED
    BY <2>3, <2>4 DEF t
<1> QED
  BY <1>3, <1>4

(* The head and the rest.                                                   *)
LEMMA FirstOff ==
  ASSUME NEW s \in Uniq, s # <<>>
  PROVE  /\ Head(s) \in Digests /\ Tail(s) \in Uniq
         /\ ToSet(s) = ToSet(Tail(s)) \cup {Head(s)} /\ Head(s) \notin ToSet(Tail(s))
<1>1. /\ s \in Seq(Digests) /\ \A i, j \in 1..Len(s) : s[i] = s[j] => i = j
      /\ Len(s) \in Nat \ {0} /\ DOMAIN s = 1..Len(s)
  BY UniqSeq, LenProperties, EmptySeq
<1> DEFINE t == Tail(s)
<1>2. /\ Head(s) \in Digests /\ Head(s) = s[1]
      /\ t \in Seq(Digests) /\ Len(t) = Len(s) - 1
      /\ \A i \in 1..Len(t) : t[i] = s[i + 1]
      /\ DOMAIN t = 1..Len(t)
  BY <1>1, HeadTailProperties, LenProperties
<1> HIDE DEF t
<1>3. t \in Uniq
  <2>1. \A i, j \in 1..Len(t) : t[i] = t[j] => i = j
    BY <1>1, <1>2
  <2> QED
    BY <1>2, <2>1, UniqSeq
<1>4. \A i \in 1..Len(s) : i = 1 \/ (i - 1 \in 1..Len(t) /\ t[i - 1] = s[i])
  BY <1>1, <1>2
<1>5. \A i \in 1..Len(t) : i + 1 \in 1..Len(s) /\ t[i] = s[i + 1] /\ s[i + 1] # s[1]
  BY <1>1, <1>2
<1>6. ToSet(s) = ToSet(t) \cup {s[1]} /\ s[1] \notin ToSet(t)
  <2>1. ToSet(s) = {s[i] : i \in 1..Len(s)} /\ ToSet(t) = {t[i] : i \in 1..Len(t)}
    BY <1>1, <1>2 DEF ToSet
  <2>2. 1 \in 1..Len(s)
    BY <1>1
  <2>3. \A x : x \in ToSet(s) <=> x \in ToSet(t) \/ x = s[1]
    BY <2>1, <2>2, <1>4, <1>5
  <2> QED
    BY <2>1, <2>3, <1>5
<1> QED
  BY <1>2, <1>3, <1>6 DEF t

(* Every order of a set of artifacts lists them all.                        *)
LEMMA Orders ==
  ASSUME NEW S \in SUBSET Digests, NEW s \in SetToSeqs(S)
  PROVE  s \in Uniq /\ ToSet(s) = S
<1> DEFINE n == Cardinality(S)
<1>1. IsFiniteSet(S) /\ n \in Nat /\ n <= Cardinality(Digests)
      /\ Cardinality(Digests) \in Nat
  BY CacheAssumption, FS_Subset, FS_CardinalityType
<1>2. s \in [1..n -> S] /\ \A i, j \in 1..n : i # j => s[i] # s[j]
  BY DEF SetToSeqs
<1>3. s \in Uniq
  BY <1>1, <1>2 DEF Uniq
<1>4. s \in Injection(1..n, S)
  BY <1>2 DEF Injection, IsInjective
<1>5. Cardinality(1..n) = n
  BY <1>1, FS_Interval
<1>6. s \in Surjection(1..n, S)
  BY <1>1, <1>4, <1>5, FS_Injection
<1>7. ToSet(s) = S
  BY <1>2, <1>6 DEF ToSet, Surjection
<1> QED
  BY <1>3, <1>7

-----------------------------------------------------------------------------
(* The bytes of a set of artifacts.                                         *)
LEMMA BytesFinite ==
  ASSUME NEW S \in SUBSET Digests
  PROVE  IsFiniteSet(Bytes(S)) /\ TotalSize(S) \in Nat
<1> DEFINE B == [d \in S |-> {d} \X (1..Size[d])]
           F == {B[d] : d \in S}
<1>1. IsFiniteSet(F)
  <2>1. IsFiniteSet(S)
    BY CacheAssumption, FS_Subset
  <2>2. B \in Surjection(S, F)
    BY DEF Surjection
  <2> QED
    BY <2>1, <2>2, FS_Surjection
<1>2. \A x \in F : IsFiniteSet(x)
  <2> SUFFICES ASSUME NEW d \in S PROVE IsFiniteSet({d} \X (1..Size[d]))
    OBVIOUS
  <2>1. 1 \in Int /\ Size[d] \in Int
    BY CacheAssumption
  <2>2. IsFiniteSet(1..Size[d]) /\ IsFiniteSet({d})
    BY <2>1, FS_Interval, FS_Singleton
  <2> QED
    BY <2>2, FS_Product
<1>3. Bytes(S) = UNION F
  BY DEF Bytes
<1> QED
  BY <1>1, <1>2, <1>3, FS_UNION, FS_CardinalityType DEF TotalSize

(* ... of one,                                                              *)
LEMMA BytesOfOne ==
  ASSUME NEW d \in Digests
  PROVE  TotalSize({d}) = Size[d]
<1>1. 1 \in Int /\ Size[d] \in Int /\ Size[d] \in Nat \ {0}
  BY CacheAssumption
<1>2. IsFiniteSet(1..Size[d]) /\ Cardinality(1..Size[d]) = Size[d]
  <2>1. Cardinality(1..Size[d]) = IF 1 > Size[d] THEN 0 ELSE Size[d] - 1 + 1
    BY <1>1, FS_Interval
  <2> QED
    BY <1>1, <2>1, FS_Interval
<1>3. IsFiniteSet({d}) /\ Cardinality({d}) = 1
  BY FS_Singleton
<1>4. Cardinality({d} \X (1..Size[d])) = 1 * Size[d]
  BY <1>2, <1>3, FS_Product
<1>5. Bytes({d}) = {d} \X (1..Size[d])
  BY DEF Bytes
<1>6. TotalSize({d}) = 1 * Size[d]
  BY <1>4, <1>5 DEF TotalSize
<1> QED
  BY <1>1, <1>6

(* ... of two sets together, and of a part.                                 *)
LEMMA BytesOfBoth ==
  ASSUME NEW S \in SUBSET Digests, NEW T \in SUBSET Digests
  PROVE  /\ TotalSize(S \cup T) <= TotalSize(S) + TotalSize(T)
         /\ S \cap T = {} => TotalSize(S \cup T) = TotalSize(S) + TotalSize(T)
         /\ S \subseteq T => TotalSize(S) <= TotalSize(T)
<1>1. /\ IsFiniteSet(Bytes(S)) /\ IsFiniteSet(Bytes(T)) /\ IsFiniteSet(Bytes(S \cup T))
      /\ TotalSize(S) \in Nat /\ TotalSize(T) \in Nat /\ TotalSize(S \cup T) \in Nat
  BY BytesFinite
<1>2. Bytes(S \cup T) = Bytes(S) \cup Bytes(T)
  BY DEF Bytes
<1>3. /\ IsFiniteSet(Bytes(S) \cap Bytes(T)) /\ Cardinality(Bytes(S) \cap Bytes(T)) \in Nat
      /\ TotalSize(S \cup T)
           = TotalSize(S) + TotalSize(T) - Cardinality(Bytes(S) \cap Bytes(T))
  BY <1>1, <1>2, FS_Union, FS_Intersection, FS_CardinalityType DEF TotalSize
<1>4. S \cap T = {} => Cardinality(Bytes(S) \cap Bytes(T)) = 0
  <2> SUFFICES ASSUME S \cap T = {} PROVE Bytes(S) \cap Bytes(T) = {}
    BY FS_EmptySet
  <2> QED
    BY DEF Bytes
<1>5. S \subseteq T => TotalSize(S) <= TotalSize(T)
  <2> SUFFICES ASSUME S \subseteq T PROVE Bytes(S) \subseteq Bytes(T)
    BY <1>1, FS_Subset DEF TotalSize
  <2> QED
    BY DEF Bytes
<1> QED
  BY <1>1, <1>3, <1>4, <1>5

(* What a new blob adds to the total.                                       *)
LEMMA OneMoreSize ==
  ASSUME NEW S \in SUBSET Digests, NEW d \in Digests \ S
  PROVE  TotalSize(S \cup {d}) = TotalSize(S) + Size[d]
  BY BytesOfBoth, BytesOfOne

LEMMA NoSize == TotalSize({}) = 0
  BY FS_EmptySet DEF TotalSize, Bytes

-----------------------------------------------------------------------------
(* Types.                                                                   *)
LEMMA NoDigests == <<>> \in Uniq /\ ToSet(<<>>) = {}
<1>1. <<>> \in Seq(Digests) /\ Len(<<>>) = 0 /\ DOMAIN <<>> = {}
  OBVIOUS
<1>2. <<>> \in Uniq
  <2>1. \A i \in 1..Len(<<>>) : FALSE
    BY <1>1
  <2> QED
    BY <1>1, <2>1, UniqSeq
<1>3. ToSet(<<>>) = {}
  BY <1>1 DEF ToSet
<1> QED
  BY <1>2, <1>3

(* A field of a request is given a value of its type,                       *)
LEMMA FieldTyped ==
  ASSUME NEW q \in RequestStates, NEW z
  PROVE  /\ z \in Stages => [q EXCEPT !.stage = z] \in RequestStates
         /\ z \in Paths \cup {None} => [q EXCEPT !.path = z] \in RequestStates
         /\ z \in Requests \cup {Orphan, None} => [q EXCEPT !.leader = z] \in RequestStates
         /\ z \in Uniq => [q EXCEPT !.known = z] \in RequestStates
         /\ z \in Digests \cup {None} => [q EXCEPT !.got = z] \in RequestStates
         /\ z \in Digests \cup {None} => [q EXCEPT !.answer = z] \in RequestStates
         /\ z \in Nat => [q EXCEPT !.used = z] \in RequestStates
         /\ z \in Uniq => [q EXCEPT !.todo = z] \in RequestStates
  BY DEF RequestStates

ReqTyped == req \in [Requests -> RequestStates]

(* ... in each of the ways in which the actions update a request.           *)
LEMMA Retyped ==
  ASSUME ReqTyped, NEW r \in Requests, NEW s \in Stages, NEW p, NEW d, NEW a, NEW u, NEW t
  PROVE  /\ Goto(r, s) => ReqTyped'
         /\ d \in Digests /\ a \in Digests =>
              (req' = [req EXCEPT ![r].stage = s, ![r].got = d, ![r].answer = a] => ReqTyped')
         /\ u \in Nat /\ t \in Uniq =>
              (req' = [req EXCEPT ![r].stage = s, ![r].used = u, ![r].todo = t] => ReqTyped')
         /\ t \in Uniq =>
              /\ req' = [req EXCEPT ![r].stage = s, ![r].todo = t] => ReqTyped'
              /\ req' = [req EXCEPT ![r].todo = t] => ReqTyped'
         /\ t \in Uniq /\ a \in Requests \cup {Orphan, None} =>
              (req' = [req EXCEPT ![r].stage = s, ![r].known = t, ![r].leader = a] => ReqTyped')
         /\ Over(r) => ReqTyped'
         /\ req' = [req EXCEPT ![r] = NoReq] => ReqTyped'
         /\ p \in Paths /\ a \in Requests \cup {Orphan, None} =>
              (req' = [req EXCEPT ![r] = [NoReq EXCEPT !.stage = s, !.path = p, !.leader = a]]
                 => ReqTyped')
<1> DEFINE q == req[r]
<1>1. \A n \in RequestStates : req' = [req EXCEPT ![r] = n] => ReqTyped'
  BY DEF ReqTyped
<1>2. q \in RequestStates /\ NoReq \in RequestStates
  BY NoDigests DEF ReqTyped, NoReq, RequestStates, Stages
<1>3. [q EXCEPT !.stage = s] \in RequestStates
  BY <1>2, FieldTyped
<1>4. ASSUME d \in Digests, a \in Digests,
             req' = [req EXCEPT ![r].stage = s, ![r].got = d, ![r].answer = a]
      PROVE  ReqTyped'
  <2>1. [q EXCEPT !.stage = s, !.got = d] \in RequestStates
    BY <1>3, <1>4, FieldTyped
  <2>2. [q EXCEPT !.stage = s, !.got = d, !.answer = a] \in RequestStates
    BY <1>4, <2>1, FieldTyped
  <2> QED
    BY <1>1, <1>4, <2>2 DEF ReqTyped
<1>5. ASSUME u \in Nat, t \in Uniq,
             req' = [req EXCEPT ![r].stage = s, ![r].used = u, ![r].todo = t]
      PROVE  ReqTyped'
  <2>1. [q EXCEPT !.stage = s, !.used = u] \in RequestStates
    BY <1>3, <1>5, FieldTyped
  <2>2. [q EXCEPT !.stage = s, !.used = u, !.todo = t] \in RequestStates
    BY <1>5, <2>1, FieldTyped
  <2> QED
    BY <1>1, <1>5, <2>2 DEF ReqTyped
<1>6. ASSUME t \in Uniq
      PROVE  /\ req' = [req EXCEPT ![r].stage = s, ![r].todo = t] => ReqTyped'
             /\ req' = [req EXCEPT ![r].todo = t] => ReqTyped'
  <2>1. [q EXCEPT !.stage = s, !.todo = t] \in RequestStates
    BY <1>3, <1>6, FieldTyped
  <2>2. [q EXCEPT !.todo = t] \in RequestStates
    BY <1>2, <1>6, FieldTyped
  <2>3. req' = [req EXCEPT ![r].stage = s, ![r].todo = t] => ReqTyped'
    BY <1>1, <2>1 DEF ReqTyped
  <2>4. req' = [req EXCEPT ![r].todo = t] => ReqTyped'
    BY <1>1, <2>2 DEF ReqTyped
  <2> QED
    BY <2>3, <2>4
<1>7. ASSUME t \in Uniq, a \in Requests \cup {Orphan, None},
             req' = [req EXCEPT ![r].stage = s, ![r].known = t, ![r].leader = a]
      PROVE  ReqTyped'
  <2>1. [q EXCEPT !.stage = s, !.known = t] \in RequestStates
    BY <1>3, <1>7, FieldTyped
  <2>2. [q EXCEPT !.stage = s, !.known = t, !.leader = a] \in RequestStates
    BY <1>7, <2>1, FieldTyped
  <2> QED
    BY <1>1, <1>7, <2>2 DEF ReqTyped
<1>8. Over(r) => ReqTyped'
  <2>1. [NoReq EXCEPT !.stage = "finish"] \in RequestStates
    BY <1>2, FieldTyped DEF Stages
  <2>2. [NoReq EXCEPT !.stage = "finish", !.path = q.path] \in RequestStates
    BY <1>2, <2>1, FieldTyped DEF RequestStates
  <2> QED
    BY <1>1, <2>2 DEF Over
<1>9. ASSUME p \in Paths, a \in Requests \cup {Orphan, None},
             req' = [req EXCEPT ![r] = [NoReq EXCEPT !.stage = s, !.path = p, !.leader = a]]
      PROVE  ReqTyped'
  <2>1. [NoReq EXCEPT !.stage = s] \in RequestStates
    BY <1>2, FieldTyped
  <2>2. [NoReq EXCEPT !.stage = s, !.path = p] \in RequestStates
    BY <1>9, <2>1, FieldTyped
  <2>3. [NoReq EXCEPT !.stage = s, !.path = p, !.leader = a] \in RequestStates
    BY <1>9, <2>2, FieldTyped
  <2> QED
    BY <1>1, <1>9, <2>3
<1>10. /\ Goto(r, s) => ReqTyped'
       /\ req' = [req EXCEPT ![r] = NoReq] => ReqTyped'
  BY <1>1, <1>2, <1>3 DEF Goto
<1> QED
  BY <1>4, <1>5, <1>6, <1>7, <1>8, <1>9, <1>10

-----------------------------------------------------------------------------
(* A blob is chosen for eviction while there is one left to consider, and   *)
(* fill_lock is held by whoever evicts.                                     *)
Victims == \A r \in Requests : req[r].stage \in {"remove", "settle"} => req[r].todo # <<>>

TypeInv == TypeOK /\ Victims

LEMMA TypeInit == Init => TypeInv
<1> SUFFICES ASSUME Init PROVE TypeInv
  OBVIOUS
<1>1. NoReq \in RequestStates
  BY NoDigests DEF NoReq, RequestStates, Stages
<1>2. TypeOK
  BY <1>1, NoDigests DEF Init, TypeOK
<1>3. Victims
  BY DEF Init, Victims, NoReq
<1> QED
  BY <1>2, <1>3 DEF TypeInv

(* An artifact becomes the last of the LRU order, or the first of an index. *)
LEMMA Touched ==
  ASSUME NEW s \in Uniq, NEW d \in Digests
  PROVE  /\ Append(RemoveFirst(s, d), d) \in Uniq
         /\ ToSet(Append(RemoveFirst(s, d), d)) = ToSet(s) \cup {d}
         /\ <<d>> \o RemoveFirst(s, d) \in Uniq
         /\ ToSet(<<d>> \o RemoveFirst(s, d)) = ToSet(s) \cup {d}
<1> DEFINE t == RemoveFirst(s, d)
<1>1. t \in Uniq /\ ToSet(t) = ToSet(s) \ {d}
  BY WithoutFirst
<1> HIDE DEF t
<1>2. /\ Append(t, d) \in Uniq /\ ToSet(Append(t, d)) = ToSet(t) \cup {d}
      /\ <<d>> \o t \in Uniq /\ ToSet(<<d>> \o t) = ToSet(t) \cup {d}
  BY <1>1, OneMore
<1> QED
  BY <1>1, <1>2 DEF t

(* A step that chooses no victim, or has one.                               *)
LEMMA VictimsKept ==
  ASSUME Shape, Victims, NEW r \in Requests,
         \/ \E s \in Stages \ {"remove", "settle"} : \E p, g : Turns(r, s, p, g)
         \/ (\E s : Goto(r, s)) /\ req[r].todo # <<>>
  PROVE  Victims'
<1>1. CASE \E s \in Stages \ {"remove", "settle"} : \E p, g : Turns(r, s, p, g)
  BY <1>1 DEF Victims, Turns, Is, Becomes
<1>2. CASE (\E s : Goto(r, s)) /\ req[r].todo # <<>>
  <2>1. PICK s : req' = [req EXCEPT ![r].stage = s]
    BY <1>2 DEF Goto
  <2>2. req'[r].todo = req[r].todo /\ \A f \in Requests \ {r} : req'[f] = req[f]
    BY <2>1 DEF Shape, Fields
  <2> QED
    BY <1>2, <2>2 DEF Victims
<1> QED
  BY <1>1, <1>2

(* Every action keeps the types; CacheInv says that no reader count is      *)
(* decremented below zero and that what is stored is an artifact.           *)
LEMMA TypeStep ==
  ASSUME CacheInv, CacheInv', TypeInv, [Next]_vars
  PROVE  TypeInv'
<1> DEFINE Alike == UNCHANGED <<index, inflight, lastUsed, bytesUsed, fillLock, unlinkFailed>>
           Rest == /\ index' \in [Paths -> Uniq]
                   /\ inflight' \in [Paths -> Requests \cup {Orphan, None}]
                   /\ lastUsed' \in Uniq
                   /\ bytesUsed' \in Nat
                   /\ fillLock' \in Requests \cup {None}
                   /\ unlinkFailed' \in {"never", "earlier", "now"}
           Done == ReqTyped' /\ Rest /\ Victims'
<1>a. /\ Shape /\ Artifacts /\ OnPath /\ Victims
      /\ ReqTyped
      /\ index \in [Paths -> Uniq] /\ inflight \in [Paths -> Requests \cup {Orphan, None}]
      /\ lastUsed \in Uniq /\ bytesUsed \in Nat /\ fillLock \in Requests \cup {None}
      /\ unlinkFailed \in {"never", "earlier", "now"}
  BY DEF CacheInv, FlightInv, TypeInv, TypeOK, ReqTyped
<1>b. Done => TypeInv'
  BY DEF CacheInv, Artifacts, TypeInv, TypeOK, ReqTyped
<1>c. Alike => Rest
  BY <1>a
<1>d. UNCHANGED cache => Alike
  BY DEF cache, store, flight
<1>e. \A r \in Requests : req[r].todo \in Uniq /\ req[r].known \in Uniq /\ req[r].used \in Nat
  BY <1>a DEF ReqTyped, RequestStates
<1> USE DEF Stages
<1>1. ASSUME NEW r \in Requests, NEW p \in Paths, Arrive(r, p) PROVE Done
  <2>1. PICK s \in {"known", "subscribe"} :
          req' = [req EXCEPT ![r] = [NoReq EXCEPT !.stage = s, !.path = p,
                                                  !.leader = inflight[p]]]
    BY <1>1 DEF Arrive
  <2>2. ReqTyped'
    BY <1>a, <2>1, Retyped
  <2>3. Turns(r, s, p, None)
    BY <1>a, <2>1, Turning
  <2> QED
    BY <1>1, <1>a, <1>c, <1>d, <2>2, <2>3, VictimsKept DEF Arrive
<1>2. ASSUME NEW r \in Requests, Subscribe(r) \/ Streamed(r) \/ Commit(r) PROVE Done
  <2>1. PICK s \in {"waiting", "commit", "index", "rename"} : Goto(r, s)
    BY <1>2 DEF Subscribe, Streamed, Commit
  <2>2. s \in Stages \ {"remove", "settle"}
    OBVIOUS
  <2>3. ReqTyped' /\ Turns(r, s, req[r].path, req[r].got)
    BY <1>a, <2>1, <2>2, Retyped, Turning
  <2> QED
    BY <1>2, <1>a, <1>c, <1>d, <2>2, <2>3, VictimsKept DEF Subscribe, Streamed, Commit
<1>3. ASSUME NEW r \in Requests, TimeOut(r) \/ Bypass(r) PROVE Done
  <2>1. ReqTyped' /\ Turns(r, "idle", None, None)
    BY <1>a, <1>3, Retyped, Turning DEF TimeOut, Bypass
  <2> QED
    BY <1>3, <1>a, <1>c, <1>d, <2>1, VictimsKept DEF TimeOut, Bypass
<1>4. ASSUME NEW r \in Requests, ReadIndex(r) PROVE Done
  <2>1. index[req[r].path] \in Uniq
    BY <1>4, <1>a DEF ReadIndex, OnPath, At
  <2>2. ReqTyped'
    BY <1>4, <1>a, <2>1, Retyped DEF ReadIndex
  <2>3. Turns(r, "elect", req[r].path, req[r].got)
    BY <1>a, <1>4, Turning DEF ReadIndex
  <2> QED
    BY <1>4, <1>a, <1>c, <1>d, <2>2, <2>3, VictimsKept DEF ReadIndex
<1>5. ASSUME NEW r \in Requests, BecomeLeader(r) PROVE Done
  <2>1. ReqTyped' /\ Turns(r, "fetch", req[r].path, req[r].got)
    BY <1>a, <1>5, Retyped, Turning DEF BecomeLeader
  <2>2. Rest
    BY <1>a, <1>5 DEF BecomeLeader, store
  <2> QED
    BY <1>a, <2>1, <2>2, VictimsKept
<1>6. ASSUME NEW r \in Requests, NotModified(r) PROVE Done
  <2> DEFINE k == req[r].known
             a == upstream[req[r].path]
  <2>1. req[r].path \in Paths /\ a \in Digests
    BY <1>6, <1>a DEF NotModified, OnPath, At, Artifacts
  <2>2. Head(k) \in Digests
    <3>1. k # <<>>
      BY <1>6 DEF NotModified, Offered
    <3> QED
      BY <1>e, <3>1, FirstOff
  <2>3. req' = [req EXCEPT ![r].stage = "serve", ![r].got = Head(k), ![r].answer = a]
    BY <1>6 DEF NotModified
  <2> HIDE DEF k, a
  <2>4. ReqTyped'
    BY <1>a, <2>1, <2>2, <2>3, Retyped
  <2>5. Turns(r, "serve", req[r].path, Head(k))
    BY <1>a, <2>3, Turning
  <2> QED
    BY <1>6, <1>a, <1>c, <1>d, <2>4, <2>5, VictimsKept DEF NotModified
<1>7. ASSUME NEW r \in Requests, Sized(r) \/ Unsized(r) PROVE Done
  <2> DEFINE a == upstream[req[r].path]
  <2>1. req[r].path \in Paths /\ a \in Digests
    BY <1>7, <1>a DEF Sized, Unsized, OnPath, At, Artifacts
  <2>2. \/ \E s \in {"reserve", "stream"} :
              req' = [req EXCEPT ![r].stage = s, ![r].got = a, ![r].answer = a]
        \/ Over(r)
    BY <1>7 DEF Sized, Unsized
  <2>3. CASE Over(r)
    <3>1. ReqTyped' /\ Turns(r, "finish", req[r].path, None)
      BY <1>a, <2>3, Retyped, Turning
    <3> QED
      BY <1>7, <1>a, <1>c, <1>d, <3>1, VictimsKept DEF Sized, Unsized
  <2>4. ASSUME NEW s \in {"reserve", "stream"},
               req' = [req EXCEPT ![r].stage = s, ![r].got = a, ![r].answer = a]
        PROVE  Done
    <3>1. s \in Stages
      OBVIOUS
    <3> HIDE DEF a
    <3>2. ReqTyped'
      BY <1>a, <2>1, <2>4, <3>1, Retyped
    <3>3. Turns(r, s, req[r].path, a)
      BY <1>a, <2>4, Turning
    <3> QED
      BY <1>7, <1>a, <1>c, <1>d, <3>2, <3>3, VictimsKept DEF Sized, Unsized
  <2> QED
    BY <2>2, <2>3, <2>4
<1>8. ASSUME NEW r \in Requests, FetchFails(r) \/ StreamFails(r) PROVE Done
  <2>1. Over(r) /\ req[r].path \in Paths
    BY <1>8, <1>a DEF FetchFails, StreamFails, OnPath, At
  <2>2. ReqTyped' /\ Turns(r, "finish", req[r].path, None)
    BY <1>a, <2>1, Retyped, Turning
  <2> QED
    BY <1>8, <1>a, <1>c, <1>d, <2>2, VictimsKept DEF FetchFails, StreamFails
<1>9. ASSUME NEW r \in Requests, Reserve(r) PROVE Done
  <2>1. \/ Goto(r, "stream")
        \/ req' = [req EXCEPT ![r].stage = "evict", ![r].used = bytesUsed, ![r].todo = lastUsed]
    BY <1>9 DEF Reserve
  <2>2. ReqTyped'
    <3>1. CASE Goto(r, "stream")
      BY <1>a, <3>1, Retyped
    <3>2. CASE req' = [req EXCEPT ![r].stage = "evict", ![r].used = bytesUsed,
                                  ![r].todo = lastUsed]
      BY <1>a, <3>2, Retyped
    <3> QED
      BY <2>1, <3>1, <3>2
  <2>3. \E s \in {"stream", "evict"} : Turns(r, s, req[r].path, req[r].got)
    BY <1>a, <2>1, Turning
  <2>4. Rest
    BY <1>9, <1>a DEF Reserve, store
  <2> QED
    BY <1>a, <2>2, <2>3, <2>4, VictimsKept
<1>10. ASSUME NEW r \in Requests, EvictEnds(r) PROVE Done
  <2>1. \/ req' = [req EXCEPT ![r].stage = "stream", ![r].used = 0, ![r].todo = <<>>]
        \/ Over(r)
    BY <1>10 DEF EvictEnds
  <2>2. ReqTyped'
    <3>1. CASE req' = [req EXCEPT ![r].stage = "stream", ![r].used = 0, ![r].todo = <<>>]
      BY <1>a, <3>1, Retyped, NoDigests
    <3>2. CASE Over(r)
      BY <1>a, <3>2, Retyped
    <3> QED
      BY <2>1, <3>1, <3>2
  <2>3. \E s \in {"stream", "finish"} : \E g : Turns(r, s, req[r].path, g)
    BY <1>a, <2>1, Turning
  <2>4. Rest
    BY <1>10, <1>a DEF EvictEnds, store
  <2> QED
    BY <1>a, <2>2, <2>3, <2>4, VictimsKept
<1>11. ASSUME NEW r \in Requests, EvictNext(r) PROVE Done
  <2>1. req[r].todo # <<>> /\ Tail(req[r].todo) \in Uniq
    BY <1>11, <1>e, FirstOff DEF EvictNext
  <2>2. \/ req' = [req EXCEPT ![r].todo = Tail(req[r].todo)] /\ req[r].stage = "evict"
        \/ Goto(r, "remove")
    BY <1>11 DEF EvictNext, At
  <2>3. ReqTyped'
    BY <1>a, <2>1, <2>2, Retyped
  <2>4. Turns(r, "evict", req[r].path, req[r].got) \/ Goto(r, "remove")
    BY <1>a, <2>2, Turning
  <2>5. Victims'
    BY <1>a, <2>1, <2>4, VictimsKept
  <2> QED
    BY <1>11, <1>a, <1>c, <1>d, <2>3, <2>5 DEF EvictNext
<1>12. ASSUME NEW r \in Requests, EvictRemove(r) PROVE Done
  <2>1. req[r].todo # <<>> /\ Tail(req[r].todo) \in Uniq
    BY <1>12, <1>a, <1>e, FirstOff DEF EvictRemove, Victims, At
  <2>2. \/ req' = [req EXCEPT ![r].stage = "evict", ![r].todo = Tail(req[r].todo)]
        \/ Goto(r, "settle")
    BY <1>12 DEF EvictRemove
  <2>3. ReqTyped'
    BY <1>a, <2>1, <2>2, Retyped
  <2>4. Turns(r, "evict", req[r].path, req[r].got) \/ Goto(r, "settle")
    BY <1>a, <2>2, Turning
  <2>5. Victims'
    BY <1>a, <2>1, <2>4, VictimsKept
  <2>6. /\ UNCHANGED <<index, inflight, lastUsed, bytesUsed, fillLock>>
        /\ unlinkFailed' \in {unlinkFailed, "now"}
    BY <1>12 DEF EvictRemove, flight
  <2>7. Rest
    BY <1>a, <2>6
  <2> QED
    BY <2>3, <2>5, <2>7
<1>13. ASSUME NEW r \in Requests, EvictSettle(r) PROVE Done
  <2> DEFINE d == Head(req[r].todo)
             left == IF req[r].used < Size[d] THEN 0 ELSE req[r].used - Size[d]
  <2>1. d \in Digests /\ Tail(req[r].todo) \in Uniq
    BY <1>13, <1>a, <1>e, FirstOff DEF EvictSettle, Victims, At
  <2>2. left \in Nat
    BY <1>e, <2>1, CacheAssumption
  <2> HIDE DEF d, left
  <2>3. /\ bytesUsed' = left /\ lastUsed' = RemoveFirst(lastUsed, d)
        /\ index' = [p \in Paths |-> RemoveFirst(index[p], d)]
        /\ req' = [req EXCEPT ![r].stage = "evict", ![r].used = left,
                              ![r].todo = Tail(req[r].todo)]
        /\ UNCHANGED <<inflight, fillLock, unlinkFailed>>
    BY <1>13, Zenon DEF EvictSettle, flight, d, left
  <2>4. Rest
    BY <1>a, <2>2, <2>3, WithoutFirst
  <2>5. ReqTyped'
    BY <1>a, <2>1, <2>2, <2>3, Retyped
  <2>6. Turns(r, "evict", req[r].path, req[r].got)
    BY <1>a, <2>3, Turning
  <2> QED
    BY <1>a, <2>4, <2>5, <2>6, VictimsKept
<1>14. ASSUME NEW r \in Requests, Rename(r) \/ Count(r) PROVE Done
  <2>1. req[r].got \in Digests
    BY <1>14, <1>a DEF Rename, Count, Artifacts, Holding, At
  <2>2. bytesUsed + Size[req[r].got] \in Nat
    BY <1>a, <2>1, CacheAssumption
  <2>3. PICK s \in {"count", "index"} : Goto(r, s)
    BY <1>14 DEF Rename, Count
  <2>4. s \in Stages \ {"remove", "settle"}
    OBVIOUS
  <2>5. ReqTyped' /\ Turns(r, s, req[r].path, req[r].got)
    BY <1>a, <2>3, <2>4, Retyped, Turning
  <2>6. Rest
    BY <1>14, <1>a, <2>2 DEF Rename, Count, flight
  <2> QED
    BY <1>a, <2>4, <2>5, <2>6, VictimsKept
<1>15. ASSUME NEW r \in Requests, IndexBlob(r) PROVE Done
  <2> DEFINE d == req[r].got
  <2>1. d \in Digests /\ req[r].path \in Paths
    BY <1>15, <1>a DEF IndexBlob, Artifacts, Holding, OnPath, At
  <2>2. ReqTyped' /\ Turns(r, "finish", req[r].path, None)
    BY <1>15, <1>a, <2>1, Retyped, Turning DEF IndexBlob
  <2>3. /\ lastUsed' = Append(RemoveFirst(lastUsed, d), d)
        /\ index' = [index EXCEPT ![req[r].path] = <<d>> \o RemoveFirst(@, d)]
        /\ UNCHANGED <<inflight, bytesUsed, fillLock, unlinkFailed>>
    BY <1>15, Zenon DEF IndexBlob, Touch, flight
  <2>4. lastUsed' \in Uniq /\ <<d>> \o RemoveFirst(index[req[r].path], d) \in Uniq
    BY <1>a, <2>1, <2>3, Touched
  <2>5. Rest
    BY <1>a, <2>1, <2>3, <2>4
  <2> QED
    BY <1>a, <2>2, <2>5, VictimsKept
<1>16. ASSUME NEW r \in Requests, ServeBlob(r) \/ ReadBlob(r) PROVE Done
  <2>1. Goto(r, "read") \/ Over(r)
    BY <1>16 DEF ServeBlob, ReadBlob
  <2>2. ReqTyped'
    BY <1>16, <1>a, <2>1, Retyped DEF ServeBlob, ReadBlob, OnPath, At
  <2>3. \E s \in {"read", "finish"} : \E g : Turns(r, s, req[r].path, g)
    BY <1>a, <2>1, Turning
  <2>4. lastUsed' = lastUsed \/ (lastUsed' = Touch(req[r].got) /\ req[r].got \in Digests)
    BY <1>16, <1>a DEF ServeBlob, ReadBlob, Artifacts
  <2>5. lastUsed' \in Uniq
    <3>1. req[r].got \in Digests => Touch(req[r].got) \in Uniq
      BY <1>a, Touched DEF Touch
    <3> QED
      BY <1>a, <2>4, <3>1
  <2>6. Rest
    BY <1>16, <1>a, <2>5 DEF ServeBlob, ReadBlob, flight
  <2> QED
    BY <1>a, <2>2, <2>3, <2>6, VictimsKept
<1>17. ASSUME NEW r \in Requests, Finish(r) PROVE Done
  <2>1. \A f \in Requests :
          /\ req'[f] \in RequestStates
          /\ \/ req'[f].stage \in {"idle", "known"}
             \/ req'[f].stage = req[f].stage /\ req'[f].todo = req[f].todo
    <3> SUFFICES ASSUME NEW f \in Requests
                 PROVE  /\ req'[f] \in RequestStates
                        /\ \/ req'[f].stage \in {"idle", "known"}
                           \/ req'[f].stage = req[f].stage /\ req'[f].todo = req[f].todo
      OBVIOUS
    <3> DEFINE q == req[f]
    <3>1. NoReq \in RequestStates /\ NoReq.stage = "idle" /\ q \in RequestStates
      BY <1>a, NoDigests DEF ReqTyped, NoReq, RequestStates
    <3>2. [q EXCEPT !.leader = None] \in RequestStates
      BY <3>1, FieldTyped
    <3>3. [q EXCEPT !.stage = "known"] \in RequestStates
      BY <3>1, FieldTyped
    <3>4. [q EXCEPT !.stage = "known", !.leader = None] \in RequestStates
      BY <3>3, FieldTyped
    <3>5. /\ [q EXCEPT !.leader = None].stage = q.stage
          /\ [q EXCEPT !.leader = None].todo = q.todo
          /\ [q EXCEPT !.stage = "known", !.leader = None].stage = "known"
      BY <3>1 DEF RequestStates
    <3>6. req'[f] \in {NoReq, [q EXCEPT !.stage = "known", !.leader = None],
                       [q EXCEPT !.leader = None], q}
      BY <1>17 DEF Finish, Woken
    <3> QED
      BY <3>1, <3>2, <3>4, <3>5, <3>6
  <2>2. ReqTyped'
    BY <1>17, <2>1 DEF Finish, Woken, ReqTyped
  <2>3. Victims'
    BY <1>a, <2>1 DEF Victims
  <2>4. Rest
    BY <1>17, <1>a DEF Finish, store
  <2> QED
    BY <2>2, <2>3, <2>4
<1>18. ASSUME NEW r \in Requests, Cancel(r) PROVE Done
  <2>1. ReqTyped' /\ Turns(r, "idle", None, None)
    BY <1>18, <1>a, Retyped, Turning DEF Cancel
  <2>2. Rest
    BY <1>18, <1>a DEF Cancel, store
  <2> QED
    BY <1>a, <2>1, <2>2, VictimsKept
<1>19. ASSUME Restart PROVE Done
  <2>1. NoReq \in RequestStates /\ NoReq.stage = "idle"
    BY NoDigests DEF NoReq, RequestStates
  <2>2. ReqTyped' /\ Victims'
    BY <1>19, <2>1 DEF Restart, Victims, ReqTyped
  <2>3. lastUsed' \in Uniq
    BY <1>19, <1>a, Orders DEF Restart, Artifacts
  <2>4. bytesUsed' \in Nat
    BY <1>19, <1>a, BytesFinite DEF Restart, Artifacts
  <2>5. Rest
    BY <1>19, <1>a, <2>3, <2>4, NoDigests DEF Restart
  <2> QED
    BY <2>2, <2>5
<1>20. ASSUME UNCHANGED <<cache, req>> PROVE Done
  BY <1>20, <1>a, <1>c, <1>d DEF Victims, ReqTyped
<1>21. (\E p \in Paths, d \in Digests : Publish(p, d)) \/ UNCHANGED vars
         => UNCHANGED <<cache, req>>
  BY DEF Publish, vars
<1> QED
  BY <1>1, <1>2, <1>3, <1>4, <1>5, <1>6, <1>7, <1>8, <1>9, <1>10, <1>11, <1>12, <1>13,
     <1>14, <1>15, <1>16, <1>17, <1>18, <1>19, <1>20, <1>21, <1>b, Zenon
  DEF Next, Follow, Fill

LEMMA TypeInvariant == Spec => [](CacheInv /\ TypeInv)
  BY CacheInit, CacheStep, TypeInit, TypeStep, PTL DEF Spec

-----------------------------------------------------------------------------
(* The lock of the evictions.                                               *)
LEMMA LockInit == Init => LockHeldByEvictor
  BY CacheAssumption DEF Init, LockHeldByEvictor, NoReq, Evicting

(* The step of a request that does not take the lock or give it back.       *)
LEMMA LockSame ==
  ASSUME Shape, LockHeldByEvictor, NEW r \in Requests, fillLock' = fillLock,
         \E s, p, g : Turns(r, s, p, g) /\ (s \in Evicting <=> req[r].stage \in Evicting)
  PROVE  LockHeldByEvictor'
  BY DEF LockHeldByEvictor, Turns, Is, Becomes

(* fill_lock is taken by Reserve, given back by EvictEnds, Cancel and       *)
(* Restart, and no other action enters or leaves the eviction.              *)
LEMMA LockStep ==
  ASSUME CacheInv, LockHeldByEvictor, [Next]_vars
  PROVE  LockHeldByEvictor'
<1>a. Shape
  BY DEF CacheInv, FlightInv
<1>b. UNCHANGED cache => fillLock' = fillLock
  BY DEF cache, flight
<1> USE DEF Evicting, At
<1>1. ASSUME NEW r \in Requests, NEW p \in Paths, Arrive(r, p) PROVE LockHeldByEvictor'
  <2>1. \E s \in {"known", "subscribe"} : Turns(r, s, p, None)
    BY <1>1, <1>a, Turning, Zenon DEF Arrive
  <2> QED
    BY <1>1, <1>a, <1>b, <2>1, LockSame DEF Arrive
<1>2. ASSUME NEW r \in Requests, Follow(r) PROVE LockHeldByEvictor'
  <2>1. \E s \in {"waiting", "elect", "fetch", "idle"} : \E p, g : Turns(r, s, p, g)
    BY <1>2, <1>a, Turning DEF Follow, Subscribe, TimeOut, ReadIndex, BecomeLeader, Bypass
  <2>2. req[r].stage \notin Evicting /\ fillLock' = fillLock
    BY <1>2, <1>b DEF Follow, Subscribe, TimeOut, ReadIndex, BecomeLeader, Bypass
  <2> QED
    BY <1>a, <2>1, <2>2, LockSame
<1>3. ASSUME NEW r \in Requests, NotModified(r) \/ Sized(r) \/ Unsized(r)
      PROVE  LockHeldByEvictor'
  <2>1. req[r].stage = "fetch" /\ fillLock' = fillLock
    BY <1>3, <1>b DEF NotModified, Sized, Unsized
  <2>2. \/ \E s \in {"serve", "reserve", "stream"} : \E d, a :
             req' = [req EXCEPT ![r].stage = s, ![r].got = d, ![r].answer = a]
        \/ Over(r)
    BY <1>3, Zenon DEF NotModified, Sized, Unsized
  <2>3. \E s \in {"serve", "reserve", "stream", "finish"} : \E p, g : Turns(r, s, p, g)
    BY <1>a, <2>2, Turning
  <2> QED
    BY <1>a, <2>1, <2>3, LockSame
<1>4. ASSUME NEW r \in Requests,
             \/ FetchFails(r) \/ Streamed(r) \/ StreamFails(r) \/ Commit(r) \/ Rename(r)
             \/ Count(r) \/ IndexBlob(r) \/ ServeBlob(r) \/ ReadBlob(r)
      PROVE  LockHeldByEvictor'
  <2>1. req[r].stage \notin Evicting /\ fillLock' = fillLock
    BY <1>4, <1>b DEF FetchFails, Streamed, StreamFails, Commit, Rename, Count, IndexBlob,
       ServeBlob, ReadBlob, flight
  <2>2. Over(r) \/ \E s \in {"commit", "index", "rename", "count", "read"} : Goto(r, s)
    BY <1>4 DEF FetchFails, Streamed, StreamFails, Commit, Rename, Count, IndexBlob,
       ServeBlob, ReadBlob
  <2>3. \E s \in {"commit", "index", "rename", "count", "read", "finish"} :
          \E p, g : Turns(r, s, p, g)
    BY <1>a, <2>2, Turning
  <2> QED
    BY <1>a, <2>1, <2>3, LockSame
<1>5. ASSUME NEW r \in Requests, EvictNext(r) \/ EvictRemove(r) \/ EvictSettle(r)
      PROVE  LockHeldByEvictor'
  <2>1. req[r].stage \in Evicting /\ fillLock' = fillLock
    BY <1>5, <1>b, Zenon DEF EvictNext, EvictRemove, EvictSettle, flight
  <2>2. EvictNext(r) => \/ Turns(r, "evict", req[r].path, req[r].got)
                        \/ Turns(r, "remove", req[r].path, req[r].got)
    BY <1>a, Turning, Zenon DEF EvictNext
  <2>3. EvictRemove(r) => \/ Turns(r, "evict", req[r].path, req[r].got)
                          \/ Turns(r, "settle", req[r].path, req[r].got)
    BY <1>a, Turning, Zenon DEF EvictRemove
  <2>4. EvictSettle(r) => Turns(r, "evict", req[r].path, req[r].got)
    BY <1>a, Turning, Zenon DEF EvictSettle
  <2>5. \E s \in Evicting : \E p, g : Turns(r, s, p, g)
    BY <1>5, <2>2, <2>3, <2>4
  <2> QED
    BY <1>a, <2>1, <2>5, LockSame
<1>6. ASSUME NEW r \in Requests, Reserve(r) PROVE LockHeldByEvictor'
  <2>1. CASE Goto(r, "stream") /\ UNCHANGED fillLock
    <3>1. Turns(r, "stream", req[r].path, req[r].got)
      BY <1>a, <2>1, Turning
    <3> QED
      BY <1>6, <1>a, <2>1, <3>1, LockSame DEF Reserve
  <2>2. CASE fillLock' = r /\ req' = [req EXCEPT ![r].stage = "evict", ![r].used = bytesUsed,
                                                 ![r].todo = lastUsed]
    <3>1. Turns(r, "evict", req[r].path, req[r].got)
      BY <1>a, <2>2, Turning
    <3> QED
      BY <1>6, <2>2, <3>1, CacheAssumption DEF Reserve, LockHeldByEvictor, Turns, Is, Becomes
  <2> QED
    BY <1>6, <2>1, <2>2, Zenon DEF Reserve
<1>7. ASSUME NEW r \in Requests, EvictEnds(r) \/ Cancel(r) PROVE LockHeldByEvictor'
  <2>1. \E s \in {"stream", "finish", "idle"} : \E p, g : Turns(r, s, p, g)
    BY <1>7, <1>a, Turning DEF EvictEnds, Cancel
  <2>2. fillLock' = IF fillLock = r THEN None ELSE fillLock
    BY <1>7 DEF EvictEnds, Cancel, LockHeldByEvictor
  <2> QED
    BY <2>1, <2>2, CacheAssumption DEF LockHeldByEvictor, Turns, Is, Becomes
<1>8. ASSUME NEW r \in Requests, Finish(r) PROVE LockHeldByEvictor'
  <2>1. \A f \in Requests : req'[f].stage \in Evicting <=> req[f].stage \in Evicting
    <3> SUFFICES ASSUME NEW f \in Requests
                 PROVE  req'[f].stage \in Evicting <=> req[f].stage \in Evicting
      OBVIOUS
    <3>1. /\ NoReq.stage = "idle" /\ [req[f] EXCEPT !.leader = None].stage = req[f].stage
          /\ [req[f] EXCEPT !.stage = "known", !.leader = None].stage = "known"
      BY <1>a DEF NoReq, Shape, Fields
    <3>2. req[r].stage = "finish"
      BY <1>8 DEF Finish
    <3>3. \/ req'[f] \in {[req[f] EXCEPT !.leader = None], req[f]}
          \/ f = r /\ req'[f] = NoReq
          \/ /\ req'[f] = [req[f] EXCEPT !.stage = "known", !.leader = None]
             /\ req[f].stage = "waiting"
      BY <1>8 DEF Finish, Woken
    <3> QED
      BY <3>1, <3>2, <3>3
  <2> QED
    BY <1>8, <2>1 DEF Finish, LockHeldByEvictor
<1>9. ASSUME Restart PROVE LockHeldByEvictor'
  BY <1>9, CacheAssumption DEF Restart, LockHeldByEvictor, NoReq
<1>10. (\E p \in Paths, d \in Digests : Publish(p, d)) \/ UNCHANGED vars => LockHeldByEvictor'
  BY DEF Publish, vars, LockHeldByEvictor, cache, flight
<1> QED
  BY <1>1, <1>2, <1>3, <1>4, <1>5, <1>6, <1>7, <1>8, <1>9, <1>10, Zenon DEF Next, Fill

-----------------------------------------------------------------------------
(* The books, when requests come one at a time and none is dropped.         *)
OneAtATime  == \A r, f \in Requests : ~At(r, "idle") /\ ~At(f, "idle") => r = f
NoneDropped == \A r \in Requests : ~Cancel(r)

(* What may be stored without that room was made for it.                    *)
Unmeasured == UNION {Releases[p] : p \in Chunked}

(* What bytes_used counts and last_used lists (part of it only, once a file  *)
(* stayed that was to be removed) and what the paths may be mapped to.       *)
Apart(counted, listed, indexed) ==
    /\ bytesUsed <= TotalSize(counted)
    /\ ToSet(lastUsed) \subseteq listed
    /\ unlinkFailed # "now" =>
         bytesUsed = TotalSize(counted) /\ ToSet(lastUsed) = listed
    /\ \A p \in Paths : ToSet(index[p]) \subseteq indexed

Exact == Apart(blobs, blobs, blobs)

BooksOf(r) ==
    LET got    == req[r].got
        victim == Head(req[r].todo)
    IN
    /\ req[r].stage \notin {"settle", "count", "index"} => Exact
    /\ req[r].stage = "settle" =>
         /\ victim \in blobs => unlinkFailed = "now"
         /\ Apart(blobs \cup {victim}, blobs \cup {victim}, blobs \cup {victim})
    /\ req[r].stage = "count" =>
         got \in blobs /\ Apart(blobs \ {got}, blobs \ {got}, blobs)
    /\ req[r].stage = "index" =>
         got \in blobs /\ (Exact \/ Apart(blobs, blobs \ {got}, blobs))
    /\ req[r].stage \in Evicting => req[r].used = bytesUsed
    /\ req[r].stage = "rename" => got \notin blobs
    /\ req[r].stage \in {"stream", "commit", "rename"} =>
         \/ got \in Unmeasured
         \/ unlinkFailed = "never" => TotalSize(blobs) + Size[got] <= Budget

BooksInv ==
    /\ \A p \in Paths : upstream[p] \in Releases[p]
    /\ unlinkFailed = "never" => TotalSize(blobs \ Unmeasured) <= Budget
    /\ Quiet => Exact
    /\ \A r \in Requests : ~At(r, "idle") => BooksOf(r)

LEMMA BooksInit == Init => BooksInv
<1> SUFFICES ASSUME Init PROVE BooksInv
  OBVIOUS
<1>1. Exact
  BY NoSize, NoDigests DEF Init, Exact, Apart
<1>2. TotalSize(blobs \ Unmeasured) <= Budget
  <2>1. blobs \ Unmeasured = {}
    BY DEF Init
  <2>2. TotalSize(blobs \ Unmeasured) = 0
    BY <2>1, NoSize
  <2> QED
    BY <2>2, CacheAssumption
<1>3. \A r \in Requests : At(r, "idle")
  BY DEF Init, NoReq, At
<1> QED
  BY <1>1, <1>2, <1>3 DEF Init, BooksInv

(* What the updates of a request leave in it.                               *)
LEMMA Updated ==
  ASSUME ReqTyped, NEW r \in Requests, NEW s, NEW d, NEW a, NEW u, NEW t
  PROVE  /\ Goto(r, s) => /\ req'[r].stage = s /\ req'[r].got = req[r].got
                          /\ req'[r].used = req[r].used /\ req'[r].todo = req[r].todo
         /\ req' = [req EXCEPT ![r].stage = s, ![r].got = d, ![r].answer = a]
              => req'[r].stage = s /\ req'[r].got = d
         /\ req' = [req EXCEPT ![r].stage = s, ![r].used = u, ![r].todo = t]
              => /\ req'[r].stage = s /\ req'[r].got = req[r].got
                 /\ req'[r].used = u /\ req'[r].todo = t
         /\ req' = [req EXCEPT ![r].stage = s, ![r].todo = t]
              => /\ req'[r].stage = s /\ req'[r].got = req[r].got
                 /\ req'[r].used = req[r].used /\ req'[r].todo = t
         /\ req' = [req EXCEPT ![r].todo = t]
              => /\ req'[r].stage = req[r].stage /\ req'[r].got = req[r].got
                 /\ req'[r].used = req[r].used /\ req'[r].todo = t
         /\ Over(r) => req'[r].stage = "finish"
<1>1. Goto(r, s) => /\ req'[r].stage = s /\ req'[r].got = req[r].got
                    /\ req'[r].used = req[r].used /\ req'[r].todo = req[r].todo
  BY DEF ReqTyped, RequestStates, Goto
<1>2. req' = [req EXCEPT ![r].stage = s, ![r].got = d, ![r].answer = a]
        => req'[r].stage = s /\ req'[r].got = d
  BY DEF ReqTyped, RequestStates
<1>3. req' = [req EXCEPT ![r].stage = s, ![r].used = u, ![r].todo = t]
        => /\ req'[r].stage = s /\ req'[r].got = req[r].got
           /\ req'[r].used = u /\ req'[r].todo = t
  BY DEF ReqTyped, RequestStates
<1>4. req' = [req EXCEPT ![r].stage = s, ![r].todo = t]
        => /\ req'[r].stage = s /\ req'[r].got = req[r].got
           /\ req'[r].used = req[r].used /\ req'[r].todo = t
  BY DEF ReqTyped, RequestStates
<1>5. req' = [req EXCEPT ![r].todo = t]
        => /\ req'[r].stage = req[r].stage /\ req'[r].got = req[r].got
           /\ req'[r].used = req[r].used /\ req'[r].todo = t
  BY DEF ReqTyped, RequestStates
<1>6. Over(r) => req'[r].stage = "finish"
  BY DEF ReqTyped, RequestStates, Over, NoReq
<1> QED
  BY <1>1, <1>2, <1>3, <1>4, <1>5, <1>6

(* The invariant of the request that is in progress, and of the rest.       *)
Alone(r) == \A f \in Requests \ {r} : req[f].stage = "idle"

Within ==
    /\ \A p \in Paths : upstream[p] \in Releases[p]
    /\ unlinkFailed = "never" => TotalSize(blobs \ Unmeasured) <= Budget

Sole(r) == Alone(r) /\ Within /\ BooksOf(r)

(* What has to be shown of a step of the request in progress,               *)
LEMMA SoleBooks ==
  ASSUME NEW r \in Requests, Sole(r)'
  PROVE  BooksInv'
<1>1. At(r, "idle")' => Exact'
  BY DEF Sole, BooksOf, At
<1> QED
  BY <1>1 DEF Sole, Alone, Within, BooksInv, Quiet, At

(* ... and what is known before it.                                         *)
LEMMA BooksSole ==
  ASSUME BooksInv, OneAtATime, NEW r \in Requests,
         At(r, "idle") => Quiet
  PROVE  Sole(r)
  BY DEF BooksInv, OneAtATime, Sole, Alone, Within, BooksOf, Quiet, At, Evicting

(* A step of the sole request that leaves the blobs alone.                  *)
LEMMA OthersIdle ==
  ASSUME NEW r \in Requests, Sole(r), UNCHANGED <<blobs, unlinkFailed, upstream>>,
         \A f \in Requests \ {r} : req'[f].stage = req[f].stage
  PROVE  Alone(r)' /\ Within'
  BY DEF Sole, Alone, Within

(* Steps between which the books are exact.                                 *)
Plain == Stages \ ({"settle", "count", "index", "rename", "stream", "commit"} \cup Evicting)

LEMMA PlainStep ==
  ASSUME NEW r \in Requests, Sole(r), Alone(r)', Within',
         Exact', req'[r].stage \in Plain
  PROVE  Sole(r)'
  BY DEF Sole, BooksOf, Plain, Evicting

(* Every action keeps the books, as long as the request that takes it is    *)
(* the only one.                                                            *)
LEMMA BooksStep ==
  ASSUME CacheInv, TypeInv, BooksInv, OneAtATime, OneAtATime', [Next]_vars,
         [NoneDropped]_vars
  PROVE  BooksInv'
<1>a. ReqTyped /\ Shape /\ Artifacts /\ Victims
  BY DEF TypeInv, TypeOK, ReqTyped, CacheInv, FlightInv
<1>b. /\ index \in [Paths -> Uniq] /\ lastUsed \in Uniq /\ bytesUsed \in Nat
      /\ \A r \in Requests : req[r].todo \in Uniq
  BY DEF TypeInv, TypeOK, RequestStates
<1>c. UNCHANGED cache => UNCHANGED <<blobs, index, lastUsed, bytesUsed, unlinkFailed>>
  BY DEF cache, store
<1>d. UNCHANGED <<blobs, index, lastUsed, bytesUsed, unlinkFailed>> /\ Exact => Exact'
  BY DEF Exact, Apart
<1>e. \A r \in Requests : \A s, p, g : Turns(r, s, p, g) =>
        req'[r].stage = s /\ \A f \in Requests \ {r} : req'[f] = req[f]
  BY DEF Turns, Is, Becomes
<1>1. ASSUME NEW r \in Requests, NEW p \in Paths, Arrive(r, p) PROVE BooksInv'
  <2>1. PICK s \in {"known", "subscribe"} : Turns(r, s, p, None)
    BY <1>1, <1>a, Turning, Zenon DEF Arrive
  <2>2. \A f \in Requests \ {r} : req[f].stage = "idle"
    BY <1>e, <2>1 DEF OneAtATime, At
  <2>3. Sole(r) /\ Exact
    BY <1>1, <2>2, BooksSole DEF Arrive, Quiet, At, BooksInv
  <2>4. UNCHANGED <<blobs, index, lastUsed, bytesUsed, unlinkFailed, upstream>>
    BY <1>1, <1>c DEF Arrive
  <2>5. Alone(r)' /\ Within' /\ Exact'
    BY <1>d, <1>e, <2>1, <2>3, <2>4, OthersIdle
  <2> QED
    BY <1>e, <2>1, <2>3, <2>5, PlainStep, SoleBooks DEF Plain, Stages, Evicting
<1>f. ASSUME NEW r \in Requests, ~At(r, "idle")
      PROVE  Sole(r) /\ (req[r].stage \notin {"settle", "count", "index"} => Exact)
  BY <1>f, BooksSole DEF Sole, BooksOf
<1>g. ASSUME NEW r \in Requests, req[r].stage \notin {"idle", "settle", "count", "index"},
             UNCHANGED <<blobs, index, lastUsed, bytesUsed, unlinkFailed, upstream>>,
             \E s \in Plain : \E p, g : Turns(r, s, p, g)
      PROVE  BooksInv'
  <2>1. Sole(r) /\ Exact /\ req'[r].stage \in Plain
        /\ \A f \in Requests \ {r} : req'[f] = req[f]
    BY <1>g, <1>f, <1>e DEF At
  <2>2. Alone(r)' /\ Within' /\ Exact'
    BY <1>g, <1>d, <2>1, OthersIdle
  <2> QED
    BY <2>1, <2>2, PlainStep, SoleBooks
<1>2. ASSUME NEW r \in Requests,
             \/ Subscribe(r) \/ TimeOut(r) \/ ReadIndex(r) \/ BecomeLeader(r) \/ Bypass(r)
      PROVE  BooksInv'
  <2>1. /\ req[r].stage \in {"subscribe", "waiting", "known", "elect"}
        /\ UNCHANGED <<blobs, index, lastUsed, bytesUsed, unlinkFailed, upstream>>
    BY <1>2, <1>c DEF Subscribe, TimeOut, ReadIndex, BecomeLeader, Bypass, At, store
  <2>2. \E s \in {"waiting", "elect", "fetch", "idle"} : \E p, g : Turns(r, s, p, g)
    BY <1>2, <1>a, Turning DEF Subscribe, TimeOut, ReadIndex, BecomeLeader, Bypass
  <2> QED
    BY <1>g, <2>1, <2>2 DEF Plain, Stages, Evicting
<1>3. ASSUME NEW r \in Requests, NotModified(r) \/ Sized(r) PROVE BooksInv'
  <2>1. /\ req[r].stage = "fetch"
        /\ UNCHANGED <<blobs, index, lastUsed, bytesUsed, unlinkFailed, upstream>>
    BY <1>3, <1>c DEF NotModified, Sized, At
  <2>2. \/ \E s \in {"serve", "reserve"} : \E d, a :
             req' = [req EXCEPT ![r].stage = s, ![r].got = d, ![r].answer = a]
        \/ Over(r)
    BY <1>3, Zenon DEF NotModified, Sized
  <2>3. \E s \in {"serve", "reserve", "finish"} : \E p, g : Turns(r, s, p, g)
    BY <1>a, <2>2, Turning
  <2> QED
    BY <1>g, <2>1, <2>3 DEF Plain, Stages, Evicting
<1>4. ASSUME NEW r \in Requests,
             \/ FetchFails(r) \/ StreamFails(r) \/ ReadBlob(r)
             \/ EvictEnds(r) /\ ~Room(req[r].used, r)
             \/ ServeBlob(r) /\ req[r].got \notin blobs
      PROVE  BooksInv'
  <2>1. /\ req[r].stage \in {"fetch", "stream", "rename", "read", "evict", "serve"} /\ Over(r)
        /\ UNCHANGED <<blobs, index, lastUsed, bytesUsed, unlinkFailed, upstream>>
    BY <1>4, <1>c DEF FetchFails, StreamFails, ReadBlob, EvictEnds, ServeBlob, At, store
  <2>2. Turns(r, "finish", req[r].path, None)
    BY <1>a, <2>1, Turning
  <2> QED
    BY <1>g, <2>1, <2>2 DEF Plain, Stages, Evicting
<1>5. ASSUME NEW r \in Requests, ServeBlob(r), req[r].got \in blobs PROVE BooksInv'
  <2>1. /\ req[r].stage = "serve" /\ Goto(r, "read") /\ lastUsed' = Touch(req[r].got)
        /\ UNCHANGED <<blobs, index, bytesUsed, unlinkFailed, upstream>>
    BY <1>5 DEF ServeBlob, At
  <2>2. Turns(r, "read", req[r].path, req[r].got)
    BY <1>a, <2>1, Turning
  <2>3. Sole(r) /\ Exact
    BY <1>f, <2>1 DEF At
  <2>4. ToSet(lastUsed') = ToSet(lastUsed) \cup {req[r].got}
    BY <1>a, <1>b, <1>5, <2>1, Touched DEF Touch, Artifacts
  <2>5. Exact'
    BY <1>5, <2>1, <2>3, <2>4 DEF Exact, Apart
  <2>6. Alone(r)' /\ Within'
    BY <1>e, <2>1, <2>2, <2>3, OthersIdle
  <2> QED
    BY <1>e, <2>2, <2>3, <2>5, <2>6, PlainStep, SoleBooks DEF Plain, Stages, Evicting
<1>6. ASSUME NEW r \in Requests, Unsized(r) PROVE BooksInv'
  <2> DEFINE d == upstream[req[r].path]
  <2>1. /\ req[r].stage = "fetch"
        /\ UNCHANGED <<blobs, index, lastUsed, bytesUsed, unlinkFailed, upstream>>
        /\ req' = [req EXCEPT ![r].stage = "stream", ![r].got = d, ![r].answer = d]
        /\ req[r].path \in Chunked
    BY <1>6, <1>c DEF Unsized, At
  <2>2. Turns(r, "stream", req[r].path, d)
    BY <1>a, <2>1, Turning
  <2>3. Sole(r) /\ Exact
    BY <1>f, <2>1 DEF At
  <2>4. d \in Unmeasured
    BY <2>1, CacheAssumption DEF BooksInv, Unmeasured
  <2>5. req'[r].stage = "stream" /\ req'[r].got = d
    BY <1>a, <2>1, Updated
  <2>6. Alone(r)' /\ Within' /\ Exact'
    BY <1>d, <1>e, <2>1, <2>2, <2>3, OthersIdle
  <2>7. BooksOf(r)'
    BY <2>4, <2>5, <2>6 DEF BooksOf, Evicting
  <2> QED
    BY <2>6, <2>7, SoleBooks DEF Sole
<1>7. ASSUME NEW r \in Requests, Reserve(r) PROVE BooksInv'
  <2>1. /\ req[r].stage = "reserve"
        /\ UNCHANGED <<blobs, index, lastUsed, bytesUsed, unlinkFailed, upstream>>
    BY <1>7 DEF Reserve, At, store
  <2>2. Sole(r) /\ Exact
    BY <1>f, <2>1 DEF At
  <2>3. CASE Room(bytesUsed, r) /\ Goto(r, "stream")
    <3>1. Turns(r, "stream", req[r].path, req[r].got)
      BY <1>a, <2>3, Turning
    <3>2. Alone(r)' /\ Within' /\ Exact'
      BY <1>d, <1>e, <2>1, <2>2, <3>1, OthersIdle
    <3>3. req'[r].stage = "stream" /\ req'[r].got = req[r].got
      BY <1>a, <2>3, Updated
    <3>4. unlinkFailed' = "never" => TotalSize(blobs') + Size[req'[r].got] <= Budget
      BY <2>1, <2>2, <2>3, <3>3 DEF Room, Exact, Apart
    <3>5. BooksOf(r)'
      BY <3>2, <3>3, <3>4 DEF BooksOf, Evicting
    <3> QED
      BY <3>2, <3>5, SoleBooks DEF Sole
  <2>4. CASE req' = [req EXCEPT ![r].stage = "evict", ![r].used = bytesUsed,
                                ![r].todo = lastUsed]
    <3>1. Turns(r, "evict", req[r].path, req[r].got)
      BY <1>a, <2>4, Turning
    <3>2. Alone(r)' /\ Within' /\ Exact'
      BY <1>d, <1>e, <2>1, <2>2, <3>1, OthersIdle
    <3>3. req'[r].stage = "evict" /\ req'[r].used = bytesUsed
      BY <1>a, <2>4 DEF ReqTyped, RequestStates
    <3>4. BooksOf(r)'
      BY <2>1, <3>2, <3>3 DEF BooksOf
    <3> QED
      BY <3>2, <3>4, SoleBooks DEF Sole
  <2> QED
    BY <1>7, <2>3, <2>4 DEF Reserve
<1>8. ASSUME NEW r \in Requests, EvictEnds(r), Room(req[r].used, r) PROVE BooksInv'
  <2>1. /\ req[r].stage = "evict"
        /\ UNCHANGED <<blobs, index, lastUsed, bytesUsed, unlinkFailed, upstream>>
        /\ req' = [req EXCEPT ![r].stage = "stream", ![r].used = 0, ![r].todo = <<>>]
    BY <1>8 DEF EvictEnds, At, store
  <2>2. Sole(r) /\ Exact /\ req[r].used = bytesUsed
    BY <1>f, <2>1 DEF At, Sole, BooksOf, Evicting
  <2>3. Turns(r, "stream", req[r].path, req[r].got)
    BY <1>a, <2>1, Turning
  <2>4. Alone(r)' /\ Within' /\ Exact'
    BY <1>d, <1>e, <2>1, <2>2, <2>3, OthersIdle
  <2>5. req'[r].stage = "stream" /\ req'[r].got = req[r].got
    BY <1>a, <2>1, Updated
  <2>6. unlinkFailed' = "never" => TotalSize(blobs') + Size[req'[r].got] <= Budget
    BY <1>8, <2>1, <2>2, <2>5 DEF Room, Exact, Apart
  <2>7. BooksOf(r)'
    BY <2>4, <2>5, <2>6 DEF BooksOf, Evicting
  <2> QED
    BY <2>4, <2>7, SoleBooks DEF Sole
<1>9. ASSUME NEW r \in Requests, EvictNext(r) PROVE BooksInv'
  <2>1. /\ req[r].stage = "evict"
        /\ UNCHANGED <<blobs, index, lastUsed, bytesUsed, unlinkFailed, upstream>>
        /\ \/ req' = [req EXCEPT ![r].todo = Tail(req[r].todo)]
           \/ Goto(r, "remove")
    BY <1>9, <1>c DEF EvictNext, At
  <2>2. Sole(r) /\ Exact /\ req[r].used = bytesUsed
    BY <1>f, <2>1 DEF At, Sole, BooksOf, Evicting
  <2>3. \E s \in {"evict", "remove"} : Turns(r, s, req[r].path, req[r].got)
    BY <1>a, <2>1, Turning
  <2>4. Alone(r)' /\ Within' /\ Exact'
    BY <1>d, <1>e, <2>1, <2>2, <2>3, OthersIdle
  <2>5. req'[r].stage \in {"evict", "remove"} /\ req'[r].used = req[r].used
    BY <1>a, <2>1, Updated
  <2>6. BooksOf(r)'
    BY <2>1, <2>2, <2>4, <2>5 DEF BooksOf, Evicting
  <2> QED
    BY <2>4, <2>6, SoleBooks DEF Sole
<1>10. ASSUME NEW r \in Requests, EvictRemove(r) PROVE BooksInv'
  <2> DEFINE d == Head(req[r].todo)
  <2>1. /\ req[r].stage = "remove" /\ UNCHANGED <<index, lastUsed, bytesUsed, upstream>>
        /\ req[r].todo # <<>>
    BY <1>10, <1>a DEF EvictRemove, Victims, At
  <2>2. Sole(r) /\ Exact /\ req[r].used = bytesUsed
    BY <1>f, <2>1 DEF At, Sole, BooksOf, Evicting
  <2>3. CASE /\ req' = [req EXCEPT ![r].stage = "evict", ![r].todo = Tail(req[r].todo)]
             /\ UNCHANGED <<blobs, unlinkFailed>>
    <3>1. /\ req' = [req EXCEPT ![r].stage = "evict", ![r].todo = Tail(req[r].todo)]
          /\ UNCHANGED <<blobs, unlinkFailed>>
      BY <2>3
    <3>2. Turns(r, "evict", req[r].path, req[r].got)
      BY <1>a, <3>1, Turning
    <3>3. Alone(r)' /\ Within' /\ Exact'
      BY <1>d, <1>e, <2>1, <2>2, <3>1, <3>2, OthersIdle
    <3>4. req'[r].stage = "evict" /\ req'[r].used = req[r].used
      BY <1>a, <3>1, Updated
    <3>5. BooksOf(r)'
      BY <2>1, <2>2, <3>3, <3>4 DEF BooksOf, Evicting
    <3> QED
      BY <3>3, <3>5, SoleBooks DEF Sole
  <2>4. CASE /\ d \in blobs /\ Goto(r, "settle")
             /\ blobs' = blobs \ {d} /\ UNCHANGED unlinkFailed
    <3>1. Goto(r, "settle") /\ blobs' = blobs \ {d} /\ unlinkFailed' = unlinkFailed
      BY <2>4
    <3>2. Turns(r, "settle", req[r].path, req[r].got)
      BY <1>a, <3>1, Turning
    <3>3. Alone(r)'
      BY <1>e, <2>2, <3>2 DEF Sole, Alone
    <3>4. Within'
      <4>1. TotalSize(blobs' \ Unmeasured) <= TotalSize(blobs \ Unmeasured)
        <5>1. /\ blobs' \ Unmeasured \in SUBSET Digests /\ blobs \ Unmeasured \in SUBSET Digests
              /\ blobs' \ Unmeasured \subseteq blobs \ Unmeasured
          BY <1>a, <3>1 DEF Artifacts
        <5> QED
          BY <5>1, BytesOfBoth
      <4>2. TotalSize(blobs' \ Unmeasured) \in Nat /\ TotalSize(blobs \ Unmeasured) \in Nat
        BY <1>a, <3>1, BytesFinite DEF Artifacts
      <4> QED
        BY <2>1, <2>2, <3>1, <4>1, <4>2, CacheAssumption DEF Sole, Within
    <3>5. req'[r].stage = "settle" /\ req'[r].used = req[r].used /\ req'[r].todo = req[r].todo
      BY <1>a, <3>1, Updated
    <3>6. blobs' \cup {d} = blobs /\ d \notin blobs'
      BY <2>4, <3>1
    <3>7. BooksOf(r)'
      BY <2>1, <2>2, <3>1, <3>5, <3>6 DEF BooksOf, Evicting, Exact, Apart
    <3> QED
      BY <3>3, <3>4, <3>7, SoleBooks DEF Sole
  <2>5. CASE /\ d \in blobs /\ Goto(r, "settle")
             /\ unlinkFailed' = "now" /\ UNCHANGED blobs
    <3>1. Turns(r, "settle", req[r].path, req[r].got)
      BY <1>a, <2>5, Turning
    <3>2. Alone(r)' /\ Within'
      BY <1>e, <2>1, <2>2, <2>5, <3>1 DEF Sole, Alone, Within
    <3>3. req'[r].stage = "settle" /\ req'[r].used = req[r].used /\ req'[r].todo = req[r].todo
      BY <1>a, <2>5, Updated
    <3>4. blobs' \cup {d} = blobs
      BY <2>5
    <3>5. BooksOf(r)'
      BY <2>1, <2>2, <2>5, <3>3, <3>4 DEF BooksOf, Evicting, Exact, Apart
    <3> QED
      BY <3>2, <3>5, SoleBooks DEF Sole
  <2> QED
    BY <1>10, <2>3, <2>4, <2>5, Zenon DEF EvictRemove, d
<1>11. ASSUME NEW r \in Requests, EvictSettle(r) PROVE BooksInv'
  <2> DEFINE d == Head(req[r].todo)
             left == IF req[r].used < Size[d] THEN 0 ELSE req[r].used - Size[d]
  <2>1. req[r].stage = "settle" /\ req[r].todo # <<>>
    BY <1>11, <1>a DEF EvictSettle, Victims, At
  <2>2. d \in Digests
    BY <1>b, <2>1, FirstOff
  <2>3. /\ Sole(r) /\ req[r].used = bytesUsed /\ (d \in blobs => unlinkFailed = "now")
        /\ Apart(blobs \cup {d}, blobs \cup {d}, blobs \cup {d})
    BY <1>f, <2>1 DEF At, Sole, BooksOf, Evicting
  <2>4. left <= TotalSize(blobs) /\ (unlinkFailed # "now" => left = TotalSize(blobs))
    <3>1. TotalSize(blobs) \in Nat /\ Size[d] \in Nat /\ bytesUsed \in Nat
      BY <1>a, <1>b, <2>2, BytesFinite, CacheAssumption DEF Artifacts
    <3>2. CASE d \in blobs
      <4>1. blobs \cup {d} = blobs
        BY <3>2
      <4>2. bytesUsed <= TotalSize(blobs) /\ unlinkFailed = "now"
        BY <2>3, <3>2, <4>1 DEF Apart
      <4> QED
        BY <2>3, <3>1, <4>2
    <3>3. CASE d \notin blobs
      <4>1. TotalSize(blobs \cup {d}) = TotalSize(blobs) + Size[d]
        BY <1>a, <2>2, <3>3, OneMoreSize DEF Artifacts
      <4> QED
        BY <2>3, <3>1, <4>1 DEF Apart
    <3> QED
      BY <3>2, <3>3
  <2> HIDE DEF d, left
  <2>5. /\ bytesUsed' = left /\ lastUsed' = RemoveFirst(lastUsed, d)
        /\ index' = [p \in Paths |-> RemoveFirst(index[p], d)]
        /\ req' = [req EXCEPT ![r].stage = "evict", ![r].used = left,
                              ![r].todo = Tail(req[r].todo)]
        /\ UNCHANGED <<blobs, unlinkFailed, upstream>>
    BY <1>11, Zenon DEF EvictSettle, d, left
  <2>6. Turns(r, "evict", req[r].path, req[r].got)
    BY <1>a, <2>5, Turning
  <2>7. Alone(r)' /\ Within'
    BY <1>e, <2>3, <2>5, <2>6, OthersIdle
  <2>8. Exact'
    <3>1. ToSet(lastUsed') = ToSet(lastUsed) \ {d}
      BY <1>b, <2>5, WithoutFirst
    <3>2. \A p \in Paths : ToSet(index'[p]) = ToSet(index[p]) \ {d}
      BY <1>b, <2>5, WithoutFirst
    <3> QED
      BY <2>3, <2>4, <2>5, <3>1, <3>2 DEF Exact, Apart
  <2>9. req'[r].stage = "evict" /\ req'[r].used = left
    BY <1>a, <2>5 DEF ReqTyped, RequestStates
  <2>10. BooksOf(r)'
    BY <2>5, <2>8, <2>9 DEF BooksOf
  <2> QED
    BY <2>7, <2>10, SoleBooks DEF Sole
<1>12. ASSUME NEW r \in Requests, Streamed(r) \/ Commit(r) PROVE BooksInv'
  <2>1. PICK s \in {"commit", "index", "rename"} :
          /\ Goto(r, s)
          /\ s = "index" => req[r].got \in blobs
          /\ s = "rename" => req[r].got \notin blobs
    BY <1>12 DEF Streamed, Commit
  <2>2. /\ req[r].stage \in {"stream", "commit"}
        /\ UNCHANGED <<blobs, index, lastUsed, bytesUsed, unlinkFailed, upstream>>
    BY <1>12, <1>c DEF Streamed, Commit, At
  <2>3. /\ Sole(r) /\ Exact
        /\ \/ req[r].got \in Unmeasured
           \/ unlinkFailed = "never" => TotalSize(blobs) + Size[req[r].got] <= Budget
    BY <1>f, <2>2 DEF At, Sole, BooksOf
  <2>4. Turns(r, s, req[r].path, req[r].got)
    BY <1>a, <2>1, Turning
  <2>5. Alone(r)' /\ Within' /\ Exact'
    BY <1>d, <1>e, <2>2, <2>3, <2>4, OthersIdle
  <2>6. req'[r].stage = s /\ req'[r].got = req[r].got
    BY <1>a, <2>1, Updated
  <2>7. BooksOf(r)'
    BY <2>1, <2>2, <2>3, <2>5, <2>6 DEF BooksOf, Evicting
  <2> QED
    BY <2>5, <2>7, SoleBooks DEF Sole
<1>13. ASSUME NEW r \in Requests, Rename(r) PROVE BooksInv'
  <2> DEFINE d == req[r].got
  <2>1. /\ req[r].stage = "rename" /\ Goto(r, "count") /\ blobs' = blobs \cup {d}
        /\ UNCHANGED <<index, lastUsed, bytesUsed, unlinkFailed, upstream>>
    BY <1>13 DEF Rename, At
  <2>2. /\ Sole(r) /\ Exact /\ d \notin blobs
        /\ \/ d \in Unmeasured
           \/ unlinkFailed = "never" => TotalSize(blobs) + Size[d] <= Budget
    BY <1>f, <2>1 DEF At, Sole, BooksOf
  <2>3. Turns(r, "count", req[r].path, d)
    BY <1>a, <2>1, Turning
  <2>4. Alone(r)'
    BY <1>e, <2>2, <2>3 DEF Sole, Alone
  <2>5. d \in Digests /\ blobs \in SUBSET Digests
    BY <1>a, <2>1 DEF Artifacts, Holding
  <2>6. Within'
    <3>1. CASE d \in Unmeasured
      <4>1. blobs' \ Unmeasured = blobs \ Unmeasured
        BY <2>1, <3>1
      <4> QED
        BY <2>1, <2>2, <4>1 DEF Sole, Within
    <3>2. CASE d \notin Unmeasured
      <4>1. /\ TotalSize(blobs \cup {d}) = TotalSize(blobs) + Size[d]
            /\ TotalSize(blobs \cup {d}) \in Nat
        BY <2>2, <2>5, OneMoreSize, BytesFinite
      <4>2. /\ TotalSize(blobs' \ Unmeasured) <= TotalSize(blobs \cup {d})
            /\ TotalSize(blobs' \ Unmeasured) \in Nat
        <5>1. /\ blobs' \ Unmeasured \in SUBSET Digests /\ blobs \cup {d} \in SUBSET Digests
              /\ blobs' \ Unmeasured \subseteq blobs \cup {d}
          BY <2>1, <2>5
        <5> QED
          BY <5>1, BytesOfBoth, BytesFinite
      <4> QED
        BY <2>1, <2>2, <3>2, <4>1, <4>2, CacheAssumption DEF Sole, Within
    <3> QED
      BY <3>1, <3>2
  <2>7. req'[r].stage = "count" /\ req'[r].got = d
    BY <1>a, <2>1, Updated
  <2>8. blobs' \ {d} = blobs
    BY <2>1, <2>2
  <2>9. BooksOf(r)'
    BY <2>1, <2>2, <2>7, <2>8 DEF BooksOf, Evicting, Exact, Apart
  <2> QED
    BY <2>4, <2>6, <2>9, SoleBooks DEF Sole
<1>14. ASSUME NEW r \in Requests, Count(r) PROVE BooksInv'
  <2> DEFINE d == req[r].got
  <2>1. /\ req[r].stage = "count" /\ Goto(r, "index") /\ bytesUsed' = bytesUsed + Size[d]
        /\ UNCHANGED <<blobs, index, lastUsed, unlinkFailed, upstream>>
    BY <1>14 DEF Count, At
  <2>2. Sole(r) /\ d \in blobs /\ Apart(blobs \ {d}, blobs \ {d}, blobs)
    BY <1>f, <2>1 DEF At, Sole, BooksOf
  <2>3. Turns(r, "index", req[r].path, d)
    BY <1>a, <2>1, Turning
  <2>4. Alone(r)' /\ Within'
    BY <1>e, <2>1, <2>2, <2>3, OthersIdle
  <2>5. /\ TotalSize(blobs) = TotalSize(blobs \ {d}) + Size[d]
        /\ TotalSize(blobs \ {d}) \in Nat /\ Size[d] \in Nat /\ bytesUsed \in Nat
    <3>1. blobs \ {d} \in SUBSET Digests /\ d \in Digests /\ (blobs \ {d}) \cup {d} = blobs
      BY <1>a, <2>2 DEF Artifacts
    <3> QED
      BY <1>b, <3>1, OneMoreSize, BytesFinite, CacheAssumption
  <2>6. req'[r].stage = "index" /\ req'[r].got = d
    BY <1>a, <2>1, Updated
  <2>7. BooksOf(r)'
    BY <2>1, <2>2, <2>5, <2>6 DEF BooksOf, Evicting, Apart
  <2> QED
    BY <2>4, <2>7, SoleBooks DEF Sole
<1>15. ASSUME NEW r \in Requests, IndexBlob(r) PROVE BooksInv'
  <2> DEFINE d == req[r].got
  <2>1. /\ req[r].stage = "index" /\ Over(r)
        /\ lastUsed' = Append(RemoveFirst(lastUsed, d), d)
        /\ index' = [index EXCEPT ![req[r].path] = <<d>> \o RemoveFirst(@, d)]
        /\ UNCHANGED <<blobs, bytesUsed, unlinkFailed, upstream>>
    BY <1>15, Zenon DEF IndexBlob, Touch, At
  <2>2. /\ Sole(r) /\ d \in blobs /\ bytesUsed <= TotalSize(blobs)
        /\ ToSet(lastUsed) \cup {d} \subseteq blobs
        /\ unlinkFailed # "now" =>
             bytesUsed = TotalSize(blobs) /\ ToSet(lastUsed) \cup {d} = blobs
        /\ \A p \in Paths : ToSet(index[p]) \subseteq blobs
    BY <1>f, <2>1 DEF At, Sole, BooksOf, Exact, Apart
  <2>3. Turns(r, "finish", req[r].path, None)
    BY <1>a, <2>1, Turning
  <2>4. Alone(r)' /\ Within'
    BY <1>e, <2>1, <2>2, <2>3, OthersIdle
  <2>5. d \in Digests /\ req[r].path \in Paths
    BY <1>a, <2>1, <2>2 DEF Artifacts, CacheInv, FlightInv, OnPath, At
  <2>6. ToSet(lastUsed') = ToSet(lastUsed) \cup {d}
    BY <1>b, <2>1, <2>2, <2>5, Touched
  <2>7. ToSet(<<d>> \o RemoveFirst(index[req[r].path], d)) \subseteq blobs
    BY <1>b, <2>2, <2>5, Touched
  <2>8. \A p \in Paths : ToSet(index'[p]) \subseteq blobs
    BY <1>b, <2>1, <2>2, <2>7
  <2>9. Exact'
    BY <2>1, <2>2, <2>6, <2>8 DEF Exact, Apart
  <2> QED
    BY <1>e, <2>2, <2>3, <2>4, <2>9, PlainStep, SoleBooks DEF Plain, Stages, Evicting
<1>16. ASSUME NEW r \in Requests, Finish(r) PROVE BooksInv'
  <2>1. /\ req[r].stage = "finish"
        /\ UNCHANGED <<blobs, index, lastUsed, bytesUsed, unlinkFailed, upstream>>
        /\ req' = Woken(r)
    BY <1>16 DEF Finish, At, store
  <2>2. Sole(r) /\ Exact
    BY <1>f, <2>1 DEF At
  <2>3. req'[r].stage = "idle"
    BY <2>1 DEF Woken, NoReq
  <2>4. \A f \in Requests \ {r} : req'[f].stage = req[f].stage
    <3> SUFFICES ASSUME NEW f \in Requests, f # r PROVE req'[f].stage = req[f].stage
      OBVIOUS
    <3>1. req[f].stage = "idle"
      BY <2>2 DEF Sole, Alone
    <3>2. req'[f] \in {[req[f] EXCEPT !.leader = None], req[f]}
      BY <2>1, <3>1 DEF Woken, At
    <3> QED
      BY <1>a, <3>2 DEF ReqTyped, RequestStates
  <2>5. Alone(r)' /\ Within' /\ Exact'
    BY <1>d, <2>1, <2>2, <2>4, OthersIdle
  <2> QED
    BY <2>2, <2>3, <2>5, PlainStep, SoleBooks DEF Plain, Stages, Evicting
<1>17. ASSUME Restart PROVE BooksInv'
  <2>1. \A r \in Requests : At(r, "idle")'
    BY <1>17 DEF Restart, NoReq, At
  <2>2. Exact'
    BY <1>17, <1>a, Orders, NoDigests, BytesFinite DEF Restart, Exact, Apart, Artifacts
  <2> QED
    BY <1>17, <2>1, <2>2 DEF Restart, BooksInv
<1>18. ASSUME NEW p \in Paths, NEW d \in Digests, Publish(p, d) PROVE BooksInv'
  <2>1. /\ UNCHANGED <<blobs, index, lastUsed, bytesUsed, unlinkFailed, req>>
        /\ \A x \in Paths : upstream'[x] \in Releases[x]
    BY <1>18, <1>a, <1>c DEF Publish, BooksInv, Artifacts
  <2> QED
    BY <2>1 DEF BooksInv, BooksOf, Exact, Apart, Quiet, At
<1>19. ASSUME UNCHANGED vars PROVE BooksInv'
  BY <1>19, <1>c DEF vars, BooksInv, BooksOf, Exact, Apart, Quiet, At
<1>20. (\E r \in Requests : Cancel(r)) => UNCHANGED vars
  BY DEF NoneDropped
<1> QED
  BY <1>1, <1>2, <1>3, <1>4, <1>5, <1>6, <1>7, <1>8, <1>9, <1>10, <1>11, <1>12, <1>13,
     <1>14, <1>15, <1>16, <1>17, <1>18, <1>19, <1>20, Zenon DEF Next, Follow, Fill

(* The invariant holds of every behaviour of that kind.                     *)
LEMMA BooksInvariant ==
  Spec /\ []OneAtATime /\ [][NoneDropped]_vars => [](CacheInv /\ BooksInv)
<1>1. CacheInv /\ TypeInv /\ BooksInv /\ OneAtATime /\ OneAtATime' /\ [Next]_vars
        /\ [NoneDropped]_vars => CacheInv' /\ TypeInv' /\ BooksInv'
  BY CacheStep, TypeStep, BooksStep
<1> QED
  BY <1>1, CacheInit, TypeInit, BooksInit, PTL DEF Spec

-----------------------------------------------------------------------------
(* At most one request is filling a path, whatever the order of waits,      *)
(* wake-ups, dropped requests and restarts (artifact_cache.rs 88-125).      *)
THEOREM OneFiller == Spec => []SingleFlight
<1>1. CacheInv => SingleFlight
  BY DEF CacheInv, FlightInv, FillerLeads, SingleFlight
<1> QED
  BY <1>1, CacheInvariant, PTL

(* No error, early return or wake-up leaves an inflight entry behind a      *)
(* request that runs to its end (artifact_cache.rs 109-126).                *)
THEOREM EntriesHaveLeaders == Spec => []EntryHasLeader
<1>1. CacheInv => EntryHasLeader
  BY DEF CacheInv, FlightInv
<1> QED
  BY <1>1, CacheInvariant, PTL

(* Whoever reads a blob is counted as its reader, whoever else comes, goes  *)
(* or fails in between (artifact_cache.rs 332-346, 388-394).                *)
THEOREM ReadersAreCounted == Spec => []ReadersCounted
<1>1. CacheInv => ReadersCounted
  BY DEF CacheInv
<1> QED
  BY <1>1, CacheInvariant, PTL

(* Every variable keeps its type (artifact_cache.rs 31-61).                 *)
THEOREM TypeCorrect == Spec => []TypeOK
<1>1. TypeInv => TypeOK
  BY DEF TypeInv
<1> QED
  BY <1>1, TypeInvariant, PTL

(* Nobody but a request that makes room holds fill_lock: it is never left   *)
(* behind, and no two requests make room at the same time                   *)
(* (artifact_cache.rs 366-408).                                             *)
THEOREM LockIsHeldByEvictor == Spec => []LockHeldByEvictor
<1>1. CacheInv /\ LockHeldByEvictor /\ [Next]_vars => LockHeldByEvictor'
  BY LockStep
<1> QED
  BY <1>1, CacheInit, CacheStep, LockInit, PTL DEF Spec

(* As long as requests come one at a time and none is dropped, whenever     *)
(* none is in progress bytes_used is what the blobs take and each blob can  *)
(* be evicted, and it exceeds the budget by artifacts of unknown length     *)
(* only.  Once an eviction could not remove its file, what is counted and   *)
(* listed may be less than what is there, never more, until the next start, *)
(* and the budget is no bound any more                                      *)
(* (artifact_cache.rs 206-209, 286-299, 366-408).                           *)
THEOREM BudgetIsExact ==
  Spec /\ []OneAtATime /\ [][NoneDropped]_vars => []BudgetExact
<1>1. CacheInv /\ BooksInv => BudgetExact
  <2> SUFFICES ASSUME CacheInv, BooksInv, Quiet
               PROVE  /\ Exact
                      /\ unlinkFailed = "never" =>
                           bytesUsed <= Budget + TotalSize(Unmeasured)
    BY DEF BudgetExact, Unmeasured, Exact, Apart
  <2>1. Exact /\ (unlinkFailed = "never" => TotalSize(blobs \ Unmeasured) <= Budget)
    BY DEF BooksInv
  <2>2. blobs \in SUBSET Digests /\ Unmeasured \in SUBSET Digests
    BY CacheAssumption DEF CacheInv, Artifacts, Unmeasured
  <2>3. blobs \subseteq (blobs \ Unmeasured) \cup Unmeasured
    OBVIOUS
  <2>4. TotalSize(blobs) <= TotalSize((blobs \ Unmeasured) \cup Unmeasured)
    BY <2>2, <2>3, BytesOfBoth
  <2>5. TotalSize((blobs \ Unmeasured) \cup Unmeasured)
          <= TotalSize(blobs \ Unmeasured) + TotalSize(Unmeasured)
    BY <2>2, BytesOfBoth
  <2>6. /\ TotalSize(blobs) \in Nat /\ TotalSize(Unmeasured) \in Nat
        /\ TotalSize(blobs \ Unmeasured) \in Nat
        /\ TotalSize((blobs \ Unmeasured) \cup Unmeasured) \in Nat
    BY <2>2, BytesFinite
  <2> QED
    BY <2>1, <2>4, <2>5, <2>6, CacheAssumption DEF Exact, Apart
<1> QED
  BY <1>1, BooksInvariant, PTL

(* Under the same conditions the blob of every digest that a path is mapped *)
(* to is there, so that a 304 can be served (artifact_cache.rs 171-180).    *)
THEOREM IndexedBlobsAreThere ==
  Spec /\ []OneAtATime /\ [][NoneDropped]_vars => []IndexedBlobsExist
<1>1. BooksInv => IndexedBlobsExist
  BY DEF BooksInv, IndexedBlobsExist, Exact, Apart
<1> QED
  BY <1>1, BooksInvariant, PTL
=============================================================================
