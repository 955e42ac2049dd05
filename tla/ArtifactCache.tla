--------------------------- MODULE ArtifactCache ----------------------------
(* The content-addressed cache of release artifacts (artifact_cache.rs):    *)
(* requests for a path elect a leader that revalidates the path with        *)
(* Hecate and, if need be, fetches and stores the artifact; the others      *)
(* wait for it.  Blobs are shared by all paths, bounded by a byte budget    *)
(* and evicted in LRU order, while other requests read and add them.        *)
(*                                                                          *)
(* A request is cut at its awaits, and before each access to the shared     *)
(* maps that follows a check of its own.  An artifact is its digest.        *)
EXTENDS Naturals, Sequences, FiniteSets, SequencesExt

CONSTANTS
    Requests,   \* requests that may be in progress at the same time
    Paths,      \* release artifact routes
    Digests,    \* artifacts, by their sha256
    Size,       \* their sizes
    Releases,   \* the artifacts Hecate may have at each path, over time
    Budget,     \* cache_max_bytes
    Share,      \* one artifact may take 1/Share of the budget (4 in the code)
    Chunked,    \* paths Hecate may answer without a content-length
    MayCancel,  \* may a client go away while its request is in progress?
    MayFailUnlink,  \* may a file stay that an eviction tries to remove?
    ReaderBound,    \* bound: no new request once a reader count is larger
    ExcessBound,    \* bound: ... bytes_used exceeds the budget by more
    Orphan,     \* the inflight entry of a request that was dropped
    None

ASSUME CacheAssumption ==
    /\ IsFiniteSet(Requests) /\ IsFiniteSet(Digests)
    /\ Size \in [Digests -> Nat \ {0}]
    /\ Releases \in [Paths -> (SUBSET Digests) \ {{}}]
    /\ Budget \in Nat /\ Share \in Nat \ {0}
    /\ Chunked \subseteq Paths
    /\ MayCancel \in BOOLEAN /\ MayFailUnlink \in BOOLEAN
    /\ ReaderBound \in Nat /\ ExcessBound \in Nat
    /\ None \notin Requests \cup Paths \cup Digests \cup {Orphan}
    /\ Orphan \notin Requests

VARIABLES
    blobs,      \* the files under cache_dir/blobs
    index,      \* path -> digests served for it, newest first
    inflight,   \* path -> the request whose Notify is registered
    refcounts,  \* digest -> readers
    lastUsed,   \* the digests of last_used, least recently used first
    bytesUsed,
    fillLock,   \* the request that holds fill_lock
    req,        \* the requests
    upstream,   \* Hecate: the current artifact of each path
    unlinkFailed    \* history: when an eviction last failed to remove its
                    \* blob: "never", "earlier" (before the last start), "now"

store  == <<blobs, index, refcounts, lastUsed, bytesUsed, unlinkFailed>>
flight == <<inflight, fillLock>>
cache  == <<store, flight>>
vars   == <<cache, req, upstream>>

MaxIfNoneMatch == 8

Stages ==
    {"idle",
     "subscribe", "waiting",                     \* follower
     "known", "elect", "fetch",                  \* serve_or_fill, fill_once
     "serve", "read",                            \* serve_blob
     "reserve", "evict", "remove", "settle",     \* reserve_space
     "stream", "commit", "rename", "count", "index",
     "finish"}

(* Stages with an await: where a request may be dropped.                   *)
Awaiting == {"waiting", "fetch", "read", "reserve", "remove", "settle",
             "stream", "commit", "rename", "count"}

Evicting == {"evict", "remove", "settle"}   \* reserve_space, with fill_lock

Filling == Stages \ {"idle", "subscribe", "waiting", "known", "elect"}

NoReq == [stage |-> "idle", path |-> None, leader |-> None, known |-> <<>>,
          got |-> None, answer |-> None, used |-> 0, todo |-> <<>>]

(* The bytes of the artifacts in S, and how many they are.                 *)
Bytes(S)     == UNION {{d} \X (1..Size[d]) : d \in S}
TotalSize(S) == Cardinality(Bytes(S))

(* No digest is in the index of a path or in the LRU order twice, so that  *)
(* RemoveFirst is what retain() and remove() do there.                     *)
Uniq == {s \in UNION {[1..n -> Digests] : n \in 0..Cardinality(Digests)} :
            \A i, j \in DOMAIN s : s[i] = s[j] => i = j}

RequestStates ==
    [stage : Stages, path : Paths \cup {None}, leader : Requests \cup {Orphan, None},
     known : Uniq, got : Digests \cup {None}, answer : Digests \cup {None},
     used : Nat, todo : Uniq]

TypeOK ==
    /\ blobs \subseteq Digests
    /\ index \in [Paths -> Uniq]
    /\ inflight \in [Paths -> Requests \cup {Orphan, None}]
    /\ refcounts \in [Digests -> Nat]
    /\ lastUsed \in Uniq
    /\ bytesUsed \in Nat
    /\ fillLock \in Requests \cup {None}
    /\ req \in [Requests -> RequestStates]
    /\ upstream \in [Paths -> Digests]
    /\ unlinkFailed \in {"never", "earlier", "now"}

Init ==
    /\ blobs = {}
    /\ index = [p \in Paths |-> <<>>]
    /\ inflight = [p \in Paths |-> None]
    /\ refcounts = [d \in Digests |-> 0]
    /\ lastUsed = <<>>
    /\ bytesUsed = 0
    /\ fillLock = None
    /\ req = [r \in Requests |-> NoReq]
    /\ upstream \in [Paths -> Digests]
    /\ \A p \in Paths : upstream[p] \in Releases[p]
    /\ unlinkFailed = "never"

-----------------------------------------------------------------------------
(* serve_or_fill().                                                        *)

At(r, s)    == req[r].stage = s
Goto(r, s)  == req' = [req EXCEPT ![r].stage = s]
Over(r)     == req' = [req EXCEPT ![r] = [NoReq EXCEPT !.stage = "finish",
                                                       !.path = req[r].path]]
Touch(d)    == Append(RemoveFirst(lastUsed, d), d)

Bounded ==
    /\ \A d \in Digests : refcounts[d] <= ReaderBound
    /\ bytesUsed <= Budget + ExcessBound

Arrive(r, p) ==
    /\ At(r, "idle")
    /\ Bounded
    /\ req' = [req EXCEPT ![r] = [NoReq EXCEPT
                  !.stage = IF inflight[p] = None THEN "known" ELSE "subscribe",
                  !.path = p, !.leader = inflight[p]]]
    /\ UNCHANGED <<cache, upstream>>

Subscribe(r) ==
    /\ At(r, "subscribe")
    /\ Goto(r, "waiting")
    /\ UNCHANGED <<cache, upstream>>

(* Mutation: a follower that gives up takes the inflight entry away.       *)
TimeOutSteals(r) ==
    /\ At(r, "waiting")
    /\ inflight' = [inflight EXCEPT ![req[r].path] = None]
    /\ req' = [req EXCEPT ![r] = NoReq]
    /\ UNCHANGED <<store, fillLock, upstream>>

(* FOLLOWER_WAIT is over: 503, artifact fill in progress.                  *)
TimeOut(r) ==
    /\ At(r, "waiting")
    /\ req' = [req EXCEPT ![r] = NoReq]
    /\ UNCHANGED <<cache, upstream>>

ReadIndex(r) ==
    /\ At(r, "known")
    /\ req' = [req EXCEPT ![r].stage = "elect", ![r].known = index[req[r].path],
                          ![r].leader = None]
    /\ UNCHANGED <<cache, upstream>>

BecomeLeader(r) ==
    /\ At(r, "elect")
    /\ inflight[req[r].path] = None
    /\ inflight' = [inflight EXCEPT ![req[r].path] = r]
    /\ Goto(r, "fetch")
    /\ UNCHANGED <<store, fillLock, upstream>>

(* Another leader won the race: the request goes round the cache.          *)
Bypass(r) ==
    /\ At(r, "elect")
    /\ inflight[req[r].path] # None
    /\ req' = [req EXCEPT ![r] = NoReq]
    /\ UNCHANGED <<cache, upstream>>

(* notify_waiters wakes who waits by now; whoever has cloned the Notify    *)
(* but not subscribed yet waits for nobody.                                *)
Follows(f, r) == req[f].leader = r /\ req[f].path = req[r].path

Woken(r) ==
    [f \in Requests |->
        IF f = r THEN NoReq
        ELSE IF Follows(f, r) /\ At(f, "waiting")
             THEN [req[f] EXCEPT !.stage = "known", !.leader = None]
        ELSE IF Follows(f, r) THEN [req[f] EXCEPT !.leader = None]
        ELSE req[f]]

Finish(r) ==
    /\ At(r, "finish")
    /\ inflight' = [inflight EXCEPT ![req[r].path] = None]
    /\ req' = Woken(r)
    /\ UNCHANGED <<store, fillLock, upstream>>

-----------------------------------------------------------------------------
(* fill_once(): Hecate's answer.                                           *)

Offered(r) == {req[r].known[i] :
                  i \in {j \in DOMAIN req[r].known : j <= MaxIfNoneMatch}}

(* 304: the first digest known for the path is served.                     *)
NotModified(r) ==
    /\ At(r, "fetch")
    /\ upstream[req[r].path] \in Offered(r)
    /\ req' = [req EXCEPT ![r].stage = "serve", ![r].got = Head(req[r].known),
                          ![r].answer = upstream[req[r].path]]
    /\ UNCHANGED <<cache, upstream>>

Fits(d) == Size[d] <= Budget \div Share

(* 200, with a content-length: room is made first, or none is needed as    *)
(* the artifact is too large to be stored.                                 *)
Sized(r) ==
    LET d == upstream[req[r].path] IN
    /\ At(r, "fetch")
    /\ d \notin Offered(r)
    /\ IF Fits(d)
       THEN req' = [req EXCEPT ![r].stage = "reserve", ![r].got = d,
                               ![r].answer = d]
       ELSE Over(r)
    /\ UNCHANGED <<cache, upstream>>

(* 200 without a content-length: no room is made.                          *)
Unsized(r) ==
    /\ At(r, "fetch")
    /\ req[r].path \in Chunked
    /\ upstream[req[r].path] \notin Offered(r)
    /\ req' = [req EXCEPT ![r].stage = "stream",
                          ![r].got = upstream[req[r].path],
                          ![r].answer = upstream[req[r].path]]
    /\ UNCHANGED <<cache, upstream>>

(* Mutation: an error leaves serve_or_fill before the entry is removed.     *)
FetchFailsEarly(r) ==
    /\ At(r, "fetch")
    /\ req' = [req EXCEPT ![r] = NoReq]
    /\ UNCHANGED <<cache, upstream>>

(* Transport error, any other status, or a 304 to the client's own         *)
(* validator when nothing is known.                                        *)
FetchFails(r) ==
    /\ At(r, "fetch")
    /\ Over(r)
    /\ UNCHANGED <<cache, upstream>>

-----------------------------------------------------------------------------
(* reserve_space().  It makes room but reserves none: the lock is gone     *)
(* when it returns, and bytesUsed grows only when the blob is stored.      *)

Room(used, r) == used + Size[req[r].got] <= Budget

(* Mutation: an eviction starts while another one goes on.                 *)
ReserveUnlocked(r) ==
    /\ At(r, "reserve")
    /\ IF Room(bytesUsed, r)
       THEN Goto(r, "stream") /\ UNCHANGED fillLock
       ELSE /\ req' = [req EXCEPT ![r].stage = "evict", ![r].used = bytesUsed,
                                  ![r].todo = lastUsed]
            /\ fillLock' = r
    /\ UNCHANGED <<store, inflight, upstream>>

Reserve(r) ==
    /\ At(r, "reserve")
    /\ fillLock = None
    /\ IF Room(bytesUsed, r)
       THEN Goto(r, "stream") /\ UNCHANGED fillLock
       ELSE /\ req' = [req EXCEPT ![r].stage = "evict", ![r].used = bytesUsed,
                                  ![r].todo = lastUsed]
            /\ fillLock' = r
    /\ UNCHANGED <<store, inflight, upstream>>

EvictEnds(r) ==
    /\ At(r, "evict")
    /\ Room(req[r].used, r) \/ req[r].todo = <<>>
    /\ fillLock' = None
    /\ IF Room(req[r].used, r)
       THEN req' = [req EXCEPT ![r].stage = "stream", ![r].used = 0,
                               ![r].todo = <<>>]
       ELSE Over(r)
    /\ UNCHANGED <<store, inflight, upstream>>

(* A blob that is being read is passed over.                               *)
EvictNext(r) ==
    /\ At(r, "evict")
    /\ ~Room(req[r].used, r) /\ req[r].todo # <<>>
    /\ IF refcounts[Head(req[r].todo)] > 0
       THEN req' = [req EXCEPT ![r].todo = Tail(req[r].todo)]
       ELSE Goto(r, "remove")
    /\ UNCHANGED <<cache, upstream>>

(* The file goes first, the books follow, even if it could not be removed. *)
(* A victim whose metadata cannot be read (it is gone, say) is passed over. *)
EvictRemove(r) ==
    LET d == Head(req[r].todo) IN
    /\ At(r, "remove")
    /\ \/ /\ d \in blobs
          /\ \/ blobs' = blobs \ {d} /\ UNCHANGED unlinkFailed
             \/ MayFailUnlink /\ unlinkFailed' = "now" /\ UNCHANGED blobs
          /\ Goto(r, "settle")
       \/ /\ req' = [req EXCEPT ![r].stage = "evict", ![r].todo = Tail(req[r].todo)]
          /\ UNCHANGED <<blobs, unlinkFailed>>
    /\ UNCHANGED <<index, refcounts, lastUsed, bytesUsed, flight, upstream>>

(* Mutation: the paths keep the digest of an evicted blob.                 *)
EvictSettleKeepsIndex(r) ==
    /\ At(r, "settle")
    /\ bytesUsed' = req[r].used - Size[Head(req[r].todo)]
    /\ lastUsed' = RemoveFirst(lastUsed, Head(req[r].todo))
    /\ req' = [req EXCEPT ![r].stage = "evict", ![r].used = bytesUsed',
                          ![r].todo = Tail(req[r].todo)]
    /\ UNCHANGED <<blobs, index, refcounts, unlinkFailed, flight, upstream>>

EvictSettle(r) ==
    LET d == Head(req[r].todo)
        left == IF req[r].used < Size[d] THEN 0 ELSE req[r].used - Size[d]
    IN
    /\ At(r, "settle")
    /\ bytesUsed' = left
    /\ lastUsed' = RemoveFirst(lastUsed, d)
    /\ index' = [p \in Paths |-> RemoveFirst(index[p], d)]
    /\ req' = [req EXCEPT ![r].stage = "evict", ![r].used = left,
                          ![r].todo = Tail(req[r].todo)]
    /\ UNCHANGED <<blobs, refcounts, unlinkFailed, flight, upstream>>

-----------------------------------------------------------------------------
(* The rest of fill_once(): the body goes to a temporary file, is checked  *)
(* against the ETag and then renamed to its digest.                        *)

Streamed(r) ==
    /\ At(r, "stream")
    /\ Fits(req[r].got)
    /\ Goto(r, "commit")
    /\ UNCHANGED <<cache, upstream>>

(* Broken body, too large, no ETag or an ETag that is not the digest; or a *)
(* file operation fails.                                                   *)
StreamFails(r) ==
    /\ At(r, "stream") \/ At(r, "rename")
    /\ Over(r)
    /\ UNCHANGED <<cache, upstream>>

(* Mutation: a blob that is there already is stored again.                 *)
CommitAlways(r) ==
    /\ At(r, "commit")
    /\ Goto(r, "rename")
    /\ UNCHANGED <<cache, upstream>>

Commit(r) ==
    /\ At(r, "commit")
    /\ Goto(r, IF req[r].got \in blobs THEN "index" ELSE "rename")
    /\ UNCHANGED <<cache, upstream>>

Rename(r) ==
    /\ At(r, "rename")
    /\ blobs' = blobs \cup {req[r].got}
    /\ Goto(r, "count")
    /\ UNCHANGED <<index, refcounts, lastUsed, bytesUsed, unlinkFailed, flight, upstream>>

Count(r) ==
    /\ At(r, "count")
    /\ bytesUsed' = bytesUsed + Size[req[r].got]
    /\ Goto(r, "index")
    /\ UNCHANGED <<blobs, index, refcounts, lastUsed, unlinkFailed, flight, upstream>>

IndexBlob(r) ==
    /\ At(r, "index")
    /\ lastUsed' = Touch(req[r].got)
    /\ index' = [index EXCEPT ![req[r].path] =
                    <<req[r].got>> \o RemoveFirst(@, req[r].got)]
    /\ Over(r)
    /\ UNCHANGED <<blobs, refcounts, bytesUsed, unlinkFailed, flight, upstream>>

-----------------------------------------------------------------------------
(* serve_blob().                                                           *)

(* Mutation: the reader is not counted.                                    *)
ServeBlobUncounted(r) ==
    /\ At(r, "serve")
    /\ IF req[r].got \in blobs
       THEN lastUsed' = Touch(req[r].got) /\ Goto(r, "read")
       ELSE Goto(r, "finish") /\ UNCHANGED lastUsed
    /\ UNCHANGED <<blobs, index, refcounts, bytesUsed, unlinkFailed, flight, upstream>>

ServeBlob(r) ==
    /\ At(r, "serve")
    /\ IF req[r].got \in blobs
       THEN /\ refcounts' = [refcounts EXCEPT ![req[r].got] = @ + 1]
            /\ lastUsed' = Touch(req[r].got)
            /\ Goto(r, "read")
       ELSE Over(r) /\ UNCHANGED <<refcounts, lastUsed>>
    /\ UNCHANGED <<blobs, index, bytesUsed, unlinkFailed, flight, upstream>>

(* The read may fail, as it does if the file was evicted since it was seen: *)
(* then the reference is not given back.                                   *)
ReadBlob(r) ==
    /\ At(r, "read")
    /\ \/ /\ req[r].got \in blobs
          /\ refcounts' = [refcounts EXCEPT ![req[r].got] = @ - 1]
       \/ UNCHANGED refcounts
    /\ Over(r)
    /\ UNCHANGED <<blobs, index, lastUsed, bytesUsed, unlinkFailed, flight, upstream>>

-----------------------------------------------------------------------------
(* Mutation: a dropped request keeps fill_lock.                            *)
CancelKeepsLock(r) ==
    /\ MayCancel
    /\ req[r].stage \in Awaiting
    /\ req' = [req EXCEPT ![r] = NoReq]
    /\ inflight' = [p \in Paths |-> IF inflight[p] = r THEN Orphan ELSE inflight[p]]
    /\ UNCHANGED <<store, fillLock, upstream>>

(* A client that goes away: its request is dropped at an await, with the   *)
(* locks it holds, but what it put into the maps stays: an inflight entry  *)
(* that nobody removes, a reader that is counted.                          *)
Cancel(r) ==
    /\ MayCancel
    /\ req[r].stage \in Awaiting
    /\ req' = [req EXCEPT ![r] = NoReq]
    /\ inflight' = [p \in Paths |-> IF inflight[p] = r THEN Orphan ELSE inflight[p]]
    /\ fillLock' = IF fillLock = r THEN None ELSE fillLock
    /\ UNCHANGED <<store, upstream>>

(* A new process: bootstrap() counts the blobs it finds.                   *)
Restart ==
    /\ index' = [p \in Paths |-> <<>>]
    /\ inflight' = [p \in Paths |-> None]
    /\ refcounts' = [d \in Digests |-> 0]
    /\ lastUsed' \in SetToSeqs(blobs)
    /\ bytesUsed' = TotalSize(blobs)
    /\ fillLock' = None
    /\ req' = [r \in Requests |-> NoReq]
    /\ unlinkFailed' = IF unlinkFailed = "never" THEN "never" ELSE "earlier"
    /\ UNCHANGED <<blobs, upstream>>

(* Hecate gets a new release of an artifact, or an older one again.        *)
Publish(p, d) ==
    /\ d \in Releases[p] \ {upstream[p]}
    /\ upstream' = [upstream EXCEPT ![p] = d]
    /\ UNCHANGED <<cache, req>>

-----------------------------------------------------------------------------
Follow(r) == Subscribe(r) \/ TimeOut(r) \/ ReadIndex(r) \/ BecomeLeader(r)
             \/ Bypass(r)

Fill(r) ==
    \/ NotModified(r) \/ Sized(r) \/ Unsized(r) \/ FetchFails(r)
    \/ Reserve(r) \/ EvictEnds(r) \/ EvictNext(r) \/ EvictRemove(r)
    \/ EvictSettle(r)
    \/ Streamed(r) \/ StreamFails(r) \/ Commit(r) \/ Rename(r) \/ Count(r)
    \/ IndexBlob(r)
    \/ ServeBlob(r) \/ ReadBlob(r)
    \/ Finish(r)

Next ==
    \/ \E r \in Requests :
        \/ \E p \in Paths : Arrive(r, p)
        \/ Follow(r) \/ Fill(r) \/ Cancel(r)
    \/ Restart
    \/ \E p \in Paths, d \in Digests : Publish(p, d)

Spec == Init /\ [][Next]_vars

(* Every await of a request ends: file operations return, upstream calls   *)
(* end with an answer or the client's timeout (state.rs 73-78), a follower *)
(* waits FOLLOWER_WAIT at most, and tokio's Mutex serves its queue in      *)
(* order, so whoever waits for fill_lock gets it.                          *)
Fairness ==
    \A r \in Requests :
        WF_vars(Follow(r) \/ Fill(r)) /\ SF_vars(Reserve(r))

FairSpec == Spec /\ Fairness

-----------------------------------------------------------------------------
(* Properties.                                                             *)

(* At most one request per path is between its election and the removal of *)
(* its inflight entry, whatever the order of waits, wake-ups, cancelled    *)
(* requests and restarts (artifact_cache.rs 88-125).                       *)
SingleFlight ==
    \A r, f \in Requests :
        /\ req[r].stage \in Filling /\ req[f].stage \in Filling
        /\ req[r].path = req[f].path
        => r = f

(* No request counts as a reader less often than it reads: a blob whose    *)
(* count is zero has no reader (artifact_cache.rs 332-346, 388-394).       *)
ReadersCounted ==
    \A d \in Digests :
        refcounts[d] >= Cardinality({r \in Requests :
                                        At(r, "read") /\ req[r].got = d})

(* Between requests, when they come one at a time and none is cut short:   *)
(* bytes_used never exceeds what the blobs take, and the LRU order lists   *)
(* blobs only; it lists all of them, so that each can be evicted, and      *)
(* bytes_used is what they take, unless the file of a blob could not be    *)
(* removed since the last start; and only artifacts that came without a    *)
(* length may exceed the budget, unless that ever happened                 *)
(* (artifact_cache.rs 206-209, 286-299, 366-408).                          *)
Quiet == \A r \in Requests : At(r, "idle")

BudgetExact ==
    Quiet => /\ bytesUsed <= TotalSize(blobs) /\ ToSet(lastUsed) \subseteq blobs
             /\ unlinkFailed # "now" =>
                    bytesUsed = TotalSize(blobs) /\ ToSet(lastUsed) = blobs
             /\ unlinkFailed = "never" => bytesUsed <=
                    Budget + TotalSize(UNION {Releases[p] : p \in Chunked})

(* Between such requests every digest a path is mapped to has its blob, so *)
(* that a 304 for the path can be served (artifact_cache.rs 171-180).      *)
IndexedBlobsExist == Quiet => \A p \in Paths : ToSet(index[p]) \subseteq blobs

(* Every request ends, also when others are dropped while they wait for    *)
(* fill_lock, hold it or lead (artifact_cache.rs 89-126, 371).             *)
RequestsEnd == \A r \in Requests : ~At(r, "idle") ~> At(r, "idle")

(* An inflight entry is that of a request which is filling the path, but   *)
(* for those that dropped requests left: no error or early return of a     *)
(* fill leaves the path blocked (artifact_cache.rs 109-126).               *)
EntryHasLeader ==
    \A p \in Paths : inflight[p] \in Requests =>
        req[inflight[p]].stage \in Filling /\ req[inflight[p]].path = p

(* Nobody but a request that makes room holds fill_lock, and whoever makes *)
(* room holds it: no early return, dropped request or restart leaves it    *)
(* behind, and no two requests evict at once (artifact_cache.rs 366-408).  *)
LockHeldByEvictor ==
    \A r \in Requests : fillLock = r <=> req[r].stage \in Evicting

(* "Single-flight: wait if another request is filling this path."          *)
(* (artifact_cache.rs 88)                                                  *)
WaitsForAFill ==
    \A r \in Requests : At(r, "waiting") =>
        \E f \in Requests :
            req[f].stage \in Filling /\ req[f].path = req[r].path

(* "Leader or post-wait follower: revalidate with If-None-Match."          *)
(* (artifact_cache.rs 109): what is served from the cache is what Hecate   *)
(* said is current.                                                        *)
ServedIsRevalidated ==
    \A r \in Requests :
        req[r].stage \in {"serve", "read"} => req[r].got = req[r].answer
=============================================================================
