-------------------------- MODULE WyzeStreamCache --------------------------
(***************************************************************************)
(* Stream information and snapshots of Wyze cameras, as src/src/index.js   *)
(* fetches, caches and serves them: getCameraWebRTCConnectionInfo and its  *)
(* reconnecting variant, cameraCaptureSnapshot, getCameraSnapshotImage and *)
(* clearCameraStreamCache, called by any number of callers at once.        *)
(*                                                                         *)
(* A call runs without interruption up to its next await.  Time is         *)
(* discrete; an entry of a cache carries the time it has left and the age  *)
(* of what it holds, so that states recur.                                 *)
(***************************************************************************)
EXTENDS Naturals, FiniteSets, FiniteSetsExt

CONSTANTS
    Calls,        \* callers; each may call again once its call has ended
    Macs,         \* cameras
    StreamTtls,   \* the cacheTtlMs a caller may give for stream information
    PhotoTtl,     \* cacheTtlMs of a snapshot
    MaxLag,       \* bound: time between the cloud's answer and its storing
    MaxAttempts,  \* maxAttempts of a reconnecting call
    Nothing       \* the absence of an entry

ASSUME TtlAssumption == /\ StreamTtls \subseteq Nat \ {0}
                        /\ StreamTtls # {} /\ IsFiniteSet(StreamTtls)
                        /\ PhotoTtl \in Nat \ {0}
ASSUME MacsAssumption == Macs # {}
ASSUME BoundAssumption == MaxLag \in Nat /\ MaxAttempts \in Nat \ {0}

VARIABLES
    streams,  \* _streamInfoCache
    photos,   \* photos[m]: the time left to the picture in _snapshotCaptureCache
    call,     \* call[c]: what caller c asked for and where its call stands
    lease     \* lease[k]: history, the time for which information that callers
              \* were given to share under key k ought still to be shared

cacheVars == <<streams, photos, call, lease>>

\* One stream of one camera.  The model goes with the mac.
Wanted == [mac : Macs, sub : BOOLEAN]

\* _streamCacheKey.
streamCacheKey(w) == w

MaxTtl == Max(StreamTtls)
MaxAge == MaxTtl + MaxLag

\* Stream information as the cloud issued it, with its age.
Info == [of : Wanted, age : 0..MaxAge]

\* An entry of _streamInfoCache, with the time it has left.
Entry == [info : Info, left : 0..MaxTtl]

ASSUME NothingAssumption == Nothing \notin Entry

\* What a call is after: getCameraWebRTCConnectionInfo, with reconnecting or
\* without, cameraCaptureSnapshot, or getCameraSnapshotImage up to its capture.
Kinds == {"info", "reconnect", "snapshot", "image"}
Resting == {"idle", "returned", "threw"}

Call == [at : Resting \cup {"listing", "downloading", "finding", "fetching", "issued",
                            "capturing", "pausing"},
         kind : Kinds, wanted : Wanted, noCache : BOOLEAN, ttl : StreamTtls,
         attempt : 0..MaxAttempts - 1,
         info : Info \cup {Nothing},  \* stream information under way, or served from
                                     \* the cache
         spoiled : BOOLEAN]          \* history: the cache was cleared of the camera
                                     \* while the information was under way

CacheTypeOK ==
    /\ streams \in [Wanted -> Entry \cup {Nothing}]
    /\ photos \in [Macs -> 0..PhotoTtl]
    /\ call \in [Calls -> Call]
    /\ lease \in [Wanted -> 0..MaxTtl]

\* A call at rest: what it returned is its caller's.
Rested(at) == [at |-> at, kind |-> "info", wanted |-> CHOOSE w \in Wanted : TRUE,
               noCache |-> FALSE, ttl |-> MaxTtl, attempt |-> 0, info |-> Nothing,
               spoiled |-> FALSE]

CacheInit ==
    /\ streams = [k \in Wanted |-> Nothing]
    /\ photos = [m \in Macs |-> 0]
    /\ call = [c \in Calls |-> Rested("idle")]
    /\ lease = [k \in Wanted |-> 0]

-----------------------------------------------------------------------------
\* The call becomes s.
Now(c, s) == call' = [call EXCEPT ![c] = s]

\* entry && entry.expiresAt > Date.now()
Live(entry) == IF entry = Nothing THEN FALSE ELSE entry.left > 0

\* The beginning of getCameraWebRTCConnectionInfo, up to the request: a caller
\* that lets itself be served from the cache is, else the cloud is asked.
Lookup_Expired(s) ==        \* mutant: any entry will do
    LET entry == streams[streamCacheKey(s.wanted)]
    IN  IF ~s.noCache /\ entry # Nothing
        THEN [s EXCEPT !.at = "returned", !.attempt = 0, !.info = entry.info]
        ELSE [s EXCEPT !.at = "fetching"]

Lookup(s) ==
    LET entry == streams[streamCacheKey(s.wanted)]
    IN  IF ~s.noCache /\ Live(entry)
        THEN [s EXCEPT !.at = "returned", !.attempt = 0, !.info = entry.info]
        ELSE [s EXCEPT !.at = "fetching"]

\* The beginning of cameraCaptureSnapshot: its own request for stream
\* information bypasses the cache.
LookupPhoto(s) ==
    IF ~s.noCache /\ photos[s.wanted.mac] > 0
    THEN Rested("returned")
    ELSE [s EXCEPT !.at = "fetching", !.kind = "snapshot"]

\* A caller asks; snapshots are of the main stream.  An image goes through the
\* device list first, or with skipCloud straight to the lookup of the camera.
Asks(c) ==
    /\ call[c].at \in Resting
    /\ \E w \in Wanted, noCache \in BOOLEAN :
          LET s(kind) == [Rested("idle") EXCEPT !.kind = kind, !.wanted = w,
                                               !.noCache = noCache]
          IN  \/ \E kind \in {"info", "reconnect"}, ttl \in StreamTtls :
                    Now(c, Lookup([s(kind) EXCEPT !.ttl = ttl]))
              \/ ~w.sub /\ Now(c, LookupPhoto(s("snapshot")))
              \/ \E at \in {"listing", "finding"} :
                    ~w.sub /\ Now(c, [s("image") EXCEPT !.at = at])
    /\ UNCHANGED <<streams, photos, lease>>

\* getCameraSnapshot: the device list names a picture in the cloud, or none (for
\* want of the camera, perhaps), or cannot be had, which ends the call.
Listed(c) ==
    /\ call[c].at = "listing"
    /\ \E at \in {"downloading", "finding"} : Now(c, [call[c] EXCEPT !.at = at])
    /\ UNCHANGED <<streams, photos, lease>>

ListFails(c) ==
    /\ call[c].at \in {"listing", "finding"}
    /\ Now(c, Rested("threw"))
    /\ UNCHANGED <<streams, photos, lease>>

\* The picture in the cloud is fetched, or the call falls back to a capture.
Downloaded(c) ==
    /\ call[c].at = "downloading"
    /\ \/ Now(c, Rested("returned"))
       \/ Now(c, [call[c] EXCEPT !.at = "finding"])
    /\ UNCHANGED <<streams, photos, lease>>

\* getCamera answers with the camera (if it does not know it, ListFails).
Found(c) ==
    /\ call[c].at = "finding"
    /\ Now(c, LookupPhoto(call[c]))
    /\ UNCHANGED <<streams, photos, lease>>

-----------------------------------------------------------------------------
(* cameraGetStreamInfo and what its caller does with the answer *)

\* The cloud issues a signed URL; the answer is on its way, and may then wait
\* out the rate limit.
Issued(c) ==
    /\ call[c].at = "fetching"
    /\ Now(c, [call[c] EXCEPT !.at = "issued",
                            !.info = [of |-> call[c].wanted, age |-> 0]])
    /\ UNCHANGED <<streams, photos, lease>>

\* It fails at the login, on the way, by the cloud's refusal (the token may
\* have been renewed, the call is not repeated), or as the camera is off.
Failed(s) ==
    IF s.kind = "reconnect" /\ s.attempt + 1 < MaxAttempts
    THEN [s EXCEPT !.at = "pausing", !.attempt = @ + 1, !.info = Nothing,
                   !.spoiled = FALSE]
    ELSE Rested("threw")

FetchFails(c) ==
    /\ call[c].at \in {"fetching", "issued"}
    /\ Now(c, Failed(call[c]))
    /\ UNCHANGED <<streams, photos, lease>>

\* The answer is stored, unless the caller bypasses the cache, and returned; a
\* snapshot, which does, goes on to its capture.
Stored(s) ==
    [streams EXCEPT ![streamCacheKey(s.wanted)] = [info |-> s.info, left |-> s.ttl]]

Delivered(c) ==
    /\ call[c].at = "issued"
    /\ LET s == call[c]
       IN  \/ /\ s.kind = "snapshot"
              /\ Now(c, [s EXCEPT !.at = "capturing", !.info = Nothing, !.spoiled = FALSE])
              /\ UNCHANGED <<streams, lease>>
           \/ /\ s.kind # "snapshot" /\ s.noCache
              /\ Now(c, Rested("returned"))
              /\ UNCHANGED <<streams, lease>>
           \/ /\ s.kind # "snapshot" /\ ~s.noCache
              /\ Now(c, Rested("returned"))
              /\ streams' = Stored(s)
              /\ lease' = [lease EXCEPT ![s.wanted] = Max({@, s.ttl})]
    /\ UNCHANGED photos

\* The back-off of cameraStreamWithReconnect is over: from the top once more.
PauseEnds_Fetch(c) ==         \* mutant: the cache is not looked at again
    /\ call[c].at = "pausing"
    /\ Now(c, [call[c] EXCEPT !.at = "fetching"])
    /\ UNCHANGED <<streams, photos, lease>>

PauseEnds(c) ==
    /\ call[c].at = "pausing"
    /\ Now(c, Lookup(call[c]))
    /\ UNCHANGED <<streams, photos, lease>>

\* captureStreamFrame returns a frame just taken, or throws.
Captured(c) ==
    /\ call[c].at = "capturing"
    /\ Now(c, Rested("returned"))
    /\ photos' = IF call[c].noCache THEN photos
                 ELSE [photos EXCEPT ![call[c].wanted.mac] = PhotoTtl]
    /\ UNCHANGED <<streams, lease>>

CaptureFails(c) ==
    /\ call[c].at = "capturing"
    /\ Now(c, Rested("threw"))
    /\ UNCHANGED <<streams, photos, lease>>

-----------------------------------------------------------------------------
\* clearCameraStreamCache, of one camera or of all; both streams of it.
Clear(macs) ==
    /\ streams' = [k \in Wanted |-> IF k.mac \in macs THEN Nothing ELSE streams[k]]
    /\ lease' = [k \in Wanted |-> IF k.mac \in macs THEN 0 ELSE lease[k]]
    /\ call' = [c \in Calls |->
                   IF call[c].at = "issued" /\ call[c].wanted.mac \in macs
                   THEN [call[c] EXCEPT !.spoiled = TRUE] ELSE call[c]]
    /\ UNCHANGED photos

Cleared == \E macs \in {Macs} \cup {{m} : m \in Macs} : Clear(macs)

\* A unit of time passes; no answer is held back for longer than MaxLag.
Less(n) == IF n = 0 THEN 0 ELSE n - 1
Older(info) == [info EXCEPT !.age = Min({@ + 1, MaxAge})]

Tick ==
    /\ \A c \in Calls : call[c].at = "issued" => call[c].info.age < MaxLag
    /\ streams' = [k \in Wanted |->
                      IF streams[k] = Nothing THEN Nothing
                      ELSE [info |-> Older(streams[k].info), left |-> Less(streams[k].left)]]
    /\ photos' = [m \in Macs |-> Less(photos[m])]
    /\ call' = [c \in Calls |-> IF call[c].at = "issued"
                                THEN [call[c] EXCEPT !.info = Older(@)] ELSE call[c]]
    /\ lease' = [k \in Wanted |-> Less(lease[k])]

CallStep(c) ==
    \/ Asks(c) \/ Listed(c) \/ ListFails(c) \/ Downloaded(c) \/ Found(c)
    \/ Issued(c) \/ FetchFails(c) \/ Delivered(c) \/ PauseEnds(c)
    \/ Captured(c) \/ CaptureFails(c)

CacheNext == Cleared \/ Tick \/ \E c \in Calls : CallStep(c)

CacheSpec == CacheInit /\ [][CacheNext]_cacheVars

-----------------------------------------------------------------------------
(* Properties *)

\* What a caller is served from the cache is of the camera and the stream it asked
\* for, and no older than a lifetime and the time its answer was held back, after
\* any overlap of fetches that overwrite each other, late answers and clears.
ServedIsFresh ==
    \A c \in Calls : call[c].at = "returned" /\ call[c].info # Nothing =>
        call[c].info.of = call[c].wanted /\ call[c].info.age < MaxTtl + MaxLag

\* "The 60-second cache ... exists specifically to keep your rate-limit budget
\* healthy under reconnect storms": while information fetched for sharing has time
\* left, no caller that may share it asks the cloud, one that wakes from its back-off
\* and one that comes after an older answer was delivered late included.
OneFetchPerLifetime ==
    [][\A c \in Calls :
          call'[c].at = "fetching" /\ call[c].at # "fetching"
            /\ call'[c].kind # "snapshot" /\ ~call'[c].noCache
              => lease[call'[c].wanted] = 0]_cacheVars

\* "to invalidate": what is stored was not issued before the cache was cleared of it.
ClearedStaysCleared ==
    [][\A c \in Calls : Delivered(c) /\ call[c].spoiled => streams' = streams]_cacheVars

\* "bypass and overwrite the per-mac cache": after a capture that bypassed the
\* cache, the cache holds no older picture.
NoCacheOverwrites ==
    [][\A c \in Calls :
          Captured(c) => photos'[call[c].wanted.mac] \in {0, PhotoTtl}]_cacheVars

\* "rapid repeat callers ... share one capture": no two captures of one camera
\* at once for callers that would share.
OneCapture ==
    \A m \in Macs :
        Cardinality({c \in Calls : call[c].at = "capturing" /\ ~call[c].noCache
                                   /\ call[c].wanted.mac = m}) <= 1

\* A caller that gives a lifetime is not served anything older.
OwnTtlKept ==
    \A c \in Calls :
        call[c].at = "returned" /\ call[c].info # Nothing
            => call[c].info.age < call[c].ttl + MaxLag
=============================================================================
