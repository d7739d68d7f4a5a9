------------------------------- MODULE KeyScan -------------------------------
(***************************************************************************)
(* How Prepare of the cache expiration attack                              *)
(* (extredis/attack_cache_expiration.go) finds its keys: ScanAllKeys       *)
(* (clients/clients.go) goes through the masters of a cluster, with a      *)
(* cursor on each, while keys come, go and move from server to server; the *)
(* keys found are then looked at one by one, through the client of the     *)
(* endpoint, and those of type string kept, up to a limit.                 *)
(***************************************************************************)
EXTENDS Integers, FiniteSets, SequencesExt, ClusterNodes

CONSTANTS
    Keys,         \* keys that match the pattern
    StringKeys,   \* those of type string
    MaxKeys,      \* state.MaxKeys, 0 for no limit
    MaxFound,     \* bound: candidates found
    MaxMoves      \* bound: keys that are written, expire or move meanwhile

ASSUME KeysAssumption == IsFiniteSet(Keys) /\ StringKeys \subseteq Keys
ASSUME ScanBounds == MaxKeys \in Nat /\ MaxFound \in Nat /\ MaxMoves \in Nat

VARIABLES
    scanning,   \* where Prepare is
    home,       \* per key: the server that holds it, as a set; empty for a missing key
    isCluster,  \* state.ClusterMode
    masters,    \* masters still to scan
    scanned,    \* the one that is being scanned, as a set
    pending,    \* keys SCAN has to return before its cursor is back at 0
    candidates, \* candidateKeys, and allKeys before
    scanFailed, \* SCAN failed at one of the masters
    matched,    \* stringKeys
    moves,
    stayed,     \* history: keys of the endpoint, listed as a master, that are still there
    untyped     \* history: keys whose TYPE got no answer

keyspace == <<home, moves, stayed>>
cursor == <<isCluster, masters, scanned, pending, scanFailed>>
scanVars == <<scanning, keyspace, cursor, candidates, matched, untyped>>

KeysAt(n) == {k \in Keys : n \in home[k]}
Homes == {{}} \cup {{n} : n \in Nodes}

ScanInit ==
    /\ scanning = "idle"
    /\ home \in [Keys -> Homes]
    /\ isCluster = FALSE
    /\ masters = {}
    /\ scanned = {}
    /\ pending = {}
    /\ candidates = <<>>
    /\ scanFailed = FALSE
    /\ matched = <<>>
    /\ moves = 0
    /\ stayed = {}
    /\ untyped = {}

\* The application writes a key, it expires, or its slot is migrated.
KeyMoves(k) ==
    /\ scanning \in {"scan", "type"}
    /\ moves < MaxMoves
    /\ \E to \in Homes \ {home[k]} : home' = [home EXCEPT ![k] = to]
    /\ moves' = moves + 1
    /\ stayed' = stayed \ {k}
    /\ pending' = pending \ {k}
    /\ UNCHANGED <<scanning, isCluster, masters, scanned, scanFailed, candidates, matched, untyped>>

\* Prepare asks for the mode, pings the endpoint and lists the masters, for which
\* GetMasterNodes asks for the mode again; either time a cluster may not be seen.
ScanBegins ==
    /\ scanning = "idle"
    /\ scanning' = "scan"
    /\ isCluster' \in BOOLEAN
    /\ masters' \in {{Endpoint}} \cup (IF isCluster' THEN MasterLists ELSE {})
    /\ stayed' = IF Endpoint \in masters' THEN KeysAt(Endpoint) ELSE {}
    /\ UNCHANGED <<home, moves, scanned, pending, scanFailed, candidates, matched, untyped>>

\* Prepare is answered with an error.
Refuse == scanning' = "refused"
ScanRefused ==
    /\ scanning = "idle"
    /\ Refuse
    /\ UNCHANGED <<keyspace, cursor, candidates, matched, untyped>>

\* ForEachMaster comes to the next master: the cursor is at 0.
ScanMaster(n) ==
    /\ scanning = "scan"
    /\ scanned = {}
    /\ n \in masters
    /\ masters' = masters \ {n}
    /\ scanned' = {n}
    /\ pending' = KeysAt(n)
    /\ UNCHANGED <<scanning, keyspace, isCluster, scanFailed, candidates, matched, untyped>>

\* Mutant of Found: a key that SCAN returns again is appended again.
FoundAgain(k) == Append(candidates, k)

\* In a cluster a key is appended when it has not been seen before.
Found(k) ==
    IF isCluster /\ Contains(candidates, k) THEN candidates ELSE Append(candidates, k)

\* SCAN returns a key of the server, those of before again if it likes.
ScanReturns(k) ==
    /\ scanning = "scan"
    /\ scanned \cap home[k] # {}
    /\ k \in pending \/ Len(candidates) < MaxFound
    /\ candidates' = Found(k)
    /\ pending' = pending \ {k}
    /\ UNCHANGED <<scanning, keyspace, isCluster, masters, scanned, scanFailed, matched, untyped>>

\* The cursor is back at 0: SCAN has returned every key that was there all the time.
ScanEnds ==
    /\ scanning = "scan"
    /\ scanned # {}
    /\ pending = {}
    /\ scanned' = {}
    /\ UNCHANGED <<scanning, keyspace, isCluster, masters, pending, scanFailed, candidates, matched, untyped>>

\* SCAN fails: in a cluster the other masters are scanned all the same.
ScanFails ==
    /\ scanning = "scan"
    /\ scanned # {}
    /\ scanned' = {}
    /\ pending' = {}
    /\ scanFailed' = TRUE
    /\ IF isCluster THEN scanning' = scanning ELSE Refuse
    /\ UNCHANGED <<keyspace, isCluster, masters, candidates, matched, untyped>>

\* The keys of all masters are there, or an error, or no key.
ScanOver ==
    /\ scanning = "scan"
    /\ masters = {} /\ scanned = {}
    /\ IF scanFailed \/ candidates = <<>> THEN Refuse ELSE scanning' = "type"
    /\ UNCHANGED <<keyspace, cursor, candidates, matched, untyped>>

Full(keys) == MaxKeys > 0 /\ Len(keys) >= MaxKeys

\* The loop over the candidates goes on, or has what it wants, or comes to its end.
TypeRead(kept) ==
    /\ matched' = kept
    /\ IF Full(kept) THEN candidates' = <<>> ELSE candidates' = Tail(candidates)
    /\ IF candidates' # <<>> THEN scanning' = scanning
       ELSE IF kept = <<>> THEN Refuse ELSE scanning' = "matched"

\* TYPE, for which the endpoint's client is used: the endpoint answers MOVED, an error,
\* for a key of another master, and "none" for a missing one.
TypeKey ==
    /\ scanning = "type"
    /\ LET k == Head(candidates)
       IN  TypeRead(IF k \in StringKeys /\ Endpoint \in home[k] THEN Append(matched, k) ELSE matched)
    /\ UNCHANGED <<keyspace, cursor, untyped>>

\* TYPE gets no answer: the key is skipped.
TypeFails ==
    /\ scanning = "type"
    /\ TypeRead(matched)
    /\ untyped' = untyped \cup {Head(candidates)}
    /\ UNCHANGED <<keyspace, cursor>>

ScanNext ==
    \/ ScanBegins \/ ScanRefused \/ ScanEnds \/ ScanFails \/ ScanOver \/ TypeKey \/ TypeFails
    \/ \E k \in Keys : KeyMoves(k) \/ ScanReturns(k)
    \/ \E n \in Nodes : ScanMaster(n)

ScanSpec == ScanInit /\ [][ScanNext]_scanVars

-----------------------------------------------------------------------------
\* Every variable has its type, a key is at one server at most, and the cursor has to
\* return only keys of the server it is at.
ScanTypeOK ==
    /\ scanning \in {"idle", "scan", "type", "matched", "refused"}
    /\ home \in [Keys -> Homes]
    /\ isCluster \in BOOLEAN
    /\ masters \subseteq Nodes /\ scanned \in Homes
    /\ pending \subseteq Keys
    /\ \A k \in pending : home[k] = scanned
    /\ candidates \in Seq(Keys) /\ matched \in Seq(StringKeys)
    /\ (scanning = "type") => candidates # <<>>
    /\ scanFailed \in BOOLEAN
    /\ moves \in 0 .. MaxMoves
    /\ stayed \subseteq Keys /\ untyped \subseteq Keys

\* The keys Prepare answers with are no more than asked for and, in a cluster, each there
\* once, however keys moved between the masters; and below the limit none is missing of
\* those the endpoint held all the time.
ScanComplete ==
    scanning = "matched" =>
        /\ MaxKeys > 0 => Len(matched) <= MaxKeys
        /\ isCluster => IsInjective(matched)
        /\ Full(matched) \/ (stayed \cap StringKeys) \ untyped \subseteq ToSet(matched)
=============================================================================
