----------------------- MODULE ConnectionExhaustionProofs -----------------------
(***************************************************************************)
(* Proofs about the connection exhaustion attack: for any number of        *)
(* attacks, URLs, masters and connections, every open connection has one   *)
(* holder that will close it, a closed one stays closed, and the attempts  *)
(* of an attack that did not give up add up to what it was asked for.      *)
(***************************************************************************)
EXTENDS ConnectionExhaustion, FiniteSetTheorems, TLAPS

\* What is left for the nodes after node n of m.
Rest(m, n) ==
    (m - n) * (NumConnections \div m)
        + (IF n < NumConnections % m THEN (NumConnections % m) - n ELSE 0)

\* The division Start makes.
LEMMA Division ==
    ASSUME NEW m \in Nat \ {0}
    PROVE  /\ NumConnections \div m \in Nat
           /\ NumConnections % m \in 0 .. m - 1
           /\ NumConnections = m * (NumConnections \div m) + (NumConnections % m)
BY NumberAssumption, SMT

\* The shares of the nodes add up to the number of connections.
LEMMA Shares ==
    ASSUME NEW m \in Nat \ {0}
    PROVE  /\ \A n \in 1 .. m : Share(m, n) \in Nat /\ Rest(m, n) \in Nat
           /\ Share(m, 1) + Rest(m, 1) = NumConnections
           /\ \A n \in 1 .. m - 1 : Rest(m, n) = Share(m, n + 1) + Rest(m, n + 1)
           /\ Rest(m, m) = 0
<1> DEFINE q == NumConnections \div m
           r == NumConnections % m
<1>1. q \in Nat /\ r \in 0 .. m - 1 /\ NumConnections = m * q + r
  BY Division
<1>2. \A n : /\ Share(m, n) = q + (IF n <= r THEN 1 ELSE 0)
             /\ Rest(m, n) = (m - n) * q + (IF n < r THEN r - n ELSE 0)
  BY DEF Share, Rest
<1> HIDE DEF q, r
<1>3. \A n \in 1 .. m : (m - n) * q \in Nat
  BY <1>1
<1>4. \A n \in 1 .. m - 1 : (m - n) * q = q + (m - (n + 1)) * q
  BY <1>1
<1>5. m * q = q + (m - 1) * q /\ (m - m) * q = 0
  BY <1>1
<1>6. \A n \in 1 .. m : Share(m, n) \in Nat /\ Rest(m, n) \in Nat
  BY <1>1, <1>2, <1>3
<1>7. Share(m, 1) + Rest(m, 1) = NumConnections
  BY <1>1, <1>2, <1>5
<1>8. ASSUME NEW n \in 1 .. m - 1 PROVE Rest(m, n) = Share(m, n + 1) + Rest(m, n + 1)
  <2>0. n \in 1 .. m /\ n + 1 \in 1 .. m
    OBVIOUS
  <2>1. /\ (m - n) * q = q + (m - (n + 1)) * q
        /\ (m - (n + 1)) * q \in Nat
    BY <2>0, <1>3, <1>4, Zenon
  <2>2. (IF n < r THEN r - n ELSE 0) = (IF n + 1 <= r THEN 1 ELSE 0) + (IF n + 1 < r THEN r - (n + 1) ELSE 0)
    BY <1>1, <2>0
  <2> DEFINE w == (m - (n + 1)) * q
             f == IF n < r THEN r - n ELSE 0
             g == IF n + 1 <= r THEN 1 ELSE 0
             h == IF n + 1 < r THEN r - (n + 1) ELSE 0
  <2>3. w \in Nat /\ g \in Nat /\ h \in Nat /\ f = g + h
    BY <1>1, <2>0, <2>1, <2>2
  <2>4. Rest(m, n) = (q + w) + f /\ Share(m, n + 1) = q + g /\ Rest(m, n + 1) = w + h
    BY <1>2, <2>1, Zenon
  <2> HIDE DEF w, f, g, h
  <2> QED
    BY <1>1, <2>3, <2>4
<1>9. Rest(m, m) = 0
  BY <1>1, <1>2, <1>5
<1> QED
  BY <1>6, <1>7, <1>8, <1>9

-----------------------------------------------------------------------------
\* The attempts of a Start: those made, those left on the node and those left for the
\* nodes to come never exceed what was asked for, and add up to it until it gives up.
Attempts(a) == successCount[a] + failCount[a] + left[a] + Rest(targets[a], node[a])

Counting ==
    \A a \in Attacks :
        /\ pc[a] \in {"new", "prepared"} => successCount[a] = 0 /\ failCount[a] = 0
        /\ pc[a] = "opening" =>
              /\ targets[a] \in Nodes
              /\ node[a] <= targets[a]
              /\ Attempts(a) <= NumConnections
              /\ failCount[a] <= FailLimit => Attempts(a) = NumConnections

\* The clients of a Start are numbered as they are opened.
Numbering == \A c \in Clients : c[2] > successCount[c[1]] => conn[c] = "none"

\* What is filed, and what a Stop has taken, belongs to a Start that is over.
Filed ==
    /\ \A a \in activeConnections : pc[a] \notin {"new", "prepared", "opening"}
    /\ \A a \in Attacks : \A c \in closing[a] :
          /\ c[1] \notin activeConnections
          /\ pc[c[1]] \notin {"new", "prepared", "opening"}
          /\ conn[c] # "none"
          /\ \A b \in Attacks \ {a} : c \notin closing[b]
    /\ \A a \in Attacks : closing[a] # {} => pc[a] = "closing"

\* No client that is open is forgotten.
Held ==
    \A c \in Clients : Live(c) =>
        \/ pc[c[1]] = "opening"
        \/ c[1] \in activeConnections
        \/ \E a \in Attacks : c \in closing[a]

ConnInv == TypeOK /\ Counting /\ Numbering /\ Filed /\ Held /\ AllAttempted

\* Filed and Held leave each open client one holder.
LEMMA HoldersOfOne == ConnInv => OneHolder
<1> SUFFICES ASSUME ConnInv, NEW c \in Clients, Live(c) PROVE Cardinality(Holders(c)) = 1
  BY DEF OneHolder
<1> DEFINE S == {<<"start", a>> : a \in {b \in {c[1]} : pc[b] = "opening"}}
           M == {<<"map", a>> : a \in activeConnections \cap {c[1]}}
           T == {<<"stop", a>> : a \in {b \in Attacks : c \in closing[b]}}
<1>1. Holders(c) = S \cup M \cup T
  BY DEF Holders
<1>2. c[1] \in Attacks
  BY DEF Clients
<1>3. \E x : Holders(c) = {x}
  <2>1. CASE pc[c[1]] = "opening"
    <3>1. M = {} /\ T = {}
      BY <2>1, <1>2 DEF ConnInv, Filed
    <3>2. S = {<<"start", c[1]>>}
      BY <2>1
    <3> QED
      BY <1>1, <3>1, <3>2
  <2>2. CASE c[1] \in activeConnections
    <3>1. S = {} /\ T = {}
      BY <2>2, <1>2 DEF ConnInv, Filed
    <3>2. M = {<<"map", c[1]>>}
      BY <2>2
    <3> QED
      BY <1>1, <3>1, <3>2
  <2>3. CASE \E a \in Attacks : c \in closing[a]
    <3>1. PICK a \in Attacks : c \in closing[a]
      BY <2>3
    <3>2. S = {} /\ M = {}
      BY <3>1 DEF ConnInv, Filed
    <3>3. {b \in Attacks : c \in closing[b]} = {a}
      BY <3>1 DEF ConnInv, Filed
    <3>4. T = {<<"stop", a>>}
      BY <3>3
    <3> QED
      BY <1>1, <3>2, <3>4
  <2> QED
    BY <2>1, <2>2, <2>3 DEF ConnInv, Held
<1> QED
  BY <1>3, FS_Singleton

LEMMA InitConn == Init => ConnInv
<1> SUFFICES ASSUME Init PROVE ConnInv
  OBVIOUS
<1>1. 0 \in 0 .. NumConnections /\ 0 \in 0 .. MaxStops /\ 0 \in 0 .. MaxDrops /\ 1 \in Nodes
  BY NumberAssumption DEF Nodes
<1>2. TypeOK
  BY <1>1 DEF Init, TypeOK
<1>3. Counting /\ Numbering /\ Filed /\ Held /\ AllAttempted
  BY DEF Init, Counting, Numbering, Filed, Held, Live, AllAttempted, Started
<1> QED
  BY <1>2, <1>3 DEF ConnInv

-----------------------------------------------------------------------------
\* A step that changes no count of an execution that opens or runs.
LEMMA CountingKept ==
    ASSUME TypeOK, Counting, AllAttempted, UNCHANGED startLocals,
           \A a \in Attacks : /\ pc'[a] \in {"new", "prepared", "opening", "running"} => pc[a] = pc'[a] \/ (pc[a] = "new" /\ pc'[a] = "prepared")
    PROVE  Counting' /\ AllAttempted'
<1>1. Counting'
  BY DEF Counting, Attempts, startLocals
<1>2. AllAttempted'
  BY DEF AllAttempted, Started, startLocals
<1> QED
  BY <1>1, <1>2

\* A step that only moves open connections between connected and dropped.
LEMMA ConnKept ==
    ASSUME ConnInv, UNCHANGED <<pc, startLocals, activeConnections, closing>>,
           \A c \in Clients : /\ conn'[c] = "none" <=> conn[c] = "none"
                              /\ conn'[c] = "closed" <=> conn[c] = "closed",
           TypeOK'
    PROVE  ConnInv'
<1>1. Counting' /\ AllAttempted'
  BY CountingKept DEF ConnInv
<1>2. Numbering'
  BY DEF ConnInv, Numbering, startLocals
<1>3. Filed'
  <2>1. \A a \in Attacks : closing[a] \subseteq Clients
    BY DEF ConnInv, TypeOK
  <2> QED
    BY <2>1 DEF ConnInv, Filed
<1>4. \A c \in Clients : Live(c)' => Live(c)
  BY DEF Live, ConnInv, TypeOK
<1>5. Held'
  BY <1>4 DEF ConnInv, Held
<1> QED
  BY <1>1, <1>2, <1>3, <1>5 DEF ConnInv

\* A Start that begins, or fails before it opens anything, holds no client.
LEMMA StartOthers ==
    ASSUME ConnInv, NEW a \in Attacks, pc[a] = "prepared", pc'[a] \in {"failed", "opening"},
           \A b \in Attacks \ {a} : pc'[b] = pc[b],
           UNCHANGED <<successCount, conn, activeConnections, closing>>
    PROVE  Numbering' /\ Filed' /\ Held'
<1> USE DEF ConnInv
<1>1. \A c \in Clients : c[1] \in Attacks /\ c[2] \in Nat /\ c[2] > 0
  BY DEF Clients
<1>2. successCount[a] = 0
  BY DEF Counting
<1>3. \A c \in Clients : c[1] = a => conn[c] = "none"
  BY <1>1, <1>2 DEF Numbering
<1>4. Numbering'
  BY DEF Numbering
<1>5. Filed'
  <2>1. \A b \in activeConnections : b \in Attacks /\ b # a
    BY DEF Filed, TypeOK
  <2>2. \A b \in Attacks : closing[b] # {} => b # a /\ pc'[b] = "closing"
    BY DEF Filed
  <2>3. \A b \in Attacks : \A c \in closing[b] : c \in Clients /\ c[1] # a
    BY DEF Filed, TypeOK
  <2> QED
    BY <1>1, <2>1, <2>2, <2>3 DEF Filed
<1>6. Held'
  <2> SUFFICES ASSUME NEW c \in Clients, Live(c)
               PROVE  \/ pc'[c[1]] = "opening"
                      \/ c[1] \in activeConnections
                      \/ \E b \in Attacks : c \in closing[b]
    BY DEF Held, Live
  <2>1. c[1] # a
    BY <1>3 DEF Live
  <2> QED
    BY <2>1, <1>1 DEF Held
<1> QED
  BY <1>4, <1>5, <1>6

\* Start: the first node gets its share.
LEMMA StartKeeps ==
    ASSUME ConnInv, NEW a \in Attacks, Start(a)
    PROVE  ConnInv'
<1> USE DEF ConnInv
<1>1. UNCHANGED <<successCount, failCount, conn, at, activeConnections, closing>>
  BY DEF Start, startLocals, stopLocals
<1>2. pc[a] = "prepared" /\ \A b \in Attacks \ {a} : pc'[b] = pc[b]
  BY DEF Start, TypeOK
<1>3. pc'[a] \in {"failed", "opening"}
  BY DEF Start, TypeOK
<1>4. \A b \in Attacks \ {a} : targets'[b] = targets[b] /\ node'[b] = node[b] /\ left'[b] = left[b]
  BY DEF Start, TypeOK, startLocals
<1>5. successCount[a] = 0 /\ failCount[a] = 0
  BY <1>2 DEF Counting
<1>6. CASE pc'[a] = "opening"
  <2>1. PICK m \in Nodes : /\ targets' = [targets EXCEPT ![a] = m]
                           /\ node' = [node EXCEPT ![a] = 1]
                           /\ left' = [left EXCEPT ![a] = Share(m, 1)]
    BY <1>6, <1>2 DEF Start, TypeOK
  <2>2. m \in Nat \ {0} /\ 1 \in 1 .. m /\ 1 \in Nodes
    BY NumberAssumption DEF Nodes
  <2>3. Share(m, 1) \in Nat /\ Rest(m, 1) \in Nat /\ Share(m, 1) + Rest(m, 1) = NumConnections
    BY <2>2, Shares
  <2>4. targets'[a] = m /\ node'[a] = 1 /\ left'[a] = Share(m, 1)
    BY <2>1 DEF TypeOK
  <2>5. Attempts(a)' = NumConnections
    BY <1>1, <1>5, <2>3, <2>4 DEF Attempts
  <2>6. Share(m, 1) \in 0 .. NumConnections
    BY <2>3, NumberAssumption
  <2>7. TypeOK'
    <3>1. UNCHANGED <<failCount, successCount, conn, at, activeConnections, closing, stops,
                      keepAlive, snapshot, drops>>
      BY <1>1 DEF Start, stopLocals, pings
    <3>2. targets' \in [Attacks -> Nodes \cup {0}] /\ node' \in [Attacks -> Nodes]
      BY <2>1, <2>2 DEF TypeOK
    <3>3. left' \in [Attacks -> 0 .. NumConnections]
      BY <2>1, <2>6 DEF TypeOK
    <3>4. pc' = [pc EXCEPT ![a] = "failed"] \/ pc' = [pc EXCEPT ![a] = "opening"]
      BY DEF Start
    <3>5. pc' \in [Attacks -> {"new", "prepared", "opening", "running", "failed", "closing", "stopped"}]
      BY <3>4 DEF TypeOK
    <3> QED
      BY <3>1, <3>2, <3>3, <3>5 DEF TypeOK
  <2>8. Counting'
    <3> SUFFICES ASSUME NEW b \in Attacks
                 PROVE  /\ pc'[b] \in {"new", "prepared"} => successCount'[b] = 0 /\ failCount'[b] = 0
                        /\ pc'[b] = "opening" =>
                              /\ targets'[b] \in Nodes
                              /\ node'[b] <= targets'[b]
                              /\ Attempts(b)' <= NumConnections
                              /\ failCount'[b] <= FailLimit => Attempts(b)' = NumConnections
      BY DEF Counting
    <3>1. CASE b = a
      BY <3>1, <1>6, <2>2, <2>4, <2>5, NumberAssumption
    <3>2. CASE b # a
      BY <3>2, <1>1, <1>2, <1>4 DEF Counting, Attempts
    <3> QED
      BY <3>1, <3>2
  <2>9. Numbering' /\ Filed' /\ Held'
    BY <1>1, <1>2, <1>6, StartOthers
  <2>10. AllAttempted'
    BY <1>1, <1>2, <1>6 DEF AllAttempted, Started
  <2> QED
    BY <2>7, <2>8, <2>9, <2>10
<1>7. CASE pc'[a] = "failed"
  <2>1. UNCHANGED startLocals
    BY <1>7, <1>2 DEF Start, TypeOK
  <2>2. TypeOK'
    BY <1>7, <2>1 DEF Start, TypeOK, startLocals, stopLocals, pings
  <2>3. Counting' /\ AllAttempted'
    BY <1>2, <1>7, <2>1, CountingKept
  <2>4. Numbering' /\ Filed' /\ Held'
    BY <1>1, <1>2, <1>7, StartOthers
  <2> QED
    BY <2>2, <2>3, <2>4
<1> QED
  BY <1>3, <1>6, <1>7

\* Start tries one connection.
LEMMA OpenKeeps ==
    ASSUME ConnInv, NEW a \in Attacks, Open(a)
    PROVE  /\ ConnInv'
           /\ \A c \in Clients : conn[c] = "closed" => conn'[c] = "closed"
<1> USE DEF ConnInv
<1>1. pc[a] = "opening" /\ left[a] > 0
  BY DEF Open
<1>2. UNCHANGED <<pc, targets, node, activeConnections, closing, stops, keepAlive, snapshot, drops>>
  BY DEF Open, stopLocals, pings
<1>3. /\ targets[a] \in Nat \ {0}
      /\ node[a] \in 1 .. targets[a]
      /\ Rest(targets[a], node[a]) \in Nat
  BY <1>1, Shares DEF Counting, TypeOK, Nodes
<1>4. /\ successCount[a] \in Nat /\ failCount[a] \in Nat /\ left[a] \in Nat
      /\ NumConnections \in Nat /\ FailLimit \in Nat
      /\ Attempts(a) <= NumConnections
      /\ failCount[a] <= FailLimit => Attempts(a) = NumConnections
  BY <1>1, NumberAssumption DEF Counting, TypeOK
<1>5. \A b \in Attacks \ {a} : Attempts(b)' = Attempts(b) /\ failCount'[b] = failCount[b] /\ successCount'[b] = successCount[b]
  BY <1>2 DEF Open, OpenSucceeds, OpenFails, TypeOK, Attempts
<1>6. CASE OpenSucceeds(a)
  <2> DEFINE i == successCount[a] + 1
             c == <<a, i>>
  <2>1. i \in 1 .. NumConnections
    BY <1>1, <1>3, <1>4 DEF Attempts
  <2>2. c \in Clients /\ c[1] = a /\ c[2] = i
    BY <2>1 DEF Clients
  <2>3. conn[c] = "none"
    BY <2>2, <1>4 DEF Numbering
  <2>4. /\ successCount'[a] = i /\ left'[a] = left[a] - 1 /\ failCount' = failCount
        /\ conn' = [conn EXCEPT ![c] = "connected"]
        /\ at' = [at EXCEPT ![c] = node[a]]
        /\ successCount' = [successCount EXCEPT ![a] = i]
        /\ left' = [left EXCEPT ![a] = left[a] - 1]
    BY <1>6 DEF OpenSucceeds, TypeOK
  <2> HIDE DEF i, c
  <2>5. Attempts(a)' = Attempts(a)
    BY <2>4, <1>2, <1>3, <1>4 DEF Attempts, i
  <2>6. left[a] - 1 \in 0 .. NumConnections
    BY <1>1, <1>4 DEF TypeOK
  <2>7. i \in 0 .. NumConnections
    BY <2>1
  <2>8. TypeOK'
    BY <1>2, <2>2, <2>4, <2>6, <2>7 DEF TypeOK
  <2>9. Counting'
    BY <1>1, <1>2, <1>4, <1>5, <2>4, <2>5 DEF Counting
  <2>10. Numbering'
    <3> SUFFICES ASSUME NEW d \in Clients, d[2] > successCount'[d[1]] PROVE conn'[d] = "none"
      BY DEF Numbering
    <3>1. d[1] \in Attacks /\ d[2] \in 1 .. NumConnections
      BY DEF Clients
    <3>2. CASE d[1] = a
      <4>1. d[2] > i /\ d # c
        BY <3>1, <3>2, <2>1, <2>2, <2>4
      <4>2. d[2] > successCount[a]
        BY <4>1, <3>1, <1>4 DEF i
      <4> QED
        BY <4>1, <4>2, <3>2, <2>4 DEF Numbering, TypeOK
    <3>3. CASE d[1] # a
      BY <3>1, <3>3, <1>5, <2>2, <2>4 DEF Numbering, TypeOK
    <3> QED
      BY <3>2, <3>3
  <2>11. Filed'
    <3>1. \A b \in Attacks : \A d \in closing[b] : conn'[d] # "none"
      BY <2>4 DEF Filed, TypeOK
    <3> QED
      BY <1>2, <3>1 DEF Filed
  <2>12. Held'
    <3> SUFFICES ASSUME NEW d \in Clients, Live(d)'
                 PROVE  \/ pc[d[1]] = "opening"
                        \/ d[1] \in activeConnections
                        \/ \E b \in Attacks : d \in closing[b]
      BY <1>2 DEF Held
    <3>1. CASE d = c
      BY <3>1, <2>2, <1>1
    <3>2. CASE d # c
      BY <3>2, <2>4 DEF Held, Live, TypeOK
    <3> QED
      BY <3>1, <3>2
  <2>13. AllAttempted'
    BY <1>1, <1>2, <1>5 DEF AllAttempted, Started
  <2>14. \A d \in Clients : conn[d] = "closed" => conn'[d] = "closed"
    BY <2>3, <2>4 DEF TypeOK
  <2> QED
    BY <2>8, <2>9, <2>10, <2>11, <2>12, <2>13, <2>14
<1>7. CASE OpenFails(a)
  <2>1. /\ failCount' = [failCount EXCEPT ![a] = failCount[a] + 1]
        /\ UNCHANGED <<conn, at, successCount>>
        /\ \/ left' = [left EXCEPT ![a] = left[a] - 1]
           \/ left' = [left EXCEPT ![a] = 0] /\ failCount[a] + 1 > FailLimit
    BY <1>7 DEF OpenFails, TypeOK
  <2>2. /\ failCount'[a] = failCount[a] + 1
        /\ \/ left'[a] = left[a] - 1
           \/ left'[a] = 0 /\ failCount[a] + 1 > FailLimit
    BY <2>1 DEF TypeOK
  <2>3. /\ Attempts(a)' <= Attempts(a)
        /\ failCount'[a] <= FailLimit => Attempts(a)' = Attempts(a)
    <3>1. Attempts(a)' = successCount[a] + failCount'[a] + left'[a] + Rest(targets[a], node[a])
      BY <1>2, <2>1 DEF Attempts
    <3> QED
      BY <3>1, <2>2, <1>1, <1>3, <1>4 DEF Attempts
  <2>4. failCount[a] + 1 \in 0 .. NumConnections
    BY <1>1, <1>3, <1>4 DEF Attempts
  <2>5. left[a] - 1 \in 0 .. NumConnections /\ 0 \in 0 .. NumConnections
    BY <1>1, <1>4 DEF TypeOK
  <2>6. TypeOK'
    BY <1>2, <2>1, <2>4, <2>5 DEF TypeOK
  <2>7. failCount'[a] <= FailLimit => failCount[a] <= FailLimit
    BY <2>2, <1>4
  <2>8. Attempts(a)' <= NumConnections /\ (failCount'[a] <= FailLimit => Attempts(a)' = NumConnections)
    <3>1. Attempts(a) \in Int /\ Attempts(a)' \in Int
      BY <1>2, <1>3, <1>4, <2>1, <2>2 DEF Attempts
    <3> QED
      BY <3>1, <1>4, <2>3, <2>7
  <2>9. Counting'
    BY <1>1, <1>2, <1>5, <2>8 DEF Counting
  <2>10. Numbering' /\ Filed' /\ Held'
    BY <1>2, <2>1 DEF Numbering, Filed, Held, Live
  <2>11. AllAttempted'
    BY <1>1, <1>2, <1>5 DEF AllAttempted, Started
  <2> QED
    BY <2>1, <2>6, <2>9, <2>10, <2>11
<1> QED
  BY <1>6, <1>7 DEF Open

\* Start comes to the next node.
LEMMA NextTargetKeeps ==
    ASSUME ConnInv, NEW a \in Attacks, NextTarget(a)
    PROVE  ConnInv'
<1> USE DEF ConnInv
<1> DEFINE m == targets[a]
           n == node[a]
<1>1. /\ pc[a] = "opening" /\ left[a] = 0
      /\ m \in Nat \ {0} /\ n \in 1 .. m - 1 /\ n + 1 \in 1 .. m /\ n + 1 \in Nodes
  BY NumberAssumption DEF NextTarget, Counting, TypeOK, Nodes
<1>2. /\ Rest(m, n) = Share(m, n + 1) + Rest(m, n + 1)
      /\ Share(m, n + 1) \in Nat /\ Rest(m, n + 1) \in Nat
  BY <1>1, Shares
<1>3. /\ UNCHANGED <<pc, targets, failCount, successCount, conn, at, activeConnections, closing>>
      /\ node' = [node EXCEPT ![a] = n + 1]
      /\ left' = [left EXCEPT ![a] = Share(m, n + 1)]
  BY DEF NextTarget, stopLocals, TypeOK
<1>4. node'[a] = n + 1 /\ left'[a] = Share(m, n + 1)
  BY <1>3 DEF TypeOK
<1>5. /\ successCount[a] \in Nat /\ failCount[a] \in Nat /\ NumConnections \in Nat
      /\ Attempts(a) <= NumConnections
      /\ failCount[a] <= FailLimit => Attempts(a) = NumConnections
  BY <1>1, NumberAssumption DEF Counting, TypeOK
<1> DEFINE s == Share(m, n + 1)
           r == Rest(m, n + 1)
<1>6. /\ Attempts(a) = successCount[a] + failCount[a] + 0 + (s + r)
      /\ Attempts(a)' = successCount[a] + failCount[a] + s + r
      /\ s \in Nat /\ r \in Nat
  BY <1>1, <1>2, <1>3, <1>4, Zenon DEF Attempts
<1> HIDE DEF s, r
<1>7. Attempts(a)' = Attempts(a) /\ s \in 0 .. NumConnections
  BY <1>5, <1>6
<1>8. TypeOK'
  BY <1>1, <1>3, <1>7 DEF NextTarget, TypeOK, stopLocals, pings, s
<1>9. \A b \in Attacks \ {a} : Attempts(b)' = Attempts(b) /\ node'[b] = node[b]
  BY <1>3 DEF Attempts, TypeOK
<1>10. Counting'
  <2>1. node'[a] <= targets'[a]
    BY <1>1, <1>3, <1>4
  <2> QED
    BY <1>3, <1>7, <1>9, <2>1 DEF Counting
<1>11. Numbering' /\ Filed' /\ Held' /\ AllAttempted'
  BY <1>3 DEF Numbering, Filed, Held, Live, AllAttempted, Started
<1> QED
  BY <1>8, <1>10, <1>11

\* Start files what it has opened.
LEMMA RegisterKeeps ==
    ASSUME ConnInv, NEW a \in Attacks, Register(a)
    PROVE  ConnInv'
<1> USE DEF ConnInv
<1>1. /\ pc[a] = "opening" /\ left[a] = 0 /\ node[a] = targets[a]
      /\ UNCHANGED startLocals /\ UNCHANGED <<conn, at, closing>>
      /\ activeConnections' = activeConnections \cup {a}
      /\ pc'[a] \in {"failed", "running"}
      /\ \A b \in Attacks \ {a} : pc'[b] = pc[b]
  BY DEF Register, stopLocals, TypeOK
<1>2. TypeOK'
  BY DEF Register, TypeOK, startLocals, stopLocals, pings
<1>3. Counting'
  BY <1>1 DEF Counting, Attempts, startLocals
<1>4. failCount[a] <= FailLimit => successCount[a] + failCount[a] = NumConnections
  <2>1. targets[a] \in Nat \ {0}
    BY <1>1 DEF Counting, Nodes
  <2>2. Rest(targets[a], node[a]) = 0
    BY <1>1, <2>1, Shares
  <2>3. failCount[a] <= FailLimit => Attempts(a) = NumConnections
    BY <1>1 DEF Counting
  <2>4. successCount[a] \in Nat /\ failCount[a] \in Nat
    BY DEF TypeOK
  <2> QED
    BY <1>1, <2>2, <2>3, <2>4 DEF Attempts
<1>5. AllAttempted'
  BY <1>1, <1>4 DEF AllAttempted, Started, startLocals
<1>6. Numbering'
  BY <1>1 DEF Numbering, startLocals
<1>7. Filed'
  <2>1. \A b \in Attacks : \A c \in closing[b] : c[1] \in Attacks /\ c[1] # a
    BY <1>1 DEF Filed, TypeOK, Clients
  <2>2. \A b \in Attacks : closing[b] # {} => b # a
    BY <1>1 DEF Filed
  <2>3. \A b \in activeConnections' : b = a \/ (b \in Attacks \ {a} /\ b \in activeConnections)
    BY <1>1 DEF TypeOK
  <2>4. \A b \in activeConnections' : pc'[b] \notin {"new", "prepared", "opening"}
    BY <1>1, <2>3 DEF Filed
  <2>5. \A b \in Attacks : \A c \in closing[b] :
            /\ c[1] \notin activeConnections'
            /\ pc'[c[1]] \notin {"new", "prepared", "opening"}
    BY <1>1, <2>1 DEF Filed
  <2> QED
    BY <1>1, <2>2, <2>4, <2>5 DEF Filed
<1>8. \A c \in Clients : c[1] \in Attacks
  BY DEF Clients
<1>9. Held'
  BY <1>1, <1>8 DEF Held, Live
<1> QED
  BY <1>2, <1>3, <1>5, <1>6, <1>7, <1>9

-----------------------------------------------------------------------------
\* Stop takes an entry out of the map, whosever it is.
LEMMA StopKeeps ==
    ASSUME ConnInv, NEW a \in Attacks, Stop(a)
    PROVE  ConnInv'
<1> USE DEF ConnInv
<1>1. /\ pc[a] \in {"prepared", "failed", "running", "stopped"}
      /\ pc' = [pc EXCEPT ![a] = "closing"]
      /\ UNCHANGED startLocals /\ UNCHANGED <<conn, at, stops>>
  BY DEF Stop
<1>2. closing[a] = {}
  BY <1>1 DEF Filed
<1>3. Counting' /\ AllAttempted'
  BY <1>1, CountingKept DEF TypeOK
<1>4. Numbering'
  BY <1>1 DEF Numbering, startLocals
<1>5. CASE Candidates(a) = {} /\ UNCHANGED <<activeConnections, closing>>
  <2>1. TypeOK'
    BY <1>1, <1>5 DEF Stop, TypeOK, startLocals, pings
  <2>2. Filed'
    BY <1>1, <1>5 DEF Filed, TypeOK
  <2>3. \A c \in Clients : c[1] \in Attacks
    BY DEF Clients
  <2>4. Held'
    BY <1>1, <1>5, <2>3 DEF Held, Live, TypeOK
  <2> QED
    BY <1>3, <1>4, <2>1, <2>2, <2>4
<1>6. ASSUME NEW b \in Candidates(a),
             activeConnections' = activeConnections \ {b},
             closing' = [closing EXCEPT ![a] = Connections(b)]
      PROVE  ConnInv'
  <2>1. b \in activeConnections /\ b \in Attacks
    BY DEF Candidates, TypeOK
  <2>2. /\ Connections(b) \subseteq Clients
        /\ \A c \in Connections(b) : c[1] = b /\ conn[c] # "none"
        /\ \A c \in Clients : c[1] = b /\ conn[c] # "none" => c \in Connections(b)
    BY DEF Connections
  <2>3. /\ closing'[a] = Connections(b)
        /\ \A d \in Attacks \ {a} : closing'[d] = closing[d]
    BY <1>6 DEF TypeOK
  <2>4. TypeOK'
    BY <1>1, <1>6, <2>2 DEF Stop, TypeOK, startLocals, pings
  <2>5. pc'[a] = "closing" /\ \A d \in Attacks \ {a} : pc'[d] = pc[d]
    BY <1>1 DEF TypeOK
  <2>6. \A d \in Attacks : pc'[d] \in {"new", "prepared", "opening"} => pc[d] = pc'[d] /\ d # a
    BY <2>5
  <2>7. \A d \in Attacks : \A c \in closing[d] : c[1] # b /\ c[1] \in Attacks
    BY <2>1 DEF Filed, TypeOK, Clients
  <2>8. Filed'
    <3>1. \A d \in activeConnections' : pc'[d] \notin {"new", "prepared", "opening"}
      BY <1>6, <2>6 DEF Filed, TypeOK
    <3>2. \A d \in Attacks : closing'[d] # {} => pc'[d] = "closing"
      BY <2>3, <2>5 DEF Filed
    <3>3. ASSUME NEW d \in Attacks, NEW c \in closing'[d]
          PROVE  /\ c[1] \notin activeConnections'
                 /\ pc'[c[1]] \notin {"new", "prepared", "opening"}
                 /\ conn'[c] # "none"
                 /\ \A e \in Attacks \ {d} : c \notin closing'[e]
      <4>1. CASE d = a
        <5>1. c[1] = b
          BY <4>1, <2>2, <2>3
        <5>2. pc'[b] \notin {"new", "prepared", "opening"}
          BY <2>1, <2>6 DEF Filed
        <5>3. conn'[c] # "none"
          BY <4>1, <1>1, <2>2, <2>3
        <5> QED
          BY <4>1, <5>1, <5>2, <5>3, <1>6, <2>3, <2>7
      <4>2. CASE d # a
        <5>1. c \in closing[d]
          BY <4>2, <2>3
        <5>2. c[1] # b /\ c[1] \in Attacks
          BY <5>1, <2>7
        <5>3. c \notin closing'[a]
          BY <5>2, <2>2, <2>3
        <5> QED
          BY <4>2, <5>1, <5>2, <5>3, <1>1, <1>6, <2>3, <2>6 DEF Filed
      <4> QED
        BY <4>1, <4>2
    <3> QED
      BY <3>1, <3>2, <3>3 DEF Filed
  <2>9. Held'
    <3> SUFFICES ASSUME NEW c \in Clients, Live(c)
                 PROVE  \/ pc'[c[1]] = "opening"
                        \/ c[1] \in activeConnections'
                        \/ \E d \in Attacks : c \in closing'[d]
      BY <1>1 DEF Held, Live
    <3>1. c[1] \in Attacks /\ conn[c] # "none"
      BY DEF Clients, Live
    <3>2. CASE pc[c[1]] = "opening"
      BY <3>1, <3>2, <1>1, <2>5
    <3>3. CASE c[1] \in activeConnections
      BY <3>1, <3>3, <1>6, <2>2, <2>3
    <3>4. CASE \E d \in Attacks : c \in closing[d]
      BY <3>4, <1>2, <2>3
    <3> QED
      BY <3>2, <3>3, <3>4 DEF Held
  <2> QED
    BY <1>3, <1>4, <2>4, <2>8, <2>9
<1> QED
  BY <1>5, <1>6 DEF Stop

\* Stop closes one client.
LEMMA CloseKeeps ==
    ASSUME ConnInv, NEW a \in Attacks, Close(a)
    PROVE  /\ ConnInv'
           /\ \A c \in Clients : conn[c] = "closed" => conn'[c] = "closed"
<1> USE DEF ConnInv
<1>1. PICK c \in Earliest(closing[a]) : /\ conn' = [conn EXCEPT ![c] = "closed"]
                                        /\ closing' = [closing EXCEPT ![a] = @ \ {c}]
  BY DEF Close
<1>2. c \in closing[a] /\ c \in Clients /\ c[1] \in Attacks
  BY DEF Earliest, TypeOK, Clients
<1>3. pc[a] = "closing" /\ UNCHANGED startLocals /\ UNCHANGED <<pc, activeConnections>>
  BY DEF Close
<1>4. /\ closing'[a] = closing[a] \ {c}
      /\ \A b \in Attacks \ {a} : closing'[b] = closing[b]
      /\ conn'[c] = "closed"
      /\ \A d \in Clients \ {c} : conn'[d] = conn[d]
  BY <1>1, <1>2 DEF TypeOK
<1>5. TypeOK'
  BY <1>1, <1>2 DEF Close, TypeOK, startLocals, pings
<1>6. Counting' /\ AllAttempted'
  BY <1>3, CountingKept
<1>7. \A d \in closing[a] : conn[d] # "none"
  BY DEF Filed
<1>8. Filed'
  <2>1. \A b \in Attacks : closing'[b] \subseteq closing[b] /\ closing[b] \subseteq Clients
    BY <1>4 DEF TypeOK
  <2>2. \A b \in Attacks : \A d \in closing'[b] : conn'[d] # "none"
    BY <1>4, <2>1 DEF Filed
  <2> QED
    BY <1>3, <2>1, <2>2 DEF Filed
<1>9. Held'
  <2> SUFFICES ASSUME NEW d \in Clients, Live(d)'
               PROVE  \/ pc[d[1]] = "opening"
                      \/ d[1] \in activeConnections
                      \/ \E b \in Attacks : d \in closing'[b]
    BY <1>3 DEF Held
  <2>1. d # c /\ Live(d)
    BY <1>4 DEF Live
  <2> QED
    BY <2>1, <1>4 DEF Held
<1>10. Numbering'
  BY <1>2, <1>3, <1>4, <1>7 DEF Numbering, startLocals
<1> QED
  BY <1>4, <1>5, <1>6, <1>8, <1>9, <1>10

\* A Stop that is under way has not been counted yet.
StopsCounted == \A a \in Attacks : pc[a] = "closing" => stops[a] < MaxStops

\* Stop answers.
LEMMA ReturnKeeps ==
    ASSUME ConnInv, StopsCounted, NEW a \in Attacks, StopReturn(a)
    PROVE  ConnInv'
<1> USE DEF ConnInv
<1>1. /\ pc[a] = "closing" /\ closing[a] = {} /\ stops[a] < MaxStops
      /\ pc' = [pc EXCEPT ![a] = "stopped"]
      /\ stops' = [stops EXCEPT ![a] = @ + 1]
      /\ UNCHANGED startLocals /\ UNCHANGED <<conn, at, activeConnections, closing>>
  BY DEF StopReturn, StopsCounted
<1>2. pc'[a] = "stopped" /\ \A b \in Attacks \ {a} : pc'[b] = pc[b]
  BY <1>1 DEF TypeOK
<1>3. stops[a] + 1 \in 0 .. MaxStops
  BY <1>1, NumberAssumption DEF TypeOK
<1>4. TypeOK'
  BY <1>1, <1>3 DEF StopReturn, TypeOK, startLocals, pings
<1>5. Counting' /\ AllAttempted'
  BY <1>1, <1>2, CountingKept
<1>6. Numbering'
  BY <1>1 DEF Numbering, startLocals
<1>7. Filed'
  BY <1>1, <1>2 DEF Filed, TypeOK, Clients
<1>8. \A c \in Clients : c[1] \in Attacks
  BY DEF Clients
<1>9. Held'
  BY <1>1, <1>2, <1>8 DEF Held, Live
<1> QED
  BY <1>4, <1>5, <1>6, <1>7, <1>9

\* Prepare answers.
LEMMA PrepareKeeps ==
    ASSUME ConnInv, NEW a \in Attacks, Prepare(a)
    PROVE  ConnInv'
<1> USE DEF ConnInv
<1>1. /\ pc[a] = "new"
      /\ pc' = [pc EXCEPT ![a] = "prepared"]
      /\ UNCHANGED startLocals /\ UNCHANGED <<conn, at, activeConnections, closing>>
  BY DEF Prepare, stopLocals
<1>2. pc'[a] = "prepared" /\ \A b \in Attacks \ {a} : pc'[b] = pc[b]
  BY <1>1 DEF TypeOK
<1>3. TypeOK'
  BY <1>1 DEF Prepare, TypeOK, startLocals, stopLocals, pings
<1>4. Counting' /\ AllAttempted'
  BY <1>1, <1>2, CountingKept
<1>5. Numbering'
  BY <1>1 DEF Numbering, startLocals
<1>6. \A c \in Clients : c[1] \in Attacks
  BY DEF Clients
<1>7. Filed'
  BY <1>1, <1>2, <1>6 DEF Filed, TypeOK
<1>8. Held'
  BY <1>1, <1>2, <1>6 DEF Held, Live
<1> QED
  BY <1>3, <1>4, <1>5, <1>7, <1>8

\* The goroutine reads the slice, ends, or pings a client; the server drops one.
LEMMA PingKeeps ==
    ASSUME ConnInv, (\E a \in Attacks : KeepAlive(a)) \/ (\E c \in Clients : Drop(c))
    PROVE  /\ ConnInv'
           /\ \A c \in Clients : conn[c] = "closed" => conn'[c] = "closed"
<1> USE DEF ConnInv
<1>1. ASSUME NEW a \in Attacks, KeepAliveTick(a)
      PROVE  TypeOK' /\ UNCHANGED <<pc, startLocals, activeConnections, closing, conn>>
  <2>1. Connections(a) \in SUBSET Clients
    BY DEF Connections
  <2> QED
    BY <1>1, <2>1 DEF KeepAliveTick, TypeOK, startLocals, stopLocals
<1>2. ASSUME NEW a \in Attacks, KeepAliveEnd(a)
      PROVE  TypeOK' /\ UNCHANGED <<pc, startLocals, activeConnections, closing, conn>>
  BY <1>2 DEF KeepAliveEnd, TypeOK, startLocals, stopLocals
<1>3. ASSUME NEW a \in Attacks, KeepAlivePing(a)
      PROVE  /\ TypeOK' /\ UNCHANGED <<pc, startLocals, activeConnections, closing>>
             /\ \A d \in Clients : /\ conn'[d] = "none" <=> conn[d] = "none"
                                   /\ conn'[d] = "closed" <=> conn[d] = "closed"
  <2>1. PICK c \in Earliest(snapshot[a]) :
            /\ conn' = [conn EXCEPT ![c] = Pinged(c)] \/ conn' = conn
            /\ snapshot' = [snapshot EXCEPT ![a] = @ \ {c}]
    BY <1>3 DEF KeepAlivePing
  <2>2. c \in Clients
    BY DEF Earliest, TypeOK
  <2>3. /\ Pinged(c) \in {"none", "connected", "dropped", "closed"}
        /\ Pinged(c) = "none" <=> conn[c] = "none"
        /\ Pinged(c) = "closed" <=> conn[c] = "closed"
    BY <2>2 DEF Pinged, TypeOK
  <2>4. UNCHANGED <<pc, startLocals, at, activeConnections, stopLocals, keepAlive, drops>>
    BY <1>3 DEF KeepAlivePing
  <2>5. TypeOK'
    BY <2>1, <2>2, <2>3, <2>4 DEF TypeOK, startLocals, stopLocals
  <2> QED
    BY <2>1, <2>2, <2>3, <2>4, <2>5 DEF TypeOK, stopLocals
<1>4. ASSUME NEW c \in Clients, Drop(c)
      PROVE  /\ TypeOK' /\ UNCHANGED <<pc, startLocals, activeConnections, closing>>
             /\ \A d \in Clients : /\ conn'[d] = "none" <=> conn[d] = "none"
                                   /\ conn'[d] = "closed" <=> conn[d] = "closed"
  <2>1. /\ drops < MaxDrops /\ conn[c] = "connected"
        /\ conn' = [conn EXCEPT ![c] = "dropped"]
        /\ drops' = drops + 1
        /\ UNCHANGED <<pc, startLocals, at, activeConnections, stopLocals, pings>>
    BY <1>4 DEF Drop
  <2>2. drops + 1 \in 0 .. MaxDrops
    BY <2>1, NumberAssumption DEF TypeOK
  <2>3. TypeOK'
    BY <2>1, <2>2 DEF TypeOK, startLocals, stopLocals, pings
  <2> QED
    BY <2>1, <2>3 DEF TypeOK, stopLocals
<1>5. /\ TypeOK' /\ UNCHANGED <<pc, startLocals, activeConnections, closing>>
      /\ \A d \in Clients : /\ conn'[d] = "none" <=> conn[d] = "none"
                            /\ conn'[d] = "closed" <=> conn[d] = "closed"
  BY <1>1, <1>2, <1>3, <1>4 DEF KeepAlive
<1> QED
  BY <1>5, ConnKept

-----------------------------------------------------------------------------
LEMMA NextCounted ==
    ASSUME TypeOK, StopsCounted, [Next]_vars
    PROVE  StopsCounted'
<1> USE DEF StopsCounted, TypeOK
<1>1. ASSUME NEW a \in Attacks, Stop(a) PROVE StopsCounted'
  BY <1>1 DEF Stop
<1>2. ASSUME NEW a \in Attacks, StopReturn(a) PROVE StopsCounted'
  BY <1>2 DEF StopReturn
<1>3. ASSUME NEW a \in Attacks, Prepare(a) \/ Start(a) \/ Register(a) PROVE StopsCounted'
  BY <1>3 DEF Prepare, Start, Register, stopLocals
<1>4. ASSUME NEW a \in Attacks, Open(a) \/ NextTarget(a) \/ Close(a) \/ KeepAlive(a)
      PROVE  UNCHANGED <<pc, stops>>
  BY <1>4 DEF Open, NextTarget, Close, KeepAlive, KeepAliveTick, KeepAlivePing, KeepAliveEnd,
              stopLocals
<1>5. ASSUME NEW c \in Clients, Drop(c) PROVE UNCHANGED <<pc, stops>>
  BY <1>5 DEF Drop, stopLocals
<1>6. CASE UNCHANGED vars
  BY <1>6 DEF vars, stopLocals
<1> QED
  BY <1>1, <1>2, <1>3, <1>4, <1>5, <1>6 DEF Next, StartStep, StopStep

\* Every step keeps the invariant, and no step brings a closed client back.
LEMMA NextConn ==
    ASSUME ConnInv, StopsCounted, [Next]_vars
    PROVE  /\ ConnInv'
           /\ \A c \in Clients : conn[c] = "closed" => conn'[c] = "closed"
<1> DEFINE Kept == ConnInv' /\ \A c \in Clients : conn[c] = "closed" => conn'[c] = "closed"
<1>1. ASSUME NEW a \in Attacks, Prepare(a) PROVE Kept
  BY <1>1, PrepareKeeps DEF Prepare
<1>2. ASSUME NEW a \in Attacks, Start(a) PROVE Kept
  BY <1>2, StartKeeps DEF Start
<1>3. ASSUME NEW a \in Attacks, Open(a) PROVE Kept
  BY <1>3, OpenKeeps
<1>4. ASSUME NEW a \in Attacks, NextTarget(a) PROVE Kept
  BY <1>4, NextTargetKeeps DEF NextTarget
<1>5. ASSUME NEW a \in Attacks, Register(a) PROVE Kept
  BY <1>5, RegisterKeeps DEF Register
<1>6. ASSUME NEW a \in Attacks, Stop(a) PROVE Kept
  BY <1>6, StopKeeps DEF Stop
<1>7. ASSUME NEW a \in Attacks, Close(a) PROVE Kept
  BY <1>7, CloseKeeps
<1>8. ASSUME NEW a \in Attacks, StopReturn(a) PROVE Kept
  BY <1>8, ReturnKeeps DEF StopReturn
<1>9. ASSUME (\E a \in Attacks : KeepAlive(a)) \/ (\E c \in Clients : Drop(c)) PROVE Kept
  BY <1>9, PingKeeps
<1>10. ASSUME UNCHANGED vars PROVE Kept
  <2>1. TypeOK'
    BY <1>10 DEF ConnInv, TypeOK, vars, startLocals, stopLocals, pings
  <2>2. UNCHANGED <<pc, startLocals, activeConnections, closing, conn>>
    BY <1>10 DEF vars, stopLocals
  <2> QED
    BY <2>1, <2>2, ConnKept
<1> HIDE DEF Kept
<1>11. ASSUME NEW a \in Attacks, StartStep(a) PROVE Kept
  BY <1>11, <1>2, <1>3, <1>4, <1>5, Zenon DEF StartStep
<1>12. ASSUME NEW a \in Attacks, StopStep(a) PROVE Kept
  BY <1>12, <1>7, <1>8, Zenon DEF StopStep
<1>13. ASSUME Next PROVE Kept
  <2>1. ASSUME NEW c \in Clients, Drop(c) PROVE Kept
    BY <2>1, <1>9, Zenon
  <2>2. ASSUME NEW a \in Attacks, KeepAlive(a) PROVE Kept
    BY <2>2, <1>9, Zenon
  <2> QED
    BY <1>13, <2>1, <2>2, <1>1, <1>6, <1>11, <1>12, Zenon DEF Next
<1>14. Kept
  BY <1>10, <1>13, Zenon
<1> QED
  BY <1>14 DEF Kept

LEMMA ConnInvariant == Spec => [](ConnInv /\ StopsCounted)
<1>1. Init => ConnInv /\ StopsCounted
  BY InitConn DEF Init, StopsCounted
<1>2. ConnInv /\ StopsCounted /\ [Next]_vars => (ConnInv /\ StopsCounted)'
  BY NextConn, NextCounted DEF ConnInv
<1> QED
  BY <1>1, <1>2, PTL DEF Spec

\* Every variable of the attack keeps its type: Start stays within its targets
\* and opens no more connections than it was asked for.
THEOREM ConnTypeCorrect == Spec => []TypeOK
<1>1. ConnInv => TypeOK
  BY DEF ConnInv
<1> QED
  BY <1>1, ConnInvariant, PTL

\* Every client that is not closed has exactly one holder that will close it: the
\* Start that opens it, the map, or one Stop.
THEOREM ExactlyOneHolder == Spec => []OneHolder
<1> QED
  BY HoldersOfOne, ConnInvariant, PTL

\* An attack that runs and did not give up has tried exactly NumConnections
\* connections, however Start divided them over the masters.
THEOREM AttemptsAddUp == Spec => []AllAttempted
<1>1. ConnInv => AllAttempted
  BY DEF ConnInv
<1> QED
  BY <1>1, ConnInvariant, PTL

\* No step, a late ping of the goroutine included, brings a closed client back.
THEOREM ClosedStaysClosed == Spec => ClosedForGood
<1>1. ConnInv /\ StopsCounted /\ [Next]_vars
        => [\A c \in Clients : conn[c] = "closed" => conn'[c] = "closed"]_vars
  BY NextConn
<1> QED
  BY <1>1, ConnInvariant, PTL DEF Spec, ClosedForGood

-----------------------------------------------------------------------------
\* No connection string of an attack is the beginning of another one's: the case in which
\* the key Stop looks for is the key of its own target.
NoPrefixes == \A a, b \in Attacks : <<URLOf[a], URLOf[b]>> \in IsPrefix => URLOf[a] = URLOf[b]

\* Per URL, the entries of the map and the attacks whose Start is over but not stopped.
FiledAt(u) == {a \in activeConnections : URLOf[a] = u}
ToStop(u) == {a \in Attacks : URLOf[a] = u /\ pc[a] \in {"running", "failed"}}

\* A Stop may take another attack's entry, but there are enough Stops to come for all.
EnoughStops == \A u \in URLs : Cardinality(FiledAt(u)) <= Cardinality(ToStop(u))

LEMMA InitStops == Init => EnoughStops
BY FS_EmptySet DEF Init, EnoughStops, FiledAt, ToStop

LEMMA NextStops ==
    ASSUME IsFiniteSet(Attacks), NoPrefixes, ConnInv, EnoughStops, [Next]_vars
    PROVE  EnoughStops'
<1> SUFFICES ASSUME NEW u \in URLs PROVE Cardinality(FiledAt(u)') <= Cardinality(ToStop(u)')
  BY DEF EnoughStops
<1> USE DEF ConnInv, TypeOK
<1>0. /\ IsFiniteSet(FiledAt(u)) /\ Cardinality(FiledAt(u)) \in Nat
      /\ IsFiniteSet(ToStop(u)) /\ Cardinality(ToStop(u)) \in Nat
      /\ Cardinality(FiledAt(u)) <= Cardinality(ToStop(u))
  <2>1. FiledAt(u) \in SUBSET Attacks /\ ToStop(u) \in SUBSET Attacks
    BY DEF FiledAt, ToStop
  <2> QED
    BY <2>1, FS_Subset, FS_CardinalityType DEF EnoughStops
<1> DEFINE Goal == Cardinality(FiledAt(u)') <= Cardinality(ToStop(u)')
<1>1. ASSUME activeConnections' = activeConnections,
             \A a \in Attacks : pc'[a] \in {"running", "failed"} <=> pc[a] \in {"running", "failed"}
      PROVE  Goal
  <2>1. FiledAt(u)' = FiledAt(u) /\ ToStop(u)' = ToStop(u)
    BY <1>1 DEF FiledAt, ToStop
  <2> QED
    BY <1>0, <2>1
<1>2. ASSUME NEW a \in Attacks, Prepare(a) \/ StopStep(a) PROVE Goal
  BY <1>1, <1>2 DEF Prepare, StopStep, Close, StopReturn
<1>3. ASSUME NEW a \in Attacks, Start(a) PROVE Goal
  <2>1. activeConnections' = activeConnections
    BY <1>3 DEF Start
  <2>2. CASE pc' = [pc EXCEPT ![a] = "opening"]
    BY <1>1, <1>3, <2>1, <2>2 DEF Start
  <2>3. CASE pc' = [pc EXCEPT ![a] = "failed"]
    <3>1. FiledAt(u)' = FiledAt(u)
      BY <2>1 DEF FiledAt
    <3>2. ToStop(u)' = (IF URLOf[a] = u THEN ToStop(u) \cup {a} ELSE ToStop(u))
      BY <1>3, <2>3 DEF ToStop
    <3>3. Cardinality(ToStop(u) \cup {a}) \in {Cardinality(ToStop(u)), Cardinality(ToStop(u)) + 1}
      BY <1>0, FS_AddElement, Zenon
    <3>4. Cardinality(ToStop(u)') \in {Cardinality(ToStop(u)), Cardinality(ToStop(u)) + 1}
      BY <3>2, <3>3
    <3> QED
      BY <1>0, <3>1, <3>4
  <2> QED
    BY <1>3, <2>2, <2>3 DEF Start
<1>4. ASSUME NEW a \in Attacks, Open(a) \/ NextTarget(a) \/ KeepAlive(a) PROVE Goal
  BY <1>1, <1>4 DEF Open, NextTarget, KeepAlive, KeepAliveTick, KeepAlivePing, KeepAliveEnd
<1>5. ASSUME NEW a \in Attacks, Register(a) PROVE Goal
  <2>1. /\ pc[a] = "opening" /\ pc'[a] \in {"running", "failed"}
        /\ \A b \in Attacks \ {a} : pc'[b] = pc[b]
        /\ activeConnections' = activeConnections \cup {a}
    BY <1>5 DEF Register
  <2>2. CASE URLOf[a] = u
    <3>1. FiledAt(u)' = FiledAt(u) \cup {a} /\ a \notin FiledAt(u)
      BY <2>1, <2>2 DEF FiledAt, Filed
    <3>2. ToStop(u)' = ToStop(u) \cup {a} /\ a \notin ToStop(u)
      BY <2>1, <2>2 DEF ToStop
    <3>3. Cardinality(FiledAt(u) \cup {a}) = Cardinality(FiledAt(u)) + 1
      BY <1>0, <3>1, FS_AddElement, Zenon
    <3>4. Cardinality(ToStop(u) \cup {a}) = Cardinality(ToStop(u)) + 1
      BY <1>0, <3>2, FS_AddElement, Zenon
    <3> QED
      BY <1>0, <3>1, <3>2, <3>3, <3>4
  <2>3. CASE URLOf[a] # u
    <3>1. FiledAt(u)' = FiledAt(u) /\ ToStop(u)' = ToStop(u)
      BY <2>1, <2>3 DEF FiledAt, ToStop
    <3> QED
      BY <1>0, <3>1
  <2> QED
    BY <2>2, <2>3
<1>6. ASSUME NEW a \in Attacks, Stop(a) PROVE Goal
  <2>1. /\ pc'[a] = "closing" /\ \A b \in Attacks \ {a} : pc'[b] = pc[b]
    BY <1>6 DEF Stop
  <2>2. CASE URLOf[a] = u
    <3>1. ToStop(u)' = ToStop(u) \ {a}
      BY <2>1, <2>2 DEF ToStop
    <3>2. Candidates(a) = FiledAt(u)
      BY <2>2, URLAssumption DEF Candidates, FiledAt, NoPrefixes
    <3>3. CASE Candidates(a) = {} /\ activeConnections' = activeConnections
      <4>1. FiledAt(u)' = {}
        BY <3>2, <3>3 DEF FiledAt
      <4>2. Cardinality(FiledAt(u)') = 0 /\ Cardinality(ToStop(u)') \in Nat
        BY <1>0, <3>1, <4>1, FS_EmptySet, FS_RemoveElement, FS_CardinalityType
      <4> QED
        BY <4>2
    <3>4. ASSUME NEW b \in Candidates(a), activeConnections' = activeConnections \ {b} PROVE Goal
      <4>1. FiledAt(u)' = FiledAt(u) \ {b} /\ b \in FiledAt(u)
        BY <3>2, <3>4 DEF FiledAt
      <4>2. Cardinality(FiledAt(u) \ {b}) = Cardinality(FiledAt(u)) - 1
        BY <1>0, <4>1, FS_RemoveElement, Zenon
      <4>3. Cardinality(ToStop(u) \ {a}) \in {Cardinality(ToStop(u)), Cardinality(ToStop(u)) - 1}
        BY <1>0, FS_RemoveElement, Zenon
      <4> QED
        BY <1>0, <3>1, <4>1, <4>2, <4>3
    <3> QED
      BY <1>6, <3>3, <3>4 DEF Stop
  <2>3. CASE URLOf[a] # u
    <3>1. ToStop(u)' = ToStop(u)
      BY <2>1, <2>3 DEF ToStop
    <3>2. activeConnections' = activeConnections
            \/ \E b \in Candidates(a) : activeConnections' = activeConnections \ {b}
      BY <1>6 DEF Stop
    <3>3. \A b \in Candidates(a) : b \notin FiledAt(u)
      BY <2>3, URLAssumption DEF Candidates, FiledAt, NoPrefixes
    <3>4. FiledAt(u)' = FiledAt(u)
      BY <3>2, <3>3 DEF FiledAt
    <3> QED
      BY <1>0, <3>1, <3>4
  <2> QED
    BY <2>2, <2>3
<1>7. ASSUME NEW c \in Clients, Drop(c) PROVE Goal
  BY <1>1, <1>7 DEF Drop
<1>8. ASSUME UNCHANGED vars PROVE Goal
  BY <1>1, <1>8 DEF vars
<1> HIDE DEF Goal
<1>9. Goal
  BY <1>2, <1>3, <1>4, <1>5, <1>6, <1>7, <1>8 DEF Next, StartStep
<1> QED
  BY <1>9 DEF Goal

\* When no URL is the beginning of another, nothing is left once every attack was stopped,
\* whichever entries the Stops took: for any finite number of attacks on any targets.
THEOREM AllClosedInTheEnd ==
    ASSUME IsFiniteSet(Attacks), NoPrefixes
    PROVE  Spec => []NothingLeftAfterStop
<1>1. ConnInv /\ EnoughStops => NothingLeftAfterStop
  <2> SUFFICES ASSUME ConnInv, EnoughStops, \A a \in Attacks : pc[a] = "stopped"
               PROVE  activeConnections = {} /\ \A c \in Clients : ~Live(c)
    BY DEF NothingLeftAfterStop
  <2>1. ASSUME NEW a \in activeConnections PROVE FALSE
    <3>1. a \in Attacks /\ URLOf[a] \in URLs
      BY <2>1, URLAssumption DEF ConnInv, TypeOK
    <3>2. ToStop(URLOf[a]) = {} /\ a \in FiledAt(URLOf[a])
      BY <2>1 DEF ToStop, FiledAt
    <3>3. FiledAt(URLOf[a]) \in SUBSET Attacks
      BY DEF FiledAt, ConnInv, TypeOK
    <3>4. IsFiniteSet(FiledAt(URLOf[a])) /\ Cardinality(FiledAt(URLOf[a])) \in Nat
      BY <3>3, FS_Subset, FS_CardinalityType
    <3>5. Cardinality(FiledAt(URLOf[a])) <= 0
      BY <3>1, <3>2, FS_EmptySet DEF EnoughStops
    <3> QED
      BY <3>2, <3>4, <3>5, FS_EmptySet
  <2>2. ASSUME NEW c \in Clients, Live(c) PROVE FALSE
    <3>1. c[1] \in Attacks
      BY DEF Clients
    <3> QED
      BY <2>1, <2>2, <3>1 DEF ConnInv, Held, Filed
  <2> QED
    BY <2>1, <2>2
<1>2. ConnInv /\ EnoughStops /\ [Next]_vars => EnoughStops'
  BY NextStops
<1> QED
  BY <1>1, <1>2, InitStops, ConnInvariant, PTL DEF Spec

-----------------------------------------------------------------------------
\* Without failures Start has given the nodes it has left their shares, and the node it is
\* at what is not left of its share.
Opened(a, n) == {c \in Connections(a) : at[c] = n}
Has(a, n, k) == IsFiniteSet(Opened(a, n)) /\ Cardinality(Opened(a, n)) = k
Due(a, n) == IF n < node[a] THEN Share(targets[a], n)
             ELSE IF n = node[a] THEN Share(targets[a], n) - left[a] ELSE 0

Spread ==
    \A a \in Attacks : failCount[a] = 0 =>
        /\ pc[a] = "opening" => \A n \in 1 .. targets[a] : Has(a, n, Due(a, n))
        /\ pc[a] = "running" => \A n \in 1 .. targets[a] : Has(a, n, Share(targets[a], n))
        /\ pc[a] = "running" => targets[a] \in Nodes

LEMMA InitSpread == Init => Spread
BY DEF Init, Spread

\* The shares of two nodes differ by one at most.
LEMMA SharesClose ==
    ASSUME NEW m \in Nat \ {0}, NEW i \in 1 .. m, NEW j \in 1 .. m
    PROVE  Share(m, i) <= Share(m, j) + 1
<1> DEFINE q == NumConnections \div m
           r == NumConnections % m
<1>1. q \in Nat /\ r \in 0 .. m - 1
  BY Division
<1>2. \A n : Share(m, n) = q + (IF n <= r THEN 1 ELSE 0)
  BY DEF Share
<1> HIDE DEF q, r
<1> QED
  BY <1>1, <1>2

LEMMA NextSpread == ConnInv /\ Spread /\ [Next]_vars => Spread'
<1> SUFFICES ASSUME ConnInv, Spread, [Next]_vars, NEW a \in Attacks, failCount'[a] = 0
             PROVE  /\ pc'[a] = "opening" => \A n \in 1 .. targets'[a] : Has(a, n, Due(a, n))'
                    /\ pc'[a] = "running" =>
                         \A n \in 1 .. targets'[a] : Has(a, n, Share(targets[a], n))'
                    /\ pc'[a] = "running" => targets'[a] \in Nodes
  BY DEF Spread
<1> USE DEF ConnInv, TypeOK
<1> DEFINE Goal == /\ pc'[a] = "opening" => \A n \in 1 .. targets'[a] : Has(a, n, Due(a, n))'
                   /\ pc'[a] = "running" =>
                        \A n \in 1 .. targets'[a] : Has(a, n, Share(targets[a], n))'
                   /\ pc'[a] = "running" => targets'[a] \in Nodes
\* A step that opens no client of a.
<1>1. ASSUME \A c \in Clients : c[1] = a =>
                 (conn'[c] = "none" <=> conn[c] = "none") /\ at'[c] = at[c]
      PROVE  \A n : Opened(a, n)' = Opened(a, n)
  BY <1>1 DEF Opened, Connections
<1>2. ASSUME \A c \in Clients : c[1] = a =>
                 (conn'[c] = "none" <=> conn[c] = "none") /\ at'[c] = at[c],
             pc'[a] = pc[a] \/ pc'[a] \notin {"opening", "running"},
             failCount'[a] = failCount[a], targets'[a] = targets[a], node'[a] = node[a],
             left'[a] = left[a]
      PROVE  Goal
  <2>1. CASE pc'[a] \notin {"opening", "running"}
    BY <2>1
  <2>2. CASE pc'[a] = pc[a]
    BY <1>1, <1>2, <2>2 DEF Spread, Has, Due, Share
  <2> QED
    BY <1>2, <2>1, <2>2
<1>3. ASSUME NEW b \in Attacks, Prepare(b) \/ StopStep(b) \/ Stop(b) PROVE Goal
  <2>1. UNCHANGED startLocals /\ (pc'[a] = pc[a] \/ pc'[a] \notin {"opening", "running"})
    BY <1>3 DEF Prepare, StopStep, Close, StopReturn, Stop
  <2>2. \A c \in Clients : (conn'[c] = "none" <=> conn[c] = "none") /\ at'[c] = at[c]
    <3>1. ASSUME NEW c \in closing[b], conn' = [conn EXCEPT ![c] = "closed"]
          PROVE  \A d \in Clients : conn'[d] = "none" <=> conn[d] = "none"
      BY <3>1 DEF Filed
    <3>2. conn' = conn \/ \E c \in closing[b] : conn' = [conn EXCEPT ![c] = "closed"]
      BY <1>3 DEF Prepare, StopStep, Close, StopReturn, Stop, Earliest
    <3>3. at' = at
      BY <1>3 DEF Prepare, StopStep, Close, StopReturn, Stop
    <3> QED
      BY <3>1, <3>2, <3>3
  <2> QED
    BY <1>2, <2>1, <2>2 DEF startLocals
<1>4. ASSUME NEW b \in Attacks, b # a, StartStep(b) PROVE Goal
  <2>1. /\ pc'[a] = pc[a] /\ failCount'[a] = failCount[a] /\ targets'[a] = targets[a]
        /\ node'[a] = node[a] /\ left'[a] = left[a]
    BY <1>4 DEF StartStep, Start, Open, OpenSucceeds, OpenFails, NextTarget, Register, startLocals
  <2>2. \A c \in Clients : c[1] = a => conn'[c] = conn[c] /\ at'[c] = at[c]
    BY <1>4 DEF StartStep, Start, Open, OpenSucceeds, OpenFails, NextTarget, Register
  <2> QED
    BY <1>2, <2>1, <2>2
<1>5. ASSUME Start(a) PROVE Goal
  <2>1. successCount[a] = 0 /\ \A c \in Clients : c[1] = a => c[2] > 0
    BY <1>5 DEF Start, Counting, Clients
  <2>2. \A n : Opened(a, n)' = {}
    BY <1>5, <2>1 DEF Start, Opened, Connections, Numbering
  <2>3. \A n : Has(a, n, 0)'
    BY <2>2, FS_EmptySet DEF Has
  <2>4. ASSUME pc'[a] = "opening", NEW n \in 1 .. targets'[a] PROVE Has(a, n, Due(a, n))'
    <3>1. PICK m \in Nodes : targets'[a] = m /\ node'[a] = 1 /\ left'[a] = Share(m, 1)
      BY <1>5, <2>4 DEF Start
    <3>2. Share(m, 1) \in Nat
      BY <3>1, Shares DEF Nodes
    <3>3. Due(a, n)' = 0
      BY <2>4, <3>1, <3>2 DEF Due, Nodes
    <3> QED
      BY <2>3, <3>3 DEF Has
  <2>5. pc'[a] # "running"
    BY <1>5 DEF Start
  <2> QED
    BY <2>4, <2>5
<1>6. ASSUME Open(a) PROVE Goal
  <2>1. /\ pc[a] = "opening" /\ pc'[a] = "opening" /\ targets'[a] = targets[a]
        /\ node'[a] = node[a]
    BY <1>6 DEF Open
  <2>2. OpenSucceeds(a) /\ failCount[a] = 0
    BY <1>6 DEF Open, OpenSucceeds, OpenFails
  <2> DEFINE c == <<a, successCount[a] + 1>>
  <2>3. /\ left'[a] = left[a] - 1 /\ left[a] \in Nat
        /\ conn' = [conn EXCEPT ![c] = "connected"] /\ at' = [at EXCEPT ![c] = node[a]]
    BY <2>2 DEF OpenSucceeds
  <2>4. targets[a] \in Nat \ {0} /\ node[a] \in 1 .. targets[a]
    BY <2>1 DEF Counting, Nodes
  <2>5. c \in Clients /\ conn[c] = "none" /\ c[1] = a
    <3>1. Attempts(a) <= NumConnections /\ Rest(targets[a], node[a]) \in Nat
      BY <2>1, <2>4, Shares DEF Counting
    <3>2. successCount[a] + 1 \in 1 .. NumConnections
      BY <1>6, <2>2, <3>1, NumberAssumption DEF Attempts, Open
    <3>3. c \in Clients
      BY <3>2 DEF Clients
    <3> QED
      BY <3>2, <3>3 DEF Numbering
  <2> HIDE DEF c
  <2>6. ASSUME NEW n \in 1 .. targets[a] PROVE Has(a, n, Due(a, n))'
    <3>1. /\ IsFiniteSet(Opened(a, n)) /\ Cardinality(Opened(a, n)) = Due(a, n)
          /\ Share(targets[a], n) \in Nat
      BY <2>1, <2>2, <2>4, <2>6, Shares DEF Spread, Has
    <3>2. CASE n = node[a]
      <4>1. Opened(a, n)' = Opened(a, n) \cup {c} /\ c \notin Opened(a, n)
        BY <2>3, <2>5, <3>2 DEF Opened, Connections
      <4>2. /\ IsFiniteSet(Opened(a, n) \cup {c})
            /\ Cardinality(Opened(a, n) \cup {c}) = Cardinality(Opened(a, n)) + 1
        BY <3>1, <4>1, FS_AddElement, Zenon
      <4>3. Due(a, n)' = Due(a, n) + 1
        BY <2>1, <2>3, <2>4, <3>1, <3>2 DEF Due, Share
      <4> QED
        BY <3>1, <4>1, <4>2, <4>3 DEF Has
    <3>3. CASE n # node[a]
      <4>1. Opened(a, n)' = Opened(a, n)
        BY <2>3, <2>5, <3>3 DEF Opened, Connections
      <4>2. Due(a, n)' = Due(a, n)
        BY <2>1, <3>3 DEF Due, Share
      <4> QED
        BY <3>1, <4>1, <4>2 DEF Has
    <3> QED
      BY <3>2, <3>3
  <2> QED
    BY <2>1, <2>6
<1>7. ASSUME NextTarget(a) \/ Register(a) PROVE Goal
  <2>1. /\ pc[a] = "opening" /\ left[a] = 0 /\ failCount[a] = 0 /\ targets'[a] = targets[a]
        /\ \A n : Opened(a, n)' = Opened(a, n)
    BY <1>1, <1>7 DEF NextTarget, Register, startLocals
  <2>2. targets[a] \in Nat \ {0} /\ targets[a] \in Nodes /\ node[a] \in 1 .. targets[a]
    BY <2>1 DEF Counting, Nodes
  <2>3. ASSUME NEW n \in 1 .. targets[a] PROVE Has(a, n, Due(a, n)) /\ Share(targets[a], n) \in Nat
    BY <2>1, <2>2, <2>3, Shares DEF Spread
  <2>4. CASE NextTarget(a)
    <3>1. /\ pc'[a] = "opening" /\ node'[a] = node[a] + 1
          /\ left'[a] = Share(targets[a], node[a] + 1)
      BY <2>1, <2>4 DEF NextTarget
    <3>2. ASSUME NEW n \in 1 .. targets[a] PROVE Due(a, n)' = Due(a, n)
      BY <2>1, <2>2, <2>3, <3>1, <3>2 DEF Due, Share
    <3> QED
      BY <2>1, <2>3, <3>1, <3>2 DEF Has
  <2>5. CASE Register(a)
    <3>1. node[a] = targets[a] /\ pc'[a] # "opening"
      BY <2>5 DEF Register
    <3>2. ASSUME NEW n \in 1 .. targets[a] PROVE Due(a, n) = Share(targets[a], n)
      BY <2>1, <2>2, <2>3, <3>1, <3>2 DEF Due
    <3>3. \A n \in 1 .. targets[a] : Has(a, n, Share(targets[a], n))'
      BY <2>1, <2>3, <3>2 DEF Has, Share
    <3> QED
      BY <2>1, <2>2, <3>1, <3>3
  <2> QED
    BY <1>7, <2>4, <2>5
<1>8. ASSUME NEW b \in Attacks, KeepAlive(b) PROVE Goal
  <2>1. /\ UNCHANGED startLocals /\ UNCHANGED <<pc, at>>
        /\ conn' = conn \/ \E c \in Clients : conn' = [conn EXCEPT ![c] = Pinged(c)]
    BY <1>8 DEF KeepAlive, KeepAliveTick, KeepAlivePing, KeepAliveEnd, Earliest
  <2>2. \A c \in Clients : conn'[c] = "none" <=> conn[c] = "none"
    BY <2>1 DEF Pinged
  <2> QED
    BY <1>2, <2>1, <2>2 DEF startLocals
<1>9. ASSUME NEW c \in Clients, Drop(c) PROVE Goal
  BY <1>2, <1>9 DEF Drop, startLocals
<1>10. ASSUME UNCHANGED vars PROVE Goal
  BY <1>2, <1>10 DEF vars, startLocals
<1> HIDE DEF Goal
<1>11. Goal
  BY <1>3, <1>4, <1>5, <1>6, <1>7, <1>8, <1>9, <1>10 DEF Next, StartStep
<1> QED
  BY <1>11 DEF Goal

\* Without failures the connections of a running attack are spread evenly: no master has
\* two more than another, for any number of masters, connections and attacks.
THEOREM EvenlySpread == Spec => []Balanced
<1>1. ConnInv /\ Spread => Balanced
  <2> SUFFICES ASSUME ConnInv, Spread, NEW a \in Attacks, pc[a] = "running", failCount[a] = 0,
                      NEW i \in 1 .. targets[a], NEW j \in 1 .. targets[a]
               PROVE  Cardinality(Opened(a, i)) <= Cardinality(Opened(a, j)) + 1
    BY DEF Balanced, Started, Opened
  <2>1. targets[a] \in Nat \ {0}
    BY DEF Spread, Nodes
  <2> QED
    BY <2>1, SharesClose DEF Spread, Has
<1>2. ConnInv /\ Spread /\ [Next]_vars => Spread'
  BY NextSpread
<1> QED
  BY <1>1, <1>2, InitSpread, ConnInvariant, PTL DEF Spec

-----------------------------------------------------------------------------
\* What a Start has left to do: the attempts and the nodes to come, and the answer; and a
\* Stop: the clients to close, and the answer.
OpenLeft(a) ==
    CASE pc[a] = "prepared" -> NumConnections + MaxMasters + 1
      [] pc[a] = "opening"  -> (left[a] + Rest(targets[a], node[a])) + (targets[a] - node[a]) + 1
      [] OTHER              -> 0

CloseLeft(a) == IF pc[a] = "closing" THEN Cardinality(closing[a]) + 1 ELSE 0

\* A Stop has at most one attack's connections to close.
FewToClose ==
    \A a \in Attacks : IsFiniteSet(closing[a]) /\ Cardinality(closing[a]) <= NumConnections

LEMMA ConnectionsFew ==
    ASSUME NEW a \in Attacks
    PROVE  IsFiniteSet(Connections(a)) /\ Cardinality(Connections(a)) <= NumConnections
<1> DEFINE numbers == 1 .. NumConnections
           numberOf == [c \in Connections(a) |-> c[2]]
<1>1. IsFiniteSet(numbers) /\ Cardinality(numbers) = NumConnections
  BY FS_Interval, NumberAssumption
<1>2. \A c \in Connections(a) : c[2] \in numbers /\ c = <<a, c[2]>>
  BY DEF Connections, Clients
<1>3. numberOf \in Injection(Connections(a), numbers)
  BY <1>2 DEF Injection, IsInjective
<1> HIDE DEF numbers, numberOf
<1> QED
  BY <1>1, <1>3, FS_Injection

LEMMA InitFew == Init => FewToClose
BY FS_EmptySet, NumberAssumption DEF Init, FewToClose

LEMMA NextFew == ConnInv /\ FewToClose /\ [Next]_vars => FewToClose'
<1> SUFFICES ASSUME ConnInv, FewToClose, [Next]_vars PROVE FewToClose'
  OBVIOUS
<1> USE DEF ConnInv
<1>1. ASSUME closing' = closing PROVE FewToClose'
  BY <1>1 DEF FewToClose
<1>2. ASSUME NEW a \in Attacks, Stop(a) PROVE FewToClose'
  <2>1. CASE closing' = closing
    BY <1>1, <2>1
  <2>2. ASSUME NEW b \in Attacks, closing' = [closing EXCEPT ![a] = Connections(b)] PROVE FewToClose'
    BY <2>2, ConnectionsFew DEF FewToClose, TypeOK
  <2> QED
    BY <1>2, <2>1, <2>2 DEF Stop, Candidates, TypeOK
<1>3. ASSUME NEW a \in Attacks, Close(a) PROVE FewToClose'
  <2>1. PICK c \in Earliest(closing[a]) : closing' = [closing EXCEPT ![a] = @ \ {c}]
    BY <1>3 DEF Close
  <2>2. IsFiniteSet(closing[a]) /\ Cardinality(closing[a]) <= NumConnections /\ c \in closing[a]
    BY <2>1 DEF FewToClose, Earliest
  <2>3. /\ IsFiniteSet(closing[a] \ {c})
        /\ Cardinality(closing[a] \ {c}) = Cardinality(closing[a]) - 1
        /\ Cardinality(closing[a]) \in Nat
    BY <2>2, FS_RemoveElement, FS_CardinalityType
  <2>4. Cardinality(closing[a] \ {c}) <= NumConnections
    BY <2>2, <2>3, NumberAssumption
  <2> QED
    BY <2>1, <2>3, <2>4 DEF FewToClose, TypeOK
<1>4. ASSUME NEW a \in Attacks, Prepare(a) \/ StartStep(a) PROVE closing' = closing
  BY <1>4 DEF Prepare, StartStep, Start, Open, NextTarget, Register, stopLocals
<1>5. ASSUME NEW a \in Attacks, StopReturn(a) PROVE closing' = closing
  BY <1>5 DEF StopReturn
<1>6. ASSUME NEW a \in Attacks, KeepAlive(a) PROVE closing' = closing
  BY <1>6 DEF KeepAlive, KeepAliveTick, KeepAlivePing, KeepAliveEnd, stopLocals
<1>7. ASSUME NEW c \in Clients, Drop(c) PROVE closing' = closing
  BY <1>7 DEF Drop, stopLocals
<1>8. UNCHANGED vars => closing' = closing
  BY DEF vars, stopLocals
<1> QED
  BY <1>1, <1>2, <1>3, <1>4, <1>5, <1>6, <1>7, <1>8 DEF Next, StopStep

\* What is left is bounded by the attack's parameters.
LEMMA OpenLeftType ==
    ASSUME ConnInv, NEW a \in Attacks
    PROVE  /\ OpenLeft(a) \in 0 .. NumConnections + MaxMasters + 1
           /\ pc[a] = "opening" =>
                /\ left[a] \in Nat /\ Rest(targets[a], node[a]) \in Nat
                /\ targets[a] \in Nat \ {0} /\ node[a] \in 1 .. targets[a]
                /\ OpenLeft(a) > 0
<1> DEFINE r == Rest(targets[a], node[a])
<1>1. NumConnections \in Nat /\ MaxMasters \in Nat
  BY NumberAssumption
<1>2. CASE pc[a] = "opening"
  <2>1. /\ targets[a] \in 1 .. MaxMasters /\ targets[a] \in Nat \ {0} /\ node[a] \in 1 .. targets[a]
        /\ left[a] \in Nat /\ successCount[a] \in Nat /\ failCount[a] \in Nat
    BY <1>1, <1>2 DEF ConnInv, Counting, TypeOK, Nodes
  <2>2. r \in Nat
    BY <2>1, Shares
  <2>3. successCount[a] + failCount[a] + left[a] + r <= NumConnections
    BY <1>2 DEF ConnInv, Counting, Attempts
  <2>4. OpenLeft(a) = (left[a] + r) + (targets[a] - node[a]) + 1
    BY <1>2 DEF OpenLeft
  <2> HIDE DEF r
  <2>5. left[a] + r \in 0 .. NumConnections /\ targets[a] - node[a] \in 0 .. MaxMasters
    BY <1>1, <2>1, <2>2, <2>3
  <2>6. OpenLeft(a) \in 1 .. NumConnections + MaxMasters + 1
    BY <1>1, <2>4, <2>5
  <2> QED
    BY <1>1, <2>1, <2>2, <2>6 DEF r
<1>3. CASE pc[a] # "opening"
  BY <1>1, <1>3 DEF OpenLeft
<1> QED
  BY <1>2, <1>3

LEMMA OpenLeftNat == ConnInv => \A a \in Attacks : OpenLeft(a) \in Nat
<1> SUFFICES ASSUME ConnInv, NEW a \in Attacks PROVE OpenLeft(a) \in Nat
  OBVIOUS
<1> QED
  BY OpenLeftType, NumberAssumption

LEMMA OpenLeftNext ==
    ConnInv /\ StopsCounted /\ [Next]_vars => (\A a \in Attacks : OpenLeft(a) \in Nat)'
<1>1. ConnInv /\ StopsCounted /\ [Next]_vars => ConnInv'
  BY NextConn
<1> QED
  BY <1>1, OpenLeftNat, PTL

\* Each step of a Start brings it nearer to its end, a failed attempt included, and no step
\* of another handler, of a goroutine or of the server takes it further away.
OpenShrinks ==
    \A a \in Attacks :
        /\ StartStep(a) => OpenLeft(a)' < OpenLeft(a)
        /\ OpenLeft(a)' <= OpenLeft(a) \/ Prepare(a)

LEMMA OpenNearer == ConnInv /\ StopsCounted /\ [Next]_vars => OpenShrinks
<1> SUFFICES ASSUME ConnInv, StopsCounted, [Next]_vars, NEW a \in Attacks
             PROVE  /\ StartStep(a) => OpenLeft(a)' < OpenLeft(a)
                    /\ OpenLeft(a)' <= OpenLeft(a) \/ Prepare(a)
  BY DEF OpenShrinks
<1>0. TypeOK /\ OpenLeft(a) \in Nat /\ OpenLeft(a)' \in Nat
  BY OpenLeftNat, OpenLeftNext DEF ConnInv
<1>1. ASSUME Start(a) PROVE OpenLeft(a)' < OpenLeft(a)
  <2>1. pc[a] = "prepared" /\ OpenLeft(a) = NumConnections + MaxMasters + 1
    BY <1>1 DEF Start, OpenLeft
  <2>2. CASE pc' = [pc EXCEPT ![a] = "failed"]
    <3>1. OpenLeft(a)' = 0
      BY <1>0, <2>2 DEF TypeOK, OpenLeft
    <3> QED
      BY <2>1, <3>1, NumberAssumption
  <2>3. ASSUME NEW m \in Nodes, targets' = [targets EXCEPT ![a] = m], node' = [node EXCEPT ![a] = 1],
               left' = [left EXCEPT ![a] = Share(m, 1)], pc' = [pc EXCEPT ![a] = "opening"]
        PROVE  OpenLeft(a)' < OpenLeft(a)
    <3>1. m \in Nat \ {0} /\ m <= MaxMasters /\ NumConnections \in Nat /\ MaxMasters \in Nat
      BY NumberAssumption DEF Nodes
    <3>2. /\ pc'[a] = "opening" /\ targets'[a] = m /\ node'[a] = 1 /\ left'[a] = Share(m, 1)
      BY <1>0, <2>3 DEF TypeOK
    <3>3. OpenLeft(a)' = (Share(m, 1) + Rest(m, 1)) + (m - 1) + 1
      BY <3>2 DEF OpenLeft
    <3>4. Share(m, 1) + Rest(m, 1) = NumConnections
      BY <3>1, Shares
    <3> QED
      BY <2>1, <3>1, <3>3, <3>4
  <2> QED
    BY <1>1, <2>2, <2>3 DEF Start
<1>2. ASSUME Open(a) PROVE OpenLeft(a)' < OpenLeft(a)
  <2> DEFINE w == Rest(targets[a], node[a])
             d == targets[a] - node[a]
  <2>1. /\ pc[a] = "opening" /\ pc'[a] = "opening" /\ targets'[a] = targets[a] /\ node'[a] = node[a]
        /\ left[a] > 0
    BY <1>2 DEF Open, OpenSucceeds, OpenFails
  <2>2. left[a] \in Nat /\ w \in Nat /\ d \in Nat
    BY <2>1, OpenLeftType
  <2>3. left'[a] = left[a] - 1 \/ left'[a] = 0
    BY <1>0, <1>2 DEF Open, OpenSucceeds, OpenFails, TypeOK
  <2>4. OpenLeft(a) = (left[a] + w) + d + 1 /\ OpenLeft(a)' = (left'[a] + w) + d + 1
    BY <2>1 DEF OpenLeft
  <2> HIDE DEF w, d
  <2> QED
    BY <2>1, <2>2, <2>3, <2>4
<1>3. ASSUME NextTarget(a) PROVE OpenLeft(a)' < OpenLeft(a)
  <2> DEFINE m == targets[a]
             n == node[a]
             s == Share(m, n + 1)
             w == Rest(m, n + 1)
  <2>1. /\ pc[a] = "opening" /\ pc'[a] = "opening" /\ left[a] = 0 /\ n < m
        /\ targets'[a] = m /\ node'[a] = n + 1 /\ left'[a] = s
    BY <1>0, <1>3 DEF NextTarget, TypeOK
  <2>2. m \in Nat \ {0} /\ n \in 1 .. m - 1 /\ n + 1 \in 1 .. m
    BY <2>1, OpenLeftType
  <2>3. Rest(m, n) = s + w /\ s \in Nat /\ w \in Nat
    BY <2>2, Shares
  <2>4. OpenLeft(a) = (0 + (s + w)) + (m - n) + 1 /\ OpenLeft(a)' = (s + w) + (m - (n + 1)) + 1
    BY <2>1, <2>3 DEF OpenLeft
  <2> HIDE DEF s, w
  <2> QED
    BY <2>2, <2>3, <2>4
<1>4. ASSUME Register(a) PROVE OpenLeft(a)' < OpenLeft(a)
  <2>1. pc[a] = "opening" /\ pc'[a] \in {"failed", "running"}
    BY <1>0, <1>4 DEF Register, TypeOK
  <2>2. OpenLeft(a)' = 0 /\ OpenLeft(a) > 0
    BY <2>1, OpenLeftType DEF OpenLeft
  <2> QED
    BY <2>2
<1>5. StartStep(a) => OpenLeft(a)' < OpenLeft(a)
  BY <1>1, <1>2, <1>3, <1>4 DEF StartStep
<1>6. ASSUME \/ pc'[a] = pc[a] /\ targets'[a] = targets[a] /\ node'[a] = node[a] /\ left'[a] = left[a]
             \/ pc'[a] \in {"closing", "stopped"}
      PROVE  OpenLeft(a)' <= OpenLeft(a)
  <2>1. OpenLeft(a)' = OpenLeft(a) \/ OpenLeft(a)' = 0
    BY <1>6 DEF OpenLeft
  <2> QED
    BY <1>0, <2>1
<1>7. ASSUME NEW b \in Attacks, b # a, Prepare(b) \/ StartStep(b) PROVE OpenLeft(a)' <= OpenLeft(a)
  <2>1. pc'[a] = pc[a] /\ targets'[a] = targets[a] /\ node'[a] = node[a] /\ left'[a] = left[a]
    BY <1>0, <1>7 DEF Prepare, StartStep, Start, Open, OpenSucceeds, OpenFails, NextTarget, Register,
                      startLocals, TypeOK
  <2> QED
    BY <1>6, <2>1
<1>8. ASSUME NEW b \in Attacks, Stop(b) \/ StopStep(b) PROVE OpenLeft(a)' <= OpenLeft(a)
  BY <1>0, <1>6, <1>8 DEF Stop, StopStep, Close, StopReturn, startLocals, TypeOK
<1>9. ASSUME NEW b \in Attacks, KeepAlive(b) PROVE OpenLeft(a)' <= OpenLeft(a)
  BY <1>6, <1>9 DEF KeepAlive, KeepAliveTick, KeepAlivePing, KeepAliveEnd, startLocals
<1>10. ASSUME NEW c \in Clients, Drop(c) PROVE OpenLeft(a)' <= OpenLeft(a)
  BY <1>6, <1>10 DEF Drop, startLocals
<1>11. UNCHANGED vars => OpenLeft(a)' <= OpenLeft(a)
  BY <1>6 DEF vars, startLocals
<1>12. OpenLeft(a)' < OpenLeft(a) => OpenLeft(a)' <= OpenLeft(a)
  BY <1>0
<1> QED
  BY <1>5, <1>7, <1>8, <1>9, <1>10, <1>11, <1>12 DEF Next

\* The same of a Stop: closing a client, with or without an error, brings it nearer.
CloseShrinks ==
    \A a \in Attacks :
        /\ StopStep(a) => CloseLeft(a)' < CloseLeft(a)
        /\ CloseLeft(a)' <= CloseLeft(a) \/ Stop(a)

LEMMA CloseNearer == ConnInv /\ FewToClose /\ [Next]_vars => CloseShrinks
<1> SUFFICES ASSUME ConnInv, FewToClose, [Next]_vars, NEW a \in Attacks
             PROVE  /\ StopStep(a) => CloseLeft(a)' < CloseLeft(a)
                    /\ CloseLeft(a)' <= CloseLeft(a) \/ Stop(a)
  BY DEF CloseShrinks
<1>0. TypeOK /\ Cardinality(closing[a]) \in Nat /\ IsFiniteSet(closing[a]) /\ CloseLeft(a) \in Nat
  BY FS_CardinalityType DEF ConnInv, FewToClose, CloseLeft
<1>1. ASSUME Close(a) PROVE CloseLeft(a)' < CloseLeft(a) /\ CloseLeft(a)' <= CloseLeft(a)
  <2>1. PICK c \in Earliest(closing[a]) : closing' = [closing EXCEPT ![a] = @ \ {c}]
    BY <1>1 DEF Close
  <2>2. closing'[a] = closing[a] \ {c} /\ c \in closing[a] /\ pc[a] = "closing" /\ pc' = pc
    BY <1>0, <1>1, <2>1 DEF Close, TypeOK, Earliest
  <2>3. Cardinality(closing'[a]) = Cardinality(closing[a]) - 1
    BY <1>0, <2>2, FS_RemoveElement
  <2> QED
    BY <1>0, <2>2, <2>3 DEF CloseLeft
<1>2. ASSUME StopReturn(a) PROVE CloseLeft(a)' < CloseLeft(a) /\ CloseLeft(a)' <= CloseLeft(a)
  <2>1. pc[a] = "closing" /\ pc'[a] = "stopped"
    BY <1>0, <1>2 DEF StopReturn, TypeOK
  <2> QED
    BY <1>0, <2>1 DEF CloseLeft
<1>3. ASSUME (pc'[a] = pc[a] /\ closing'[a] = closing[a]) \/ pc'[a] # "closing"
      PROVE  CloseLeft(a)' <= CloseLeft(a)
  <2>1. CloseLeft(a)' = CloseLeft(a) \/ CloseLeft(a)' = 0
    BY <1>3 DEF CloseLeft
  <2> QED
    BY <1>0, <2>1
<1>4. ASSUME NEW b \in Attacks, Prepare(b) \/ StartStep(b) PROVE CloseLeft(a)' <= CloseLeft(a)
  <2>1. closing' = closing /\ (pc'[a] = pc[a] \/ pc'[a] # "closing")
    BY <1>0, <1>4 DEF Prepare, StartStep, Start, Open, NextTarget, Register, stopLocals, TypeOK
  <2> QED
    BY <1>3, <2>1
<1>5. ASSUME NEW b \in Attacks, b # a, Stop(b) \/ StopStep(b) PROVE CloseLeft(a)' <= CloseLeft(a)
  <2>1. closing'[a] = closing[a] /\ pc'[a] = pc[a]
    BY <1>0, <1>5 DEF Stop, StopStep, Close, StopReturn, TypeOK
  <2> QED
    BY <1>3, <2>1
<1>6. ASSUME NEW b \in Attacks, KeepAlive(b) PROVE CloseLeft(a)' <= CloseLeft(a)
  BY <1>3, <1>6 DEF KeepAlive, KeepAliveTick, KeepAlivePing, KeepAliveEnd, stopLocals
<1>7. ASSUME NEW c \in Clients, Drop(c) PROVE CloseLeft(a)' <= CloseLeft(a)
  BY <1>3, <1>7 DEF Drop, stopLocals
<1>8. UNCHANGED vars => CloseLeft(a)' <= CloseLeft(a)
  BY <1>3 DEF vars, stopLocals
<1> QED
  BY <1>1, <1>2, <1>4, <1>5, <1>6, <1>7, <1>8 DEF Next, StopStep

\* Every handler ends after a bounded number of steps, whatever the other handlers, the
\* goroutines and the server do: a Start after at most one attempt per connection and one
\* step per master, a Stop after at most NumConnections closes.  This is the part of
\* EventuallyClosed that does not depend on fairness.
THEOREM ConnHandlersEnd ==
    Spec => /\ [](\A a \in Attacks : OpenLeft(a) \in 0 .. NumConnections + MaxMasters + 1)
            /\ []FewToClose
            /\ [][OpenShrinks /\ CloseShrinks]_vars
<1>1. ConnInv => \A a \in Attacks : OpenLeft(a) \in 0 .. NumConnections + MaxMasters + 1
  BY OpenLeftType
<1>2. ConnInv /\ StopsCounted /\ FewToClose /\ [Next]_vars => [OpenShrinks /\ CloseShrinks]_vars
  BY OpenNearer, CloseNearer
<1>3. ConnInv /\ FewToClose /\ [Next]_vars => FewToClose'
  BY NextFew
<1> QED
  BY <1>1, <1>2, <1>3, InitFew, ConnInvariant, PTL DEF Spec
=============================================================================
