---------------------------- MODULE LedgerProofs ----------------------------
(***************************************************************************)
(* What the session table promises its callers, for every set of pids and  *)
(* every retention bound: it implements the ledger, and a scope leaves the *)
(* table only with the session it belongs to.                              *)
(***************************************************************************)
EXTENDS SessionProofs, FiniteSetTheorems

(***************************************************************************)
(* The ledger.                                                             *)
(***************************************************************************)

\* The ledger counts as the table does.
LEMMA LedgerCardinality == \A S : Ledger!Cardinality(S) = Cardinality(S)
  BY DEF Ledger!Cardinality, Cardinality, Ledger!IsFiniteSet, IsFiniteSet

\* A queue without repetitions is as long as its set of pids is large.
LEMMA QueueCardinality ==
  ASSUME NEW q \in Seq(Pid), \A i, j \in 1 .. Len(q) : q[i] = q[j] => i = j
  PROVE  IsFiniteSet(Queued(q)) /\ Cardinality(Queued(q)) = Len(q)
  <1>1. Len(q) \in Nat /\ q \in [1 .. Len(q) -> Queued(q)]
    BY DEF Queued
  <1>2. q \in Bijection(1 .. Len(q), Queued(q))
    BY <1>1 DEF Queued, Bijection, Injection, Surjection, IsInjective
  <1>3. ExistsBijection(1 .. Len(q), Queued(q))
    BY <1>2 DEF ExistsBijection
  <1> QED BY <1>1, <1>3, FS_CountingElements, FS_NatBijection

\* As many sessions exited after the i-th of the queue as stand behind it.
LEMMA BehindCardinality ==
  ASSUME TypeOK, QueueIsExact, NEW i \in 1 .. Len(exited)
  PROVE  Cardinality(Behind(exited[i])) = Len(exited) - i
  <1> DEFINE n == Len(exited)
             tail == [k \in 1 .. n - i |-> exited[i + k]]
  <1>1. exited \in Seq(Pid) /\ n \in Nat /\ i \in 1 .. n /\ n - i \in Nat
    BY DEF TypeOK
  <1>2. \A k, l \in 1 .. n : exited[k] = exited[l] => k = l
    BY DEF QueueIsExact
  <1>3. \A k \in 1 .. n - i : i + k \in 1 .. n /\ exited[i + k] \in Pid
    BY <1>1
  <1>4. tail \in [1 .. n - i -> Pid]
    BY <1>3
  <1>5. tail \in Seq(Pid) /\ Len(tail) = n - i
    BY <1>1, <1>4
  <1>6. \A k, l \in 1 .. Len(tail) : tail[k] = tail[l] => k = l
    <2> SUFFICES ASSUME NEW k \in 1 .. n - i, NEW l \in 1 .. n - i, tail[k] = tail[l]
                 PROVE  k = l
      BY <1>5
    <2>1. exited[i + k] = exited[i + l]
      OBVIOUS
    <2>2. i + k = i + l
      BY <1>2, <1>3, <2>1
    <2> QED BY <1>1, <2>2
  <1>7. Cardinality(Queued(tail)) = n - i
    <2> HIDE DEF tail
    <2> QED BY <1>5, <1>6, QueueCardinality
  <1>8. Queued(tail) = {exited[i + k] : k \in 1 .. n - i}
    BY <1>5 DEF Queued
  <1>9. Behind(exited[i]) = {exited[i + k] : k \in 1 .. n - i}
    <2>1. ASSUME NEW j \in 1 .. n, NEW m \in 1 .. j - 1, exited[m] = exited[i]
          PROVE  exited[j] \in {exited[i + k] : k \in 1 .. n - i}
      <3>1. m = i
        BY <1>1, <1>2, <2>1
      <3>2. j - i \in 1 .. n - i /\ i + (j - i) = j
        BY <1>1, <3>1
      <3> QED BY <3>2
    <2>2. ASSUME NEW k \in 1 .. n - i PROVE exited[i + k] \in Behind(exited[i])
      <3>1. i + k \in 1 .. n /\ i \in 1 .. (i + k) - 1
        BY <1>1
      <3> QED BY <3>1 DEF Behind
    <2> QED BY <2>1, <2>2 DEF Behind
  <1> QED BY <1>7, <1>8, <1>9

\* The exit of a running session forgets whom the ledger says it outlives: the
\* oldest, if the queue is full.
LEMMA OutlivedIsOldest ==
  ASSUME TypeOK, QueueIsExact
  PROVE  /\ Ledger!HasExited = Queued(exited)
         /\ Ledger!Outlived = IF Len(exited) = Retained THEN {exited[1]} ELSE {}
  <1> DEFINE n == Len(exited)
  <1>1. n \in Nat /\ n <= Retained /\ Retained \in Nat \ {0} /\ exited \in Seq(Pid)
    BY SessionAssumption DEF TypeOK, QueueIsExact
  <1>2. Ledger!HasExited = Queued(exited)
    BY DEF QueueIsExact, Queued, Ledger!HasExited
  <1>3. \A i \in 1 .. n : Cardinality(Behind(exited[i])) = n - i
    BY BehindCardinality
  <1>4. \A r \in Pid : Ledger!Cardinality([p \in Pid |-> Behind(p)][r]) = Cardinality(Behind(r))
    BY LedgerCardinality
  <1>5. \A r : r \in Ledger!Outlived <=>
             r \in Queued(exited) /\ Cardinality(Behind(r)) + 1 = Retained
    <2>1. Queued(exited) \subseteq Pid
      BY <1>1 DEF Queued
    <2> QED BY <1>2, <1>4, <2>1 DEF Ledger!Outlived
  <1>6. \A i \in 1 .. n : exited[i] \in Ledger!Outlived <=> n = Retained /\ i = 1
    <2> SUFFICES ASSUME NEW i \in 1 .. n
                 PROVE  exited[i] \in Ledger!Outlived <=> n = Retained /\ i = 1
      OBVIOUS
    <2>1. exited[i] \in Queued(exited) /\ Cardinality(Behind(exited[i])) = n - i
      BY <1>3 DEF Queued
    <2>2. (n - i) + 1 = Retained <=> n = Retained /\ i = 1
      BY <1>1
    <2> QED BY <1>5, <2>1, <2>2
  <1>7. \A r \in Ledger!Outlived : \E i \in 1 .. n : r = exited[i]
    BY <1>5 DEF Queued
  <1>8. CASE n = Retained
    <2>1. 1 \in 1 .. n
      BY <1>1, <1>8
    <2> QED BY <1>2, <1>6, <1>7, <1>8, <2>1
  <1>9. CASE n # Retained
    BY <1>2, <1>6, <1>7, <1>9
  <1> QED BY <1>8, <1>9

\* The records an exit evicts are those the ledger forgets.
LEMMA EvictedAsPromised ==
  ASSUME TypeOK, QueueIsExact, NEW p \in Pid, RecordOutcome(p), status[p] \notin ExitCode
  PROVE  status' = [r \in Pid |-> IF r = p THEN waitStatus[p]
                                 ELSE IF r \in Ledger!Outlived THEN "Unknown" ELSE status[r]]
  <1> USE SessionAssumption
  <1> DEFINE n == Len(exited)
             queue == Append(exited, p)
             over == Overflow(Len(queue))
             gone == {queue[i] : i \in 1 .. over}
  <1>1. status' = [r \in Pid |-> IF r \in gone THEN "Unknown"
                                 ELSE IF r = p THEN waitStatus[p] ELSE status[r]]
    BY DEF RecordOutcome
  <1>2. n \in Nat /\ n <= Retained /\ exited \in Seq(Pid) /\ Retained \in Nat \ {0}
    BY DEF TypeOK, QueueIsExact
  <1>3. Len(queue) = n + 1 /\ \A i \in 1 .. n : queue[i] = exited[i]
    BY <1>2
  <1>4. over = IF n = Retained THEN 1 ELSE 0
    BY <1>2, <1>3 DEF Overflow
  <1>5. p \notin Ledger!Outlived
    BY DEF Ledger!Outlived, Ledger!HasExited
  <1> HIDE DEF queue, over
  <1>6. gone = IF n = Retained THEN {exited[1]} ELSE {}
    BY <1>2, <1>3, <1>4
  <1>7. gone = Ledger!Outlived
    BY <1>6, OutlivedIsOldest
  <1> HIDE DEF gone
  <1> QED BY <1>1, <1>5, <1>7

\* What the queue, and with it the order of the exits, is after an exit.
LEMMA BehindAfterExit ==
  ASSUME TypeOK, QueueIsExact, NEW p \in Pid, RecordOutcome(p), status[p] \notin ExitCode
  PROVE  \A r \in Pid : Behind(r)' = IF r \in Queued(exited) \ Ledger!Outlived
                                     THEN Behind(r) \cup {p} ELSE {}
  <1> USE SessionAssumption
  <1> DEFINE n == Len(exited)
             queue == Append(exited, p)
             over == Overflow(Len(queue))
  <1>1. /\ n \in Nat /\ n <= Retained /\ exited \in Seq(Pid) /\ Retained \in Nat \ {0}
        /\ \A k, l \in 1 .. n : exited[k] = exited[l] => k = l
    BY DEF TypeOK, QueueIsExact
  <1>2. Len(queue) = n + 1 /\ queue \in Seq(Pid) /\ queue[n + 1] = p
        /\ \A i \in 1 .. n : queue[i] = exited[i]
    BY <1>1
  <1>3. over = IF n = Retained THEN 1 ELSE 0
    BY <1>1, <1>2 DEF Overflow
  <1>4. exited' = SubSeq(queue, over + 1, n + 1)
    BY <1>2 DEF RecordOutcome
  <1>5. p \notin Queued(exited)
    BY DEF QueueIsExact, Queued
  <1> HIDE DEF queue, over
  <1>6. Len(exited') = n + 1 - over /\ \A i \in 1 .. n + 1 - over : exited'[i] = queue[over + i]
    <2>1. CASE n = Retained
      <3>1. over = 1 /\ exited' = SubSeq(queue, 2, n + 1)
        BY <1>3, <1>4, <2>1
      <3>2. Len(exited') = n /\ \A i \in 1 .. n : exited'[i] = queue[i + 1]
        BY <1>1, <1>2, <3>1
      <3> QED BY <1>1, <3>1, <3>2
    <2>2. CASE n # Retained
      <3>1. over = 0 /\ exited' = SubSeq(queue, 1, n + 1)
        BY <1>3, <1>4, <2>2
      <3>2. Len(exited') = n + 1 /\ \A i \in 1 .. n + 1 : exited'[i] = queue[i]
        BY <1>1, <1>2, <3>1
      <3> QED BY <1>1, <3>1, <3>2
    <2> QED BY <2>1, <2>2
  <1> DEFINE m == n + 1 - over
  <1>7. m \in Nat \ {0} /\ exited'[m] = p /\ \A i \in 1 .. m - 1 : exited'[i] = exited[over + i]
    BY <1>1, <1>2, <1>3, <1>6
  <1>8. \A i \in 1 .. m - 1 : over + i \in 1 .. n
    BY <1>1, <1>3
  <1>9. \A i \in 1 .. m - 1 : exited'[i] # p
    BY <1>5, <1>7, <1>8 DEF Queued
  <1>10. \A r, x : x \in Behind(r)' <=> \E j, i \in 1 .. m : i < j /\ exited'[i] = r /\ exited'[j] = x
    BY <1>6 DEF Behind
  <1>11. \A r, x : x \in Behind(r) <=> \E j, i \in 1 .. n : i < j /\ exited[i] = r /\ exited[j] = x
    BY DEF Behind
  <1>12. \A r : r \in Queued(exited) \ Ledger!Outlived <=> \E i \in 1 .. m - 1 : exited'[i] = r
    <2>1. Ledger!Outlived = IF n = Retained THEN {exited[1]} ELSE {}
      BY OutlivedIsOldest
    <2>2. ASSUME NEW i \in 1 .. m - 1 PROVE exited'[i] \in Queued(exited) \ Ledger!Outlived
      <3>1. exited'[i] = exited[over + i] /\ over + i \in 1 .. n
        BY <1>7, <1>8
      <3>2. n = Retained => over + i # 1 /\ 1 \in 1 .. n
        BY <1>1, <1>3
      <3> QED BY <1>1, <2>1, <3>1, <3>2 DEF Queued
    <2>3. ASSUME NEW k \in 1 .. n, exited[k] \notin Ledger!Outlived
          PROVE  \E i \in 1 .. m - 1 : exited'[i] = exited[k]
      <3>1. n = Retained => k # 1
        BY <2>1, <2>3
      <3>2. k - over \in 1 .. m - 1 /\ over + (k - over) = k
        BY <1>1, <1>3, <3>1
      <3> QED BY <1>7, <3>2
    <2> QED BY <2>2, <2>3 DEF Queued
  <1> HIDE DEF m
  <1>13. ASSUME NEW r \in Pid, NEW i \in 1 .. m - 1, exited'[i] = r
         PROVE  Behind(r)' = Behind(r) \cup {p}
    <2>1. m \in 1 .. m /\ i \in 1 .. m - 1
      BY <1>7
    <2>2. p \in Behind(r)'
      BY <1>7, <1>10, <1>13, <2>1
    <2>3. ASSUME NEW x \in Behind(r)' PROVE x \in Behind(r) \cup {p}
      <3>1. PICK j \in 1 .. m, k \in 1 .. m : k < j /\ exited'[k] = r /\ exited'[j] = x
        BY <1>10, <2>3
      <3>2. CASE j = m
        BY <1>7, <3>1, <3>2
      <3>3. CASE j # m
        <4>1. j \in 1 .. m - 1 /\ k \in 1 .. m - 1
          BY <1>7, <3>1, <3>3
        <4>2. /\ exited[over + j] = x /\ exited[over + k] = r
              /\ over + j \in 1 .. n /\ over + k \in 1 .. n
          BY <1>7, <1>8, <3>1, <4>1
        <4>3. over + k < over + j
          BY <1>1, <1>3, <3>1, <4>2
        <4> QED BY <1>11, <4>2, <4>3
      <3> QED BY <3>2, <3>3
    <2>4. ASSUME NEW x \in Behind(r) PROVE x \in Behind(r)'
      <3>1. PICK j \in 1 .. n, k \in 1 .. n : k < j /\ exited[k] = r /\ exited[j] = x
        BY <1>11, <2>4
      <3>2. exited[over + i] = r /\ over + i \in 1 .. n /\ k \in 1 .. n
        BY <1>1, <1>7, <1>8, <1>13, <3>1
      <3>3. k = over + i
        BY <1>1, <3>1, <3>2
      <3>4. j - over \in 1 .. m - 1 /\ i < j - over /\ over + (j - over) = j
        BY <1>1, <1>3, <3>1, <3>3 DEF m
      <3>5. exited'[j - over] = x /\ j - over \in 1 .. m
        BY <1>7, <3>1, <3>4
      <3>6. i \in 1 .. m
        BY <1>7
      <3> QED BY <1>10, <1>13, <3>4, <3>5, <3>6
    <2> QED BY <2>2, <2>3, <2>4
  <1>14. ASSUME NEW r \in Pid, ~ \E i \in 1 .. m - 1 : exited'[i] = r
         PROVE  Behind(r)' = {}
    <2> SUFFICES ASSUME NEW x \in Behind(r)' PROVE FALSE
      OBVIOUS
    <2>1. PICK j \in 1 .. m, k \in 1 .. m : k < j /\ exited'[k] = r
      BY <1>10
    <2>2. k \in 1 .. m - 1
      BY <1>7, <2>1
    <2> QED BY <1>14, <2>1, <2>2
  <1> QED BY <1>12, <1>13, <1>14

\* A reissued pid leaves the queue, and nobody's order but its own changes.
LEMMA BehindAfterRetain ==
  ASSUME TypeOK, QueueIsExact, NEW p \in Pid, exited' = Retain(exited, p)
  PROVE  \A r \in Pid : Behind(r)' = IF r = p THEN {} ELSE Behind(r) \ {p}
  <1> DEFINE n == Len(exited)
  <1>1. /\ n \in Nat /\ exited \in Seq(Pid)
        /\ \A k, l \in 1 .. n : exited[k] = exited[l] => k = l
    BY DEF TypeOK, QueueIsExact
  <1>2. \A r, x : x \in Behind(r) <=> \E j, i \in 1 .. n : i < j /\ exited[i] = r /\ exited[j] = x
    BY DEF Behind
  <1>3. CASE ~ \E i \in 1 .. n : exited[i] = p
    <2>1. exited' = exited
      BY <1>3 DEF Retain
    <2>2. \A r \in Pid : Behind(r)' = Behind(r)
      BY <2>1 DEF Behind
    <2>3. \A r : p \notin Behind(r)
      BY <1>2, <1>3
    <2>4. Behind(p) = {}
      <3> SUFFICES ASSUME NEW x \in Behind(p) PROVE FALSE
        OBVIOUS
      <3>1. PICK j \in 1 .. n, i \in 1 .. n : i < j /\ exited[i] = p
        BY <1>2
      <3>2. i \in 1 .. n
        BY <1>1, <3>1
      <3> QED BY <1>3, <3>1, <3>2
    <2> QED BY <2>2, <2>3, <2>4
  <1>4. CASE \E i \in 1 .. n : exited[i] = p
    <2> DEFINE k == CHOOSE i \in 1 .. n : exited[i] = p
               Old(j) == IF j < k THEN j ELSE j + 1
               New(j) == IF j < k THEN j ELSE j - 1
    <2>1. k \in 1 .. n /\ exited[k] = p
      BY <1>4
    <2>2. exited' = [j \in 1 .. n - 1 |-> IF j < k THEN exited[j] ELSE exited[j + 1]]
      BY <1>4 DEF Retain
    <2> HIDE DEF k
    <2>3. Len(exited') = n - 1 /\ \A j \in 1 .. n - 1 : exited'[j] = exited[Old(j)]
      BY <1>1, <2>1, <2>2
    <2>4. \A j \in 1 .. n - 1 : Old(j) \in 1 .. n /\ Old(j) # k
      BY <1>1, <2>1
    <2>5. \A j \in 1 .. n : j # k => New(j) \in 1 .. n - 1 /\ Old(New(j)) = j
      BY <1>1, <2>1
    <2>6. \A i, j \in 1 .. n - 1 : i < j => Old(i) < Old(j)
      BY <1>1, <2>1
    <2>7. \A i, j \in 1 .. n : i < j /\ i # k /\ j # k => New(i) < New(j)
      BY <1>1, <2>1
    <2>8. \A r, x : x \in Behind(r)' <=>
             \E j, i \in 1 .. n - 1 : i < j /\ exited'[i] = r /\ exited'[j] = x
      <3> HIDE DEF Old
      <3>1. \A r : Behind(r)' = {exited'[j] : j \in {l \in 1 .. n - 1 : \E i \in 1 .. l - 1 : exited'[i] = r}}
        BY <2>3 DEF Behind
      <3>2. \A l \in 1 .. n - 1 : \A i : i \in 1 .. l - 1 <=> i \in 1 .. n - 1 /\ i < l
        BY <1>1
      <3> QED BY <3>1, <3>2
    <2> HIDE DEF Old, New
    <2>9. ASSUME NEW r \in Pid, NEW x \in Behind(r)' PROVE r # p /\ x # p /\ x \in Behind(r)
      <3>1. PICK j \in 1 .. n - 1, i \in 1 .. n - 1 : i < j /\ exited'[i] = r /\ exited'[j] = x
        BY <2>8, <2>9
      <3>2. i \in 1 .. n - 1 /\ i < j
        BY <1>1, <3>1
      <3>3. /\ exited[Old(i)] = r /\ exited[Old(j)] = x
            /\ Old(i) \in 1 .. n /\ Old(j) \in 1 .. n /\ Old(i) # k /\ Old(j) # k
        BY <2>3, <2>4, <3>1, <3>2
      <3>4. r # p /\ x # p
        BY <1>1, <2>1, <3>3
      <3>5. Old(i) < Old(j)
        BY <2>6, <3>2, <3>3
      <3> QED BY <1>2, <3>3, <3>4, <3>5
    <2>10. ASSUME NEW r \in Pid, r # p, NEW x \in Behind(r), x # p PROVE x \in Behind(r)'
      <3>1. PICK j \in 1 .. n, i \in 1 .. n : i < j /\ exited[i] = r /\ exited[j] = x
        BY <1>2, <2>10
      <3>2. i \in 1 .. n /\ i < j /\ i # k /\ j # k
        BY <1>1, <2>1, <2>10, <3>1
      <3>3. /\ New(i) \in 1 .. n - 1 /\ New(j) \in 1 .. n - 1 /\ New(i) < New(j)
            /\ Old(New(i)) = i /\ Old(New(j)) = j
        BY <2>5, <2>7, <3>2
      <3>4. exited'[New(i)] = r /\ exited'[New(j)] = x
        BY <2>3, <3>1, <3>3
      <3>5. New(i) < New(j)
        BY <3>3
      <3> QED BY <2>8, <3>3, <3>4, <3>5
    <2> QED BY <2>9, <2>10
  <1> QED BY <1>3, <1>4

\* Every step of the table is a step of the ledger or changes no answer.
LEMMA LedgerStep == TypeOK /\ KernelInv /\ [Next]_vars => [Ledger!Next]_(Ledger!ledgerVars)
  <1> DEFINE Same == UNCHANGED <<status, exited>>
  <1>0. Same => UNCHANGED Ledger!ledgerVars
    BY DEF Ledger!ledgerVars, Behind
  <1> SUFFICES ASSUME TypeOK, KernelInv, [Next]_vars PROVE Ledger!Next \/ Same
    BY <1>0
  <1> USE DEF tableVars
  <1>1. CASE SessionRecorded
    <2>1. forkedPid \in Pid /\ status[forkedPid] # "Running"
      BY <1>1 DEF SessionRecorded, TypeOK, KernelInv, ForkedInv
    <2>2. QueueIsExact /\ exited' = Retain(exited, forkedPid)
      BY <1>1 DEF SessionRecorded, KernelInv
    <2>3. \A r \in Pid : Behind(r)' = IF r = forkedPid THEN {} ELSE Behind(r) \ {forkedPid}
      BY <2>1, <2>2, BehindAfterRetain
    <2>4. Ledger!Spawn(forkedPid)
      BY <1>1, <2>1, <2>3 DEF SessionRecorded, Ledger!Spawn
    <2> QED BY <2>1, <2>4 DEF Ledger!Next
  <1>2. ASSUME NEW p \in Pid, SessionExitRecorded(p) PROVE Ledger!Next
    <2>1. /\ status[p] = "Running" /\ status[p] \notin ExitCode /\ waitStatus[p] \in ExitCode
          /\ QueueIsExact /\ RecordOutcome(p)
      BY <1>2, SessionAssumption
         DEF SessionExitRecorded, TakeReaped, KernelInv, BatchInv, FateInv
    <2>2. status' = [r \in Pid |-> IF r = p THEN waitStatus[p]
                                  ELSE IF r \in Ledger!Outlived THEN "Unknown" ELSE status[r]]
      BY <2>1, EvictedAsPromised
    <2>3. \A r \in Pid : Behind(r)' = IF r \in Ledger!HasExited \ Ledger!Outlived
                                      THEN Behind(r) \cup {p} ELSE {}
      BY <2>1, BehindAfterExit, OutlivedIsOldest
    <2>4. Ledger!End(p, waitStatus[p])
      BY <2>1, <2>2, <2>3 DEF Ledger!End
    <2> QED BY <2>1, <2>4 DEF Ledger!Next
  <1>3. ASSUME NEW p \in Pid, SessionForks(p) \/ stop_session(p) PROVE Same
    BY <1>3 DEF SessionForks, stop_session
  <1>4. ASSUME NEW p \in Pid, NEW code \in ExitCode, SessionExits(p, code) PROVE Same
    BY <1>4 DEF SessionExits
  <1>5. ASSUME Reaper \/ SessionExitAnnounced PROVE Same
    BY <1>5 DEF Reaper, SessionExitAnnounced
  <1>6. ASSUME NEW g \in Gen, ScopeRetried(g) PROVE Same
    BY <1>6 DEF ScopeRetried
  <1>7. ASSUME NEW p \in Pid, NEW g \in Gen, SendTerm(p, g) \/ GraceEnds(p, g) \/ SendKill(p, g)
        PROVE  Same
    BY <1>7 DEF SendTerm, GraceEnds, SendKill
  <1>8. ASSUME NEW w \in Waiter, WaitReads(w) \/ WaitSleeps(w) \/ WaitWakes(w)
        PROVE  Same
    BY <1>8 DEF WaitReads, WaitSleeps, WaitWakes, Waits
  <1>9. ASSUME NEW w \in Waiter, NEW p \in Pid, WaitRegisters(w, p) PROVE Same
    BY <1>9 DEF WaitRegisters, Waits
  <1>10. UNCHANGED vars => Same
    BY DEF vars
  <1> QED BY <1>1, <1>2, <1>3, <1>4, <1>5, <1>6, <1>7, <1>8, <1>9, <1>10 DEF Next

\* The table, with its queue, generations and batches, implements the ledger: a
\* caller never sees a running session forgotten, and an exit is forgotten when
\* Retained sessions on record exited after it or its pid is reissued, not before.
THEOREM TableImplementsLedger == Spec => LedgerSpec
  <1>1. Init => Ledger!Init
    BY DEF Init, Ledger!Init, Behind
  <1> QED BY <1>1, LedgerStep, Safety, PTL DEF Spec, LedgerSpec, Ledger!Spec

(***************************************************************************)
(* Scopes.                                                                 *)
(***************************************************************************)

\* An incarnation not spawned yet has no scope, and the scope the reap has in
\* hand is no longer in the table.
ScopeInv ==
    /\ \A g \in Gen : g > spawned => scope[g] = "none"
    /\ handed # 0 => scope[handed] = "handed"

\* What ScopesAreOfTheRunning asks of a step.
ScopeLeavesWithSession ==
    \A g \in Gen :
        /\ scope[g] = "owned" /\ scope'[g] # "owned" => fate[g] \in ExitCode
        /\ scope'[g] = "handed" => scope[g] \in {"owned", "handed"}

\* The two step by step.
LEMMA ScopeStep ==
  ASSUME TypeOK, KernelInv, ScopeInv, [Next]_vars
  PROVE  ScopeInv' /\ ScopeLeavesWithSession
  <1> USE SessionAssumption DEF tableVars, drainVars
  <1>1. CASE UNCHANGED <<scope, handed, spawned>>
    BY <1>1 DEF ScopeInv, ScopeLeavesWithSession
  <1>2. CASE SessionRecorded
    <2>1. /\ spawned' = spawned + 1 /\ spawned \in Nat /\ spawned + 1 \in Gen
          /\ UNCHANGED handed
      BY <1>2 DEF SessionRecorded, TypeOK, Gen, KernelInv, ForkedInv
    <2>2. \E owned \in {"none", "owned"} : scope' = [scope EXCEPT ![spawned + 1] = owned]
      BY <1>2 DEF SessionRecorded
    <2>3. scope[spawned + 1] = "none"
      BY <2>1 DEF ScopeInv
    <2>4. \A g \in Gen : g # spawned + 1 => scope'[g] = scope[g]
      BY <2>2 DEF TypeOK
    <2>5. scope'[spawned + 1] \in {"none", "owned"}
      BY <2>1, <2>2 DEF TypeOK
    <2>6. handed # 0 => handed \in Gen /\ handed # spawned + 1
      BY <2>3 DEF ScopeInv, TypeOK, Gen
    <2>7. \A g \in Gen : g > spawned + 1 => g > spawned /\ g # spawned + 1
      BY <2>1 DEF Gen
    <2>8. ScopeInv'
      BY <2>1, <2>4, <2>6, <2>7 DEF ScopeInv
    <2> QED BY <2>3, <2>4, <2>5, <2>8 DEF ScopeLeavesWithSession
  <1>3. ASSUME NEW p \in Pid, SessionExitRecorded(p) PROVE ScopeInv' /\ ScopeLeavesWithSession
    <2> DEFINE g == generation[p]
    <2>1. /\ g \in Gen /\ g <= spawned /\ fate[g] \in ExitCode
          /\ spawned' = spawned /\ spawned \in Nat
      BY <1>3 DEF SessionExitRecorded, TakeReaped, KernelInv, FateInv, BatchInv,
                  TableMatchesKernel, NumberInv, Held, TypeOK, Gen
    <2>2. /\ handed' = IF scope[g] = "owned" THEN g ELSE 0
          /\ scope' = IF scope[g] = "owned" THEN [scope EXCEPT ![g] = "handed"] ELSE scope
      BY <1>3 DEF SessionExitRecorded, ScopeOf
    <2> HIDE DEF g
    <2>3. \A h \in Gen : h > spawned => h # g
      BY <2>1 DEF Gen
    <2>4. ScopeInv'
      BY <2>1, <2>2, <2>3 DEF ScopeInv, TypeOK, Gen
    <2>5. ScopeLeavesWithSession
      BY <2>1, <2>2 DEF ScopeLeavesWithSession, TypeOK
    <2> QED BY <2>4, <2>5
  <1>4. CASE SessionExitAnnounced
    <2>1. handed' = 0 /\ spawned' = spawned
      BY <1>4 DEF SessionExitAnnounced
    <2>2. CASE handed = 0
      <3>1. UNCHANGED scope
        BY <1>4, <2>2 DEF SessionExitAnnounced
      <3> QED BY <2>1, <3>1 DEF ScopeInv, ScopeLeavesWithSession
    <2>3. CASE handed # 0
      <3>1. PICK next \in {"settled", "retrying"} : scope' = [scope EXCEPT ![handed] = next]
        BY <1>4, <2>3 DEF SessionExitAnnounced
      <3>2. handed \in Gen /\ scope[handed] = "handed" /\ spawned \in Nat
        BY <2>3 DEF ScopeInv, TypeOK, Gen
      <3>3. ScopeInv'
        BY <2>1, <3>1, <3>2 DEF ScopeInv, TypeOK, Gen
      <3> QED BY <3>1, <3>2, <3>3 DEF ScopeLeavesWithSession, TypeOK
    <2> QED BY <2>2, <2>3
  <1>5. ASSUME NEW g \in Gen, ScopeRetried(g) PROVE ScopeInv' /\ ScopeLeavesWithSession
    <2>1. /\ scope[g] = "retrying" /\ scope' = [scope EXCEPT ![g] = "settled"]
          /\ UNCHANGED <<handed, spawned>>
      BY <1>5 DEF ScopeRetried
    <2>2. handed # g \/ handed = 0
      BY <2>1 DEF ScopeInv
    <2>3. ScopeInv'
      BY <2>1, <2>2 DEF ScopeInv, TypeOK, Gen
    <2> QED BY <2>1, <2>3 DEF ScopeLeavesWithSession, TypeOK
  <1> DEFINE Same == UNCHANGED <<scope, handed, spawned>>
  <1>6. ASSUME NEW p \in Pid, SessionForks(p) \/ stop_session(p) PROVE Same
    BY <1>6 DEF SessionForks, stop_session
  <1>7. ASSUME NEW p \in Pid, NEW code \in ExitCode, SessionExits(p, code) PROVE Same
    BY <1>7 DEF SessionExits
  <1>8. ASSUME Reaper PROVE Same
    BY <1>8 DEF Reaper
  <1>9. ASSUME NEW p \in Pid, NEW g \in Gen, SendTerm(p, g) \/ GraceEnds(p, g) \/ SendKill(p, g)
        PROVE  Same
    BY <1>9 DEF SendTerm, GraceEnds, SendKill
  <1>10. ASSUME NEW w \in Waiter, WaitReads(w) \/ WaitSleeps(w) \/ WaitWakes(w) PROVE Same
    BY <1>10 DEF WaitReads, WaitSleeps, WaitWakes, Waits
  <1>11. ASSUME NEW w \in Waiter, NEW p \in Pid, WaitRegisters(w, p) PROVE Same
    BY <1>11 DEF WaitRegisters, Waits
  <1>12. UNCHANGED vars => Same
    BY DEF vars
  <1> QED BY <1>1, <1>2, <1>3, <1>4, <1>5, <1>6, <1>7, <1>8, <1>9, <1>10, <1>11, <1>12 DEF Next

\* A scope leaves the table only when its own session has ended, and once.
THEOREM ScopesFollowSessions == Spec => ScopesAreOfTheRunning
  <1>1. Init => ScopeInv
    BY DEF Init, ScopeInv
  <1>2. TypeOK /\ KernelInv /\ ScopeInv /\ [Next]_vars =>
            ScopeInv' /\ [ScopeLeavesWithSession]_vars
    BY ScopeStep
  <1>3. ScopesAreOfTheRunning <=> [][ScopeLeavesWithSession]_vars
    BY DEF ScopesAreOfTheRunning, ScopeLeavesWithSession
  <1> QED BY <1>1, <1>2, <1>3, Safety, PTL DEF Spec
=============================================================================
