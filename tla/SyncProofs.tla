---------------------------- MODULE SyncProofs ----------------------------
(***************************************************************************)
(* Credential sync for any number of daemons, slots and secrets, any       *)
(* readings of the clocks and any number of writes, resets and crashes.    *)
(***************************************************************************)
EXTENDS CredentialSync, TLAPS

(***************************************************************************)
(* What makes the invariants inductive: what holds of a vault holds of the *)
(* copies of it that are on their way to another one.                      *)
(***************************************************************************)

\* An entry that q may hold.
MayHold(q, x) ==
    x.kind = "record" => \/ x.by = q
                         \/ secret[q] # NoSecret /\ secret[x.by] = secret[q]

GroupInv ==
    /\ \A d \in Daemon, k \in Key : MayHold(d, vault[d][k]) /\ MayHold(d, entries[d][k])
    /\ \A d \in Daemon, k \in Key : call[d] # NoCall => MayHold(call[d].to, call[d].payload[k])
    /\ \A m \in late, k \in Key : MayHold(m.to, m.payload[k])

\* An answer that is not recorded yet is about slots the peer holds by now, or has
\* lost in a reset since.
AnswerInv ==
    \A d \in Daemon, k \in Key : call[d].reply = "ack" /\ call[d].payload[k] # Empty =>
        /\ call[d].to \in Daemon
        /\ vault[call[d].to][k] # Empty \/ lost[call[d].to][k] # 0
        /\ orderly[k] => \/ call[d].payload[k].at <= vault[call[d].to][k].at
                         \/ call[d].payload[k].at <= lost[call[d].to][k]

\* The copies of slot k there are.
Copies(k) ==
    {vault[d][k] : d \in Daemon} \cup {entries[d][k] : d \in Daemon}
        \cup {call[d].payload[k] : d \in Daemon} \cup {m.payload[k] : m \in late}

\* Each copy stems from a write, and the stamps of orderly writes tell them apart.
StampInv ==
    \A k \in Key :
        /\ \A x \in Copies(k) : x = Empty \/ x.at \in stamps[k]
        /\ orderly[k] => \A x, y \in Copies(k) : x.at = y.at => x = y

(***************************************************************************)
(* Entries and vaults.                                                     *)
(***************************************************************************)

\* The parts of a slot, and that only an empty one is unstamped.
LEMMA SlotFacts ==
  ASSUME NEW x \in Slot
  PROVE  /\ x.at \in Nat /\ x.at \in 0 .. MaxTime /\ x.version \in Nat
         /\ x = Empty <=> x.at = 0
         /\ x.kind = "record" => x.by \in Daemon
  <1> USE SyncAssumption
  <1>1. CASE x = Empty
    BY <1>1 DEF Empty
  <1>2. CASE x \in Entry
    BY <1>2 DEF Entry, Empty
  <1> QED BY <1>1, <1>2 DEF Slot

\* Retaining a payload takes each of its slots or keeps a later one.
LEMMA RetainsFacts ==
  ASSUME NEW q \in Daemon, NEW payload \in [Key -> Slot], Retains(q, payload),
         vault \in [Daemon -> [Key -> Slot]]
  PROVE  /\ vault' \in [Daemon -> [Key -> Slot]]
         /\ \A d \in Daemon, k \in Key : \/ vault'[d][k] = vault[d][k]
                                         \/ d = q /\ vault'[d][k] = payload[k]
         /\ \A d \in Daemon, k \in Key : /\ vault[d][k] # Empty => vault'[d][k] # Empty
                                         /\ vault[d][k].at <= vault'[d][k].at
         /\ \A k \in Key : payload[k] # Empty => /\ vault'[q][k] # Empty
                                                 /\ payload[k].at <= vault'[q][k].at
  <1> DEFINE taken(k) == payload[k] # Empty /\ TakesIncoming(vault[q][k], payload[k])
  <1>1. vault' = [vault EXCEPT ![q] = [k \in Key |-> IF taken(k) THEN payload[k] ELSE vault[q][k]]]
    BY DEF Retains
  <1>2. \A d \in Daemon, k \in Key :
            vault'[d][k] = IF d = q /\ taken(k) THEN payload[k] ELSE vault[d][k]
    BY <1>1
  <1>3. vault' \in [Daemon -> [Key -> Slot]]
    BY <1>1
  <1>4. ASSUME NEW k \in Key
        PROVE  /\ taken(k) => payload[k] # Empty /\ vault[q][k].at <= payload[k].at
               /\ payload[k] # Empty /\ ~taken(k) =>
                    vault[q][k] # Empty /\ payload[k].at <= vault[q][k].at
    <2>1. /\ vault[q][k].at \in Nat /\ payload[k].at \in Nat
          /\ vault[q][k].version \in Nat /\ payload[k].version \in Nat
          /\ vault[q][k] = Empty <=> vault[q][k].at = 0
      <3>1. vault[q][k] \in Slot /\ payload[k] \in Slot
        OBVIOUS
      <3> QED BY <3>1, SlotFacts
    <2> QED BY <2>1 DEF TakesIncoming
  <1> HIDE DEF taken
  <1>5. \A d \in Daemon, k \in Key : vault[d][k].at \in Nat /\ payload[k].at \in Nat
    <2>1. \A d \in Daemon, k \in Key : vault[d][k] \in Slot /\ payload[k] \in Slot
      OBVIOUS
    <2> QED BY <2>1, SlotFacts
  <1> QED BY <1>2, <1>3, <1>4, <1>5

(***************************************************************************)
(* Types.                                                                  *)
(***************************************************************************)
LEMMA EmptyFacts ==
    /\ Empty \in Slot /\ Empty.at = 0 /\ Empty.kind = "empty"
    /\ NoCall \in Call /\ NoCall.to = NoDaemon /\ NoCall.reply = "none"
    /\ \A k \in Key : NoCall.payload[k] = Empty
  <1>1. Empty \in Slot /\ Empty.at = 0 /\ Empty.kind = "empty"
    BY DEF Slot, Empty
  <1> QED BY <1>1 DEF NoCall, Call

\* An entry that a write puts into a slot.
LEMMA EntryFacts ==
  ASSUME NEW version \in Nat, NEW now \in 1 .. MaxTime, NEW d \in Daemon
  PROVE  /\ Record(version, now, d) \in Slot /\ Record(version, now, d).at = now
         /\ Tombstone(version, now) \in Slot /\ Tombstone(version, now).at = now
         /\ Record(version, now, d).by = d /\ Tombstone(version, now).kind = "tombstone"
  BY DEF Record, Tombstone, Slot, Entry

\* A write puts an entry of the daemon's own into one slot of its vault.
LEMMA WriteFacts ==
  ASSUME TypeOK, NEW d \in Daemon, NEW k \in Key, NEW now \in 1 .. MaxTime,
         put(d, k, now) \/ remove(d, k, now)
  PROVE  \E x \in Slot : /\ Writes(d, k, x) /\ x.at = now
                         /\ x.kind = "record" => x.by = d
  <1>1. vault[d][k] \in Slot
    BY DEF TypeOK
  <1>2. vault[d][k].version \in Nat
    BY <1>1, SlotFacts
  <1>3. CASE put(d, k, now)
    <2>1. NextVersion(d, k) \in Nat
      BY <1>2 DEF NextVersion
    <2> QED BY <1>3, <2>1, EntryFacts DEF put
  <1>4. CASE remove(d, k, now)
    <2>1. Tombstone(vault[d][k].version, now).kind # "record"
      BY DEF Tombstone
    <2> QED BY <1>2, <1>4, <2>1, EntryFacts DEF remove
  <1> QED BY <1>3, <1>4

\* What a reset writes has its type.
LEMMA ResetTypes ==
  ASSUME TypeOK, NEW d \in Daemon, NEW sealed \in SUBSET LoginKey, NEW now \in 1 .. MaxTime,
         reset(d, sealed, now)
  PROVE  vault' \in [Daemon -> [Key -> Slot]] /\ lost' \in [Daemon -> [Key -> 0 .. MaxTime]]
  <1> DEFINE fresh == [k \in Key |-> IF k \in sealed THEN Record(1, now, d) ELSE Empty]
             took == [k \in Key |-> IF vault[d][k].at > lost[d][k] THEN vault[d][k].at ELSE lost[d][k]]
  <1>1. vault' = [vault EXCEPT ![d] = fresh] /\ lost' = [lost EXCEPT ![d] = took]
    BY DEF reset, seal_pending
  <1>2. Record(1, now, d) \in Slot /\ Empty \in Slot
    BY EntryFacts, EmptyFacts
  <1>3. ASSUME NEW k \in Key
        PROVE  vault[d][k].at \in 0 .. MaxTime /\ lost[d][k] \in 0 .. MaxTime
    <2>1. vault[d][k] \in Slot
      BY DEF TypeOK
    <2> QED BY <2>1, SlotFacts DEF TypeOK
  <1>4. fresh \in [Key -> Slot] /\ took \in [Key -> 0 .. MaxTime]
    BY <1>2, <1>3
  <1> HIDE DEF fresh, took
  <1> QED BY <1>1, <1>4 DEF TypeOK

\* A reset touches the vault of its daemon only.
LEMMA ResetOthers ==
  ASSUME TypeOK, NEW d \in Daemon, NEW sealed \in SUBSET LoginKey, NEW now \in 1 .. MaxTime,
         reset(d, sealed, now)
  PROVE  \A e \in Daemon : e = d \/ (vault'[e] = vault[e] /\ lost'[e] = lost[e])
  BY DEF reset, TypeOK

\* A reset leaves each of its daemon's slots empty or with the record of a login, and
\* remembers the stamp of what it took.
LEMMA ResetFacts ==
  ASSUME TypeOK, NEW d \in Daemon, NEW sealed \in SUBSET LoginKey, NEW now \in 1 .. MaxTime,
         reset(d, sealed, now), NEW k \in Key
  PROVE  /\ k \in sealed => /\ vault'[d][k] = Record(1, now, d) /\ now \in stamps'[k]
                            /\ orderly'[k] => now \notin stamps[k]
         /\ k \notin sealed => vault'[d][k] = Empty
         /\ lost[d][k] <= lost'[d][k] /\ vault[d][k].at <= lost'[d][k]
         /\ stamps[k] \subseteq stamps'[k] /\ (orderly'[k] => orderly[k])
  <1> DEFINE fresh == [l \in Key |-> IF l \in sealed THEN Record(1, now, d) ELSE Empty]
             took == [l \in Key |-> IF vault[d][l].at > lost[d][l] THEN vault[d][l].at ELSE lost[d][l]]
  <1>1. vault' = [vault EXCEPT ![d] = fresh] /\ lost' = [lost EXCEPT ![d] = took]
    BY DEF reset, seal_pending
  <1>2. vault[d][k].at \in 0 .. MaxTime /\ lost[d][k] \in 0 .. MaxTime
    <2>1. vault[d][k] \in Slot
      BY DEF TypeOK
    <2> QED BY <2>1, SlotFacts DEF TypeOK
  <1>3. lost[d][k] <= took[k] /\ vault[d][k].at <= took[k]
    BY <1>2, SyncAssumption
  <1>4. (k \in sealed => fresh[k] = Record(1, now, d)) /\ (k \notin sealed => fresh[k] = Empty)
    OBVIOUS
  <1>5. /\ stamps[k] \subseteq stamps'[k] /\ (orderly'[k] => orderly[k])
        /\ k \in sealed => now \in stamps'[k] /\ (orderly'[k] => now \notin stamps[k])
    <2>1. stamps'[k] = IF k \in sealed THEN stamps[k] \cup {now} ELSE stamps[k]
      BY DEF reset
    <2>2. orderly'[k] = (orderly[k] /\ (k \in sealed => now \notin stamps[k]))
      BY DEF reset
    <2> QED BY <2>1, <2>2
  <1> HIDE DEF fresh, took
  <1>6. vault'[d] = fresh /\ lost'[d] = took
    BY <1>1 DEF TypeOK
  <1> QED BY <1>3, <1>4, <1>5, <1>6

\* The last conjunct of TypeOK.
CallOK ==
    \A d \in Daemon :
        /\ phase[d] # "idle" => d \in room
        /\ call[d] # NoCall => phase[d] = "sending" /\ call[d].to \in Daemon
        /\ call[d].reply = "ack" =>
            call[d].accepted \cup call[d].superseded
                = {k \in Key : call[d].payload[k] # Empty}

LEMMA TypeInit == Init => TypeOK
  <1> USE SyncAssumption, EmptyFacts
  <1> QED BY DEF Init, TypeOK, SyncStatus

\* The calls a step leaves alone stay well formed.
LEMMA CallKept ==
  ASSUME TypeOK, UNCHANGED <<phase, call, room>>
  PROVE  CallOK'
  BY DEF TypeOK, CallOK

LEMMA TypeStep == TypeOK /\ [Next]_vars => TypeOK'
  <1> SUFFICES ASSUME TypeOK, [Next]_vars PROVE TypeOK'
    OBVIOUS
  <1> USE SyncAssumption
  <1>0. /\ Empty \in Slot /\ [k \in Key |-> Empty] \in [Key -> Slot]
        /\ NoCall \in Call /\ NoCall.reply = "none" /\ NoCall.to = NoDaemon
    BY EmptyFacts
  <1>s. \A x \in Slot : x.at \in 0 .. MaxTime
    BY SlotFacts
  <1>1. CASE UNCHANGED vars
    BY <1>1 DEF TypeOK, vars, stores, roomVars, engine, records
  <1>2. ASSUME NEW d \in Daemon, Join(d)
        PROVE  TypeOK'
    BY <1>2 DEF Join, TypeOK, stores, engine, records
  <1>3. ASSUME NEW d \in Daemon, Crash(d)
        PROVE  TypeOK'
    <2> USE <1>3 DEF Crash, stores
    <2>1. late' \subseteq [to: Daemon, payload: [Key -> Slot]]
      BY DEF TypeOK, Call
    <2>2. CallOK'
      BY <1>0 DEF TypeOK, CallOK
    <2>3. /\ entries' \in [Daemon -> [Key -> Slot]] /\ call' \in [Daemon -> Call]
          /\ left' \in [Daemon -> SUBSET Daemon] /\ known' \in [Daemon -> SUBSET Daemon]
      BY <1>0 DEF TypeOK
    <2>4. /\ acked' \in [Daemon -> [Daemon -> [Key -> 0 .. MaxTime]]]
          /\ journal' \in [Daemon -> [Daemon -> [Key -> SyncStatus]]]
      BY DEF TypeOK, SyncStatus
    <2>5. /\ phase' \in [Daemon -> {"idle", "read", "advertised", "sending"}]
          /\ room' \subseteq Daemon /\ advertised' \subseteq room' /\ crashes' \in 0 .. MaxCrashes
      BY DEF TypeOK
    <2>6. UNCHANGED <<secret, vault, writes, stamps, orderly, lost>>
      OBVIOUS
    <2> HIDE DEF Crash
    <2> QED BY <2>1, <2>2, <2>3, <2>4, <2>5, <2>6 DEF TypeOK, CallOK
  <1>4. ASSUME NEW d \in Daemon, run_publish_watch(d)
        PROVE  TypeOK'
    <2> USE <1>4 DEF run_publish_watch, stores, records
    <2>1. CallOK'
      BY DEF TypeOK, CallOK, engine
    <2>2. entries' \in [Daemon -> [Key -> Slot]] /\ UNCHANGED <<left, call>>
      <3>1. vault[d] \in [Key -> Slot] /\ entries \in [Daemon -> [Key -> Slot]]
        BY DEF TypeOK
      <3>2. \/ UNCHANGED engine
            \/ entries' = [entries EXCEPT ![d] = vault[d]] /\ UNCHANGED <<left, call>>
        OBVIOUS
      <3> HIDE DEF run_publish_watch
      <3> QED BY <3>1, <3>2 DEF engine
    <2>3. known' \in [Daemon -> SUBSET Daemon]
      BY DEF TypeOK, Roster
    <2>4. phase' \in [Daemon -> {"idle", "read", "advertised", "sending"}]
      BY DEF TypeOK, engine
    <2> QED BY <2>1, <2>2, <2>3, <2>4 DEF TypeOK, CallOK
  <1>5. ASSUME NEW d \in Daemon, FailsToAdvertise(d) \/ Published(d)
        PROVE  TypeOK'
    <2> USE <1>5 DEF FailsToAdvertise, Published, stores, roomVars, records
    <2>1. CallOK'
      BY DEF TypeOK, CallOK
    <2>2. entries' \in [Daemon -> [Key -> Slot]]
      <3>1. entries' = [entries EXCEPT ![d] = [k \in Key |-> Empty]]
        OBVIOUS
      <3> HIDE DEF FailsToAdvertise, Published
      <3> QED BY <1>0, <3>1 DEF TypeOK
    <2>3. phase' \in [Daemon -> {"idle", "read", "advertised", "sending"}]
      BY DEF TypeOK
    <2>4. UNCHANGED <<stores, roomVars, left, call, late, records>>
      OBVIOUS
    <2> HIDE DEF FailsToAdvertise, Published
    <2> QED BY <2>1, <2>2, <2>3, <2>4 DEF TypeOK, CallOK
  <1>6. ASSUME NEW d \in Daemon, Advertises(d) \/ ListsPeers(d)
        PROVE  TypeOK'
    <2> USE <1>6 DEF Advertises, ListsPeers, stores, roomVars, records
    <2>1. CallOK'
      BY DEF TypeOK, CallOK
    <2>2. phase' \in [Daemon -> {"idle", "read", "advertised", "sending"}]
      BY DEF TypeOK
    <2>3. left' \in [Daemon -> SUBSET Daemon]
      <3>1. left' = left \/ left' = [left EXCEPT ![d] = advertised \ {d}]
        OBVIOUS
      <3>2. left \in [Daemon -> SUBSET Daemon] /\ advertised \ {d} \in SUBSET Daemon
        BY DEF TypeOK
      <3> HIDE DEF Advertises, ListsPeers
      <3> QED BY <3>1, <3>2
    <2>4. advertised' \subseteq room' /\ room' = room
      BY DEF TypeOK
    <2>5. UNCHANGED <<stores, secret, known, crashes, entries, call, late, records>>
      OBVIOUS
    <2> HIDE DEF Advertises, ListsPeers
    <2> QED BY <2>1, <2>2, <2>3, <2>4, <2>5 DEF TypeOK, CallOK
  <1>7. ASSUME NEW d \in Daemon, Acknowledged(d)
        PROVE  TypeOK'
    <2> USE <1>7 DEF Acknowledged, stores, roomVars
    <2>1. CallOK' /\ call' \in [Daemon -> Call]
      BY <1>0 DEF TypeOK, CallOK
    <2>2. call[d].to \in Daemon /\ call[d].payload \in [Key -> Slot]
      BY <1>0 DEF TypeOK, Call
    <2>3. acked' \in [Daemon -> [Daemon -> [Key -> 0 .. MaxTime]]]
      BY <1>s, <2>2 DEF TypeOK
    <2>4. journal' \in [Daemon -> [Daemon -> [Key -> SyncStatus]]]
      BY <2>2 DEF TypeOK, SyncStatus
    <2> QED BY <2>1, <2>3, <2>4 DEF TypeOK, CallOK
  <1>8. ASSUME NEW d \in Daemon, Undeliverable(d)
        PROVE  TypeOK'
    <2> USE <1>8 DEF Undeliverable, stores, roomVars
    <2>1. CallOK' /\ call' \in [Daemon -> Call]
      BY <1>0 DEF TypeOK, CallOK
    <2>2. call[d].to \in Daemon /\ call[d].payload \in [Key -> Slot]
      BY DEF TypeOK, Call
    <2>3. late' \subseteq [to: Daemon, payload: [Key -> Slot]]
      BY <2>2 DEF TypeOK
    <2>4. journal' \in [Daemon -> [Daemon -> [Key -> SyncStatus]]]
      BY <2>2 DEF TypeOK, SyncStatus, Note
    <2> QED BY <2>1, <2>3, <2>4 DEF TypeOK, CallOK
  <1>9. ASSUME NEW d \in Daemon, NEW q \in Daemon, Refuses(d, q) \/ NothingToSend(d, q)
        PROVE  TypeOK'
    <2> USE <1>9 DEF Refuses, NothingToSend, Passes, stores, roomVars
    <2>1. CallOK'
      BY DEF TypeOK, CallOK
    <2>2. journal' \in [Daemon -> [Daemon -> [Key -> SyncStatus]]]
      <3>1. CASE Refuses(d, q)
        BY <3>1 DEF TypeOK, SyncStatus, Note
      <3>2. CASE NothingToSend(d, q)
        BY <3>2 DEF TypeOK
      <3> QED BY <1>9, <3>1, <3>2
    <2>3. left' \in [Daemon -> SUBSET Daemon]
      <3>1. left' = [left EXCEPT ![d] = @ \ {q}]
        OBVIOUS
      <3> HIDE DEF Refuses, NothingToSend
      <3> QED BY <3>1 DEF TypeOK
    <2>4. UNCHANGED <<stores, roomVars, phase, entries, call, late, acked>>
      OBVIOUS
    <2> HIDE DEF Refuses, NothingToSend
    <2> QED BY <2>1, <2>2, <2>3, <2>4 DEF TypeOK, CallOK
  <1>10. ASSUME NEW d \in Daemon, NEW q \in Daemon, Sends(d, q)
         PROVE  TypeOK'
    <2> USE <1>10 DEF Sends, Passes, stores, roomVars
    <2>1. CallOK'
      BY <1>0 DEF TypeOK, CallOK, NoCall
    <2>2. call' \in [Daemon -> Call]
      <3> DEFINE sent == [k \in Key |-> IF k \in ToSend(d, q) THEN entries[d][k] ELSE Empty]
      <3>1. sent \in [Key -> Slot]
        BY <1>0 DEF TypeOK
      <3> HIDE DEF sent
      <3>2. [NoCall EXCEPT !.to = q, !.payload = sent] \in Call
        BY <3>1 DEF NoCall, Call
      <3> QED BY <3>2 DEF TypeOK, sent
    <2>3. journal' \in [Daemon -> [Daemon -> [Key -> SyncStatus]]]
      BY DEF TypeOK, SyncStatus, Note
    <2> QED BY <2>1, <2>2, <2>3 DEF TypeOK, CallOK
  <1>11. ASSUME NEW d \in Daemon, receive(d)
         PROVE  TypeOK'
    <2> USE <1>11 DEF receive, roomVars, records
    <2>1. call[d].to \in Daemon /\ call[d].payload \in [Key -> Slot]
      BY DEF TypeOK, Call
    <2>2. vault' \in [Daemon -> [Key -> Slot]]
      BY <2>1, RetainsFacts DEF TypeOK
    <2> DEFINE taken == {k \in Sent(d) : TakesIncoming(vault[call[d].to][k], call[d].payload[k])}
    <2>3. call' = [call EXCEPT ![d].reply = "ack", ![d].accepted = taken,
                               ![d].superseded = Sent(d) \ taken]
      OBVIOUS
    <2>4. taken \subseteq Sent(d) /\ Sent(d) \subseteq Key
      BY DEF Sent
    <2>5. UNCHANGED <<writes, stamps, orderly, lost, roomVars, phase, entries, left, late, records>>
      OBVIOUS
    <2>6. call[d] # NoCall
      OBVIOUS
    <2> HIDE DEF receive, taken
    <2>7. call' \in [Daemon -> Call]
      <3> DEFINE c == [call[d] EXCEPT !.reply = "ack", !.accepted = taken,
                                      !.superseded = Sent(d) \ taken]
      <3>1. call' = [call EXCEPT ![d] = c]
        BY <2>3 DEF TypeOK
      <3>2. c \in Call
        <4>1. call[d] \in Call
          BY DEF TypeOK
        <4> QED BY <2>4, <4>1 DEF Call
      <3> HIDE DEF c
      <3> QED BY <3>1, <3>2 DEF TypeOK
    <2>8. CallOK'
      <3> SUFFICES ASSUME NEW e \in Daemon
                   PROVE  /\ phase'[e] # "idle" => e \in room'
                          /\ call'[e] # NoCall => phase'[e] = "sending" /\ call'[e].to \in Daemon
                          /\ call'[e].reply = "ack" => call'[e].accepted \cup call'[e].superseded
                                = {k \in Key : call'[e].payload[k] # Empty}
        BY DEF CallOK
      <3>1. CASE e = d
        <4>1. /\ call'[d].to = call[d].to /\ call'[d].payload = call[d].payload
              /\ call'[d].accepted = taken /\ call'[d].superseded = Sent(d) \ taken
          BY <2>3 DEF TypeOK, Call
        <4> QED BY <2>4, <2>5, <2>6, <3>1, <4>1 DEF TypeOK, Sent
      <3>2. CASE e # d
        BY <2>3, <2>5, <3>2 DEF TypeOK
      <3> QED BY <3>1, <3>2
    <2> QED BY <2>2, <2>5, <2>7, <2>8 DEF TypeOK, CallOK
  <1>12. ASSUME NEW m \in late, ReceivesLate(m)
         PROVE  TypeOK'
    <2> USE <1>12 DEF ReceivesLate, roomVars, engine, records
    <2>1. vault' \in [Daemon -> [Key -> Slot]]
      BY RetainsFacts DEF TypeOK
    <2> QED BY <2>1, CallKept DEF TypeOK, CallOK
  <1>13. ASSUME NEW d \in Daemon, NEW k \in Key, NEW now \in 1 .. MaxTime,
                put(d, k, now) \/ remove(d, k, now)
         PROVE  TypeOK'
    <2>1. PICK x \in Slot : Writes(d, k, x) /\ x.at = now
      BY <1>13, WriteFacts
    <2> USE <2>1 DEF Writes, roomVars, engine, records
    <2>2. vault' \in [Daemon -> [Key -> Slot]] /\ writes' \in 0 .. MaxWrites
      BY DEF TypeOK
    <2>3. stamps' \in [Key -> SUBSET (1 .. MaxTime)]
      BY DEF TypeOK
    <2>4. orderly' \in [Key -> BOOLEAN]
      BY DEF TypeOK
    <2> QED BY <2>2, <2>3, <2>4, CallKept DEF TypeOK, CallOK
  <1>14. ASSUME NEW d \in Daemon, NEW sealed \in SUBSET LoginKey, NEW now \in 1 .. MaxTime,
                reset(d, sealed, now)
         PROVE  TypeOK'
    <2>1. vault' \in [Daemon -> [Key -> Slot]] /\ lost' \in [Daemon -> [Key -> 0 .. MaxTime]]
      BY <1>14, ResetTypes
    <2>2. /\ stamps' \in [Key -> SUBSET (1 .. MaxTime)] /\ orderly' \in [Key -> BOOLEAN]
          /\ writes' \in 0 .. MaxWrites
      BY <1>14 DEF reset, TypeOK
    <2>3. UNCHANGED <<roomVars, engine, late, records>>
      BY <1>14 DEF reset
    <2> QED BY <2>1, <2>2, <2>3, CallKept DEF TypeOK, CallOK, roomVars, engine, records
  <1> QED
    BY <1>1, <1>2, <1>3, <1>4, <1>5, <1>6, <1>7, <1>8, <1>9, <1>10, <1>11, <1>12, <1>13, <1>14
    DEF Next, PublishStep

\* Every variable of the sync keeps the shape the code gives it; a daemon that is
\* away does not publish, and an answer is about exactly what was sent.
THEOREM TypeCorrect == Spec => []TypeOK
  BY TypeInit, TypeStep, PTL DEF Spec

(***************************************************************************)
(* What a step may do to each part of the state.                           *)
(***************************************************************************)

\* The write of x into slot k of d's vault, on its own or as the login's record
\* that a reset seals.
OwnWrite(d, k, x) ==
    /\ x \in Slot /\ x.at \in 1 .. MaxTime
    /\ x.kind = "record" => x.by = d
    /\ vault'[d][k] = x /\ \A e \in Daemon : e # d => vault'[e][k] = vault[e][k]
    /\ x.at \in stamps'[k] /\ (orderly'[k] => x.at \notin stamps[k])
    /\ UNCHANGED <<entries, call, late>>

\* No secret is configured anew while daemons run.
LEMMA SecretKept ==
  ASSUME [Next]_vars
  PROVE  secret' = secret
  <1>1. ASSUME NEW d \in Daemon, Join(d) \/ Crash(d) \/ run_publish_watch(d) \/ receive(d)
        PROVE  secret' = secret
    BY <1>1 DEF Join, Crash, run_publish_watch, receive, roomVars
  <1>2. ASSUME NEW d \in Daemon, PublishStep(d)
        PROVE  secret' = secret
    BY <1>2 DEF PublishStep, FailsToAdvertise, Advertises, ListsPeers, Published,
         Acknowledged, Undeliverable, Refuses, NothingToSend, Sends, Passes, roomVars
  <1>3. ASSUME NEW m \in late, ReceivesLate(m)
        PROVE  secret' = secret
    BY <1>3 DEF ReceivesLate, roomVars
  <1>4. ASSUME NEW d \in Daemon, NEW k \in Key, NEW now \in 1 .. MaxTime,
               put(d, k, now) \/ remove(d, k, now)
        PROVE  secret' = secret
    BY <1>4 DEF put, remove, Writes, roomVars
  <1>5. CASE UNCHANGED vars
    BY <1>5 DEF vars, roomVars
  <1>6. ASSUME NEW d \in Daemon, NEW sealed \in SUBSET LoginKey, NEW now \in 1 .. MaxTime,
               reset(d, sealed, now)
        PROVE  secret' = secret
    BY <1>6 DEF reset, roomVars
  <1> QED BY <1>1, <1>2, <1>3, <1>4, <1>5, <1>6 DEF Next

\* A slot keeps its entry, loses it, is written by its daemon, or takes what a sender
\* whose call waits, or has given up, sent it.
LEMMA VaultStep ==
  ASSUME TypeOK, [Next]_vars, NEW d \in Daemon, NEW k \in Key
  PROVE  \/ vault'[d][k] \in {vault[d][k], Empty}
         \/ OwnWrite(d, k, vault'[d][k])
         \/ \E e \in Daemon : /\ call[e] # NoCall /\ call[e].to = d
                              /\ vault'[d][k] = call[e].payload[k]
         \/ \E m \in late : m.to = d /\ vault'[d][k] = m.payload[k]
  <1>0. vault \in [Daemon -> [Key -> Slot]]
    BY DEF TypeOK
  <1>1. CASE UNCHANGED vault
    BY <1>1
  <1>2. ASSUME NEW e \in Daemon, receive(e)
        PROVE  vault'[d][k] # vault[d][k] => /\ call[e] # NoCall /\ call[e].to = d
                                             /\ vault'[d][k] = call[e].payload[k]
    <2>1. call[e] # NoCall /\ Retains(call[e].to, call[e].payload)
      BY <1>2 DEF receive
    <2>2. call[e].to \in Daemon /\ call[e].payload \in [Key -> Slot]
      BY <2>1 DEF TypeOK, Call
    <2>3. \/ vault'[d][k] = vault[d][k]
          \/ d = call[e].to /\ vault'[d][k] = call[e].payload[k]
      <3> DEFINE q == call[e].to
                 payload == call[e].payload
      <3>1. q \in Daemon /\ payload \in [Key -> Slot] /\ Retains(q, payload)
        BY <2>1, <2>2
      <3> HIDE DEF q, payload
      <3>2. vault'[d][k] = vault[d][k] \/ (d = q /\ vault'[d][k] = payload[k])
        BY <1>0, <3>1, RetainsFacts
      <3> QED BY <3>2 DEF q, payload
    <2> QED BY <2>1, <2>3
  <1>3. ASSUME NEW m \in late, ReceivesLate(m)
        PROVE  vault'[d][k] # vault[d][k] => m.to = d /\ vault'[d][k] = m.payload[k]
    <2>1. Retains(m.to, m.payload)
      BY <1>3 DEF ReceivesLate
    <2>2. m.to \in Daemon /\ m.payload \in [Key -> Slot]
      BY DEF TypeOK
    <2>3. \/ vault'[d][k] = vault[d][k]
          \/ d = m.to /\ vault'[d][k] = m.payload[k]
      BY <1>0, <2>1, <2>2, RetainsFacts
    <2> QED BY <2>1, <2>3
  <1>4. ASSUME NEW e \in Daemon, NEW l \in Key, NEW now \in 1 .. MaxTime,
               put(e, l, now) \/ remove(e, l, now)
        PROVE  vault'[d][k] # vault[d][k] => OwnWrite(d, k, vault'[d][k])
    <2>1. PICK x \in Slot : Writes(e, l, x) /\ x.at = now /\ (x.kind = "record" => x.by = e)
      BY <1>4, WriteFacts
    <2>2. /\ vault' = [vault EXCEPT ![e][l] = x] /\ UNCHANGED <<entries, call, late>>
          /\ stamps' = [stamps EXCEPT ![l] = @ \cup {x.at}]
          /\ orderly' = [orderly EXCEPT ![l] = @ /\ x.at \notin stamps[l]
                                                 /\ x.at > vault[e][l].at]
      BY <2>1 DEF Writes, engine
    <2>3. vault'[d][k] # vault[d][k] => d = e /\ k = l
      BY <2>2 DEF TypeOK
    <2>4. vault'[e][l] = x /\ \A q \in Daemon : q # e => vault'[q][l] = vault[q][l]
      BY <2>2 DEF TypeOK
    <2>5. x.at \in stamps'[l] /\ (orderly'[l] => x.at \notin stamps[l])
      BY <2>2 DEF TypeOK
    <2> QED BY <2>1, <2>2, <2>3, <2>4, <2>5 DEF OwnWrite
  <1>5. ASSUME NEW e \in Daemon,
               Join(e) \/ Crash(e) \/ run_publish_watch(e) \/ PublishStep(e)
        PROVE  UNCHANGED vault
    BY <1>5 DEF Join, Crash, run_publish_watch, PublishStep, FailsToAdvertise, Advertises,
         ListsPeers, Published, Acknowledged, Undeliverable, Refuses, NothingToSend, Sends,
         Passes, stores
  <1>6. CASE UNCHANGED vars
    BY <1>1, <1>6 DEF vars, stores
  <1>7. ASSUME NEW e \in Daemon, NEW sealed \in SUBSET LoginKey, NEW now \in 1 .. MaxTime,
               reset(e, sealed, now)
        PROVE  vault'[d][k] \in {vault[d][k], Empty} \/ OwnWrite(d, k, vault'[d][k])
    <2>1. CASE d = e /\ k \in sealed
      <3>1. /\ vault'[d][k] = Record(1, now, d)
            /\ \A q \in Daemon : q # d => vault'[q][k] = vault[q][k]
            /\ now \in stamps'[k] /\ (orderly'[k] => now \notin stamps[k])
        <4>1. \A q \in Daemon : q # d => vault'[q][k] = vault[q][k]
          BY <1>7, <2>1, ResetOthers
        <4> QED BY <1>7, <2>1, <4>1, ResetFacts
      <3>2. UNCHANGED <<entries, call, late>>
        BY <1>7 DEF reset, engine
      <3> QED BY <3>1, <3>2, EntryFacts DEF OwnWrite
    <2>2. CASE d = e /\ k \notin sealed
      BY <1>7, <2>2, ResetFacts
    <2>3. CASE d # e
      BY <1>7, <2>3, ResetOthers
    <2> QED BY <2>1, <2>2, <2>3
  <1> QED BY <1>1, <1>2, <1>3, <1>4, <1>5, <1>6, <1>7 DEF Next

\* A publish reads its daemon's vault, or is over.
LEMMA EntriesStep ==
  ASSUME TypeOK, [Next]_vars, NEW d \in Daemon, NEW k \in Key
  PROVE  entries'[d][k] \in {entries[d][k], vault[d][k], Empty}
  <1>1. ASSUME NEW e \in Daemon,
               entries' = [entries EXCEPT ![e] = vault[e]] \/
               entries' = [entries EXCEPT ![e] = [l \in Key |-> Empty]]
        PROVE  entries'[d][k] \in {entries[d][k], vault[d][k], Empty}
    <2>1. entries \in [Daemon -> [Key -> Slot]]
      BY DEF TypeOK
    <2>2. CASE d = e
      BY <1>1, <2>1, <2>2
    <2>3. CASE d # e
      BY <1>1, <2>1, <2>3
    <2> QED BY <2>2, <2>3
  <1>2. ASSUME NEW e \in Daemon,
               Join(e) \/ Crash(e) \/ run_publish_watch(e) \/ PublishStep(e)
        PROVE  \/ UNCHANGED entries
               \/ entries' = [entries EXCEPT ![e] = vault[e]]
               \/ entries' = [entries EXCEPT ![e] = [l \in Key |-> Empty]]
    BY <1>2 DEF Join, Crash, run_publish_watch, PublishStep, FailsToAdvertise, Advertises,
         ListsPeers, Published, Acknowledged, Undeliverable, Refuses, NothingToSend, Sends,
         Passes, engine
  <1>3. ASSUME NEW e \in Daemon, receive(e)
        PROVE  UNCHANGED entries
    BY <1>3 DEF receive
  <1>4. ASSUME NEW m \in late, ReceivesLate(m)
        PROVE  UNCHANGED entries
    BY <1>4 DEF ReceivesLate, engine
  <1>5. ASSUME NEW e \in Daemon, NEW l \in Key, NEW now \in 1 .. MaxTime,
               put(e, l, now) \/ remove(e, l, now)
        PROVE  UNCHANGED entries
    BY <1>5 DEF put, remove, Writes, engine
  <1>6. CASE UNCHANGED vars
    BY <1>6 DEF vars, engine
  <1>7. ASSUME NEW e \in Daemon, NEW sealed \in SUBSET LoginKey, NEW now \in 1 .. MaxTime,
               reset(e, sealed, now)
        PROVE  UNCHANGED entries
    BY <1>7 DEF reset, engine
  <1> QED BY <1>1, <1>2, <1>3, <1>4, <1>5, <1>6, <1>7 DEF Next

\* What is on its way without a sender was sent by a call.
LEMMA LateStep ==
  ASSUME TypeOK, [Next]_vars, NEW m \in late'
  PROVE  \/ m \in late
         \/ \E d \in Daemon : /\ call[d] # NoCall /\ m.to = call[d].to
                              /\ m.payload = call[d].payload
  <1>1. ASSUME NEW d \in Daemon, Crash(d) \/ Undeliverable(d)
        PROVE  \/ m \in late
               \/ /\ call[d] # NoCall /\ m.to = call[d].to /\ m.payload = call[d].payload
    BY <1>1 DEF Crash, Undeliverable
  <1>2. ASSUME NEW d \in Daemon, Join(d) \/ run_publish_watch(d) \/ receive(d)
        PROVE  late' = late
    BY <1>2 DEF Join, run_publish_watch, receive
  <1>3. ASSUME NEW d \in Daemon, PublishStep(d), ~Undeliverable(d)
        PROVE  late' = late
    BY <1>3 DEF PublishStep, FailsToAdvertise, Advertises, ListsPeers, Published, Acknowledged,
         Refuses, NothingToSend, Sends, Passes
  <1>4. ASSUME NEW n \in late, ReceivesLate(n)
        PROVE  m \in late
    BY <1>4 DEF ReceivesLate
  <1>5. ASSUME NEW e \in Daemon, NEW l \in Key, NEW now \in 1 .. MaxTime,
               put(e, l, now) \/ remove(e, l, now)
        PROVE  late' = late
    BY <1>5 DEF put, remove, Writes
  <1>6. CASE UNCHANGED vars
    BY <1>6 DEF vars
  <1>7. ASSUME NEW e \in Daemon, NEW sealed \in SUBSET LoginKey, NEW now \in 1 .. MaxTime,
               reset(e, sealed, now)
        PROVE  late' = late
    BY <1>7 DEF reset
  <1> QED BY <1>1, <1>2, <1>3, <1>4, <1>5, <1>6, <1>7 DEF Next

\* A call stays, ends, is placed with what a publish has read for a peer of the
\* group, or is answered once the peer holds what it carries or something later.
LEMMA CallStep ==
  ASSUME TypeOK, [Next]_vars, NEW d \in Daemon
  PROVE  \/ call'[d] = call[d]
         \/ call'[d] = NoCall
         \/ /\ \E q \in Daemon : admits(d, q) /\ call'[d].to = q
            /\ call'[d].reply = "none"
            /\ \A k \in Key : call'[d].payload[k] \in {entries[d][k], Empty}
         \/ /\ call[d] # NoCall /\ call[d].to \in Daemon
            /\ call'[d].to = call[d].to /\ call'[d].payload = call[d].payload
            /\ \A k \in Key : call[d].payload[k] # Empty =>
                /\ vault'[call[d].to][k] # Empty
                /\ call[d].payload[k].at <= vault'[call[d].to][k].at
  <1> DEFINE Goal == \/ call'[d] = call[d]
         \/ call'[d] = NoCall
         \/ /\ \E q \in Daemon : admits(d, q) /\ call'[d].to = q
            /\ call'[d].reply = "none"
            /\ \A k \in Key : call'[d].payload[k] \in {entries[d][k], Empty}
         \/ /\ call[d] # NoCall /\ call[d].to \in Daemon
            /\ call'[d].to = call[d].to /\ call'[d].payload = call[d].payload
            /\ \A k \in Key : call[d].payload[k] # Empty =>
                /\ vault'[call[d].to][k] # Empty
                /\ call[d].payload[k].at <= vault'[call[d].to][k].at
  <1> SUFFICES Goal
    OBVIOUS
  <1>0. call \in [Daemon -> Call] /\ vault \in [Daemon -> [Key -> Slot]]
    BY DEF TypeOK
  <1>1. ASSUME NEW e \in Daemon, Crash(e) \/ Acknowledged(e) \/ Undeliverable(e)
        PROVE  Goal
    <2>1. call' = [call EXCEPT ![e] = NoCall]
      BY <1>1 DEF Crash, Acknowledged, Undeliverable
    <2> QED BY <1>0, <2>1
  <1>2. ASSUME NEW e \in Daemon, NEW q \in Daemon, Sends(e, q)
        PROVE  Goal
    <2> DEFINE sent == [k \in Key |-> IF k \in ToSend(e, q) THEN entries[e][k] ELSE Empty]
    <2>1. call' = [call EXCEPT ![e] = [NoCall EXCEPT !.to = q, !.payload = sent]]
      BY <1>2 DEF Sends
    <2>2. admits(e, q) /\ \A k \in Key : sent[k] \in {entries[e][k], Empty}
      BY <1>2 DEF Sends
    <2> HIDE DEF sent
    <2>3. CASE d # e
      BY <1>0, <2>1, <2>3
    <2>4. CASE d = e
      <3>1. call'[d] = [NoCall EXCEPT !.to = q, !.payload = sent]
        BY <1>0, <2>1, <2>4
      <3>2. call'[d].to = q /\ call'[d].payload = sent /\ call'[d].reply = "none"
        BY <3>1 DEF NoCall
      <3> QED BY <2>2, <2>4, <3>2
    <2> QED BY <2>3, <2>4
  <1>3. ASSUME NEW e \in Daemon, receive(e)
        PROVE  Goal
    <2>1. /\ call[e] # NoCall /\ Retains(call[e].to, call[e].payload)
          /\ \E a, s : call' = [call EXCEPT ![e].reply = "ack", ![e].accepted = a,
                                            ![e].superseded = s]
      BY <1>3 DEF receive
    <2>2. call[e].to \in Daemon /\ call[e].payload \in [Key -> Slot]
      BY <1>0, <2>1 DEF TypeOK, Call
    <2>3. CASE d # e
      BY <1>0, <2>1, <2>3
    <2>4. CASE d = e
      <3> DEFINE q == call[e].to
                 payload == call[e].payload
      <3>1. q \in Daemon /\ payload \in [Key -> Slot] /\ Retains(q, payload)
        BY <2>1, <2>2
      <3>2. call'[e].to = q /\ call'[e].payload = payload
        BY <1>0, <2>1 DEF Call
      <3> HIDE DEF q, payload
      <3>3. \A k \in Key : payload[k] # Empty => /\ vault'[q][k] # Empty
                                                 /\ payload[k].at <= vault'[q][k].at
        BY <1>0, <3>1, RetainsFacts
      <3> QED BY <2>1, <2>2, <2>4, <3>2, <3>3 DEF q, payload
    <2> QED BY <2>3, <2>4
  <1>4. ASSUME NEW e \in Daemon,
               \/ Join(e) \/ run_publish_watch(e) \/ FailsToAdvertise(e) \/ Advertises(e)
               \/ ListsPeers(e) \/ Published(e)
               \/ \E q \in Daemon : Refuses(e, q) \/ NothingToSend(e, q)
        PROVE  call' = call
    BY <1>4 DEF Join, run_publish_watch, FailsToAdvertise, Advertises, ListsPeers, Published,
         Refuses, NothingToSend, engine
  <1>5. ASSUME NEW m \in late, ReceivesLate(m)
        PROVE  call' = call
    BY <1>5 DEF ReceivesLate, engine
  <1>6. ASSUME NEW e \in Daemon, NEW l \in Key, NEW now \in 1 .. MaxTime,
               put(e, l, now) \/ remove(e, l, now)
        PROVE  call' = call
    BY <1>6 DEF put, remove, Writes, engine
  <1>7. ASSUME UNCHANGED vars
        PROVE  call' = call
    BY <1>7 DEF vars, engine
  <1>8. ASSUME call' = call
        PROVE  Goal
    BY <1>8
  <1>9. ASSUME NEW e \in Daemon, NEW sealed \in SUBSET LoginKey, NEW now \in 1 .. MaxTime,
               reset(e, sealed, now)
        PROVE  call' = call
    BY <1>9 DEF reset, engine
  <1> HIDE DEF Goal
  <1> QED
    BY <1>1, <1>2, <1>3, <1>4, <1>5, <1>6, <1>7, <1>8, <1>9 DEF Next, PublishStep

(***************************************************************************)
(* Credentials stay in the group.                                          *)
(***************************************************************************)
LEMMA GroupInit == Init => GroupInv
  BY EmptyFacts DEF Init, GroupInv, MayHold

LEMMA GroupStep == TypeOK /\ GroupInv /\ [Next]_vars => GroupInv'
  <1> SUFFICES ASSUME TypeOK, GroupInv, [Next]_vars PROVE GroupInv'
    OBVIOUS
  <1>1. secret' = secret
    BY SecretKept
  <1>3. ASSUME NEW d \in Daemon, NEW k \in Key
        PROVE  MayHold(d, vault'[d][k])
    <2>1. CASE OwnWrite(d, k, vault'[d][k])
      BY <2>1 DEF OwnWrite, MayHold
    <2>2. MayHold(d, Empty)
      BY DEF MayHold, Empty
    <2> QED BY <2>1, <2>2, VaultStep DEF GroupInv
  <1>4. ASSUME NEW d \in Daemon, NEW k \in Key
        PROVE  MayHold(d, entries'[d][k])
    <2>1. MayHold(d, Empty)
      BY DEF MayHold, Empty
    <2> QED BY <2>1, EntriesStep DEF GroupInv
  <1>5. ASSUME NEW d \in Daemon, NEW k \in Key, call'[d] # NoCall
        PROVE  MayHold(call'[d].to, call'[d].payload[k])
    <2>1. CASE call'[d] = call[d]
      BY <1>5, <2>1 DEF GroupInv
    <2>2. ASSUME NEW q \in Daemon, admits(d, q), call'[d].to = q,
                 call'[d].payload[k] \in {entries[d][k], Empty}
          PROVE  MayHold(call'[d].to, call'[d].payload[k])
      <3>1. MayHold(d, entries[d][k])
        BY DEF GroupInv
      <3> QED BY <2>2, <3>1, EmptyFacts DEF MayHold, admits
    <2>3. ASSUME call[d] # NoCall, call'[d].to = call[d].to, call'[d].payload = call[d].payload
          PROVE  MayHold(call'[d].to, call'[d].payload[k])
      BY <2>3 DEF GroupInv
    <2> QED BY <1>5, <2>1, <2>2, <2>3, CallStep
  <1>6. ASSUME NEW m \in late', NEW k \in Key
        PROVE  MayHold(m.to, m.payload[k])
    BY <1>6, LateStep DEF GroupInv
  <1> QED BY <1>1, <1>3, <1>4, <1>5, <1>6 DEF GroupInv, MayHold

\* A credential is held only by the daemon it was written on and, through calls to
\* admitted peers, in that daemon's group, however the calls fail or arrive late.
THEOREM CredentialsStayInTheGroup == Spec => []StaysInTheGroup
  <1>1. GroupInv => StaysInTheGroup
    BY DEF GroupInv, StaysInTheGroup, MayHold
  <1> QED BY <1>1, TypeInit, TypeStep, GroupInit, GroupStep, PTL DEF Spec

(***************************************************************************)
(* What was acknowledged is held.                                          *)
(***************************************************************************)

\* What a slot held it holds, or, with orderly stamps, something later, or a reset
\* took it.
LEMMA VaultGrows ==
  ASSUME TypeOK, [Next]_vars, NEW d \in Daemon, NEW k \in Key
  PROVE  /\ orderly'[k] => /\ orderly[k]
                           /\ \/ vault[d][k].at <= vault'[d][k].at
                              \/ vault[d][k].at <= lost'[d][k]
         /\ lost[d][k] <= lost'[d][k]
         /\ vault[d][k] # Empty => vault'[d][k] # Empty \/ lost'[d][k] # 0
  <1> DEFINE Grows == /\ orderly'[k] => /\ orderly[k]
                                        /\ \/ vault[d][k].at <= vault'[d][k].at
                                           \/ vault[d][k].at <= lost'[d][k]
                      /\ lost[d][k] <= lost'[d][k]
                      /\ vault[d][k] # Empty => vault'[d][k] # Empty \/ lost'[d][k] # 0
  <1> SUFFICES Grows
    OBVIOUS
  <1>0. /\ vault \in [Daemon -> [Key -> Slot]] /\ orderly \in [Key -> BOOLEAN]
        /\ lost[d][k] \in Nat /\ lost[d][k] <= lost[d][k]
    BY DEF TypeOK
  <1>1. vault[d][k].at \in Nat /\ (vault[d][k] = Empty <=> vault[d][k].at = 0)
    BY <1>0, SlotFacts
  <1>2. ASSUME UNCHANGED <<vault, orderly, lost>>
        PROVE  Grows
    BY <1>0, <1>1, <1>2
  <1>3. ASSUME NEW q \in Daemon, NEW payload \in [Key -> Slot], Retains(q, payload),
               UNCHANGED <<orderly, lost>>
        PROVE  Grows
    <2>1. /\ vault[d][k] # Empty => vault'[d][k] # Empty
          /\ vault[d][k].at <= vault'[d][k].at
      BY <1>0, <1>3, RetainsFacts
    <2> QED BY <1>0, <1>3, <2>1
  <1>4. ASSUME NEW e \in Daemon, receive(e)
        PROVE  Grows
    <2>1. call[e] # NoCall /\ Retains(call[e].to, call[e].payload) /\ UNCHANGED <<orderly, lost>>
      BY <1>4 DEF receive
    <2>2. call[e].to \in Daemon /\ call[e].payload \in [Key -> Slot]
      BY <2>1 DEF TypeOK, Call
    <2> HIDE DEF Grows
    <2> QED BY <1>3, <2>1, <2>2
  <1>5. ASSUME NEW m \in late, ReceivesLate(m)
        PROVE  Grows
    <2>1. Retains(m.to, m.payload) /\ UNCHANGED <<orderly, lost>>
      BY <1>5 DEF ReceivesLate
    <2>2. m.to \in Daemon /\ m.payload \in [Key -> Slot]
      BY DEF TypeOK
    <2> HIDE DEF Grows
    <2> QED BY <1>3, <2>1, <2>2
  <1>6. ASSUME NEW e \in Daemon, NEW l \in Key, NEW now \in 1 .. MaxTime,
               put(e, l, now) \/ remove(e, l, now)
        PROVE  Grows
    <2>1. PICK x \in Slot : Writes(e, l, x) /\ x.at = now
      BY <1>6, WriteFacts
    <2>2. /\ vault' = [vault EXCEPT ![e][l] = x] /\ UNCHANGED lost
          /\ orderly' = [orderly EXCEPT ![l] = @ /\ x.at \notin stamps[l]
                                                 /\ x.at > vault[e][l].at]
      BY <2>1 DEF Writes
    <2>3. x # Empty /\ x.at \in Nat
      BY <2>1, EmptyFacts, SlotFacts
    <2>4. CASE d = e /\ k = l
      <3>1. vault'[d][k] = x /\ (orderly'[k] => orderly[k] /\ x.at > vault[d][k].at)
        BY <1>0, <2>2, <2>4
      <3> QED BY <1>0, <1>1, <2>2, <2>3, <3>1
    <2>5. CASE ~(d = e /\ k = l)
      <3>1. vault'[d][k] = vault[d][k] /\ (orderly'[k] => orderly[k])
        BY <1>0, <2>2, <2>5
      <3> QED BY <1>0, <1>1, <2>2, <3>1
    <2> QED BY <2>4, <2>5
  <1>7. ASSUME NEW e \in Daemon,
               Join(e) \/ Crash(e) \/ run_publish_watch(e) \/ PublishStep(e)
        PROVE  UNCHANGED <<vault, orderly, lost>>
    BY <1>7 DEF Join, Crash, run_publish_watch, PublishStep, FailsToAdvertise, Advertises,
         ListsPeers, Published, Acknowledged, Undeliverable, Refuses, NothingToSend, Sends,
         Passes, stores
  <1>8. ASSUME UNCHANGED vars
        PROVE  UNCHANGED <<vault, orderly, lost>>
    BY <1>8 DEF vars, stores
  <1>9. ASSUME NEW e \in Daemon, NEW sealed \in SUBSET LoginKey, NEW now \in 1 .. MaxTime,
               reset(e, sealed, now)
        PROVE  Grows
    <2>1. orderly'[k] => orderly[k]
      BY <1>9, ResetFacts
    <2>2. CASE d = e
      <3>1. lost[d][k] <= lost'[d][k] /\ vault[d][k].at <= lost'[d][k]
        BY <1>9, <2>2, ResetFacts
      <3>2. vault[d][k] # Empty => lost'[d][k] # 0
        BY <1>1, <3>1
      <3> QED BY <2>1, <3>1, <3>2
    <2>3. CASE d # e
      <3>1. vault'[d][k] = vault[d][k] /\ lost'[d][k] = lost[d][k]
        BY <1>9, <2>3, ResetOthers
      <3> QED BY <1>0, <1>1, <2>1, <3>1
    <2> QED BY <2>2, <2>3
  <1> HIDE DEF Grows
  <1> QED BY <1>2, <1>4, <1>5, <1>6, <1>7, <1>8, <1>9 DEF Next

\* What is remembered of an acknowledgement is forgotten, or is an answer's.
LEMMA AckedStep ==
  ASSUME TypeOK, [Next]_vars, NEW d \in Daemon, NEW q \in Daemon, NEW k \in Key
  PROVE  \/ acked'[d][q][k] \in {acked[d][q][k], 0}
         \/ /\ call[d].reply = "ack" /\ call[d].to = q /\ call[d].payload[k] # Empty
            /\ acked'[d][q][k] = call[d].payload[k].at
  <1> DEFINE Goal == \/ acked'[d][q][k] \in {acked[d][q][k], 0}
                     \/ /\ call[d].reply = "ack" /\ call[d].to = q /\ call[d].payload[k] # Empty
                        /\ acked'[d][q][k] = call[d].payload[k].at
  <1> SUFFICES Goal
    OBVIOUS
  <1>0. acked \in [Daemon -> [Daemon -> [Key -> 0 .. MaxTime]]]
    BY DEF TypeOK
  <1>1. ASSUME NEW e \in Daemon, Crash(e)
        PROVE  Goal
    <2>1. acked' = [acked EXCEPT ![e] = [r \in Daemon |-> [l \in Key |-> 0]]]
      BY <1>1 DEF Crash
    <2> QED BY <1>0, <2>1
  <1>2. ASSUME NEW e \in Daemon, Acknowledged(e)
        PROVE  Goal
    <2>1. /\ call[e].reply = "ack"
          /\ acked' = [acked EXCEPT ![e][call[e].to] =
                         [l \in Key |-> IF l \in Sent(e) THEN call[e].payload[l].at ELSE @[l]]]
      BY <1>2 DEF Acknowledged
    <2>2. CASE d = e /\ q = call[e].to
      BY <1>0, <2>1, <2>2 DEF Sent
    <2>3. CASE ~(d = e /\ q = call[e].to)
      BY <1>0, <2>1, <2>3
    <2> QED BY <2>2, <2>3
  <1>3. ASSUME acked' = acked
        PROVE  Goal
    BY <1>3
  <1>4. ASSUME NEW e \in Daemon, PublishStep(e), ~Acknowledged(e)
        PROVE  acked' = acked
    BY <1>4 DEF PublishStep, FailsToAdvertise, Advertises, ListsPeers, Published,
         Undeliverable, Refuses, NothingToSend, Sends, Passes, records
  <1>5. ASSUME NEW e \in Daemon, Join(e) \/ run_publish_watch(e) \/ receive(e)
        PROVE  acked' = acked
    BY <1>5 DEF Join, run_publish_watch, receive, records
  <1>6. ASSUME NEW m \in late, ReceivesLate(m)
        PROVE  acked' = acked
    BY <1>6 DEF ReceivesLate, records
  <1>7. ASSUME NEW e \in Daemon, NEW l \in Key, NEW now \in 1 .. MaxTime,
               put(e, l, now) \/ remove(e, l, now)
        PROVE  acked' = acked
    BY <1>7 DEF put, remove, Writes, records
  <1>8. ASSUME UNCHANGED vars
        PROVE  acked' = acked
    BY <1>8 DEF vars, records
  <1>9. ASSUME NEW e \in Daemon, NEW sealed \in SUBSET LoginKey, NEW now \in 1 .. MaxTime,
               reset(e, sealed, now)
        PROVE  acked' = acked
    BY <1>9 DEF reset, records
  <1> HIDE DEF Goal
  <1> QED BY <1>1, <1>2, <1>3, <1>4, <1>5, <1>6, <1>7, <1>8, <1>9 DEF Next

LEMMA AckInit == Init => AnswerInv /\ AckedIsHeld
  BY EmptyFacts DEF Init, AnswerInv, AckedIsHeld

LEMMA AckStep == TypeOK /\ AnswerInv /\ AckedIsHeld /\ [Next]_vars => AnswerInv' /\ AckedIsHeld'
  <1> SUFFICES ASSUME TypeOK, AnswerInv, AckedIsHeld, [Next]_vars
               PROVE  AnswerInv' /\ AckedIsHeld'
    OBVIOUS
  <1>0. /\ TypeOK'
        /\ \A d \in Daemon, k \in Key : vault[d][k].at \in Nat /\ vault'[d][k].at \in Nat
        /\ \A d \in Daemon, k \in Key : lost[d][k] \in Nat /\ lost'[d][k] \in Nat
        /\ \A d \in Daemon, k \in Key : call[d].payload[k].at \in Nat
        /\ \A d, q \in Daemon, k \in Key : acked[d][q][k] \in Nat /\ acked'[d][q][k] \in Nat
    <2>1. TypeOK'
      BY TypeStep
    <2>2. \A d \in Daemon, k \in Key : vault[d][k] \in Slot /\ vault'[d][k] \in Slot
      BY <2>1 DEF TypeOK
    <2>3. \A d \in Daemon, k \in Key : call[d].payload[k] \in Slot
      BY DEF TypeOK, Call
    <2>4. \A d, q \in Daemon, k \in Key : acked[d][q][k] \in Nat /\ acked'[d][q][k] \in Nat
      BY <2>1 DEF TypeOK
    <2>5. \A d \in Daemon, k \in Key : lost[d][k] \in Nat /\ lost'[d][k] \in Nat
      BY <2>1 DEF TypeOK
    <2> QED BY <2>1, <2>2, <2>3, <2>4, <2>5, SlotFacts
  <1>10. ASSUME NEW q \in Daemon, NEW k \in Key, orderly'[k], NEW t \in Nat,
               orderly[k] => t <= vault[q][k].at \/ t <= lost[q][k]
        PROVE  t <= vault'[q][k].at \/ t <= lost'[q][k]
    <2>1. /\ orderly[k] /\ lost[q][k] <= lost'[q][k]
          /\ vault[q][k].at <= vault'[q][k].at \/ vault[q][k].at <= lost'[q][k]
      BY <1>10, VaultGrows
    <2> QED BY <1>0, <1>10, <2>1
  <1>1. ASSUME NEW d \in Daemon, NEW k \in Key,
               call'[d].reply = "ack", call'[d].payload[k] # Empty
        PROVE  /\ call'[d].to \in Daemon
               /\ vault'[call'[d].to][k] # Empty \/ lost'[call'[d].to][k] # 0
               /\ orderly'[k] => \/ call'[d].payload[k].at <= vault'[call'[d].to][k].at
                                 \/ call'[d].payload[k].at <= lost'[call'[d].to][k]
    <2>1. CASE call'[d] = call[d]
      <3>1. /\ call[d].to \in Daemon /\ (vault[call[d].to][k] # Empty \/ lost[call[d].to][k] # 0)
            /\ orderly[k] => \/ call[d].payload[k].at <= vault[call[d].to][k].at
                             \/ call[d].payload[k].at <= lost[call[d].to][k]
        BY <1>1, <2>1 DEF AnswerInv
      <3>2. /\ lost[call[d].to][k] <= lost'[call[d].to][k]
            /\ vault[call[d].to][k] # Empty => vault'[call[d].to][k] # Empty \/ lost'[call[d].to][k] # 0
        BY <3>1, VaultGrows
      <3>3. vault'[call[d].to][k] # Empty \/ lost'[call[d].to][k] # 0
        BY <1>0, <3>1, <3>2
      <3>4. orderly'[k] => \/ call[d].payload[k].at <= vault'[call[d].to][k].at
                           \/ call[d].payload[k].at <= lost'[call[d].to][k]
        BY <1>0, <1>10, <3>1
      <3> QED BY <2>1, <3>1, <3>3, <3>4
    <2>2. ASSUME call[d] # NoCall, call[d].to \in Daemon, call'[d].to = call[d].to,
                 call'[d].payload = call[d].payload,
                 call[d].payload[k] # Empty => /\ vault'[call[d].to][k] # Empty
                                               /\ call[d].payload[k].at <= vault'[call[d].to][k].at
          PROVE  /\ call'[d].to \in Daemon
                 /\ vault'[call'[d].to][k] # Empty
                 /\ call'[d].payload[k].at <= vault'[call'[d].to][k].at
      BY <1>1, <2>2
    <2>3. call'[d] # NoCall /\ call'[d].reply # "none"
      BY <1>1, EmptyFacts
    <2> QED BY <2>1, <2>2, <2>3, CallStep
  <1>2. ASSUME NEW d \in Daemon, NEW q \in Daemon, NEW k \in Key, orderly'[k]
        PROVE  acked'[d][q][k] <= vault'[q][k].at \/ acked'[d][q][k] <= lost'[q][k]
    <2>1. orderly[k] => acked[d][q][k] <= vault[q][k].at \/ acked[d][q][k] <= lost[q][k]
      BY DEF AckedIsHeld
    <2>2. CASE acked'[d][q][k] = acked[d][q][k]
      BY <1>0, <1>2, <1>10, <2>1, <2>2
    <2>3. CASE acked'[d][q][k] = 0
      BY <1>0, <2>3
    <2>4. CASE /\ call[d].reply = "ack" /\ call[d].to = q /\ call[d].payload[k] # Empty
               /\ acked'[d][q][k] = call[d].payload[k].at
      <3>1. orderly[k] => \/ call[d].payload[k].at <= vault[q][k].at
                          \/ call[d].payload[k].at <= lost[q][k]
        BY <2>4 DEF AnswerInv
      <3> QED BY <1>0, <1>2, <1>10, <2>4, <3>1
    <2> QED BY <2>2, <2>3, <2>4, AckedStep
  <1>3. AnswerInv'
    BY <1>1 DEF AnswerInv
  <1>4. AckedIsHeld'
    BY <1>2 DEF AckedIsHeld
  <1> QED BY <1>3, <1>4

\* What a peer has acknowledged it holds, or something later, or it has lost as late
\* an entry in a reset of its vault.  A publish that leaves the slot out leaves nothing
\* else undelivered: through crashes of either side, lost answers and payloads that
\* arrive after their sender gave up.
THEOREM AcknowledgedIsHeld == Spec => []AckedIsHeld
  BY TypeInit, TypeStep, AckInit, AckStep, PTL DEF Spec

(***************************************************************************)
(* The journal.                                                            *)
(***************************************************************************)

\* A line about a call stays only as long as the call, and an answer's replaces it.
LEMMA JournalStep ==
  ASSUME TypeOK, [Next]_vars, NEW d \in Daemon, NEW q \in Daemon, NEW k \in Key
  PROVE  \/ journal'[d][q][k] \in {"none", "Refused", "Undeliverable"}
         \/ /\ journal'[d][q][k] = "Sent"
            /\ call'[d].to = q /\ call'[d].payload[k] # Empty
         \/ /\ journal'[d][q][k] \in {"Acknowledged", "Conflict"}
            /\ call[d].reply = "ack" /\ call[d].to = q /\ call[d].payload[k] # Empty
            /\ acked'[d][q][k] = call[d].payload[k].at
         \/ /\ journal'[d][q][k] = journal[d][q][k] /\ acked'[d][q][k] = acked[d][q][k]
            /\ call[d].to = q /\ call[d].payload[k] # Empty =>
                call'[d].to = q /\ call'[d].payload[k] # Empty
  <1> DEFINE Goal ==
         \/ journal'[d][q][k] \in {"none", "Refused", "Undeliverable"}
         \/ /\ journal'[d][q][k] = "Sent"
            /\ call'[d].to = q /\ call'[d].payload[k] # Empty
         \/ /\ journal'[d][q][k] \in {"Acknowledged", "Conflict"}
            /\ call[d].reply = "ack" /\ call[d].to = q /\ call[d].payload[k] # Empty
            /\ acked'[d][q][k] = call[d].payload[k].at
         \/ /\ journal'[d][q][k] = journal[d][q][k] /\ acked'[d][q][k] = acked[d][q][k]
            /\ call[d].to = q /\ call[d].payload[k] # Empty =>
                call'[d].to = q /\ call'[d].payload[k] # Empty
  <1> SUFFICES Goal
    OBVIOUS
  <1>0. /\ journal \in [Daemon -> [Daemon -> [Key -> SyncStatus]]]
        /\ acked \in [Daemon -> [Daemon -> [Key -> 0 .. MaxTime]]]
        /\ call \in [Daemon -> Call]
    BY DEF TypeOK
  <1>1. ASSUME NEW e \in Daemon, Crash(e)
        PROVE  Goal
    <2>1. /\ journal' = [journal EXCEPT ![e] = [r \in Daemon |-> [l \in Key |-> "none"]]]
          /\ call' = [call EXCEPT ![e] = NoCall]
          /\ acked' = [acked EXCEPT ![e] = [r \in Daemon |-> [l \in Key |-> 0]]]
      BY <1>1 DEF Crash
    <2>2. CASE d = e
      BY <1>0, <2>1, <2>2
    <2>3. CASE d # e
      BY <1>0, <2>1, <2>3
    <2> QED BY <2>2, <2>3
  <1>2. ASSUME NEW e \in Daemon, Acknowledged(e)
        PROVE  Goal
    <2>1. /\ call[e].reply = "ack"
          /\ acked' = [acked EXCEPT ![e][call[e].to] =
                         [l \in Key |-> IF l \in Sent(e) THEN call[e].payload[l].at ELSE @[l]]]
          /\ journal' = [journal EXCEPT ![e][call[e].to] =
                           [l \in Key |-> IF l \in call[e].superseded THEN "Conflict"
                                          ELSE IF l \in call[e].accepted THEN "Acknowledged"
                                          ELSE @[l]]]
          /\ call' = [call EXCEPT ![e] = NoCall]
      BY <1>2 DEF Acknowledged
    <2>2. call[e].accepted \cup call[e].superseded = Sent(e)
      BY <2>1 DEF TypeOK, Sent
    <2>3. CASE d = e /\ q = call[e].to
      <3>1. CASE k \in Sent(e)
        <4>1. journal'[d][q][k] \in {"Acknowledged", "Conflict"}
          BY <1>0, <2>1, <2>2, <2>3, <3>1
        <4>2. acked'[d][q][k] = call[e].payload[k].at
          BY <1>0, <2>1, <2>3, <3>1
        <4> QED BY <2>1, <2>3, <3>1, <4>1, <4>2 DEF Sent
      <3>2. CASE k \notin Sent(e)
        <4>1. journal'[d][q][k] = journal[d][q][k]
          BY <1>0, <2>1, <2>2, <2>3, <3>2
        <4>2. acked'[d][q][k] = acked[d][q][k]
          BY <1>0, <2>1, <2>3, <3>2
        <4> QED BY <2>3, <3>2, <4>1, <4>2 DEF Sent
      <3> QED BY <3>1, <3>2
    <2>4. CASE ~(d = e /\ q = call[e].to)
      <3>1. journal'[d][q][k] = journal[d][q][k] /\ acked'[d][q][k] = acked[d][q][k]
        BY <1>0, <2>1, <2>4
      <3>2. d # e => call'[d] = call[d]
        BY <1>0, <2>1
      <3> QED BY <2>4, <3>1, <3>2
    <2> QED BY <2>3, <2>4
  <1>3. ASSUME NEW e \in Daemon, Undeliverable(e)
        PROVE  Goal
    <2>1. /\ journal' = [journal EXCEPT ![e][call[e].to] =
                           [l \in Key |-> IF l \in Sent(e) THEN "Undeliverable" ELSE @[l]]]
          /\ call' = [call EXCEPT ![e] = NoCall] /\ acked' = acked
      BY <1>3 DEF Undeliverable, Note
    <2>2. CASE d = e /\ q = call[e].to
      <3>1. CASE k \in Sent(e)
        BY <1>0, <2>1, <2>2, <3>1
      <3>2. CASE k \notin Sent(e)
        <4>1. journal'[d][q][k] = journal[d][q][k]
          BY <1>0, <2>1, <2>2, <3>2
        <4> QED BY <2>1, <2>2, <3>2, <4>1 DEF Sent
      <3> QED BY <3>1, <3>2
    <2>3. CASE ~(d = e /\ q = call[e].to)
      <3>1. journal'[d][q][k] = journal[d][q][k]
        BY <1>0, <2>1, <2>3
      <3>2. d # e => call'[d] = call[d]
        BY <1>0, <2>1
      <3> QED BY <2>1, <2>3, <3>1, <3>2
    <2> QED BY <2>2, <2>3
  <1>4. ASSUME NEW e \in Daemon, NEW r \in Daemon, Refuses(e, r)
        PROVE  Goal
    <2> DEFINE held == {l \in Key : entries[e][l] # Empty}
    <2>1. /\ journal' = [journal EXCEPT ![e][r] =
                           [l \in Key |-> IF l \in held THEN "Refused" ELSE @[l]]]
          /\ call' = call /\ acked' = acked
      BY <1>4 DEF Refuses, Passes, Note
    <2> HIDE DEF held
    <2>2. journal'[d][q][k] \in {"Refused", journal[d][q][k]}
      BY <1>0, <2>1
    <2> QED BY <2>1, <2>2
  <1>5. ASSUME NEW e \in Daemon, NEW r \in Daemon, Sends(e, r)
        PROVE  Goal
    <2> DEFINE sent == [l \in Key |-> IF l \in ToSend(e, r) THEN entries[e][l] ELSE Empty]
    <2>1. /\ journal' = [journal EXCEPT ![e][r] =
                           [l \in Key |-> IF l \in ToSend(e, r) THEN "Sent" ELSE @[l]]]
          /\ call[e] = NoCall /\ acked' = acked
          /\ call' = [call EXCEPT ![e] = [NoCall EXCEPT !.to = r, !.payload = sent]]
      BY <1>5 DEF Sends, Passes, Note
    <2>2. k \in ToSend(e, r) => sent[k] # Empty
      BY DEF ToSend
    <2> HIDE DEF sent
    <2>3. CASE d = e
      <3>1. call'[d].to = r /\ call'[d].payload = sent
        BY <1>0, <2>1, <2>3 DEF NoCall
      <3>2. call[d].payload[k] = Empty
        BY <2>1, <2>3, EmptyFacts
      <3>3. CASE q = r /\ k \in ToSend(e, r)
        BY <1>0, <2>1, <2>2, <2>3, <3>1, <3>3
      <3>4. CASE ~(q = r /\ k \in ToSend(e, r))
        <4>1. journal'[d][q][k] = journal[d][q][k]
          BY <1>0, <2>1, <2>3, <3>4
        <4> QED BY <2>1, <3>2, <4>1
      <3> QED BY <3>3, <3>4
    <2>4. CASE d # e
      BY <1>0, <2>1, <2>4
    <2> QED BY <2>3, <2>4
  <1>6. ASSUME NEW e \in Daemon, receive(e)
        PROVE  Goal
    <2>1. /\ \E a, s : call' = [call EXCEPT ![e].reply = "ack", ![e].accepted = a,
                                            ![e].superseded = s]
          /\ journal' = journal /\ acked' = acked
      BY <1>6 DEF receive, records
    <2>2. call'[d].to = call[d].to /\ call'[d].payload = call[d].payload
      BY <1>0, <2>1 DEF Call
    <2> QED BY <2>1, <2>2
  <1>7. ASSUME UNCHANGED <<journal, acked, call>>
        PROVE  Goal
    BY <1>7
  <1>8. ASSUME NEW e \in Daemon,
               \/ Join(e) \/ run_publish_watch(e) \/ FailsToAdvertise(e) \/ Advertises(e)
               \/ ListsPeers(e) \/ Published(e) \/ \E r \in Daemon : NothingToSend(e, r)
        PROVE  UNCHANGED <<journal, acked, call>>
    BY <1>8 DEF Join, run_publish_watch, FailsToAdvertise, Advertises, ListsPeers, Published,
         NothingToSend, Passes, engine, records
  <1>9. ASSUME NEW m \in late, ReceivesLate(m)
        PROVE  UNCHANGED <<journal, acked, call>>
    BY <1>9 DEF ReceivesLate, engine, records
  <1>10. ASSUME NEW e \in Daemon, NEW l \in Key, NEW now \in 1 .. MaxTime,
                put(e, l, now) \/ remove(e, l, now)
         PROVE  UNCHANGED <<journal, acked, call>>
    BY <1>10 DEF put, remove, Writes, engine, records
  <1>11. ASSUME UNCHANGED vars
         PROVE  UNCHANGED <<journal, acked, call>>
    BY <1>11 DEF vars, engine, records
  <1>12. ASSUME NEW e \in Daemon, NEW sealed \in SUBSET LoginKey, NEW now \in 1 .. MaxTime,
                reset(e, sealed, now)
         PROVE  UNCHANGED <<journal, acked, call>>
    BY <1>12 DEF reset, engine, records
  <1> HIDE DEF Goal
  <1> QED BY <1>1, <1>2, <1>3, <1>4, <1>5, <1>6, <1>7, <1>8, <1>9, <1>10, <1>11, <1>12
          DEF Next, PublishStep

LEMMA JournalInit == Init => JournalIsTrue
  BY DEF Init, JournalIsTrue

LEMMA JournalKept == TypeOK /\ AnswerInv /\ JournalIsTrue /\ [Next]_vars => JournalIsTrue'
  <1> SUFFICES ASSUME TypeOK, AnswerInv, JournalIsTrue, [Next]_vars,
                      NEW d \in Daemon, NEW q \in Daemon, NEW k \in Key
               PROVE  /\ journal'[d][q][k] \in {"Acknowledged", "Conflict"} =>
                           acked'[d][q][k] # 0 /\ (vault'[q][k] # Empty \/ lost'[q][k] # 0)
                      /\ journal'[d][q][k] = "Sent" =>
                           call'[d].to = q /\ call'[d].payload[k] # Empty
    BY DEF JournalIsTrue
  <1>1. vault[q][k] # Empty \/ lost[q][k] # 0 => vault'[q][k] # Empty \/ lost'[q][k] # 0
    <2>1. lost[q][k] \in Nat /\ lost'[q][k] \in Nat
      BY TypeStep DEF TypeOK
    <2> QED BY <2>1, VaultGrows
  <1>2. ASSUME call[d].reply = "ack", call[d].to = q, call[d].payload[k] # Empty
        PROVE  (vault[q][k] # Empty \/ lost[q][k] # 0) /\ call[d].payload[k].at # 0
    <2>1. call[d].payload[k] \in Slot
      BY DEF TypeOK, Call
    <2> QED BY <1>2, <2>1, SlotFacts DEF AnswerInv
  <1>3. /\ journal[d][q][k] \in {"Acknowledged", "Conflict"} =>
             acked[d][q][k] # 0 /\ (vault[q][k] # Empty \/ lost[q][k] # 0)
        /\ journal[d][q][k] = "Sent" => call[d].to = q /\ call[d].payload[k] # Empty
    BY DEF JournalIsTrue
  <1> QED BY <1>1, <1>2, <1>3, JournalStep

\* No line of the journal claims a delivery that did not happen, although a reset may
\* have undone it, and none says Sent of a call that is over.
THEOREM JournalStaysTrue == Spec => []JournalIsTrue
  BY TypeInit, TypeStep, AckInit, AckStep, JournalInit, JournalKept, PTL DEF Spec

(***************************************************************************)
(* Agreement.                                                              *)
(***************************************************************************)

\* Each copy of a slot is an earlier copy, or the entry a write has just made.
LEMMA CopiesStep ==
  ASSUME TypeOK, [Next]_vars, NEW k \in Key,
         ~\E d \in Daemon, x \in Slot : OwnWrite(d, k, x)
  PROVE  Copies(k)' \subseteq Copies(k) \cup {Empty}
  <1>0. TypeOK'
    BY TypeStep
  <1>1. ASSUME NEW d \in Daemon
        PROVE  vault'[d][k] \in Copies(k) \cup {Empty}
    <2>1. vault'[d][k] \in Slot
      BY <1>0 DEF TypeOK
    <2>2. ~OwnWrite(d, k, vault'[d][k])
      BY <2>1
    <2> QED BY <2>2, VaultStep DEF Copies
  <1>2. ASSUME NEW d \in Daemon
        PROVE  entries'[d][k] \in Copies(k) \cup {Empty}
    BY EntriesStep DEF Copies
  <1>3. ASSUME NEW d \in Daemon
        PROVE  call'[d].payload[k] \in Copies(k) \cup {Empty}
    BY CallStep, EmptyFacts DEF Copies
  <1>4. ASSUME NEW m \in late'
        PROVE  m.payload[k] \in Copies(k) \cup {Empty}
    BY <1>4, LateStep DEF Copies
  <1>5. Copies(k)' = {vault'[d][k] : d \in Daemon} \cup {entries'[d][k] : d \in Daemon}
                       \cup {call'[d].payload[k] : d \in Daemon} \cup {m.payload[k] : m \in late'}
    BY DEF Copies
  <1> QED BY <1>1, <1>2, <1>3, <1>4, <1>5

\* Stamps are never forgotten, nor is it that two of them clashed.
LEMMA StampsGrow ==
  ASSUME TypeOK, [Next]_vars, NEW k \in Key
  PROVE  stamps[k] \subseteq stamps'[k] /\ (orderly'[k] => orderly[k])
  <1>0. stamps \in [Key -> SUBSET (1 .. MaxTime)] /\ orderly \in [Key -> BOOLEAN]
    BY DEF TypeOK
  <1>1. ASSUME NEW e \in Daemon, NEW l \in Key, NEW now \in 1 .. MaxTime,
               put(e, l, now) \/ remove(e, l, now)
        PROVE  stamps[k] \subseteq stamps'[k] /\ (orderly'[k] => orderly[k])
    <2>1. PICK x \in Slot : Writes(e, l, x)
      BY <1>1, WriteFacts
    <2> QED BY <1>0, <2>1 DEF Writes
  <1>2. ASSUME NEW e \in Daemon,
               Join(e) \/ Crash(e) \/ run_publish_watch(e) \/ PublishStep(e) \/ receive(e)
        PROVE  UNCHANGED <<stamps, orderly>>
    BY <1>2 DEF Join, Crash, run_publish_watch, PublishStep, FailsToAdvertise, Advertises,
         ListsPeers, Published, Acknowledged, Undeliverable, Refuses, NothingToSend, Sends,
         Passes, receive, stores
  <1>3. ASSUME NEW m \in late, ReceivesLate(m)
        PROVE  UNCHANGED <<stamps, orderly>>
    BY <1>3 DEF ReceivesLate
  <1>4. ASSUME UNCHANGED vars
        PROVE  UNCHANGED <<stamps, orderly>>
    BY <1>4 DEF vars, stores
  <1>5. ASSUME NEW e \in Daemon, NEW sealed \in SUBSET LoginKey, NEW now \in 1 .. MaxTime,
               reset(e, sealed, now)
        PROVE  stamps[k] \subseteq stamps'[k] /\ (orderly'[k] => orderly[k])
    BY <1>5, ResetFacts
  <1> QED BY <1>1, <1>2, <1>3, <1>4, <1>5 DEF Next

LEMMA StampInit == Init => StampInv
  <1> SUFFICES ASSUME Init, NEW k \in Key
               PROVE  \A x \in Copies(k) : x = Empty
    BY DEF StampInv
  <1> QED BY EmptyFacts DEF Init, Copies

LEMMA StampStep == TypeOK /\ StampInv /\ [Next]_vars => StampInv'
  <1> SUFFICES ASSUME TypeOK, StampInv, [Next]_vars, NEW k \in Key
               PROVE  /\ \A x \in Copies(k)' : x = Empty \/ x.at \in stamps'[k]
                      /\ orderly'[k] => \A x, y \in Copies(k)' : x.at = y.at => x = y
    BY DEF StampInv
  <1>1. /\ \A x \in Copies(k) : x = Empty \/ x.at \in stamps[k]
        /\ orderly[k] => \A x, y \in Copies(k) : x.at = y.at => x = y
    BY DEF StampInv
  <1>2. stamps[k] \subseteq stamps'[k] /\ (orderly'[k] => orderly[k])
    BY StampsGrow
  <1>3. stamps[k] \subseteq 1 .. MaxTime /\ Empty.at = 0 /\ 0 \notin 1 .. MaxTime
    BY SyncAssumption, EmptyFacts DEF TypeOK
  <1>4. CASE \E d \in Daemon, x \in Slot : OwnWrite(d, k, x)
    <2>1. PICK d \in Daemon, w \in Slot : OwnWrite(d, k, w)
      BY <1>4
    <2>3. w.at \in stamps'[k] /\ w.at # 0 /\ (orderly'[k] => w.at \notin stamps[k])
      BY <2>1, SyncAssumption DEF OwnWrite
    <2>4. Copies(k)' \subseteq Copies(k) \cup {w}
      <3>1. /\ \A e \in Daemon : vault'[e][k] \in {vault[e][k], w}
            /\ UNCHANGED <<entries, call, late>>
        BY <2>1 DEF OwnWrite
      <3>2. Copies(k)' = {vault'[e][k] : e \in Daemon} \cup {entries[e][k] : e \in Daemon}
                           \cup {call[e].payload[k] : e \in Daemon} \cup {m.payload[k] : m \in late}
        BY <3>1 DEF Copies
      <3> QED BY <3>1, <3>2 DEF Copies
    <2> QED BY <1>1, <1>2, <1>3, <2>3, <2>4
  <1>5. CASE ~\E d \in Daemon, x \in Slot : OwnWrite(d, k, x)
    <2>1. Copies(k)' \subseteq Copies(k) \cup {Empty}
      BY <1>5, CopiesStep
    <2> QED BY <1>1, <1>2, <1>3, <2>1
  <1> QED BY <1>4, <1>5

\* Two daemons that have nothing left to send each other hold the same entry, as
\* far as the stamps of its writes tell them apart, or one of them lost in a reset
\* what it had acknowledged: no crash, lost answer or late payload leaves another
\* disagreement that nobody would resend.
THEOREM QuietPeersAgree == Spec => []AgreeWhenNothingToSend
  <1>1. TypeOK /\ AckedIsHeld /\ StampInv => AgreeWhenNothingToSend
    <2> SUFFICES ASSUME TypeOK, AckedIsHeld, StampInv, NEW d \in Daemon, NEW q \in Daemon,
                        NEW k \in Key, orderly[k], NothingLeft(d, q, k), NothingLeft(q, d, k),
                        ~LostSince(d, q, k), ~LostSince(q, d, k)
                 PROVE  vault[d][k] = vault[q][k]
      BY DEF AgreeWhenNothingToSend
    <2>1. ASSUME NEW a \in Daemon, NEW b \in Daemon, NothingLeft(a, b, k), ~LostSince(a, b, k)
          PROVE  vault[a][k].at \in Nat /\ vault[a][k].at <= vault[b][k].at
      <3>1. /\ vault[a][k].at \in Nat /\ vault[b][k].at \in Nat
            /\ vault[a][k] = Empty => vault[a][k].at = 0
            /\ acked[a][b][k] \in Nat /\ lost[b][k] \in Nat
        <4>1. vault[a][k] \in Slot /\ vault[b][k] \in Slot
          BY DEF TypeOK
        <4> QED BY <4>1, SlotFacts DEF TypeOK
      <3>2. acked[a][b][k] <= vault[b][k].at
        BY <2>1, <3>1 DEF AckedIsHeld, LostSince
      <3> QED BY <2>1, <3>1, <3>2 DEF NothingLeft
    <2>2. vault[d][k].at = vault[q][k].at
      <3>1. /\ vault[d][k].at \in Nat /\ vault[d][k].at <= vault[q][k].at
            /\ vault[q][k].at \in Nat /\ vault[q][k].at <= vault[d][k].at
        BY <2>1
      <3> QED BY <3>1
    <2>3. vault[d][k] \in Copies(k) /\ vault[q][k] \in Copies(k)
      BY DEF Copies
    <2> QED BY <2>2, <2>3 DEF StampInv
  <1> QED BY <1>1, TypeInit, TypeStep, AckInit, AckStep, StampInit, StampStep, PTL DEF Spec
=============================================================================
