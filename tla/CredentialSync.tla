--------------------------- MODULE CredentialSync ---------------------------
(***************************************************************************)
(* Daemons in one common room keep a vault of credentials each and offer   *)
(* it to one another.  A watch per daemon polls the room's roster; when it *)
(* sees an arrival it reads the vault and publishes it: it advertises the  *)
(* daemon, lists the advertised peers, and sends each admitted one what it *)
(* has not acknowledged yet.  The engine is locked for the whole of a      *)
(* publish, the calls to the peers included, and for a receive.            *)
(*                                                                         *)
(* An entry is a record or the tombstone of one.  It is stamped with the   *)
(* seconds of the clock of the daemon that wrote it, and so is what is     *)
(* remembered of an acknowledgement.  A call may fail with its payload     *)
(* still on the way.  Nothing but the vault survives a crash, and a vault  *)
(* whose passphrase is forgotten is reset: its daemon starts an empty one. *)
(***************************************************************************)
EXTENDS Naturals, FiniteSets

CONSTANTS Daemon, Key,
          Secret,      \* group secrets
          LoginKey,    \* slots a GitHub login writes; a linked account writes the others
          NoSecret,    \* no keyring.group_secret is configured
          NoDaemon,    \* nobody: no callee, or a tombstone's missing writer
          MaxTime,     \* bound: seconds a clock may read
          MaxWrites,   \* bound: local writes and resets of all daemons
          MaxCrashes   \* bound: crashes of all daemons

ASSUME SyncAssumption ==
    /\ NoSecret \notin Secret
    /\ LoginKey \subseteq Key
    /\ NoDaemon \notin Daemon
    /\ MaxTime \in Nat \ {0}
    /\ MaxWrites \in Nat
    /\ MaxCrashes \in Nat

VARIABLES
    secret,     \* secret[d]: d's keyring.group_secret
    vault,      \* vault[d][k]: the entry in slot k, Empty for none
    room,       \* daemons in the common room
    advertised, \* daemons whose advertisement the room shows
    known,      \* known[d]: the roster d's watch saw last
    phase,      \* phase[d]: where d's publish is
    entries,    \* entries[d]: the vault as d's publish read it
    left,       \* left[d]: listed peers the publish has not come to
    call,       \* call[d]: the call to a peer the publish waits for
    late,       \* payloads on the way whose sender has given up
    acked,      \* acked[d][q][k]: the written_at q has acknowledged to d, 0 for none
    journal,    \* journal[d][q][k]: d's line about slot k and q
    writes, crashes,
    stamps,     \* history: stamps[k], the written_at of every write of slot k
    orderly,    \* history: no two writes of slot k share a second and each is
                \* later than what it replaced
    lost        \* history: lost[d][k], the latest written_at that resets took from slot k

stores == <<vault, writes, stamps, orderly, lost>>
roomVars == <<secret, room, advertised, known, crashes>>
engine == <<phase, entries, left, call>>
records == <<acked, journal>>
vars == <<stores, roomVars, engine, late, records>>

Empty == [kind |-> "empty", version |-> 0, at |-> 0, by |-> NoDaemon]
Record(version, at, by) == [kind |-> "record", version |-> version, at |-> at, by |-> by]
Tombstone(version, at) == [kind |-> "tombstone", version |-> version, at |-> at, by |-> NoDaemon]

Entry ==
    [kind: {"record"}, version: Nat, at: 1 .. MaxTime, by: Daemon]
        \cup [kind: {"tombstone"}, version: Nat, at: 1 .. MaxTime, by: {NoDaemon}]
Slot == Entry \cup {Empty}
NoCall == [to |-> NoDaemon, payload |-> [k \in Key |-> Empty], reply |-> "none",
           accepted |-> {}, superseded |-> {}]
Call == [to: Daemon \cup {NoDaemon}, payload: [Key -> Slot], reply: {"none", "ack"},
         accepted: SUBSET Key, superseded: SUBSET Key]
SyncStatus == {"none", "Sent", "Acknowledged", "Refused", "Conflict", "Undeliverable"}

\* Every variable has the shape the code gives it; a daemon that is away does
\* not publish, and an answer is about exactly what was sent.
TypeOK ==
    /\ secret \in [Daemon -> Secret \cup {NoSecret}]
    /\ vault \in [Daemon -> [Key -> Slot]]
    /\ room \subseteq Daemon
    /\ advertised \subseteq room
    /\ known \in [Daemon -> SUBSET Daemon]
    /\ phase \in [Daemon -> {"idle", "read", "advertised", "sending"}]
    /\ entries \in [Daemon -> [Key -> Slot]]
    /\ left \in [Daemon -> SUBSET Daemon]
    /\ call \in [Daemon -> Call]
    /\ late \subseteq [to: Daemon, payload: [Key -> Slot]]
    /\ acked \in [Daemon -> [Daemon -> [Key -> 0 .. MaxTime]]]
    /\ journal \in [Daemon -> [Daemon -> [Key -> SyncStatus]]]
    /\ writes \in 0 .. MaxWrites
    /\ crashes \in 0 .. MaxCrashes
    /\ stamps \in [Key -> SUBSET (1 .. MaxTime)]
    /\ orderly \in [Key -> BOOLEAN]
    /\ lost \in [Daemon -> [Key -> 0 .. MaxTime]]
    /\ \A d \in Daemon :
        /\ phase[d] # "idle" => d \in room
        /\ call[d] # NoCall => phase[d] = "sending" /\ call[d].to \in Daemon
        /\ call[d].reply = "ack" =>
            call[d].accepted \cup call[d].superseded
                = {k \in Key : call[d].payload[k] # Empty}

Init ==
    /\ secret \in [Daemon -> Secret \cup {NoSecret}]
    /\ vault = [d \in Daemon |-> [k \in Key |-> Empty]]
    /\ room = {}
    /\ advertised = {}
    /\ known = [d \in Daemon |-> {}]
    /\ phase = [d \in Daemon |-> "idle"]
    /\ entries = [d \in Daemon |-> [k \in Key |-> Empty]]
    /\ left = [d \in Daemon |-> {}]
    /\ call = [d \in Daemon |-> NoCall]
    /\ late = {}
    /\ acked = [d \in Daemon |-> [q \in Daemon |-> [k \in Key |-> 0]]]
    /\ journal = [d \in Daemon |-> [q \in Daemon |-> [k \in Key |-> "none"]]]
    /\ writes = 0
    /\ crashes = 0
    /\ stamps = [k \in Key |-> {}]
    /\ orderly = [k \in Key |-> TRUE]
    /\ lost = [d \in Daemon |-> [k \in Key |-> 0]]

(***************************************************************************)
(* The vault's own changes.  The wall clocks that stamp them are those of  *)
(* the daemons' machines: nothing relates their readings.                  *)
(***************************************************************************)
Writes(d, k, entry) ==
    /\ writes < MaxWrites
    /\ writes' = writes + 1
    /\ vault' = [vault EXCEPT ![d][k] = entry]
    /\ stamps' = [stamps EXCEPT ![k] = @ \cup {entry.at}]
    /\ orderly' = [orderly EXCEPT ![k] = @ /\ entry.at \notin stamps[k]
                                           /\ entry.at > vault[d][k].at]
    /\ UNCHANGED <<lost, roomVars, engine, late, records>>

\* The version a new record gets: a login's is always the first, a link counts
\* on from the record it replaces.  A tombstone is not a record it could replace.
NextVersion(d, k) ==
    IF k \notin LoginKey /\ vault[d][k].kind = "record" THEN vault[d][k].version + 1 ELSE 1

put(d, k, now) == Writes(d, k, Record(NextVersion(d, k), now, d))

\* A removal leaves a tombstone with the version it deletes.
remove(d, k, now) ==
    /\ vault[d][k].kind = "record"
    /\ Writes(d, k, Tombstone(vault[d][k].version, now))

\* The vault a reset begins with: the logins' records that waited to be sealed.
seal_pending(d, sealed, now) ==
    [k \in Key |-> IF k \in sealed THEN Record(1, now, d) ELSE Empty]

\* The vault's file is set aside and a new one begun, which holds the records of
\* the logins that waited for it and nothing else.  The peers are not told.
reset(d, sealed, now) ==
    /\ writes < MaxWrites
    /\ writes' = writes + 1
    /\ vault' = [vault EXCEPT ![d] = seal_pending(d, sealed, now)]
    /\ stamps' = [k \in Key |-> IF k \in sealed THEN stamps[k] \cup {now} ELSE stamps[k]]
    /\ orderly' = [k \in Key |-> orderly[k] /\ (k \in sealed => now \notin stamps[k])]
    /\ lost' = [lost EXCEPT ![d] =
                 [k \in Key |-> IF vault[d][k].at > @[k] THEN vault[d][k].at ELSE @[k]]]
    /\ UNCHANGED <<roomVars, engine, late, records>>

(***************************************************************************)
(* The room, and the watch on it.                                          *)
(***************************************************************************)
Join(d) ==
    /\ d \notin room
    /\ room' = room \cup {d}
    /\ UNCHANGED <<stores, secret, advertised, known, crashes, engine, late, records>>

\* The daemon dies: its engine, its watch and the calls to it are gone.
Crash(d) ==
    /\ d \in room
    /\ crashes < MaxCrashes
    /\ crashes' = crashes + 1
    /\ room' = room \ {d}
    /\ advertised' = advertised \ {d}
    /\ known' = [known EXCEPT ![d] = {}]
    /\ phase' = [phase EXCEPT ![d] = "idle"]
    /\ entries' = [entries EXCEPT ![d] = [k \in Key |-> Empty]]
    /\ left' = [left EXCEPT ![d] = {}]
    /\ call' = [call EXCEPT ![d] = NoCall]
    /\ late' = {m \in late : m.to # d} \cup
               {m \in [to: {call[d].to}, payload: {call[d].payload}] :
                    call[d] # NoCall /\ call[d].reply = "none"}
    /\ acked' = [acked EXCEPT ![d] = [q \in Daemon |-> [k \in Key |-> 0]]]
    /\ journal' = [journal EXCEPT ![d] = [q \in Daemon |-> [k \in Key |-> "none"]]]
    /\ UNCHANGED <<stores, secret>>

Roster(d) == room \ {d}

\* A tick of the watch: whoever is there is known from now on, and an arrival
\* makes it read the vault, unless several vaults or none are open on d.
run_publish_watch(d) ==
    /\ d \in room
    /\ phase[d] = "idle"
    /\ known[d] # Roster(d)
    /\ known' = [known EXCEPT ![d] = Roster(d)]
    /\ \/ UNCHANGED engine
       \/ /\ ~(Roster(d) \subseteq known[d])
          /\ phase' = [phase EXCEPT ![d] = "read"]
          /\ entries' = [entries EXCEPT ![d] = vault[d]]
          /\ UNCHANGED <<left, call>>
    /\ UNCHANGED <<stores, secret, room, advertised, crashes, late, records>>

(***************************************************************************)
(* SyncEngine::publish.                                                    *)
(***************************************************************************)

\* No group secret is configured, so that nothing is published, not even the
\* advertisement; or the room did not take the advertisement.
FailsToAdvertise(d) ==
    /\ phase[d] = "read"
    /\ phase' = [phase EXCEPT ![d] = "idle"]
    /\ entries' = [entries EXCEPT ![d] = [k \in Key |-> Empty]]
    /\ UNCHANGED <<stores, roomVars, left, call, late, records>>

Advertises(d) ==
    /\ phase[d] = "read"
    /\ secret[d] # NoSecret
    /\ phase' = [phase EXCEPT ![d] = "advertised"]
    /\ advertised' = advertised \cup {d}
    /\ UNCHANGED <<stores, secret, room, known, crashes, entries, left, call, late, records>>

ListsPeers(d) ==
    /\ phase[d] = "advertised"
    /\ phase' = [phase EXCEPT ![d] = "sending"]
    /\ left' = [left EXCEPT ![d] = advertised \ {d}]
    /\ UNCHANGED <<stores, roomVars, entries, call, late, records>>

\* An admission that asks for the signature alone.
AdmitsSigned(d, q) == TRUE

\* The group's proof verifies.  (The signatures of daemons verify; whether the
\* directory has a peer's key yet is Refuses' choice.)
admits(d, q) == secret[d] # NoSecret /\ secret[q] = secret[d]

\* The slots q has not acknowledged with this written_at.
ToSend(d, q) == {k \in Key : entries[d][k] # Empty /\ acked[d][q][k] # entries[d][k].at}

Note(d, q, keys, status) ==
    journal' = [journal EXCEPT ![d][q] = [k \in Key |-> IF k \in keys THEN status ELSE @[k]]]

Passes(d, q) ==
    /\ phase[d] = "sending"
    /\ call[d] = NoCall
    /\ q \in left[d]
    /\ left' = [left EXCEPT ![d] = @ \ {q}]
    /\ UNCHANGED <<stores, roomVars, phase, entries, late, acked>>

\* A peer that is not of the group, or whose key the directory does not have.
Refuses(d, q) ==
    /\ Passes(d, q)
    /\ Note(d, q, {k \in Key : entries[d][k] # Empty}, "Refused")
    /\ UNCHANGED call

NothingToSend(d, q) ==
    /\ admits(d, q)
    /\ ToSend(d, q) = {}
    /\ Passes(d, q)
    /\ UNCHANGED <<call, journal>>

Sends(d, q) ==
    /\ admits(d, q)
    /\ ToSend(d, q) # {}
    /\ Passes(d, q)
    /\ Note(d, q, ToSend(d, q), "Sent")
    /\ call' = [call EXCEPT ![d] =
                 [NoCall EXCEPT !.to = q,
                                !.payload = [k \in Key |-> IF k \in ToSend(d, q) THEN entries[d][k]
                                                           ELSE Empty]]]

Sent(d) == {k \in Key : call[d].payload[k] # Empty}

\* An acknowledgement of whatever the vault holds by now.
AcknowledgesPresent(d) ==
    /\ call[d].reply = "ack"
    /\ LET q == call[d].to IN
        /\ acked' = [acked EXCEPT ![d][q] =
                       [k \in Key |-> IF k \in Sent(d) THEN vault[d][k].at ELSE @[k]]]
        /\ journal' = [journal EXCEPT ![d][q] =
                         [k \in Key |-> IF k \in call[d].superseded THEN "Conflict"
                                        ELSE IF k \in call[d].accepted THEN "Acknowledged"
                                        ELSE @[k]]]
    /\ call' = [call EXCEPT ![d] = NoCall]
    /\ UNCHANGED <<stores, roomVars, phase, entries, left, late>>

\* The answer is recorded: superseded slots count as acknowledged too.
Acknowledged(d) ==
    /\ call[d].reply = "ack"
    /\ LET q == call[d].to IN
        /\ acked' = [acked EXCEPT ![d][q] =
                       [k \in Key |-> IF k \in Sent(d) THEN call[d].payload[k].at ELSE @[k]]]
        /\ journal' = [journal EXCEPT ![d][q] =
                         [k \in Key |-> IF k \in call[d].superseded THEN "Conflict"
                                        ELSE IF k \in call[d].accepted THEN "Acknowledged"
                                        ELSE @[k]]]
    /\ call' = [call EXCEPT ![d] = NoCall]
    /\ UNCHANGED <<stores, roomVars, phase, entries, left, late>>

\* A failed call that leaves the lines of what it sent as they are.
FailsSilently(d) ==
    /\ call[d] # NoCall
    /\ late' = late \cup {m \in [to: {call[d].to}, payload: {call[d].payload}] :
                            call[d].reply = "none" /\ call[d].to \in room}
    /\ call' = [call EXCEPT ![d] = NoCall]
    /\ UNCHANGED <<stores, roomVars, phase, entries, left, records>>

\* The call fails or its deadline passes.  Its payload may still be on the way,
\* or have arrived and the answer be lost.
Undeliverable(d) ==
    /\ call[d] # NoCall
    /\ Note(d, call[d].to, Sent(d), "Undeliverable")
    /\ late' = late \cup {m \in [to: {call[d].to}, payload: {call[d].payload}] :
                            call[d].reply = "none" /\ call[d].to \in room}
    /\ call' = [call EXCEPT ![d] = NoCall]
    /\ UNCHANGED <<stores, roomVars, phase, entries, left, acked>>

Published(d) ==
    /\ phase[d] = "sending"
    /\ call[d] = NoCall
    /\ left[d] = {}
    /\ phase' = [phase EXCEPT ![d] = "idle"]
    /\ entries' = [entries EXCEPT ![d] = [k \in Key |-> Empty]]
    /\ UNCHANGED <<stores, roomVars, left, call, late, records>>

(***************************************************************************)
(* SyncEngine::receive, and a caller that retains what it returns.         *)
(***************************************************************************)

\* A rule that goes by the version alone: a tombstone has the one it deletes.
TakesByVersion(local, incoming) ==
    \/ local = Empty
    \/ local.version < incoming.version

\* reconcile answers TakeIncoming (or AlreadyConverged, which keeps the same).
TakesIncoming(local, incoming) ==
    \/ local = Empty
    \/ local.at < incoming.at
    \/ local.at = incoming.at /\ local.version <= incoming.version

\* The engine is not held by a publish of its own.
CanReceive(q) == q \in room /\ phase[q] \in {"idle", "read"}

Retains(q, payload) ==
    vault' = [vault EXCEPT ![q] =
                [k \in Key |-> IF payload[k] # Empty /\ TakesIncoming(@[k], payload[k])
                               THEN payload[k] ELSE @[k]]]

\* A receive that does not report what it has not taken.
ReceivesQuietly(d) ==
    /\ call[d] # NoCall
    /\ call[d].reply = "none"
    /\ CanReceive(call[d].to)
    /\ Retains(call[d].to, call[d].payload)
    /\ call' = [call EXCEPT ![d].reply = "ack",
                            ![d].accepted = {k \in Sent(d) :
                                TakesIncoming(vault[call[d].to][k], call[d].payload[k])}]
    /\ UNCHANGED <<writes, stamps, orderly, lost, roomVars, phase, entries, left, late, records>>

receive(d) ==
    /\ call[d] # NoCall
    /\ call[d].reply = "none"
    /\ CanReceive(call[d].to)
    /\ LET q == call[d].to
           taken == {k \in Sent(d) : TakesIncoming(vault[q][k], call[d].payload[k])} IN
        /\ Retains(q, call[d].payload)
        /\ call' = [call EXCEPT ![d].reply = "ack", ![d].accepted = taken,
                                ![d].superseded = Sent(d) \ taken]
    /\ UNCHANGED <<writes, stamps, orderly, lost, roomVars, phase, entries, left, late, records>>

\* A payload whose sender has given up arrives after all.
ReceivesLate(m) ==
    /\ m \in late
    /\ CanReceive(m.to)
    /\ Retains(m.to, m.payload)
    /\ late' = late \ {m}
    /\ UNCHANGED <<writes, stamps, orderly, lost, roomVars, engine, records>>

PublishStep(d) ==
    \/ FailsToAdvertise(d) \/ Advertises(d) \/ ListsPeers(d) \/ Published(d)
    \/ Acknowledged(d) \/ Undeliverable(d)
    \/ \E q \in Daemon : Refuses(d, q) \/ NothingToSend(d, q) \/ Sends(d, q)

Next ==
    \/ \E d \in Daemon : Join(d) \/ Crash(d) \/ run_publish_watch(d)
    \/ \E d \in Daemon : PublishStep(d) \/ receive(d)
    \/ \E d \in Daemon, k \in Key, now \in 1 .. MaxTime : put(d, k, now) \/ remove(d, k, now)
    \/ \E d \in Daemon, sealed \in SUBSET LoginKey, now \in 1 .. MaxTime : reset(d, sealed, now)
    \/ \E m \in late : ReceivesLate(m)

Spec == Init /\ [][Next]_vars

(***************************************************************************)
(* Safety.                                                                 *)
(***************************************************************************)

\* A credential is held only where it was written and, with a secret in common,
\* in the group of the daemon that wrote it.
StaysInTheGroup ==
    \A q \in Daemon, k \in Key :
        vault[q][k].kind = "record" =>
            \/ vault[q][k].by = q
            \/ secret[q] # NoSecret /\ secret[vault[q][k].by] = secret[q]

\* What q has acknowledged to d, q holds, or something later: publish relies on
\* it when it leaves a slot out.  It needs the stamps to do what the comment on
\* _acknowledged says of them (engine.rs:105-106), and what q has lost in a reset
\* of its vault is excepted: d does not learn of the reset and goes by its memory.
AckedIsHeld ==
    \A d, q \in Daemon, k \in Key :
        orderly[k] => acked[d][q][k] <= vault[q][k].at \/ acked[d][q][k] <= lost[q][k]

\* publish has nothing of slot k to send from d to q.
NothingLeft(d, q, k) == vault[d][k] = Empty \/ acked[d][q][k] = vault[d][k].at

\* What q has acknowledged to d is no longer there: a reset of q's vault took it.
LostSince(d, q, k) == vault[q][k].at < acked[d][q][k] /\ acked[d][q][k] <= lost[q][k]

\* Two daemons that have nothing left to send each other hold the same, unless one
\* of them lost in a reset what it had acknowledged: crashes, lost answers and late
\* payloads leave no other disagreement that nobody would resend.
AgreeWhenNothingToSend ==
    \A d, q \in Daemon, k \in Key :
        orderly[k] /\ NothingLeft(d, q, k) /\ NothingLeft(q, d, k) =>
            d = q \/ vault[d][k] = vault[q][k] \/ LostSince(d, q, k) \/ LostSince(q, d, k)

\* A line of the journal that says a peer took the record, or had a later one, is
\* about a slot the peer holds or held until its vault was reset, and no line says
\* Sent once the publish is over.
JournalIsTrue ==
    \A d, q \in Daemon, k \in Key :
        /\ journal[d][q][k] \in {"Acknowledged", "Conflict"} =>
            acked[d][q][k] # 0 /\ (vault[q][k] # Empty \/ lost[q][k] # 0)
        /\ journal[d][q][k] = "Sent" => call[d].to = q /\ call[d].payload[k] # Empty

=============================================================================
