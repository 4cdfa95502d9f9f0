---------------------------- MODULE WebviewHost ----------------------------
(***************************************************************************)
(* The desktop application serves RPC to its page.  The page holds several *)
(* connections, each under a client epoch; the host keeps them in a map,   *)
(* gives each a ServerEngine, a bounded queue of responses and a task that *)
(* drains the queue onto the page's channel.  Every frame of the page is a *)
(* task of its own; nothing keeps two of them in order.                    *)
(*                                                                         *)
(* A call is answered by a forward: a task that runs the service's handler *)
(* and publishes what it produces.  A bidirectional call has a session, the*)
(* bounded input of its handler; a frame that finds the input full waits   *)
(* with the map of sessions locked.  The other locks are held within one   *)
(* step.  A forward and its handler's input bear the name of the frame that*)
(* spawned them.                                                           *)
(*                                                                         *)
(* A connection is released by the page, by the reap that precedes the next*)
(* page, or by its drain when the channel refuses a response.              *)
(***************************************************************************)
EXTENDS Naturals, FiniteSets

CONSTANTS Epoch,
          Call,      \* request ids
          MaxConns,  \* bound: connections the page opens
          MaxFrames, \* bound: request frames the page sends
          MaxCalls,  \* bound: the two together
          InCap,     \* messages a bidirectional handler's input holds
          OutCap,    \* RESPONSE_QUEUE_CAPACITY
          NoCall

ASSUME HostAssumption ==
    /\ InCap \in Nat \ {0}
    /\ OutCap \in Nat \ {0}
    /\ MaxConns \in Nat
    /\ MaxFrames \in Nat
    /\ MaxCalls \in Nat
    /\ NoCall \notin Call

Conn == 1 .. MaxConns    \* ConnectionId: connections in the order they are opened
Frame == 1 .. MaxFrames  \* frames in the order they are sent
NoConn == 0
NoFrame == 0

VARIABLES
    connections, \* connections[e]: the connection open under e
    opened,      \* opened[c]: the epoch c was opened under, {} before
    drain,       \* drain[c]: where the drain task is
    closing,     \* closing[c]: where the release the page or the reap asked for is
    reaping,     \* connections the reap under way has yet to release
    frame,       \* frame[f]: a frame and where its task is
    lock,        \* lock[c]: the frame that keeps the map of sessions locked
    sessions,    \* sessions[c][i]: the frame that opened the session of call i
    pending,     \* pending[c]: calls whose messages are being collected
    input,       \* input[f]: messages waiting for the handler of f
    fwd,         \* fwd[f]: where the forward of f is
    registered,  \* registered[c]: forwards in PeerForwards
    taken,       \* taken[f]: the release that has taken the handle of f and will abort it
    queue,       \* queue[c]: responses waiting to be drained
    overlapped   \* history: frames under way when their connection was being released

hostVars == <<connections, opened, reaping>>
releaseVars == <<drain, closing>>
engineVars == <<lock, sessions, pending, registered, taken>>
forwardVars == <<input, fwd, queue>>
vars == <<hostVars, releaseVars, frame, engineVars, forwardVars, overlapped>>

Release == {"sessions", "pending", "forwards", "aborting"}
Releaser == {"drain", "closing"}
InEngine == {"routed", "unclaimed", "blocked", "spawning"}
FrameState == {"unsent", "arrived", "returned"} \cup InEngine
Live == {"running", "parked"}

Unsent == [at |-> "unsent", conn |-> NoConn, call |-> NoCall,
           bidi |-> FALSE, ends |-> FALSE]

\* Every variable has the shape the code gives it, queues keep their limits, and
\* the map of sessions is locked exactly while a frame waits for its input.
TypeOK ==
    /\ connections \in [Epoch -> Conn \cup {NoConn}]
    /\ opened \in [Conn -> {{}} \cup {{e} : e \in Epoch}]
    /\ drain \in [Conn -> {"none", "draining", "done"} \cup Release]
    /\ closing \in [Conn -> {"none", "queued", "done"} \cup Release]
    /\ reaping \subseteq Conn
    /\ frame \in [Frame -> [at: FrameState, conn: Conn \cup {NoConn}, call: Call \cup {NoCall},
                            bidi: BOOLEAN, ends: BOOLEAN]]
    /\ lock \in [Conn -> Frame \cup {NoFrame}]
    /\ sessions \in [Conn -> [Call -> Frame \cup {NoFrame}]]
    /\ pending \in [Conn -> SUBSET Call]
    /\ input \in [Frame -> 0 .. InCap]
    /\ fwd \in [Frame -> {"none", "ended"} \cup Live]
    /\ registered \in [Conn -> SUBSET Frame]
    /\ taken \in [Frame -> {"none"} \cup Releaser]
    /\ queue \in [Conn -> 0 .. OutCap]
    /\ overlapped \subseteq Frame
    /\ \A f \in Frame, c \in Conn :
        lock[c] = f <=> frame[f].at = "blocked" /\ frame[f].conn = c

Init ==
    /\ connections = [e \in Epoch |-> NoConn]
    /\ opened = [c \in Conn |-> {}]
    /\ drain = [c \in Conn |-> "none"]
    /\ closing = [c \in Conn |-> "none"]
    /\ reaping = {}
    /\ frame = [f \in Frame |-> Unsent]
    /\ lock = [c \in Conn |-> NoFrame]
    /\ sessions = [c \in Conn |-> [i \in Call |-> NoFrame]]
    /\ pending = [c \in Conn |-> {}]
    /\ input = [f \in Frame |-> 0]
    /\ fwd = [f \in Frame |-> "none"]
    /\ registered = [c \in Conn |-> {}]
    /\ taken = [f \in Frame |-> "none"]
    /\ queue = [c \in Conn |-> 0]
    /\ overlapped = {}

(***************************************************************************)
(* The page.                                                               *)
(***************************************************************************)

PageMayCall ==
    Cardinality({c \in Conn : opened[c] # {}}) + Cardinality({f \in Frame : frame[f].at # "unsent"})
        < MaxCalls

\* An epoch is free or the connect is refused; the page registers its channel.
connect(c, e) ==
    /\ opened[c] = {}
    /\ \A b \in 1 .. c - 1 : opened[b] # {}
    /\ PageMayCall
    /\ connections[e] = NoConn
    /\ connections' = [connections EXCEPT ![e] = c]
    /\ opened' = [opened EXCEPT ![c] = {e}]
    /\ drain' = [drain EXCEPT ![c] = "draining"]
    /\ UNCHANGED <<reaping, closing, frame, engineVars, forwardVars, overlapped>>

FramesOf(c, i) == {f \in Frame : frame[f].conn = c /\ frame[f].call = i}

\* The page sends the first frame of a call, with the name of the method, or
\* another one of a call it has not ended.
SendsFrame(f, c, i, bidi, ends) ==
    /\ frame[f].at = "unsent"
    /\ \A g \in 1 .. f - 1 : frame[g].at # "unsent"
    /\ PageMayCall
    /\ opened[c] # {}
    /\ closing[c] = "none"
    /\ drain[c] = "draining"
    /\ \A g \in FramesOf(c, i) : ~frame[g].ends
    /\ bidi => FramesOf(c, i) = {}
    /\ frame' = [frame EXCEPT ![f] = [at |-> "arrived", conn |-> c, call |-> i,
                                      bidi |-> bidi, ends |-> ends]]
    /\ UNCHANGED <<hostVars, releaseVars, engineVars, forwardVars, overlapped>>

(***************************************************************************)
(* handle_request_frame and ServerEngine::on_request.                      *)
(***************************************************************************)
Goes(f, to) == frame' = [frame EXCEPT ![f].at = to]

\* The frame goes to the connection its epoch names by now, or is refused.
handle_request_frame(f) ==
    /\ frame[f].at = "arrived"
    /\ LET e == CHOOSE e \in Epoch : opened[frame[f].conn] = {e}
           c == connections[e] IN
        frame' = [frame EXCEPT ![f] = IF c = NoConn THEN [@ EXCEPT !.at = "returned"]
                                      ELSE [@ EXCEPT !.at = "routed", !.conn = c]]
    /\ UNCHANGED <<hostVars, releaseVars, engineVars, forwardVars, overlapped>>

SessionOf(f) == sessions[frame[f].conn][frame[f].call]

\* The handler's end of the input is gone with its forward.
InputClosed(s) == fwd[s] = "ended"

\* What route_bidi_continuation leaves of the session: its last frame ends it.
Delivered(f) ==
    /\ input' = [input EXCEPT ![SessionOf(f)] = IF InputClosed(SessionOf(f)) THEN @ ELSE @ + 1]
    /\ sessions' = [sessions EXCEPT ![frame[f].conn][frame[f].call] =
                      IF frame[f].ends THEN NoFrame ELSE @]
    /\ Goes(f, "returned")
    /\ UNCHANGED <<hostVars, releaseVars, pending, registered, taken, fwd, queue, overlapped>>

\* A send into the input returns when there is room.  An input that nobody reads
\* any more takes everything and keeps nothing.
CanDeliver(s) == input[s] < InCap

route_bidi_continuation(f) ==
    /\ frame[f].at = "routed"
    /\ lock[frame[f].conn] = NoFrame
    /\ SessionOf(f) # NoFrame
    /\ CanDeliver(SessionOf(f))
    /\ Delivered(f)
    /\ UNCHANGED lock

\* The input is full: the frame waits and keeps the sessions locked.
WaitsForRoom(f) ==
    /\ frame[f].at = "routed"
    /\ lock[frame[f].conn] = NoFrame
    /\ SessionOf(f) # NoFrame
    /\ ~CanDeliver(SessionOf(f))
    /\ lock' = [lock EXCEPT ![frame[f].conn] = f]
    /\ Goes(f, "blocked")
    /\ UNCHANGED <<hostVars, releaseVars, sessions, pending, registered, taken, forwardVars, overlapped>>

FindsRoom(f) ==
    /\ frame[f].at = "blocked"
    /\ CanDeliver(SessionOf(f))
    /\ Delivered(f)
    /\ lock' = [lock EXCEPT ![frame[f].conn] = NoFrame]

NoSession(f) ==
    /\ frame[f].at = "routed"
    /\ lock[frame[f].conn] = NoFrame
    /\ SessionOf(f) = NoFrame
    /\ Goes(f, "unclaimed")
    /\ UNCHANGED <<hostVars, releaseVars, engineVars, forwardVars, overlapped>>

\* A frame of a call that is being collected, or a new call that is not a
\* bidirectional one: it is collected until its last frame is there.
Collects(f) ==
    /\ frame[f].at = "unclaimed"
    /\ frame[f].call \in pending[frame[f].conn] \/ ~frame[f].bidi
    /\ pending' = [pending EXCEPT ![frame[f].conn] =
                     IF frame[f].ends THEN @ \ {frame[f].call} ELSE @ \cup {frame[f].call}]
    /\ Goes(f, IF frame[f].ends THEN "spawning" ELSE "returned")
    /\ UNCHANGED <<hostVars, releaseVars, lock, sessions, registered, taken, forwardVars, overlapped>>

\* A new bidirectional call: its first message goes into a new input, which is
\* kept as a session if more is to come.
open_bidi_session(f) ==
    /\ frame[f].at = "unclaimed"
    /\ frame[f].call \notin pending[frame[f].conn]
    /\ frame[f].bidi
    /\ frame[f].ends \/ lock[frame[f].conn] = NoFrame
    /\ input' = [input EXCEPT ![f] = 1]
    /\ sessions' = [sessions EXCEPT ![frame[f].conn][frame[f].call] = IF frame[f].ends THEN @ ELSE f]
    /\ Goes(f, "spawning")
    /\ UNCHANGED <<hostVars, releaseVars, lock, pending, registered, taken, fwd, queue, overlapped>>

\* A frame that runs its handler itself and returns when it is over.
RunsInline(f) ==
    /\ frame[f].at = "spawning"
    /\ \/ fwd[f] = "none" /\ Goes(f, "spawning") /\ fwd' = [fwd EXCEPT ![f] = "running"]
       \/ fwd[f] = "ended" /\ Goes(f, "returned") /\ UNCHANGED fwd
    /\ UNCHANGED <<hostVars, releaseVars, engineVars, input, queue, overlapped>>

\* The forward is spawned and registered under one lock.
spawn(f) ==
    /\ frame[f].at = "spawning"
    /\ fwd' = [fwd EXCEPT ![f] = "running"]
    /\ registered' = [registered EXCEPT ![frame[f].conn] = @ \cup {f}]
    /\ Goes(f, "returned")
    /\ UNCHANGED <<hostVars, releaseVars, lock, sessions, pending, taken, input, queue, overlapped>>

(***************************************************************************)
(* A forward and the service's handler.                                    *)
(***************************************************************************)
ForwardGoes(f, to) ==
    /\ fwd' = [fwd EXCEPT ![f] = to]
    /\ UNCHANGED <<hostVars, releaseVars, frame, lock, sessions, pending, overlapped>>

\* A forward that ends by itself takes its handle out of the registry.  A release
\* that took the handle before finds nothing left to abort.
forget(f) ==
    /\ registered' = [registered EXCEPT ![frame[f].conn] = @ \ {f}]
    /\ taken' = [taken EXCEPT ![f] = "none"]
    /\ input' = [input EXCEPT ![f] = 0]

HandlerReads(f) ==
    /\ fwd[f] = "running"
    /\ input[f] > 0
    /\ input' = [input EXCEPT ![f] = @ - 1]
    /\ ForwardGoes(f, "running")
    /\ UNCHANGED <<registered, taken, queue>>

\* The handler has a response and reads nothing more until it is taken.
HandlerProduces(f) ==
    /\ fwd[f] = "running"
    /\ ForwardGoes(f, "parked")
    /\ UNCHANGED <<input, registered, taken, queue>>

\* A queue of responses without a limit.
PublishesAtOnce(f, last) ==
    /\ fwd[f] = "parked"
    /\ drain[frame[f].conn] # "done"
    /\ queue' = [queue EXCEPT ![frame[f].conn] = @ + 1]
    /\ ForwardGoes(f, IF last THEN "ended" ELSE "running")
    /\ IF last THEN forget(f) ELSE UNCHANGED <<registered, taken, input>>

\* The response finds room in the queue.  A forward that has published its last
\* one, the end of its stream, forgets itself.
forward_response_body(f, last) ==
    /\ fwd[f] = "parked"
    /\ drain[frame[f].conn] # "done"
    /\ queue[frame[f].conn] < OutCap
    /\ queue' = [queue EXCEPT ![frame[f].conn] = @ + 1]
    /\ ForwardGoes(f, IF last THEN "ended" ELSE "running")
    /\ IF last THEN forget(f) ELSE UNCHANGED <<registered, taken, input>>

\* Nobody drains the queue any more: the forward stops.
FindsQueueClosed(f) ==
    /\ fwd[f] = "parked"
    /\ drain[frame[f].conn] = "done"
    /\ ForwardGoes(f, "ended")
    /\ forget(f)
    /\ UNCHANGED queue

(***************************************************************************)
(* Releasing a connection.                                                 *)
(***************************************************************************)

\* A departed connection that takes out whatever is open under its epoch.
WithoutEpoch(c) == [e \in Epoch |-> IF e \in opened[c] THEN NoConn ELSE connections[e]]

\* The map without a connection, whatever else is open under its epoch by now.
Without(c) == [e \in Epoch |-> IF connections[e] = c THEN NoConn ELSE connections[e]]

TakesResponse(c) ==
    /\ drain[c] = "draining"
    /\ queue[c] > 0
    /\ queue' = [queue EXCEPT ![c] = @ - 1]
    /\ UNCHANGED <<opened, reaping, closing, frame, engineVars, input, fwd, overlapped>>

\* The drain takes a response and the page's channel takes it.
drain_responses(c) == TakesResponse(c) /\ UNCHANGED <<connections, drain>>

\* The channel refuses the response: the page is gone, and the drain, which takes
\* no further response, releases the connection.
release_departed_connection(c) ==
    /\ TakesResponse(c)
    /\ drain' = [drain EXCEPT ![c] = "sessions"]
    /\ connections' = Without(c)

\* The queue is empty and its last sender is gone.
DrainEnds(c) ==
    /\ drain[c] = "draining"
    /\ queue[c] = 0
    /\ closing[c] = "done"
    /\ \A f \in Frame : frame[f].conn = c => /\ frame[f].at \notin InEngine
                                             /\ fwd[f] \notin Live
    /\ drain' = [drain EXCEPT ![c] = "done"]
    /\ UNCHANGED <<hostVars, closing, frame, engineVars, forwardVars, overlapped>>

disconnect(e) ==
    /\ connections[e] # NoConn
    /\ closing' = [closing EXCEPT ![connections[e]] = "sessions"]
    /\ connections' = [connections EXCEPT ![e] = NoConn]
    /\ UNCHANGED <<opened, reaping, drain, frame, engineVars, forwardVars, overlapped>>

\* The next page is about to load: all connections leave the map at once and are
\* released one after the other.
disconnect_all ==
    /\ reaping = {}
    /\ reaping' = {connections[e] : e \in Epoch} \ {NoConn}
    /\ reaping' # {}
    /\ closing' = [c \in Conn |-> IF c \in reaping' THEN "queued" ELSE closing[c]]
    /\ connections' = [e \in Epoch |-> NoConn]
    /\ UNCHANGED <<opened, drain, frame, engineVars, forwardVars, overlapped>>

ReapsNext(c) ==
    /\ c \in reaping
    /\ \A d \in reaping : closing[d] = "queued"
    /\ closing' = [closing EXCEPT ![c] = "sessions"]
    /\ UNCHANGED <<hostVars, drain, frame, engineVars, forwardVars, overlapped>>

(***************************************************************************)
(* on_peer_disconnected, run by who: the drain or the one that closes.     *)
(***************************************************************************)
At(who, c) == IF who = "drain" THEN drain[c] ELSE closing[c]

ReleaseGoes(who, c, to) ==
    /\ drain' = IF who = "drain" THEN [drain EXCEPT ![c] = to] ELSE drain
    /\ closing' = IF who = "drain" THEN closing ELSE [closing EXCEPT ![c] = to]
    /\ reaping' = IF to = "done" /\ who = "closing" THEN reaping \ {c} ELSE reaping
    /\ UNCHANGED <<connections, opened, frame, lock>>

\* A release that lets the forwards finish before it closes their input.
DropsSessionsLast(who, c) ==
    /\ At(who, c) = "sessions"
    /\ lock[c] = NoFrame
    /\ registered[c] = {}
    /\ sessions' = [sessions EXCEPT ![c] = [i \in Call |-> NoFrame]]
    /\ overlapped' = overlapped \cup {f \in Frame : frame[f].conn = c /\ frame[f].at \in InEngine}
    /\ ReleaseGoes(who, c, "pending")
    /\ UNCHANGED <<pending, registered, taken, forwardVars>>

DropsSessions(who, c) ==
    /\ At(who, c) = "sessions"
    /\ lock[c] = NoFrame
    /\ sessions' = [sessions EXCEPT ![c] = [i \in Call |-> NoFrame]]
    /\ overlapped' = overlapped \cup {f \in Frame : frame[f].conn = c /\ frame[f].at \in InEngine}
    /\ ReleaseGoes(who, c, "pending")
    /\ UNCHANGED <<pending, registered, taken, forwardVars>>

DropsPending(who, c) ==
    /\ At(who, c) = "pending"
    /\ pending' = [pending EXCEPT ![c] = {}]
    /\ ReleaseGoes(who, c, "forwards")
    /\ UNCHANGED <<sessions, registered, taken, forwardVars, overlapped>>

\* PeerForwards::abort_all.  The handles leave the registry, which is then unlocked;
\* a release that comes to this point next finds none.
TakesForwards(who, c) ==
    /\ At(who, c) = "forwards"
    /\ taken' = [f \in Frame |-> IF f \in registered[c] THEN who ELSE taken[f]]
    /\ registered' = [registered EXCEPT ![c] = {}]
    /\ ReleaseGoes(who, c, "aborting")
    /\ UNCHANGED <<sessions, pending, forwardVars, overlapped>>

\* One forward after the other is aborted and awaited; until its turn comes it
\* goes on.
AbortsForward(who, c, f) ==
    /\ At(who, c) = "aborting"
    /\ taken[f] = who /\ frame[f].conn = c
    /\ taken' = [taken EXCEPT ![f] = "none"]
    /\ fwd' = [fwd EXCEPT ![f] = "ended"]
    /\ input' = [input EXCEPT ![f] = 0]
    /\ UNCHANGED <<hostVars, releaseVars, frame, lock, sessions, pending, registered, queue,
                   overlapped>>

\* on_peer_disconnected returns.  A drain is over with that, and what was still
\* queued goes with it.
Returns(who, c) ==
    /\ queue' = IF who = "drain" THEN [queue EXCEPT ![c] = 0] ELSE queue
    /\ ReleaseGoes(who, c, "done")
    /\ UNCHANGED <<sessions, pending, registered, taken, input, fwd, overlapped>>

\* A release that tells its forwards to stop and does not wait until they have.
ReturnsUnawaited(who, c) == At(who, c) = "aborting" /\ Returns(who, c)

ReleaseReturns(who, c) ==
    /\ At(who, c) = "aborting"
    /\ \A f \in Frame : ~(taken[f] = who /\ frame[f].conn = c)
    /\ Returns(who, c)

(***************************************************************************)
(* The specification.                                                      *)
(***************************************************************************)
FrameStep(f) ==
    \/ handle_request_frame(f) \/ NoSession(f) \/ Collects(f)
    \/ route_bidi_continuation(f) \/ WaitsForRoom(f) \/ FindsRoom(f)
    \/ open_bidi_session(f) \/ spawn(f)

PublishStep(f) == (\E last \in BOOLEAN : forward_response_body(f, last)) \/ FindsQueueClosed(f)

DrainStep(c) == drain_responses(c) \/ release_departed_connection(c) \/ DrainEnds(c)

ReleaseStep(who, c) ==
    \/ DropsSessions(who, c) \/ DropsPending(who, c) \/ TakesForwards(who, c)
    \/ \E f \in Frame : AbortsForward(who, c, f)
    \/ ReleaseReturns(who, c)

Next ==
    \/ \E c \in Conn, e \in Epoch : connect(c, e)
    \/ \E c \in Conn : DrainStep(c) \/ ReapsNext(c)
    \/ \E c \in Conn, who \in Releaser : ReleaseStep(who, c)
    \/ \E e \in Epoch : disconnect(e)
    \/ disconnect_all
    \/ \E f \in Frame, c \in Conn, i \in Call, bidi, ends \in BOOLEAN :
        SendsFrame(f, c, i, bidi, ends)
    \/ \E f \in Frame : FrameStep(f) \/ PublishStep(f) \/ HandlerReads(f) \/ HandlerProduces(f)

Spec == Init /\ [][Next]_vars

\* Every task of the runtime that can go on does.  A handler is the service's: it
\* is assumed to read its input again and again, and need not produce or end.
Fairness ==
    /\ \A f \in Frame : /\ WF_vars(FrameStep(f))
                        /\ WF_vars(PublishStep(f))
                        /\ SF_vars(HandlerReads(f))
    /\ \A c \in Conn : /\ WF_vars(DrainStep(c))
                       /\ WF_vars(ReapsNext(c))
                       /\ \A who \in Releaser : WF_vars(ReleaseStep(who, c))

FairSpec == Spec /\ Fairness

(***************************************************************************)
(* Safety.                                                                 *)
(***************************************************************************)

\* A connection that nobody has released and whose channel has refused nothing is
\* in the map: the departure of its predecessor under the same epoch spares it.
SuccessorKeepsServing ==
    \A c \in Conn : drain[c] = "draining" /\ closing[c] = "none" =>
        \E e \in opened[c] : connections[e] = c

\* Once on_peer_disconnected has returned for a connection, whatever is still kept
\* for it is of a frame that was inside on_request while it was released; and so is
\* whatever is still published, unless a second release of the same connection has
\* not returned, has taken the forward's handle, and will abort it before it returns.
NothingOutlivesRelease ==
    \A c \in Conn : "done" \in {drain[c], closing[c]} =>
        /\ \A f \in Frame : frame[f].conn = c /\ fwd[f] \in Live =>
             f \in overlapped \/ (taken[f] # "none" /\ At(taken[f], c) = "aborting")
        /\ \A i \in Call :
            /\ sessions[c][i] # NoFrame => sessions[c][i] \in overlapped
            /\ i \in pending[c] => FramesOf(c, i) \cap overlapped # {}

(***************************************************************************)
(* Liveness, under Fairness.                                               *)
(***************************************************************************)

\* Connections of which the page has refused a response: the drain is giving them up.
Departed == {c \in Conn : drain[c] \in Release}

\* The task of a frame comes to its end as long as the page takes responses, full
\* queues, locks and a release notwithstanding: the page's promise is not held for ever.
FrameReturns ==
    \A f \in Frame :
        frame[f].at = "arrived" ~> (frame[f].at = "returned" \/ frame[f].conn \in Departed)

\* A release that has begun completes as long as the page takes responses, although
\* a frame may keep the sessions locked while it waits for the handler.
ReleaseCompletes ==
    \A c \in Conn : closing[c] = "sessions" ~> (closing[c] = "done" \/ c \in Departed)

(***************************************************************************)
(* What the repository says and the code does not do.                      *)
(***************************************************************************)

\* "block_on drives the reap to completion on this very thread"
\* (tddy-desktop/src-tauri/src/lib.rs:185-186): a reap that has begun ends.
ReapCompletes == reaping # {} ~> reaping = {}
=============================================================================
