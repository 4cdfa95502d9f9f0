--------------------------- MODULE WebviewProofs ---------------------------
(***************************************************************************)
(* The RPC host of the desktop's page for any number of epochs,            *)
(* connections, calls and frames, and queues of any size.                  *)
(***************************************************************************)
EXTENDS WebviewHost, TLAPS

(***************************************************************************)
(* Frames.                                                                 *)
(***************************************************************************)

\* A frame that was sent is one of a call on a connection that was opened; one
\* that waits for room still has its session.
FrameInv ==
    \A f \in Frame :
        /\ frame[f].at # "unsent" =>
             frame[f].conn \in Conn /\ frame[f].call \in Call /\ opened[frame[f].conn] # {}
        /\ frame[f].at = "blocked" => SessionOf(f) # NoFrame

(***************************************************************************)
(* The map of connections.                                                 *)
(***************************************************************************)

\* A connection in the map is under its own epoch and is not being released.
MapInv ==
    /\ \A c \in Conn : opened[c] = {} => drain[c] = "none" /\ closing[c] = "none"
    /\ \A e \in Epoch, c \in Conn :
         connections[e] = c => opened[c] = {e} /\ drain[c] = "draining" /\ closing[c] = "none"

(***************************************************************************)
(* Releases.                                                               *)
(***************************************************************************)

\* A release of c, by the drain or by who closes it, has come to one of the stages.
Reached(c, stages) == drain[c] \in stages \/ closing[c] \in stages

\* A forward that runs is registered or a release has taken its handle, and only a
\* frame that has returned has one.
ForwardInv ==
    \A f \in Frame :
        /\ fwd[f] # "none" => frame[f].at = "returned"
        /\ \A c \in Conn : f \in registered[c] => frame[f].at = "returned" /\ frame[f].conn = c
        /\ fwd[f] \in Live => f \in registered[frame[f].conn] \/ taken[f] # "none"
        /\ f \in overlapped => frame[f].at \notin {"unsent", "arrived"}

\* A release that has taken a handle is still aborting.
TakenInv ==
    \A f \in Frame : taken[f] # "none" =>
        frame[f].at = "returned" /\ At(taken[f], frame[f].conn) = "aborting"

\* What each stage of a release has left of the connection c.
LeftOf(c) ==
    /\ Reached(c, {"pending", "forwards", "aborting", "done"}) =>
         /\ \A f \in Frame : frame[f].conn = c /\ frame[f].at \in InEngine => f \in overlapped
         /\ \A i \in Call : sessions[c][i] # NoFrame => sessions[c][i] \in overlapped
    /\ Reached(c, {"forwards", "aborting", "done"}) =>
         \A i \in pending[c] : FramesOf(c, i) \cap overlapped # {}
    /\ Reached(c, {"aborting", "done"}) =>
         \A f \in Frame : frame[f].conn = c /\ fwd[f] \in Live => f \in overlapped \/ taken[f] # "none"

ReleaseInv == \A c \in Conn : LeftOf(c)

(***************************************************************************)
(* Steps of a frame.                                                       *)
(***************************************************************************)
FrameRecord == [at: FrameState, conn: Conn \cup {NoConn}, call: Call \cup {NoCall},
                bidi: BOOLEAN, ends: BOOLEAN]

\* The frame f goes to a stage, on the connection it has or on another one.
Moves(f, to, c) ==
    /\ frame' \in [Frame -> FrameRecord]
    /\ frame'[f].at = to /\ frame'[f].conn = c
    /\ frame'[f].call = frame[f].call /\ frame'[f].bidi = frame[f].bidi
    /\ frame'[f].ends = frame[f].ends
    /\ \A g \in Frame : g # f => frame'[g] = frame[g]

LEMMA GoesMoves ==
  ASSUME TypeOK, NEW f \in Frame, NEW to \in FrameState, Goes(f, to)
  PROVE  Moves(f, to, frame[f].conn)
  <1>1. frame \in [Frame -> FrameRecord] /\ frame[f] \in FrameRecord
    BY DEF TypeOK, FrameRecord
  <1>2. frame' = [frame EXCEPT ![f] = [frame[f] EXCEPT !.at = to]]
    BY DEF Goes
  <1>3. [frame[f] EXCEPT !.at = to] \in FrameRecord
    BY <1>1 DEF FrameRecord
  <1> QED BY <1>1, <1>2, <1>3 DEF Moves, FrameRecord

\* A frame is routed to the connection its epoch names, or returns.
LEMMA RouteMoves ==
  ASSUME TypeOK, FrameInv, NEW f \in Frame, handle_request_frame(f)
  PROVE  \/ Moves(f, "returned", frame[f].conn)
         \/ \E e \in Epoch : connections[e] # NoConn /\ Moves(f, "routed", connections[e])
  <1> DEFINE e == CHOOSE e \in Epoch : opened[frame[f].conn] = {e}
             c == connections[e]
             r == IF c = NoConn THEN [frame[f] EXCEPT !.at = "returned"]
                  ELSE [frame[f] EXCEPT !.at = "routed", !.conn = c]
  <1>1. frame \in [Frame -> FrameRecord] /\ frame[f] \in FrameRecord
    BY DEF TypeOK, FrameRecord
  <1>2. frame[f].conn \in Conn /\ opened[frame[f].conn] # {}
    BY DEF handle_request_frame, FrameInv
  <1>3. \E x \in Epoch : opened[frame[f].conn] = {x}
    <2>1. opened[frame[f].conn] \in {{}} \cup {{x} : x \in Epoch}
      BY <1>2 DEF TypeOK
    <2> QED BY <1>2, <2>1
  <1>4. e \in Epoch
    BY <1>3
  <1>5. c \in Conn \cup {NoConn}
    BY <1>4 DEF TypeOK
  <1>6. frame' = [frame EXCEPT ![f] = r]
    BY <1>1 DEF handle_request_frame
  <1> HIDE DEF e, c
  <1>7. /\ r \in FrameRecord /\ r.at = (IF c = NoConn THEN "returned" ELSE "routed")
        /\ r.conn = (IF c = NoConn THEN frame[f].conn ELSE c)
        /\ r.call = frame[f].call /\ r.bidi = frame[f].bidi /\ r.ends = frame[f].ends
    BY <1>1, <1>5 DEF FrameRecord, FrameState, InEngine
  <1> HIDE DEF r
  <1>9. CASE c = NoConn
    <2>1. Moves(f, "returned", frame[f].conn)
      BY <1>1, <1>6, <1>7, <1>9 DEF Moves
    <2> QED BY <2>1
  <1>10. CASE c # NoConn
    <2>1. Moves(f, "routed", c)
      BY <1>1, <1>6, <1>7, <1>10 DEF Moves
    <2> QED BY <1>4, <1>10, <2>1 DEF c
  <1> QED BY <1>9, <1>10

(***************************************************************************)
(* Types.                                                                  *)
(***************************************************************************)

\* The parts of TypeOK: the shapes of the variables, and the lock.
Shapes ==
    /\ connections \in [Epoch -> Conn \cup {NoConn}]
    /\ opened \in [Conn -> {{}} \cup {{e} : e \in Epoch}]
    /\ drain \in [Conn -> {"none", "draining", "done"} \cup Release]
    /\ closing \in [Conn -> {"none", "queued", "done"} \cup Release]
    /\ reaping \subseteq Conn
    /\ frame \in [Frame -> FrameRecord]
    /\ lock \in [Conn -> Frame \cup {NoFrame}]
    /\ sessions \in [Conn -> [Call -> Frame \cup {NoFrame}]]
    /\ pending \in [Conn -> SUBSET Call]
    /\ input \in [Frame -> 0 .. InCap]
    /\ fwd \in [Frame -> {"none", "ended"} \cup Live]
    /\ registered \in [Conn -> SUBSET Frame]
    /\ taken \in [Frame -> {"none"} \cup Releaser]
    /\ queue \in [Conn -> 0 .. OutCap]
    /\ overlapped \subseteq Frame

LockHeld ==
    \A f \in Frame, c \in Conn :
        lock[c] = f <=> frame[f].at = "blocked" /\ frame[f].conn = c

LEMMA TypeParts == TypeOK <=> Shapes /\ LockHeld
  BY DEF TypeOK, Shapes, LockHeld, FrameRecord

LEMMA TypePartsNext == Shapes' /\ LockHeld' => TypeOK'
  BY DEF TypeOK, Shapes, LockHeld, FrameRecord

LEMMA FramesAreNotNone == \A f \in Frame : f # NoFrame
  BY HostAssumption DEF NoFrame, Frame

\* Nobody waits on a connection whose sessions are not locked.
LEMMA LockFree ==
  ASSUME TypeOK, NEW c \in Conn, lock[c] = NoFrame, NEW f \in Frame, frame[f].conn = c
  PROVE  frame[f].at # "blocked"
  BY FramesAreNotNone DEF TypeOK

\* The lock is unaffected by a step that neither blocks nor releases a frame.
LEMMA LockUnaffected ==
  ASSUME TypeOK, UNCHANGED lock,
         \A f \in Frame : /\ frame'[f].at = "blocked" <=> frame[f].at = "blocked"
                          /\ frame[f].at = "blocked" => frame'[f].conn = frame[f].conn
  PROVE  LockHeld'
  BY DEF TypeOK, LockHeld

\* Frames that stay where they are keep their invariant if connections stay open
\* and the sessions of waiting frames are kept.
LEMMA FramesUnaffected ==
  ASSUME TypeOK, FrameInv, UNCHANGED frame, \A c \in Conn : opened[c] # {} => opened'[c] # {},
         \A f \in Frame : frame[f].at = "blocked" =>
             sessions'[frame[f].conn][frame[f].call] # NoFrame
  PROVE  FrameInv'
  BY DEF TypeOK, FrameInv, SessionOf

\* A frame that moves without blocking keeps both.
LEMMA MoveKeeps ==
  ASSUME TypeOK, FrameInv, NEW f \in Frame, NEW to \in FrameState, NEW c \in Conn, Moves(f, to, c),
         frame[f].at \notin {"unsent", "blocked"}, to \notin {"unsent", "blocked"},
         opened[c] # {}, UNCHANGED <<opened, lock>>,
         \A g \in Frame : frame[g].at = "blocked" => sessions'[frame[g].conn][frame[g].call] # NoFrame
  PROVE  LockHeld' /\ FrameInv' /\ frame' \in [Frame -> FrameRecord]
  <1>1. LockHeld'
    BY LockUnaffected DEF Moves
  <1>2. FrameInv'
    BY DEF FrameInv, SessionOf, Moves
  <1> QED BY <1>1, <1>2 DEF Moves

LEMMA TypeInit == Init => TypeOK /\ FrameInv
  <1> SUFFICES ASSUME Init PROVE TypeOK /\ FrameInv
    OBVIOUS
  <1> USE HostAssumption DEF Init
  <1>1. frame \in [Frame -> FrameRecord] /\ \A f \in Frame : frame[f].at = "unsent"
    BY DEF Unsent, FrameRecord, FrameState, InEngine
  <1>2. FrameInv
    BY <1>1 DEF FrameInv
  <1>3. LockHeld
    BY <1>1, FramesAreNotNone DEF LockHeld
  <1>4. /\ connections \in [Epoch -> Conn \cup {NoConn}]
        /\ opened \in [Conn -> {{}} \cup {{e} : e \in Epoch}]
        /\ drain \in [Conn -> {"none", "draining", "done"} \cup Release]
        /\ closing \in [Conn -> {"none", "queued", "done"} \cup Release]
        /\ reaping \subseteq Conn
    OBVIOUS
  <1>5. /\ lock \in [Conn -> Frame \cup {NoFrame}]
        /\ sessions \in [Conn -> [Call -> Frame \cup {NoFrame}]]
        /\ pending \in [Conn -> SUBSET Call]
        /\ input \in [Frame -> 0 .. InCap]
        /\ fwd \in [Frame -> {"none", "ended"} \cup Live]
        /\ registered \in [Conn -> SUBSET Frame]
        /\ taken \in [Frame -> {"none"} \cup Releaser]
        /\ queue \in [Conn -> 0 .. OutCap]
        /\ overlapped \subseteq Frame
    OBVIOUS
  <1>6. Shapes
    BY <1>1, <1>4, <1>5 DEF Shapes
  <1> QED BY <1>2, <1>3, <1>6, TypeParts

\* The page and the host.
LEMMA TypeOfPage ==
  ASSUME TypeOK, FrameInv,
         \/ \E c \in Conn, e \in Epoch : connect(c, e)
         \/ \E f \in Frame, c \in Conn, i \in Call, bidi, ends \in BOOLEAN :
              SendsFrame(f, c, i, bidi, ends)
         \/ \E e \in Epoch : disconnect(e)
         \/ disconnect_all
         \/ \E c \in Conn : ReapsNext(c)
  PROVE  TypeOK' /\ FrameInv'
  <1> USE DEF hostVars, releaseVars, engineVars, forwardVars, Release
  <1>0. Shapes /\ LockHeld
    BY TypeParts
  <1>1. ASSUME NEW c \in Conn, NEW e \in Epoch, connect(c, e) PROVE TypeOK' /\ FrameInv'
    <2>1. {e} \in {{}} \cup {{x} : x \in Epoch} /\ {e} # {}
      OBVIOUS
    <2>2. opened' \in [Conn -> {{}} \cup {{x} : x \in Epoch}]
      BY <1>0, <1>1, <2>1 DEF connect, Shapes
    <2>3. Shapes'
      BY <1>0, <1>1, <2>2 DEF connect, Shapes
    <2>4. LockHeld'
      BY <1>1, LockUnaffected DEF connect
    <2>5. FrameInv'
      <3>1. \A d \in Conn : opened[d] # {} => opened'[d] # {}
        BY <1>0, <1>1, <2>1 DEF connect, Shapes
      <3>2. \A f \in Frame : frame[f].at = "blocked" =>
              sessions'[frame[f].conn][frame[f].call] # NoFrame
        BY <1>1 DEF connect, FrameInv, SessionOf
      <3> QED BY <1>1, <3>1, <3>2, FramesUnaffected DEF connect
    <2> QED BY <2>3, <2>4, <2>5, TypePartsNext
  <1>2. ASSUME NEW f \in Frame, NEW c \in Conn, NEW i \in Call, NEW bidi \in BOOLEAN,
               NEW ends \in BOOLEAN, SendsFrame(f, c, i, bidi, ends)
        PROVE  TypeOK' /\ FrameInv'
    <2> DEFINE r == [at |-> "arrived", conn |-> c, call |-> i, bidi |-> bidi, ends |-> ends]
    <2>1. r \in FrameRecord /\ r.at = "arrived" /\ r.conn = c /\ r.call = i
      BY DEF FrameRecord, FrameState, InEngine
    <2>2. /\ frame' = [frame EXCEPT ![f] = r] /\ frame[f].at = "unsent" /\ opened[c] # {}
          /\ UNCHANGED <<hostVars, releaseVars, engineVars, forwardVars, overlapped>>
      BY <1>2 DEF SendsFrame
    <2> HIDE DEF r
    <2>3. frame' \in [Frame -> FrameRecord] /\ frame'[f] = r /\ \A g \in Frame : g # f => frame'[g] = frame[g]
      BY <1>0, <2>1, <2>2 DEF Shapes
    <2>4. Shapes'
      BY <1>0, <2>2, <2>3 DEF Shapes
    <2>5. LockHeld'
      BY <2>1, <2>2, <2>3, LockUnaffected
    <2>6. FrameInv'
      BY <2>1, <2>2, <2>3 DEF FrameInv, SessionOf
    <2> QED BY <2>4, <2>5, <2>6, TypePartsNext
  <1>3. ASSUME UNCHANGED <<opened, frame, engineVars, forwardVars, overlapped>>, Shapes'
        PROVE  TypeOK' /\ FrameInv'
    <2>1. LockHeld'
      BY <1>0, <1>3 DEF LockHeld
    <2>2. FrameInv'
      BY <1>3 DEF FrameInv, SessionOf
    <2> QED BY <1>3, <2>1, <2>2, TypePartsNext
  <1>4. ASSUME NEW e \in Epoch, disconnect(e) PROVE TypeOK' /\ FrameInv'
    <2>1. Shapes'
      BY <1>0, <1>4 DEF disconnect, Shapes
    <2> QED BY <1>3, <1>4, <2>1 DEF disconnect
  <1>5. CASE disconnect_all
    <2>1. reaping' \subseteq Conn
      BY <1>0, <1>5 DEF disconnect_all, Shapes
    <2>2. Shapes'
      BY <1>0, <1>5, <2>1 DEF disconnect_all, Shapes
    <2> QED BY <1>3, <1>5, <2>2 DEF disconnect_all
  <1>6. ASSUME NEW c \in Conn, ReapsNext(c) PROVE TypeOK' /\ FrameInv'
    <2>1. Shapes'
      BY <1>0, <1>6 DEF ReapsNext, Shapes
    <2> QED BY <1>3, <1>6, <2>1 DEF ReapsNext
  <1> QED BY <1>1, <1>2, <1>4, <1>5, <1>6

\* The task of a frame.
LEMMA TypeOfFrame ==
  ASSUME TypeOK, FrameInv, MapInv, NEW f \in Frame, FrameStep(f)
  PROVE  TypeOK' /\ FrameInv'
  <1> USE HostAssumption DEF hostVars, releaseVars, engineVars, forwardVars
  <1> DEFINE c == frame[f].conn
             i == frame[f].call
             others == <<connections, opened, reaping, drain, closing, overlapped>>
  <1>0. Shapes /\ LockHeld
    BY TypeParts
  <1>1. frame[f].at # "unsent" /\ FrameState = {"unsent", "arrived", "returned", "routed",
                                               "unclaimed", "blocked", "spawning"}
    BY DEF FrameStep, handle_request_frame, NoSession, Collects, route_bidi_continuation,
       WaitsForRoom, FindsRoom, open_bidi_session, spawn, FrameState, InEngine
  <1>2. c \in Conn /\ i \in Call /\ opened[c] # {}
    BY <1>1 DEF FrameInv
  <1>3. ASSUME UNCHANGED <<others, lock>>, frame[f].at # "blocked",
               NEW to \in FrameState \ {"unsent", "blocked"}, Goes(f, to),
               \A g \in Frame : frame[g].at = "blocked" =>
                   sessions'[frame[g].conn][frame[g].call] # NoFrame
        PROVE  LockHeld' /\ FrameInv' /\ frame' \in [Frame -> FrameRecord]
    <2>1. Moves(f, to, c)
      BY <1>3, GoesMoves
    <2> QED BY <1>1, <1>2, <1>3, <2>1, MoveKeeps
  <1>4. ASSUME UNCHANGED sessions
        PROVE  \A g \in Frame : frame[g].at = "blocked" =>
                   sessions'[frame[g].conn][frame[g].call] # NoFrame
    BY <1>4 DEF FrameInv, SessionOf
  <1>5. CASE handle_request_frame(f)
    <2>1. /\ UNCHANGED <<others, lock, sessions, pending, registered, taken, input, fwd, queue>>
          /\ frame[f].at = "arrived"
      BY <1>5 DEF handle_request_frame
    <2>2. ASSUME NEW to \in {"returned", "routed"}, NEW d \in Conn, opened[d] # {}, Moves(f, to, d)
          PROVE  LockHeld' /\ FrameInv' /\ frame' \in [Frame -> FrameRecord]
      BY <1>1, <1>4, <2>1, <2>2, MoveKeeps
    <2>3. \A e \in Epoch : connections[e] # NoConn =>
            connections[e] \in Conn /\ opened[connections[e]] # {}
      BY <1>0 DEF Shapes, MapInv
    <2>4. LockHeld' /\ FrameInv' /\ frame' \in [Frame -> FrameRecord]
      BY <1>2, <1>5, <2>2, <2>3, RouteMoves
    <2>5. Shapes'
      BY <1>0, <2>1, <2>4 DEF Shapes
    <2> QED BY <2>4, <2>5, TypePartsNext
  <1>6. CASE NoSession(f)
    <2>1. /\ UNCHANGED <<others, lock, sessions, pending, registered, taken, input, fwd, queue>>
          /\ frame[f].at = "routed" /\ Goes(f, "unclaimed")
      BY <1>6 DEF NoSession
    <2>2. LockHeld' /\ FrameInv' /\ frame' \in [Frame -> FrameRecord]
      BY <1>1, <1>3, <1>4, <2>1
    <2>3. Shapes'
      BY <1>0, <2>1, <2>2 DEF Shapes
    <2> QED BY <2>2, <2>3, TypePartsNext
  <1>7. CASE Collects(f)
    <2>1. /\ UNCHANGED <<others, lock, sessions, registered, taken, input, fwd, queue>>
          /\ frame[f].at = "unclaimed"
          /\ \E to \in {"spawning", "returned"} : Goes(f, to)
      BY <1>7 DEF Collects
    <2>2. LockHeld' /\ FrameInv' /\ frame' \in [Frame -> FrameRecord]
      BY <1>1, <1>3, <1>4, <2>1
    <2>3. pending' \in [Conn -> SUBSET Call]
      BY <1>0, <1>2, <1>7 DEF Collects, Shapes
    <2>4. Shapes'
      BY <1>0, <2>1, <2>2, <2>3 DEF Shapes
    <2> QED BY <2>2, <2>4, TypePartsNext
  <1>8. ASSUME Delivered(f), CanDeliver(SessionOf(f)), SessionOf(f) # NoFrame
        PROVE  /\ input' \in [Frame -> 0 .. InCap]
               /\ sessions' \in [Conn -> [Call -> Frame \cup {NoFrame}]]
               /\ \A d \in Conn : d # c => sessions'[d] = sessions[d]
               /\ UNCHANGED <<others, pending, registered, taken, fwd, queue>> /\ Goes(f, "returned")
    <2>1. SessionOf(f) \in Frame /\ input[SessionOf(f)] \in 0 .. InCap
      BY <1>0, <1>2, <1>8 DEF SessionOf, Shapes
    <2>2. input[SessionOf(f)] + 1 \in 0 .. InCap
      BY <1>8, <2>1 DEF CanDeliver
    <2>3. input' \in [Frame -> 0 .. InCap]
      BY <1>0, <1>8, <2>1, <2>2 DEF Delivered, Shapes
    <2>4. /\ sessions' \in [Conn -> [Call -> Frame \cup {NoFrame}]]
          /\ \A d \in Conn : d # c => sessions'[d] = sessions[d]
      BY <1>0, <1>2, <1>8 DEF Delivered, Shapes
    <2> QED BY <1>8, <2>3, <2>4 DEF Delivered
  <1>9. CASE route_bidi_continuation(f)
    <2>1. /\ frame[f].at = "routed" /\ lock[c] = NoFrame /\ UNCHANGED lock
          /\ Delivered(f) /\ CanDeliver(SessionOf(f)) /\ SessionOf(f) # NoFrame
      BY <1>9 DEF route_bidi_continuation
    <2>2. ASSUME NEW g \in Frame, frame[g].at = "blocked"
          PROVE  sessions'[frame[g].conn][frame[g].call] # NoFrame
      <3>1. frame[g].conn # c /\ frame[g].conn \in Conn /\ SessionOf(g) # NoFrame
        BY <1>2, <2>1, <2>2, LockFree DEF FrameInv
      <3> QED BY <1>8, <2>1, <3>1 DEF SessionOf
    <2>3. LockHeld' /\ FrameInv' /\ frame' \in [Frame -> FrameRecord]
      BY <1>1, <1>3, <1>8, <2>1, <2>2
    <2>4. Shapes'
      BY <1>0, <1>8, <2>1, <2>3 DEF Shapes
    <2> QED BY <2>3, <2>4, TypePartsNext
  <1>10. CASE WaitsForRoom(f)
    <2>1. /\ frame[f].at = "routed" /\ lock[c] = NoFrame /\ SessionOf(f) # NoFrame
          /\ lock' = [lock EXCEPT ![c] = f] /\ Goes(f, "blocked")
          /\ UNCHANGED <<others, sessions, pending, registered, taken, input, fwd, queue>>
      BY <1>10 DEF WaitsForRoom
    <2>2. Moves(f, "blocked", c)
      BY <1>1, <2>1, GoesMoves
    <2>3. Shapes'
      BY <1>0, <1>2, <2>1, <2>2 DEF Shapes, Moves
    <2>4. LockHeld'
      <3> SUFFICES ASSUME NEW g \in Frame, NEW d \in Conn
                   PROVE  lock'[d] = g <=> frame'[g].at = "blocked" /\ frame'[g].conn = d
        BY DEF LockHeld
      <3>1. CASE d = c
        <4>1. lock'[d] = f
          BY <1>0, <2>1, <3>1 DEF Shapes
        <4>2. g # f => frame'[g] = frame[g] /\ ~(frame[g].at = "blocked" /\ frame[g].conn = c)
          BY <1>2, <2>1, <2>2, LockFree DEF Moves
        <4> QED BY <2>2, <3>1, <4>1, <4>2 DEF Moves
      <3>2. CASE d # c
        <4>1. lock'[d] = lock[d]
          BY <1>0, <2>1, <3>2 DEF Shapes
        <4> QED BY <1>0, <2>1, <2>2, <3>2, <4>1 DEF Moves, LockHeld
      <3> QED BY <3>1, <3>2
    <2>5. FrameInv'
      BY <1>2, <2>1, <2>2 DEF FrameInv, SessionOf, Moves
    <2> QED BY <2>3, <2>4, <2>5, TypePartsNext
  <1>11. CASE FindsRoom(f)
    <2>1. /\ frame[f].at = "blocked" /\ lock' = [lock EXCEPT ![c] = NoFrame]
          /\ Delivered(f) /\ CanDeliver(SessionOf(f)) /\ SessionOf(f) # NoFrame
      BY <1>11 DEF FindsRoom, FrameInv
    <2>2. Moves(f, "returned", c)
      BY <1>1, <1>8, <2>1, GoesMoves
    <2>3. lock[c] = f
      BY <1>0, <1>2, <2>1 DEF LockHeld
    <2>4. Shapes'
      BY <1>0, <1>8, <2>1, <2>2 DEF Shapes, Moves
    <2>5. LockHeld'
      <3> SUFFICES ASSUME NEW g \in Frame, NEW d \in Conn
                   PROVE  lock'[d] = g <=> frame'[g].at = "blocked" /\ frame'[g].conn = d
        BY DEF LockHeld
      <3>1. CASE d = c
        <4>1. lock'[d] = NoFrame /\ g # NoFrame
          BY <1>0, <2>1, <3>1, FramesAreNotNone DEF Shapes
        <4>2. g # f => frame'[g] = frame[g] /\ ~(frame[g].at = "blocked" /\ frame[g].conn = c)
          BY <1>0, <1>2, <2>2, <2>3 DEF Moves, LockHeld
        <4> QED BY <2>2, <3>1, <4>1, <4>2 DEF Moves
      <3>2. CASE d # c
        <4>1. lock'[d] = lock[d]
          BY <1>0, <2>1, <3>2 DEF Shapes
        <4> QED BY <1>0, <2>1, <2>2, <3>2, <4>1 DEF Moves, LockHeld
      <3> QED BY <3>1, <3>2
    <2>6. FrameInv'
      <3> SUFFICES ASSUME NEW g \in Frame
                   PROVE  /\ frame'[g].at # "unsent" =>
                               /\ frame'[g].conn \in Conn /\ frame'[g].call \in Call
                               /\ opened'[frame'[g].conn] # {}
                          /\ frame'[g].at = "blocked" => sessions'[frame'[g].conn][frame'[g].call] # NoFrame
        BY DEF FrameInv, SessionOf
      <3>1. CASE g = f
        BY <1>2, <1>8, <2>1, <2>2, <3>1 DEF Moves
      <3>2. CASE g # f
        <4>1. frame'[g] = frame[g] /\ (frame[g].at = "blocked" => frame[g].conn # c)
          BY <1>0, <1>2, <2>2, <2>3, <3>2 DEF Moves, LockHeld
        <4> QED BY <1>8, <2>1, <4>1 DEF FrameInv, SessionOf
      <3> QED BY <3>1, <3>2
    <2> QED BY <2>4, <2>5, <2>6, TypePartsNext
  <1>12. CASE open_bidi_session(f)
    <2>1. /\ UNCHANGED <<others, lock, pending, registered, taken, fwd, queue>>
          /\ frame[f].at = "unclaimed" /\ Goes(f, "spawning")
          /\ input' = [input EXCEPT ![f] = 1]
          /\ sessions' = [sessions EXCEPT ![c][i] = IF frame[f].ends THEN @ ELSE f]
      BY <1>12 DEF open_bidi_session
    <2>2. ASSUME NEW g \in Frame, frame[g].at = "blocked"
          PROVE  sessions'[frame[g].conn][frame[g].call] # NoFrame
      <3>1. frame[g].conn \in Conn /\ frame[g].call \in Call /\ SessionOf(g) # NoFrame
        BY <2>2 DEF FrameInv
      <3> QED BY <1>0, <1>2, <2>1, <3>1, FramesAreNotNone DEF SessionOf, Shapes
    <2>3. LockHeld' /\ FrameInv' /\ frame' \in [Frame -> FrameRecord]
      BY <1>1, <1>3, <2>1, <2>2
    <2>4. input' \in [Frame -> 0 .. InCap]
      <3>1. 1 \in 0 .. InCap
        OBVIOUS
      <3> QED BY <1>0, <2>1, <3>1 DEF Shapes
    <2>5. sessions' \in [Conn -> [Call -> Frame \cup {NoFrame}]]
      BY <1>0, <1>2, <2>1 DEF Shapes
    <2>6. Shapes'
      BY <1>0, <2>1, <2>3, <2>4, <2>5 DEF Shapes
    <2> QED BY <2>3, <2>6, TypePartsNext
  <1>13. CASE spawn(f)
    <2>1. /\ UNCHANGED <<others, lock, sessions, pending, taken, input, queue>>
          /\ frame[f].at = "spawning" /\ Goes(f, "returned")
          /\ fwd' = [fwd EXCEPT ![f] = "running"]
          /\ registered' = [registered EXCEPT ![c] = @ \cup {f}]
      BY <1>13 DEF spawn
    <2>2. LockHeld' /\ FrameInv' /\ frame' \in [Frame -> FrameRecord]
      BY <1>1, <1>3, <1>4, <2>1
    <2>3. Shapes'
      BY <1>0, <2>1, <2>2 DEF Shapes, Live
    <2> QED BY <2>2, <2>3, TypePartsNext
  <1> QED BY <1>5, <1>6, <1>7, <1>9, <1>10, <1>11, <1>12, <1>13 DEF FrameStep

\* Steps that leave the frames, the lock and what is open alone.
LEMMA TypeAround ==
  ASSUME TypeOK, FrameInv, UNCHANGED <<opened, frame, lock>>, Shapes',
         \A g \in Frame : frame[g].at = "blocked" =>
             sessions'[frame[g].conn][frame[g].call] # NoFrame
  PROVE  TypeOK' /\ FrameInv'
  <1>1. LockHeld'
    BY LockUnaffected
  <1>2. FrameInv'
    BY FramesUnaffected
  <1> QED BY <1>1, <1>2, TypePartsNext

\* A forward and its handler.
LEMMA TypeOfForward ==
  ASSUME TypeOK, FrameInv, ForwardInv, NEW f \in Frame,
         PublishStep(f) \/ HandlerReads(f) \/ HandlerProduces(f)
  PROVE  TypeOK' /\ FrameInv'
  <1> USE HostAssumption DEF hostVars, releaseVars, engineVars, forwardVars, Live
  <1> DEFINE c == frame[f].conn
  <1>0. Shapes
    BY TypeParts
  <1>1. c \in Conn
    BY DEF PublishStep, forward_response_body, FindsQueueClosed, HandlerReads, HandlerProduces,
       ForwardInv, FrameInv
  <1>2. ASSUME forget(f)
        PROVE  /\ registered' \in [Conn -> SUBSET Frame] /\ taken' \in [Frame -> {"none"} \cup Releaser]
               /\ input' \in [Frame -> 0 .. InCap]
    <2>1. 0 \in 0 .. InCap
      OBVIOUS
    <2> QED BY <1>0, <1>1, <1>2, <2>1 DEF forget, Shapes
  <1>3. ASSUME UNCHANGED <<hostVars, releaseVars, frame, lock, sessions, pending, overlapped>>,
               input' \in [Frame -> 0 .. InCap], fwd' \in [Frame -> {"none", "ended"} \cup Live],
               registered' \in [Conn -> SUBSET Frame], queue' \in [Conn -> 0 .. OutCap],
               taken' \in [Frame -> {"none"} \cup Releaser]
        PROVE  TypeOK' /\ FrameInv'
    <2>1. Shapes'
      BY <1>0, <1>3 DEF Shapes
    <2>2. \A g \in Frame : frame[g].at = "blocked" =>
             sessions'[frame[g].conn][frame[g].call] # NoFrame
      BY <1>3 DEF FrameInv, SessionOf
    <2> QED BY <1>3, <2>1, <2>2, TypeAround
  <1>4. ASSUME NEW to \in {"ended", "running", "parked"}, ForwardGoes(f, to)
        PROVE  /\ UNCHANGED <<hostVars, releaseVars, frame, lock, sessions, pending, overlapped>>
               /\ fwd' \in [Frame -> {"none", "ended"} \cup Live]
    BY <1>0, <1>4 DEF ForwardGoes, Shapes
  <1>6. ASSUME NEW last \in BOOLEAN, forward_response_body(f, last) PROVE TypeOK' /\ FrameInv'
    <2>1. queue[c] \in 0 .. OutCap /\ queue[c] < OutCap
      BY <1>0, <1>1, <1>6 DEF forward_response_body, Shapes
    <2>2. queue[c] + 1 \in 0 .. OutCap
      BY <2>1
    <2>3. queue' \in [Conn -> 0 .. OutCap]
      BY <1>0, <1>1, <1>6, <2>2 DEF forward_response_body, Shapes
    <2>4. /\ input' \in [Frame -> 0 .. InCap] /\ registered' \in [Conn -> SUBSET Frame]
          /\ taken' \in [Frame -> {"none"} \cup Releaser]
      BY <1>0, <1>2, <1>6 DEF forward_response_body, Shapes
    <2>5. \E to \in {"ended", "running", "parked"} : ForwardGoes(f, to)
      BY <1>6 DEF forward_response_body
    <2> QED BY <1>3, <1>4, <2>3, <2>4, <2>5
  <1>7. CASE FindsQueueClosed(f)
    BY <1>0, <1>2, <1>3, <1>4, <1>7 DEF FindsQueueClosed, Shapes
  <1>8. CASE HandlerReads(f)
    <2>1. input[f] \in 0 .. InCap /\ input[f] > 0
      BY <1>0, <1>8 DEF HandlerReads, Shapes
    <2>2. input[f] - 1 \in 0 .. InCap
      BY <2>1
    <2>3. input' \in [Frame -> 0 .. InCap]
      BY <1>0, <1>8, <2>2 DEF HandlerReads, Shapes
    <2> QED BY <1>0, <1>3, <1>4, <1>8, <2>3 DEF HandlerReads, Shapes
  <1>9. CASE HandlerProduces(f)
    BY <1>0, <1>3, <1>4, <1>9 DEF HandlerProduces, Shapes
  <1> QED BY <1>6, <1>7, <1>8, <1>9 DEF PublishStep

\* The drain of a connection.
LEMMA TypeOfDrain ==
  ASSUME TypeOK, FrameInv, NEW c \in Conn, DrainStep(c)
  PROVE  TypeOK' /\ FrameInv'
  <1> USE HostAssumption DEF hostVars, releaseVars, engineVars, forwardVars, Release
  <1>0. Shapes
    BY TypeParts
  <1>1. ASSUME UNCHANGED <<opened, reaping, closing, frame, engineVars, input, fwd, overlapped>>,
               connections' \in [Epoch -> Conn \cup {NoConn}], queue' \in [Conn -> 0 .. OutCap],
               drain' \in [Conn -> {"none", "draining", "done"} \cup Release]
        PROVE  TypeOK' /\ FrameInv'
    <2>1. Shapes'
      BY <1>0, <1>1 DEF Shapes
    <2>2. \A g \in Frame : frame[g].at = "blocked" =>
             sessions'[frame[g].conn][frame[g].call] # NoFrame
      BY <1>1 DEF FrameInv, SessionOf
    <2> QED BY <1>1, <2>1, <2>2, TypeAround
  <1>2. ASSUME TakesResponse(c)
        PROVE  /\ UNCHANGED <<opened, reaping, closing, frame, engineVars, input, fwd, overlapped>>
               /\ queue' \in [Conn -> 0 .. OutCap]
    <2>1. queue[c] \in 0 .. OutCap /\ queue[c] > 0
      BY <1>0, <1>2 DEF TakesResponse, Shapes
    <2>2. queue[c] - 1 \in 0 .. OutCap
      BY <2>1
    <2>3. queue' \in [Conn -> 0 .. OutCap]
      BY <1>0, <1>2, <2>2 DEF TakesResponse, Shapes
    <2> QED BY <1>2, <2>3 DEF TakesResponse
  <1>3. CASE drain_responses(c)
    BY <1>0, <1>1, <1>2, <1>3 DEF drain_responses, Shapes
  <1>4. CASE release_departed_connection(c)
    <2>1. drain' \in [Conn -> {"none", "draining", "done"} \cup Release]
      BY <1>0, <1>4 DEF release_departed_connection, Shapes
    <2>2. connections' \in [Epoch -> Conn \cup {NoConn}]
      BY <1>0, <1>4 DEF release_departed_connection, Without, Shapes
    <2> QED BY <1>1, <1>2, <1>4, <2>1, <2>2 DEF release_departed_connection
  <1>5. CASE DrainEnds(c)
    <2>1. drain' \in [Conn -> {"none", "draining", "done"} \cup Release]
      BY <1>0, <1>5 DEF DrainEnds, Shapes
    <2> QED BY <1>0, <1>1, <1>5, <2>1 DEF DrainEnds, Shapes
  <1> QED BY <1>3, <1>4, <1>5 DEF DrainStep

\* A release.
LEMMA TypeOfRelease ==
  ASSUME TypeOK, FrameInv, NEW c \in Conn, NEW who \in Releaser, ReleaseStep(who, c)
  PROVE  TypeOK' /\ FrameInv'
  <1> USE HostAssumption DEF forwardVars
  <1>0. Shapes
    BY TypeParts
  <1>1. ASSUME NEW to \in {"pending", "forwards", "aborting", "done"}, ReleaseGoes(who, c, to),
               sessions' \in [Conn -> [Call -> Frame \cup {NoFrame}]], pending' \in [Conn -> SUBSET Call],
               input' \in [Frame -> 0 .. InCap], fwd' \in [Frame -> {"none", "ended"} \cup Live],
               registered' \in [Conn -> SUBSET Frame], taken' \in [Frame -> {"none"} \cup Releaser],
               queue' \in [Conn -> 0 .. OutCap], overlapped' \subseteq Frame,
               \A g \in Frame : frame[g].at = "blocked" =>
                  sessions'[frame[g].conn][frame[g].call] # NoFrame
        PROVE  TypeOK' /\ FrameInv'
    <2>1. /\ drain' \in [Conn -> {"none", "draining", "done"} \cup Release]
          /\ closing' \in [Conn -> {"none", "queued", "done"} \cup Release]
          /\ reaping' \subseteq Conn
      BY <1>0, <1>1 DEF ReleaseGoes, Shapes, Release
    <2>2. UNCHANGED <<connections, opened, frame, lock>>
      BY <1>1 DEF ReleaseGoes
    <2>3. Shapes'
      BY <1>0, <1>1, <2>1, <2>2 DEF Shapes
    <2> QED BY <1>1, <2>2, <2>3, TypeAround
  <1>2. ASSUME UNCHANGED sessions
        PROVE  \A g \in Frame : frame[g].at = "blocked" =>
                  sessions'[frame[g].conn][frame[g].call] # NoFrame
    BY <1>2 DEF FrameInv, SessionOf
  <1>3. CASE DropsSessions(who, c)
    <2>1. sessions' = [sessions EXCEPT ![c] = [i \in Call |-> NoFrame]] /\ lock[c] = NoFrame
      BY <1>3 DEF DropsSessions
    <2>2. /\ sessions' \in [Conn -> [Call -> Frame \cup {NoFrame}]]
          /\ \A d \in Conn : d # c => sessions'[d] = sessions[d]
      BY <1>0, <2>1 DEF Shapes
    <2>3. ASSUME NEW g \in Frame, frame[g].at = "blocked"
          PROVE  sessions'[frame[g].conn][frame[g].call] # NoFrame
      <3>1. frame[g].conn # c /\ frame[g].conn \in Conn
        BY <2>1, <2>3, LockFree DEF FrameInv
      <3> QED BY <2>2, <2>3, <3>1 DEF FrameInv, SessionOf
    <2>4. overlapped' \subseteq Frame
      BY <1>0, <1>3 DEF DropsSessions, Shapes
    <2> QED BY <1>0, <1>1, <1>3, <2>2, <2>3, <2>4 DEF DropsSessions, Shapes
  <1>4. CASE DropsPending(who, c)
    <2>1. pending' \in [Conn -> SUBSET Call]
      BY <1>0, <1>4 DEF DropsPending, Shapes
    <2> QED BY <1>0, <1>1, <1>2, <1>4, <2>1 DEF DropsPending, Shapes
  <1>5. CASE TakesForwards(who, c)
    <2>1. registered' \in [Conn -> SUBSET Frame] /\ taken' \in [Frame -> {"none"} \cup Releaser]
      BY <1>0, <1>5 DEF TakesForwards, Shapes
    <2> QED BY <1>0, <1>1, <1>2, <1>5, <2>1 DEF TakesForwards, Shapes
  <1>6. ASSUME NEW f \in Frame, AbortsForward(who, c, f) PROVE TypeOK' /\ FrameInv'
    <2>1. 0 \in 0 .. InCap
      OBVIOUS
    <2>2. /\ input' \in [Frame -> 0 .. InCap] /\ taken' \in [Frame -> {"none"} \cup Releaser]
          /\ fwd' \in [Frame -> {"none", "ended"} \cup Live]
      BY <1>0, <1>6, <2>1 DEF AbortsForward, Shapes
    <2>3. Shapes'
      BY <1>0, <1>6, <2>2 DEF AbortsForward, hostVars, releaseVars, Shapes
    <2> QED BY <1>2, <1>6, <2>3, TypeAround DEF AbortsForward, hostVars
  <1>7. CASE ReleaseReturns(who, c)
    <2>1. 0 \in 0 .. OutCap
      OBVIOUS
    <2>2. queue' \in [Conn -> 0 .. OutCap]
      BY <1>0, <1>7, <2>1 DEF ReleaseReturns, Returns, Shapes
    <2> QED BY <1>0, <1>1, <1>2, <1>7, <2>2 DEF ReleaseReturns, Returns, Shapes
  <1> QED BY <1>3, <1>4, <1>5, <1>6, <1>7 DEF ReleaseStep

(***************************************************************************)
(* The map of connections.                                                 *)
(***************************************************************************)

\* Connections are neither 0 nor without a place in TypeOK's functions.
LEMMA ConnFacts ==
  ASSUME TypeOK
  PROVE  /\ \A c \in Conn : c # NoConn
         /\ \A e \in Epoch : connections[e] # NoConn => connections[e] \in Conn
         /\ DOMAIN drain = Conn /\ DOMAIN closing = Conn /\ DOMAIN opened = Conn
         /\ DOMAIN connections = Epoch
         /\ \A c \in Conn : opened[c] \subseteq Epoch
  <1>1. \A c \in Conn : c # NoConn
    BY HostAssumption DEF Conn, NoConn
  <1> QED BY <1>1 DEF TypeOK

LEMMA MapInit == Init => MapInv /\ SuccessorKeepsServing
  BY HostAssumption DEF Init, MapInv, SuccessorKeepsServing, Conn, NoConn

\* A release of c goes on: c has left the map already.
LEMMA MapOfRelease ==
  ASSUME TypeOK, MapInv, SuccessorKeepsServing, NEW c \in Conn,
         UNCHANGED <<connections, opened>>,
         \/ /\ drain[c] \notin {"none", "draining"} \/ closing[c] # "none"
            /\ \E to \in {"pending", "forwards", "aborting", "done"} : drain' = [drain EXCEPT ![c] = to]
            /\ UNCHANGED closing
         \/ /\ closing[c] # "none"
            /\ \E to \in {"sessions", "pending", "forwards", "aborting", "done"} :
                 closing' = [closing EXCEPT ![c] = to]
            /\ UNCHANGED drain
  PROVE  MapInv' /\ SuccessorKeepsServing'
  <1>1. opened[c] # {} /\ \A e \in Epoch : connections[e] # c
    BY DEF MapInv
  <1>2. \A d \in Conn : d # c => drain'[d] = drain[d] /\ closing'[d] = closing[d]
    BY ConnFacts
  <1>3. drain'[c] # "draining" \/ closing'[c] # "none"
    BY ConnFacts
  <1>4. MapInv'
    BY <1>1, <1>2 DEF MapInv
  <1>5. SuccessorKeepsServing'
    BY <1>2, <1>3 DEF SuccessorKeepsServing
  <1> QED BY <1>4, <1>5

LEMMA MapStep ==
  ASSUME TypeOK, MapInv, SuccessorKeepsServing, [Next]_vars
  PROVE  MapInv' /\ SuccessorKeepsServing'
  <1> USE DEF hostVars, releaseVars
  <1>1. ASSUME UNCHANGED <<connections, opened, drain, closing>>
        PROVE  MapInv' /\ SuccessorKeepsServing'
    BY <1>1 DEF MapInv, SuccessorKeepsServing
  <1>2. ASSUME NEW c \in Conn, NEW e \in Epoch, connect(c, e)
        PROVE  MapInv' /\ SuccessorKeepsServing'
    <2>1. /\ opened[c] = {} /\ connections[e] = NoConn /\ UNCHANGED closing
          /\ connections' = [connections EXCEPT ![e] = c]
          /\ opened' = [opened EXCEPT ![c] = {e}]
          /\ drain' = [drain EXCEPT ![c] = "draining"]
      BY <1>2 DEF connect
    <2>2. /\ connections'[e] = c /\ opened'[c] = {e} /\ drain'[c] = "draining"
          /\ \A d \in Conn : d # c => opened'[d] = opened[d] /\ drain'[d] = drain[d]
          /\ \A x \in Epoch : x # e => connections'[x] = connections[x]
      BY <2>1, ConnFacts
    <2>3. closing[c] = "none" /\ \A x \in Epoch : connections[x] # c
      BY <2>1 DEF MapInv
    <2>4. MapInv'
      BY <2>1, <2>2, <2>3 DEF MapInv
    <2>5. SuccessorKeepsServing'
      <3> SUFFICES ASSUME NEW d \in Conn, drain'[d] = "draining", closing'[d] = "none"
                   PROVE  \E x \in opened'[d] : connections'[x] = d
        BY DEF SuccessorKeepsServing
      <3>1. CASE d = c
        BY <2>2, <3>1
      <3>2. CASE d # c
        <4>1. PICK x \in opened[d] : connections[x] = d
          BY <2>1, <2>2, <3>2 DEF SuccessorKeepsServing
        <4>2. x \in Epoch /\ x # e
          BY <2>1, <4>1, ConnFacts
        <4> QED BY <2>2, <3>2, <4>1, <4>2
      <3> QED BY <3>1, <3>2
    <2> QED BY <2>4, <2>5
  <1>3. ASSUME NEW c \in Conn, DrainStep(c) PROVE MapInv' /\ SuccessorKeepsServing'
    <2>1. CASE drain_responses(c)
      BY <1>1, <2>1 DEF drain_responses, TakesResponse
    <2>2. CASE release_departed_connection(c)
      <3>1. /\ drain[c] = "draining" /\ UNCHANGED <<opened, closing>>
            /\ drain'[c] = "sessions" /\ \A d \in Conn : d # c => drain'[d] = drain[d]
            /\ \A e \in Epoch : connections'[e] = IF connections[e] = c THEN NoConn ELSE connections[e]
        BY <2>2, ConnFacts DEF release_departed_connection, TakesResponse, Without
      <3>2. MapInv'
        BY <3>1, ConnFacts DEF MapInv
      <3>3. SuccessorKeepsServing'
        BY <3>1, ConnFacts DEF SuccessorKeepsServing
      <3> QED BY <3>2, <3>3
    <2>3. CASE DrainEnds(c)
      <3>1. /\ closing[c] = "done" /\ UNCHANGED <<connections, opened, closing>>
            /\ drain' = [drain EXCEPT ![c] = "done"]
        BY <2>3 DEF DrainEnds
      <3> QED BY <3>1, MapOfRelease
    <2> QED BY <1>3, <2>1, <2>2, <2>3 DEF DrainStep
  <1>4. ASSUME NEW c \in Conn, ReapsNext(c) PROVE MapInv' /\ SuccessorKeepsServing'
    <2>1. /\ closing[c] = "queued" /\ UNCHANGED <<connections, opened, drain>>
          /\ closing' = [closing EXCEPT ![c] = "sessions"]
      BY <1>4 DEF ReapsNext
    <2> QED BY <2>1, MapOfRelease
  <1>5. ASSUME NEW c \in Conn, NEW who \in Releaser, ReleaseStep(who, c)
        PROVE  MapInv' /\ SuccessorKeepsServing'
    <2>1. \/ /\ At(who, c) \in Release
             /\ \E to \in {"pending", "forwards", "aborting", "done"} : ReleaseGoes(who, c, to)
          \/ UNCHANGED <<connections, opened, drain, closing>>
      BY <1>5 DEF ReleaseStep, DropsSessions, DropsPending, TakesForwards, AbortsForward,
         ReleaseReturns, Returns, Release
    <2>2. CASE who = "drain"
      BY <1>1, <2>1, <2>2, MapOfRelease DEF ReleaseGoes, At, Release
    <2>3. CASE who # "drain"
      BY <1>1, <2>1, <2>3, MapOfRelease DEF ReleaseGoes, At, Release
    <2> QED BY <2>2, <2>3
  <1>6. ASSUME NEW e \in Epoch, disconnect(e) PROVE MapInv' /\ SuccessorKeepsServing'
    <2> DEFINE c == connections[e]
    <2>1. /\ c \in Conn /\ opened[c] = {e} /\ UNCHANGED <<opened, drain>>
      BY <1>6, ConnFacts DEF disconnect, MapInv
    <2>2. /\ closing'[c] = "sessions" /\ \A d \in Conn : d # c => closing'[d] = closing[d]
          /\ connections'[e] = NoConn
          /\ \A x \in Epoch : x # e => connections'[x] = connections[x]
      BY <1>6, <2>1, ConnFacts DEF disconnect
    <2> HIDE DEF c
    <2>3. \A x \in Epoch : x # e => connections[x] # c
      BY <2>1 DEF MapInv
    <2>4. MapInv'
      BY <2>1, <2>2, <2>3, ConnFacts DEF MapInv
    <2>5. SuccessorKeepsServing'
      BY <2>1, <2>2, ConnFacts DEF SuccessorKeepsServing, c
    <2> QED BY <2>4, <2>5
  <1>7. CASE disconnect_all
    <2>1. /\ UNCHANGED <<opened, drain>>
          /\ \A x \in Epoch : connections'[x] = NoConn
          /\ \A d \in Conn : closing'[d] = IF \E x \in Epoch : connections[x] = d
                                           THEN "queued" ELSE closing[d]
      BY <1>7, ConnFacts DEF disconnect_all
    <2>2. MapInv'
      BY <2>1, ConnFacts DEF MapInv
    <2>3. SuccessorKeepsServing'
      BY <2>1, ConnFacts DEF SuccessorKeepsServing
    <2> QED BY <2>2, <2>3
  <1>8. ASSUME NEW f \in Frame, NEW c \in Conn, NEW i \in Call, NEW bidi \in BOOLEAN,
               NEW ends \in BOOLEAN, SendsFrame(f, c, i, bidi, ends)
        PROVE  MapInv' /\ SuccessorKeepsServing'
    BY <1>1, <1>8 DEF SendsFrame
  <1>9. ASSUME NEW f \in Frame, FrameStep(f) PROVE MapInv' /\ SuccessorKeepsServing'
    BY <1>1, <1>9 DEF FrameStep, handle_request_frame, NoSession, Collects, route_bidi_continuation,
       WaitsForRoom, FindsRoom, open_bidi_session, spawn, Delivered
  <1>10. ASSUME NEW f \in Frame, PublishStep(f) \/ HandlerReads(f) \/ HandlerProduces(f)
         PROVE  MapInv' /\ SuccessorKeepsServing'
    BY <1>1, <1>10 DEF PublishStep, forward_response_body, FindsQueueClosed, HandlerReads,
       HandlerProduces, ForwardGoes
  <1>11. CASE UNCHANGED vars
    BY <1>1, <1>11 DEF vars
  <1> QED BY <1>2, <1>3, <1>4, <1>5, <1>6, <1>7, <1>8, <1>9, <1>10, <1>11 DEF Next

(***************************************************************************)
(* Forwards.                                                               *)
(***************************************************************************)

\* A frame inside on_request goes on, or returns, on its connection.
LEMMA EngineMoves ==
  ASSUME TypeOK, NEW f \in Frame, FrameStep(f), ~handle_request_frame(f)
  PROVE  /\ frame[f].at \in InEngine
         /\ \E to \in InEngine \cup {"returned"} : Moves(f, to, frame[f].conn)
  <1>1. frame[f].at \in InEngine /\ \E to \in InEngine \cup {"returned"} : Goes(f, to)
    BY DEF FrameStep, NoSession, Collects, route_bidi_continuation, Delivered,
       WaitsForRoom, FindsRoom, open_bidi_session, spawn, InEngine
  <1>2. InEngine \cup {"returned"} \subseteq FrameState
    BY DEF FrameState
  <1> QED BY <1>1, <1>2, GoesMoves

LEMMA ForwardInit == Init => ForwardInv /\ TakenInv /\ ReleaseInv
  <1> SUFFICES ASSUME Init PROVE ForwardInv /\ TakenInv /\ ReleaseInv
    OBVIOUS
  <1>1. ForwardInv /\ TakenInv
    BY DEF Init, ForwardInv, TakenInv, Live
  <1>2. ReleaseInv
    BY DEF Init, ReleaseInv, LeftOf, Reached
  <1> QED BY <1>1, <1>2

\* Steps that leave the frames alone, start no forward and end those they forget.
LEMMA ForwardKept ==
  ASSUME TypeOK, FrameInv, ForwardInv, UNCHANGED <<frame, overlapped>>,
         \A f \in Frame : /\ fwd'[f] # "none" => frame[f].at = "returned"
                          /\ fwd'[f] \in Live => fwd[f] \in Live
                          /\ \A c \in Conn : f \in registered'[c] => f \in registered[c]
                          /\ \A c \in Conn : f \in registered[c] /\ f \notin registered'[c] =>
                               fwd'[f] \notin Live \/ taken'[f] # "none"
                          /\ taken[f] # "none" => fwd'[f] \notin Live \/ taken'[f] # "none"
  PROVE  ForwardInv'
  <1>1. \A f \in Frame : fwd[f] \in Live => frame[f].conn \in Conn
    BY DEF ForwardInv, FrameInv, Live
  <1> QED BY <1>1 DEF ForwardInv

LEMMA ForwardStep ==
  ASSUME TypeOK, FrameInv, ForwardInv, TakenInv, [Next]_vars
  PROVE  ForwardInv'
  <1> USE DEF hostVars, releaseVars, engineVars, forwardVars
  <1>0. Shapes
    BY TypeParts
  <1>1. ASSUME UNCHANGED <<frame, fwd, registered, taken, overlapped>> PROVE ForwardInv'
    BY <1>1 DEF ForwardInv
  <1>2. ASSUME NEW c \in Conn, NEW e \in Epoch, connect(c, e) PROVE ForwardInv'
    BY <1>1, <1>2 DEF connect
  <1>3. ASSUME NEW c \in Conn, DrainStep(c) \/ ReapsNext(c) PROVE ForwardInv'
    BY <1>1, <1>3 DEF DrainStep, drain_responses, release_departed_connection, TakesResponse,
       DrainEnds, ReapsNext
  <1>4. ASSUME NEW e \in Epoch, disconnect(e) PROVE ForwardInv'
    BY <1>1, <1>4 DEF disconnect
  <1>5. CASE disconnect_all
    BY <1>1, <1>5 DEF disconnect_all
  <1>6. ASSUME NEW c \in Conn, NEW who \in Releaser, ReleaseStep(who, c)
        PROVE  ForwardInv'
    <2>1. CASE DropsSessions(who, c)
      <3>1. /\ UNCHANGED <<frame, fwd, registered, taken>>
            /\ \A f \in Frame : f \in overlapped' => f \in overlapped \/ frame[f].at \in InEngine
        BY <2>1 DEF DropsSessions, ReleaseGoes
      <3> QED BY <3>1 DEF ForwardInv, InEngine
    <2>2. CASE DropsPending(who, c)
      BY <1>1, <2>2 DEF DropsPending, ReleaseGoes
    <2>3. CASE TakesForwards(who, c)
      <3>1. /\ UNCHANGED <<frame, fwd, overlapped>> /\ who # "none"
            /\ registered'[c] = {} /\ \A d \in Conn : d # c => registered'[d] = registered[d]
            /\ \A f \in Frame : taken'[f] = IF f \in registered[c] THEN who ELSE taken[f]
        BY <1>0, <2>3 DEF TakesForwards, ReleaseGoes, Shapes, Releaser
      <3> QED BY <3>1, ForwardKept DEF ForwardInv
    <2>4. ASSUME NEW f \in Frame, AbortsForward(who, c, f) PROVE ForwardInv'
      <3>1. /\ UNCHANGED <<frame, registered, overlapped>> /\ frame[f].at = "returned"
            /\ fwd'[f] = "ended" /\ \A g \in Frame : g # f => fwd'[g] = fwd[g] /\ taken'[g] = taken[g]
        BY <1>0, <2>4 DEF AbortsForward, TakenInv, Releaser, Shapes
      <3> QED BY <3>1, ForwardKept DEF ForwardInv, Live
    <2>5. CASE ReleaseReturns(who, c)
      BY <1>1, <2>5 DEF ReleaseReturns, Returns, ReleaseGoes
    <2> QED BY <1>6, <2>1, <2>2, <2>3, <2>4, <2>5 DEF ReleaseStep
  <1>7. ASSUME NEW f \in Frame, NEW c \in Conn, NEW i \in Call, NEW bidi \in BOOLEAN,
               NEW ends \in BOOLEAN, SendsFrame(f, c, i, bidi, ends)
        PROVE  ForwardInv'
    <2>1. /\ frame[f].at = "unsent" /\ UNCHANGED <<fwd, registered, taken, overlapped>>
          /\ \A g \in Frame : g # f => frame'[g] = frame[g]
      BY <1>0, <1>7 DEF SendsFrame, Shapes
    <2> QED BY <2>1 DEF ForwardInv, Live
  <1>8. ASSUME NEW f \in Frame, FrameStep(f) PROVE ForwardInv'
    <2>1. CASE handle_request_frame(f)
      <3>1. \E to \in FrameState, d \in Conn \cup {NoConn} : Moves(f, to, d)
        BY <1>0, <2>1, RouteMoves DEF FrameState, InEngine, Shapes, FrameRecord
      <3>2. frame[f].at = "arrived" /\ UNCHANGED <<fwd, registered, taken, overlapped>>
        BY <2>1 DEF handle_request_frame
      <3> QED BY <3>1, <3>2 DEF ForwardInv, Moves, Live
    <2>2. CASE ~handle_request_frame(f)
      <3>1. PICK to \in InEngine \cup {"returned"} : Moves(f, to, frame[f].conn)
        BY <1>8, <2>2, EngineMoves
      <3>2. frame[f].at \in InEngine
        BY <1>8, <2>2, EngineMoves
      <3>3. CASE spawn(f)
        <4>1. frame[f].conn \in Conn
          BY <3>3 DEF spawn, FrameInv
        <4>2. /\ UNCHANGED <<taken, overlapped>> /\ frame'[f].at = "returned"
              /\ fwd'[f] = "running" /\ \A g \in Frame : g # f => fwd'[g] = fwd[g]
              /\ \A d \in Conn : f \in registered'[d] <=> d = frame[f].conn \/ f \in registered[d]
              /\ \A d \in Conn : \A g \in Frame : g # f =>
                   (g \in registered'[d] <=> g \in registered[d])
          BY <1>0, <3>3, <4>1 DEF spawn, Shapes, Goes
        <4>3. \A g \in Frame : fwd[g] \in Live => frame[g].conn \in Conn
          BY DEF ForwardInv, FrameInv, Live
        <4> QED BY <3>1, <4>1, <4>2, <4>3 DEF ForwardInv, Moves
      <3>4. CASE ~spawn(f)
        <4>1. UNCHANGED <<fwd, registered, taken, overlapped>>
          BY <1>8, <2>2, <3>4 DEF FrameStep, NoSession, Collects, route_bidi_continuation,
             WaitsForRoom, FindsRoom, open_bidi_session, Delivered
        <4>2. fwd[f] = "none" /\ frame[f].at \notin {"returned", "unsent", "arrived"}
          BY <3>2 DEF ForwardInv, InEngine
        <4>3. to \notin {"unsent", "arrived"}
          BY DEF InEngine
        <4> QED BY <3>1, <4>1, <4>2, <4>3 DEF ForwardInv, Moves, Live
      <3> QED BY <3>3, <3>4
    <2> QED BY <2>1, <2>2
  <1>9. ASSUME NEW f \in Frame, PublishStep(f) \/ HandlerReads(f) \/ HandlerProduces(f)
        PROVE  ForwardInv'
    <2>1. fwd[f] \in Live /\ frame[f].at = "returned" /\ frame[f].conn \in Conn
      BY <1>9 DEF PublishStep, forward_response_body, FindsQueueClosed, HandlerReads,
         HandlerProduces, ForwardInv, FrameInv, Live
    <2>2. /\ UNCHANGED <<frame, overlapped>> /\ \A g \in Frame : g # f => fwd'[g] = fwd[g]
          /\ \/ UNCHANGED <<registered, taken>>
             \/ forget(f) /\ fwd'[f] = "ended"
      BY <1>0, <1>9 DEF PublishStep, forward_response_body, FindsQueueClosed, HandlerReads,
         HandlerProduces, ForwardGoes, Shapes
    <2>3. CASE UNCHANGED <<registered, taken>>
      BY <2>1, <2>2, <2>3, ForwardKept DEF ForwardInv
    <2>4. CASE forget(f) /\ fwd'[f] = "ended"
      <3>1. \A g \in Frame :
              /\ g # f => taken'[g] = taken[g]
              /\ \A d \in Conn : g \in registered'[d] => g \in registered[d]
              /\ \A d \in Conn : g \in registered[d] /\ g \notin registered'[d] => g = f
        BY <1>0, <2>1, <2>4 DEF forget, Shapes
      <3> QED BY <2>1, <2>2, <2>4, <3>1, ForwardKept DEF ForwardInv, Live
    <2> QED BY <2>2, <2>3, <2>4
  <1>10. CASE UNCHANGED vars
    BY <1>1, <1>10 DEF vars
  <1> QED BY <1>2, <1>3, <1>4, <1>5, <1>6, <1>7, <1>8, <1>9, <1>10 DEF Next

\* Where the release of c by who is after the step.
AtNext(who, c) == IF who = "drain" THEN drain'[c] ELSE closing'[c]

\* Handles that are still taken stay with a release that goes on aborting.
LEMMA TakenKept ==
  ASSUME TypeOK, FrameInv, TakenInv,
         \A f \in Frame : taken'[f] # "none" => taken'[f] = taken[f] /\ frame'[f] = frame[f],
         \A c \in Conn : /\ drain[c] = "aborting" => drain'[c] = "aborting"
                         /\ closing[c] = "aborting" => closing'[c] = "aborting"
  PROVE  TakenInv'
  <1> SUFFICES ASSUME NEW f \in Frame, taken'[f] # "none"
               PROVE  frame'[f].at = "returned" /\ AtNext(taken'[f], frame'[f].conn) = "aborting"
    BY DEF TakenInv, At, AtNext
  <1>1. /\ taken'[f] = taken[f] /\ frame'[f] = frame[f] /\ frame[f].at = "returned"
        /\ At(taken[f], frame[f].conn) = "aborting" /\ frame[f].conn \in Conn
    BY DEF TakenInv, FrameInv
  <1> QED BY <1>1 DEF At, AtNext

LEMMA TakenStep ==
  ASSUME TypeOK, FrameInv, MapInv, ForwardInv, TakenInv, [Next]_vars
  PROVE  TakenInv'
  <1> USE DEF hostVars, releaseVars, engineVars, forwardVars
  <1>0. Shapes
    BY TypeParts
  <1>1. ASSUME UNCHANGED <<drain, closing>>,
               \A f \in Frame : taken'[f] # "none" => taken'[f] = taken[f] /\ frame'[f] = frame[f]
        PROVE  TakenInv'
    BY <1>1, TakenKept
  <1>2. ASSUME NEW c \in Conn, NEW e \in Epoch, connect(c, e) PROVE TakenInv'
    <2>1. drain[c] = "none"
      BY <1>2 DEF connect, MapInv
    <2> QED BY <1>0, <1>2, <2>1, TakenKept DEF connect, Shapes
  <1>3. ASSUME NEW c \in Conn, DrainStep(c) \/ ReapsNext(c) PROVE TakenInv'
    <2>1. \A d \in Conn : /\ drain[d] = "aborting" => drain'[d] = "aborting"
                          /\ closing[d] = "aborting" => closing'[d] = "aborting"
      BY <1>0, <1>3 DEF DrainStep, drain_responses, release_departed_connection, TakesResponse,
         DrainEnds, ReapsNext, Shapes
    <2>2. UNCHANGED <<frame, taken>>
      BY <1>3 DEF DrainStep, drain_responses, release_departed_connection, TakesResponse,
         DrainEnds, ReapsNext
    <2> QED BY <2>1, <2>2, TakenKept
  <1>4. ASSUME NEW e \in Epoch, disconnect(e) PROVE TakenInv'
    <2>1. connections[e] \in Conn /\ closing[connections[e]] = "none"
      BY <1>4, ConnFacts DEF disconnect, MapInv
    <2> QED BY <1>0, <1>4, <2>1, TakenKept DEF disconnect, Shapes
  <1>5. CASE disconnect_all
    <2>1. \A d \in reaping' : closing[d] = "none"
      BY <1>5, ConnFacts DEF disconnect_all, MapInv
    <2> QED BY <1>0, <1>5, <2>1, TakenKept DEF disconnect_all, Shapes
  <1>6. ASSUME NEW c \in Conn, NEW who \in Releaser, ReleaseStep(who, c) PROVE TakenInv'
    <2>1. ASSUME NEW to \in {"pending", "forwards", "aborting", "done"}, ReleaseGoes(who, c, to)
          PROVE  /\ UNCHANGED frame /\ AtNext(who, c) = to
                 /\ \A x \in Releaser, d \in Conn : x # who \/ d # c => AtNext(x, d) = At(x, d)
      BY <1>0, <2>1 DEF ReleaseGoes, At, AtNext, Releaser, Shapes
    <2>2. CASE \/ DropsSessions(who, c) \/ DropsPending(who, c)
      <3>1. UNCHANGED taken /\ At(who, c) # "aborting"
            /\ \E to \in {"pending", "forwards", "aborting", "done"} : ReleaseGoes(who, c, to)
        BY <2>2 DEF DropsSessions, DropsPending
      <3> QED BY <2>1, <3>1, TakenKept DEF At, AtNext, Releaser
    <2>3. CASE TakesForwards(who, c)
      <3>1. /\ ReleaseGoes(who, c, "aborting") /\ At(who, c) # "aborting"
            /\ \A f \in Frame : taken'[f] = IF f \in registered[c] THEN who ELSE taken[f]
        BY <2>3 DEF TakesForwards
      <3> SUFFICES ASSUME NEW f \in Frame, taken'[f] # "none"
                   PROVE  frame'[f].at = "returned" /\ AtNext(taken'[f], frame'[f].conn) = "aborting"
        BY DEF TakenInv, At, AtNext
      <3>2. CASE f \in registered[c]
        BY <2>1, <3>1, <3>2 DEF ForwardInv
      <3>3. CASE f \notin registered[c]
        <4>1. /\ taken'[f] = taken[f] /\ frame[f].at = "returned" /\ frame[f].conn \in Conn
              /\ At(taken[f], frame[f].conn) = "aborting" /\ taken[f] \in Releaser
          BY <1>0, <3>1, <3>3 DEF TakenInv, FrameInv, Shapes
        <4> QED BY <2>1, <3>1, <4>1
      <3> QED BY <3>2, <3>3
    <2>4. ASSUME NEW f \in Frame, AbortsForward(who, c, f) PROVE TakenInv'
      <3>1. UNCHANGED <<drain, closing, frame>> /\ taken' = [taken EXCEPT ![f] = "none"]
        BY <2>4 DEF AbortsForward
      <3> QED BY <1>0, <1>1, <3>1 DEF Shapes
    <2>5. CASE ReleaseReturns(who, c)
      <3>1. /\ ReleaseGoes(who, c, "done") /\ UNCHANGED taken
            /\ \A f \in Frame : ~(taken[f] = who /\ frame[f].conn = c)
        BY <2>5 DEF ReleaseReturns, Returns
      <3> SUFFICES ASSUME NEW f \in Frame, taken[f] # "none"
                   PROVE  frame'[f].at = "returned" /\ AtNext(taken[f], frame'[f].conn) = "aborting"
        BY <3>1 DEF TakenInv, At, AtNext
      <3>2. /\ frame[f].at = "returned" /\ frame[f].conn \in Conn
            /\ At(taken[f], frame[f].conn) = "aborting" /\ taken[f] \in Releaser
        BY <1>0 DEF TakenInv, FrameInv, Shapes
      <3> QED BY <2>1, <3>1, <3>2
    <2> QED BY <1>6, <2>2, <2>3, <2>4, <2>5 DEF ReleaseStep
  <1>7. ASSUME NEW f \in Frame, frame[f].at # "returned", UNCHANGED <<drain, closing, taken>>,
               \A g \in Frame : g # f => frame'[g] = frame[g]
        PROVE  TakenInv'
    BY <1>1, <1>7 DEF TakenInv
  <1>8. ASSUME NEW f \in Frame, NEW c \in Conn, NEW i \in Call, NEW bidi \in BOOLEAN,
               NEW ends \in BOOLEAN, SendsFrame(f, c, i, bidi, ends)
        PROVE  TakenInv'
    BY <1>0, <1>7, <1>8 DEF SendsFrame, Shapes
  <1>9. ASSUME NEW f \in Frame, FrameStep(f) PROVE TakenInv'
    <2>1. frame[f].at # "returned" /\ UNCHANGED <<drain, closing, taken>>
      BY <1>9 DEF FrameStep, handle_request_frame, NoSession, Collects, route_bidi_continuation,
         WaitsForRoom, FindsRoom, open_bidi_session, spawn, Delivered
    <2>2. \A g \in Frame : g # f => frame'[g] = frame[g]
      BY <1>9, RouteMoves, EngineMoves DEF Moves
    <2> QED BY <1>7, <2>1, <2>2
  <1>10. ASSUME NEW f \in Frame, PublishStep(f) \/ HandlerReads(f) \/ HandlerProduces(f)
         PROVE  TakenInv'
    <2>1. UNCHANGED <<drain, closing, frame>> /\ (taken' = [taken EXCEPT ![f] = "none"] \/ UNCHANGED taken)
      BY <1>10 DEF PublishStep, forward_response_body, FindsQueueClosed, HandlerReads,
         HandlerProduces, ForwardGoes, forget
    <2> QED BY <1>0, <1>1, <2>1 DEF Shapes
  <1>11. CASE UNCHANGED vars
    BY <1>1, <1>11 DEF vars
  <1> QED BY <1>2, <1>3, <1>4, <1>5, <1>6, <1>8, <1>9, <1>10, <1>11 DEF Next

(***************************************************************************)
(* Releases.                                                               *)
(***************************************************************************)

\* The release of c reaches no further stage.
StaysBehind(c) ==
    \A s \in {"pending", "forwards", "aborting", "done"} :
        drain'[c] = s \/ closing'[c] = s => drain[c] = s \/ closing[c] = s

\* All that is new on c is of frames that were inside on_request during a release.
AddsOverlapped(c) ==
    /\ \A f \in Frame : frame'[f].conn = c /\ frame'[f].at \in InEngine =>
         f \in overlapped' \/ (frame[f].conn = c /\ frame[f].at \in InEngine)
    /\ \A i \in Call : sessions'[c][i] # NoFrame =>
         sessions'[c][i] \in overlapped' \/ sessions'[c][i] = sessions[c][i]
    /\ \A i \in pending'[c] : \/ i \in pending[c]
                              \/ \E f \in Frame : /\ f \in overlapped'
                                                  /\ frame'[f].conn = c /\ frame'[f].call = i
    /\ \A f \in Frame : f \in overlapped /\ frame[f].conn = c =>
         frame'[f].conn = c /\ frame'[f].call = frame[f].call
    /\ \A f \in Frame : frame'[f].conn = c /\ fwd'[f] \in Live =>
         \/ f \in overlapped'
         \/ /\ frame[f].conn = c /\ fwd[f] \in Live
            /\ taken[f] # "none" => taken'[f] # "none"

LEMMA ReleaseKept ==
  ASSUME NEW c \in Conn, LeftOf(c), overlapped \subseteq overlapped', StaysBehind(c),
         Reached(c, {"pending", "forwards", "aborting", "done"}) => AddsOverlapped(c)
  PROVE  LeftOf(c)'
  <1>1. /\ Reached(c, {"pending", "forwards", "aborting", "done"})' => Reached(c, {"pending", "forwards", "aborting", "done"})
        /\ Reached(c, {"forwards", "aborting", "done"})' => Reached(c, {"forwards", "aborting", "done"})
        /\ Reached(c, {"aborting", "done"})' => Reached(c, {"aborting", "done"})
        /\ Reached(c, {"aborting", "done"}) => Reached(c, {"forwards", "aborting", "done"})
        /\ Reached(c, {"forwards", "aborting", "done"}) => Reached(c, {"pending", "forwards", "aborting", "done"})
    BY DEF Reached, StaysBehind
  <1>2. ASSUME Reached(c, {"pending", "forwards", "aborting", "done"})'
        PROVE  /\ \A f \in Frame : frame'[f].conn = c /\ frame'[f].at \in InEngine => f \in overlapped'
               /\ \A i \in Call : sessions'[c][i] # NoFrame => sessions'[c][i] \in overlapped'
    BY <1>1, <1>2 DEF LeftOf, AddsOverlapped
  <1>3. ASSUME Reached(c, {"forwards", "aborting", "done"})', NEW i \in pending'[c]
        PROVE  FramesOf(c, i)' \cap overlapped' # {}
    <2>1. Reached(c, {"forwards", "aborting", "done"}) /\ Reached(c, {"pending", "forwards", "aborting", "done"})
      BY <1>1, <1>3
    <2>2. CASE i \in pending[c]
      <3>1. PICK f \in FramesOf(c, i) : f \in overlapped
        BY <2>1, <2>2 DEF LeftOf, AddsOverlapped
      <3>2. f \in Frame /\ frame'[f].conn = c /\ frame'[f].call = i
        BY <2>1, <3>1 DEF FramesOf, AddsOverlapped
      <3> QED BY <3>1, <3>2 DEF FramesOf
    <2>3. CASE \E f \in Frame : f \in overlapped' /\ frame'[f].conn = c /\ frame'[f].call = i
      BY <2>3 DEF FramesOf
    <2> QED BY <1>3, <2>1, <2>2, <2>3 DEF AddsOverlapped
  <1>4. ASSUME Reached(c, {"aborting", "done"})', NEW f \in Frame, frame'[f].conn = c, fwd'[f] \in Live
        PROVE  f \in overlapped' \/ taken'[f] # "none"
    BY <1>1, <1>4 DEF LeftOf, AddsOverlapped
  <1> QED BY <1>2, <1>3, <1>4 DEF LeftOf

LEMMA LeftStep ==
  ASSUME TypeOK, FrameInv, MapInv, ForwardInv, ReleaseInv, [Next]_vars, NEW c \in Conn
  PROVE  LeftOf(c)'
  <1> USE DEF hostVars, releaseVars, engineVars, forwardVars
  <1>0. Shapes /\ LeftOf(c)
    BY TypeParts DEF ReleaseInv
  <1>1. ASSUME UNCHANGED <<frame, sessions, pending, fwd, taken, overlapped>>, StaysBehind(c)
        PROVE  LeftOf(c)'
    <2>1. AddsOverlapped(c)
      BY <1>1 DEF AddsOverlapped
    <2> QED BY <1>0, <1>1, <2>1, ReleaseKept
  <1>2. ASSUME UNCHANGED <<releaseVars, overlapped>>,
               Reached(c, {"pending", "forwards", "aborting", "done"}) => AddsOverlapped(c)
        PROVE  LeftOf(c)'
    <2>1. StaysBehind(c)
      BY <1>2 DEF StaysBehind
    <2> QED BY <1>0, <1>2, <2>1, ReleaseKept
  <1>3. ASSUME NEW d \in Conn, NEW e \in Epoch, connect(d, e) PROVE LeftOf(c)'
    <2>1. StaysBehind(c)
      BY <1>0, <1>3 DEF connect, StaysBehind, Shapes
    <2> QED BY <1>1, <1>3, <2>1 DEF connect
  <1>4. ASSUME NEW d \in Conn, DrainStep(d) \/ ReapsNext(d) PROVE LeftOf(c)'
    <2>1. StaysBehind(c)
      BY <1>0, <1>4 DEF DrainStep, drain_responses, release_departed_connection, TakesResponse,
         DrainEnds, ReapsNext, StaysBehind, Shapes
    <2> QED BY <1>1, <1>4, <2>1 DEF DrainStep, drain_responses, release_departed_connection,
            TakesResponse, DrainEnds, ReapsNext
  <1>5. ASSUME NEW e \in Epoch, disconnect(e) PROVE LeftOf(c)'
    <2>1. StaysBehind(c)
      BY <1>0, <1>5 DEF disconnect, StaysBehind, Shapes
    <2> QED BY <1>1, <1>5, <2>1 DEF disconnect
  <1>6. CASE disconnect_all
    <2>1. StaysBehind(c)
      BY <1>0, <1>6 DEF disconnect_all, StaysBehind, Shapes
    <2> QED BY <1>1, <1>6, <2>1 DEF disconnect_all
  <1>7. ASSUME NEW d \in Conn, NEW who \in Releaser, ReleaseStep(who, d)
        PROVE  LeftOf(c)'
    <2>1. ASSUME NEW to \in {"pending", "forwards", "aborting", "done"}, ReleaseGoes(who, d, to)
          PROVE  /\ UNCHANGED frame
                 /\ c # d => StaysBehind(c)
                 /\ \A s \in {"pending", "forwards", "aborting", "done"} : s # to /\ (drain'[c] = s \/ closing'[c] = s) =>
                      drain[c] = s \/ closing[c] = s
      BY <1>0, <2>1 DEF ReleaseGoes, StaysBehind, Shapes
    <2>2. CASE DropsSessions(who, d)
      <3>1. /\ ReleaseGoes(who, d, "pending") /\ UNCHANGED <<pending, fwd, taken>>
            /\ sessions'[d] = [i \in Call |-> NoFrame]
            /\ \A x \in Conn : x # d => sessions'[x] = sessions[x]
            /\ overlapped \subseteq overlapped'
            /\ \A f \in Frame : frame[f].conn = d /\ frame[f].at \in InEngine => f \in overlapped'
        BY <1>0, <2>2 DEF DropsSessions, Shapes
      <3>2. UNCHANGED frame
        BY <2>1, <3>1
      <3>3. CASE c # d
        <4>1. AddsOverlapped(c)
          BY <3>1, <3>2, <3>3 DEF AddsOverlapped
        <4> QED BY <1>0, <2>1, <3>1, <3>3, <4>1, ReleaseKept
      <3>4. CASE c = d
        <4>1. /\ \A f \in Frame : frame'[f].conn = c /\ frame'[f].at \in InEngine => f \in overlapped'
              /\ \A i \in Call : sessions'[c][i] = NoFrame
          BY <3>1, <3>2, <3>4
        <4>2. /\ Reached(c, {"forwards", "aborting", "done"})' => Reached(c, {"forwards", "aborting", "done"})
              /\ Reached(c, {"aborting", "done"})' => Reached(c, {"aborting", "done"})
          BY <2>1, <3>1 DEF Reached
        <4>3. \A i : FramesOf(c, i) \cap overlapped # {} => FramesOf(c, i)' \cap overlapped' # {}
          BY <3>1, <3>2 DEF FramesOf
        <4> QED BY <1>0, <3>1, <3>2, <4>1, <4>2, <4>3 DEF LeftOf
      <3> QED BY <3>3, <3>4
    <2>3. CASE DropsPending(who, d)
      <3>1. /\ ReleaseGoes(who, d, "forwards") /\ UNCHANGED <<sessions, fwd, taken, overlapped>>
            /\ pending'[d] = {} /\ At(who, d) = "pending"
            /\ \A x \in Conn : x # d => pending'[x] = pending[x]
        BY <1>0, <2>3 DEF DropsPending, Shapes
      <3>2. UNCHANGED frame
        BY <2>1, <3>1
      <3>3. CASE c # d
        <4>1. AddsOverlapped(c)
          BY <3>1, <3>2, <3>3 DEF AddsOverlapped
        <4> QED BY <1>0, <2>1, <3>1, <3>3, <4>1, ReleaseKept
      <3>4. CASE c = d
        <4>1. Reached(c, {"pending", "forwards", "aborting", "done"}) /\ pending'[c] = {}
          BY <3>1, <3>4 DEF Reached, At
        <4>2. Reached(c, {"aborting", "done"})' => Reached(c, {"aborting", "done"})
          BY <2>1, <3>1 DEF Reached
        <4> QED BY <1>0, <3>1, <3>2, <4>1, <4>2 DEF LeftOf
      <3> QED BY <3>3, <3>4
    <2>4. CASE TakesForwards(who, d)
      <3>1. /\ ReleaseGoes(who, d, "aborting") /\ UNCHANGED <<sessions, pending, fwd, overlapped>>
            /\ At(who, d) = "forwards" /\ who # "none"
            /\ \A f \in Frame : taken'[f] = IF f \in registered[d] THEN who ELSE taken[f]
        BY <1>0, <2>4 DEF TakesForwards, Shapes, forwardVars, Releaser
      <3>2. UNCHANGED frame
        BY <2>1, <3>1
      <3>3. CASE c # d
        <4>1. AddsOverlapped(c)
          BY <3>1, <3>2 DEF AddsOverlapped
        <4> QED BY <1>0, <2>1, <3>1, <3>3, <4>1, ReleaseKept
      <3>4. CASE c = d
        <4>1. /\ Reached(c, {"forwards", "aborting", "done"})
              /\ Reached(c, {"pending", "forwards", "aborting", "done"})
          BY <3>1, <3>4 DEF Reached, At
        <4>2. \A f \in Frame : frame'[f].conn = c /\ fwd'[f] \in Live => taken'[f] # "none"
          BY <3>1, <3>2, <3>4 DEF ForwardInv
        <4>3. \A i : FramesOf(c, i)' = FramesOf(c, i)
          BY <3>2 DEF FramesOf
        <4> QED BY <1>0, <3>1, <3>2, <4>1, <4>2, <4>3 DEF LeftOf
      <3> QED BY <3>3, <3>4
    <2>5. ASSUME NEW f \in Frame, AbortsForward(who, d, f) PROVE LeftOf(c)'
      <3>1. /\ UNCHANGED <<releaseVars, frame, sessions, pending, overlapped>> /\ fwd'[f] = "ended"
            /\ \A g \in Frame : g # f => fwd'[g] = fwd[g] /\ taken'[g] = taken[g]
        BY <1>0, <2>5 DEF AbortsForward, Shapes
      <3>2. AddsOverlapped(c)
        BY <3>1 DEF AddsOverlapped, Live
      <3> QED BY <1>2, <3>1, <3>2
    <2>6. CASE ReleaseReturns(who, d)
      <3>1. /\ ReleaseGoes(who, d, "done") /\ UNCHANGED <<sessions, pending, fwd, taken, overlapped>>
            /\ At(who, d) = "aborting"
        BY <2>6 DEF ReleaseReturns, Returns
      <3>2. UNCHANGED frame
        BY <2>1, <3>1
      <3>3. CASE c # d
        <4>1. AddsOverlapped(c)
          BY <3>1, <3>2 DEF AddsOverlapped
        <4> QED BY <1>0, <2>1, <3>1, <3>3, <4>1, ReleaseKept
      <3>4. CASE c = d
        <4>1. /\ Reached(c, {"aborting", "done"}) /\ Reached(c, {"forwards", "aborting", "done"})
              /\ Reached(c, {"pending", "forwards", "aborting", "done"})
          BY <3>1, <3>4 DEF Reached, At
        <4>2. \A i : FramesOf(c, i)' = FramesOf(c, i)
          BY <3>2 DEF FramesOf
        <4> QED BY <1>0, <3>1, <3>2, <4>1, <4>2 DEF LeftOf
      <3> QED BY <3>3, <3>4
    <2> QED BY <1>7, <2>2, <2>3, <2>4, <2>5, <2>6 DEF ReleaseStep
  <1>8. ASSUME NEW f \in Frame, NEW d \in Conn, NEW i \in Call, NEW bidi \in BOOLEAN,
               NEW ends \in BOOLEAN, SendsFrame(f, d, i, bidi, ends)
        PROVE  LeftOf(c)'
    <2>1. /\ frame[f].at = "unsent" /\ frame'[f].at = "arrived"
          /\ UNCHANGED <<releaseVars, sessions, pending, fwd, taken, overlapped>>
          /\ \A g \in Frame : g # f => frame'[g] = frame[g]
      BY <1>0, <1>8 DEF SendsFrame, Shapes
    <2>2. f \notin overlapped /\ fwd[f] = "none"
      BY <2>1 DEF ForwardInv
    <2>3. AddsOverlapped(c)
      BY <2>1, <2>2 DEF AddsOverlapped, InEngine, Live
    <2> QED BY <1>2, <2>1, <2>3
  <1>9. ASSUME NEW f \in Frame, FrameStep(f) PROVE LeftOf(c)'
    <2>1. CASE handle_request_frame(f)
      <3>1. /\ frame[f].at = "arrived"
            /\ UNCHANGED <<releaseVars, sessions, pending, fwd, taken, overlapped>>
        BY <2>1 DEF handle_request_frame
      <3>2. f \notin overlapped /\ fwd[f] = "none"
        BY <3>1 DEF ForwardInv
      <3>3. CASE Moves(f, "returned", frame[f].conn)
        <4>1. AddsOverlapped(c)
          BY <3>1, <3>2, <3>3 DEF AddsOverlapped, Moves, InEngine, Live
        <4> QED BY <1>2, <3>1, <4>1
      <3>4. ASSUME NEW e \in Epoch, connections[e] # NoConn, Moves(f, "routed", connections[e])
            PROVE  LeftOf(c)'
        <4>1. connections[e] \in Conn
          BY <3>4, ConnFacts
        <4>2. Reached(c, {"pending", "forwards", "aborting", "done"}) => c # connections[e]
          BY <4>1 DEF MapInv, Reached
        <4>3. c # connections[e] => AddsOverlapped(c)
          BY <3>1, <3>2, <3>4 DEF AddsOverlapped, Moves, Live
        <4> QED BY <1>2, <3>1, <4>2, <4>3
      <3> QED BY <2>1, <3>3, <3>4, RouteMoves
    <2>2. CASE ~handle_request_frame(f)
      <3> DEFINE b == frame[f].conn
                 i == frame[f].call
      <3>1. PICK to \in InEngine \cup {"returned"} : Moves(f, to, b)
        BY <1>9, <2>2, EngineMoves
      <3>2. frame[f].at \in InEngine
        BY <1>9, <2>2, EngineMoves
      <3>3. b \in Conn /\ i \in Call
        BY <3>2 DEF FrameInv, InEngine
      <3>4. UNCHANGED <<releaseVars, taken, overlapped>>
        BY <1>9, <2>2 DEF FrameStep, NoSession, Collects, route_bidi_continuation, Delivered,
           WaitsForRoom, FindsRoom, open_bidi_session, spawn
      <3>5. \A x \in Conn : \A j \in Call :
              \/ sessions'[x][j] \in {sessions[x][j], NoFrame}
              \/ x = b /\ sessions'[x][j] = f
        <4>1. \/ UNCHANGED sessions
              \/ \E v \in {sessions[b][i], NoFrame, f} : sessions' = [sessions EXCEPT ![b][i] = v]
          BY <1>9, <2>2 DEF FrameStep, NoSession, Collects, route_bidi_continuation,
             Delivered, WaitsForRoom, FindsRoom, open_bidi_session, spawn
        <4> HIDE DEF b, i
        <4> QED BY <1>0, <3>3, <4>1 DEF Shapes
      <3>6. \A x \in Conn : \A j \in pending'[x] : j \in pending[x] \/ (x = b /\ j = i)
        BY <1>0, <1>9, <2>2, <3>3 DEF FrameStep, NoSession, Collects, route_bidi_continuation,
           Delivered, WaitsForRoom, FindsRoom, open_bidi_session, spawn, Shapes
      <3>7. \A g \in Frame : g # f => fwd'[g] = fwd[g]
        BY <1>0, <1>9, <2>2 DEF FrameStep, NoSession, Collects, route_bidi_continuation, Delivered,
           WaitsForRoom, FindsRoom, open_bidi_session, spawn, Shapes
      <3>8. Reached(c, {"pending", "forwards", "aborting", "done"}) /\ b = c => f \in overlapped
        BY <1>0, <3>2 DEF LeftOf
      <3>9. frame'[f].conn = b /\ frame'[f].call = i /\ \A g \in Frame : g # f => frame'[g] = frame[g]
        BY <3>1 DEF Moves
      <3>10. Reached(c, {"pending", "forwards", "aborting", "done"}) => AddsOverlapped(c)
        <4> SUFFICES ASSUME b = c => f \in overlapped PROVE AddsOverlapped(c)
          BY <3>8
        <4> HIDE DEF b, i
        <4>1. \A g \in Frame : frame'[g].conn = c /\ frame'[g].at \in InEngine =>
                g \in overlapped' \/ (frame[g].conn = c /\ frame[g].at \in InEngine)
          BY <3>4, <3>9
        <4>2. \A j \in Call : sessions'[c][j] # NoFrame =>
                sessions'[c][j] \in overlapped' \/ sessions'[c][j] = sessions[c][j]
          BY <3>4, <3>5
        <4>3. \A j \in pending'[c] : \/ j \in pending[c]
                                     \/ \E g \in Frame : /\ g \in overlapped'
                                                         /\ frame'[g].conn = c /\ frame'[g].call = j
          BY <3>4, <3>6, <3>9
        <4>4. \A g \in Frame : g \in overlapped /\ frame[g].conn = c =>
                frame'[g].conn = c /\ frame'[g].call = frame[g].call
          BY <3>9 DEF b, i
        <4>5. \A g \in Frame : frame'[g].conn = c /\ fwd'[g] \in Live =>
                \/ g \in overlapped'
                \/ frame[g].conn = c /\ fwd[g] \in Live /\ (taken[g] # "none" => taken'[g] # "none")
          BY <3>4, <3>7, <3>9
        <4> QED BY <4>1, <4>2, <4>3, <4>4, <4>5 DEF AddsOverlapped
      <3> QED BY <1>2, <3>4, <3>10
    <2> QED BY <2>1, <2>2
  <1>10. ASSUME NEW f \in Frame, PublishStep(f) \/ HandlerReads(f) \/ HandlerProduces(f)
         PROVE  LeftOf(c)'
    <2>1. /\ fwd[f] \in Live /\ UNCHANGED <<releaseVars, frame, sessions, pending, overlapped>>
          /\ \A g \in Frame : g # f => fwd'[g] = fwd[g] /\ taken'[g] = taken[g]
          /\ UNCHANGED taken \/ fwd'[f] = "ended"
      BY <1>0, <1>10 DEF PublishStep, forward_response_body, FindsQueueClosed, HandlerReads,
         HandlerProduces, ForwardGoes, forget, Live, Shapes
    <2>2. AddsOverlapped(c)
      BY <2>1 DEF AddsOverlapped, Live
    <2> QED BY <1>2, <2>1, <2>2
  <1>11. CASE UNCHANGED vars
    <2>1. StaysBehind(c)
      BY <1>11 DEF vars, StaysBehind
    <2> QED BY <1>1, <1>11, <2>1 DEF vars
  <1> QED BY <1>3, <1>4, <1>5, <1>6, <1>7, <1>8, <1>9, <1>10, <1>11 DEF Next

(***************************************************************************)
(* The theorems.                                                           *)
(***************************************************************************)

\* The inductive invariant of the host.
HostInv == /\ TypeOK /\ FrameInv
           /\ MapInv /\ SuccessorKeepsServing
           /\ ForwardInv /\ TakenInv
           /\ ReleaseInv

LEMMA Inductive == Spec => []HostInv
  <1>1. Init => HostInv
    BY TypeInit, MapInit, ForwardInit DEF HostInv
  <1>2. ASSUME HostInv, [Next]_vars PROVE HostInv'
    <2>1. TypeOK' /\ FrameInv'
      <3>1. CASE Next
        BY <1>2, <3>1, TypeOfPage, TypeOfFrame, TypeOfForward, TypeOfDrain, TypeOfRelease
           DEF Next, HostInv
      <3>2. CASE UNCHANGED vars
        BY <1>2, <3>2 DEF HostInv, TypeOK, FrameInv, SessionOf, vars, hostVars, releaseVars,
           engineVars, forwardVars
      <3> QED BY <1>2, <3>1, <3>2
    <2>2. MapInv' /\ SuccessorKeepsServing'
      BY <1>2, MapStep DEF HostInv
    <2>3. ForwardInv' /\ TakenInv'
      BY <1>2, ForwardStep, TakenStep DEF HostInv
    <2>4. ReleaseInv'
      BY <1>2, LeftStep DEF HostInv, ReleaseInv
    <2> QED BY <2>1, <2>2, <2>3, <2>4 DEF HostInv
  <1> QED BY <1>1, <1>2, PTL DEF Spec

\* Every variable keeps its shape, no queue or input exceeds its limit whatever the
\* limits are, and the map of sessions of a connection is locked exactly while one of
\* its frames waits for room.
THEOREM TypeCorrect == Spec => []TypeOK
  <1>1. HostInv => TypeOK
    BY DEF HostInv
  <1> QED BY <1>1, Inductive, PTL

\* A connection that nobody has released and whose channel has refused nothing is in
\* the map: releasing its predecessor under the same epoch, which may come any time
\* after it was opened, does not take it out.
THEOREM SuccessorsAreSpared == Spec => []SuccessorKeepsServing
  <1>1. HostInv => SuccessorKeepsServing
    BY DEF HostInv
  <1> QED BY <1>1, Inductive, PTL

\* Once on_peer_disconnected has returned for a connection, by the drain, by the page
\* or by the reap, every session and every call being collected is of a frame that was
\* inside on_request while it was released.  So is every forward that still runs,
\* unless another release of the connection has taken its handle out of the registry:
\* that one has not returned, and does not before the forward has ended.
THEOREM ReleaseIsComplete == Spec => []NothingOutlivesRelease
  <1>1. HostInv => NothingOutlivesRelease
    <2> SUFFICES ASSUME HostInv, NEW c \in Conn, "done" \in {drain[c], closing[c]}
                 PROVE  /\ \A f \in Frame : frame[f].conn = c /\ fwd[f] \in Live =>
                             f \in overlapped \/ (taken[f] # "none" /\ At(taken[f], c) = "aborting")
                        /\ \A i \in Call :
                             /\ sessions[c][i] # NoFrame => sessions[c][i] \in overlapped
                             /\ i \in pending[c] => FramesOf(c, i) \cap overlapped # {}
      BY DEF NothingOutlivesRelease
    <2>1. /\ LeftOf(c) /\ Reached(c, {"aborting", "done"})
          /\ Reached(c, {"forwards", "aborting", "done"})
          /\ Reached(c, {"pending", "forwards", "aborting", "done"})
      BY DEF HostInv, ReleaseInv, Reached
    <2> QED BY <2>1 DEF LeftOf, HostInv, TakenInv
  <1> QED BY <1>1, Inductive, PTL
=============================================================================
