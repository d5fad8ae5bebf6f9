------------------------------ MODULE Simulator ------------------------------
(***************************************************************************)
(* The switch simulator as a whole: browser tabs that run framework.js,    *)
(* the server they talk to, and the HTTP exchanges between them.  A page   *)
(* has at most one exchange under way; the server may answer it after the  *)
(* page is gone, and those of different pages in any order.                *)
(*                                                                         *)
(* taken, queued, put and got are history variables: they record frames    *)
(* and influence nothing.                                                  *)
(* Definitions named _fault are seeded defects, variants of the one after. *)
(***************************************************************************)
EXTENDS ControlServer, SequencesExt

CONSTANTS Page,        \* loads of the page
          STEPS,       \* positions of a frame on a wire (7)
          MaxClicks,   \* frames sent by the users of all pages together
          MaxScripts,  \* ticks of other programs, which the server refuses
          MaxStops     \* ends of the server process
ASSUME SimulatorAssumption ==
  /\ STEPS \in Nat \ {0}
  /\ NoFrame \notin Nat /\ Malformed \notin Nat /\ NoFrame # Malformed

VARIABLES
  phase,     \* of each page: unopened, helo, ready, tick, error, silent or
             \* closed
  switchId,  \* of each page, 0 before its answer to /helo
  sendQueue, \* of each page and host
  out, in,   \* frames on the wires of each page, with their step
  chan,      \* the exchange of each page: none, a request or its answer
  up,        \* the server runs
  clicks, scripts, stops, \* of the bounds above
  taken, queued, \* by the switch, at each port, since its /helo
  put, got       \* by the hosts of each page, on and from their wires

pageVars == <<phase, switchId, sendQueue, out, in>>
history == <<taken, queued, put, got>>
vars == <<lastId, sw, pageVars, chan, up, clicks, scripts, stops, history>>

None == [kind |-> "none"]
HeloRequest == [kind |-> "helo"]
HeloAnswer(i) == [kind |-> "hello", id |-> i]
TickRequest(i, body) == [kind |-> "tick", id |-> i, body |-> body]
TickReply(a) == [kind |-> "tock", answer |-> a]

Live(p) == phase[p] \in {"helo", "ready", "tick"}
Empty == [k \in Port |-> << >>]
Frames(wire) == [n \in DOMAIN wire |-> wire[n].frame]
On(wire, i)  == AtPositions(wire, {n \in DOMAIN wire : wire[n].step = i})
Off(wire, i) == AtPositions(wire, {n \in DOMAIN wire : wire[n].step # i})

----------------------------------------------------------------------------
(* The update loop of a page                                               *)

(* The hosts' queues are popped at the end they are filled from.           *)
(* Frames of hosts move up, those of the switch down; one that arrives at  *)
(* the switch goes into the tick, and one that arrived at its host (step   *)
(* 0) is removed a tick later.                                             *)
Impacting(p, k) ==
  LET there == On(out[p][k], STEPS)
  IN  IF there = << >> THEN NoFrame ELSE Last(there).frame
NextFrame(p, k) == IF sendQueue[p][k] = << >> THEN << >>
               ELSE << [frame |-> Last(sendQueue[p][k]), step |-> 1] >>
MovedOut_fault(p, k) == \* every frame that waits goes on the wire at once
  LET on == Off(out[p][k], STEPS)
  IN  [n \in DOMAIN on |-> [on[n] EXCEPT !.step = @ + 1]]
      \o [n \in DOMAIN sendQueue[p][k] |->
            [frame |-> sendQueue[p][k][n], step |-> 1]]
MovedOut(p, k) ==
  LET on == Off(out[p][k], STEPS)
  IN  [n \in DOMAIN on |-> [on[n] EXCEPT !.step = @ + 1]] \o NextFrame(p, k)
MovedIn(p, k) ==
  LET on == Off(in[p][k], 0)
  IN  [n \in DOMAIN on |-> [on[n] EXCEPT !.step = @ - 1]]
Arriving(p, k) == Frames(On(in[p][k], 1))
AfterPop(q) == IF q = << >> THEN q ELSE Front(q)

SendTick(p) ==
  /\ phase[p] = "ready"
  /\ out' = [out EXCEPT ![p] = [k \in Port |-> MovedOut(p, k)]]
  /\ in' = [in EXCEPT ![p] = [k \in Port |-> MovedIn(p, k)]]
  /\ sendQueue' = [sendQueue EXCEPT ![p] =
                     [k \in Port |-> AfterPop(sendQueue[p][k])]]
  /\ put' = [put EXCEPT ![p] = [k \in Port |->
               put[p][k] \o Frames(NextFrame(p, k))]]
  /\ got' = [got EXCEPT ![p] = [k \in Port |->
               got[p][k] \o Arriving(p, k)]]
  /\ IF up
     THEN /\ phase' = [phase EXCEPT ![p] = "tick"]
          /\ chan' = [chan EXCEPT ![p] =
               TickRequest(switchId[p], [k \in Port |-> Impacting(p, k)])]
     ELSE phase' = [phase EXCEPT ![p] = "error"] /\ UNCHANGED chan
  /\ UNCHANGED <<lastId, sw, switchId, up, clicks, scripts, stops,
                 taken, queued>>

Open(p) ==
  /\ up /\ phase[p] = "unopened"
  /\ phase' = [phase EXCEPT ![p] = "helo"]
  /\ chan' = [chan EXCEPT ![p] = HeloRequest]
  /\ UNCHANGED <<lastId, sw, switchId, sendQueue, out, in, up,
                 clicks, scripts, stops, history>>

Started(p) ==
  /\ phase[p] = "helo" /\ chan[p].kind = "hello"
  /\ phase' = [phase EXCEPT ![p] = "ready"]
  /\ switchId' = [switchId EXCEPT ![p] = chan[p].id]
  /\ chan' = [chan EXCEPT ![p] = None]
  /\ UNCHANGED <<lastId, sw, sendQueue, out, in, up, clicks, scripts,
                 stops, history>>

(* The answer to a tick: frames leave the switch, or the page gives up. *)
Receive_fault(p) == \* does not look at resp.ok
  /\ phase[p] = "tick" /\ chan[p].kind = "tock"
  /\ LET a == chan[p].answer
     IN  in' = IF a.status # 200 THEN in ELSE [in EXCEPT ![p] = [k \in Port |->
                 IF a.frames[k] = NoFrame THEN in[p][k]
                 ELSE Append(in[p][k],
                             [frame |-> a.frames[k], step |-> STEPS])]]
  /\ phase' = [phase EXCEPT ![p] = "ready"]
  /\ chan' = [chan EXCEPT ![p] = None]
  /\ UNCHANGED <<lastId, sw, switchId, sendQueue, out, up, clicks,
                 scripts, stops, history>>
Receive(p) ==
  /\ phase[p] = "tick" /\ chan[p].kind = "tock"
  /\ LET a == chan[p].answer
     IN  IF a.status = 200
         THEN /\ phase' = [phase EXCEPT ![p] = "ready"]
              /\ in' = [in EXCEPT ![p] = [k \in Port |->
                   IF a.frames[k] = NoFrame THEN in[p][k]
                   ELSE Append(in[p][k],
                               [frame |-> a.frames[k], step |-> STEPS])]]
         ELSE phase' = [phase EXCEPT ![p] = "error"] /\ UNCHANGED in
  /\ chan' = [chan EXCEPT ![p] = None]
  /\ UNCHANGED <<lastId, sw, switchId, sendQueue, out, up, clicks,
                 scripts, stops, history>>

----------------------------------------------------------------------------
(* The user: sendPacket, by a button or the generator; closing a tab.      *)
SendPacket(p, k) ==
  /\ Live(p) /\ clicks < MaxClicks
  /\ clicks' = clicks + 1
  /\ sendQueue' = [sendQueue EXCEPT ![p][k] = Append(@, clicks + 1)]
  /\ UNCHANGED <<lastId, sw, phase, switchId, out, in, chan, up, scripts,
                 stops, history>>

Close(p) ==
  /\ Live(p) \/ phase[p] \in {"error", "silent"}
  /\ phase' = [phase EXCEPT ![p] = "closed"]
  /\ chan' = [chan EXCEPT ![p] =
                IF @.kind \in {"helo", "tick"} THEN @ ELSE None]
  /\ switchId' = [switchId EXCEPT ![p] = 0]
  /\ sendQueue' = [sendQueue EXCEPT ![p] = Empty]
  /\ out' = [out EXCEPT ![p] = Empty] /\ in' = [in EXCEPT ![p] = Empty]
  /\ put' = [put EXCEPT ![p] = Empty] /\ got' = [got EXCEPT ![p] = Empty]
  /\ UNCHANGED <<lastId, sw, up, clicks, scripts, stops, taken, queued>>

----------------------------------------------------------------------------
(* The server                                                              *)
Answer(p, a) ==
  chan' = [chan EXCEPT ![p] = IF phase[p] = "closed" THEN None ELSE a]

HandleHelo(p) ==
  /\ up /\ chan[p].kind = "helo"
  /\ Helo
  /\ Answer(p, HeloAnswer(sw'.id))
  /\ taken' = Empty /\ queued' = Empty
  /\ UNCHANGED <<pageVars, up, clicks, scripts, stops, put, got>>

HandleTick(p) ==
  /\ up /\ chan[p].kind = "tick"
  /\ \E fw \in [Port -> Forwardings] :
       LET i == chan[p].id
           body == chan[p].body
           s == StuffRecvQueue(sw, body)
           served == Current(i) /\ Parses(body)
       IN  /\ Tick(i, body, fw)
           /\ Answer(p, TickReply(TickAnswer(i, body, fw)))
           /\ taken' = [k \in Port |-> IF served /\ k \in TakenFrom(s)
                                       THEN Append(taken[k], Head(s.recv[k]))
                                       ELSE taken[k]]
           /\ queued' = [k \in Port |-> IF served
                                        THEN queued[k] \o QueuedFor(s, fw, k)
                                        ELSE queued[k]]
  /\ UNCHANGED <<pageVars, up, clicks, scripts, stops, put, got>>

(* A tick of some other program, with frames (0) before a malformed one.   *)
HandleScript(k) ==
  /\ up /\ scripts < MaxScripts
  /\ scripts' = scripts + 1
  /\ LET body == [j \in Port |-> IF j < k THEN 0 ELSE Malformed]
     IN  Tick(sw.id, body, [j \in Port |-> {}])
  /\ UNCHANGED <<pageVars, chan, up, clicks, stops, history>>

(* The end of the process ends every exchange under way: a page that waits *)
(* for /tick shows an error; the rejection of /helo's fetch is not caught. *)
Stop_fault == \* the pages are left waiting
  /\ up /\ stops < MaxStops
  /\ up' = FALSE /\ stops' = stops + 1
  /\ lastId' = 0 /\ sw' = NoSwitch /\ taken' = Empty /\ queued' = Empty
  /\ UNCHANGED <<phase, chan>>
  /\ UNCHANGED <<switchId, sendQueue, out, in, clicks, scripts, put, got>>
Stop ==
  /\ up /\ stops < MaxStops
  /\ up' = FALSE /\ stops' = stops + 1
  /\ lastId' = 0 /\ sw' = NoSwitch /\ taken' = Empty /\ queued' = Empty
  /\ phase' = [p \in Page |-> IF phase[p] = "helo" THEN "silent"
                              ELSE IF phase[p] = "tick" THEN "error"
                              ELSE phase[p]]
  /\ chan' = [p \in Page |-> None]
  /\ UNCHANGED <<switchId, sendQueue, out, in, clicks, scripts, put, got>>

Start ==
  /\ ~up /\ up' = TRUE
  /\ UNCHANGED <<lastId, sw, pageVars, chan, clicks, scripts, stops, history>>

----------------------------------------------------------------------------
Init ==
  /\ lastId = 0 /\ sw = NoSwitch /\ up = TRUE
  /\ phase = [p \in Page |-> "unopened"] /\ switchId = [p \in Page |-> 0]
  /\ sendQueue = [p \in Page |-> Empty]
  /\ out = [p \in Page |-> Empty] /\ in = [p \in Page |-> Empty]
  /\ chan = [p \in Page |-> None]
  /\ clicks = 0 /\ scripts = 0 /\ stops = 0
  /\ taken = Empty /\ queued = Empty
  /\ put = [p \in Page |-> Empty] /\ got = [p \in Page |-> Empty]

Next ==
  \/ \E p \in Page : \/ Open(p) \/ Started(p) \/ SendTick(p) \/ Receive(p)
                     \/ HandleHelo(p) \/ HandleTick(p) \/ Close(p)
  \/ \E p \in Page, k \in Port : SendPacket(p, k)
  \/ \E k \in Port : HandleScript(k)
  \/ Stop \/ Start

Spec == Init /\ [][Next]_vars
(* Timers fire, the server's threads take the mutex, answers arrive. *)
FairSpec ==
  Spec /\ \A p \in Page : /\ WF_vars(Started(p)) /\ WF_vars(SendTick(p))
                          /\ WF_vars(Receive(p))
                          /\ WF_vars(HandleHelo(p)) /\ WF_vars(HandleTick(p))

----------------------------------------------------------------------------
Ticking(p) == phase[p] \in {"ready", "tick"}
Owner(p) == Ticking(p) /\ switchId[p] = sw.id
OfPages(s) == AtPositions(s, {n \in DOMAIN s : s[n] # 0})
InRequest(p, k) == IF chan[p].kind = "tick" /\ chan[p].body[k] # NoFrame
                   THEN <<chan[p].body[k]>> ELSE << >>
InAnswer(p, k) == IF /\ chan[p].kind = "tock"
                     /\ chan[p].answer.status = 200
                     /\ chan[p].answer.frames[k] # NoFrame
                  THEN <<chan[p].answer.frames[k]>> ELSE << >>

(* Between the host of the current page and its port no frame is lost,     *)
(* repeated, overtaken, or comes from another page, whatever other pages,  *)
(* late requests and refused ticks do.                                     *)
WireIsFifo ==
  \A p \in Page, k \in Port : Owner(p) =>
    put[p][k] = OfPages(taken[k] \o sw.recv[k])
                \o InRequest(p, k) \o Frames(out[p][k])

(* The same for what the switch queues for a port.                         *)
DeliveryIsFifo ==
  \A p \in Page, k \in Port : Owner(p) =>
    queued[k] = got[p][k]
                \o Frames(Off(in[p][k], 0))
                \o InAnswer(p, k) \o sw.send[k]

(* A wire carries one frame per position: none is overwritten when the     *)
(* update loop collects what reaches the switch.                           *)
OneFramePerStep ==
  \A p \in Page, k \in Port :
    /\ IsInjective([n \in DOMAIN out[p][k] |-> out[p][k][n].step])
    /\ IsInjective([n \in DOMAIN in[p][k] |-> in[p][k][n].step])

(* A frame waits in a receive queue only because of a tick that was        *)
(* refused after it had been queued, one at most for each.                 *)
RecvBacklog == \A k \in Port : Len(sw.recv[k]) <= scripts

(* While one server process lasts, no two pages drive the same switch.     *)
OnePageTicks ==
  stops = 0 =>
    \A p, q \in Page : Ticking(p) /\ Ticking(q) /\ switchId[p] = switchId[q]
                       => p = q

(* A page that lost its switch to another stops by itself.                 *)
SupersededStops ==
  \A p \in Page : Ticking(p) /\ switchId[p] # sw.id
                  ~> ~Ticking(p) \/ switchId[p] = sw.id

(* What a host sends reaches the switch, unless its page ends first or the *)
(* server does: the switch of a later process may have the same id.        *)
FramesArrive ==
  \A p \in Page, k \in Port, f \in 1 .. MaxClicks :
    Live(p) /\ f \in Range(sendQueue[p][k])
      ~> ~Live(p) \/ stops > 0 \/ f \in Range(taken[k])

(* No page waits for ever for an answer. *)
EveryWaitEnds ==
  \A p \in Page : phase[p] \in {"helo", "tick"}
                  ~> phase[p] \notin {"helo", "tick"}
=============================================================================
