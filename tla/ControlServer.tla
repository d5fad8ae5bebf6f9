---------------------------- MODULE ControlServer ----------------------------
(***************************************************************************)
(* The server of the switch simulator: one switch at a time, created by    *)
(* /helo and driven by /tick.  Both handlers hold THE_MUTEX from their     *)
(* first look at the switch to their answer, so each is one step of the    *)
(* four threads.  The exercise leaves EthernetSwitch open: processFrames   *)
(* takes one frame per port and may do with it what it likes, as far as    *)
(* Forwardings allows; the repository's forwards nothing.  VLANs are left  *)
(* out: setPortVLAN keeps nothing and getPortVLAN returns 0.               *)
(*                                                                         *)
(* Definitions named _fault are seeded defects, variants of the one after. *)
(***************************************************************************)
EXTENDS Integers, Sequences

CONSTANTS NUM_PORTS,   \* 8
          NoFrame,     \* null
          Malformed,   \* JSON that is not a frame
          Forwardings  \* sets of ports a frame may be queued for: {{}}

Port == 0 .. NUM_PORTS - 1
ASSUME ServerAssumption ==
  NUM_PORTS \in Nat \ {0} /\ Forwardings \subseteq SUBSET Port

(* The elements of s at the positions T, in their order: SelectSeq as a    *)
(* recursive function.                                                     *)
AtPositions(s, T) ==
  LET upTo[n \in 0 .. Len(s)] ==
        IF n = 0 THEN << >>
        ELSE IF n \in T THEN Append(upTo[n - 1], s[n]) ELSE upTo[n - 1]
  IN  upTo[Len(s)]

VARIABLES lastId, \* the ids /helo gave since the process started
          sw      \* THE_SWITCH; its id is 0 while there is none

FreshSwitch(i) == [id |-> i, recv |-> [k \in Port |-> << >>],
                   send |-> [k \in Port |-> << >>]]
NoSwitch == FreshSwitch(0)

----------------------------------------------------------------------------
(* The ports before the first that does not parse have their frame queued. *)
ParsedPorts(body) == {k \in Port : \A j \in 0 .. k : body[j] # Malformed}
Parses(body) == ParsedPorts(body) = Port

StuffRecvQueue(s, body) ==
  [s EXCEPT !.recv = [k \in Port |->
     IF k \in ParsedPorts(body) /\ body[k] # NoFrame
     THEN Append(s.recv[k], body[k]) ELSE s.recv[k]]]

(* processFrames: the frame at the head of port p goes to the ports fw[p]. *)
TakenFrom_fault(s) == {p \in Port \ {0} : s.recv[p] # << >>} \* 1-based
TakenFrom(s) == {p \in Port : s.recv[p] # << >>}
QueuedFor(s, fw, k) ==
  LET from == AtPositions([n \in 1 .. NUM_PORTS |-> n - 1],
                {n \in 1 .. NUM_PORTS : n - 1 \in TakenFrom(s) /\ k \in fw[n - 1]})
  IN  [n \in DOMAIN from |-> Head(s.recv[from[n]])]
ProcessFrames(s, fw) ==
  [s EXCEPT !.recv = [p \in Port |-> IF p \in TakenFrom(s)
                                     THEN Tail(s.recv[p]) ELSE s.recv[p]],
            !.send = [k \in Port |-> s.send[k] \o QueuedFor(s, fw, k)]]

PopSendQueues_fault(s) == \* answers with the head and keeps it
  s
PopSendQueues(s) ==
  [s EXCEPT !.send = [k \in Port |-> IF s.send[k] = << >> THEN << >>
                                     ELSE Tail(s.send[k])]]
Popped(s) == [k \in Port |-> IF s.send[k] = << >> THEN NoFrame
                             ELSE Head(s.send[k])]

----------------------------------------------------------------------------
Helo_fault == lastId' = 1 /\ sw' = FreshSwitch(1) \* the id is not static
Helo == lastId' = lastId + 1 /\ sw' = FreshSwitch(lastId + 1)

(* What a tick with id i and this body does to the switch, and its answer. *)
Current_fault(i) == sw.id # 0 \* takes any tick
Current(i) == sw.id # 0 /\ i = sw.id
Served(body, fw) == ProcessFrames(StuffRecvQueue(sw, body), fw)
Tick(i, body, fw) ==
  /\ sw' = IF ~Current(i) THEN sw
           ELSE IF ~Parses(body) THEN StuffRecvQueue(sw, body)
           ELSE PopSendQueues(Served(body, fw))
  /\ UNCHANGED lastId
TickAnswer(i, body, fw) ==
  IF ~Current(i) THEN [status |-> 412]
  ELSE IF ~Parses(body) THEN [status |-> 400]
  ELSE [status |-> 200, frames |-> Popped(Served(body, fw))]
=============================================================================
