------------------------------ MODULE Discovery ------------------------------
(***************************************************************************)
(* The scan for switches on the local network (client/discovery.py): one   *)
(* datagram asks every switch for its MAC and address, the answers come to *)
(* a UDP port that only one scan can have.  The network loses, delays,     *)
(* duplicates and reorders datagrams, those of an earlier scan or of       *)
(* another program arrive too, and switches change their addresses.        *)
(***************************************************************************)
EXTENDS Naturals, Sequences, FiniteSets

CONSTANTS Clients,      \* who may scan
          Switches,     \* the switches, known by their MAC
          Hosts,        \* addresses
          None,         \* no client, no switch
          Offline,      \* the address of a switch that does not answer
          MaxQueue,     \* _MAX_QUEUED_PACKETS, 128 in the code
          MaxResponses, \* _MAX_RESPONSES, 64 in the code
          MaxMoves      \* bound on changes of addresses

ASSUME DiscoveryAssumption ==
    /\ None \notin Clients \cup Switches
    /\ Offline \notin Hosts
    /\ MaxQueue \in Nat \ {0}
    /\ MaxResponses \in Nat \ {0}
    /\ MaxMoves \in Nat

VARIABLES address, \* where each switch is
          scanner, \* the client whose transport is bound to the port
          queue,   \* datagrams that were received and not looked at
          found,   \* discovered: the address of each MAC that answered
          late,    \* the deadline has passed
          held,    \* history: the addresses a switch had during the scan
          moves

scanVars == <<scanner, queue, found, late, held>>

(* An answer to this scan, an answer to another one (another client_mac or *)
(* sequence), and anything else that can come to the port.                 *)
Datagrams ==
    [kind : {"answer", "foreign"}, mac : Switches, host : Hosts]
        \cup {[kind |-> "junk"]}

NothingFound == [m \in {} |-> None]

NothingHeld == [s \in Switches |-> {}]

DiscoveryTypeOK ==
    /\ address \in [Switches -> Hosts \cup {Offline}]
    /\ scanner \in Clients \cup {None}
    /\ queue \in Seq(Datagrams) /\ Len(queue) <= MaxQueue
    /\ DOMAIN found \subseteq Switches /\ \A m \in DOMAIN found : found[m] \in Hosts
    /\ Cardinality(DOMAIN found) <= MaxResponses
    /\ late \in BOOLEAN
    /\ held \in [Switches -> SUBSET Hosts]
    /\ moves \in 0..MaxMoves

Apart(a) == \A s, t \in Switches : s # t /\ a[s] = a[t] => a[s] = Offline

DiscoveryInit ==
    /\ address \in {a \in [Switches -> Hosts \cup {Offline}] : Apart(a)}
    /\ scanner = None
    /\ queue = <<>>
    /\ found = NothingFound
    /\ late = FALSE
    /\ held = NothingHeld
    /\ moves = 0

-----------------------------------------------------------------------------
(* The network.                                                            *)

(* A switch gets another address, or is switched on or off.                *)
Move(s, h) ==
    /\ moves < MaxMoves
    /\ address[s] # h
    /\ address' = [address EXCEPT ![s] = h]
    /\ Apart(address')
    /\ held' = IF scanner = None \/ h = Offline THEN held
               ELSE [held EXCEPT ![s] = @ \cup {h}]
    /\ moves' = moves + 1
    /\ UNCHANGED <<scanner, queue, found, late>>

(* Fault of Receive: the queue is not bounded.                             *)
FaultyReceive(d) ==
    /\ scanner # None
    /\ d.kind = "answer" => d.host \in held[d.mac]
    /\ queue' = Append(queue, d)
    /\ UNCHANGED <<address, moves, scanner, found, late, held>>

(* datagram_received.  An answer names an address its switch has had since *)
(* it was asked; what does not fit into the queue is dropped.              *)
Receive(d) ==
    /\ scanner # None
    /\ d.kind = "answer" => d.host \in held[d.mac]
    /\ Len(queue) < MaxQueue
    /\ queue' = Append(queue, d)
    /\ UNCHANGED <<address, moves, scanner, found, late, held>>

-----------------------------------------------------------------------------
(* async_discover_switches.                                                *)

(* create_datagram_endpoint: the port is free; the request is sent before  *)
(* anything else runs.  If it cannot be bound or nothing be sent, the scan *)
(* ends with a DiscoveryError and leaves nothing behind.                   *)
OpenPort(c) ==
    /\ scanner = None
    /\ scanner' = c
    /\ held' = [s \in Switches |-> {address[s]} \cap Hosts]
    /\ UNCHANGED <<address, moves, queue, found, late>>

(* Fault of Accepts: the sequence number is not compared.                  *)
FaultyAccepts(d) == d.kind # "junk"

(* The source port and _parse_discovery_response.                          *)
Accepts(d) == d.kind = "answer"

(* Fault of Over: the deadline is only noticed while waiting.              *)
FaultyOver == (late /\ queue = <<>>) \/ Cardinality(DOMAIN found) >= MaxResponses

(* The loop is left: the deadline has passed, or enough switches are found. *)
Over == late \/ Cardinality(DOMAIN found) >= MaxResponses

(* One turn of the loop: of several answers of a switch the last counts.   *)
Turn ==
    /\ scanner # None
    /\ ~Over
    /\ queue # <<>>
    /\ queue' = Tail(queue)
    /\ found' = IF Accepts(Head(queue))
                THEN [m \in DOMAIN found \cup {Head(queue).mac} |->
                          IF m = Head(queue).mac THEN Head(queue).host ELSE found[m]]
                ELSE found
    /\ UNCHANGED <<address, moves, scanner, late, held>>

(* loop.time() reaches the deadline.                                       *)
Deadline ==
    /\ scanner # None
    /\ ~late
    /\ late' = TRUE
    /\ UNCHANGED <<address, moves, scanner, queue, found, held>>

(* transport.close() in the finally: also if the scan is cancelled.        *)
ClosePort(c) ==
    /\ scanner = c
    /\ scanner' = None
    /\ queue' = <<>>
    /\ found' = NothingFound
    /\ late' = FALSE
    /\ held' = NothingHeld
    /\ UNCHANGED <<address, moves>>

-----------------------------------------------------------------------------

(* A switch is listed with an address it had during this scan: no late     *)
(* answer to an earlier scan, of a switch that has moved since, and no     *)
(* datagram of another client is taken for an answer                       *)
(* (_parse_discovery_response, _CLIENT_PORT).                              *)
FoundIsFresh == \A m \in DOMAIN found : found[m] \in held[m]

=============================================================================
