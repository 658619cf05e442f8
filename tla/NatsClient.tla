------------------------------ MODULE NatsClient ------------------------------
(***************************************************************************)
(* The client the controller keeps per NATS resource (pkg/nats/client.go)  *)
(* and, as far as it can see them, the NATS server and the nats.go         *)
(* connection behind it.                                                   *)
(*                                                                         *)
(* The listings of nats.go are channels that are closed when the listing   *)
(* ends, whatever ended it: client.go reads them to the end and sees no    *)
(* error.  ListingCanEndEarly says whether a listing from a connected,     *)
(* running server may end before it is complete.  It may in the code (a    *)
(* page of the listing times out); FALSE is the server that always answers.*)
(***************************************************************************)
EXTENDS Naturals, FiniteSets

CONSTANTS
  CustomerStreams,      \* names of streams other than SapStreamName
  ListingCanEndEarly    \* BOOLEAN, see above

SapStreamName == "sap"
StreamNames   == CustomerStreams \cup {SapStreamName}

ASSUME ClientAssumption ==
  /\ SapStreamName \notin CustomerStreams
  /\ ListingCanEndEarly \in BOOLEAN

VARIABLES
  up,         \* the server runs and is reachable
  streams,    \* the streams it holds
  consumers,  \* whether the stream SapStreamName, if it exists, has consumers
  client,     \* whether the controller's map holds a client for the resource
  conn,       \* the connection that client holds
  lost        \* whether a connection is open that nothing refers to any more

serverVars == <<up, streams, consumers>>
clientVars == <<client, conn, lost>>

ConnStates == {"none", "connected", "reconnecting", "closed"}

ClientTypeOK ==
  /\ up \in BOOLEAN
  /\ streams \subseteq StreamNames
  /\ consumers \in BOOLEAN
  /\ client \in BOOLEAN
  /\ conn \in ConnStates
  /\ lost \in BOOLEAN

\* At start nothing is deployed, so no server runs and no stream exists.
ClientInitial ==
  /\ up = FALSE
  /\ streams = {}
  /\ consumers = FALSE
  /\ client = FALSE
  /\ conn = "none"
  /\ lost = FALSE

CustomerStreamHeld == CustomerStreams \cap streams # {}
SapConsumerHeld    == SapStreamName \in streams /\ consumers

-------------------------------------------------------------------------------
(* The client's operations, as relations between the two states.           *)

\* Mutant: the connection is taken over while it is still being made.
ClientInitUnfinished ==
  \/ conn = "connected" /\ UNCHANGED <<conn, lost>>
  \/ conn # "connected" /\ conn' = "connecting" /\ UNCHANGED lost

\* Mutant: the state of the connection is not asked for.
ClientInitAnew ==
  /\ up
  /\ conn' = "connected"
  /\ lost' = (lost \/ conn \in {"connected", "reconnecting"})

\* Init: a connection that is not CONNECTED is replaced.  One that is still
\* trying to reconnect is not closed first, and lives on unreferenced.
ClientInit ==
  /\ \/ conn = "connected" /\ UNCHANGED <<conn, lost>>
     \/ /\ conn # "connected"
        /\ up
        /\ conn' = "connected"
        /\ lost' = (lost \/ conn = "reconnecting")

\* Init fails: the server is not there, the handshake times out or (the
\* second case) it succeeds and the connection is down again when
\* IsConnected is asked.  mayFail allows the failures a running server has.
ClientInitFails(mayFail) ==
  /\ conn # "connected"
  /\ ~up \/ mayFail
  /\ lost' \in {lost} \cup (IF up THEN {TRUE} ELSE {})
  /\ UNCHANGED conn

Reachable == up /\ conn = "connected"

\* GetStreams: the lists of streams the call may return.  If nothing answers
\* the channel is closed empty.
Listings ==
  IF ~Reachable THEN {{}}
  ELSE IF ListingCanEndEarly THEN SUBSET streams
  ELSE {streams}

\* ConsumersExist(SapStreamName): the answers the call may return.
ConsumerAnswers ==
  {SapConsumerHeld /\ Reachable} \cup (IF ListingCanEndEarly THEN {FALSE} ELSE {})

\* Close and the removal of the client from the map, if it is there.
CloseClient ==
  /\ client' = FALSE
  /\ conn' = "none"
  /\ UNCHANGED lost

-------------------------------------------------------------------------------
(* What happens to the server and to the connection on its own.            *)

ServerUp   == ~up /\ up' = TRUE  /\ UNCHANGED <<streams, consumers, clientVars>>
ServerDown == up  /\ up' = FALSE /\ UNCHANGED <<streams, consumers, clientVars>>

\* Publishers and subscribers use the server through connections of their
\* own: streams appear and disappear while it is up.
CreateStream(s) ==
  /\ up /\ s \notin streams
  /\ streams' = streams \cup {s}
  /\ UNCHANGED <<up, consumers, clientVars>>

DeleteStream(s) ==
  /\ up /\ s \in streams
  /\ streams' = streams \ {s}
  /\ consumers' = (consumers /\ s # SapStreamName)
  /\ UNCHANGED <<up, clientVars>>

ChangeConsumers ==
  /\ up /\ SapStreamName \in streams
  /\ consumers' = ~consumers
  /\ UNCHANGED <<up, streams, clientVars>>

\* nats.go notices that the peer is gone, reconnects, or gives up.
ConnectionDrops ==
  /\ conn = "connected"
  /\ conn' = "reconnecting"
  /\ UNCHANGED <<serverVars, client, lost>>

ConnectionRecovers ==
  /\ conn = "reconnecting" /\ up
  /\ conn' = "connected"
  /\ UNCHANGED <<serverVars, client, lost>>

ConnectionGivesUp ==
  /\ conn = "reconnecting" /\ ~up
  /\ conn' = "closed"
  /\ UNCHANGED <<serverVars, client, lost>>

\* Unreferenced connections give up as well once the server is gone for good.
LostGivesUp ==
  /\ lost /\ ~up
  /\ lost' = FALSE
  /\ UNCHANGED <<serverVars, client, conn>>

===============================================================================
