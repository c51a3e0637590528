------------------------------- MODULE EdgeAgents -------------------------------
(* One edge agent and the server: commands the agent polls for and acknowledges,     *)
(* and events it sends, over HTTP or through a JetStream stream that the server's     *)
(* subscriber drains (internal/edgeagent).                                             *)
(*                                                                                    *)
(* Every call of the agent is one transaction that begins by updating the row of its   *)
(* token (withTokenTx), so calls with one token run one after the other.  The stream   *)
(* redelivers what is not acknowledged; the responses to the agent can be lost.        *)
(* Heartbeats, which set a status nothing here depends on, are requests only.          *)
EXTENDS Naturals, Sequences, FiniteSets, SequencesExt

CONSTANTS
    Tokens,     \* identities of edge_agent_tokens rows of the agent
    Commands,   \* identities of edge_agent_commands rows
    Polls,      \* concurrent GET /api/edge/commands requests
    Events,     \* what the agent has to tell
    Storable,   \* events whose payload the database accepts
    Batch,      \* how many messages a Fetch returns at most
    Troubles    \* bound: database outages, crashes and lost acknowledgements

ASSUME EdgeAssumption == Storable \subseteq Events /\ Batch \in Nat \ {0} /\ Troubles \in Nat

VARIABLES
    token,      \* a token is not issued, valid or expired
    command,    \* a command's status, "none" before it is created
    acker,      \* the token it was last acknowledged with, "" before (history)
    poll,       \* a poll in its transaction: its token and the ids it has read
    seen,       \* commands whose delivery has reached the agent
    stream,     \* the messages JetStream will deliver, in order: <<event, token>>
    pulled,     \* the batch that processPulledMessages is working on
    stored,     \* edge_events: how often each event is recorded, 2 for more than once
    rejected,   \* events that were refused for good
    troubles

edgeVars == <<token, command, acker, poll, seen, stream, pulled, stored, rejected, troubles>>
commandVars == <<command, acker, poll, seen>>
eventVars == <<stream, pulled, stored, rejected, troubles>>

Idle == [token |-> "", ids |-> {}]

\* The types of the variables; a polled command was created.
EdgeTypeOK ==
    /\ token \in [Tokens -> {"none", "valid", "expired"}]
    /\ command \in [Commands -> {"none", "pending", "delivered", "acknowledged"}]
    /\ acker \in [Commands -> Tokens \cup {""}]
    /\ poll \in [Polls -> [token : Tokens, ids : SUBSET Commands] \cup {Idle}]
    /\ \A p \in Polls : \A c \in poll[p].ids : command[c] # "none"
    /\ seen \subseteq Commands
    /\ stream \in Seq(Events \X Tokens)
    /\ pulled \in Seq(Events \X Tokens) /\ Len(pulled) <= Batch
    /\ stored \in [Events -> 0 .. 2]
    /\ rejected \subseteq Events
    /\ troubles \in 0 .. Troubles

EdgeInit ==
    /\ token = [t \in Tokens |-> "none"]
    /\ command = [c \in Commands |-> "none"]
    /\ acker = [c \in Commands |-> ""]
    /\ poll = [p \in Polls |-> Idle]
    /\ seen = {}
    /\ stream = <<>> /\ pulled = <<>>
    /\ stored = [e \in Events |-> 0]
    /\ rejected = {}
    /\ troubles = 0

--------------------------------------------------------------------------------
(* The owner.                                                                     *)

IssueToken(t) ==
    /\ token[t] = "none"
    /\ token' = [token EXCEPT ![t] = "valid"]
    /\ UNCHANGED <<commandVars, eventVars>>

\* expires_at passes.
ExpireToken(t) ==
    /\ token[t] = "valid"
    /\ token' = [token EXCEPT ![t] = "expired"]
    /\ UNCHANGED <<commandVars, eventVars>>

CreateCommand(c) ==
    /\ command[c] = "none"
    /\ command' = [command EXCEPT ![c] = "pending"]
    /\ UNCHANGED <<token, acker, poll, seen, eventVars>>

--------------------------------------------------------------------------------
(* The agent's calls.                                                             *)

Locked(t) == \E p \in Polls : poll[p].token = t

\* withTokenTx: the token is valid, and its row is updated, which waits for another
\* transaction that has done so.
WithToken(t) == token[t] = "valid" /\ ~Locked(t)

\* PollCommands reads what is pending ...
PollRead(p, t) ==
    /\ poll[p] = Idle
    /\ WithToken(t)
    /\ \E c \in Commands : command[c] = "pending"
    /\ poll' = [poll EXCEPT ![p] = [token |-> t, ids |-> {c \in Commands : command[c] = "pending"}]]
    /\ UNCHANGED <<token, command, acker, seen, eventVars>>

\* ... and marks those rows delivered, whatever their status is now.  The response
\* reaches the agent or does not.
PollCommit(p) ==
    /\ poll[p] # Idle
    /\ command' = [c \in Commands |-> IF c \in poll[p].ids THEN "delivered" ELSE command[c]]
    /\ seen' \in {seen, seen \cup poll[p].ids}
    /\ poll' = [poll EXCEPT ![p] = Idle]
    /\ UNCHANGED <<token, acker, eventVars>>

\* The transaction is rolled back.
PollAborts(p) ==
    /\ poll[p] # Idle
    /\ poll' = [poll EXCEPT ![p] = Idle]
    /\ UNCHANGED <<token, command, acker, seen, eventVars>>

Acknowledges(c, t) ==
    /\ c \in seen
    /\ command' = [command EXCEPT ![c] = "acknowledged"]
    /\ acker' = [acker EXCEPT ![c] = t]
    /\ UNCHANGED <<token, poll, seen, eventVars>>

\* Mutant: the token is looked up without updating its row.
AckUnlocked(c, t) == token[t] = "valid" /\ Acknowledges(c, t)

\* AckCommand, of a command the agent knows of.
AckCommand(c, t) == WithToken(t) /\ Acknowledges(c, t)

Record(e) == stored' = [stored EXCEPT ![e] = IF @ = 2 THEN 2 ELSE @ + 1]

\* Whether an event is on its way or there.
Sent(e) ==
    \/ stored[e] > 0 \/ e \in rejected
    \/ \E k \in DOMAIN stream : stream[k][1] = e
    \/ \E k \in DOMAIN pulled : pulled[k][1] = e

\* RecordEvent, over HTTP.
PostEvent(e, t) ==
    /\ ~Sent(e) /\ WithToken(t)
    /\ e \in Storable
    /\ Record(e)
    /\ UNCHANGED <<token, commandVars, stream, pulled, rejected, troubles>>

\* The agent publishes to the stream, with any token it was ever given.
Publish(e, t) ==
    /\ ~Sent(e) /\ token[t] # "none"
    /\ stream' = Append(stream, <<e, t>>)
    /\ UNCHANGED <<token, commandVars, pulled, stored, rejected, troubles>>

--------------------------------------------------------------------------------
(* The subscriber.                                                                *)

\* PollOnce fetches what comes first.
Fetch ==
    /\ pulled = <<>> /\ stream # <<>>
    /\ LET n == IF Len(stream) < Batch THEN Len(stream) ELSE Batch IN
        /\ pulled' = SubSeq(stream, 1, n)
        /\ stream' = SubSeq(stream, n + 1, Len(stream))
    /\ UNCHANGED <<token, commandVars, stored, rejected, troubles>>

Message == Head(pulled)
Trouble == troubles < Troubles /\ troubles' = troubles + 1

\* RecordEvent succeeds and the message is acknowledged; when the acknowledgement is
\* lost, the message is delivered again.
StoreMessage ==
    /\ pulled # <<>>
    /\ WithToken(Message[2]) /\ Message[1] \in Storable
    /\ Record(Message[1])
    /\ pulled' = Tail(pulled)
    /\ \/ UNCHANGED <<stream, troubles>>
       \/ Trouble /\ stream' = Append(stream, Message)
    /\ UNCHANGED <<token, commandVars, rejected>>

\* A permanent error (isPermanentRecordEventError): the message is acknowledged too.
RejectMessage ==
    /\ pulled # <<>>
    /\ token[Message[2]] # "valid"
    /\ rejected' = rejected \cup {Message[1]}
    /\ pulled' = Tail(pulled)
    /\ UNCHANGED <<token, commandVars, stream, stored, troubles>>

\* Any other error is acknowledged as well.
DropMessage ==
    /\ pulled # <<>>
    /\ pulled' = Tail(pulled)
    /\ \/ token[Message[2]] = "valid" /\ Message[1] \notin Storable /\ UNCHANGED troubles
       \/ Trouble
    /\ UNCHANGED <<token, commandVars, stream, stored, rejected>>

\* Any other error, of this moment or of this payload: Nak, and the stream delivers the
\* message again, before what it has not delivered yet.
RetryMessage ==
    /\ pulled # <<>>
    /\ pulled' = Tail(pulled)
    /\ stream' = <<Message>> \o stream
    /\ \/ token[Message[2]] = "valid" /\ Message[1] \notin Storable /\ UNCHANGED troubles
       \/ Trouble
    /\ UNCHANGED <<token, commandVars, stored, rejected>>

\* The server stops: open transactions are rolled back, and what was fetched and not
\* acknowledged is delivered again.
ServerStops ==
    /\ Trouble
    /\ pulled # <<>>
    /\ stream' = pulled \o stream
    /\ pulled' = <<>>
    /\ poll' = [p \in Polls |-> Idle]
    /\ UNCHANGED <<token, command, acker, seen, stored, rejected>>

Subscriber == Fetch \/ StoreMessage \/ RejectMessage \/ RetryMessage

EdgeNext ==
    \/ \E t \in Tokens :
        \/ IssueToken(t) \/ ExpireToken(t)
        \/ \E p \in Polls : PollRead(p, t)
        \/ \E c \in Commands : AckCommand(c, t)
        \/ \E e \in Events : PostEvent(e, t) \/ Publish(e, t)
    \/ \E c \in Commands : CreateCommand(c)
    \/ \E p \in Polls : PollCommit(p) \/ PollAborts(p)
    \/ Subscriber \/ ServerStops

\* RunSubscriber's ticker, and transactions that end (RequestTimeout).
EdgeFairness ==
    /\ SF_edgeVars(Subscriber)
    /\ \A p \in Polls : WF_edgeVars(PollCommit(p) \/ PollAborts(p))

EdgeSpec == EdgeInit /\ [][EdgeNext]_edgeVars /\ EdgeFairness

--------------------------------------------------------------------------------
(* Properties.                                                                    *)

\* A command that the agent has reported as executed goes back to delivered only by a poll of
\* another of its tokens, which had read it before: a poll marks the rows it has read without
\* looking at their status again, and only the lock on the token's row keeps an acknowledgement
\* from coming in between (commands.go:226, tokens.go:216-246).
AcknowledgedIsFinal ==
    [][\A c \in Commands : command[c] = "acknowledged" /\ command'[c] # "acknowledged" =>
        \E p \in Polls : c \in poll[p].ids /\ poll[p].token # acker[c]]_edgeVars

\* An event that was published is recorded or refused for good, through outages, crashes
\* and lost acknowledgements; a message the database can never store does not keep the
\* others from being served while there are fewer of those than Batch (nats.go:156-162).
EventsArrive ==
    \A e \in Storable :
        (\E k \in DOMAIN stream : stream[k][1] = e) ~> (stored[e] > 0 \/ e \in rejected)

\* What an agent has done stays done, and what it has told arrives.
AgentsAreServed == AcknowledgedIsFinal /\ EventsArrive

================================================================================
