------------------------------- MODULE InboundSync -------------------------------
(* Inbound pulls: internal/integration/inbound.go pulls the connectors that are overdue, fetches    *)
(* their records and creates or updates a product or a customer for each of them.  One          *)
(* connector with one mapping.                                                                   *)
(*                                                                                               *)
(* The time is whether the connector is overdue.  The records a source returns are the same at every *)
(* poll.  A key (sku, email) is looked up as the record has it and stored without the white       *)
(* space around it; of a record only its key is kept.  Nothing deletes products or customers; a   *)
(* product's sku is immutable, a customer's email is not, and no index makes it unique.          *)
EXTENDS Naturals, Sequences

CONSTANTS
    Keys,       \* natural keys of records
    Padded,     \* those with white space around them
    Feed,       \* the records the source returns, by key
    Pulls,      \* how many pulls there are (a bound)
    Stops,      \* how often the server stops or a last transaction fails
    Edits       \* how often somebody creates an entity or changes an email by hand

ASSUME FeedAssumption ==
    Padded \subseteq Keys /\ Feed \in Seq(Keys) /\ {Pulls, Stops, Edits} \subseteq Nat

VARIABLES
    target,     \* the mapping's target entity
    overdue,    \* whether last_sync_at is an interval ago
    pulls,      \* pulls begun
    pull,       \* the pull in progress: its phase, the record it is at, whether that was found
    rows,       \* the entities stored, by key without white space: those a pull created for it,
                \* and those that somebody gave the key
    stops,
    edits

syncVars == <<target, overdue, pulls, pull, rows, stops, edits>>

NoPull == [phase |-> "none", at |-> 1, found |-> FALSE]
Made(k) == rows[k].hand + rows[k].pull

\* The types of the variables.
SyncTypeOK ==
    /\ target \in {"products", "customers"}
    /\ overdue \in BOOLEAN
    /\ pulls \in 0 .. Pulls /\ stops \in 0 .. Stops /\ edits \in 0 .. Edits
    /\ pull \in [phase : {"none", "find", "apply", "end"}, at : 1 .. Len(Feed) + 1, found : BOOLEAN]
    /\ rows \in [Keys -> [hand : Nat, pull : Nat]]
    /\ target = "products" => \A k \in Keys : Made(k) <= 1

SyncInit ==
    /\ target \in {"products", "customers"}
    /\ overdue = TRUE
    /\ pulls = 0 /\ stops = 0 /\ edits = 0
    /\ pull = NoPull
    /\ rows = [k \in Keys |-> [hand |-> 0, pull |-> 0]]

--------------------------------------------------------------------------------

\* A poll finds the connector overdue: processInboundConnector's first transaction, and the fetch.
StartPull ==
    /\ pull = NoPull /\ overdue /\ pulls < Pulls
    /\ pulls' = pulls + 1
    /\ \E phase \in {"find", "end"} : pull' = [NoPull EXCEPT !.phase = phase]
    /\ UNCHANGED <<target, overdue, rows, stops, edits>>

\* findProductIDBySKU, findCustomerIDByEmail: a transaction of its own.
FindRecord ==
    /\ pull.phase = "find" /\ pull.at <= Len(Feed)
    /\ LET k == Feed[pull.at] IN
        pull' = [pull EXCEPT !.phase = "apply", !.found = k \notin Padded /\ Made(k) > 0]
    /\ UNCHANGED <<target, overdue, pulls, rows, stops, edits>>

\* The unique index of products.
Refused(k) == target = "products" /\ Made(k) > 0

\* Mutant: it creates first and relies on the unique index to say that there is one.
CreateFirst ==
    LET k == Feed[pull.at] IN
    /\ pull.phase = "apply"
    /\ rows' = IF Refused(k) THEN rows ELSE [rows EXCEPT ![k].pull = @ + 1]
    /\ pull' = [pull EXCEPT !.phase = "find", !.at = @ + 1]
    /\ UNCHANGED <<target, overdue, pulls, stops, edits>>

\* An update, which leaves the key alone, or a creation; a creation that is refused is counted
\* as a failed record, and the pull goes on.
ApplyRecord ==
    LET k == Feed[pull.at] IN
    /\ pull.phase = "apply"
    /\ rows' = IF pull.found \/ Refused(k) THEN rows ELSE [rows EXCEPT ![k].pull = @ + 1]
    /\ pull' = [pull EXCEPT !.phase = "find", !.at = @ + 1]
    /\ UNCHANGED <<target, overdue, pulls, stops, edits>>

\* finishSyncLogTx.
FinishPull ==
    /\ pull.phase = "end" \/ (pull.phase = "find" /\ pull.at > Len(Feed))
    /\ overdue' = FALSE
    /\ pull' = NoPull
    /\ UNCHANGED <<target, pulls, rows, stops, edits>>

\* The server stops, or finishing fails: the log stays 'running', the connector overdue.
PullStops ==
    /\ pull # NoPull /\ stops < Stops
    /\ stops' = stops + 1
    /\ pull' = NoPull
    /\ UNCHANGED <<target, overdue, pulls, rows, edits>>

--------------------------------------------------------------------------------

\* An outbound push through the same connector ends, a push of what this pull has created
\* included: deliverOutboundOne sets last_sync_at too.
PushFinishes ==
    /\ overdue' = FALSE
    /\ UNCHANGED <<target, pulls, pull, rows, stops, edits>>

IntervalPasses ==
    /\ ~overdue
    /\ overdue' = TRUE
    /\ UNCHANGED <<target, pulls, pull, rows, stops, edits>>

\* Somebody creates a product or a customer with the key of a record.
CreateByHand(k) ==
    /\ edits < Edits /\ ~Refused(k)
    /\ edits' = edits + 1
    /\ rows' = [rows EXCEPT ![k].hand = @ + 1]
    /\ UNCHANGED <<target, overdue, pulls, pull, stops>>

\* UpdateCustomer: an owner gives a customer another email, that of a record of the feed or not.
ChangeEmail(k, by) ==
    /\ target = "customers" /\ edits < Edits /\ rows[k][by] > 0
    /\ edits' = edits + 1
    /\ LET Left == [rows EXCEPT ![k][by] = @ - 1] IN
        rows' \in {Left} \cup {[Left EXCEPT ![l].hand = @ + 1] : l \in Keys \ {k}}
    /\ UNCHANGED <<target, overdue, pulls, pull, stops>>

SyncStep ==
    \/ StartPull \/ FindRecord \/ ApplyRecord \/ FinishPull \/ PullStops
    \/ PushFinishes \/ IntervalPasses
    \/ \E k \in Keys : CreateByHand(k) \/ \E by \in {"hand", "pull"} : ChangeEmail(k, by)
SyncSpec == SyncInit /\ [][SyncStep]_syncVars

--------------------------------------------------------------------------------

\* However often pulls are repeated and wherever they are interrupted, and though a key comes
\* twice in a feed and somebody may create the same, of the entities pulls have created for a key
\* without white space at most one still has it (the lookup immediately before each creation,
\* inbound.go:353, 420): a second customer is created for a record only after an owner has given
\* the first another email (crm/customers.go:279-291).
OnePerKey == \A k \in Keys \ Padded : rows[k].pull <= 1
================================================================================
