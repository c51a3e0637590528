----------------------------- MODULE PermissionFeed -----------------------------
(* How a change of grants reaches the screens that are open: the Broadcaster, the      *)
(* grant and revoke handlers and the event stream of internal/permission, and the       *)
(* browser's listener (web/src/components/AuditMode/AuditModeClient.tsx).               *)
(*                                                                                    *)
(* One firm.  A stream that is closed is not opened again here: EventSource reconnects  *)
(* without fetching, so what was published in between is not seen.  The grants are read  *)
(* when a fetch is made and shown when its answer comes; the answers of two fetches may   *)
(* come in any order.  The fetch after a grant made on the screen itself (reloadAudit) is  *)
(* left out.                                                                              *)
EXTENDS Naturals, FiniteSets

CONSTANTS
    Granters,     \* concurrent grant and revoke requests
    Screens,    \* browsers with Audit Mode open
    MaxChanges, \* bound on the changes of the grants
    NotYet      \* a screen has fetched nothing

ASSUME ChangesAssumption == MaxChanges \in Nat /\ NotYet \notin Nat

VARIABLES
    grants,     \* the committed role_permissions, as the number of changes made to them
    owner,      \* a request: "idle" or "committed", its Publish still to come
    flag,       \* a screen's channel: "none" when not subscribed, else "empty" or "full"
    wire,       \* events written to a screen's stream and not yet handled by it
    asked,      \* the grants that the screen's latest fetch has read, NotYet with Audit Mode off
    fetches,    \* how many fetches are in flight, by the grants they have read
    shown,      \* the grants on the screen
    tangled     \* since nothing was in flight, two fetches were, or one failed (history)

screenVars == <<asked, fetches, shown, tangled>>
feedVars == <<grants, owner, flag, wire, screenVars>>

\* The types of the variables; no screen shows or fetches what is not there yet, and at most
\* one event waits in a channel.
FeedTypeOK ==
    /\ grants \in 0 .. MaxChanges
    /\ owner \in [Granters -> {"idle", "committed"}]
    /\ flag \in [Screens -> {"none", "empty", "full", "closed"}]
    /\ wire \in [Screens -> Nat]
    /\ asked \in [Screens -> (0 .. grants) \cup {NotYet}]
    /\ fetches \in [Screens -> [0 .. MaxChanges -> Nat]]
    /\ \A s \in Screens : \A n \in 0 .. MaxChanges : fetches[s][n] > 0 => n <= grants
    /\ shown \in [Screens -> (0 .. grants) \cup {NotYet}]
    /\ tangled \in [Screens -> BOOLEAN]

FeedInit ==
    /\ grants = 0
    /\ owner = [o \in Granters |-> "idle"]
    /\ flag = [s \in Screens |-> "none"]
    /\ wire = [s \in Screens |-> 0]
    /\ asked = [s \in Screens |-> NotYet]
    /\ fetches = [s \in Screens |-> [n \in 0 .. MaxChanges |-> 0]]
    /\ shown = [s \in Screens |-> NotYet]
    /\ tangled = [s \in Screens |-> FALSE]

\* Publish's loop: a full channel is skipped, its news is not older than this one.
Raised == [s \in Screens |-> IF flag[s] = "empty" THEN "full" ELSE flag[s]]

\* The news is published before the transaction is committed.
PublishFirst(o) ==
    \/ /\ owner[o] = "idle" /\ grants < MaxChanges
       /\ flag' = Raised
       /\ owner' = [owner EXCEPT ![o] = "committed"]
       /\ UNCHANGED <<grants, wire, screenVars>>
    \/ /\ owner[o] = "committed"
       /\ grants' = IF grants < MaxChanges THEN grants + 1 ELSE grants
       /\ owner' = [owner EXCEPT ![o] = "idle"]
       /\ UNCHANGED <<flag, wire, screenVars>>

\* handleGrant and handleRevoke: the change is committed, then published.
ChangeGrants(o) ==
    \/ /\ owner[o] = "idle" /\ grants < MaxChanges
       /\ grants' = grants + 1
       /\ owner' = [owner EXCEPT ![o] = "committed"]
       /\ UNCHANGED <<flag, wire, screenVars>>
    \/ /\ owner[o] = "committed"
       /\ flag' = Raised
       /\ owner' = [owner EXCEPT ![o] = "idle"]
       /\ UNCHANGED <<grants, wire, screenVars>>

\* Subscribe; the response's header opens the stream.
Subscribe(s) ==
    /\ flag[s] = "none"
    /\ flag' = [flag EXCEPT ![s] = "empty"]
    /\ UNCHANGED <<grants, owner, wire, screenVars>>

InFlight(s) == \E n \in 0 .. MaxChanges : fetches[s][n] > 0

\* fetchFirmPermissionAuditClient: the server reads the grants, the answer is on its way.
Fetches(s) ==
    /\ asked' = [asked EXCEPT ![s] = grants]
    /\ fetches' = [fetches EXCEPT ![s][grants] = @ + 1]
    /\ tangled' = [tangled EXCEPT ![s] = InFlight(s)]
    /\ UNCHANGED shown

\* Audit Mode is turned on with the stream open, and fetches.
TurnOn(s) ==
    /\ flag[s] \in {"empty", "full"} /\ asked[s] = NotYet
    /\ Fetches(s)
    /\ UNCHANGED <<grants, owner, flag, wire>>

\* The loop of handleEvents takes the flag and writes an event.
Forward(s) ==
    /\ flag[s] = "full"
    /\ flag' = [flag EXCEPT ![s] = "empty"]
    /\ wire' = [wire EXCEPT ![s] = @ + 1]
    /\ UNCHANGED <<grants, owner, screenVars>>

\* The listener fetches the state of all grants, if Audit Mode is on.
Refetch(s) ==
    /\ wire[s] > 0
    /\ wire' = [wire EXCEPT ![s] = @ - 1]
    /\ IF asked[s] = NotYet THEN UNCHANGED screenVars ELSE Fetches(s)
    /\ UNCHANGED <<grants, owner, flag>>

\* An answer comes and is shown, whatever is shown already; a fetch that failed leaves the
\* screen as it is, or empties it if it was the first.
Answer(s, n) ==
    /\ fetches[s][n] > 0
    /\ fetches' = [fetches EXCEPT ![s][n] = @ - 1]
    /\ \/ shown' = [shown EXCEPT ![s] = n] /\ UNCHANGED tangled
       \/ /\ shown' \in {shown, [shown EXCEPT ![s] = NotYet]}
          /\ tangled' = [tangled EXCEPT ![s] = TRUE]
    /\ UNCHANGED <<grants, owner, flag, wire, asked>>
Answers(s) == \E n \in 0 .. MaxChanges : Answer(s, n)

\* The request's context is done: unsubscribe.
Close(s) ==
    /\ flag[s] \in {"empty", "full"}
    /\ flag' = [flag EXCEPT ![s] = "closed"]
    /\ UNCHANGED <<grants, owner, wire, screenVars>>

FeedNext ==
    \/ \E o \in Granters : ChangeGrants(o)
    \/ \E s \in Screens : Subscribe(s) \/ TurnOn(s) \/ Forward(s) \/ Refetch(s) \/ Answers(s) \/ Close(s)

\* A request that has committed goes on to publish, the stream's loop runs, the browser
\* handles its events, and every fetch is answered or fails.
FeedFairness ==
    /\ \A o \in Granters : WF_feedVars(owner[o] = "committed" /\ ChangeGrants(o))
    /\ \A s \in Screens :
        WF_feedVars(Forward(s)) /\ WF_feedVars(Refetch(s)) /\ WF_feedVars(Answers(s))

FeedSpec == FeedInit /\ [][FeedNext]_feedVars /\ FeedFairness

--------------------------------------------------------------------------------
(* Property.                                                                     *)

\* Every screen with Audit Mode on has in the end fetched what the grants are, as long as its
\* stream stays open, though two changes may leave one event only: "a subscriber that
\* wakes up and re-fetches must see the new grant" (handlers.go:226-231, broadcast.go:71-82).
\* It shows them too, unless its last fetches overlapped, when an older answer may come last
\* (AuditModeClient.tsx:111-113 does not look), or one of them failed.
ScreensCatchUp ==
    \A s \in Screens :
        (flag[s] # "closed" /\ asked[s] # NotYet)
            ~> (flag[s] = "closed" \/ (asked[s] = grants /\ (shown[s] = grants \/ tangled[s])))

================================================================================
