------------------------------ MODULE HttpSteps ------------------------------
(***************************************************************************)
(* The vocabulary in which the services and the HTTP handlers of the       *)
(* server are described: a service is the sequence of the steps its        *)
(* function takes, in their order, each of them one thing a concurrent     *)
(* failure or a refusal can fall before or after.  What a step does to the *)
(* request is HttpRequests' business; this module only names the steps.    *)
(*                                                                         *)
(* An error is a pair of the package that declares it and its name.  What  *)
(* a condition of the code depends on is data, so a step that the code     *)
(* takes only for some inputs is a Maybe, and a validation is a May: the   *)
(* errors it may return.                                                   *)
(***************************************************************************)
EXTENDS Integers, Sequences, TLC

\* What no writer maps to a 4xx answer: a database or network failure.
Fault == <<"", "fault">>
\* Stands for every error and every fault in the set a handler of errors catches.
AnyFailure == <<"*", "*">>

Step(kind, on, n) == <<[kind |-> kind, on |-> on, n |-> n]>>
Nothing == <<>>

----------------------------------------------------------------------------
(* Errors.  The package is filled in by In. *)

\* Errors of the package at hand.
Own(errs) == {<<".", e>> : e \in errs}

Raising == {"may", "member", "owner", "holds", "mine", "refuse", "try", "guard"}

\* The package `pkg` takes the steps `s`: its unqualified errors are its own.
In(pkg, s) ==
  [i \in 1..Len(s) |->
     IF s[i].kind \in Raising
     THEN [s[i] EXCEPT !.on = {<<IF e[1] = "." THEN pkg ELSE e[1], e[2]>> : e \in @}]
     ELSE s[i]]

\* A validation, or a row that is not found or is in the wrong state.
May(errs) == Step("may", Own(errs), 0)
\* The same, returning the errors of another package.
MayOf(pkg, errs) == In(pkg, May(errs))
\* permission.IsMember and permission.IsOwner, answered with the given error.
MemberOr(e) == Step("member", Own({e}), 0)
OwnerOr(e) == Step("owner", Own({e}), 0)
Member == MemberOr("ErrFirmNotFound")
Owner == OwnerOr("ErrNotOwner")
\* permission.Has: a key the caller's roles do or do not grant.
Holds(e) == Step("holds", Own({e}), 0)
\* The row is the caller's own, or the caller is an owner.
MineOr(e) == Step("mine", Own({e}), 0)
\* The bearer token of an edge agent was found and has not expired.
Vouched == Step("vouched", {}, 0)

----------------------------------------------------------------------------
(* The database and the outside. *)

Reads == Step("read", {}, 0)
Put(tables) == Step("put", tables, 0)
\* auditlog.Write, in the transaction of the change it records.
Audit == Step("audit", {}, 0)
\* webhook.Dispatch, or a broadcaster's Publish.
Tell == Step("tell", {}, 0)
\* zdb.WithFirmContext, WithUserContext: Begin, the function, Commit.
InTx(s) == Step("begin", {}, 0) \o s \o Step("commit", {}, 0)
\* One statement outside a transaction is a transaction of its own.
OneTx(table) == InTx(Put({table}))
OneTxOr(table, errs) == InTx(May(errs) \o Put({table}))

----------------------------------------------------------------------------
(* Control.  A jump skips `n` steps forward. *)

\* The steps are taken or not, as some condition on the data decides.
Maybe(s) == Step("skip", {}, Len(s) + 1) \o s
\* One branch or the other.
Either(s, t) ==
  Step("skip", {}, Len(s) + 2) \o s \o Step("goto", {}, Len(t) + 1) \o t

Try(kind, errs, s) == Step(kind, errs, Len(s) + 2) \o s \o Step("done", {}, 0)
\* Best effort, or a goroutine with a context of its own: a failure ends the
\* steps, rolls back what they left open and is only logged.
Aside(s) == Try("try", {AnyFailure}, s)
\* These errors are expected; inside a transaction the steps run under a
\* savepoint, which is what the failure is rolled back to.
Catching(pkg, errs, s) == Try("try", {<<pkg, e>> : e \in errs}, s)
\* The failures of s in `errs` are answered by the steps c, then returned.
Cleaning(errs, c, s) ==
  LET t == s \o Step("done", {}, 0) \o Step("goto", {}, Len(c) + 2)
  IN Step("guard", errs, Len(t) + 1) \o t \o c \o Step("raise", {}, 0)
Before(errs, c, s) == Cleaning(Own(errs), c, s)
Undoing(c, s) == Cleaning({AnyFailure}, c, s)
\* Whatever goes wrong in s is returned as one error.
Blamed(pkg, e, s) ==
  LET t == s \o Step("done", {}, 0) \o Step("goto", {}, 2)
  IN Step("guard", {AnyFailure}, Len(t) + 1) \o t \o Step("refuse", {<<pkg, e>>}, 0)
\* A second look at a row the request has just read or written finds it.
Sure(s) ==
  [i \in 1..Len(s) |-> IF s[i].kind = "may" THEN [s[i] EXCEPT !.on = {}] ELSE s[i]]

----------------------------------------------------------------------------
(* Handlers. *)

\* A path value, a query or a body that does not parse.
Bad(inputs, status) == Step("input", inputs, status)
Inputs(names) == Bad(names, 400)
\* platformadmin.Allowlist.Contains: not being on it looks like no route at all.
Allowed == Bad({"allowlist"}, 404)
\* identity.ResolveOrCreateUser, a statement of its own.
User == OneTx("users")
\* resolveIdentity, and the resolveCaller whose every failure is a 500.
Caller == Inputs({"firmID"}) \o User
LooseCaller == Bad({"firmID"}, 500) \o User

\* What a package's error writer answers to errors of package `pkg`.
Answers(pkg, status, errs) == [e \in {<<pkg, x>> : x \in errs} |-> status]
NoAnswers == [e \in {} |-> 500]

Handler(steps, answers, ok) ==
  [steps |-> steps, answers |-> answers, ok |-> ok, open |-> FALSE]
\* Registered without the middleware that asks for an identity.
Open(handler) == [handler EXCEPT !.open = TRUE]

\* The routes of a package, named apart from those of every other.
Of(pkg, routes) ==
  [r \in {<<pkg, name>> : name \in DOMAIN routes} |-> routes[r[2]]]
=============================================================================
