------------------------------ MODULE HttpProofs ------------------------------
(***************************************************************************)
(* What a request may rely on, for every set of routes whose handlers can  *)
(* be annotated (HttpRequests' Annotated).  The invariant is that a        *)
(* request that is being served is as the note of the step it is at says:  *)
(* its transaction, the Try steps it is inside of with what each of them   *)
(* put aside, what it has changed for good and what it has told.  A step   *)
(* that goes on hands its note on (the lemma Goes), a step that fails does *)
(* so to the innermost Try that catches it, or to the caller (Fails).      *)
(***************************************************************************)
EXTENDS HttpRequests, SumLemmas

\* The transaction x of a request to h, of which the tables in w are watched, is as n says.
FitsTx(h, w, x, n) ==
  /\ x.open = n.open
  /\ n.checks \subseteq x.checks /\ x.checks \subseteq n.might
  /\ n.traced => x.traced
  /\ x.wrote => n.wrote \cap w # {}
  /\ (n.firm /\ w = Business(h)) => x.wrote
\* The frame f was put aside by the Try step at p.
FitsFrame(h, w, f, p, n) ==
  /\ p \in 1..Len(h.steps)
  /\ f.on = h.steps[p].on
  /\ f.to = p + h.steps[p].n
  /\ f.keep <=> h.steps[p].kind = "guard"
  /\ FitsTx(h, w, f.tx, n.tx)
FitsFrames(h, w, ns, fr, inside) ==
  /\ inside \in Seq(Nat) /\ Len(fr) = Len(inside)
  /\ \A k \in 1..Len(inside) : FitsFrame(h, w, fr[k], inside[k], ns[inside[k]])
FitsRest(h, w, n, pa, ke, co, to) ==
  /\ n.passed \subseteq pa
  /\ ke \in n.kept
  /\ co # {} => n.left \cap w # {}
  /\ to => n.told
  /\ (n.sure /\ w = Business(h)) => co # {}
Fits(ns, n) ==
  /\ FitsTx(handler, watched, tx, n.tx)
  /\ FitsFrames(handler, watched, ns, frames, n.inside)
  /\ FitsRest(handler, watched, n, passed, kept, committed, told)

Txs == [open : BOOLEAN, wrote : BOOLEAN, checks : SUBSET Checks, traced : BOOLEAN]
Frames(h) ==
  LET tries == {i \in 1..Len(h.steps) : h.steps[i].kind \in {"try", "guard"}}
  IN [on : {h.steps[i].on : i \in tries}, to : {i + h.steps[i].n : i \in tries},
      tx : Txs, keep : BOOLEAN]

\* Every part of a request is one that the server can be in.
RequestOK ==
  /\ pc \in Nat /\ role \in Roles /\ told \in BOOLEAN /\ late \in BOOLEAN
  /\ passed \subseteq Checks
  /\ tx \in Txs
  /\ frames \in Seq(Frames(handler))

\* A caller who has passed a check would pass it again.
RoleFits ==
  /\ passed \cap {"member", "owner", "holds", "mine"} # {} => role # "stranger"
  /\ "owner" \in passed => role = "owner"

Accountable(change) ==
  \A t \in watched : watched = {t} =>
    /\ Vetted(t, change) \/ t \in Personal \/ route \in Founding \/ ByAllowlist(handler)
    /\ Traced(t, change)

Underway ==
  /\ route \in DOMAIN Api
  /\ handler = Chain(Api[route])
  /\ watched \in {{t} : t \in TablesOf(handler)} \cup {Business(handler)}
  /\ RoleFits
  /\ \A change \in committed : Accountable(change)
  /\ (told /\ watched = Business(handler)) => committed # {}

\* What an answered request is left with.
Answered ==
  /\ pc # 0
  /\ Known(route, handler, failure)
  /\ answer \in Refusals =>
       /\ Fault \in {failure, kept} => route \in Misblamed
       /\ route \notin Stepwise \cup Misblamed =>
            ~told /\ (watched \subseteq Business(handler) => committed = {})
  /\ ~tx.open

Follows(notes) ==
  /\ pc <= Done /\ failure = None
  /\ Fits(notes[route], notes[route][pc])

Inv(notes) ==
  /\ RequestOK
  /\ pc = 0 => Init
  /\ pc # 0 => Underway
  /\ Served => Follows(notes)
  /\ answer # 0 => Answered

----------------------------------------------------------------------------
(* Notes that say less. *)

\* A transaction that is as a note says is as a weaker one says.
LEMMA WeakerFitsTx ==
  ASSUME NEW h, NEW w, NEW x, NEW n, NEW m, FitsTx(h, w, x, n), WeakerTx(n, m)
  PROVE  FitsTx(h, w, x, m)
BY DEF FitsTx, WeakerTx

\* So is what has passed, is kept, committed and told.
LEMMA WeakerFitsRest ==
  ASSUME NEW h, NEW w, NEW n, NEW m, NEW pa, NEW ke, NEW co, NEW to,
         FitsRest(h, w, n, pa, ke, co, to), Weaker(n, m)
  PROVE  FitsRest(h, w, m, pa, ke, co, to)
BY DEF FitsRest, Weaker

----------------------------------------------------------------------------
(* The largest of the first numbers that something is true of. *)

\* A non-empty set of places has a last one.
LEMMA MaxIn ==
  ASSUME NEW N \in Nat, NEW S \in SUBSET (1..N), S # {}
  PROVE  Max(S) \in S
<1> DEFINE Top(n) == \A T \in SUBSET (1..n) : T # {} => \E x \in T : \A y \in T : x >= y
           G == {n \in Nat : Top(n)}
<1>1. 0 \in G
  <2>1. 1..0 = {}
    OBVIOUS
  <2> QED
    BY <2>1
<1>2. ASSUME NEW n \in Nat, n \in G
      PROVE  n + 1 \in G
  <2> SUFFICES ASSUME NEW T \in SUBSET (1..(n + 1)), T # {}
               PROVE  \E x \in T : \A y \in T : x >= y
    OBVIOUS
  <2>1. CASE n + 1 \in T
    BY <2>1
  <2>2. CASE n + 1 \notin T
    <3>1. T \in SUBSET (1..n)
      BY <2>2
    <3> QED
      BY <1>2, <3>1
  <2> QED
    BY <2>1, <2>2
<1>3. N \in G
  <2> HIDE DEF G
  <2> QED
    BY <1>1, <1>2, NatSet
<1>4. \E x \in S : \A y \in S : x >= y
  BY <1>3
<1> QED
  BY <1>4 DEF Max

\* What is in front of a place of a sequence.
LEMMA SeqFront ==
  ASSUME NEW S, NEW s \in Seq(S), NEW k \in 1..Len(s)
  PROVE  /\ SubSeq(s, 1, k - 1) \in Seq(S) /\ Len(SubSeq(s, 1, k - 1)) = k - 1
         /\ \A j \in 1..(k - 1) : SubSeq(s, 1, k - 1)[j] = s[j]
OBVIOUS

----------------------------------------------------------------------------
(* What the notes say of the step a request is at. *)

\* A request that is being served is as the note of its step says, and that step is in order.
LEMMA AtStep ==
  ASSUME NEW notes, Annotated(notes), Inv(notes), Served, pc <= Len(handler.steps)
  PROVE  /\ route \in DOMAIN Api /\ handler = Chain(Api[route]) /\ Underway
         /\ Len(handler.steps) \in Nat /\ pc \in 1..Len(handler.steps)
         /\ WellStepped(route, handler, notes[route], pc)
         /\ Fits(notes[route], notes[route][pc])
         /\ failure = None /\ answer = 0 /\ pc # 0
<1>1. pc # 0 /\ Underway /\ pc \in Nat /\ Follows(notes) /\ answer = 0
  BY DEF Inv, Served, RequestOK
<1>2. Noted(route, handler, notes[route])
  BY <1>1 DEF Annotated, Underway
<1>3. Len(handler.steps) \in Nat /\ pc \in 1..Len(handler.steps)
  BY <1>1, <1>2 DEF Noted
<1> QED
  BY <1>1, <1>2, <1>3 DEF Noted, Follows, Underway

\* A request that is as one of the notes its step hands on says keeps the invariant.
LEMMA Lands ==
  ASSUME NEW notes, Annotated(notes), Inv(notes), Served, pc <= Len(handler.steps),
         UNCHANGED <<route, handler, role, watched, failure, answer>>,
         NEW n, <<pc', n>> \in HandedOn(handler, notes[route], pc),
         RequestOK', RoleFits',
         \A change \in committed' : Accountable(change),
         told' /\ watched = Business(handler) => committed' # {},
         FitsTx(handler, watched, tx', n.tx),
         FitsFrames(handler, watched, notes[route], frames', n.inside),
         FitsRest(handler, watched, n, passed', kept', committed', told')
  PROVE  Inv(notes)'
<1> DEFINE m == notes[route][pc']
<1>1. Underway /\ failure = None /\ answer = 0 /\ pc # 0 /\ Len(handler.steps) \in Nat
      /\ WellStepped(route, handler, notes[route], pc)
  BY AtStep
<1>3. pc' \in 1..(Len(handler.steps) + 1) /\ Weaker(n, m)
  <2>1. \A next \in HandedOn(handler, notes[route], pc) :
          next[1] \in 1..(Len(handler.steps) + 1) /\ Weaker(next[2], notes[route][next[1]])
    BY <1>1 DEF WellStepped
  <2> QED
    BY <2>1
<1>4. FitsTx(handler, watched, tx', m.tx)
  BY <1>3, WeakerFitsTx DEF Weaker
<1>5. FitsFrames(handler, watched, notes[route], frames', m.inside)
  BY <1>3 DEF Weaker
<1>6. FitsRest(handler, watched, m, passed', kept', committed', told')
  BY <1>3, WeakerFitsRest
<1>7. Fits(notes[route], notes[route][pc])'
  BY <1>4, <1>5, <1>6 DEF Fits
<1>8. Follows(notes)'
  BY <1>1, <1>3, <1>7 DEF Follows, Done
<1>9. Underway'
  <2>1. \A change \in committed' : Accountable(change)'
    BY DEF Accountable
  <2> QED
    BY <1>1, <2>1 DEF Underway
<1> QED
  BY <1>1, <1>3, <1>8, <1>9 DEF Inv

\* A failure of the step goes to the innermost Try that catches it, and back to what that one put
\* aside, or it is the answer.
LEMMA Fails ==
  ASSUME NEW notes, Annotated(notes), Inv(notes), Served, pc <= Len(handler.steps),
         NEW e, e \in Failures(Here, notes[route][pc]), Here.kind = "raise" => e = kept,
         Fail(e),
         UNCHANGED <<route, handler, role, watched, told, late, passed>>,
         committed \subseteq committed',
         committed' # {} => LeftBy(Here, notes[route][pc]) \cap watched # {},
         \A change \in committed' : Accountable(change)
  PROVE  Inv(notes)'
<1> DEFINE n == notes[route][pc]
           catchers == Catchers(handler, n, e)
           catching == {i \in 1..Len(frames) : Catches(frames[i], e)}
<1>1. /\ route \in DOMAIN Api /\ handler = Chain(Api[route]) /\ Underway
      /\ Len(handler.steps) \in Nat /\ pc \in 1..Len(handler.steps)
      /\ WellStepped(route, handler, notes[route], pc)
      /\ Fits(notes[route], n)
      /\ failure = None /\ answer = 0 /\ pc # 0
  BY AtStep
<1>2. /\ FitsTx(handler, watched, tx, n.tx)
      /\ FitsFrames(handler, watched, notes[route], frames, n.inside)
      /\ FitsRest(handler, watched, n, passed, kept, committed, told)
  BY <1>1 DEF Fits
<1>3. catching = catchers
  <2>1. /\ Len(frames) = Len(n.inside)
        /\ \A k \in 1..Len(n.inside) : frames[k].on = handler.steps[n.inside[k]].on
    BY <1>2 DEF FitsFrames, FitsFrame
  <2>2. \A k \in 1..Len(n.inside) : Catches(frames[k], e) <=> Catches(handler.steps[n.inside[k]], e)
    BY <2>1 DEF Catches
  <2> QED
    BY <2>1, <2>2 DEF Catchers
<1>4. RequestOK /\ RoleFits
  BY <1>1 DEF Inv, Underway
<1>5. RoleFits'
  BY <1>4 DEF RoleFits
<1>6. told' /\ watched = Business(handler) => committed' # {}
  BY <1>1 DEF Underway
<1>7. Underway'
  <2>1. \A change \in committed' : Accountable(change)'
    BY DEF Accountable
  <2> QED
    BY <1>1, <1>5, <1>6, <2>1 DEF Underway
<1>8. kept \in KeptOn(Here, n, e)
  BY <1>2 DEF KeptOn, FitsRest
<1>9. CASE catchers = {}
  <2>1. /\ answer' = writeError(e) /\ failure' = e /\ tx' = Closed /\ frames' = <<>>
        /\ pc' = Done /\ kept' = kept
    BY <1>3, <1>9 DEF Fail
  <2>2. AnsweredWell(route, handler, Here, n, e)
    BY <1>1, <1>9 DEF WellStepped, Here
  <2>3. /\ Known(route, handler, e)
        /\ Justified(route, handler, n, answer', {e} \cup KeptOn(Here, n, e), LeftBy(Here, n))
    BY <2>1, <2>2 DEF AnsweredWell, writeError
  <2>4. pc' \in Nat /\ pc' # 0 /\ answer' # 0
    <3>1. answer' \in 400..599
      BY <2>3 DEF Justified
    <3>2. pc' = Len(handler.steps) + 1
      BY <2>1 DEF Done
    <3> QED
      BY <1>1, <3>1, <3>2
  <2>5. RequestOK'
    <3>1. Closed \in Txs
      BY DEF Closed, Txs
    <3> QED
      BY <1>4, <2>1, <2>4, <3>1 DEF RequestOK
  <2>6. Answered'
    <3>1. ASSUME answer' \in Refusals
          PROVE  /\ Fault \in {failure', kept'} => route \in Misblamed
                 /\ route \notin Stepwise \cup Misblamed =>
                      ~told' /\ (watched \subseteq Business(handler) => committed' = {})
      <4>1. /\ Fault \in {e} \cup KeptOn(Here, n, e) => route \in Misblamed
            /\ route \notin Stepwise \cup Misblamed =>
                 ~n.told /\ LeftBy(Here, n) \cap Business(handler) = {}
        BY <2>3, <3>1 DEF Justified
      <4>2. told' => n.told
        BY <1>2 DEF FitsRest
      <4> QED
        BY <1>8, <2>1, <4>1, <4>2
    <3>2. ~tx'.open
      BY <2>1 DEF Closed
    <3> QED
      BY <2>1, <2>3, <2>4, <3>1, <3>2 DEF Answered, Known
  <2> QED
    BY <1>7, <2>4, <2>5, <2>6 DEF Inv, Served
<1>10. CASE catchers # {}
  <2> DEFINE k == Max(catchers)
             p == n.inside[k]
             m == Caught(handler, notes[route], Here, n, e, p, k)
  <2>1. k \in catchers /\ k \in 1..Len(n.inside) /\ n.inside \in Seq(Nat)
        /\ Len(frames) = Len(n.inside) /\ Len(n.inside) \in Nat
    <3>1. n.inside \in Seq(Nat) /\ Len(frames) = Len(n.inside)
      BY <1>2 DEF FitsFrames
    <3>2. Len(n.inside) \in Nat /\ catchers \in SUBSET (1..Len(n.inside))
      BY <3>1 DEF Catchers
    <3> QED
      BY <1>10, <3>1, <3>2, MaxIn
  <2>2. FitsFrame(handler, watched, frames[k], p, notes[route][p])
    BY <1>2, <2>1 DEF FitsFrames
  <2>3. /\ pc' = frames[k].to /\ tx' = frames[k].tx
        /\ kept' = IF frames[k].keep THEN e ELSE kept
        /\ frames' = SubSeq(frames, 1, k - 1)
        /\ answer' = answer /\ failure' = failure
    BY <1>3, <1>10 DEF Fail
  <2>4. <<pc', m>> \in HandedOn(handler, notes[route], pc)
    <3>1. pc' = p + handler.steps[p].n
      BY <2>2, <2>3 DEF FitsFrame
    <3>2. HandedOnBy(handler, notes[route], Here, n, e) = <<pc', m>>
      BY <3>1 DEF HandedOnBy
    <3> QED
      BY <1>10, <3>2 DEF HandedOn, Here
  <2>5. FitsTx(handler, watched, tx', m.tx)
    BY <2>2, <2>3 DEF FitsFrame, Caught
  <2>6. FitsFrames(handler, watched, notes[route], frames', m.inside)
    <3>1. m.inside = SubSeq(n.inside, 1, k - 1)
      BY DEF Caught
    <3>2. frames \in Seq(Frames(handler))
      BY <1>4 DEF RequestOK
    <3>3. /\ m.inside \in Seq(Nat) /\ Len(m.inside) = k - 1 /\ Len(frames') = k - 1
          /\ \A j \in 1..(k - 1) : m.inside[j] = n.inside[j] /\ frames'[j] = frames[j]
      <4> HIDE DEF k, m, catchers
      <4>1. k \in 1..Len(n.inside) /\ k \in 1..Len(frames) /\ frames' = SubSeq(frames, 1, k - 1)
        BY <2>1, <2>3
      <4>2. /\ SubSeq(n.inside, 1, k - 1) \in Seq(Nat) /\ Len(SubSeq(n.inside, 1, k - 1)) = k - 1
            /\ \A j \in 1..(k - 1) : SubSeq(n.inside, 1, k - 1)[j] = n.inside[j]
        BY <2>1, <4>1, SeqFront
      <4>3. /\ Len(frames') = k - 1
            /\ \A j \in 1..(k - 1) : frames'[j] = frames[j]
        BY <3>2, <4>1, SeqFront
      <4> QED
        BY <3>1, <4>2, <4>3
    <3>4. \A j \in 1..(k - 1) : j \in 1..Len(n.inside)
      BY <2>1
    <3> QED
      BY <1>2, <3>3, <3>4 DEF FitsFrames
  <2>7. FitsRest(handler, watched, m, passed', kept', committed', told')
    <3>1. /\ m.passed = n.passed /\ m.left = LeftBy(Here, n) /\ m.told = n.told /\ m.sure = n.sure
          /\ m.kept = IF handler.steps[p].kind = "guard" THEN {e} ELSE KeptOn(Here, n, e)
      BY DEF Caught
    <3>2. kept' \in m.kept
      BY <1>8, <2>2, <2>3, <3>1 DEF FitsFrame
    <3> QED
      BY <1>2, <3>1, <3>2 DEF FitsRest
  <2>8. RequestOK'
    <3>1. /\ frames \in Seq(Frames(handler)) /\ frames[k] \in Frames(handler)
          /\ frames' \in Seq(Frames(handler))
      BY <1>4, <2>1, <2>3 DEF RequestOK
    <3>2. tx' \in Txs
      BY <2>3, <3>1 DEF Frames
    <3>3. pc' \in Nat
      BY <1>1, <2>4 DEF WellStepped
    <3> QED
      BY <1>4, <3>1, <3>2, <3>3 DEF RequestOK
  <2> HIDE DEF m
  <2> QED
    BY <1>5, <1>6, <2>3, <2>4, <2>5, <2>6, <2>7, <2>8, Lands
<1> QED
  BY <1>9, <1>10

----------------------------------------------------------------------------
(* The steps that go on. *)

\* The transaction and the rest of a request fit what a step makes of its note.
LEMMA TxAfter ==
  ASSUME NEW h, NEW w, NEW s, NEW x, NEW n, NEW y, FitsTx(h, w, x, n),
         s.kind \notin {"begin", "commit"},
         y.open = x.open, y.checks = x.checks \cup ({s.kind} \cap Checks),
         x.traced \/ s.kind = "audit" => y.traced,
         y.wrote <=> x.wrote \/ (s.kind = "put" /\ s.on \cap w # {})
  PROVE  FitsTx(h, w, y, AfterTx(h, s, n))
<1> DEFINE m == AfterTx(h, s, n)
<1>1. /\ m.open = n.open
      /\ m.checks = n.checks \cup ({s.kind} \cap Checks)
      /\ m.might = n.might \cup ({s.kind} \cap Checks)
      /\ m.wrote = n.wrote \cup (IF s.kind = "put" THEN s.on ELSE {})
  BY DEF AfterTx
<1>2. m.traced => n.traced \/ s.kind = "audit"
  BY DEF AfterTx
<1>3. m.firm => n.firm \/ (s.kind = "put" /\ s.on \cap Business(h) # {})
  BY DEF AfterTx
<1> HIDE DEF m
<1>4. /\ x.open = n.open /\ n.checks \subseteq x.checks /\ x.checks \subseteq n.might
      /\ (n.traced => x.traced)
      /\ (x.wrote => n.wrote \cap w # {})
      /\ (n.firm /\ w = Business(h)) => x.wrote
  BY DEF FitsTx
<1>5. y.open = m.open /\ m.checks \subseteq y.checks /\ y.checks \subseteq m.might
  BY <1>1, <1>4
<1>6. m.traced => y.traced
  BY <1>2, <1>4
<1>7. y.wrote => m.wrote \cap w # {}
  BY <1>1, <1>4
<1>8. (m.firm /\ w = Business(h)) => y.wrote
  BY <1>3, <1>4
<1> QED
  BY <1>5, <1>6, <1>7, <1>8 DEF FitsTx, m

\* What a step other than a commit adds to what has passed, been changed and been told.
LEMMA RestAfter ==
  ASSUME NEW h, NEW w, NEW s, NEW i, NEW n, NEW pa, NEW ke, NEW co, NEW to, NEW pa2, NEW to2,
         FitsRest(h, w, n, pa, ke, co, to), s.kind # "commit",
         pa2 = pa \cup ({s.kind} \cap Checks),
         to2 => to \/ s.kind = "tell"
  PROVE  FitsRest(h, w, After(h, s, i, n), pa2, ke, co, to2)
<1> DEFINE m == After(h, s, i, n)
<1>1. /\ m.passed = n.passed \cup ({s.kind} \cap Checks)
      /\ m.kept = n.kept /\ m.left = n.left
  BY DEF After, LeftBy
<1>2. (n.told \/ s.kind = "tell" => m.told) /\ (m.sure => n.sure)
  BY DEF After
<1> HIDE DEF m
<1>3. m.passed \subseteq pa2 /\ ke \in m.kept /\ (co # {} => m.left \cap w # {})
  BY <1>1 DEF FitsRest
<1>4. (to2 => m.told) /\ ((m.sure /\ w = Business(h)) => co # {})
  BY <1>2 DEF FitsRest
<1> QED
  BY <1>3, <1>4 DEF FitsRest, m

\* Where a step goes on to, it hands on what it makes of its note.
LEMMA NextNote ==
  ASSUME NEW notes, pc' \in Targets(Here, pc)
  PROVE  <<pc', After(handler, Here, pc, notes[route][pc])>> \in HandedOn(handler, notes[route], pc)
BY DEF HandedOn, Here

\* What holds of a request that goes on, but for what its step changes.
LEMMA Standing ==
  ASSUME NEW notes, Annotated(notes), Inv(notes), Served, pc <= Len(handler.steps),
         UNCHANGED <<route, handler, role, watched>>
  PROVE  /\ RequestOK /\ RoleFits /\ (\A change \in committed : Accountable(change))
         /\ told /\ watched = Business(handler) => committed # {}
         /\ FitsTx(handler, watched, tx, notes[route][pc].tx)
         /\ FitsFrames(handler, watched, notes[route], frames, notes[route][pc].inside)
         /\ FitsRest(handler, watched, notes[route][pc], passed, kept, committed, told)
         /\ pc \in Nat /\ passed' = passed => RoleFits'
         /\ WellStepped(route, handler, notes[route], pc)
<1>1. Underway /\ Fits(notes[route], notes[route][pc]) /\ WellStepped(route, handler, notes[route], pc)
  BY AtStep
<1>2. RequestOK /\ pc \in Nat
  BY DEF Inv, RequestOK
<1> QED
  BY <1>1, <1>2 DEF Underway, Fits, RoleFits

\* Every step but those at which a transaction begins or ends.
LEMMA Moves ==
  ASSUME NEW notes, Annotated(notes), Inv(notes), Served, pc <= Len(handler.steps),
         Here.kind \notin {"begin", "commit"},
         pc' \in Targets(Here, pc),
         UNCHANGED <<route, handler, role, watched, kept, committed, failure, answer>>,
         RequestOK', RoleFits',
         tx'.open = tx.open, tx'.checks = tx.checks \cup ({Here.kind} \cap Checks),
         tx.traced \/ Here.kind = "audit" => tx'.traced,
         tx'.wrote <=> tx.wrote \/ (Here.kind = "put" /\ Here.on \cap watched # {}),
         passed' = passed \cup ({Here.kind} \cap Checks),
         told' => told \/ Here.kind = "tell",
         told' /\ watched = Business(handler) => committed # {},
         FitsFrames(handler, watched, notes[route], frames', Inside(Here, pc, notes[route][pc]))
  PROVE  Inv(notes)'
<1> DEFINE n == notes[route][pc]
           m == After(handler, Here, pc, n)
<1>1. m.inside = Inside(Here, pc, n) /\ m.tx = AfterTx(handler, Here, n.tx)
  BY DEF After
<1>2. /\ \A change \in committed : Accountable(change)
      /\ FitsTx(handler, watched, tx, n.tx)
      /\ FitsRest(handler, watched, n, passed, kept, committed, told)
  BY Standing
<1>3. FitsTx(handler, watched, tx', m.tx)
  BY <1>1, <1>2, TxAfter
<1>4. FitsRest(handler, watched, m, passed', kept', committed', told')
  BY <1>2, RestAfter
<1>5. <<pc', m>> \in HandedOn(handler, notes[route], pc)
  BY NextNote
<1>6. FitsFrames(handler, watched, notes[route], frames', m.inside)
  BY <1>1
<1> HIDE DEF m
<1> QED
  BY <1>2, <1>3, <1>4, <1>5, <1>6, Lands

\* Steps that change nothing but the place they are at.
LEMMA Quiet ==
  ASSUME NEW notes, Annotated(notes), Inv(notes), Served, pc <= Len(handler.steps),
         Here.kind \in {"input", "may", "read", "skip", "goto"},
         pc' \in Targets(Here, pc), pc' \in Nat,
         UNCHANGED <<route, handler, role, watched, tx, passed, frames, kept, committed, told, late,
                     failure, answer>>
  PROVE  Inv(notes)'
<1>1. RequestOK' /\ RoleFits'
  BY Standing DEF RequestOK, RoleFits
<1>2. told' /\ watched = Business(handler) => committed # {}
  BY Standing
<1>3. FitsFrames(handler, watched, notes[route], frames', Inside(Here, pc, notes[route][pc]))
  <2>1. Inside(Here, pc, notes[route][pc]) = notes[route][pc].inside
    BY DEF Inside
  <2> QED
    BY <2>1, Standing
<1>4. {Here.kind} \cap Checks = {} /\ Here.kind \notin {"begin", "commit", "audit", "put", "tell"}
  BY DEF Checks
<1> QED
  BY <1>1, <1>2, <1>3, <1>4, Moves

\* An input that is taken hands the note on; one that is refused is answered as it may be.
LEMMA InputInv ==
  ASSUME NEW notes, Annotated(notes), Inv(notes), Input
  PROVE  Inv(notes)'
<1>1. Served /\ pc <= Len(handler.steps) /\ Here.kind = "input" /\ pc \in Nat
  BY DEF Input, At, Inv, RequestOK
<1>2. UNCHANGED <<route, handler, role, watched, tx, committed, told, late, passed>>
  BY DEF Input
<1>3. CASE Pass
  <2>1. pc' = pc + 1 /\ UNCHANGED <<frames, kept, failure, answer>>
    BY <1>3 DEF Pass, Onward
  <2>2. pc' \in Targets(Here, pc) /\ pc' \in Nat
    BY <1>1, <2>1 DEF Targets
  <2> QED
    BY <1>1, <1>2, <2>1, <2>2, Quiet
<1>4. CASE /\ answer' = Here.n /\ failure' = <<"", "input">> /\ pc' = Done
           /\ UNCHANGED <<frames, kept>>
  <2> DEFINE n == notes[route][pc]
  <2>1. /\ Underway /\ Len(handler.steps) \in Nat
        /\ WellStepped(route, handler, notes[route], pc)
        /\ FitsTx(handler, watched, tx, n.tx)
        /\ FitsRest(handler, watched, n, passed, kept, committed, told)
    BY <1>1, AtStep DEF Fits
  <2>2. Justified(route, handler, n, answer', n.kept, n.left)
    BY <1>1, <1>4, <2>1 DEF WellStepped, Here
  <2>3. answer' \in 400..599
    BY <2>2 DEF Justified
  <2>4. pc' \in Nat /\ pc' # 0
    <3>1. pc' = Len(handler.steps) + 1
      BY <1>4 DEF Done
    <3> QED
      BY <2>1, <3>1
  <2>5. RequestOK'
    BY <1>2, <1>4, <2>4 DEF Inv, RequestOK
  <2>6. Underway'
    BY <1>2, <2>1 DEF Underway, RoleFits, Accountable
  <2>7. Answered'
    <3>1. ASSUME answer' \in Refusals
          PROVE  /\ Fault \in {failure', kept'} => route \in Misblamed
                 /\ route \notin Stepwise \cup Misblamed =>
                      ~told' /\ (watched \subseteq Business(handler) => committed' = {})
      <4>1. /\ Fault \in n.kept => route \in Misblamed
            /\ route \notin Stepwise \cup Misblamed => ~n.told /\ n.left \cap Business(handler) = {}
        BY <2>2, <3>1 DEF Justified
      <4>2. (told => n.told) /\ kept \in n.kept /\ (committed # {} => n.left \cap watched # {})
        BY <2>1 DEF FitsRest
      <4> QED
        BY <1>2, <1>4, <4>1, <4>2 DEF Fault
    <3>2. ~tx'.open
      BY <1>1, <1>2, <2>1 DEF WellStepped, Here, FitsTx
    <3>3. Known(route, handler, failure')
      BY <1>4 DEF Known, ByInput
    <3> QED
      BY <1>2, <2>4, <3>1, <3>2, <3>3 DEF Answered, Known
  <2> QED
    BY <2>3, <2>4, <2>5, <2>6, <2>7 DEF Inv, Served
<1> QED
  BY <1>3, <1>4 DEF Input

\* A validation passes or fails with one of the errors it names.
LEMMA ValidateInv ==
  ASSUME NEW notes, Annotated(notes), Inv(notes), Validate
  PROVE  Inv(notes)'
<1>1. Served /\ pc <= Len(handler.steps) /\ Here.kind \in {"may", "refuse"} /\ pc \in Nat
  BY DEF Validate, At, Inv, RequestOK
<1>2. UNCHANGED <<route, handler, role, watched, committed, told, late, passed>>
  BY DEF Validate
<1>3. CASE Here.kind = "may" /\ Pass /\ UNCHANGED tx
  <2>1. pc' = pc + 1 /\ UNCHANGED <<frames, kept, failure, answer>>
    BY <1>3 DEF Pass, Onward
  <2>2. pc' \in Targets(Here, pc) /\ pc' \in Nat
    BY <1>1, <1>3, <2>1 DEF Targets
  <2> QED
    BY <1>1, <1>2, <1>3, <2>1, <2>2, Quiet
<1>4. ASSUME NEW e \in Here.on, Fail(e)
      PROVE  Inv(notes)'
  <2>1. e \in Failures(Here, notes[route][pc])
    BY <1>1 DEF Failures, Refusable
  <2>2. Underway /\ FitsRest(handler, watched, notes[route][pc], passed, kept, committed, told)
    BY <1>1, AtStep DEF Fits
  <2>3. committed' # {} => LeftBy(Here, notes[route][pc]) \cap watched # {}
    BY <1>1, <1>2, <2>2 DEF LeftBy, FitsRest
  <2>4. committed \subseteq committed' /\ \A change \in committed' : Accountable(change)
    BY <1>2, <2>2 DEF Underway
  <2> QED
    BY <1>1, <1>2, <1>4, <2>1, <2>3, <2>4, Fails
<1> QED
  BY <1>3, <1>4 DEF Validate

\* A read changes nothing.
LEMMA ReadInv ==
  ASSUME NEW notes, Annotated(notes), Inv(notes), Read
  PROVE  Inv(notes)'
<1>1. Served /\ pc <= Len(handler.steps) /\ Here.kind = "read" /\ pc \in Nat
  BY DEF Read, At, Inv, RequestOK
<1>2. /\ pc' = pc + 1
      /\ UNCHANGED <<route, handler, role, watched, tx, committed, told, late, passed, frames, kept,
                     failure, answer>>
  BY DEF Read, Pass, Onward
<1>3. pc' \in Targets(Here, pc) /\ pc' \in Nat
  BY <1>1, <1>2 DEF Targets
<1> QED
  BY <1>1, <1>2, <1>3, Quiet

\* A branch changes nothing but the step.
LEMMA BranchInv ==
  ASSUME NEW notes, Annotated(notes), Inv(notes), Branch
  PROVE  Inv(notes)'
<1>1. Served /\ pc <= Len(handler.steps) /\ Here.kind \in {"skip", "goto"}
  BY DEF Branch, At
<1>2. /\ pc' \in Targets(Here, pc)
      /\ UNCHANGED <<route, handler, role, watched, tx, committed, told, late, passed, frames, kept,
                     failure, answer>>
  BY DEF Branch, Targets, At
<1>3. pc' \in Nat
  <2>1. Len(handler.steps) \in Nat /\ WellStepped(route, handler, notes[route], pc)
    BY <1>1, AtStep
  <2>2. <<pc', After(handler, Here, pc, notes[route][pc])>> \in HandedOn(handler, notes[route], pc)
    BY <1>2, NextNote
  <2>3. pc' \in 1..(Len(handler.steps) + 1)
    BY <2>1, <2>2 DEF WellStepped
  <2> QED
    BY <2>1, <2>3
<1> QED
  BY <1>1, <1>2, <1>3, Quiet

\* A check that passes is noted in the transaction; one that refuses fails as refusable.
LEMMA CheckInv ==
  ASSUME NEW notes, Annotated(notes), Inv(notes), Check
  PROVE  Inv(notes)'
<1> DEFINE n == notes[route][pc]
<1>1. Served /\ pc <= Len(handler.steps) /\ Here.kind \in Checks /\ pc \in Nat
  BY DEF Check, At, Inv, RequestOK, Checks
<1>2. UNCHANGED <<route, handler, role, watched, committed, told, late>>
  BY DEF Check
<1>3. /\ RequestOK /\ RoleFits /\ (\A change \in committed : Accountable(change))
      /\ told /\ watched = Business(handler) => committed # {}
      /\ FitsTx(handler, watched, tx, n.tx)
      /\ FitsFrames(handler, watched, notes[route], frames, n.inside)
      /\ FitsRest(handler, watched, n, passed, kept, committed, told)
  BY <1>1, <1>2, Standing
<1>4. ASSUME Passes(Here.kind), Pass, tx' = [tx EXCEPT !.checks = @ \cup {Here.kind}],
             passed' = passed \cup {Here.kind}
      PROVE  Inv(notes)'
  <2>1. pc' = pc + 1 /\ UNCHANGED <<frames, kept, failure, answer>>
    BY <1>4 DEF Pass, Onward
  <2>2. pc' \in Targets(Here, pc) /\ pc' \in Nat
    BY <1>1, <2>1 DEF Targets, Checks
  <2>3. Inside(Here, pc, n) = n.inside
    BY <1>1 DEF Inside, Checks
  <2>4. tx' \in Txs /\ tx'.open = tx.open /\ tx'.wrote = tx.wrote /\ tx'.traced = tx.traced
        /\ tx'.checks = tx.checks \cup {Here.kind}
    BY <1>1, <1>3, <1>4 DEF RequestOK, Txs
  <2>5. {Here.kind} \cap Checks = {Here.kind}
        /\ Here.kind \notin {"begin", "commit", "audit", "put", "tell"}
    BY <1>1 DEF Checks
  <2>6. RequestOK'
    BY <1>1, <1>2, <1>3, <1>4, <2>1, <2>2, <2>4 DEF RequestOK
  <2>7. RoleFits'
    BY <1>2, <1>3, <1>4, <2>1 DEF RoleFits, Passes
  <2> QED
    BY <1>1, <1>2, <1>3, <1>4, <2>1, <2>2, <2>3, <2>4, <2>5, <2>6, <2>7, Moves
<1>5. ASSUME Refused(Here.kind), UNCHANGED passed, NEW e \in Here.on, Fail(e)
      PROVE  Inv(notes)'
  <2>1. e \in Failures(Here, n)
    <3>1. n.passed \subseteq passed
      BY <1>3 DEF FitsRest
    <3>2. Refusable(Here.kind, n.passed)
      BY <1>1, <1>3, <1>5, <3>1 DEF Refusable, Refused, RoleFits, Checks, RequestOK
    <3> QED
      BY <3>2, <1>5 DEF Failures
  <2>3. committed' # {} => LeftBy(Here, n) \cap watched # {}
    BY <1>1, <1>2, <1>3 DEF LeftBy, FitsRest, Checks
  <2>4. committed \subseteq committed' /\ \A change \in committed' : Accountable(change)
    BY <1>2, <1>3
  <2>5. Here.kind # "raise"
    BY <1>1 DEF Checks
  <2> QED
    BY <1>1, <1>2, <1>5, <2>1, <2>3, <2>4, <2>5, Fails
<1> QED
  BY <1>4, <1>5 DEF Check

\* What is written is among the tables the note allows, and an audit is noted.
LEMMA WriteInv ==
  ASSUME NEW notes, Annotated(notes), Inv(notes), Write
  PROVE  Inv(notes)'
<1> DEFINE n == notes[route][pc]
<1>1. Served /\ pc <= Len(handler.steps) /\ Here.kind \in {"put", "audit"} /\ pc \in Nat
  BY DEF Write, At, Inv, RequestOK
<1>2. /\ pc' = pc + 1
      /\ UNCHANGED <<route, handler, role, watched, committed, told, late, passed, frames, kept,
                     failure, answer>>
      /\ tx' = IF Here.kind = "audit" THEN [tx EXCEPT !.traced = TRUE]
               ELSE [tx EXCEPT !.wrote = @ \/ Here.on \cap watched # {}]
  BY DEF Write, Pass, Onward
<1>3. /\ RequestOK /\ RoleFits' /\ (told /\ watched = Business(handler) => committed # {})
      /\ FitsFrames(handler, watched, notes[route], frames, n.inside)
  BY <1>1, <1>2, Standing
<1>4. tx \in Txs
  BY <1>3 DEF RequestOK
<1>5. /\ tx' \in Txs /\ tx'.open = tx.open /\ tx'.checks = tx.checks
      /\ tx.traced \/ Here.kind = "audit" => tx'.traced
      /\ tx'.wrote <=> tx.wrote \/ (Here.kind = "put" /\ Here.on \cap watched # {})
  <2>1. CASE Here.kind = "audit"
    BY <1>2, <1>4, <2>1 DEF Txs
  <2>2. CASE Here.kind = "put"
    BY <1>2, <1>4, <2>2 DEF Txs
  <2> QED
    BY <1>1, <2>1, <2>2
<1>6. pc' \in Targets(Here, pc) /\ pc' \in Nat
  BY <1>1, <1>2 DEF Targets
<1>7. Inside(Here, pc, n) = n.inside
  BY <1>1 DEF Inside
<1>8. {Here.kind} \cap Checks = {} /\ Here.kind \notin {"begin", "commit", "tell"}
  BY <1>1 DEF Checks
<1>9. RequestOK'
  BY <1>2, <1>3, <1>5, <1>6 DEF RequestOK
<1> QED
  BY <1>1, <1>2, <1>3, <1>5, <1>6, <1>7, <1>8, <1>9, Moves

\* What is told has been committed.
LEMMA AnnounceInv ==
  ASSUME NEW notes, Annotated(notes), Inv(notes), Announce
  PROVE  Inv(notes)'
<1> DEFINE n == notes[route][pc]
<1>1. Served /\ pc <= Len(handler.steps) /\ Here.kind = "tell" /\ pc \in Nat
  BY DEF Announce, At, Inv, RequestOK
<1>2. /\ pc' = pc + 1 /\ told' = TRUE
      /\ UNCHANGED <<route, handler, role, watched, tx, committed, late, passed, frames, kept,
                     failure, answer>>
  BY DEF Announce, Pass, Onward
<1>3. /\ RequestOK /\ RoleFits'
      /\ FitsFrames(handler, watched, notes[route], frames, n.inside)
      /\ FitsRest(handler, watched, n, passed, kept, committed, told)
      /\ WellStepped(route, handler, notes[route], pc)
  BY <1>1, <1>2, Standing
<1>4. told' /\ watched = Business(handler) => committed # {}
  BY <1>1, <1>3 DEF WellStepped, Here, FitsRest
<1>5. pc' \in Targets(Here, pc) /\ pc' \in Nat
  BY <1>1, <1>2 DEF Targets
<1>6. Inside(Here, pc, n) = n.inside
  BY <1>1 DEF Inside
<1>7. {Here.kind} \cap Checks = {} /\ Here.kind \notin {"begin", "commit", "audit", "put"}
  BY <1>1 DEF Checks
<1>8. RequestOK'
  BY <1>2, <1>3, <1>5 DEF RequestOK
<1> QED
  BY <1>1, <1>2, <1>3, <1>4, <1>5, <1>6, <1>7, <1>8, Moves

\* A Try puts the transaction aside as its note says.
LEMMA EnterInv ==
  ASSUME NEW notes, Annotated(notes), Inv(notes), Enter
  PROVE  Inv(notes)'
<1> DEFINE n == notes[route][pc]
           f == [on |-> Here.on, to |-> pc + Here.n, tx |-> tx, keep |-> Here.kind = "guard"]
<1>1. Served /\ pc <= Len(handler.steps) /\ Here.kind \in {"try", "guard"} /\ pc \in Nat
  BY DEF Enter, At, Inv, RequestOK
<1>2. /\ pc' = pc + 1 /\ frames' = Append(frames, f)
      /\ UNCHANGED <<route, handler, role, watched, tx, kept, committed, told, late, failure,
                     answer, passed>>
  BY DEF Enter, Onward
<1>3. /\ RequestOK /\ RoleFits' /\ (told /\ watched = Business(handler) => committed # {})
      /\ FitsTx(handler, watched, tx, n.tx)
      /\ FitsFrames(handler, watched, notes[route], frames, n.inside)
  BY <1>1, <1>2, Standing
<1>4. pc \in 1..Len(handler.steps)
  BY <1>1, AtStep
<1>5. frames \in Seq(Frames(handler)) /\ f \in Frames(handler)
  BY <1>1, <1>3, <1>4 DEF RequestOK, Frames, Here
<1>6. FitsFrame(handler, watched, f, pc, n)
  BY <1>3, <1>4 DEF FitsFrame, Here
<1>7. FitsFrames(handler, watched, notes[route], frames', Inside(Here, pc, n))
  <2>1. Inside(Here, pc, n) = Append(n.inside, pc)
    BY <1>1 DEF Inside
  <2>2. n.inside \in Seq(Nat) /\ Len(frames) = Len(n.inside)
    BY <1>3 DEF FitsFrames
  <2> HIDE DEF f
  <2>3. /\ Append(n.inside, pc) \in Seq(Nat)
        /\ Len(Append(n.inside, pc)) = Len(n.inside) + 1
        /\ Append(n.inside, pc)[Len(n.inside) + 1] = pc
        /\ \A k \in 1..Len(n.inside) : Append(n.inside, pc)[k] = n.inside[k]
    BY <1>1, <2>2
  <2>4. /\ Len(frames') = Len(n.inside) + 1 /\ frames'[Len(n.inside) + 1] = f
        /\ \A k \in 1..Len(n.inside) : frames'[k] = frames[k]
    BY <1>2, <1>5, <2>2
  <2>5. ASSUME NEW k \in 1..(Len(n.inside) + 1)
        PROVE  FitsFrame(handler, watched, frames'[k], Append(n.inside, pc)[k],
                         notes[route][Append(n.inside, pc)[k]])
    <3>1. CASE k = Len(n.inside) + 1
      BY <1>6, <2>3, <2>4, <3>1
    <3>2. CASE k \in 1..Len(n.inside)
      BY <1>3, <2>3, <2>4, <3>2 DEF FitsFrames
    <3> QED
      BY <2>2, <3>1, <3>2
  <2> QED
    BY <2>1, <2>3, <2>4, <2>5 DEF FitsFrames
<1>8. pc' \in Targets(Here, pc) /\ pc' \in Nat
  BY <1>1, <1>2 DEF Targets
<1>9. {Here.kind} \cap Checks = {} /\ Here.kind \notin {"begin", "commit", "audit", "put", "tell"}
  BY <1>1 DEF Checks
<1>10. RequestOK'
  <2> HIDE DEF f
  <2> QED
    BY <1>2, <1>3, <1>5, <1>8 DEF RequestOK
<1> HIDE DEF f
<1> QED
  BY <1>1, <1>2, <1>3, <1>7, <1>8, <1>9, <1>10, Moves

\* The end of a Try takes its frame off.
LEMMA LeaveInv ==
  ASSUME NEW notes, Annotated(notes), Inv(notes), Leave
  PROVE  Inv(notes)'
<1> DEFINE n == notes[route][pc]
<1>1. Served /\ pc <= Len(handler.steps) /\ Here.kind = "done" /\ pc \in Nat
  BY DEF Leave, At, Inv, RequestOK
<1>2. /\ pc' = pc + 1 /\ frames' = SubSeq(frames, 1, Len(frames) - 1)
      /\ UNCHANGED <<route, handler, role, watched, tx, kept, committed, told, late, failure,
                     answer, passed>>
  BY DEF Leave, Onward
<1>3. /\ RequestOK /\ RoleFits' /\ (told /\ watched = Business(handler) => committed # {})
      /\ FitsFrames(handler, watched, notes[route], frames, n.inside)
      /\ WellStepped(route, handler, notes[route], pc)
  BY <1>1, <1>2, Standing
<1>4. /\ n.inside \in Seq(Nat) /\ Len(frames) = Len(n.inside) /\ n.inside # <<>>
      /\ Len(n.inside) \in 1..Len(n.inside) /\ frames \in Seq(Frames(handler))
  <2>1. n.inside \in Seq(Nat) /\ Len(frames) = Len(n.inside)
    BY <1>3 DEF FitsFrames
  <2>2. n.inside # <<>>
    BY <1>1, <1>3 DEF WellStepped, Here
  <2>3. frames \in Seq(Frames(handler))
    BY <1>3 DEF RequestOK
  <2> QED
    BY <2>1, <2>2, <2>3
<1>5. /\ frames' \in Seq(Frames(handler)) /\ Len(frames') = Len(n.inside) - 1
      /\ \A k \in 1..(Len(n.inside) - 1) : frames'[k] = frames[k]
  BY <1>2, <1>4, SeqFront
<1>6. FitsFrames(handler, watched, notes[route], frames', Inside(Here, pc, n))
  <2>1. Inside(Here, pc, n) = SubSeq(n.inside, 1, Len(n.inside) - 1)
    BY <1>1 DEF Inside
  <2>2. /\ SubSeq(n.inside, 1, Len(n.inside) - 1) \in Seq(Nat)
        /\ Len(SubSeq(n.inside, 1, Len(n.inside) - 1)) = Len(n.inside) - 1
        /\ \A k \in 1..(Len(n.inside) - 1) :
             SubSeq(n.inside, 1, Len(n.inside) - 1)[k] = n.inside[k]
    BY <1>4, SeqFront
  <2>3. \A k \in 1..(Len(n.inside) - 1) : k \in 1..Len(n.inside)
    BY <1>4
  <2> QED
    BY <1>3, <1>5, <2>1, <2>2, <2>3 DEF FitsFrames
<1>7. pc' \in Targets(Here, pc) /\ pc' \in Nat
  BY <1>1, <1>2 DEF Targets
<1>8. {Here.kind} \cap Checks = {} /\ Here.kind \notin {"begin", "commit", "audit", "put", "tell"}
  BY <1>1 DEF Checks
<1>9. RequestOK'
  BY <1>2, <1>3, <1>5, <1>7 DEF RequestOK
<1> QED
  BY <1>1, <1>2, <1>3, <1>6, <1>7, <1>8, <1>9, Moves

----------------------------------------------------------------------------
(* Where a transaction begins and ends. *)

\* A transaction begins with nothing checked, written or audited.
LEMMA BeginInv ==
  ASSUME NEW notes, Annotated(notes), Inv(notes), Begin
  PROVE  Inv(notes)'
<1> DEFINE n == notes[route][pc]
           m == After(handler, Here, pc, n)
<1>1. Served /\ pc <= Len(handler.steps) /\ Here.kind = "begin" /\ pc \in Nat
  BY DEF Begin, At, Inv, RequestOK
<1>2. /\ pc' = pc + 1 /\ tx' = [Closed EXCEPT !.open = TRUE]
      /\ UNCHANGED <<route, handler, role, watched, committed, told, late, passed, frames, kept,
                     failure, answer>>
  BY DEF Begin, Pass, Onward
<1>3. /\ RequestOK /\ RoleFits' /\ (told /\ watched = Business(handler) => committed # {})
      /\ (\A change \in committed : Accountable(change))
      /\ FitsFrames(handler, watched, notes[route], frames, n.inside)
      /\ FitsRest(handler, watched, n, passed, kept, committed, told)
  BY <1>1, <1>2, Standing
<1>4. pc' \in Targets(Here, pc) /\ pc' \in Nat
  BY <1>1, <1>2 DEF Targets
<1>5. tx' = [open |-> TRUE, wrote |-> FALSE, checks |-> {}, traced |-> FALSE]
  BY <1>2 DEF Closed
<1>6. m.inside = n.inside /\ m.passed = n.passed /\ m.kept = n.kept /\ m.left = n.left
  BY <1>1 DEF After, Inside, LeftBy, Checks
<1>7. m.tx = [open |-> TRUE, checks |-> {}, might |-> {}, traced |-> FALSE, wrote |-> {},
              firm |-> FALSE]
  BY <1>1 DEF After, AfterTx, Unstarted
<1>8. (n.told => m.told) /\ (m.sure => n.sure)
  BY <1>1 DEF After
<1>9. <<pc', m>> \in HandedOn(handler, notes[route], pc)
  BY <1>4, NextNote
<1>10. RequestOK'
  <2>1. tx' \in Txs
    BY <1>5 DEF Txs
  <2> QED
    BY <1>2, <1>3, <1>4, <2>1 DEF RequestOK
<1> HIDE DEF m
<1>11. FitsTx(handler, watched, tx', m.tx)
  BY <1>5, <1>7 DEF FitsTx
<1>12. FitsRest(handler, watched, m, passed', kept', committed', told')
  BY <1>2, <1>3, <1>6, <1>8 DEF FitsRest
<1>13. FitsFrames(handler, watched, notes[route], frames', m.inside)
  BY <1>2, <1>3, <1>6
<1> QED
  BY <1>1, <1>2, <1>3, <1>9, <1>10, <1>11, <1>12, <1>13, Lands

\* What a commit adds is accounted for, and among what the note says is left.
LEMMA Commits ==
  ASSUME NEW notes, Annotated(notes), Inv(notes), Served, pc <= Len(handler.steps),
         Here.kind = "commit", NEW n, n = notes[route][pc]
  PROVE  /\ committed \subseteq Kept
         /\ \A change \in Kept : Accountable(change)
         /\ Kept # {} => (n.left \cup n.tx.wrote) \cap watched # {}
         /\ (n.sure \/ n.tx.firm) /\ watched = Business(handler) => Kept # {}
<1>1. /\ Underway /\ WellStepped(route, handler, notes[route], pc)
      /\ FitsTx(handler, watched, tx, n.tx)
      /\ FitsRest(handler, watched, n, passed, kept, committed, told)
  BY AtStep DEF Fits
<1>2. CommitsWell(route, handler, n)
  BY <1>1 DEF WellStepped, Here
<1> DEFINE new == [checks |-> tx.checks, passed |-> passed, traced |-> tx.traced]
<1>3. ASSUME tx.wrote
      PROVE  Accountable(new)
  <2> SUFFICES ASSUME NEW t \in watched, watched = {t}
               PROVE  /\ \/ Vetted(t, new)
                         \/ t \in Personal \/ route \in Founding \/ ByAllowlist(handler)
                      /\ Traced(t, new)
    BY DEF Accountable
  <2>1. t \in n.tx.wrote /\ tx.checks \in SUBSET n.tx.might /\ n.tx.checks \subseteq tx.checks
        /\ (n.tx.traced => tx.traced) /\ n.passed \subseteq passed
    BY <1>1, <1>3 DEF FitsTx, FitsRest
  <2> DEFINE old == [checks |-> tx.checks, passed |-> n.passed, traced |-> n.tx.traced]
  <2>2. /\ \/ Vetted(t, old)
           \/ t \in Personal \/ route \in Founding \/ ByAllowlist(handler)
        /\ Traced(t, old)
    BY <1>2, <2>1 DEF CommitsWell
  <2>3. Vetted(t, old) => Vetted(t, new)
    BY <2>1 DEF Vetted
  <2>4. Traced(t, new)
    BY <2>1, <2>2 DEF Traced
  <2> QED
    BY <2>2, <2>3, <2>4
<1>4. CASE tx.wrote
  <2>1. Kept = committed \cup {new}
    BY <1>4 DEF Kept
  <2>2. n.tx.wrote \cap watched # {}
    BY <1>1, <1>4 DEF FitsTx
  <2> HIDE DEF new
  <2> QED
    BY <1>1, <1>3, <1>4, <2>1, <2>2 DEF Underway
<1>5. CASE ~tx.wrote
  <2>1. Kept = committed
    BY <1>5 DEF Kept
  <2> QED
    BY <1>1, <1>5, <2>1 DEF Underway, FitsTx, FitsRest
<1> QED
  BY <1>4, <1>5

\* After a commit nothing is open.
LEMMA CommitInv ==
  ASSUME NEW notes, Annotated(notes), Inv(notes), Commit
  PROVE  Inv(notes)'
<1> DEFINE n == notes[route][pc]
           m == After(handler, Here, pc, n)
<1>1. Served /\ pc <= Len(handler.steps) /\ Here.kind = "commit" /\ pc \in Nat
  BY DEF Commit, At, Inv, RequestOK
<1>2. /\ pc' = pc + 1 /\ tx' = Closed /\ committed' = Kept
      /\ UNCHANGED <<route, handler, role, watched, told, late, passed, frames, kept,
                     failure, answer>>
  BY DEF Commit, Pass, Onward
<1>3. /\ RequestOK /\ RoleFits' /\ (told /\ watched = Business(handler) => committed # {})
      /\ FitsFrames(handler, watched, notes[route], frames, n.inside)
      /\ FitsRest(handler, watched, n, passed, kept, committed, told)
  BY <1>1, <1>2, Standing
<1>4. /\ committed \subseteq committed' /\ \A change \in committed' : Accountable(change)
      /\ committed' # {} => (n.left \cup n.tx.wrote) \cap watched # {}
      /\ (n.sure \/ n.tx.firm) /\ watched = Business(handler) => committed' # {}
  BY <1>1, <1>2, Commits
<1>5. pc' \in Targets(Here, pc) /\ pc' \in Nat
  BY <1>1, <1>2 DEF Targets
<1>6. m.inside = n.inside /\ m.passed = n.passed /\ m.kept = n.kept
      /\ m.left = n.left \cup n.tx.wrote
  BY <1>1 DEF After, Inside, LeftBy, Checks
<1>7. m.tx = [open |-> FALSE, checks |-> {}, might |-> {}, traced |-> FALSE, wrote |-> {},
              firm |-> FALSE]
  BY <1>1 DEF After, AfterTx, Unstarted
<1>8. (n.told => m.told) /\ (m.sure => n.sure \/ n.tx.firm)
  BY <1>1 DEF After
<1>9. <<pc', m>> \in HandedOn(handler, notes[route], pc)
  BY <1>5, NextNote
<1>10. RequestOK'
  <2>1. tx' \in Txs
    BY <1>2 DEF Txs, Closed
  <2> QED
    BY <1>2, <1>3, <1>5, <2>1 DEF RequestOK
<1> HIDE DEF m
<1>11. FitsTx(handler, watched, tx', m.tx)
  BY <1>2, <1>7 DEF FitsTx, Closed
<1>12. FitsRest(handler, watched, m, passed', kept', committed', told')
  BY <1>2, <1>3, <1>4, <1>6, <1>8 DEF FitsRest
<1>13. FitsFrames(handler, watched, notes[route], frames', m.inside)
  BY <1>2, <1>3, <1>6
<1>14. told' /\ watched = Business(handler) => committed' # {}
  BY <1>2, <1>3, <1>4
<1> QED
  BY <1>1, <1>2, <1>3, <1>4, <1>9, <1>10, <1>11, <1>12, <1>13, <1>14, Lands

----------------------------------------------------------------------------
(* The other ways a request ends. *)

\* A cleanup that is over fails with what it kept.
LEMMA RaiseInv ==
  ASSUME NEW notes, Annotated(notes), Inv(notes), Raise
  PROVE  Inv(notes)'
<1>1. Served /\ pc <= Len(handler.steps) /\ Here.kind = "raise"
  BY DEF Raise, At
<1>2. UNCHANGED <<route, handler, role, watched, committed, told, late, passed>> /\ Fail(kept)
  BY DEF Raise
<1>3. Underway /\ FitsRest(handler, watched, notes[route][pc], passed, kept, committed, told)
  BY <1>1, AtStep DEF Fits
<1>4. kept \in Failures(Here, notes[route][pc])
  BY <1>1, <1>3 DEF Failures, FitsRest
<1>5. committed' # {} => LeftBy(Here, notes[route][pc]) \cap watched # {}
  BY <1>1, <1>2, <1>3 DEF LeftBy, FitsRest
<1>6. committed \subseteq committed' /\ \A change \in committed' : Accountable(change)
  BY <1>2, <1>3 DEF Underway
<1> QED
  BY <1>1, <1>2, <1>4, <1>5, <1>6, Fails

\* A statement that fails is a fault, whether or not a commit has taken effect.
LEMMA BreakInv ==
  ASSUME NEW notes, Annotated(notes), Inv(notes), Break
  PROVE  Inv(notes)'
<1> DEFINE n == notes[route][pc]
<1>1. Served /\ pc <= Len(handler.steps) /\ Here.kind \in Database
  BY DEF Break, At
<1>2. UNCHANGED <<route, handler, role, watched, told, late, passed>> /\ Fail(Fault)
      /\ committed' \in IF Here.kind = "commit" THEN {committed, Kept} ELSE {committed}
  BY DEF Break
<1>3. Underway /\ FitsRest(handler, watched, n, passed, kept, committed, told)
  BY <1>1, AtStep DEF Fits
<1>4. Fault \in Failures(Here, n)
  BY <1>1 DEF Failures
<1>5. Here.kind # "raise"
  BY <1>1 DEF Database
<1>6. /\ committed \subseteq committed' /\ \A change \in committed' : Accountable(change)
      /\ committed' # {} => LeftBy(Here, n) \cap watched # {}
  <2>1. CASE committed' = committed
    BY <1>3, <2>1 DEF Underway, FitsRest, LeftBy
  <2>2. CASE Here.kind = "commit" /\ committed' = Kept
    <3>1. LeftBy(Here, n) = n.left \cup n.tx.wrote
      BY <2>2 DEF LeftBy
    <3> QED
      BY <1>1, <2>2, <3>1, Commits
  <2> QED
    BY <1>2, <2>1, <2>2
<1> QED
  BY <1>1, <1>2, <1>4, <1>5, <1>6, Fails

\* A panic is answered with 500, outside of any transaction.
LEMMA PanicInv ==
  ASSUME NEW notes, Annotated(notes), Inv(notes), Panic
  PROVE  Inv(notes)'
<1>1. Served /\ pc # 0 /\ RequestOK /\ Underway /\ Follows(notes)
  BY DEF Panic, Inv, Served
<1>2. /\ answer' = 500 /\ failure' = Fault /\ tx' = Closed /\ frames' = <<>> /\ pc' = Done
      /\ UNCHANGED <<route, handler, role, watched, kept, committed, told, late, passed>>
  BY DEF Panic
<1>3. pc' \in Nat /\ pc' # 0
  <2>1. Len(handler.steps) \in Nat
    BY <1>1 DEF Underway, Annotated, Noted
  <2>2. pc' = Len(handler.steps) + 1
    BY <1>2 DEF Done
  <2> QED
    BY <2>1, <2>2
<1>4. RequestOK'
  <2>1. Closed \in Txs
    BY DEF Closed, Txs
  <2> QED
    BY <1>1, <1>2, <1>3, <2>1 DEF RequestOK
<1>5. Underway'
  BY <1>1, <1>2 DEF Underway, RoleFits, Accountable
<1>6. Answered'
  <2>1. answer' \notin Refusals
    BY <1>2 DEF Refusals
  <2> QED
    BY <1>2, <1>3, <2>1 DEF Answered, Known, Closed
<1> QED
  BY <1>2, <1>3, <1>4, <1>5, <1>6 DEF Inv, Served

\* That the time is up changes nothing by itself.
LEMMA DeadlineInv ==
  ASSUME NEW notes, Annotated(notes), Inv(notes), Deadline
  PROVE  Inv(notes)'
<1>1. /\ Served /\ late' = TRUE
      /\ UNCHANGED <<route, handler, role, watched, pc, tx, frames, kept, committed, told, failure,
                     answer, passed>>
  BY DEF Deadline
<1>2. RequestOK /\ pc # 0 /\ Underway /\ Follows(notes) /\ answer = 0
  BY <1>1 DEF Inv, Served
<1>3. RequestOK'
  BY <1>1, <1>2 DEF RequestOK
<1>4. Underway'
  BY <1>1, <1>2 DEF Underway, RoleFits, Accountable
<1>5. Follows(notes)'
  BY <1>1, <1>2 DEF Follows, Done, Fits
<1> QED
  BY <1>1, <1>2, <1>3, <1>4, <1>5 DEF Inv

\* A request that has come to its end is answered with its status of success.
LEMMA ReplyInv ==
  ASSUME NEW notes, Annotated(notes), Inv(notes), Reply
  PROVE  Inv(notes)'
<1>1. /\ Served /\ pc = Done /\ answer' = handler.ok
      /\ UNCHANGED <<route, handler, role, watched, pc, tx, frames, kept, committed, told, late,
                     failure, passed>>
  BY DEF Reply
<1>2. RequestOK /\ pc # 0 /\ Underway /\ Follows(notes)
  BY <1>1 DEF Inv, Served
<1>3. Noted(route, handler, notes[route])
  BY <1>2 DEF Underway, Annotated
<1>4. answer' # 0 /\ answer' \notin Refusals
  <2>1. answer' \in 200..399
    BY <1>1, <1>3 DEF Noted
  <2>2. \A x \in 200..399 : x # 0 /\ x \notin Refusals
    BY DEF Refusals
  <2> QED
    BY <2>1, <2>2
<1>5. RequestOK'
  BY <1>1, <1>2 DEF RequestOK
<1>6. Underway'
  BY <1>1, <1>2 DEF Underway, RoleFits, Accountable
<1>7. ~tx'.open
  BY <1>1, <1>2, <1>3 DEF Follows, Fits, FitsTx, Noted, Done
<1>8. Answered'
  BY <1>1, <1>2, <1>4, <1>7 DEF Answered, Follows, Known
<1> QED
  BY <1>1, <1>2, <1>4, <1>5, <1>6, <1>8 DEF Inv, Served

\* A request begins as the first note says.
LEMMA ArriveInv ==
  ASSUME NEW notes, Annotated(notes), Inv(notes), Arrive
  PROVE  Inv(notes)'
<1>1. Init /\ RequestOK
  BY DEF Arrive, Inv
<1>2. /\ route' \in DOMAIN Api /\ handler' = Chain(Api[route']) /\ role' \in Roles
      /\ watched' \in {{t} : t \in TablesOf(handler')} \cup {Business(handler')}
      /\ pc' = 1
      /\ UNCHANGED <<tx, frames, kept, committed, told, late, failure, answer, passed>>
  BY DEF Arrive
<1>3. /\ tx = Closed /\ passed = {} /\ frames = <<>> /\ kept = None /\ committed = {}
      /\ told = FALSE /\ failure = None /\ answer = 0
  BY <1>1 DEF Init
<1>4. Noted(route', handler', notes[route'])
  BY <1>2 DEF Annotated
<1>5. RequestOK'
  BY <1>1, <1>2, <1>3 DEF RequestOK
<1>6. Underway'
  BY <1>2, <1>3 DEF Underway, RoleFits
<1>7. Follows(notes)'
  <2> DEFINE m == notes[route'][1]
  <2>1. Weaker(Unstarted, m)
    BY <1>4 DEF Noted
  <2>2. FitsTx(handler', watched', tx', Unstarted.tx)
    BY <1>2, <1>3 DEF FitsTx, Unstarted, Closed
  <2>3. FitsRest(handler', watched', Unstarted, passed', kept', committed', told')
    BY <1>2, <1>3 DEF FitsRest, Unstarted
  <2>4. FitsTx(handler', watched', tx', m.tx)
    BY <2>1, <2>2, WeakerFitsTx DEF Weaker
  <2>5. FitsRest(handler', watched', m, passed', kept', committed', told')
    BY <2>1, <2>3, WeakerFitsRest
  <2>6. m.inside = <<>>
    BY <2>1 DEF Weaker, Unstarted
  <2>7. FitsFrames(handler', watched', notes[route'], frames', m.inside)
    <3>1. frames' = <<>> /\ Len(<<>>) = 0 /\ <<>> \in Seq(Nat) /\ 1..0 = {}
      BY <1>2, <1>3
    <3> QED
      BY <2>6, <3>1 DEF FitsFrames
  <2>8. pc' <= Len(handler'.steps) + 1
    BY <1>2, <1>4 DEF Noted
  <2> QED
    BY <1>2, <1>3, <2>4, <2>5, <2>7, <2>8 DEF Follows, Fits, Done
<1> QED
  BY <1>2, <1>3, <1>5, <1>6, <1>7 DEF Inv

\* The server starts in a proper state.
LEMMA InitOK ==
  ASSUME Init
  PROVE  RequestOK
<1>1. Closed \in Txs
  BY DEF Closed, Txs
<1>2. <<>> \in Seq(Frames(handler))
  OBVIOUS
<1> QED
  BY <1>1, <1>2 DEF Init, RequestOK, Roles

\* There is no request at first.
LEMMA InitInv ==
  ASSUME NEW notes, Init
  PROVE  Inv(notes)
<1>1. RequestOK
  BY InitOK
<1> QED
  BY <1>1 DEF Inv, Init, Served

\* After a request the server is as it started.
LEMMA FinishInv ==
  ASSUME NEW notes, Finish
  PROVE  Inv(notes)'
<1>1. Init'
  BY DEF Finish, Init
<1>2. RequestOK'
  <2>1. Closed \in Txs
    BY DEF Closed, Txs
  <2>2. <<>> \in Seq(Frames(handler'))
    OBVIOUS
  <2> QED
    BY <1>1, <2>1, <2>2 DEF Init, RequestOK, Roles
<1> QED
  BY <1>1, <1>2 DEF Inv, Init, Served

\* A step of nothing keeps the invariant.
LEMMA StutterInv ==
  ASSUME NEW notes, Inv(notes), UNCHANGED vars
  PROVE  Inv(notes)'
BY DEF vars, Inv, RequestOK, Init, Served, Underway, RoleFits, Accountable, Follows, Done, Fits, Answered

----------------------------------------------------------------------------

\* The invariant holds of every request.
LEMMA InvHolds ==
  ASSUME NEW notes, Annotated(notes)
  PROVE  Spec => []Inv(notes)
<1>1. Init => Inv(notes)
  BY InitInv
<1>2. Inv(notes) /\ [Next]_vars => Inv(notes)'
  <2> SUFFICES ASSUME Inv(notes), [Next]_vars PROVE Inv(notes)'
    OBVIOUS
  <2>1. CASE UNCHANGED vars
    BY <2>1, StutterInv
  <2>2. CASE Next
    BY <2>2, ArriveInv, InputInv, ValidateInv, CheckInv, BeginInv, WriteInv, CommitInv, ReadInv,
       AnnounceInv, BranchInv, EnterInv, LeaveInv, RaiseInv, BreakInv, PanicInv, DeadlineInv,
       ReplyInv, FinishInv DEF Next
  <2> QED
    BY <2>1, <2>2
<1> QED
  BY <1>1, <1>2, PTL DEF Spec

\* Whatever the services a handler calls refuse reaches its caller with the status its package has
\* for it, and no caller is blamed for a fault (the writeError of every package), whatever fails
\* in between and for every server whose handlers can be annotated.
THEOREM ReasonsAlwaysReachTheCaller ==
  ASSUME NEW notes, Annotated(notes)
  PROVE  Spec => []ReasonsReachTheCaller
<1>1. Inv(notes) => ReasonsReachTheCaller
  BY DEF Inv, Answered, Known, ReasonsReachTheCaller
<1> QED
  BY <1>1, InvHolds, PTL

\* A refused request leaves nothing behind and has told nobody; nobody is told of what is not
\* committed (webhook.Dispatch after the transaction of the change).
THEOREM RefusalsAlwaysLeaveNothing ==
  ASSUME NEW notes, Annotated(notes)
  PROVE  Spec => []RefusalsLeaveNothing
<1>1. Inv(notes) => RefusalsLeaveNothing
  <2> SUFFICES ASSUME Inv(notes) PROVE RefusalsLeaveNothing
    OBVIOUS
  <2>1. CASE pc = 0
    BY <2>1 DEF Inv, Init, RefusalsLeaveNothing, Refusals
  <2>2. CASE pc # 0
    <3>1. answer \in Refusals => answer # 0
      BY DEF Refusals
    <3> QED
      BY <2>2, <3>1 DEF Inv, Underway, Answered, RefusalsLeaveNothing
  <2> QED
    BY <2>1, <2>2
<1> QED
  BY <1>1, InvHolds, PTL

\* Every change of the data of a firm was allowed in the transaction that made it, and is in the
\* audit log if it is of a kind that is audited.
THEOREM ChangesAreAlwaysAccountable ==
  ASSUME NEW notes, Annotated(notes)
  PROVE  Spec => []ChangesAreAccountable
<1>1. Inv(notes) => ChangesAreAccountable
  <2> SUFFICES ASSUME Inv(notes) PROVE ChangesAreAccountable
    OBVIOUS
  <2>1. CASE pc = 0
    BY <2>1 DEF Inv, Init, ChangesAreAccountable
  <2>2. CASE pc # 0
    BY <2>2 DEF Inv, Underway, Accountable, ChangesAreAccountable
  <2> QED
    BY <2>1, <2>2
<1> QED
  BY <1>1, InvHolds, PTL

\* Transactions are neither nested nor forgotten: none begins inside of another, what is written
\* or audited is so inside of one, and none is open when the request has been answered
\* (zdb.WithFirmContext and zdb.WithUserContext, with their deferred Rollback).
TransactionsAreFlat ==
  /\ At({"begin"}) => ~tx.open
  /\ At({"put", "audit", "commit"}) => tx.open
  /\ answer # 0 => ~tx.open

\* They are so for every server whose handlers can be annotated, whatever fails.
THEOREM TransactionsAreAlwaysFlat ==
  ASSUME NEW notes, Annotated(notes)
  PROVE  Spec => []TransactionsAreFlat
<1>1. Inv(notes) => TransactionsAreFlat
  <2> SUFFICES ASSUME Inv(notes) PROVE TransactionsAreFlat
    OBVIOUS
  <2>1. answer # 0 => ~tx.open
    BY DEF Inv, Answered
  <2>2. ASSUME NEW K, At(K)
        PROVE  /\ Here.kind \in K
               /\ Here.kind = "begin" => ~tx.open
               /\ Here.kind \in {"put", "audit", "commit"} => tx.open
    <3>1. Served /\ pc <= Len(handler.steps) /\ Here.kind \in K
      BY <2>2 DEF At
    <3>2. /\ WellStepped(route, handler, notes[route], pc)
          /\ FitsTx(handler, watched, tx, notes[route][pc].tx)
      BY <3>1, AtStep DEF Fits
    <3> QED
      BY <3>1, <3>2 DEF WellStepped, Here, FitsTx
  <2> QED
    BY <2>1, <2>2 DEF TransactionsAreFlat
<1> QED
  BY <1>1, InvHolds, PTL
=============================================================================
