---------------------------- MODULE DetailsProofs ----------------------------
(***************************************************************************)
(* Proofs about Details, for any number of pages and requests, any page    *)
(* size and any number of interrupted requests and failed commits.         *)
(*                                                                         *)
(* OneSuccessor rests on the row lock: between the comparison and the      *)
(* commit of one request the history keeps its length (Succession).        *)
(* WalkMissesNothing rests on rows being added only in front of those a    *)
(* walk has passed (Passed).                                               *)
(***************************************************************************)
EXTENDS Details, TLAPS

LEMMA ClosedIsNoPlace == Closed \notin Places /\ Closed \in Nat /\ 0 \in Places
  BY DetailsAssumption DEF Closed, Places

LEMMA InitTyped == Init => TypeOK
  BY DetailsAssumption, ClosedIsNoPlace DEF Init, TypeOK, NoSave, NoWalk, Saves

\* A page of history keeps the walk's type.
LEMMA WalkTyped ==
    ASSUME TypeOK, StartWalk \/ ReadPage, Len(notes) \in Places
    PROVE  walk' \in [offset : Nat, from : Places, seen : SUBSET Places, on : BOOLEAN]
<1>1. CASE StartWalk
  BY <1>1 DEF StartWalk
<1>2. CASE ReadPage
  <2>1. Listed(walk.offset) \subseteq Places
    <3> SUFFICES ASSUME NEW i \in Listed(walk.offset) PROVE i \in Places
      OBVIOUS
    <3>1. i \in 1 .. Len(notes)
      BY DEF Listed
    <3>2. QED
      BY <3>1, DetailsAssumption DEF Places
  <2>2. NextOffset(walk.offset) \in Nat /\ HasMore(walk.offset) \in BOOLEAN
    BY DetailsAssumption DEF TypeOK, NextOffset, HasMore
  <2>3. QED
    BY <1>2, <2>1, <2>2 DEF ReadPage, TypeOK
<1>3. QED
  BY <1>1, <1>2

-----------------------------------------------------------------------------
\* The history never outgrows its bound, so every length is a place.
Bounded == Len(notes) <= MaxNotes

LEMMA LengthIsPlace == ASSUME TypeOK, Bounded PROVE Len(notes) \in Places
  BY DetailsAssumption DEF TypeOK, Bounded, Places

\* A request that passed the comparison holds the lock, and the history has
\* not grown since.
Compared ==
    \A q \in Requests : phase[q] = "CHECKED" =>
        holder = q /\ asked[q].expected = Len(notes) /\ Len(notes) < MaxNotes

Succession == TypeOK /\ Bounded /\ Compared /\ OneSuccessor

LEMMA PageStep ==
    ASSUME Succession, NEW c \in Pages,
           Refetch(c) \/ Begin(c) \/ Receive(c) \/ Interrupt(c) \/ Leave(c)
    PROVE  Succession'
<1> USE LengthIsPlace, DetailsAssumption, ClosedIsNoPlace DEF Succession
<1>1. UNCHANGED <<notes, holder, phase, asked, sent, walk>>
  BY DEF Refetch, Begin, Receive, Interrupt, Leave, server
<1>2. (Bounded /\ Compared /\ OneSuccessor)'
  BY <1>1 DEF Bounded, Compared, OneSuccessor
<1>3. /\ (known \in [Pages -> Places])'
      /\ (form \in [Pages -> Places \cup {Closed}])'
      /\ (waiting \in [Pages -> Requests \cup {Nobody}])'
      /\ (faults \in Nat)'
  <2>1. CASE Refetch(c)
    <3>1. PICK n \in known[c] .. Len(notes) : known' = [known EXCEPT ![c] = n]
      BY <2>1 DEF Refetch
    <3>2. n \in Places
      <4>1. known[c] \in Places /\ Len(notes) \in Places
        BY DEF TypeOK
      <4>2. QED
        BY <4>1 DEF Places
    <3>3. QED
      BY <2>1, <3>1, <3>2 DEF Refetch, TypeOK
  <2>2. CASE Begin(c)
    BY <2>2 DEF Begin, TypeOK
  <2>3. CASE Receive(c)
    BY <2>3 DEF Receive, TypeOK
  <2>4. CASE Interrupt(c)
    BY <2>4 DEF Interrupt, TypeOK
  <2>5. CASE Leave(c)
    BY <2>5 DEF Leave, TypeOK
  <2>6. QED
    BY <2>1, <2>2, <2>3, <2>4, <2>5
<1>4. TypeOK'
  BY <1>1, <1>3 DEF TypeOK
<1>5. QED
  BY <1>2, <1>4

LEMMA SubmitStep ==
    ASSUME Succession, NEW c \in Pages, NEW q \in Requests, Submit(c, q)
    PROVE  Succession'
<1> USE DEF Succession
<1>1. [basis |-> form[c], expected |-> known[c]] \in Saves
  BY DEF Submit, TypeOK, Saves
<1>2. TypeOK'
  BY <1>1, DetailsAssumption DEF Submit, TypeOK
<1>3. (Bounded /\ Compared /\ OneSuccessor)'
  BY DEF Submit, TypeOK, Bounded, Compared, OneSuccessor
<1>4. QED
  BY <1>2, <1>3

\* The commit: the row follows the one it expects.
LEMMA CommitStep ==
    ASSUME Succession, NEW q \in Requests, Commit(q)
    PROVE  Succession'
<1> USE DEF Succession
<1>1. /\ asked[q] \in Saves /\ notes \in Seq(Saves)
      /\ holder = q /\ asked[q].expected = Len(notes) /\ Len(notes) < MaxNotes
  BY DEF Commit, TypeOK, Compared
<1>2. /\ notes' \in Seq(Saves) /\ Len(notes') = Len(notes) + 1
      /\ \A i \in 1 .. Len(notes) : notes'[i] = notes[i]
      /\ notes'[Len(notes) + 1] = asked[q]
  BY <1>1 DEF Commit
<1>3. TypeOK'
  BY <1>2 DEF Commit, TypeOK, client
<1>4. Bounded'
  BY <1>1, <1>2, DetailsAssumption DEF Bounded
<1>5. Compared'
  BY <1>1, DetailsAssumption DEF Commit, Compared, TypeOK
<1>6. OneSuccessor'
  BY <1>1, <1>2 DEF OneSuccessor
<1>7. QED
  BY <1>3, <1>4, <1>5, <1>6

LEMMA RequestStep ==
    ASSUME Succession, NEW q \in Requests,
           Check(q) \/ Refuse(q) \/ Answer(q) \/ Rollback(q) \/ Close(q)
    PROVE  Succession'
<1> USE DEF Succession, client
<1>1. UNCHANGED <<notes, known, form, waiting, walk>>
  BY DEF Check, Refuse, Answer, Rollback, Close
<1>2. (Bounded /\ OneSuccessor)'
  BY <1>1 DEF Bounded, OneSuccessor
<1>3. TypeOK' /\ Compared'
  <2> USE DetailsAssumption DEF TypeOK, Compared
  <2>1. CASE Check(q)
    BY <2>1 DEF Check, RowFree, Expected
  <2>2. CASE Refuse(q)
    BY <2>2 DEF Refuse, RowFree
  <2>3. CASE Answer(q)
    BY <2>3 DEF Answer
  <2>4. CASE Rollback(q)
    BY <2>4 DEF Rollback
  <2>5. CASE Close(q)
    <3>1. NoSave \in Saves
      BY ClosedIsNoPlace DEF NoSave, Saves
    <3>2. QED
      BY <2>5, <3>1 DEF Close, Ended
  <2>6. QED
    BY <2>1, <2>2, <2>3, <2>4, <2>5
<1>4. QED
  BY <1>2, <1>3

LEMMA WalkStep == ASSUME Succession, StartWalk \/ ReadPage PROVE Succession'
<1>1. UNCHANGED <<server, client, faults>>
  BY DEF StartWalk, ReadPage
<1>2. walk' \in [offset : Nat, from : Places, seen : SUBSET Places, on : BOOLEAN]
  BY WalkTyped, LengthIsPlace DEF Succession
<1>3. QED
  BY <1>1, <1>2 DEF Succession, TypeOK, Bounded, Compared, OneSuccessor, server, client

LEMMA SuccessionStep == ASSUME Succession, [Next]_vars PROVE Succession'
<1>1. CASE UNCHANGED vars
  BY <1>1 DEF vars, server, client, Succession, TypeOK, Bounded, Compared, OneSuccessor
<1>2. QED
  BY <1>1, PageStep, SubmitStep, CommitStep, RequestStep, WalkStep DEF Next

LEMMA SuccessionInit == Init => Succession
<1>1. Init => Bounded /\ Compared /\ OneSuccessor
  BY DetailsAssumption DEF Init, Bounded, Compared, OneSuccessor
<1>2. QED
  BY <1>1, InitTyped DEF Succession

LEMMA SuccessionAlways == Spec => []Succession
  BY SuccessionInit, SuccessionStep, PTL DEF Spec

\* Every state of the forms, the requests and the walk is well typed.
THEOREM DetailsTypeCorrect == Spec => []TypeOK
<1>1. Succession => TypeOK
  BY DEF Succession
<1>2. QED
  BY <1>1, SuccessionAlways, PTL

\* The details keep one line of succession, however many pages save at once,
\* give up waiting and try again.
THEOREM DetailsHaveOneSuccessor == Spec => []OneSuccessor
<1>1. Succession => OneSuccessor
  BY DEF Succession
<1>2. QED
  BY <1>1, SuccessionAlways, PTL

-----------------------------------------------------------------------------
\* Rows from before the walk that lie in front of its offset have been seen.
Passed ==
    /\ walk.from <= Len(notes)
    /\ walk.on => \A i \in 1 .. walk.from : Len(notes) - i < walk.offset => i \in walk.seen
    /\ ~walk.on => 1 .. walk.from \subseteq walk.seen

LEMMA PassedInit == Init => Passed
  BY DEF Init, Passed, NoWalk

LEMMA PassedStep == ASSUME Succession, Passed, [Next]_vars PROVE Passed'
<1> USE DEF Passed
<1>0. walk \in [offset : Nat, from : Places, seen : SUBSET Places, on : BOOLEAN]
      /\ Len(notes) \in Nat /\ walk.from \in Nat /\ Limit \in Nat \ {0}
  BY DetailsAssumption DEF Succession, TypeOK, Places
<1>1. CASE StartWalk
  BY <1>0, <1>1 DEF StartWalk, server
<1>2. CASE ReadPage
  <2> DEFINE n == Len(notes)
             k == walk.offset
  <2>1. /\ notes' = notes /\ walk'.from = walk.from
        /\ walk'.seen = walk.seen \cup Listed(k)
        /\ walk'.on = HasMore(k)
        /\ walk'.offset = IF HasMore(k) THEN k + Limit ELSE 0
    BY <1>2 DEF ReadPage, server, NextOffset
  <2>2. walk.on /\ k \in Nat /\ n \in Nat /\ walk.from <= n
    BY <1>0, <1>2 DEF ReadPage
  <2>3. ASSUME NEW i \in 1 .. walk.from, n - i < k + Limit
        PROVE  i \in walk'.seen
    <3>1. i \in 1 .. n
      BY <1>0, <2>2
    <3>2. CASE n - i < k
      BY <2>1, <2>2, <3>2
    <3>3. CASE ~(n - i < k)
      <4>1. n - i >= k
        BY <1>0, <2>2, <3>1, <3>3
      <4>2. i \in Listed(k)
        BY <2>3, <3>1, <4>1 DEF Listed
      <4>3. QED
        BY <2>1, <4>2
    <3>4. QED
      BY <3>2, <3>3
  <2>4. CASE HasMore(k)
    BY <2>1, <2>2, <2>3, <2>4
  <2>5. CASE ~HasMore(k)
    <3>1. \A i \in 1 .. walk.from : n - i < k + Limit
      BY <1>0, <2>2, <2>5 DEF HasMore
    <3>2. \A i \in 1 .. walk.from : i \in walk'.seen
      BY <2>3, <3>1
    <3>3. QED
      BY <2>1, <2>2, <2>5, <3>2
  <2>6. QED
    BY <2>4, <2>5
<1>3. CASE \E q \in Requests : Commit(q)
  <2>1. Len(notes') = Len(notes) + 1 /\ walk' = walk
    BY <1>3 DEF Commit, Succession, TypeOK
  <2>2. QED
    BY <1>0, <2>1
<1>4. CASE UNCHANGED <<notes, walk>>
  BY <1>4
<1>5. QED
  BY <1>1, <1>2, <1>3, <1>4
     DEF Next, Refetch, Begin, Receive, Interrupt, Leave, Submit, Check, Refuse,
         Answer, Rollback, Close, server, vars

\* A walk through the history misses nothing that was there when it began.
THEOREM WalksAreComplete == Spec => []WalkMissesNothing
<1>1. Passed => WalkMissesNothing
  BY DEF Passed, WalkMissesNothing
<1>2. QED
  BY <1>1, PassedInit, PassedStep, SuccessionAlways, PTL DEF Spec
=============================================================================
