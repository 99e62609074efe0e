------------------------------- MODULE Details -------------------------------
(***************************************************************************)
(* The provided details of a property (label, address, land use) and the   *)
(* forms that several users fill in at once: annotate and object_history   *)
(* in backend/app/routers/governance.py, the page's form in frontend/src/  *)
(* components/governance.tsx and its requests in frontend/src/lib/api.ts.  *)
(*                                                                         *)
(* Annotations are never changed: saving appends a row that names the row  *)
(* it expects to follow.  A row is known by its place in the sequence, and *)
(* place 0 stands for no annotation.                                       *)
(***************************************************************************)
EXTENDS Naturals, Sequences, FiniteSets

CONSTANTS
    Pages,     \* open pages of the property, each with its own cache
    Requests,  \* ids of the requests in flight
    Limit,     \* rows of a history page
    MaxNotes,  \* bound of the model: annotations
    MaxFaults, \* bound of the model: interrupted requests, failed commits
    Nobody     \* no request

ASSUME DetailsAssumption ==
    /\ Nobody \notin Requests
    /\ Limit \in Nat \ {0} /\ MaxNotes \in Nat /\ MaxFaults \in Nat

VARIABLES
    notes,    \* annotations of the property, by sequence
    holder,   \* the request that holds the property's row lock
    phase,    \* how far each request is on the server
    asked,    \* what each request asks to save
    sent,     \* the answers sent
    known,    \* latest annotation in the case each page has cached
    form,     \* annotation each page's form was filled from, or CLOSED
    waiting,  \* the request each page waits for
    walk,     \* a reader's walk through the history, page by page
    faults    \* counts towards MaxFaults

vars == <<notes, holder, phase, asked, sent, known, form, waiting, walk, faults>>

server == <<notes, holder, phase, asked, sent>>
client == <<known, form, waiting>>

Closed == MaxNotes + 1
Places == 0 .. MaxNotes

\* The annotation the values come from, and the one they are to follow.
Saves == [basis : Places, expected : Places]

NoSave == [basis |-> 0, expected |-> 0]

\* When the walk began the history had `from' rows; `seen' are those listed.
NoWalk == [offset |-> 0, from |-> 0, seen |-> {}, on |-> FALSE]

TypeOK ==
    /\ notes \in Seq(Saves)
    /\ holder \in Requests \cup {Nobody}
    /\ holder # Nobody => phase[holder] = "CHECKED"
    /\ phase \in [Requests -> {"IDLE", "SENT", "CHECKED", "DONE"}]
    /\ asked \in [Requests -> Saves]
    /\ sent \in [Requests -> {"NONE", "SAVED", "REFUSED", "FAILED"}]
    /\ known \in [Pages -> Places]
    /\ form \in [Pages -> Places \cup {Closed}]
    /\ waiting \in [Pages -> Requests \cup {Nobody}]
    /\ walk \in [offset : Nat, from : Places, seen : SUBSET Places, on : BOOLEAN]
    /\ faults \in Nat

Init ==
    /\ notes = <<>>
    /\ holder = Nobody
    /\ phase = [q \in Requests |-> "IDLE"]
    /\ asked = [q \in Requests |-> NoSave]
    /\ sent = [q \in Requests |-> "NONE"]
    /\ known = [c \in Pages |-> 0]
    /\ form = [c \in Pages |-> Closed]
    /\ waiting = [c \in Pages |-> Nobody]
    /\ walk = NoWalk
    /\ faults = 0

-----------------------------------------------------------------------------
(* The page.                                                               *)

\* The case is fetched again: every ten seconds while a review is pending,
\* every three while a validation is, and when any query is invalidated.  Rows
\* may be committed between the read and the arrival of its answer.
Refetch(c) ==
    /\ \E n \in known[c] .. Len(notes) : known' = [known EXCEPT ![c] = n]
    /\ UNCHANGED <<server, form, waiting, walk, faults>>

\* begin: the fields are filled from the case as it is cached now.
Begin(c) ==
    /\ waiting[c] = Nobody
    /\ form' = [form EXCEPT ![c] = known[c]]
    /\ UNCHANGED <<server, known, waiting, walk, faults>>

\* The fields are those of the form; the expected predecessor is taken from
\* the case as it is cached when the button is pressed.
Submit(c, q) ==
    /\ form[c] # Closed /\ waiting[c] = Nobody
    /\ phase[q] = "IDLE"
    /\ phase' = [phase EXCEPT ![q] = "SENT"]
    /\ asked' = [asked EXCEPT ![q] = [basis |-> form[c], expected |-> known[c]]]
    /\ waiting' = [waiting EXCEPT ![c] = q]
    /\ UNCHANGED <<notes, holder, sent, known, form, walk, faults>>

\* "Record saved; history preserved." closes the form, and the refetch that
\* follows may fail; an error leaves the form open and fetches nothing.
Receive(c) ==
    LET q == waiting[c]
    IN /\ q # Nobody /\ sent[q] # "NONE"
       /\ waiting' = [waiting EXCEPT ![c] = Nobody]
       /\ form' = [form EXCEPT ![c] = IF sent[q] = "SAVED" THEN Closed ELSE @]
       /\ UNCHANGED <<server, known, walk, faults>>

\* "Request interrupted. Check the saved record or job before retrying.": the
\* server goes on with it.
Interrupt(c) ==
    /\ waiting[c] # Nobody
    /\ faults < MaxFaults /\ faults' = faults + 1
    /\ waiting' = [waiting EXCEPT ![c] = Nobody]
    /\ UNCHANGED <<server, known, form, walk>>

\* The page is left while its form is open.
Leave(c) ==
    /\ form[c] # Closed /\ waiting[c] = Nobody
    /\ form' = [form EXCEPT ![c] = Closed]
    /\ UNCHANGED <<server, known, waiting, walk, faults>>

-----------------------------------------------------------------------------
(* annotate: one transaction, its answer sent before it is committed.      *)

\* Slip: the object is read without FOR UPDATE.
AlwaysFree == TRUE

RowFree == holder = Nobody

Expected(q) == asked[q].expected = Len(notes)

\* require(..., lock=True), then the latest annotation is compared.
Check(q) ==
    /\ phase[q] = "SENT" /\ RowFree
    /\ Expected(q)
    /\ Len(notes) < MaxNotes
    /\ holder' = q
    /\ phase' = [phase EXCEPT ![q] = "CHECKED"]
    /\ UNCHANGED <<notes, asked, sent, client, walk, faults>>

\* 409 "Property details changed; reload before saving".
Refuse(q) ==
    /\ phase[q] = "SENT" /\ RowFree
    /\ ~Expected(q)
    /\ phase' = [phase EXCEPT ![q] = "DONE"]
    /\ sent' = [sent EXCEPT ![q] = "REFUSED"]
    /\ UNCHANGED <<notes, holder, asked, client, walk, faults>>

\* The handler returns: the row is inserted and flushed, the answer goes out.
Answer(q) ==
    /\ phase[q] = "CHECKED" /\ sent[q] = "NONE"
    /\ sent' = [sent EXCEPT ![q] = "SAVED"]
    /\ UNCHANGED <<notes, holder, phase, asked, client, walk, faults>>

\* get_db's commit makes the row visible and releases the lock.
Commit(q) ==
    /\ phase[q] = "CHECKED" /\ sent[q] = "SAVED"
    /\ notes' = Append(notes, asked[q])
    /\ holder' = Nobody
    /\ phase' = [phase EXCEPT ![q] = "DONE"]
    /\ UNCHANGED <<asked, sent, client, walk, faults>>

\* The transaction is rolled back, before or after the answer.
Rollback(q) ==
    /\ phase[q] = "CHECKED"
    /\ faults < MaxFaults /\ faults' = faults + 1
    /\ holder' = Nobody
    /\ phase' = [phase EXCEPT ![q] = "DONE"]
    /\ sent' = [sent EXCEPT ![q] = IF @ = "NONE" THEN "FAILED" ELSE @]
    /\ UNCHANGED <<notes, asked, client, walk>>

\* Slip: a request is over once it has been answered.
Answered(q) == sent[q] # "NONE"

Ended(q) == phase[q] = "DONE"

\* The connection is over and its id may be used for another request.
Close(q) ==
    /\ Ended(q)
    /\ \A c \in Pages : waiting[c] # q
    /\ phase' = [phase EXCEPT ![q] = "IDLE"]
    /\ asked' = [asked EXCEPT ![q] = NoSave]
    /\ sent' = [sent EXCEPT ![q] = "NONE"]
    /\ UNCHANGED <<notes, holder, client, walk, faults>>

-----------------------------------------------------------------------------
(* object_history: rows from the newest to the oldest, Limit at a time.    *)

\* Slip: the row fetched to see whether there are more is skipped.
PastTheProbe(offset) == offset + Limit + 1

NextOffset(offset) == offset + Limit

\* Places of the rows a page at this offset lists.
Listed(offset) == {i \in 1 .. Len(notes) :
                      /\ Len(notes) - i >= offset
                      /\ Len(notes) - i < offset + Limit}

HasMore(offset) == Len(notes) > offset + Limit

\* Pages the browser holds from an earlier walk (staleTime 30 s) are not read
\* again; this is a walk without any.
StartWalk ==
    /\ ~walk.on
    /\ walk' = [offset |-> 0, from |-> Len(notes), seen |-> {}, on |-> TRUE]
    /\ UNCHANGED <<server, client, faults>>

\* "Older records": the offset is the one the page before named.
ReadPage ==
    /\ walk.on
    /\ walk' = [offset |-> IF HasMore(walk.offset) THEN NextOffset(walk.offset) ELSE 0,
                from |-> walk.from,
                seen |-> walk.seen \cup Listed(walk.offset),
                on |-> HasMore(walk.offset)]
    /\ UNCHANGED <<server, client, faults>>

-----------------------------------------------------------------------------
Next ==
    \/ \E c \in Pages : Refetch(c) \/ Begin(c) \/ Receive(c) \/ Interrupt(c) \/ Leave(c)
    \/ \E c \in Pages, q \in Requests : Submit(c, q)
    \/ \E q \in Requests : Check(q) \/ Refuse(q) \/ Answer(q) \/ Commit(q)
                           \/ Rollback(q) \/ Close(q)
    \/ StartWalk
    \/ ReadPage

Spec == Init /\ [][Next]_vars

-----------------------------------------------------------------------------
\* No two saves follow the same annotation, and none is recorded as following
\* one it did not: whoever retries an interrupted request or presses the button
\* on two pages at once, the details keep one line of succession.
OneSuccessor == \A i \in DOMAIN notes : notes[i].expected = i - 1

\* A reader who follows next_offset to the end has seen every row there was
\* when the walk began, whatever is recorded meanwhile at the other end.
WalkMissesNothing == ~walk.on => 1 .. walk.from \subseteq walk.seen

\* "Property details changed; reload before saving" (governance.py): nobody
\* replaces details that the form was not filled from.
NothingOverwrittenUnseen == \A i \in DOMAIN notes : notes[i].basis = notes[i].expected
=============================================================================
