---------------------------- MODULE DispatchNotes ----------------------------
(***************************************************************************)
(* Delivery notes between two locations: parts leave the source stock when  *)
(* the note is dispatched and are credited to the destination when it is    *)
(* received; a unit is at no warehouse in between.                          *)
(*   backend/app/dispatch/service.py, repository.py, domain/status.py       *)
(*                                                                          *)
(* Drafting a note asks, without a lock, whether a unit is on another open   *)
(* note, and inserts the note later in the same transaction: CheckNote and   *)
(* DraftNote.  The other operations lock the note.                           *)
(***************************************************************************)
EXTENDS Motorcycles

CONSTANT Note   \* dispatch_notes

VARIABLES
  note,         \* dispatch_notes.status; "none", "checked" before the insert
  noteRow,      \* the units and quantity of the part on its lines, and its route
  credited      \* units of the part booked in at the destination (history)

notes == <<note, noteRow, credited>>

NoteStatus == {"none", "checked", "draft", "in_transit", "partially_received",
               "received", "cancelled"}
OpenNote == {"draft", "in_transit", "partially_received"}
Receivable == {"in_transit", "partially_received"}

NoteRow == [units : SUBSET Unit, qty : 0..MaxQty, src : Warehouse, dst : Warehouse]

NotesInit ==
  /\ note = [n \in Note |-> "none"]
  /\ noteRow = [n \in Note |-> None]
  /\ credited = [n \in Note |-> 0]

\* unit_on_open_note
OnOpenNote(u) == \E n \in Note : note[n] \in OpenNote /\ u \in noteRow[n].units

CheckNote(n, row) ==
  /\ note[n] = "none"
  /\ row.src # row.dst
  /\ \A u \in row.units :
       /\ Registered(u) /\ status[u] # "sold"
       /\ place[u] \in {None, row.src}
       /\ ~OnOpenNote(u)
  /\ note' = [note EXCEPT ![n] = "checked"]
  /\ noteRow' = [noteRow EXCEPT ![n] = row]
  /\ UNCHANGED <<credited, registry, parts>>

DraftNote(n) ==
  /\ note[n] = "checked"
  /\ note' = [note EXCEPT ![n] = "draft"]
  /\ UNCHANGED <<noteRow, credited, registry, parts>>

\* dispatch: the units leave wherever they are by now.
Dispatch(n) ==
  LET row == noteRow[n]
  IN  /\ note[n] = "draft"
      /\ IssuePart(row.src, row.qty)
      /\ place' = [u \in Unit |-> IF u \in row.units THEN None ELSE place[u]]
      /\ note' = [note EXCEPT ![n] = "in_transit"]
      /\ UNCHANGED <<noteRow, credited, status, customer, soldOn, built, owed, handed, imported>>

\* receive_outcome: clean when everything arrived.
ReceiveOutcome(row, got, confirmed) ==
  IF got = row.qty /\ confirmed = row.units THEN "received" ELSE "partially_received"

\* Faulty variant: a unit that did not arrive stays on the way.
ArrivalOfConfirmed(row, confirmed) ==
  [u \in Unit |-> IF u \in confirmed THEN row.dst ELSE place[u]]

\* Where the units of a received note are: a missing one is back at the source.
Arrival(row, confirmed) ==
  [u \in Unit |-> IF u \in confirmed THEN row.dst
                  ELSE IF u \in row.units THEN row.src ELSE place[u]]

\* receive: every line is booked from the start; what is damaged or missing is
\* recorded only.
ReceiveNote(n, got, confirmed) ==
  LET row == noteRow[n]
  IN  /\ note[n] \in Receivable
      /\ got \in 0..row.qty /\ confirmed \subseteq row.units
      /\ onHand[row.dst] + got <= MaxStock
      /\ onHand' = [onHand EXCEPT ![row.dst] = @ + got]
      /\ place' = Arrival(row, confirmed)
      /\ credited' = [credited EXCEPT ![n] = @ + got]
      /\ note' = [note EXCEPT ![n] = ReceiveOutcome(row, got, confirmed)]
      /\ UNCHANGED <<noteRow, held, status, customer, soldOn, built, owed, handed, imported>>

CancelNote(n) ==
  /\ note[n] = "draft"
  /\ note' = [note EXCEPT ![n] = "cancelled"]
  /\ UNCHANGED <<noteRow, credited, registry, parts>>

NotesNext ==
  \E n \in Note :
    \/ \E row \in NoteRow : (row.units # {} \/ row.qty > 0) /\ CheckNote(n, row)
    \/ DraftNote(n)
    \/ Dispatch(n)
    \/ \E got \in 0..MaxQty, confirmed \in SUBSET Unit : ReceiveNote(n, got, confirmed)
    \/ CancelNote(n)

NotesTypeOK ==
  /\ note \in [Note -> NoteStatus]
  /\ noteRow \in [Note -> NoteRow \union {None}]
  /\ credited \in [Note -> Nat]
=============================================================================
