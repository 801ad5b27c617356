-------------------------------- MODULE Note --------------------------------
(***************************************************************************)
(* The note made of a recording, on its way from the model's answer        *)
(* (analyzer.go) through the domain (analysis.go) to the destination's row *)
(* (sheets/row.go) and to the client that polls (dto.go).                  *)
(*                                                                         *)
(* A text is told apart by what trimming makes of it, an item's due date   *)
(* is like its owner, a summary like a title.  A nil slice or pointer is   *)
(* Absent, which an empty slice is not.                                    *)
(***************************************************************************)
EXTENDS Lists

CONSTANTS
  Payloads,  \* what the model may answer
  Absent

Text == {"", "spaces", "words", "padded words"}
Item == [task : Text, owner : Text]

\* The answer has the fields that its schema asks for; Absent is no list.
ASSUME NoteAssumption ==
  /\ Payloads \subseteq [title : Text, keys : Seq(Text), items : Seq(Item)]
  /\ Absent \notin Seq(Text) \cup Seq(Item)

Trim(t) == CASE t = "spaces" -> "" [] t = "padded words" -> "words" [] OTHER -> t

\* NewTranscript rejects what is blank.
Transcript(heard) == Trim(heard)

Trimmed(seq) == [i \in DOMAIN seq |-> Trim(seq[i])]

\* toDomain: trimmed, and without the empty entries.
ToDomain(p) ==
  [title |-> Trim(p.title),
   keys  |-> Only(Trimmed(p.keys), Text \ {""}),
   items |-> Only([i \in DOMAIN p.items |->
                     [task |-> Trim(p.items[i].task), owner |-> Trim(p.items[i].owner)]],
                  {item \in Item : item.task # ""}),
   transcript |-> ""]

\* Process adds the transcript to what Analyze returns.
Analysis(p, text) == [ToDomain(p) EXCEPT !.transcript = text]

\* cloneJob: append to a nil slice leaves an empty one nil.
NilIfEmpty(seq) == IF seq = <<>> THEN Absent ELSE seq
CloneNote(note) ==
  [note EXCEPT !.keys = NilIfEmpty(@), !.items = NilIfEmpty(@)]

\* The notes in use, and their stored form.
Notes == {Analysis(p, "words") : p \in Payloads}
NoteType == Notes \cup {CloneNote(n) : n \in Notes}

\* Mutant: a nil slice is rendered as it is.
DTONull(note) == [note EXCEPT !.items = IF @ = Absent THEN <<>> ELSE @]

\* newAnalysisDTO: a list is never null.
DTO(note) ==
  [note EXCEPT !.keys = IF @ = Absent THEN <<>> ELSE @,
               !.items = IF @ = Absent THEN <<>> ELSE @]

\* formatActionItems: a line for each item, its owner where there is one.
Line(item) == IF item.owner = "" THEN <<item.task>> ELSE <<item.task, item.owner>>

\* buildRow, its cells as the lines they hold.
Row(note) ==
  [title |-> note.title, keys |-> note.keys,
   items |-> [i \in DOMAIN note.items |-> Line(note.items[i])],
   transcript |-> note.transcript]
=============================================================================
