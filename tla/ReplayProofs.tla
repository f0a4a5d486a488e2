----------------------------- MODULE ReplayProofs -----------------------------
(***************************************************************************)
(* Theorems about Replay, for any documents, scenarios and length of the   *)
(* history.  The inductive invariant says that the log is what happened to *)
(* the page, event by event; that a checkpoint is the page its snapshot    *)
(* was taken of, which may be ahead of its event; that every engine's      *)
(* parts follow the page until it finds a difference; and that what a call *)
(* of the controller has read is the beginning of the log.                 *)
(***************************************************************************)
EXTENDS Replay, FiniteSetTheorems, SequenceTheorems, WellFoundedInduction, TLAPS

-----------------------------------------------------------------------------
(* The editor.                                                             *)

PatchType == [from: Values, to: Values]

EntryType == [id: Nat, forward: PatchType, inverse: PatchType]

EditorType == [document: Values, entries: Seq(EntryType), index: Nat, issued: Nat]

EditorOK(e) ==
  /\ e \in EditorType
  /\ e.index <= Len(e.entries)
  /\ Len(e.entries) <= HistoryLimit

\* What an operation of the editor gives, whether it succeeds or not.
CodeType == {None, "COMMAND_INVALID", "HISTORY_UNDO_EMPTY", "HISTORY_REDO_EMPTY",
             "HISTORY_INDEX_INVALID"}

ResultType ==
  [ok: BOOLEAN, code: CodeType, editor: EditorType, entry: EntryType \cup {None}]

LEMMA NewEditorIsOK == ASSUME NEW v \in Values PROVE EditorOK(NewEditor(v))
<1>1. << >> \in Seq(EntryType) /\ Len(<< >>) = 0
  OBVIOUS
<1> QED
  BY <1>1, ReplayEngineAssumption DEF EditorOK, EditorType, NewEditor

\* A recorded entry is the last one, and fits.
LEMMA RecordIsOK ==
  ASSUME NEW e, EditorOK(e), NEW entry \in EntryType
  PROVE  LET r == Record(e, entry)
         IN  /\ EditorOK(r)
             /\ r.document = e.document /\ r.issued = e.issued
             /\ Len(r.entries) <= Len(e.entries) + 1
             /\ e.index = Len(e.entries) /\ Len(e.entries) < HistoryLimit =>
                  /\ Len(r.entries) = Len(e.entries) + 1
                  /\ r.entries[Len(e.entries) + 1] = entry
<1> DEFINE kept == SubSeq(e.entries, 1, e.index)
           grown == Append(kept, entry)
           final == IF Len(grown) > HistoryLimit THEN Tail(grown) ELSE grown
<1>1. e \in EditorType /\ e.entries \in Seq(EntryType) /\ e.index \in 0 .. Len(e.entries)
  BY DEF EditorOK, EditorType
<1>2. kept \in Seq(EntryType) /\ Len(kept) = e.index
  BY <1>1
<1>3. grown \in Seq(EntryType) /\ Len(grown) = e.index + 1 /\ grown[e.index + 1] = entry
  BY <1>1, <1>2
<1>4. Len(grown) > HistoryLimit => Tail(grown) \in Seq(EntryType) /\ Len(Tail(grown)) = e.index
  BY <1>1, <1>3, ReplayEngineAssumption
<1>5. final \in Seq(EntryType) /\ Len(final) <= HistoryLimit /\ Len(final) <= e.index + 1
  BY <1>1, <1>3, <1>4, ReplayEngineAssumption DEF EditorOK
<1> HIDE DEF kept, grown, final
<1>6. Record(e, entry) = [e EXCEPT !.entries = final, !.index = Len(final)]
  BY DEF Record, final, grown, kept
<1>7. EditorOK(Record(e, entry))
  <2>1. Len(final) \in Nat
    BY <1>5
  <2>2. \A list \in Seq(EntryType), n \in Nat : [e EXCEPT !.entries = list, !.index = n] \in EditorType
    BY <1>1 DEF EditorType
  <2>3. Record(e, entry) \in EditorType
    BY <1>5, <1>6, <2>1, <2>2
  <2> QED
    BY <1>1, <1>5, <1>6, <2>1, <2>3 DEF EditorOK, EditorType
<1>8. ASSUME e.index = Len(e.entries), Len(e.entries) < HistoryLimit
      PROVE  Len(final) = Len(e.entries) + 1 /\ final[Len(e.entries) + 1] = entry
  BY <1>1, <1>3, <1>8, ReplayEngineAssumption DEF final
<1> QED
  BY <1>1, <1>5, <1>6, <1>7, <1>8 DEF EditorType

\* Every operation gives a result, with an editor that is well formed.
LEMMA DispatchIsOK ==
  ASSUME NEW e, EditorOK(e), NEW c \in Values \cup {Broken}
  PROVE  LET r == Dispatch(e, c)
         IN  /\ r \in ResultType
             /\ EditorOK(r.editor)
             /\ r.ok <=> c # Broken
             /\ ~r.ok => r.editor = e /\ r.code = "COMMAND_INVALID"
             /\ r.ok => /\ r.entry = [id |-> e.issued + 1,
                                      forward |-> [from |-> e.document, to |-> c],
                                      inverse |-> [from |-> c, to |-> e.document]]
                        /\ r.editor.document = c
                        /\ r.editor.issued = e.issued + 1
<1>1. CASE c = Broken
  BY <1>1 DEF Dispatch, Fails, ResultType, CodeType, EditorOK
<1>2. CASE c # Broken
  <2> DEFINE entry == [id |-> e.issued + 1,
                       forward |-> [from |-> e.document, to |-> c],
                       inverse |-> [from |-> c, to |-> e.document]]
             applied == [e EXCEPT !.document = c, !.issued = e.issued + 1]
  <2>1. e \in EditorType /\ c \in Values
    BY <1>2 DEF EditorOK
  <2>2. entry \in EntryType
    BY <2>1 DEF EntryType, PatchType, EditorType
  <2>3. /\ applied \in EditorType /\ applied.entries = e.entries /\ applied.index = e.index
        /\ applied.document = c /\ applied.issued = e.issued + 1
    <3>1. e.issued + 1 \in Nat
      BY <2>1 DEF EditorType
    <3> QED
      BY <2>1, <3>1 DEF EditorType
  <2>4. EditorOK(applied)
    BY <2>3 DEF EditorOK
  <2>5. IsEmptyPatch(entry.forward) <=> c = e.document
    BY DEF IsEmptyPatch
  <2>6. Dispatch(e, c) = Succeeds(IF c = e.document THEN applied ELSE Record(applied, entry), entry)
    BY <1>2, <2>5 DEF Dispatch
  <2>7. /\ Dispatch(e, c).ok = TRUE /\ Dispatch(e, c).code = None /\ Dispatch(e, c).entry = entry
        /\ Dispatch(e, c).editor = IF c = e.document THEN applied ELSE Record(applied, entry)
        /\ Dispatch(e, c) = [ok |-> TRUE, code |-> None, editor |-> Dispatch(e, c).editor, entry |-> entry]
    BY <2>6 DEF Succeeds
  <2> HIDE DEF entry, applied
  <2>8. CASE c = e.document
    BY <1>2, <2>2, <2>3, <2>4, <2>7, <2>8 DEF ResultType, CodeType, EditorOK, entry
  <2>9. CASE c # e.document
    <3>1. LET r == Record(applied, entry)
          IN  /\ EditorOK(r)
              /\ r.document = applied.document /\ r.issued = applied.issued
              /\ Len(r.entries) <= Len(applied.entries) + 1
              /\ applied.index = Len(applied.entries) /\ Len(applied.entries) < HistoryLimit =>
                  /\ Len(r.entries) = Len(applied.entries) + 1
                  /\ r.entries[Len(applied.entries) + 1] = entry
      BY <2>2, <2>4, RecordIsOK
    <3> QED
      BY <1>2, <2>2, <2>3, <2>7, <2>9, <3>1 DEF ResultType, CodeType, EditorOK, entry
  <2> QED
    BY <2>8, <2>9
<1> QED
  BY <1>1, <1>2

\* A command that changes nothing is not recorded.
LEMMA DispatchUnrecorded ==
  ASSUME NEW e, EditorOK(e), NEW c, c # Broken, c = e.document
  PROVE  /\ Dispatch(e, c).editor.entries = e.entries
         /\ Dispatch(e, c).editor.index = e.index
BY DEF Dispatch, Succeeds, IsEmptyPatch, EditorOK, EditorType

\* One that does is the last entry.
LEMMA DispatchRecorded ==
  ASSUME NEW e, EditorOK(e), NEW c \in Values, c # Broken, c # e.document,
         e.index = Len(e.entries), Len(e.entries) < HistoryLimit
  PROVE  /\ Len(Dispatch(e, c).editor.entries) = Len(e.entries) + 1
         /\ Dispatch(e, c).editor.entries[Len(e.entries) + 1] = Dispatch(e, c).entry
<1> DEFINE entry == [id |-> e.issued + 1,
                     forward |-> [from |-> e.document, to |-> c],
                     inverse |-> [from |-> c, to |-> e.document]]
           applied == [e EXCEPT !.document = c, !.issued = e.issued + 1]
<1>1. e \in EditorType
  BY DEF EditorOK
<1>2. e.issued + 1 \in Nat
  BY <1>1 DEF EditorType
<1>3. entry \in EntryType
  BY <1>1, <1>2 DEF EntryType, PatchType, EditorType
<1>4. applied \in EditorType /\ applied.entries = e.entries /\ applied.index = e.index
  BY <1>1, <1>2 DEF EditorType
<1>5. EditorOK(applied)
  BY <1>4 DEF EditorOK
<1>6. /\ Dispatch(e, c).editor = Record(applied, entry)
      /\ Dispatch(e, c).entry = entry
  BY DEF Dispatch, Succeeds, IsEmptyPatch
<1> HIDE DEF entry, applied
<1> QED
  BY <1>3, <1>4, <1>5, <1>6, RecordIsOK

LEMMA EntriesAreTyped ==
  ASSUME NEW e, EditorOK(e), NEW i \in 1 .. Len(e.entries)
  PROVE  /\ e.entries[i] \in EntryType
         /\ e.entries[i].forward.to \in Values /\ e.entries[i].inverse.to \in Values
<1>1. e.entries[i] \in EntryType
  BY DEF EditorOK, EditorType
<1> QED
  BY <1>1 DEF EntryType, PatchType

LEMMA UndoIsOK ==
  ASSUME NEW e, EditorOK(e)
  PROVE  /\ Undo(e) \in ResultType /\ EditorOK(Undo(e).editor)
         /\ Undo(e).ok <=> e.index # 0
         /\ ~Undo(e).ok => Undo(e) = Fails(e, "HISTORY_UNDO_EMPTY")
         /\ Undo(e).ok => /\ Undo(e).entry = e.entries[e.index]
                          /\ Undo(e).editor.entries = e.entries
                          /\ Undo(e).editor.index = e.index - 1
         /\ Undo(e).editor.issued = e.issued
<1>1. CASE e.index = 0
  BY <1>1 DEF Undo, Fails, ResultType, CodeType, EditorOK
<1>2. CASE e.index # 0
  <2>1. e.index \in 1 .. Len(e.entries)
    BY <1>2 DEF EditorOK, EditorType
  <2>2. e.entries[e.index] \in EntryType /\ e.entries[e.index].inverse.to \in Values
    BY <2>1, EntriesAreTyped
  <2>3. e \in EditorType /\ e.index - 1 \in Nat
    BY <2>1 DEF EditorOK, EditorType
  <2> DEFINE next == [e EXCEPT !.document = e.entries[e.index].inverse.to, !.index = e.index - 1]
  <2>4. /\ next \in EditorType /\ next.entries = e.entries /\ next.index = e.index - 1
        /\ next.issued = e.issued
    BY <2>2, <2>3 DEF EditorType
  <2>5. Undo(e) = Succeeds(next, e.entries[e.index])
    BY <1>2 DEF Undo
  <2> HIDE DEF next
  <2> QED
    BY <1>2, <2>1, <2>2, <2>4, <2>5 DEF Succeeds, ResultType, CodeType, EditorOK
<1> QED
  BY <1>1, <1>2

LEMMA RedoIsOK ==
  ASSUME NEW e, EditorOK(e)
  PROVE  /\ Redo(e) \in ResultType /\ EditorOK(Redo(e).editor)
         /\ Redo(e).ok <=> e.index # Len(e.entries)
         /\ ~Redo(e).ok => Redo(e) = Fails(e, "HISTORY_REDO_EMPTY")
         /\ Redo(e).ok => /\ Redo(e).entry = e.entries[e.index + 1]
                          /\ Redo(e).editor.entries = e.entries
                          /\ Redo(e).editor.index = e.index + 1
         /\ Redo(e).editor.issued = e.issued
<1>1. CASE e.index = Len(e.entries)
  BY <1>1 DEF Redo, Fails, ResultType, CodeType, EditorOK
<1>2. CASE e.index # Len(e.entries)
  <2>1. e.index + 1 \in 1 .. Len(e.entries)
    BY <1>2 DEF EditorOK, EditorType
  <2>2. e.entries[e.index + 1] \in EntryType /\ e.entries[e.index + 1].forward.to \in Values
    BY <2>1, EntriesAreTyped
  <2>3. e \in EditorType /\ e.index + 1 \in Nat
    BY <2>1 DEF EditorOK, EditorType
  <2> DEFINE next == [e EXCEPT !.document = e.entries[e.index + 1].forward.to, !.index = e.index + 1]
  <2>4. /\ next \in EditorType /\ next.entries = e.entries /\ next.index = e.index + 1
        /\ next.issued = e.issued
    BY <2>2, <2>3 DEF EditorType
  <2>5. Redo(e) = Succeeds(next, e.entries[e.index + 1])
    BY <1>2 DEF Redo
  <2> HIDE DEF next
  <2> QED
    BY <1>2, <2>1, <2>2, <2>4, <2>5 DEF Succeeds, ResultType, CodeType, EditorOK
<1> QED
  BY <1>1, <1>2

\* The last entry a jump applies.
JumpEntry(e, index) == IF index < e.index THEN e.entries[index + 1] ELSE e.entries[index]

LEMMA JumpIsOK ==
  ASSUME NEW e, EditorOK(e), NEW index \in Nat
  PROVE  /\ JumpTo(e, index) \in ResultType /\ EditorOK(JumpTo(e, index).editor)
         /\ JumpTo(e, index).ok <=> index <= Len(e.entries)
         /\ ~JumpTo(e, index).ok => JumpTo(e, index) = Fails(e, "HISTORY_INDEX_INVALID")
         /\ JumpTo(e, index).ok => /\ JumpTo(e, index).editor.index = index
                                  /\ JumpTo(e, index).editor.entries = e.entries
         /\ index = e.index => JumpTo(e, index) = Succeeds(e, None)
         /\ JumpTo(e, index).ok /\ index # e.index => JumpTo(e, index).entry = JumpEntry(e, index)
         /\ JumpTo(e, index).editor.issued = e.issued
<1> DEFINE r == JumpTo(e, index)
<1>1. e \in EditorType /\ e.index \in 0 .. Len(e.entries) /\ Len(e.entries) \in Nat
  BY DEF EditorOK, EditorType
<1>2. CASE index = e.index
  BY <1>1, <1>2 DEF JumpTo, Succeeds, ResultType, CodeType, EditorOK
<1>3. CASE index \notin 0 .. Len(e.entries)
  <2>1. r = Fails(e, "HISTORY_INDEX_INVALID")
    BY <1>1, <1>3 DEF JumpTo
  <2> QED
    BY <1>1, <1>3, <2>1 DEF Fails, ResultType, CodeType, EditorOK
<1>4. CASE index \in 0 .. e.index - 1
  <2>1. index + 1 \in 1 .. Len(e.entries)
    BY <1>1, <1>4
  <2>2. e.entries[index + 1] \in EntryType /\ e.entries[index + 1].inverse.to \in Values
    BY <2>1, EntriesAreTyped
  <2> DEFINE next == [e EXCEPT !.document = e.entries[index + 1].inverse.to, !.index = index]
  <2>3. r = Succeeds(next, e.entries[index + 1])
    BY <1>1, <1>4 DEF JumpTo
  <2>4. /\ next \in EditorType /\ next.entries = e.entries /\ next.index = index
        /\ next.issued = e.issued
    BY <1>1, <2>2 DEF EditorType
  <2> HIDE DEF next
  <2>5. e.entries[index + 1] = JumpEntry(e, index)
    BY <1>1, <1>4 DEF JumpEntry
  <2> QED
    BY <1>1, <1>4, <2>2, <2>3, <2>4, <2>5 DEF Succeeds, ResultType, CodeType, EditorOK
<1>5. CASE index \in e.index + 1 .. Len(e.entries)
  <2>1. index \in 1 .. Len(e.entries)
    BY <1>1, <1>5
  <2>2. e.entries[index] \in EntryType /\ e.entries[index].forward.to \in Values
    BY <2>1, EntriesAreTyped
  <2> DEFINE next == [e EXCEPT !.document = e.entries[index].forward.to, !.index = index]
  <2>3. r = Succeeds(next, e.entries[index])
    BY <1>1, <1>5 DEF JumpTo
  <2>4. /\ next \in EditorType /\ next.entries = e.entries /\ next.index = index
        /\ next.issued = e.issued
    BY <1>1, <2>2 DEF EditorType
  <2> HIDE DEF next
  <2>5. e.entries[index] = JumpEntry(e, index)
    BY <1>1, <1>5 DEF JumpEntry
  <2> QED
    BY <1>1, <1>5, <2>2, <2>3, <2>4, <2>5 DEF Succeeds, ResultType, CodeType, EditorOK
<1> QED
  BY <1>1, <1>2, <1>3, <1>4, <1>5

-----------------------------------------------------------------------------
(* The log, and what a replay of one event does.                           *)

Event ==
  [sequence: Nat, category: {"document"}, type: {"document.command"}, command: Values,
   status: {"succeeded"}, transaction: EntryType, afterHash: Values]
  \cup [sequence: Nat, category: {"document"}, type: {"document.command"},
        command: Values \cup {Broken}, status: {"failed"}, code: CodeType]
  \cup [sequence: Nat, category: {"history"}, type: {"history.undo", "history.redo", "history.jump"},
        index: Nat, code: CodeType, status: {"succeeded", "failed"}, transactionId: Nat \cup {None}]
  \cup [sequence: Nat, category: {"session"}, type: {"session"}, status: {"observed"},
        field: SessionFields, value: Int]
  \cup [sequence: Nat, category: {"workspace"}, type: {"workspace.layout.changed"},
        status: {"observed"}, layout: {"changed"}]
  \cup [sequence: Nat, category: {"workspace"}, type: PanelEvents, status: {"observed"}, panel: {"log"}]
  \cup [sequence: Nat, category: {"system"}, type: {"system.checkpoint"}, status: {"observed"}]

SessionType == [SessionFields -> Int]

\* The page before and after each kind of event.
CommandStep(event, before, after) ==
  \E command \in Values \cup {Broken} :
    /\ event = CommandEvent(event.sequence, command, Dispatch(before.editor, command))
    /\ after.editor = Dispatch(before.editor, command).editor
    /\ after.session = before.session

HistoryStep(event, before, after) ==
  \E type \in {"history.undo", "history.redo", "history.jump"}, index \in Nat :
    LET result == HistoryMove(before.editor, [type |-> type, index |-> index])
    IN  /\ event = HistoryEvent(event.sequence, type, result)
        /\ after.editor = result.editor
        /\ after.session = before.session

SessionStep(event, before, after) ==
  \E field \in SessionFields, value \in Int :
    /\ event = SessionEvent(event.sequence, field, value)
    /\ after.editor = before.editor
    /\ after.session = [before.session EXCEPT ![field] = value]

OtherStep(event, before, after) ==
  /\ \/ \E type \in PanelEvents : event = WorkspaceEvent(event.sequence, type)
     \/ event = CheckpointEvent(event.sequence)
  /\ after.editor = before.editor
  /\ after.session = before.session

LogStep(event, before, after) ==
  \/ CommandStep(event, before, after)
  \/ HistoryStep(event, before, after)
  \/ SessionStep(event, before, after)
  \/ OtherStep(event, before, after)

\* A new history entry drops old ones.
Cuts(e) == e.index < Len(e.entries) \/ Len(e.entries) = HistoryLimit

\* A session has the known fields of the page, or of the one that was seen.
SessionFollows(s, at, seen, startedAt) ==
  /\ s \in SessionType
  /\ \A field \in KnownFields(startedAt) :
       s[field] = at.session[field] \/ s[field] = seen.session[field]

\* The isolated parts of an engine follow the page: from the first checkpoint all of
\* the editor; from a later one a document without a history, which is the one seen
\* in the snapshot while that is ahead of the events.
Follows(parts, at, seen, startedAt) ==
  /\ EditorOK(parts.editor)
  /\ SessionFollows(parts.session, at, seen, startedAt)
  /\ IF startedAt = 0 THEN parts.editor = at.editor
     ELSE /\ parts.editor.document = seen.editor.document
          /\ parts.editor.entries = << >>
          /\ parts.editor.index = 0
          /\ parts.editor.issued < at.editor.issued

\* The pages an engine has seen before and after an event: the page's own, or the
\* snapshot's that is ahead.
Shows(before, after, seen, sees, startedAt, ahead) ==
  IF ahead THEN startedAt # 0 /\ sees = seen ELSE seen = before /\ sees = after

\* Unreplayable, of an event before which the editor was e.
Excused(event, startedAt, ahead, e) ==
  \/ event.category = "session" /\ event.field \notin ReplayedFields
  \/ event.type = "history.jump" /\ event.status = "failed"
  \/ /\ event.category = "document" /\ event.status = "succeeded"
     /\ \/ /\ ~IsEmptyPatch(event.transaction.forward)
           /\ Cuts(e) \/ startedAt > 0
        \/ ahead
  \/ event.category = "history" /\ startedAt > 0

IsParts(parts) == DOMAIN parts = {"editor", "session", "workspace"}

Finding == [type: DifferenceType, sequence: Nat] \cup {None}

\* What a replayed event shows: a difference only if it is excused, and else the
\* parts follow the page.
Replays(event, handled, before, after, sees, startedAt, ahead) ==
  /\ IsParts(handled.parts)
  /\ handled.difference = None =>
       /\ Follows(handled.parts, after, sees, startedAt)
       /\ event.category = "document" /\ event.status = "succeeded" =>
            handled.parts.editor.document = event.afterHash
  /\ handled.difference # None => Excused(event, startedAt, ahead, before.editor)

LEMMA SessionStays ==
  ASSUME NEW s, NEW before, NEW after, NEW seen, NEW sees, NEW startedAt, NEW ahead \in BOOLEAN,
         Shows(before, after, seen, sees, startedAt, ahead), after.session = before.session,
         SessionFollows(s, before, seen, startedAt)
  PROVE  SessionFollows(s, after, sees, startedAt)
BY DEF SessionFollows, Shows

LEMMA DifferencesDiffer ==
  ASSUME NEW parts, NEW event, event.sequence \in Nat, NEW type \in DifferenceType
  PROVE  /\ Differs(parts, event, type).difference # None
         /\ Differs(parts, event, type).parts = parts
         /\ Differs(parts, event, type).difference.sequence = event.sequence
         /\ Differs(parts, event, type).difference \in Finding
BY NoneAssumption DEF Differs, Finding

LEMMA CommandIsReplayed ==
  ASSUME NEW event, event.sequence \in Nat, NEW before, NEW after, NEW parts, NEW startedAt \in Nat,
         NEW seen, NEW sees, NEW ahead \in BOOLEAN, Shows(before, after, seen, sees, startedAt, ahead),
         EditorOK(before.editor), CommandStep(event, before, after),
         IsParts(parts), Follows(parts, before, seen, startedAt)
  PROVE  Replays(event, HandleDocumentCommand(event, parts), before, after, sees, startedAt, ahead)
<1>1. PICK command \in Values \cup {Broken} :
        /\ event = CommandEvent(event.sequence, command, Dispatch(before.editor, command))
        /\ after.editor = Dispatch(before.editor, command).editor
        /\ after.session = before.session
  BY DEF CommandStep
<1> DEFINE shown == Dispatch(before.editor, command)
           result == Dispatch(parts.editor, command)
           next == [parts EXCEPT !.editor = result.editor]
           actual == NewTransaction(parts.editor, result.editor)
           handled == HandleDocumentCommand(event, parts)
<1>2. EditorOK(parts.editor) /\ SessionFollows(parts.session, after, sees, startedAt)
  <2>1. SessionFollows(parts.session, before, seen, startedAt)
    BY DEF Follows
  <2> QED
    BY <1>1, <2>1, SessionStays DEF Follows
<1>3. /\ event.command = command
      /\ event.category = "document"
      /\ event.type = "document.command"
  BY <1>1 DEF CommandEvent
<1>4. /\ IsParts(next) /\ next.editor = result.editor /\ next.session = parts.session
  BY DEF IsParts
<1>5. /\ EditorOK(result.editor)
      /\ result.ok <=> command # Broken
      /\ shown.ok <=> command # Broken
  BY <1>2, DispatchIsOK
<1>6. CASE command = Broken
  <2>1. /\ result.editor = parts.editor /\ result.code = "COMMAND_INVALID"
        /\ shown.editor = before.editor /\ shown.code = "COMMAND_INVALID" /\ ~result.ok /\ ~shown.ok
    BY <1>2, <1>6, DispatchIsOK
  <2>2. event.status = "failed" /\ event.code = "COMMAND_INVALID"
    BY <1>1, <2>1 DEF CommandEvent
  <2>3. handled = Agrees(next)
    BY <1>3, <2>1, <2>2 DEF HandleDocumentCommand
  <2>4. Follows(next, after, sees, startedAt)
    <3>1. startedAt # 0 => sees.editor.document = seen.editor.document
      BY <1>1, <2>1 DEF Shows
    <3> QED
      BY <1>1, <1>2, <1>4, <2>1, <3>1 DEF Follows
  <2>5. handled.parts = next /\ handled.difference = None
    BY <2>3 DEF Agrees
  <2> HIDE DEF next
  <2> QED
    BY <1>4, <2>2, <2>4, <2>5 DEF Replays
<1>7. CASE command # Broken
  <2>1. /\ result.ok /\ shown.ok
        /\ event.status = "succeeded"
        /\ event.transaction = shown.entry
        /\ event.afterHash = shown.editor.document
    BY <1>1, <1>5, <1>7 DEF CommandEvent
  <2>2. /\ result.editor.document = command /\ shown.editor.document = command
        /\ result.editor.issued = parts.editor.issued + 1
        /\ shown.editor.issued = before.editor.issued + 1
        /\ result.entry = [id |-> parts.editor.issued + 1,
                           forward |-> [from |-> parts.editor.document, to |-> command],
                           inverse |-> [from |-> command, to |-> parts.editor.document]]
        /\ shown.entry = [id |-> before.editor.issued + 1,
                          forward |-> [from |-> before.editor.document, to |-> command],
                          inverse |-> [from |-> command, to |-> before.editor.document]]
    BY <1>2, <2>1, DispatchIsOK
  <2>3. parts.editor.issued \in Nat /\ before.editor.issued \in Nat
    BY <1>2 DEF EditorOK, EditorType
  <2>4. IsEmptyPatch(event.transaction.forward) <=> command = before.editor.document
    BY <2>1, <2>2 DEF IsEmptyPatch
  <2>5. handled = IF actual = None
                  THEN IF IsEmptyPatch(event.transaction.forward) THEN Agrees(next)
                       ELSE Differs(next, event, "command-mismatch")
                  ELSE IF actual.forward # event.transaction.forward
                          \/ actual.inverse # event.transaction.inverse
                       THEN Differs(next, event, "patch-mismatch")
                       ELSE IF actual.id # event.transaction.id
                            THEN Differs(next, event, "command-mismatch")
                            ELSE Agrees(next)
    BY <1>3, <2>1 DEF HandleDocumentCommand
  <2>6. /\ IsParts(handled.parts) /\ handled.parts = next
    BY <1>4, <2>5 DEF Agrees, Differs
  <2>7. "patch-mismatch" \in DifferenceType /\ "command-mismatch" \in DifferenceType
    BY DEF DifferenceType
  <2>8. startedAt = 0 => parts.editor = before.editor /\ ~ahead /\ result = shown
    BY DEF Follows, Shows
  <2>9. startedAt # 0 => /\ parts.editor.document = seen.editor.document
                         /\ parts.editor.entries = << >> /\ parts.editor.index = 0
                         /\ parts.editor.issued < before.editor.issued
    BY DEF Follows
  <2>10. CASE command = parts.editor.document
    <3>1. /\ result.editor.entries = parts.editor.entries
          /\ result.editor.index = parts.editor.index
      BY <1>2, <1>7, <2>10, DispatchUnrecorded
    <3>2. actual = None
      BY <1>2, <3>1 DEF NewTransaction, EditorOK, EditorType
    <3>3. handled = IF IsEmptyPatch(event.transaction.forward) THEN Agrees(next)
                    ELSE Differs(next, event, "command-mismatch")
      BY <2>5, <3>2
    <3>4. Follows(next, after, sees, startedAt)
      <4>1. CASE startedAt = 0
        BY <1>1, <1>2, <1>4, <1>5, <2>8, <4>1 DEF Follows
      <4>2. CASE startedAt # 0
        <5>1. sees.editor.document = command
          BY <1>1, <2>2, <2>9, <2>10, <4>2 DEF Shows
        <5> QED
          BY <1>1, <1>2, <1>4, <1>5, <2>2, <2>3, <2>9, <3>1, <4>2, <5>1 DEF Follows
      <4> QED
        BY <4>1, <4>2
    <3>5. next.editor.document = event.afterHash
      BY <1>4, <2>1, <2>2
    <3>6. CASE command = before.editor.document
      <4>1. handled.difference = None
        BY <2>4, <3>3, <3>6 DEF Agrees
      <4> HIDE DEF next
      <4> QED
        BY <2>6, <3>4, <3>5, <4>1 DEF Replays
    <3>7. CASE command # before.editor.document
      <4>1. handled.difference # None
        BY <2>4, <2>7, <3>3, <3>7, DifferencesDiffer
      <4>2. startedAt # 0
        BY <2>8, <2>10, <3>7
      <4>3. Excused(event, startedAt, ahead, before.editor)
        BY <1>3, <2>1, <2>4, <3>7, <4>2 DEF Excused
      <4> HIDE DEF next
      <4> QED
        BY <2>6, <4>1, <4>3 DEF Replays
    <3> QED
      BY <3>6, <3>7
  <2>11. CASE command # parts.editor.document /\ startedAt = 0
    <3>1. parts.editor = before.editor /\ result = shown
      BY <2>8, <2>11
    <3>2. Follows(next, after, sees, startedAt)
      BY <1>1, <1>2, <1>4, <1>5, <2>11, <3>1 DEF Follows
    <3>3. ASSUME ~Cuts(before.editor) PROVE handled = Agrees(next)
      <4>1. /\ before.editor.index = Len(before.editor.entries)
            /\ Len(before.editor.entries) < HistoryLimit
        BY <3>3, ReplayEngineAssumption DEF Cuts, EditorOK, EditorType
      <4>2. /\ Len(result.editor.entries) = Len(parts.editor.entries) + 1
            /\ result.editor.entries[Len(parts.editor.entries) + 1] = result.entry
        BY <1>2, <1>7, <2>11, <3>1, <4>1, DispatchRecorded
      <4>3. actual = result.entry
        BY <1>2, <4>2 DEF NewTransaction, EditorOK, EditorType
      <4>4. result.entry \in EntryType \cup {None} /\ result.entry # None
        <5>1. result.entry \in EntryType
          BY <1>2, <1>7, <2>2, <2>3 DEF EntryType, PatchType, EditorOK, EditorType
        <5> QED
          BY <5>1, NoneAssumption DEF EntryType, PatchType
      <4> QED
        BY <2>1, <2>5, <3>1, <4>3, <4>4
    <3>4. handled.difference # None => Excused(event, startedAt, ahead, before.editor)
      BY <1>3, <2>1, <2>4, <2>11, <3>1, <3>3 DEF Excused, Agrees
    <3> QED
      BY <1>4, <2>1, <2>2, <2>6, <3>2, <3>4 DEF Replays
  <2>12. CASE command # parts.editor.document /\ startedAt # 0
    <3>1. /\ parts.editor.entries = << >> /\ parts.editor.index = 0
          /\ parts.editor.issued < before.editor.issued
      BY <2>9, <2>12
    <3>2. /\ Len(parts.editor.entries) = 0 /\ Len(parts.editor.entries) < HistoryLimit
      BY <3>1, ReplayEngineAssumption
    <3>3. /\ Len(result.editor.entries) = 1
          /\ result.editor.entries[1] = result.entry
      <4>1. /\ parts.editor.index = Len(parts.editor.entries)
            /\ command \in Values /\ command # parts.editor.document
        BY <1>2, <1>7, <2>12, <3>1, <3>2
      <4>2. /\ Len(result.editor.entries) = Len(parts.editor.entries) + 1
            /\ result.editor.entries[Len(parts.editor.entries) + 1] = result.entry
        BY <1>2, <1>7, <3>2, <4>1, DispatchRecorded
      <4> QED
        BY <3>2, <4>2
    <3>4. actual = result.entry
      BY <3>2, <3>3 DEF NewTransaction
    <3>5. result.entry # None
      <4>1. result.entry \in EntryType
        BY <1>2, <1>7, <2>2, <2>3 DEF EntryType, PatchType, EditorOK, EditorType
      <4> QED
        BY <4>1, NoneAssumption DEF EntryType, PatchType
    <3>6. actual.id # event.transaction.id
      BY <2>1, <2>2, <2>3, <3>1, <3>4
    <3>7. handled.difference # None
      BY <2>5, <2>7, <3>4, <3>5, <3>6, DifferencesDiffer
    <3>8. Excused(event, startedAt, ahead, before.editor)
      <4>1. ahead \/ command # before.editor.document
        BY <2>9, <2>12 DEF Shows
      <4> QED
        BY <1>3, <2>1, <2>4, <2>12, <4>1 DEF Excused
    <3> QED
      BY <2>6, <3>7, <3>8 DEF Replays
  <2> QED
    BY <2>10, <2>11, <2>12
<1> QED
  BY <1>6, <1>7


-----------------------------------------------------------------------------
(* A move in the history.                                                  *)

InHistory(event, e) == event.type = "history.jump" => event.index \in 0 .. Len(e.entries)

\* The isolated editor's move gives what was recorded.
Matches(event, e, result) ==
  IF event.status = "failed" THEN ~result.ok /\ result.code = event.code
  ELSE /\ result.ok
       /\ result.editor.index = event.index
       /\ event.transactionId = None \/ MovedTransaction(e, result.editor, event) = event.transactionId

LEMMA MatchingMoveAgrees ==
  ASSUME NEW event, NEW parts, InHistory(event, parts.editor),
         Matches(event, parts.editor, HistoryMove(parts.editor, event))
  PROVE  HandleHistoryOperation(event, parts)
           = Agrees([parts EXCEPT !.editor = HistoryMove(parts.editor, event).editor])
BY DEF HandleHistoryOperation, InHistory, Matches

LEMMA AgreedMoveMatches ==
  ASSUME NEW event, event.sequence \in Nat, NEW parts,
         HandleHistoryOperation(event, parts).difference = None
  PROVE  /\ InHistory(event, parts.editor)
         /\ Matches(event, parts.editor, HistoryMove(parts.editor, event))
         /\ HandleHistoryOperation(event, parts)
              = Agrees([parts EXCEPT !.editor = HistoryMove(parts.editor, event).editor])
<1>1. "schema-incompatible" \in DifferenceType /\ "command-mismatch" \in DifferenceType
  BY DEF DifferenceType
<1> QED
  BY <1>1, DifferencesDiffer DEF HandleHistoryOperation, InHistory, Matches

\* What a move in a well-formed editor gives.
LEMMA MoveIsOK ==
  ASSUME NEW e, EditorOK(e), NEW event, event.index \in Nat,
         event.type \in {"history.undo", "history.redo", "history.jump"}
  PROVE  /\ HistoryMove(e, event) \in ResultType /\ EditorOK(HistoryMove(e, event).editor)
         /\ ~HistoryMove(e, event).ok => /\ HistoryMove(e, event).editor = e
                                         /\ HistoryMove(e, event).entry = None
         /\ HistoryMove(e, event).editor.issued = e.issued
<1>1. CASE event.type = "history.undo"
  BY <1>1, UndoIsOK DEF HistoryMove, Fails
<1>2. CASE event.type = "history.redo"
  BY <1>2, RedoIsOK DEF HistoryMove, Fails
<1>3. CASE event.type = "history.jump"
  <2>1. HistoryMove(e, event) = JumpTo(e, event.index)
    BY <1>3 DEF HistoryMove
  <2> QED
    BY <2>1, JumpIsOK DEF Fails
<1> QED
  BY <1>1, <1>2, <1>3

\* The entry a move reports is the one that is looked up when it is replayed.
LEMMA MovedIsReported ==
  ASSUME NEW e, EditorOK(e), NEW event, event.index \in Nat,
         event.type \in {"history.undo", "history.redo", "history.jump"},
         HistoryMove(e, event).ok, HistoryMove(e, event).entry # None
  PROVE  MovedTransaction(e, HistoryMove(e, event).editor, event) = HistoryMove(e, event).entry.id
<1> DEFINE r == HistoryMove(e, event)
<1>1. e.index \in 0 .. Len(e.entries) /\ DOMAIN e.entries = 1 .. Len(e.entries) /\ Len(e.entries) \in Nat
  BY DEF EditorOK, EditorType
<1>2. CASE event.type = "history.undo"
  <2>1. r = Undo(e)
    BY <1>2 DEF HistoryMove
  <2>2. r.editor.entries = e.entries /\ r.entry = e.entries[e.index] /\ e.index \in 1 .. Len(e.entries)
    BY <1>1, <2>1, UndoIsOK
  <2> HIDE DEF r
  <2>3. MovedTransaction(e, r.editor, event) = r.entry.id
    BY <1>1, <1>2, <2>2 DEF MovedTransaction
  <2> QED
    BY <2>3 DEF r
<1>3. CASE event.type = "history.redo"
  <2>1. r = Redo(e)
    BY <1>3 DEF HistoryMove
  <2>2. /\ r.editor.entries = e.entries /\ r.entry = e.entries[e.index + 1]
        /\ e.index + 1 \in 1 .. Len(e.entries)
    BY <1>1, <2>1, RedoIsOK
  <2> HIDE DEF r
  <2>3. MovedTransaction(e, r.editor, event) = r.entry.id
    BY <1>1, <1>3, <2>2 DEF MovedTransaction
  <2> QED
    BY <2>3 DEF r
<1>4. CASE event.type = "history.jump"
  <2>1. r = JumpTo(e, event.index)
    BY <1>4 DEF HistoryMove
  <2>2. event.index # e.index
    BY <2>1, JumpIsOK DEF Succeeds
  <2>3. /\ r.editor.entries = e.entries /\ r.entry = JumpEntry(e, event.index)
        /\ event.index \in 0 .. Len(e.entries)
    <3>1. JumpTo(e, event.index).ok
      BY <2>1
    <3>2. /\ JumpTo(e, event.index).editor.entries = e.entries
          /\ JumpTo(e, event.index).entry = JumpEntry(e, event.index)
          /\ event.index <= Len(e.entries)
      BY <2>2, <3>1, JumpIsOK
    <3> QED
      BY <1>1, <2>1, <3>2
  <2> HIDE DEF r
  <2>4. CASE event.index < e.index
    <3>1. event.index + 1 \in 1 .. Len(e.entries)
      BY <1>1, <2>3, <2>4
    <3>2. MovedTransaction(e, r.editor, event) = e.entries[event.index + 1].id
      BY <1>1, <1>4, <2>3, <2>4, <3>1 DEF MovedTransaction
    <3> QED
      BY <2>3, <2>4, <3>2 DEF JumpEntry, r
  <2>5. CASE event.index > e.index
    <3>1. event.index \in 1 .. Len(e.entries) /\ ~(event.index < e.index)
      BY <1>1, <2>3, <2>5
    <3>2. MovedTransaction(e, r.editor, event) = e.entries[event.index].id
      BY <1>1, <1>4, <2>3, <2>5, <3>1 DEF MovedTransaction
    <3> QED
      BY <2>3, <3>1, <3>2 DEF JumpEntry, r
  <2> QED
    BY <1>1, <2>2, <2>3, <2>4, <2>5
<1> QED
  BY <1>2, <1>3, <1>4

\* From the first checkpoint the isolated editor is the page's.
LEMMA HistoryIsReplayedFromStart ==
  ASSUME NEW event, event.sequence \in Nat, NEW before, NEW parts,
         EditorOK(parts.editor), parts.editor = before.editor,
         NEW type \in {"history.undo", "history.redo", "history.jump"}, NEW index \in Nat,
         event = HistoryEvent(event.sequence, type,
                              HistoryMove(before.editor, [type |-> type, index |-> index])),
         ~(type = "history.jump" /\ event.status = "failed")
  PROVE  /\ HandleHistoryOperation(event, parts)
              = Agrees([parts EXCEPT !.editor = HistoryMove(parts.editor, event).editor])
         /\ HistoryMove(parts.editor, event)
              = HistoryMove(before.editor, [type |-> type, index |-> index])
<1> DEFINE move == [type |-> type, index |-> index]
           shown == HistoryMove(before.editor, move)
<1>1. /\ event.type = type
      /\ event.index = shown.editor.index
      /\ event.code = shown.code
      /\ event.status = IF shown.ok THEN "succeeded" ELSE "failed"
      /\ event.transactionId = IF shown.entry = None THEN None ELSE shown.entry.id
  BY DEF HistoryEvent
<1>2. /\ shown \in ResultType /\ EditorOK(shown.editor)
      /\ ~shown.ok => shown.editor = parts.editor /\ shown.entry = None
  BY MoveIsOK
<1>3. shown.editor.index \in Nat /\ shown.ok \in BOOLEAN
  BY <1>2 DEF EditorOK, EditorType, ResultType
<1>4. HistoryMove(parts.editor, event) = shown /\ InHistory(event, parts.editor)
  <2>1. CASE type \in {"history.undo", "history.redo"}
    BY <1>1, <2>1 DEF HistoryMove, InHistory
  <2>2. CASE type = "history.jump"
    <3>1. shown = JumpTo(before.editor, index)
      BY <2>2 DEF HistoryMove
    <3>2. shown.ok
      BY <1>1, <1>3, <2>2
    <3>3. JumpTo(before.editor, index).ok
      BY <3>1, <3>2
    <3>4. JumpTo(before.editor, index).editor.index = index /\ index <= Len(before.editor.entries)
      BY <3>3, JumpIsOK
    <3>5. event.index = index
      BY <1>1, <3>1, <3>4
    <3> QED
      BY <1>1, <2>2, <3>1, <3>4, <3>5 DEF HistoryMove, InHistory, EditorOK, EditorType
  <2> QED
    BY <2>1, <2>2
<1>5. Matches(event, parts.editor, shown)
  <2> HIDE DEF shown
  <2>1. CASE ~shown.ok
    BY <1>1, <2>1 DEF Matches
  <2>2. CASE shown.ok
    <3>1. shown.entry # None => MovedTransaction(parts.editor, shown.editor, event) = shown.entry.id
      BY <1>1, <1>3, <1>4, <2>2, MovedIsReported
    <3> QED
      BY <1>1, <2>2, <3>1 DEF Matches
  <2> QED
    BY <2>1, <2>2
<1> QED
  BY <1>4, <1>5, MatchingMoveAgrees

\* From a later checkpoint there is no history: a move agrees only if the page's
\* editor stayed as it was.
LEMMA HistoryIsReplayedLater ==
  ASSUME NEW event, event.sequence \in Nat, NEW before, NEW parts,
         EditorOK(before.editor), EditorOK(parts.editor),
         parts.editor.entries = << >>, parts.editor.index = 0,
         NEW type \in {"history.undo", "history.redo", "history.jump"}, NEW index \in Nat,
         event = HistoryEvent(event.sequence, type,
                              HistoryMove(before.editor, [type |-> type, index |-> index])),
         HandleHistoryOperation(event, parts).difference = None
  PROVE  /\ HistoryMove(parts.editor, event).editor = parts.editor
         /\ HistoryMove(before.editor, [type |-> type, index |-> index]).editor = before.editor
<1> DEFINE move == [type |-> type, index |-> index]
           shown == HistoryMove(before.editor, move)
           result == HistoryMove(parts.editor, event)
<1>1. /\ event.type = type
      /\ event.index = shown.editor.index
      /\ event.status = IF shown.ok THEN "succeeded" ELSE "failed"
      /\ event.transactionId = IF shown.entry = None THEN None ELSE shown.entry.id
  BY DEF HistoryEvent
<1>2. /\ shown \in ResultType /\ EditorOK(shown.editor)
      /\ ~shown.ok => shown.editor = before.editor /\ shown.entry = None
  BY MoveIsOK
<1>3. shown.editor.index \in Nat
  BY <1>2 DEF EditorOK, EditorType
<1>4. InHistory(event, parts.editor) /\ Matches(event, parts.editor, result)
  BY AgreedMoveMatches
<1>5. result.editor = parts.editor
  <2>1. CASE type = "history.undo"
    BY <1>1, <2>1 DEF HistoryMove, Undo, Fails
  <2>2. CASE type = "history.redo"
    BY <1>1, <2>2 DEF HistoryMove, Redo, Fails
  <2>3. CASE type = "history.jump"
    <3>1. event.index = 0
      BY <1>1, <1>4, <2>3 DEF InHistory
    <3> QED
      BY <1>1, <2>3, <3>1 DEF HistoryMove, JumpTo, Succeeds
  <2> QED
    BY <2>1, <2>2, <2>3
<1>6. CASE ~shown.ok
  BY <1>2, <1>5, <1>6
<1>7. CASE shown.ok
  <2>1. event.status # "failed"
    BY <1>1, <1>7
  <2>2. result.ok
    BY <1>4, <2>1 DEF Matches
  <2>3. type = "history.jump"
    <3>1. type # "history.undo"
      BY <1>1, <2>2 DEF HistoryMove, Undo, Fails
    <3>2. type # "history.redo"
      BY <1>1, <2>2 DEF HistoryMove, Redo, Fails
    <3> QED
      BY <3>1, <3>2
  <2>4. event.index = 0
    BY <1>1, <1>4, <2>3 DEF InHistory
  <2>5. event.transactionId = None
    <3>1. MovedTransaction(parts.editor, result.editor, event) = None
      BY <1>1, <1>5, <2>3, <2>4 DEF MovedTransaction
    <3> QED
      BY <1>4, <2>1, <3>1 DEF Matches
  <2>6. shown = JumpTo(before.editor, index)
    BY <2>3 DEF HistoryMove
  <2>7. JumpTo(before.editor, index).ok
    BY <1>7, <2>6
  <2>8. index = 0
    <3>1. JumpTo(before.editor, index).editor.index = index
      BY <2>7, JumpIsOK
    <3> QED
      BY <1>1, <2>4, <2>6, <3>1
  <2>9. index = before.editor.index
    <3>1. SUFFICES ASSUME index # before.editor.index PROVE FALSE
      OBVIOUS
    <3>2. JumpTo(before.editor, index).entry = before.editor.entries[1] /\ 1 \in 1 .. Len(before.editor.entries)
      <4>1. JumpTo(before.editor, index).entry = JumpEntry(before.editor, index)
        BY <2>7, <3>1, JumpIsOK
      <4> QED
        BY <2>8, <3>1, <4>1 DEF JumpEntry, EditorOK, EditorType
    <3>3. shown.entry \in EntryType
      BY <2>6, <3>2, EntriesAreTyped
    <3>4. shown.entry # None /\ shown.entry.id \in Nat
      BY <3>3, NoneAssumption DEF EntryType, PatchType
    <3> QED
      BY <1>1, <2>5, <3>4, NoneAssumption
  <2>10. JumpTo(before.editor, index) = Succeeds(before.editor, None)
    BY <2>9, JumpIsOK
  <2> QED
    BY <1>5, <2>6, <2>10 DEF Succeeds
<1> QED
  BY <1>6, <1>7

LEMMA HistoryIsReplayed ==
  ASSUME NEW event, event.sequence \in Nat, NEW before, NEW after, NEW parts, NEW startedAt \in Nat,
         NEW seen, NEW sees, NEW ahead \in BOOLEAN, Shows(before, after, seen, sees, startedAt, ahead),
         EditorOK(before.editor), HistoryStep(event, before, after),
         IsParts(parts), Follows(parts, before, seen, startedAt)
  PROVE  Replays(event, HandleHistoryOperation(event, parts), before, after, sees, startedAt, ahead)
<1>1. PICK type \in {"history.undo", "history.redo", "history.jump"}, index \in Nat :
        LET result == HistoryMove(before.editor, [type |-> type, index |-> index])
        IN  /\ event = HistoryEvent(event.sequence, type, result)
            /\ after.editor = result.editor
            /\ after.session = before.session
  BY DEF HistoryStep
<1> DEFINE shown == HistoryMove(before.editor, [type |-> type, index |-> index])
           next == [parts EXCEPT !.editor = HistoryMove(parts.editor, event).editor]
           handled == HandleHistoryOperation(event, parts)
<1>2. /\ event.type = type /\ event.category = "history"
      /\ event.index = shown.editor.index
  BY <1>1 DEF HistoryEvent
<1>3. EditorOK(parts.editor) /\ SessionFollows(parts.session, after, sees, startedAt)
  <2>1. SessionFollows(parts.session, before, seen, startedAt)
    BY DEF Follows
  <2> QED
    BY <1>1, <2>1, SessionStays DEF Follows
<1>4. /\ IsParts(next) /\ next.editor = HistoryMove(parts.editor, event).editor
      /\ next.session = parts.session
  BY DEF IsParts
<1>5. IsParts(handled.parts)
  BY <1>4 DEF HandleHistoryOperation, Agrees, Differs
<1>6. EditorOK(shown.editor) /\ shown.editor.issued = before.editor.issued /\ event.index \in Nat
  BY <1>2, MoveIsOK DEF EditorOK, EditorType
<1>7. EditorOK(next.editor)
  BY <1>2, <1>3, <1>4, <1>6, MoveIsOK
<1>8. ASSUME handled.difference = None, Follows(next, after, sees, startedAt)
      PROVE  Replays(event, handled, before, after, sees, startedAt, ahead)
  <2>1. handled.parts = next
    BY <1>8, AgreedMoveMatches DEF Agrees
  <2> HIDE DEF next
  <2> QED
    BY <1>2, <1>5, <1>8, <2>1 DEF Replays
<1>9. CASE startedAt = 0
  <2>1. parts.editor = before.editor
    BY <1>9 DEF Follows
  <2>2. CASE type = "history.jump" /\ event.status = "failed"
    <3>1. Excused(event, startedAt, ahead, before.editor)
      BY <1>2, <2>2 DEF Excused
    <3>2. handled.difference # None
      <4>1. SUFFICES ASSUME handled.difference = None PROVE FALSE
        OBVIOUS
      <4>2. Matches(event, parts.editor, HistoryMove(parts.editor, event)) /\ InHistory(event, parts.editor)
        BY <4>1, AgreedMoveMatches
      <4>3. HistoryMove(parts.editor, event) = JumpTo(parts.editor, event.index)
        BY <1>2, <2>2 DEF HistoryMove
      <4>4. ~JumpTo(parts.editor, event.index).ok
        BY <2>2, <4>2, <4>3 DEF Matches
      <4>5. ~(event.index <= Len(parts.editor.entries))
        BY <1>3, <1>6, <4>4, JumpIsOK
      <4> QED
        BY <1>2, <2>2, <4>2, <4>5 DEF InHistory
    <3> QED
      BY <1>5, <3>1, <3>2 DEF Replays
  <2>3. CASE ~(type = "history.jump" /\ event.status = "failed")
    <3>1. handled = Agrees(next) /\ HistoryMove(parts.editor, event) = shown
      BY <1>1, <1>3, <2>1, <2>3, HistoryIsReplayedFromStart
    <3>2. Follows(next, after, sees, startedAt)
      BY <1>1, <1>3, <1>4, <1>7, <1>9, <3>1 DEF Follows
    <3>3. handled.difference = None
      BY <3>1 DEF Agrees
    <3> QED
      BY <1>8, <3>2, <3>3
  <2> QED
    BY <2>2, <2>3
<1>10. CASE startedAt # 0
  <2>1. Excused(event, startedAt, ahead, before.editor)
    BY <1>2, <1>10 DEF Excused
  <2>2. CASE handled.difference # None
    BY <1>5, <2>1, <2>2 DEF Replays
  <2>3. CASE handled.difference = None
    <3>1. /\ parts.editor.entries = << >> /\ parts.editor.index = 0
          /\ parts.editor.issued < before.editor.issued
          /\ parts.editor.document = seen.editor.document
      BY <1>10 DEF Follows
    <3>2. next.editor = parts.editor /\ shown.editor = before.editor
      BY <1>1, <1>3, <1>4, <2>3, <3>1, HistoryIsReplayedLater
    <3>3. sees.editor.document = seen.editor.document
      BY <1>1, <3>2 DEF Shows
    <3>4. Follows(next, after, sees, startedAt)
      BY <1>1, <1>3, <1>4, <1>7, <1>10, <3>1, <3>2, <3>3 DEF Follows
    <3> QED
      BY <1>8, <2>3, <3>4
  <2> QED
    BY <2>2, <2>3
<1> QED
  BY <1>9, <1>10

-----------------------------------------------------------------------------
(* The other events, and any event.                                        *)

LEMMA SessionIsReplayed ==
  ASSUME NEW event, event.sequence \in Nat, NEW before, NEW after, NEW parts, NEW startedAt \in Nat,
         NEW seen, NEW sees, NEW ahead \in BOOLEAN, Shows(before, after, seen, sees, startedAt, ahead),
         before.session \in SessionType, SessionStep(event, before, after),
         IsParts(parts), Follows(parts, before, seen, startedAt)
  PROVE  Replays(event, Handle(event, parts), before, after, sees, startedAt, ahead)
<1>1. PICK field \in SessionFields, value \in Int :
        /\ event = SessionEvent(event.sequence, field, value)
        /\ after.editor = before.editor
        /\ after.session = [before.session EXCEPT ![field] = value]
  BY DEF SessionStep
<1>2. event.category = "session" /\ event.field = field /\ event.value = value
  BY <1>1 DEF SessionEvent
<1>3. CASE field \in ReplayedFields
  <2> DEFINE next == [parts EXCEPT !.session = [parts.session EXCEPT ![field] = value]]
  <2>1. Handle(event, parts) = Agrees(next)
    BY <1>2, <1>3 DEF Handle, HandleSessionOperation
  <2>2. /\ IsParts(next) /\ next.editor = parts.editor
        /\ next.session = [parts.session EXCEPT ![field] = value]
    BY DEF IsParts
  <2>3. Handle(event, parts).parts = next /\ Handle(event, parts).difference = None
    BY <2>1 DEF Agrees
  <2> HIDE DEF next
  <2>4. SessionFollows(next.session, after, sees, startedAt)
    <3>1. SessionFollows(parts.session, before, seen, startedAt)
      BY DEF Follows
    <3>2. KnownFields(startedAt) \subseteq SessionFields
      BY DEF KnownFields, SessionFields
    <3>3. next.session \in SessionType
      BY <1>1, <2>2, <3>1 DEF SessionFollows, SessionType
    <3> QED
      BY <1>1, <2>2, <3>1, <3>2, <3>3 DEF SessionFollows, SessionType, Shows
  <2>5. startedAt # 0 => sees.editor.document = seen.editor.document
    BY <1>1 DEF Shows
  <2>6. Follows(next, after, sees, startedAt)
    BY <1>1, <1>3, <2>2, <2>4, <2>5 DEF Follows
  <2> QED
    BY <1>2, <2>2, <2>3, <2>6 DEF Replays
<1>4. CASE field \notin ReplayedFields
  <2>1. Handle(event, parts) = Differs(parts, event, "missing-handler")
    BY <1>2, <1>4 DEF Handle
  <2>2. "missing-handler" \in DifferenceType
    BY DEF DifferenceType
  <2>3. Excused(event, startedAt, ahead, before.editor)
    BY <1>2, <1>4 DEF Excused
  <2> QED
    BY <2>1, <2>2, <2>3, DifferencesDiffer DEF Replays
<1> QED
  BY <1>3, <1>4

LEMMA OtherIsReplayed ==
  ASSUME NEW event, event.sequence \in Nat, NEW before, NEW after, NEW parts, NEW startedAt \in Nat,
         NEW seen, NEW sees, NEW ahead \in BOOLEAN, Shows(before, after, seen, sees, startedAt, ahead),
         OtherStep(event, before, after), IsParts(parts), Follows(parts, before, seen, startedAt)
  PROVE  Replays(event, Handle(event, parts), before, after, sees, startedAt, ahead)
<1>1. ASSUME NEW next, IsParts(next), next.editor = parts.editor, next.session = parts.session,
             Handle(event, parts) = Agrees(next), event.category # "document"
      PROVE  Replays(event, Handle(event, parts), before, after, sees, startedAt, ahead)
  <2>1. Handle(event, parts).parts = next /\ Handle(event, parts).difference = None
    BY <1>1 DEF Agrees
  <2>2. SessionFollows(next.session, after, sees, startedAt)
    <3>1. SessionFollows(parts.session, before, seen, startedAt) /\ after.session = before.session
      BY DEF Follows, OtherStep
    <3> QED
      BY <1>1, <3>1, SessionStays
  <2>3. startedAt # 0 => sees.editor.document = seen.editor.document
    BY DEF Shows, OtherStep
  <2>4. Follows(next, after, sees, startedAt)
    BY <1>1, <2>2, <2>3 DEF Follows, OtherStep
  <2> QED
    BY <1>1, <2>1, <2>4 DEF Replays
<1>2. CASE event = CheckpointEvent(event.sequence)
  <2>1. event.category = "system"
    BY <1>2 DEF CheckpointEvent
  <2> QED
    BY <1>1, <2>1 DEF Handle
<1>3. ASSUME NEW type \in PanelEvents, event = WorkspaceEvent(event.sequence, type)
      PROVE  Replays(event, Handle(event, parts), before, after, sees, startedAt, ahead)
  <2>1. event.category = "workspace"
    BY <1>3 DEF WorkspaceEvent
  <2> DEFINE workspace == CASE event.type = "workspace.panel.opened" ->
                                 OpenPanel(parts.workspace, event.panel)
                            [] event.type = "workspace.panel.closed" ->
                                 ClosePanel(parts.workspace, event.panel)
                            [] event.type = "workspace.panel.activated" ->
                                 ActivatePanel(parts.workspace, event.panel)
                            [] event.type = "workspace.layout.changed" -> NewWorkspace(event.layout)
             next == [parts EXCEPT !.workspace = workspace]
  <2>2. Handle(event, parts) = HandleWorkspaceOperation(event, parts)
    BY <2>1 DEF Handle
  <2>3. HandleWorkspaceOperation(event, parts) = Agrees(next)
    BY Zenon DEF HandleWorkspaceOperation
  <2> HIDE DEF workspace
  <2>4. IsParts(next) /\ next.editor = parts.editor /\ next.session = parts.session
    BY DEF IsParts
  <2> QED
    BY <1>1, <2>1, <2>2, <2>3, <2>4
<1> QED
  BY <1>2, <1>3 DEF OtherStep

\* A replayed event shows what was recorded, or a difference it is excused for.
LEMMA EventIsReplayed ==
  ASSUME NEW event, event.sequence \in Nat, NEW before, NEW after, NEW parts, NEW startedAt \in Nat,
         NEW seen, NEW sees, NEW ahead \in BOOLEAN, Shows(before, after, seen, sees, startedAt, ahead),
         EditorOK(before.editor), before.session \in SessionType, LogStep(event, before, after),
         IsParts(parts), Follows(parts, before, seen, startedAt)
  PROVE  Replays(event, Handle(event, parts), before, after, sees, startedAt, ahead)
<1>1. CASE CommandStep(event, before, after)
  <2>1. event.category = "document"
    BY <1>1 DEF CommandStep, CommandEvent
  <2> QED
    BY <1>1, <2>1, CommandIsReplayed DEF Handle
<1>2. CASE HistoryStep(event, before, after)
  <2>1. event.category = "history"
    BY <1>2 DEF HistoryStep, HistoryEvent
  <2> QED
    BY <1>2, <2>1, HistoryIsReplayed DEF Handle
<1>3. CASE SessionStep(event, before, after)
  BY <1>3, SessionIsReplayed
<1>4. CASE OtherStep(event, before, after)
  BY <1>4, OtherIsReplayed
<1> QED
  BY <1>1, <1>2, <1>3, <1>4 DEF LogStep

\* Whatever the parts are, the handlers give parts and a finding.
LEMMA HandleGivesParts ==
  ASSUME NEW event, event.sequence \in Nat, NEW parts, IsParts(parts)
  PROVE  /\ IsParts(Handle(event, parts).parts)
         /\ Handle(event, parts).difference \in Finding
         /\ Handle(event, parts).difference # None =>
              Handle(event, parts).difference.sequence = event.sequence
<1> DEFINE Given(handled) == /\ IsParts(handled.parts)
                             /\ handled.difference \in Finding
                             /\ handled.difference # None => handled.difference.sequence = event.sequence
<1>1. \A next : IsParts(next) => Given(Agrees(next))
  BY DEF Agrees, Finding
<1>2. \A next, type : IsParts(next) /\ type \in DifferenceType => Given(Differs(next, event, type))
  BY DifferencesDiffer
<1>3. /\ "command-mismatch" \in DifferenceType /\ "patch-mismatch" \in DifferenceType
      /\ "schema-incompatible" \in DifferenceType /\ "missing-handler" \in DifferenceType
  BY DEF DifferenceType
<1>4. /\ \A e : IsParts([parts EXCEPT !.editor = e])
      /\ \A s : IsParts([parts EXCEPT !.session = s])
      /\ \A w : IsParts([parts EXCEPT !.workspace = w])
  BY DEF IsParts
<1> HIDE DEF Given
<1>5. Given(HandleDocumentCommand(event, parts))
  BY <1>1, <1>2, <1>3, <1>4 DEF HandleDocumentCommand
<1>6. Given(HandleHistoryOperation(event, parts))
  BY <1>1, <1>2, <1>3, <1>4 DEF HandleHistoryOperation
<1>7. Given(HandleSessionOperation(event, parts))
  BY <1>1, <1>4 DEF HandleSessionOperation
<1>8. Given(HandleWorkspaceOperation(event, parts))
  BY <1>1, <1>4 DEF HandleWorkspaceOperation
<1>9. Given(Handle(event, parts))
  BY <1>1, <1>2, <1>3, <1>5, <1>6, <1>7, <1>8 DEF Handle
<1> QED
  BY <1>9 DEF Given

-----------------------------------------------------------------------------
(* The inductive invariant.                                                *)

PageType == [editor: EditorType, session: SessionType, cut: BOOLEAN]

Commanded(event) == event.category = "document" /\ event.status = "succeeded"

\* The log is what happened to the page, event by event; a checkpoint comes after a
\* command.
LogInv ==
  /\ scenario \in Scenarios
  /\ events \in Seq(Event)
  /\ recorded \in Seq(PageType)
  /\ Len(recorded) = Len(events)
  /\ \A k \in 1 .. Len(events) :
       /\ events[k].sequence = k
       /\ LogStep(events[k], PageAt(k - 1), PageAt(k))
       /\ recorded[k].cut = Cuts(PageAt(k - 1).editor)
  /\ \A k \in 1 .. Len(events) : events[k].type = "system.checkpoint" => PageAt(k).editor.issued > 0
  /\ \A k \in 0 .. Len(events) : EditorOK(PageAt(k).editor) /\ PageAt(k).session \in SessionType
  /\ editor = PageAt(Len(events)).editor
  /\ session = PageAt(Len(events)).session
  /\ \A k \in 1 .. Len(events) : Commanded(events[k]) => editor.issued > 0

CheckpointType ==
  [sequence: Nat, document: Values, session: SessionType, workspace: {"loaded", "saved"}]

\* A checkpoint is the page its snapshot was taken of; it comes after a command,
\* unless it is the first.
CheckpointOK(checkpoint) ==
  /\ checkpoint.sequence \in DOMAIN captured
  /\ checkpoint.document = PageAt(captured[checkpoint.sequence]).editor.document
  /\ checkpoint.session = PageAt(captured[checkpoint.sequence]).session
  /\ checkpoint.sequence > 0 => PageAt(checkpoint.sequence).editor.issued > 0

\* A snapshot is taken at or after the checkpoint's event, which is stored before the
\* next snapshot.
CoordinatorInv ==
  /\ stored \in 0 .. Len(events)
  /\ eventCount \in 0 .. Len(events)
  /\ settled \in Nat
  /\ task \in {"idle", "queued", "captured", "count"}
  /\ 0 \in DOMAIN captured /\ captured[0] = 0
  /\ \A sequence \in DOMAIN captured :
       /\ sequence \in Nat
       /\ captured[sequence] \in sequence .. Len(events)
       /\ sequence <= stored \/ (task = "captured" /\ sequence = snapshot.sequence)
  /\ task = "captured" => /\ snapshot \in CheckpointType
                          /\ CheckpointOK(snapshot)
                          /\ \A i \in 1 .. Len(checkpoints) : checkpoints[i].sequence < snapshot.sequence
  /\ task = "count" => snapshot.sequence \in 0 .. Len(events)

\* The checkpoints are in the order of the log; the first one is the page as it was
\* opened.
CheckpointsInv ==
  /\ checkpoints \in Seq(CheckpointType)
  /\ Len(checkpoints) >= 1
  /\ checkpoints[1].sequence = 0
  /\ \A i, j \in 1 .. Len(checkpoints) : i < j => checkpoints[i].sequence < checkpoints[j].sequence
  /\ \A i \in 1 .. Len(checkpoints) : CheckpointOK(checkpoints[i])

\* The page an engine has seen: the snapshot's while that is ahead.
Seen(current, startedAt) ==
  IF current < captured[startedAt] THEN captured[startedAt] ELSE current

\* An engine is somewhere in the log, and its parts follow the page unless it found
\* a difference, at an event that explains it.
EngineOK(e) ==
  /\ DOMAIN e = {"parts", "events", "startedAt", "defaultTarget", "current", "eventIndex",
                 "paused", "bestEffort", "difference"}
  /\ e.startedAt \in Nat /\ e.startedAt \in DOMAIN captured
  /\ e.defaultTarget \in Nat
  /\ e.events \in Seq(Event)
  /\ e.startedAt + Len(e.events) <= Len(events)
  /\ \A i \in 1 .. Len(e.events) : e.events[i] = events[e.startedAt + i]
  /\ e.eventIndex \in 1 .. Len(e.events) + 1
  /\ e.current = e.startedAt + e.eventIndex - 1
  /\ IsParts(e.parts)
  /\ e.difference \in Finding
  /\ e.difference = None =>
       Follows(e.parts, PageAt(e.current), PageAt(Seen(e.current, e.startedAt)), e.startedAt)
  /\ e.difference # None => /\ e.difference.sequence \in 1 .. Len(events)
                            /\ Unreplayable(events[e.difference.sequence], e.startedAt)

EnginesInv ==
  /\ DOMAIN engines \subseteq 1 .. generation
  /\ \A number \in DOMAIN engines : EngineOK(engines[number])

MakingCall ==
  [generation: Nat, kind: {"start", "back"}, target: Nat,
   at: {"flush", "tasks", "inputs", "session", "events", "checkpoints", "create"},
   until: Nat, count: Nat, events: Seq(Event), checkpoints: Seq(CheckpointType)]

UsingCall ==
  [generation: Nat, kind: {"play", "step", "run"}, target: Nat,
   at: {"previous", "wait", "step", "run", "hash"}, engine: Nat, previous: Nat,
   finding: Finding, ends: {"completed", "paused"}]

\* What a call has read is the beginning of the log, and a call whose step computes
\* a hash has found nothing unless its engine found something before.
MakingOK(call) ==
  /\ call \in MakingCall
  /\ Len(call.events) <= Len(events)
  /\ \A i \in 1 .. Len(call.events) : call.events[i] = events[i]
  /\ call.at = "create" =>
       /\ Len(call.checkpoints) \in 1 .. Len(checkpoints)
       /\ \A i \in 1 .. Len(call.checkpoints) :
            /\ call.checkpoints[i] = checkpoints[i]
            /\ checkpoints[i].sequence <= Len(call.events)

UsingOK(call) ==
  /\ call \in UsingCall
  /\ call.at \in {"previous", "wait"} => call.kind = "play"
  /\ call.engine \in DOMAIN engines
  /\ call.at = "hash" /\ engines[call.engine].difference = None => call.finding = None

CallOK(call) ==
  /\ call.generation \in 1 .. generation
  /\ call.generation = generation => state.status = "running"
  /\ MakingOK(call) \/ UsingOK(call)

CallsInv ==
  /\ \A call \in calls : CallOK(call)
  /\ \A one, other \in calls : one.generation = other.generation => one = other
  /\ \A call \in calls : call.kind \in {"start", "back"} => call.generation \notin DOMAIN engines

\* What the controller publishes is about the log.
FrameOK(frame, startedAt) ==
  /\ startedAt \in DOMAIN captured
  /\ frame.sequence \in 0 .. Len(events)
  /\ captured[startedAt] <= frame.sequence =>
       /\ frame.document = PageAt(frame.sequence).editor.document
       /\ \A field \in KnownFields(startedAt) :
            frame.session[field] = PageAt(frame.sequence).session[field]

StateOK(s) ==
  /\ DOMAIN s = {"active", "status", "currentSequence", "targetSequence", "startedAtSequence",
                 "difference", "frame", "error"}
  /\ s.status \in {"idle", "running", "paused", "completed"}
  /\ s.active = (s.status # "idle")
  /\ s.currentSequence \in Nat \cup {None}
  /\ s.targetSequence \in Nat \cup {None}
  /\ s.frame # None /\ s.difference = None => FrameOK(s.frame, s.startedAtSequence)

ControllerInv ==
  /\ generation \in Nat
  /\ playback \in Nat
  /\ engine \in {0} \cup DOMAIN engines
  /\ engine # 0 => state.active
  /\ StateOK(state)

Inv == LogInv /\ CoordinatorInv /\ CheckpointsInv /\ EnginesInv /\ CallsInv /\ ControllerInv

\* The log only grows.
Grows ==
  /\ Len(events') >= Len(events)
  /\ \A k \in 1 .. Len(events) : events'[k] = events[k] /\ recorded'[k] = recorded[k]
  /\ Len(checkpoints') >= Len(checkpoints)
  /\ \A i \in 1 .. Len(checkpoints) : checkpoints'[i] = checkpoints[i]
  /\ \A sequence \in DOMAIN captured :
       sequence \in DOMAIN captured' /\ captured'[sequence] = captured[sequence]

LEMMA LargestPosition ==
  ASSUME NEW n \in Nat, NEW T \in SUBSET (1 .. n), T # {}
  PROVE  Max(T) \in T /\ \A e \in T : e <= Max(T)
<1> DEFINE left == {n - e : e \in T}
<1>1. left \in SUBSET Nat /\ left # {}
  <2>1. \A e \in 1 .. n : n - e \in Nat
    OBVIOUS
  <2> QED
    BY <2>1
<1> HIDE DEF left
<1>2. PICK m \in left : \A k \in left : ~(<<k, m>> \in OpToRel(<, Nat))
  BY <1>1, NatLessThanWellFounded, WFMin
<1>3. \A k \in left : ~(k < m)
  BY <1>1, <1>2 DEF OpToRel
<1>4. ASSUME NEW k \in left PROVE m <= k
  <2>1. m \in Nat /\ k \in Nat
    BY <1>1
  <2> QED
    BY <1>3, <2>1
<1>5. PICK e \in T : m = n - e
  BY DEF left
<1>6. \A d \in T : d <= e
  <2> TAKE d \in T
  <2>1. n - d \in left /\ d \in Int /\ e \in Int
    BY DEF left
  <2>2. n - e <= n - d
    BY <1>4, <1>5, <2>1
  <2> QED
    BY <2>1, <2>2
<1>7. \A d \in T : e >= d
  BY <1>6
<1> QED
  BY <1>6, <1>7 DEF Max

-----------------------------------------------------------------------------
(* What is about the log stays true when it grows.                         *)

LEMMA PagesKept ==
  ASSUME LogInv, Grows, NEW k \in 0 .. Len(events)
  PROVE  PageAt(k)' = PageAt(k)
<1>1. Len(events) \in Nat
  BY DEF LogInv
<1>2. k # 0 => k \in 1 .. Len(events)
  BY <1>1
<1> QED
  BY <1>2 DEF Grows, PageAt

LEMMA EngineKept ==
  ASSUME LogInv, CoordinatorInv, Grows, Len(events') \in Nat, NEW e, EngineOK(e)
  PROVE  EngineOK(e)'
<1>1. Len(events) \in Nat /\ Len(e.events) \in Nat
  BY DEF LogInv, EngineOK
<1>2. \A i \in 1 .. Len(e.events) : e.startedAt + i \in 1 .. Len(events)
  BY <1>1 DEF EngineOK
<1>3. \A i \in 1 .. Len(e.events) : e.events[i] = events'[e.startedAt + i]
  BY <1>2 DEF EngineOK, Grows
<1>4. e.startedAt + Len(e.events) <= Len(events')
  BY <1>1 DEF EngineOK, Grows
<1>5. /\ e.startedAt \in DOMAIN captured' /\ captured'[e.startedAt] = captured[e.startedAt]
      /\ captured[e.startedAt] \in 0 .. Len(events)
  BY DEF EngineOK, Grows, CoordinatorInv
<1>6. e.difference = None =>
        Follows(e.parts, PageAt(e.current)', PageAt(Seen(e.current, e.startedAt))', e.startedAt)
  <2>1. e.current \in 0 .. Len(events)
    BY <1>1 DEF EngineOK
  <2>2. PICK seen : seen = Seen(e.current, e.startedAt)
    OBVIOUS
  <2>3. seen \in 0 .. Len(events) /\ Seen(e.current, e.startedAt)' = seen
    BY <1>5, <2>1, <2>2 DEF Seen
  <2>4. PageAt(seen)' = PageAt(seen) /\ PageAt(e.current)' = PageAt(e.current)
    BY <2>1, <2>3, PagesKept
  <2>5. PageAt(Seen(e.current, e.startedAt))' = PageAt(seen)'
    BY <2>3
  <2> QED
    BY <2>2, <2>4, <2>5 DEF EngineOK
<1>7. ASSUME e.difference # None
      PROVE  /\ e.difference.sequence \in 1 .. Len(events')
             /\ Unreplayable(events[e.difference.sequence], e.startedAt)'
  <2> DEFINE k == e.difference.sequence
  <2>1. k \in 1 .. Len(events) /\ Unreplayable(events[k], e.startedAt)
    BY <1>7 DEF EngineOK
  <2>2. events[k].sequence = k /\ events'[k] = events[k] /\ recorded'[k] = recorded[k]
    BY <2>1 DEF LogInv, Grows
  <2> QED
    BY <1>1, <1>5, <2>1, <2>2 DEF Grows, Unreplayable
<1> QED
  BY <1>3, <1>4, <1>5, <1>6, <1>7 DEF EngineOK

LEMMA MakingKept ==
  ASSUME LogInv, CheckpointsInv, Grows, Len(events') \in Nat, Len(checkpoints') \in Nat,
         NEW call, MakingOK(call)
  PROVE  MakingOK(call)'
<1>1. /\ Len(events) \in Nat /\ Len(checkpoints) \in Nat
      /\ Len(call.events) \in Nat /\ Len(call.checkpoints) \in Nat
  BY DEF LogInv, CheckpointsInv, MakingOK, MakingCall
<1>2. /\ Len(call.events) <= Len(events')
      /\ \A i \in 1 .. Len(call.events) : call.events[i] = events'[i]
  BY <1>1 DEF MakingOK, Grows
<1>3. ASSUME call.at = "create"
      PROVE  /\ Len(call.checkpoints) \in 1 .. Len(checkpoints')
             /\ \A i \in 1 .. Len(call.checkpoints) :
                  /\ call.checkpoints[i] = checkpoints'[i]
                  /\ checkpoints'[i].sequence <= Len(call.events)
  <2>1. /\ Len(call.checkpoints) \in 1 .. Len(checkpoints)
        /\ \A i \in 1 .. Len(call.checkpoints) :
             /\ call.checkpoints[i] = checkpoints[i]
             /\ checkpoints[i].sequence <= Len(call.events)
    BY <1>3 DEF MakingOK
  <2>2. \A i \in 1 .. Len(call.checkpoints) : checkpoints'[i] = checkpoints[i]
    BY <1>1, <2>1 DEF Grows
  <2> QED
    BY <1>1, <2>1, <2>2 DEF Grows
<1> QED
  BY <1>2, <1>3 DEF MakingOK

\* A difference that an engine has found stays.
EnginesKeep ==
  \A number \in DOMAIN engines :
    /\ number \in DOMAIN engines'
    /\ engines[number].difference # None => engines'[number].difference # None

EnginesStay == EnginesKeep /\ DOMAIN engines' = DOMAIN engines

LEMMA UsingKept ==
  ASSUME EnginesKeep, NEW call, UsingOK(call)
  PROVE  UsingOK(call)'
BY DEF UsingOK, EnginesKeep

LEMMA FrameKept ==
  ASSUME LogInv, CoordinatorInv, Grows, Len(events') \in Nat, NEW frame, NEW startedAt,
         FrameOK(frame, startedAt)
  PROVE  FrameOK(frame, startedAt)'
<1>1. Len(events) \in Nat
  BY DEF LogInv
<1>2. PageAt(frame.sequence)' = PageAt(frame.sequence)
  BY PagesKept DEF FrameOK
<1>3. startedAt \in DOMAIN captured' /\ captured'[startedAt] = captured[startedAt]
  BY DEF FrameOK, Grows
<1>4. frame.sequence \in 0 .. Len(events')
  BY <1>1 DEF FrameOK, Grows
<1> QED
  BY <1>2, <1>3, <1>4 DEF FrameOK

LEMMA StateKept ==
  ASSUME LogInv, CoordinatorInv, Grows, Len(events') \in Nat, NEW s, StateOK(s)
  PROVE  StateOK(s)'
BY FrameKept DEF StateOK

LEMMA ControllerKept ==
  ASSUME Inv, Grows, Len(events') \in Nat, Len(checkpoints') \in Nat, UNCHANGED controller
  PROVE  EnginesInv' /\ CallsInv' /\ ControllerInv'
<1>1. /\ state' = state /\ generation' = generation /\ engine' = engine /\ playback' = playback
      /\ engines' = engines /\ calls' = calls
  BY DEF controller
<1>2. EnginesInv'
  <2>1. \A number \in DOMAIN engines : EngineOK(engines[number])'
    <3> TAKE number \in DOMAIN engines
    <3>1. ASSUME NEW e, e = engines[number] PROVE EngineOK(e)'
      BY <3>1, EngineKept DEF Inv, EnginesInv
    <3> QED
      BY <1>1, <3>1
  <2> QED
    BY <1>1, <2>1 DEF Inv, EnginesInv
<1>3. CallsInv'
  <2>1. EnginesKeep
    BY <1>1 DEF EnginesKeep
  <2>2. \A call \in calls : CallOK(call)'
    <3> TAKE call \in calls
    <3>1. ASSUME NEW c, c = call PROVE CallOK(c)'
      BY <1>1, <2>1, <3>1, MakingKept, UsingKept DEF Inv, CallsInv, CallOK
    <3> QED
      BY <3>1
  <2> QED
    BY <1>1, <2>2 DEF Inv, CallsInv
<1>4. StateOK(state)'
  <2>1. ASSUME NEW s, s = state PROVE StateOK(s)'
    BY <2>1, StateKept DEF Inv, ControllerInv
  <2> QED
    BY <1>1, <2>1
<1> QED
  BY <1>1, <1>2, <1>3, <1>4 DEF Inv, ControllerInv

-----------------------------------------------------------------------------
(* The page goes on.                                                       *)

LEMMA LoggedIsEvent ==
  ASSUME NEW event, event.sequence \in Nat, NEW before, NEW after,
         EditorOK(before.editor), LogStep(event, before, after)
  PROVE  event \in Event
<1>1. CASE CommandStep(event, before, after)
  <2>1. PICK command \in Values \cup {Broken} :
          event = CommandEvent(event.sequence, command, Dispatch(before.editor, command))
    BY <1>1 DEF CommandStep
  <2> DEFINE result == Dispatch(before.editor, command)
  <2>2. result \in ResultType /\ (result.ok <=> command # Broken)
    BY DispatchIsOK
  <2>3. CASE command = Broken
    <3>1. event = [sequence |-> event.sequence, category |-> "document", type |-> "document.command",
                   command |-> command, status |-> "failed", code |-> result.code]
      BY <2>1, <2>2, <2>3 DEF CommandEvent
    <3>2. result.code \in CodeType
      BY <2>2 DEF ResultType
    <3> QED
      BY <3>1, <3>2 DEF Event
  <2>4. CASE command # Broken
    <3>1. event = [sequence |-> event.sequence, category |-> "document", type |-> "document.command",
                   command |-> command, status |-> "succeeded", transaction |-> result.entry,
                   afterHash |-> result.editor.document]
      BY <2>1, <2>2, <2>4 DEF CommandEvent
    <3>2. result.editor.document \in Values
      BY <2>2 DEF ResultType, EditorType
    <3>3. result.entry \in EntryType
      <4>1. before.editor \in EditorType /\ before.editor.issued + 1 \in Nat
        BY DEF EditorOK, EditorType
      <4>2. result.entry = [id |-> before.editor.issued + 1,
                            forward |-> [from |-> before.editor.document, to |-> command],
                            inverse |-> [from |-> command, to |-> before.editor.document]]
        BY <2>2, <2>4, DispatchIsOK
      <4> QED
        BY <2>4, <4>1, <4>2 DEF EntryType, PatchType, EditorType
    <3> HIDE DEF result
    <3> QED
      BY <2>4, <3>1, <3>2, <3>3 DEF Event
  <2> QED
    BY <2>3, <2>4
<1>2. CASE HistoryStep(event, before, after)
  <2>1. PICK type \in {"history.undo", "history.redo", "history.jump"}, index \in Nat :
          event = HistoryEvent(event.sequence, type,
                               HistoryMove(before.editor, [type |-> type, index |-> index]))
    BY <1>2 DEF HistoryStep
  <2> DEFINE result == HistoryMove(before.editor, [type |-> type, index |-> index])
  <2>2. result \in ResultType
    BY MoveIsOK
  <2>3. result.editor.index \in Nat /\ result.code \in CodeType
    BY <2>2 DEF ResultType, EditorType
  <2>4. (IF result.entry = None THEN None ELSE result.entry.id) \in Nat \cup {None}
    BY <2>2 DEF ResultType, EntryType
  <2>5. (IF result.ok THEN "succeeded" ELSE "failed") \in {"succeeded", "failed"}
    OBVIOUS
  <2> HIDE DEF result
  <2>6. event = HistoryEvent(event.sequence, type, result)
    BY <2>1 DEF result
  <2> QED
    BY <2>3, <2>4, <2>5, <2>6 DEF HistoryEvent, Event
<1>3. CASE SessionStep(event, before, after)
  BY <1>3 DEF SessionStep, SessionEvent, Event
<1>4. CASE OtherStep(event, before, after)
  BY <1>4 DEF OtherStep, WorkspaceEvent, CheckpointEvent, PanelEvents, Event
<1> QED
  BY <1>1, <1>2, <1>3, <1>4 DEF LogStep

LEMMA RecordedKeeps ==
  ASSUME LogInv, NEW n \in Nat, n = Len(events), NEW event, NEW nextEditor, NEW nextSession,
         Recorded(event, nextEditor, nextSession),
         event.sequence = NextSequence, EditorOK(nextEditor), nextSession \in SessionType,
         \A after : after.editor = nextEditor /\ after.session = nextSession =>
                      LogStep(event, PageAt(n), after),
         event.type = "system.checkpoint" => nextEditor.issued > 0,
         editor.issued > 0 \/ Commanded(event) => nextEditor.issued > 0
  PROVE  /\ LogInv'
         /\ Len(events') = n + 1
         /\ \A k \in 1 .. n : events'[k] = events[k] /\ recorded'[k] = recorded[k]
         /\ PageAt(n + 1)'.editor = nextEditor
         /\ PageAt(n + 1)'.session = nextSession
<1> DEFINE page_ == [editor |-> nextEditor, session |-> nextSession, cut |-> Cuts(editor)]
<1>1. events \in Seq(Event) /\ recorded \in Seq(PageType) /\ Len(recorded) = n
  BY DEF LogInv
<1>2. /\ events' = Append(events, event) /\ recorded' = Append(recorded, page_)
      /\ editor' = nextEditor /\ session' = nextSession /\ scenario' = scenario
  BY DEF Recorded, Cuts
<1>3. EditorOK(PageAt(n).editor) /\ PageAt(n).session \in SessionType /\ editor = PageAt(n).editor
  BY <1>1 DEF LogInv
<1>4. LogStep(event, PageAt(n), page_)
  OBVIOUS
<1>5. event \in Event /\ event.sequence = n + 1
  BY <1>1, <1>3, <1>4, LoggedIsEvent DEF NextSequence
<1>6. page_ \in PageType
  BY <1>3 DEF PageType, EditorOK, Cuts
<1> HIDE DEF page_
<1>7. /\ events' \in Seq(Event) /\ Len(events') = n + 1
      /\ \A k \in 1 .. n : events'[k] = events[k]
      /\ events'[n + 1] = event
  BY <1>1, <1>2, <1>5
<1>8. /\ recorded' \in Seq(PageType) /\ Len(recorded') = n + 1
      /\ \A k \in 1 .. n : recorded'[k] = recorded[k]
      /\ recorded'[n + 1] = page_
  BY <1>1, <1>2, <1>6
<1>9. \A k \in 0 .. n : PageAt(k)' = PageAt(k)
  BY <1>1, <1>8 DEF PageAt
<1>10. PageAt(n + 1)' = page_
  BY <1>1, <1>8 DEF PageAt
<1>11. page_.editor = nextEditor /\ page_.session = nextSession /\ page_.cut = Cuts(editor)
  BY DEF page_
<1>12. \A k \in 1 .. n + 1 :
         /\ events'[k].sequence = k
         /\ LogStep(events'[k], PageAt(k - 1)', PageAt(k)')
         /\ recorded'[k].cut = Cuts(PageAt(k - 1)'.editor)
  <2> TAKE k \in 1 .. n + 1
  <2>1. CASE k \in 1 .. n
    <3>1. k - 1 \in 0 .. n /\ k \in 0 .. n
      BY <1>1, <2>1
    <3> QED
      BY <1>7, <1>8, <1>9, <2>1, <3>1 DEF LogInv
  <2>2. CASE k = n + 1
    <3>1. k - 1 = n /\ n \in 0 .. n
      BY <1>1, <2>2
    <3> QED
      BY <1>3, <1>4, <1>5, <1>7, <1>8, <1>9, <1>10, <1>11, <2>2, <3>1
  <2> QED
    BY <1>1, <2>1, <2>2
<1>13. \A k \in 0 .. n + 1 : EditorOK(PageAt(k)'.editor) /\ PageAt(k)'.session \in SessionType
  <2> TAKE k \in 0 .. n + 1
  <2>1. CASE k \in 0 .. n
    BY <1>9, <2>1 DEF LogInv
  <2>2. CASE k = n + 1
    BY <1>10, <1>11, <2>2
  <2> QED
    BY <1>1, <2>1, <2>2
<1>14. \A k \in 1 .. n + 1 : events'[k].type = "system.checkpoint" => PageAt(k)'.editor.issued > 0
  <2> TAKE k \in 1 .. n + 1
  <2>1. CASE k \in 1 .. n
    <3>1. k \in 0 .. n
      BY <1>1, <2>1
    <3> QED
      BY <1>7, <1>9, <2>1, <3>1 DEF LogInv
  <2>2. CASE k = n + 1
    BY <1>7, <1>10, <1>11, <2>2
  <2> QED
    BY <1>1, <2>1, <2>2
<1>15. \A k \in 1 .. n + 1 : Commanded(events'[k]) => nextEditor.issued > 0
  <2> TAKE k \in 1 .. n + 1
  <2>1. CASE k \in 1 .. n
    BY <1>7, <2>1 DEF LogInv
  <2>2. CASE k = n + 1
    BY <1>7, <2>2
  <2> QED
    BY <1>1, <2>1, <2>2
<1>16. LogInv'
  BY <1>2, <1>7, <1>8, <1>10, <1>11, <1>12, <1>13, <1>14, <1>15 DEF LogInv
<1> QED
  BY <1>7, <1>8, <1>10, <1>11, <1>16

LEMMA CheckpointKept ==
  ASSUME LogInv, CoordinatorInv, Grows, Len(events') \in Nat, NEW checkpoint, CheckpointOK(checkpoint)
  PROVE  CheckpointOK(checkpoint)'
<1>1. PICK k : k = checkpoint.sequence
  OBVIOUS
<1>2. PICK seen : seen = captured[k]
  OBVIOUS
<1>3. k \in DOMAIN captured' /\ captured'[k] = seen /\ k \in 0 .. Len(events) /\ seen \in 0 .. Len(events)
  <2>1. k \in DOMAIN captured /\ k \in Nat /\ seen \in k .. Len(events)
    BY <1>1, <1>2 DEF CheckpointOK, CoordinatorInv
  <2>2. Len(events) \in Nat
    BY DEF LogInv
  <2> QED
    BY <1>2, <2>1, <2>2 DEF Grows
<1>4. PageAt(k)' = PageAt(k) /\ PageAt(seen)' = PageAt(seen)
  BY <1>3, PagesKept
<1>5. PageAt(captured[k])' = PageAt(seen)'
  BY <1>3
<1> QED
  BY <1>1, <1>2, <1>3, <1>4, <1>5 DEF CheckpointOK

LEMMA CheckpointsKept ==
  ASSUME LogInv, CoordinatorInv, CheckpointsInv, Grows, Len(events') \in Nat, UNCHANGED checkpoints
  PROVE  CheckpointsInv'
<1>1. \A i \in 1 .. Len(checkpoints) : CheckpointOK(checkpoints[i])'
  <2> TAKE i \in 1 .. Len(checkpoints)
  <2>1. ASSUME NEW c, c = checkpoints[i] PROVE CheckpointOK(c)'
    BY <2>1, CheckpointKept DEF CheckpointsInv
  <2> QED
    BY <2>1
<1> QED
  BY <1>1 DEF CheckpointsInv

\* What the coordinator does but for taking a snapshot and saving it.
LEMMA CoordinatorKept ==
  ASSUME LogInv, CoordinatorInv, Grows, Len(events') \in Nat, UNCHANGED <<captured, checkpoints>>,
         settled' \in Nat, eventCount' \in 0 .. Len(events'), stored' \in stored .. Len(events'),
         \/ task' = task /\ snapshot' = snapshot
         \/ task' \in {"idle", "queued"} /\ task # "captured"
  PROVE  CoordinatorInv'
<1>1. Len(events) \in Nat /\ Len(events') >= Len(events) /\ stored \in Nat
  BY DEF LogInv, CoordinatorInv, Grows
<1>2. stored' \in 0 .. Len(events') /\ stored <= stored'
  BY <1>1
<1>3. \A sequence \in DOMAIN captured' :
        /\ sequence \in Nat
        /\ captured'[sequence] \in sequence .. Len(events')
        /\ sequence <= stored' \/ (task' = "captured" /\ sequence = snapshot'.sequence)
  <2> TAKE sequence \in DOMAIN captured'
  <2>1. /\ sequence \in Nat /\ captured'[sequence] = captured[sequence]
        /\ captured[sequence] \in sequence .. Len(events)
        /\ sequence <= stored \/ (task = "captured" /\ sequence = snapshot.sequence)
    BY DEF CoordinatorInv
  <2>2. captured'[sequence] \in sequence .. Len(events')
    BY <1>1, <2>1
  <2>3. sequence <= stored => sequence <= stored'
    BY <1>1, <1>2, <2>1
  <2> QED
    BY <2>1, <2>2, <2>3
<1>4. ASSUME task' = "captured"
      PROVE  /\ snapshot' \in CheckpointType
             /\ CheckpointOK(snapshot)'
             /\ \A i \in 1 .. Len(checkpoints') : checkpoints'[i].sequence < snapshot'.sequence
  <2>1. task = "captured" /\ snapshot' = snapshot
    BY <1>4
  <2>2. ASSUME NEW c, c = snapshot PROVE CheckpointOK(c)'
    BY <2>1, <2>2, CheckpointKept DEF CoordinatorInv
  <2> QED
    BY <2>1, <2>2 DEF CoordinatorInv
<1>5. task' = "count" => snapshot'.sequence \in 0 .. Len(events')
  BY <1>1 DEF CoordinatorInv
<1>6. task' \in {"idle", "queued", "captured", "count"}
  BY DEF CoordinatorInv
<1> QED
  BY <1>2, <1>3, <1>4, <1>5, <1>6 DEF CoordinatorInv

\* The log grows, and no checkpoint is saved.
LEMMA GrownKeeps ==
  ASSUME Inv, LogInv', CoordinatorInv', Grows, Len(events') \in Nat, UNCHANGED <<checkpoints, controller>>
  PROVE  Inv'
<1>1. CheckpointsInv' /\ Len(checkpoints') \in Nat
  BY CheckpointsKept DEF Inv, CheckpointsInv
<1>2. EnginesInv' /\ CallsInv' /\ ControllerInv'
  BY <1>1, ControllerKept
<1> QED
  BY <1>1, <1>2 DEF Inv

LEMMA UnchangedGrows ==
  ASSUME Inv, UNCHANGED <<events, recorded, checkpoints, captured>>
  PROVE  Grows /\ Len(events') \in Nat /\ Len(checkpoints') \in Nat
BY DEF Grows, Inv, LogInv, CheckpointsInv

LEMMA QueueUnchanged ==
  ASSUME LogInv, UNCHANGED <<page, queue>>
  PROVE  LogInv' /\ UNCHANGED <<events, recorded>>
BY DEF LogInv, PageAt, page, queue

\* An event is recorded and nothing is saved.
LEMMA RecordedKeepsAll ==
  ASSUME Inv, NEW event, NEW nextEditor, NEW nextSession,
         Recorded(event, nextEditor, nextSession),
         event.sequence = NextSequence, EditorOK(nextEditor), nextSession \in SessionType,
         \A n \in Nat : \A after : n = Len(events) /\ after.editor = nextEditor /\ after.session = nextSession =>
           LogStep(event, PageAt(n), after),
         event.type = "system.checkpoint" => nextEditor.issued > 0,
         editor.issued > 0 \/ Commanded(event) => nextEditor.issued > 0,
         UNCHANGED <<captured, snapshot, stored, checkpoints, controller>>,
         settled' = settled, eventCount' \in 0 .. Len(events),
         task' = task \/ (task = "idle" /\ task' = "queued")
  PROVE  Inv'
<1>1. PICK n \in Nat : n = Len(events)
  BY DEF Inv, LogInv
<1>2. /\ LogInv' /\ Len(events') = n + 1
      /\ \A k \in 1 .. n : events'[k] = events[k] /\ recorded'[k] = recorded[k]
  BY <1>1, RecordedKeeps DEF Inv
<1>3. Grows
  BY <1>1, <1>2 DEF Grows, Inv, CheckpointsInv
<1>4. Len(events') \in Nat /\ eventCount' \in 0 .. Len(events') /\ stored' \in stored .. Len(events')
      /\ settled' \in Nat
  BY <1>1, <1>2 DEF Inv, CoordinatorInv
<1>5. CoordinatorInv'
  BY <1>3, <1>4, CoordinatorKept DEF Inv
<1> QED
  BY <1>2, <1>3, <1>4, <1>5, GrownKeeps

LEMMA OperateKeeps == ASSUME Inv, Operate PROVE Inv'
<1>1. EditorOK(editor) /\ session \in SessionType /\ NextSequence \in Nat
  BY DEF Inv, LogInv, NextSequence
<1>2. \A n \in Nat : n = Len(events) => PageAt(n).editor = editor /\ PageAt(n).session = session
  BY DEF Inv, LogInv
<1>3. editor.issued \in Nat
  BY <1>1 DEF EditorOK, EditorType
<1>4. /\ UNCHANGED <<captured, snapshot, stored, checkpoints, controller>>
      /\ settled' = settled /\ task' = task /\ eventCount' \in 0 .. Len(events)
  BY DEF Operate, coordinator, database, Inv, CoordinatorInv
<1>5. scenario.commands \subseteq Values \cup {Broken}
  BY ReplayAssumption DEF Inv, LogInv
<1>6. ASSUME NEW command \in Values \cup {Broken}, Command(command) PROVE Inv'
  <2> DEFINE result == Dispatch(editor, command)
             event == CommandEvent(NextSequence, command, result)
  <2>1. result \in ResultType /\ EditorOK(result.editor)
    BY <1>1, DispatchIsOK
  <2>2. event.sequence = NextSequence /\ event.type # "system.checkpoint"
        /\ event.status = IF result.ok THEN "succeeded" ELSE "failed"
    BY DEF CommandEvent
  <2>3. \A n \in Nat : \A after : n = Len(events) /\ after.editor = result.editor /\ after.session = session =>
          LogStep(event, PageAt(n), after)
    BY <1>2, <2>2 DEF LogStep, CommandStep
  <2>4. result.ok => result.editor.issued = editor.issued + 1
    BY <1>1, DispatchIsOK
  <2>5. ~result.ok => result.editor = editor
    BY <1>1, DispatchIsOK
  <2>6. Recorded(event, result.editor, session)
    BY <1>6 DEF Command
  <2> HIDE DEF result, event
  <2>7. editor.issued > 0 \/ Commanded(event) => result.editor.issued > 0
    BY <1>3, <2>2, <2>4, <2>5 DEF Commanded
  <2> QED
    BY <1>1, <1>4, <2>1, <2>2, <2>3, <2>6, <2>7, RecordedKeepsAll
<1>7. ASSUME NEW type \in {"history.undo", "history.redo", "history.jump"}, NEW index \in Nat,
             HistoryOperation(type, index)
      PROVE  Inv'
  <2> DEFINE result == HistoryMove(editor, [type |-> type, index |-> index])
             event == HistoryEvent(NextSequence, type, result)
  <2>1. result \in ResultType /\ EditorOK(result.editor) /\ result.editor.issued = editor.issued
    BY <1>1, MoveIsOK
  <2>2. event.sequence = NextSequence /\ event.type # "system.checkpoint" /\ ~Commanded(event)
    BY DEF HistoryEvent, Commanded
  <2>3. \A n \in Nat : \A after : n = Len(events) /\ after.editor = result.editor /\ after.session = session =>
          LogStep(event, PageAt(n), after)
    BY <1>2, <2>2 DEF LogStep, HistoryStep
  <2>4. Recorded(event, result.editor, session)
    BY <1>7 DEF HistoryOperation
  <2> HIDE DEF result, event
  <2> QED
    BY <1>1, <1>4, <2>1, <2>2, <2>3, <2>4, RecordedKeepsAll
<1>8. ASSUME NEW field \in SessionFields, NEW value \in Int, SessionOperation(field, value)
      PROVE  Inv'
  <2> DEFINE next == [session EXCEPT ![field] = value]
             event == SessionEvent(NextSequence, field, value)
  <2>1. next \in SessionType
    BY <1>1 DEF SessionType
  <2>2. event.sequence = NextSequence /\ event.type # "system.checkpoint" /\ ~Commanded(event)
    BY DEF SessionEvent, Commanded
  <2>3. \A n \in Nat : \A after : n = Len(events) /\ after.editor = editor /\ after.session = next =>
          LogStep(event, PageAt(n), after)
    BY <1>2, <2>2 DEF LogStep, SessionStep
  <2>4. Recorded(event, editor, next)
    BY <1>8 DEF SessionOperation
  <2> HIDE DEF next, event
  <2> QED
    BY <1>1, <1>4, <2>1, <2>2, <2>3, <2>4, RecordedKeepsAll
<1>9. ASSUME NEW type \in PanelEvents, WorkspaceOperation(type) PROVE Inv'
  <2> DEFINE event == WorkspaceEvent(NextSequence, type)
  <2>1. event.sequence = NextSequence /\ event.type # "system.checkpoint" /\ ~Commanded(event)
    BY DEF WorkspaceEvent, Commanded, PanelEvents
  <2>2. \A n \in Nat : \A after : n = Len(events) /\ after.editor = editor /\ after.session = session =>
          LogStep(event, PageAt(n), after)
    BY <1>2, <2>1 DEF LogStep, OtherStep
  <2>3. Recorded(event, editor, session)
    BY <1>9 DEF WorkspaceOperation
  <2> HIDE DEF event
  <2> QED
    BY <1>1, <1>4, <2>1, <2>2, <2>3, RecordedKeepsAll
<1>10. CASE \E command \in scenario.commands : Command(command)
  BY <1>5, <1>6, <1>10
<1>11. CASE HistoryOperation("history.undo", 0) \/ HistoryOperation("history.redo", 0)
  BY <1>7, <1>11
<1>12. CASE \E index \in {0, HistoryLimit, HistoryLimit + 1} : HistoryOperation("history.jump", index)
  BY <1>7, <1>12, ReplayEngineAssumption
<1>13. ASSUME NEW field \in {"selection", "snapEnabled"}, SessionOperation(field, 1 - session[field])
       PROVE  Inv'
  <2>1. field \in SessionFields
    BY DEF SessionFields, ReplayedFields
  <2>2. 1 - session[field] \in Int
    BY <1>1, <2>1 DEF SessionType
  <2> QED
    BY <1>8, <1>13, <2>1, <2>2
<1>14. CASE \E type \in scenario.uses \cap PanelEvents : WorkspaceOperation(type)
  BY <1>9, <1>14
<1> QED
  BY <1>10, <1>11, <1>12, <1>13, <1>14 DEF Operate

LEMMA AskedIsCount == ASSUME CoordinatorInv PROVE Asked \in Nat
<1> DEFINE asked == {i \in 1 .. stored : events[i].category = "document" /\ events[i].status = "succeeded"}
<1>1. IsFiniteSet(1 .. stored)
  BY FS_Interval DEF CoordinatorInv
<1>2. IsFiniteSet(asked)
  BY <1>1, FS_Subset
<1> HIDE DEF asked
<1>3. Cardinality(asked) \in Nat
  BY <1>2, FS_CardinalityType
<1> QED
  BY <1>3 DEF Asked, asked

\* A document event is only asked after a command.
LEMMA AskedAfterCommand == ASSUME LogInv, CoordinatorInv, Asked > 0 PROVE editor.issued > 0
<1> DEFINE asked == {i \in 1 .. stored : events[i].category = "document" /\ events[i].status = "succeeded"}
<1>1. asked # {}
  <2> SUFFICES ASSUME asked = {} PROVE FALSE
    OBVIOUS
  <2>1. Asked = Cardinality({})
    BY DEF Asked
  <2> QED
    BY <2>1, FS_EmptySet
<1>2. PICK i \in 1 .. stored : Commanded(events[i])
  BY <1>1 DEF Commanded
<1>3. i \in 1 .. Len(events)
  BY <1>2 DEF LogInv, CoordinatorInv
<1> QED
  BY <1>2, <1>3 DEF LogInv

LEMMA NumbersAreStored == ASSUME LogInv, CoordinatorInv PROVE \A number \in Numbers : number \in 0 .. Len(events)
BY DEF LogInv, CoordinatorInv, Numbers, Storable

LEMMA StoreEventKeeps == ASSUME Inv, StoreEvent PROVE Inv'
<1>1. /\ UNCHANGED <<page, queue, coordinator, eventCount, checkpoints, controller>>
      /\ stored < Len(events) /\ stored' = stored + 1
  BY DEF StoreEvent, Storable
<1>2. LogInv' /\ UNCHANGED <<events, recorded>>
  BY <1>1, QueueUnchanged DEF Inv
<1>3. UNCHANGED <<task, snapshot, captured, settled, checkpoints>>
  BY <1>1 DEF coordinator
<1>4. Grows /\ Len(events') \in Nat
  BY <1>2, <1>3, UnchangedGrows
<1>5. stored' \in stored .. Len(events') /\ eventCount' \in 0 .. Len(events') /\ settled' \in Nat
  BY <1>1, <1>2, <1>3 DEF Inv, LogInv, CoordinatorInv
<1>6. CoordinatorInv'
  BY <1>3, <1>4, <1>5, CoordinatorKept DEF Inv
<1> QED
  BY <1>1, <1>2, <1>4, <1>6, GrownKeeps

LEMMA SaveSessionKeeps == ASSUME Inv, SaveSession PROVE Inv'
<1>1. /\ task = "idle" /\ settled < Asked
      /\ UNCHANGED <<snapshot, captured, stored, checkpoints, controller>>
  BY DEF SaveSession
<1>2. eventCount' \in 0 .. Len(events)
  BY NumbersAreStored DEF SaveSession, Inv
<1>3. settled \in Nat /\ stored \in 0 .. Len(events) /\ Len(events) \in Nat
  BY DEF Inv, LogInv, CoordinatorInv
<1>4. CASE /\ Recorded(CheckpointEvent(NextSequence), editor, session)
           /\ task' = "queued" /\ settled' = settled
  <2> DEFINE event == CheckpointEvent(NextSequence)
  <2>1. EditorOK(editor) /\ session \in SessionType
    BY DEF Inv, LogInv
  <2>2. event.sequence = NextSequence /\ ~Commanded(event)
    BY DEF CheckpointEvent, Commanded
  <2>3. \A n \in Nat : \A after : n = Len(events) /\ after.editor = editor /\ after.session = session =>
          LogStep(event, PageAt(n), after)
    BY <2>2 DEF Inv, LogInv, LogStep, OtherStep
  <2>4. editor.issued > 0
    <3>1. Asked > 0
      BY <1>1, <1>3, AskedIsCount DEF Inv
    <3> QED
      BY <3>1, AskedAfterCommand DEF Inv
  <2>5. Recorded(event, editor, session)
    BY <1>4
  <2> HIDE DEF event
  <2> QED
    BY <1>1, <1>2, <1>4, <2>1, <2>2, <2>3, <2>4, <2>5, RecordedKeepsAll
<1>5. CASE settled' = settled + 1 /\ UNCHANGED <<page, queue, task>>
  <2>1. LogInv' /\ UNCHANGED <<events, recorded>>
    BY <1>5, QueueUnchanged DEF Inv
  <2>2. Grows /\ Len(events') \in Nat
    BY <1>1, <2>1, UnchangedGrows
  <2>3. stored' \in stored .. Len(events') /\ eventCount' \in 0 .. Len(events') /\ settled' \in Nat
    BY <1>1, <1>2, <1>3, <1>5, <2>1
  <2>4. CoordinatorInv'
    BY <1>1, <1>5, <2>2, <2>3, CoordinatorKept DEF Inv
  <2> QED
    BY <1>1, <2>1, <2>2, <2>4, GrownKeeps
<1> QED
  BY <1>4, <1>5 DEF SaveSession

LEMMA SaveCountKeeps == ASSUME Inv, SaveCount PROVE Inv'
<1>1. /\ UNCHANGED <<page, queue, captured, stored, checkpoints, controller>>
      /\ task = "count" /\ task' = "idle" /\ settled' = settled + 1
      /\ eventCount' = snapshot.sequence
  BY DEF SaveCount
<1>2. LogInv' /\ UNCHANGED <<events, recorded>>
  BY <1>1, QueueUnchanged DEF Inv
<1>3. Grows /\ Len(events') \in Nat
  BY <1>1, <1>2, UnchangedGrows
<1>4. stored' \in stored .. Len(events') /\ eventCount' \in 0 .. Len(events') /\ settled' \in Nat
  BY <1>1, <1>2 DEF Inv, LogInv, CoordinatorInv
<1>5. CoordinatorInv'
  BY <1>1, <1>3, <1>4, CoordinatorKept DEF Inv
<1> QED
  BY <1>1, <1>2, <1>3, <1>5, GrownKeeps

\* The snapshot is of the page as it is, which no earlier one can be taken for.
LEMMA CaptureCheckpointKeeps == ASSUME Inv, CaptureCheckpoint PROVE Inv'
<1>1. PICK n \in Nat : n = Len(events)
  BY DEF Inv, LogInv
<1>2. PICK k \in 1 .. n : k = stored + 1
  BY <1>1 DEF CaptureCheckpoint, Inv, CoordinatorInv
<1>3. PICK new : new = [sequence |-> k, document |-> editor.document, session |-> session,
                        workspace |-> "saved"]
  OBVIOUS
<1>4. /\ task = "queued" /\ task' = "captured"
      /\ events[k].type = "system.checkpoint"
      /\ snapshot' = new
      /\ captured' = [sequence \in DOMAIN captured \cup {k} |-> IF sequence = k THEN n ELSE captured[sequence]]
      /\ UNCHANGED <<page, queue, settled, stored, eventCount, checkpoints, controller>>
  BY <1>1, <1>2, <1>3 DEF CaptureCheckpoint, database
<1>5. LogInv' /\ UNCHANGED <<events, recorded>>
  BY <1>4, QueueUnchanged DEF Inv
<1>6. \A sequence \in DOMAIN captured : sequence \in Nat /\ sequence < k /\ captured[sequence] \in sequence .. n
  BY <1>1, <1>2, <1>4 DEF Inv, CoordinatorInv
<1>7. /\ DOMAIN captured' = DOMAIN captured \cup {k} /\ captured'[k] = n
      /\ \A sequence \in DOMAIN captured : captured'[sequence] = captured[sequence]
  <2>1. k \notin DOMAIN captured
    BY <1>2, <1>6
  <2> QED
    BY <1>4, <2>1
<1>8. Grows /\ Len(events') \in Nat
  BY <1>1, <1>4, <1>5, <1>7 DEF Grows, Inv, CheckpointsInv
<1>9. /\ EditorOK(editor) /\ session \in SessionType
      /\ PageAt(n).editor = editor /\ PageAt(n).session = session
      /\ PageAt(k).editor.issued > 0
  BY <1>1, <1>2, <1>4 DEF Inv, LogInv
<1>10. new \in CheckpointType
  <2>1. editor.document \in Values
    BY <1>9 DEF EditorOK, EditorType
  <2> QED
    BY <1>2, <1>3, <1>9, <2>1 DEF CheckpointType
<1>11. new.sequence = k /\ new.document = editor.document /\ new.session = session
  BY <1>3
<1>12. CheckpointOK(new)'
  <2>1. PageAt(n)' = PageAt(n) /\ PageAt(k)' = PageAt(k)
    BY <1>5 DEF PageAt
  <2>2. PageAt(captured[k])' = PageAt(n)'
    BY <1>7
  <2> QED
    BY <1>7, <1>9, <1>11, <2>1, <2>2 DEF CheckpointOK
<1>13. \A i \in 1 .. Len(checkpoints) : checkpoints[i].sequence < k
  BY <1>6 DEF Inv, CheckpointsInv, CheckpointOK
<1>14. \A sequence \in DOMAIN captured' :
         /\ sequence \in Nat
         /\ captured'[sequence] \in sequence .. n
         /\ sequence <= stored \/ sequence = k
  <2> TAKE sequence \in DOMAIN captured'
  <2>1. CASE sequence = k
    BY <1>1, <1>2, <1>7, <2>1
  <2>2. CASE sequence \in DOMAIN captured
    <3>1. stored \in Nat
      BY DEF Inv, CoordinatorInv
    <3> QED
      BY <1>2, <1>6, <1>7, <2>2, <3>1
  <2> QED
    BY <1>7, <2>1, <2>2
<1>15. 0 \in DOMAIN captured' /\ captured'[0] = 0
  BY <1>7 DEF Inv, CoordinatorInv
<1>16. \A i \in 1 .. Len(checkpoints') : checkpoints'[i].sequence < snapshot'.sequence
  BY <1>4, <1>11, <1>13
<1>17. CheckpointOK(snapshot)'
  BY <1>4, <1>12
<1>18. snapshot' \in CheckpointType /\ snapshot'.sequence = k
  BY <1>4, <1>10, <1>11
<1>19. /\ stored' = stored /\ stored \in 0 .. Len(events') /\ eventCount' \in 0 .. Len(events')
       /\ settled' \in Nat /\ Len(events') = n
  BY <1>1, <1>4, <1>5 DEF Inv, CoordinatorInv
<1>20. CoordinatorInv'
  BY <1>4, <1>14, <1>15, <1>16, <1>17, <1>18, <1>19 DEF CoordinatorInv
<1> QED
  BY <1>4, <1>5, <1>8, <1>20, GrownKeeps

LEMMA SaveCheckpointKeeps == ASSUME Inv, SaveCheckpoint PROVE Inv'
<1>1. PICK new : new = snapshot
  OBVIOUS
<1>2. /\ task = "captured" /\ task' = "count" /\ new.sequence <= stored
      /\ checkpoints' = Append(checkpoints, new)
      /\ UNCHANGED <<page, queue, snapshot, captured, settled, stored, eventCount, controller>>
  BY <1>1 DEF SaveCheckpoint
<1>3. /\ new \in CheckpointType /\ CheckpointOK(new)
      /\ \A i \in 1 .. Len(checkpoints) : checkpoints[i].sequence < new.sequence
  BY <1>1, <1>2 DEF Inv, CoordinatorInv
<1>4. LogInv' /\ UNCHANGED <<events, recorded>>
  BY <1>2, QueueUnchanged DEF Inv
<1>5. PICK m \in Nat : m = Len(checkpoints) /\ m >= 1
  BY DEF Inv, CheckpointsInv
<1>6. /\ checkpoints' \in Seq(CheckpointType) /\ Len(checkpoints') = m + 1
      /\ \A i \in 1 .. m : checkpoints'[i] = checkpoints[i]
      /\ checkpoints'[m + 1] = new
  BY <1>2, <1>3, <1>5 DEF Inv, CheckpointsInv
<1>7. Grows /\ Len(events') \in Nat /\ Len(checkpoints') \in Nat
  BY <1>2, <1>4, <1>5, <1>6 DEF Grows, Inv, LogInv
<1>8. \A i \in 1 .. m + 1 : CheckpointOK(checkpoints[i])'
  <2> TAKE i \in 1 .. m + 1
  <2>1. PICK c : c = checkpoints'[i]
    OBVIOUS
  <2>2. i \in 1 .. m \/ i = m + 1
    OBVIOUS
  <2>3. CheckpointOK(c)
    <3>1. CASE i \in 1 .. m
      BY <1>5, <1>6, <2>1, <3>1 DEF Inv, CheckpointsInv
    <3>2. CASE i = m + 1
      BY <1>3, <1>6, <2>1, <3>2
    <3> QED
      BY <2>2, <3>1, <3>2
  <2>4. CheckpointOK(c)'
    BY <1>7, <2>3, CheckpointKept DEF Inv
  <2> QED
    BY <2>1, <2>4
<1>9. \A i, j \in 1 .. m + 1 : i < j => checkpoints'[i].sequence < checkpoints'[j].sequence
  <2> TAKE i, j \in 1 .. m + 1
  <2>1. CASE j \in 1 .. m /\ i < j
    BY <1>5, <1>6, <2>1 DEF Inv, CheckpointsInv
  <2>2. CASE j = m + 1 /\ i < j
    <3>1. i \in 1 .. m
      BY <2>2
    <3> QED
      BY <1>3, <1>5, <1>6, <2>2, <3>1
  <2> QED
    BY <2>1, <2>2
<1>10. CheckpointsInv'
  <2>1. checkpoints'[1].sequence = 0
    BY <1>5, <1>6 DEF Inv, CheckpointsInv
  <2> QED
    BY <1>5, <1>6, <1>8, <1>9, <2>1 DEF CheckpointsInv
<1>11. CoordinatorInv'
  <2>1. \A sequence \in DOMAIN captured :
          /\ sequence \in Nat
          /\ captured[sequence] \in sequence .. Len(events)
          /\ sequence <= stored
    BY <1>1, <1>2 DEF Inv, CoordinatorInv
  <2>2. new.sequence \in 0 .. Len(events)
    <3>1. new.sequence \in Nat /\ stored \in 0 .. Len(events) /\ Len(events) \in Nat
      BY <1>3 DEF CheckpointType, Inv, LogInv, CoordinatorInv
    <3> QED
      BY <1>2, <3>1
  <2> QED
    BY <1>1, <1>2, <1>4, <2>1, <2>2 DEF Inv, CoordinatorInv
<1>12. EnginesInv' /\ CallsInv' /\ ControllerInv'
  BY <1>2, <1>7, ControllerKept
<1> QED
  BY <1>4, <1>10, <1>11, <1>12 DEF Inv

LEMMA PageKeeps == ASSUME Inv, Page PROVE Inv'
BY OperateKeeps, StoreEventKeeps, SaveSessionKeeps, CaptureCheckpointKeeps, SaveCheckpointKeeps,
   SaveCountKeeps DEF Page, Recording

-----------------------------------------------------------------------------
(* What the user asks.                                                     *)

LEMMA LogUnchanged ==
  ASSUME Inv, UNCHANGED <<page, log>>
  PROVE  LogInv' /\ CoordinatorInv' /\ CheckpointsInv' /\ Grows /\ Len(events') \in Nat /\ Len(checkpoints') \in Nat
<1>1. UNCHANGED <<page, queue, stored, eventCount, checkpoints, task, snapshot, captured, settled>>
  BY DEF log, coordinator, database
<1>2. LogInv' /\ UNCHANGED <<events, recorded>>
  BY <1>1, QueueUnchanged DEF Inv
<1>3. Grows /\ Len(events') \in Nat /\ Len(checkpoints') \in Nat
  BY <1>1, <1>2, UnchangedGrows
<1>4. stored' \in stored .. Len(events') /\ eventCount' \in 0 .. Len(events') /\ settled' \in Nat
  BY <1>1, <1>2 DEF Inv, LogInv, CoordinatorInv
<1>5. CoordinatorInv'
  BY <1>1, <1>3, <1>4, CoordinatorKept DEF Inv
<1> QED
  BY <1>1, <1>2, <1>3, <1>5, CheckpointsKept DEF Inv

LEMMA EnginesUnchanged ==
  ASSUME Inv, Grows, Len(events') \in Nat, engines' = engines, generation' \in Nat,
         generation' >= generation
  PROVE  EnginesInv' /\ EnginesStay
<1>1. \A number \in DOMAIN engines : EngineOK(engines[number])'
  <2> TAKE number \in DOMAIN engines
  <2>1. ASSUME NEW e, e = engines[number] PROVE EngineOK(e)'
    BY <2>1, EngineKept DEF Inv, EnginesInv
  <2> QED
    BY <2>1
<1>2. DOMAIN engines \subseteq 1 .. generation'
  BY DEF Inv, EnginesInv, ControllerInv
<1> QED
  BY <1>1, <1>2 DEF EnginesInv, EnginesStay, EnginesKeep

\* The calls after a step of one of them or of the user: each is an old one, or well
\* formed and with a generation that no old one has.
LEMMA CallsKept ==
  ASSUME Inv, Grows, Len(events') \in Nat, Len(checkpoints') \in Nat, EnginesStay,
         NEW new, new = generation', new = generation + 1,
         \A call \in calls' : call \in calls \/ (call.generation = new /\ CallOK(call)'),
         \A one, other \in calls' : one.generation = new /\ other.generation = new => one = other
  PROVE  CallsInv'
<1>1. generation \in Nat
  BY DEF Inv, ControllerInv
<1>2. \A call \in calls : CallOK(call)' /\ call.generation # new
  <2> TAKE call \in calls
  <2>1. ASSUME NEW c, c = call PROVE CallOK(c)' /\ c.generation # new
    BY <1>1, <2>1, MakingKept, UsingKept DEF Inv, CallsInv, CallOK, EnginesStay
  <2> QED
    BY <2>1
<1>3. \A call \in calls' : CallOK(call)'
  BY <1>2
<1>4. \A one, other \in calls' : one.generation = other.generation => one = other
  BY <1>2 DEF Inv, CallsInv
<1>5. \A call \in calls' : call.kind \in {"start", "back"} => call.generation \notin DOMAIN engines'
  BY <1>1 DEF Inv, CallsInv, EnginesInv, EnginesStay
<1> QED
  BY <1>3, <1>4, <1>5 DEF CallsInv

LEMMA RunningIsOK ==
  ASSUME StateOK(state)
  PROVE  StateOK(Running) /\ Running.status = "running" /\ Running.active
BY DEF StateOK, Running

LEMMA NotReplayingIsOK ==
  /\ StateOK(NotReplaying)
  /\ StateOK([NotReplaying EXCEPT !.active = TRUE, !.status = "running"])
  /\ StateOK([NotReplaying EXCEPT !.error = TRUE])
BY DEF StateOK, NotReplaying

\* The user asks for something: a new call, with the next generation.
LEMMA AsksKeeps ==
  ASSUME Inv, UNCHANGED <<page, log>>, playback' \in {playback, generation + 1}, NEW call, Asks(call),
         call.generation = generation + 1, MakingOK(call) \/ UsingOK(call),
         NEW s, state' = s, StateOK(s), s.status = "running", s.active,
         engine' \in {0, engine}, EnginesInv', EnginesStay
  PROVE  Inv'
<1>1. LogInv' /\ CoordinatorInv' /\ CheckpointsInv' /\ Grows /\ Len(events') \in Nat /\ Len(checkpoints') \in Nat
  BY LogUnchanged
<1>2. generation \in Nat /\ generation' = generation + 1 /\ calls' = calls \cup {call}
  BY DEF Inv, ControllerInv, Asks
<1>3. CallOK(call)'
  BY <1>1, <1>2, MakingKept, UsingKept DEF Inv, CallOK, EnginesStay
<1>4. CallsInv'
  <2>1. \A other \in calls : other.generation # generation + 1
    BY <1>2 DEF Inv, CallsInv, CallOK
  <2> QED
    BY <1>1, <1>2, <1>3, <2>1, CallsKept
<1>5. StateOK(state)'
  BY <1>1, StateKept DEF Inv
<1>6. ControllerInv'
  BY <1>2, <1>5 DEF Inv, ControllerInv, EnginesStay, EnginesKeep
<1> QED
  BY <1>1, <1>4, <1>6 DEF Inv

LEMMA MakingIsOK ==
  ASSUME Inv, NEW kind \in {"start", "back"}, NEW target \in Nat
  PROVE  MakingOK(Making(kind, target)) /\ Making(kind, target).generation = generation + 1
<1>1. generation + 1 \in Nat /\ Len(events) \in Nat
  BY DEF Inv, ControllerInv, LogInv
<1>2. << >> \in Seq(Event) /\ << >> \in Seq(CheckpointType) /\ Len(<< >>) = 0
  OBVIOUS
<1> QED
  BY <1>1, <1>2 DEF Making, MakingOK, MakingCall

LEMMA UsingCallIsOK ==
  ASSUME NEW number \in Nat, NEW kind \in {"play", "step", "run"}, NEW target \in Nat,
         NEW at \in {"previous", "wait", "step", "run"}, at \in {"previous", "wait"} => kind = "play",
         NEW driven \in Nat, driven \in DOMAIN engines,
         NEW previous \in Nat, NEW ends \in {"completed", "paused"}, NEW call,
         call = [generation |-> number, kind |-> kind, target |-> target, at |-> at,
                 engine |-> driven, previous |-> previous, finding |-> None, ends |-> ends]
  PROVE  UsingOK(call) /\ call.generation = number
<1>1. None \in Finding
  BY DEF Finding
<1>2. at \in {"previous", "wait", "step", "run", "hash"} /\ at # "hash"
  OBVIOUS
<1>3. call \in UsingCall
  BY <1>1, <1>2 DEF UsingCall
<1>4. call.at = at /\ call.kind = kind /\ call.engine = driven /\ call.generation = number
  OBVIOUS
<1> QED
  BY <1>2, <1>3, <1>4 DEF UsingOK

LEMMA UsingIsOK ==
  ASSUME Inv, engine # 0, NEW kind \in {"play", "step", "run"}, NEW target \in Nat,
         NEW at \in {"previous", "wait", "step", "run"}, at \in {"previous", "wait"} => kind = "play"
  PROVE  /\ UsingOK(Using(kind, target, at)) /\ Using(kind, target, at).generation = generation + 1
         /\ \A p \in Nat : /\ UsingOK([Using(kind, target, at) EXCEPT !.previous = p])
                           /\ [Using(kind, target, at) EXCEPT !.previous = p].generation = generation + 1
         /\ UsingOK([Using(kind, target, at) EXCEPT !.ends = "paused"])
         /\ [Using(kind, target, at) EXCEPT !.ends = "paused"].generation = generation + 1
<1>1. engine \in DOMAIN engines /\ engine \in Nat /\ generation + 1 \in Nat
  BY DEF Inv, ControllerInv, EnginesInv
<1> DEFINE Record_(p, e) ==
             [generation |-> generation + 1, kind |-> kind, target |-> target, at |-> at,
              engine |-> engine, previous |-> p, finding |-> None, ends |-> e]
<1>2. \A p \in Nat, e \in {"completed", "paused"} :
        UsingOK(Record_(p, e)) /\ Record_(p, e).generation = generation + 1
  <2> TAKE p \in Nat, e \in {"completed", "paused"}
  <2>1. PICK number \in Nat : number = generation + 1
    BY <1>1
  <2>2. PICK driven \in Nat : driven = engine
    BY <1>1
  <2>3. PICK call : call = [generation |-> number, kind |-> kind, target |-> target, at |-> at,
                            engine |-> driven, previous |-> p, finding |-> None, ends |-> e]
    OBVIOUS
  <2>4. driven \in DOMAIN engines
    BY <1>1, <2>2
  <2>5. UsingOK(call) /\ call.generation = number
    BY <2>3, <2>4, UsingCallIsOK
  <2>6. call = Record_(p, e)
    BY <2>1, <2>2, <2>3
  <2> QED
    BY <2>1, <2>5, <2>6
<1>3. Using(kind, target, at) = Record_(0, "completed")
  BY DEF Using, Drives
<1>4. \A p \in Nat : [Using(kind, target, at) EXCEPT !.previous = p] = Record_(p, "completed")
  BY DEF Using, Drives
<1>5. [Using(kind, target, at) EXCEPT !.ends = "paused"] = Record_(0, "paused")
  BY DEF Using, Drives
<1> HIDE DEF Record_
<1> QED
  BY <1>2, <1>3, <1>4, <1>5

LEMMA ControlKeeps == ASSUME Inv, Control PROVE Inv'
<1>1. UNCHANGED <<page, log>>
  BY DEF Control
<1>2. LogInv' /\ CoordinatorInv' /\ CheckpointsInv' /\ Grows /\ Len(events') \in Nat /\ Len(checkpoints') \in Nat
  BY <1>1, LogUnchanged
<1>3. generation \in Nat /\ StateOK(state)
  BY DEF Inv, ControllerInv
<1>4. ASSUME generation' = generation + 1, engines' = engines PROVE EnginesInv' /\ EnginesStay
  BY <1>2, <1>3, <1>4, EnginesUnchanged
<1>5. stored \in Nat /\ \A target \in 0 .. stored : target \in Nat
  BY DEF Inv, CoordinatorInv
<1>6. ASSUME NEW target \in 0 .. stored, Start(target) PROVE Inv'
  <2> DEFINE call == Making("start", target)
             s == [NotReplaying EXCEPT !.active = TRUE, !.status = "running"]
  <2>1. Asks(call) /\ engine' = 0 /\ state' = s /\ playback' = playback /\ engines' = engines
    BY <1>6 DEF Start
  <2>2. MakingOK(call) /\ call.generation = generation + 1
    BY <1>5, MakingIsOK
  <2>3. StateOK(s) /\ s.status = "running" /\ s.active
    BY NotReplayingIsOK DEF NotReplaying
  <2>4. EnginesInv' /\ EnginesStay
    BY <1>4, <2>1 DEF Asks
  <2>5. UNCHANGED <<page, log>> /\ engine' \in {0, engine} /\ playback' = playback
    BY <1>1, <2>1
  <2> HIDE DEF call, s
  <2> QED
    BY <2>1, <2>2, <2>3, <2>4, <2>5, AsksKeeps
<1>7. ASSUME NEW target \in 0 .. stored, RunTo(target) PROVE Inv'
  <2> DEFINE call == [Using("run", target, "run") EXCEPT !.ends = "paused"]
             s == [Running EXCEPT !.targetSequence = target]
  <2>1. /\ Asks(call) /\ engine' = engine /\ state' = s /\ playback' = playback /\ engines' = engines
        /\ engine # 0
    BY <1>7 DEF RunTo
  <2>2. UsingOK(call) /\ call.generation = generation + 1
    BY <1>5, <2>1, UsingIsOK
  <2>3. StateOK(s) /\ s.status = "running" /\ s.active
    BY <1>3, <1>5, RunningIsOK DEF StateOK
  <2>4. EnginesInv' /\ EnginesStay
    BY <1>4, <2>1 DEF Asks
  <2>5. UNCHANGED <<page, log>> /\ engine' \in {0, engine} /\ playback' = playback
    BY <1>1, <2>1
  <2> HIDE DEF call, s
  <2> QED
    BY <2>1, <2>2, <2>3, <2>4, <2>5, AsksKeeps
<1>8. CASE Resume
  <2> DEFINE call == [Using("play", state.targetSequence, "previous") EXCEPT !.previous = playback]
  <2>1. /\ Asks(call) /\ engine' = engine /\ state' = Running /\ engines' = engines
        /\ playback' = generation + 1
        /\ engine # 0 /\ state.targetSequence # None
    BY <1>8 DEF Resume
  <2>2. UsingOK(call) /\ call.generation = generation + 1
    <3>1. state.targetSequence \in Nat /\ playback \in Nat
      BY <1>3, <2>1 DEF StateOK, Inv, ControllerInv
    <3> QED
      BY <2>1, <3>1, UsingIsOK
  <2>3. EnginesInv' /\ EnginesStay
    BY <1>4, <2>1 DEF Asks
  <2>4. StateOK(Running) /\ Running.status = "running" /\ Running.active
    BY <1>3, RunningIsOK
  <2>5. /\ UNCHANGED <<page, log>> /\ engine' \in {0, engine}
        /\ playback' \in {playback, generation + 1}
    BY <1>1, <2>1
  <2> HIDE DEF call
  <2> QED
    BY <2>1, <2>2, <2>3, <2>4, <2>5, AsksKeeps
<1>9. CASE StepBackward
  <2> DEFINE target == IF state.currentSequence = 0 THEN 0 ELSE state.currentSequence - 1
             call == Making("back", target)
  <2>1. /\ Asks(call) /\ engine' = engine /\ state' = Running /\ playback' = playback
        /\ engines' = engines /\ state.currentSequence # None
    BY <1>9 DEF StepBackward
  <2>2. target \in Nat
    BY <1>3, <2>1 DEF StateOK
  <2> HIDE DEF target
  <2>3. MakingOK(call) /\ call.generation = generation + 1
    BY <2>2, MakingIsOK
  <2>4. EnginesInv' /\ EnginesStay
    BY <1>4, <2>1 DEF Asks
  <2>5. UNCHANGED <<page, log>> /\ engine' \in {0, engine} /\ playback' = playback
    BY <1>1, <2>1
  <2>6. StateOK(Running) /\ Running.status = "running" /\ Running.active
    BY <1>3, RunningIsOK
  <2> HIDE DEF call
  <2> QED
    BY <2>1, <2>3, <2>4, <2>5, <2>6, AsksKeeps
<1>10. ASSUME NEW kind \in {"step", "run"}, NEW target \in Nat, Asks(Using(kind, target, kind)),
              engine # 0, state' = Running, UNCHANGED <<engine, playback>>, EnginesInv', EnginesStay
       PROVE  Inv'
  <2> DEFINE call == Using(kind, target, kind)
  <2>1. UsingOK(call) /\ call.generation = generation + 1
    BY <1>10, UsingIsOK
  <2>2. StateOK(Running) /\ Running.status = "running" /\ Running.active
    BY <1>3, RunningIsOK
  <2>3. UNCHANGED <<page, log>> /\ engine' \in {0, engine} /\ playback' = playback /\ Asks(call)
    BY <1>1, <1>10
  <2> HIDE DEF call
  <2> QED
    BY <1>10, <2>1, <2>2, <2>3, AsksKeeps
<1>11. CASE StepForward
  <2>1. EndOfLog \in Nat
    <3>1. scenario.operations \in Nat
      BY ReplayAssumption DEF Inv, LogInv
    <3> QED
      BY <3>1 DEF EndOfLog
  <2>2. EnginesInv' /\ EnginesStay
    BY <1>4, <1>11 DEF StepForward, Asks
  <2> QED
    BY <1>10, <1>11, <2>1, <2>2 DEF StepForward
<1>12. engine # 0 => engine \in DOMAIN engines /\ engines[engine].defaultTarget \in Nat
  BY DEF Inv, ControllerInv, EnginesInv, EngineOK
<1>13. CASE Verify
  <2>1. EnginesInv' /\ EnginesStay
    BY <1>4, <1>13 DEF Verify, Asks
  <2> QED
    BY <1>10, <1>12, <1>13, <2>1 DEF Verify
<1>14. CASE ContinueBestEffort
  <2>1. /\ engines' = [engines EXCEPT ![engine] = BestEffort(engines[engine])]
        /\ generation' = generation + 1 /\ engine # 0
    BY <1>14 DEF ContinueBestEffort, Asks
  <2>2. ASSUME NEW e, EngineOK(e)'
        PROVE  EngineOK(BestEffort(e))' /\ BestEffort(e).difference = e.difference
    BY <2>2 DEF EngineOK, BestEffort
  <2>3. DOMAIN engines' = DOMAIN engines
    BY <2>1
  <2>4. \A number \in DOMAIN engines :
          /\ EngineOK(engines[number])'
          /\ engines[number].difference # None => engines'[number].difference # None
    <3> TAKE number \in DOMAIN engines
    <3>1. PICK e : e = engines[number]
      OBVIOUS
    <3>2. EngineOK(e)'
      BY <1>2, <3>1, EngineKept DEF Inv, EnginesInv
    <3>3. EngineOK(BestEffort(e))' /\ BestEffort(e).difference = e.difference
      BY <2>2, <3>2
    <3>4. engines'[number] = IF number = engine THEN BestEffort(e) ELSE e
      BY <2>1, <3>1
    <3> QED
      BY <3>1, <3>2, <3>3, <3>4
  <2>5. EnginesInv' /\ EnginesStay
    BY <1>3, <2>1, <2>3, <2>4 DEF EnginesInv, EnginesStay, EnginesKeep, Inv
  <2> QED
    BY <1>10, <1>12, <1>14, <2>5 DEF ContinueBestEffort
<1>15. ASSUME generation' = generation + 1, UNCHANGED <<playback, engines, calls>>,
              NEW s, state' = s, StateOK(s),
              (engine' = engine /\ s.active) \/ engine' = 0
       PROVE  Inv'
  <2>1. EnginesInv' /\ EnginesStay
    BY <1>4, <1>15
  <2>2. CallsInv'
    <3>1. \A other \in calls : other.generation # generation + 1
      BY <1>3 DEF Inv, CallsInv, CallOK
    <3> QED
      BY <1>2, <1>15, <2>1, <3>1, CallsKept
  <2>3. StateOK(state)'
    BY <1>2, <1>15, StateKept DEF Inv
  <2> QED
    BY <1>2, <1>3, <1>15, <2>1, <2>2, <2>3 DEF Inv, ControllerInv
<1>16. CASE Pause
  <2> DEFINE s == [state EXCEPT !.status = "paused"]
  <2>1. StateOK(s) /\ s.active
    BY <1>3, <1>16 DEF Pause, StateOK
  <2>2. /\ generation' = generation + 1 /\ UNCHANGED <<playback, engines, calls>>
        /\ state' = s /\ engine' = engine
    BY <1>16 DEF Pause
  <2> HIDE DEF s
  <2> QED
    BY <1>15, <2>1, <2>2
<1>17. CASE Stop
  BY <1>15, <1>17, NotReplayingIsOK DEF Stop
<1>18. CASE \E target \in {0, stored} : RunTo(target)
  BY <1>5, <1>7, <1>18
<1> QED
  BY <1>6, <1>8, <1>9, <1>11, <1>13, <1>14, <1>16, <1>17, <1>18 DEF Control

-----------------------------------------------------------------------------
(* The engines.                                                            *)

\* The session of a new engine has the known fields of the checkpoint's.
LEMMA RestoredFollows ==
  ASSUME NEW s \in SessionType, NEW k \in Nat, NEW at, NEW seen, seen.session = s,
         k = 0 => at.session = s /\ s = NewSession
  PROVE  SessionFollows(RestoredSession(s), at, seen, k)
<1>1. ReplayedFields \subseteq SessionFields
  BY DEF SessionFields
<1>2. \A field \in SessionFields : s[field] \in Int /\ NewSession[field] \in Int
  BY DEF SessionType, NewSession
<1>3. PICK t : t = RestoredSession(s)
  OBVIOUS
<1>4. t = [field \in SessionFields |-> IF field \in ReplayedFields THEN s[field] ELSE NewSession[field]]
  BY <1>3 DEF RestoredSession
<1>5. t \in SessionType
  <2>1. \A field \in SessionFields : (IF field \in ReplayedFields THEN s[field] ELSE NewSession[field]) \in Int
    BY <1>2
  <2> QED
    BY <1>4, <2>1 DEF SessionType
<1>6. \A field \in SessionFields : t[field] = IF field \in ReplayedFields THEN s[field] ELSE NewSession[field]
  BY <1>4
<1>7. \A field \in ReplayedFields : t[field] = s[field]
  BY <1>1, <1>6
<1>8. k = 0 => \A field \in SessionFields : t[field] = s[field]
  BY <1>6
<1>9. \A field \in KnownFields(k) : t[field] = s[field]
  BY <1>7, <1>8 DEF KnownFields
<1>10. SessionFollows(t, at, seen, k)
  BY <1>5, <1>9 DEF SessionFollows
<1> QED
  BY <1>3, <1>10

\* What a call has read makes an engine that follows the page.
LEMMA CreatedEngineIsOK ==
  ASSUME LogInv, CoordinatorInv, CheckpointsInv, NEW call, MakingOK(call), call.at = "create"
  PROVE  LET e == CreateEngine(call.events, call.checkpoints, call.target)
         IN  EngineOK(e) /\ e.difference = None
<1> DEFINE saved == call.checkpoints
           target == call.target
           at == {i \in DOMAIN saved :
                    \/ saved[i].sequence < target
                    \/ target = 0 /\ saved[i].sequence = 0}
           checkpoint == StartsAt(saved, target)
           start == checkpoint.sequence
           e == CreateEngine(call.events, saved, target)
<1>1. /\ saved \in Seq(CheckpointType) /\ Len(saved) \in 1 .. Len(checkpoints)
      /\ target \in Nat /\ call.events \in Seq(Event)
      /\ Len(events) \in Nat /\ Len(checkpoints) \in Nat
  BY DEF MakingOK, MakingCall, LogInv, CheckpointsInv
<1>2. at # {}
  <2>1. 1 \in DOMAIN saved /\ saved[1].sequence = 0
    BY <1>1 DEF MakingOK, CheckpointsInv
  <2> QED
    BY <1>1, <2>1
<1>3. at \in SUBSET (1 .. Len(saved))
  BY <1>1
<1> HIDE DEF at
<1>4. PICK m \in 1 .. Len(saved) : m = Max(at)
  <2>1. Len(saved) \in Nat
    BY <1>1
  <2> QED
    BY <1>2, <1>3, <2>1, LargestPosition
<1>5. checkpoint = checkpoints[m] /\ m \in 1 .. Len(checkpoints)
  <2>1. checkpoint = saved[m]
    BY <1>4 DEF StartsAt, at
  <2> QED
    BY <1>1, <2>1 DEF MakingOK
<1>6. /\ checkpoint \in CheckpointType /\ start \in Nat
      /\ start <= Len(call.events) /\ Len(call.events) \in Nat /\ Len(call.events) <= Len(events)
  <2>1. checkpoints[m] \in CheckpointType
    BY <1>5 DEF CheckpointsInv
  <2>2. checkpoints[m].sequence <= Len(call.events)
    BY <1>4 DEF MakingOK, saved
  <2>3. checkpoints[m].sequence \in Nat
    BY <2>1 DEF CheckpointType
  <2> QED
    BY <1>1, <1>5, <2>1, <2>2, <2>3 DEF MakingOK
<1>7. /\ checkpoint.document \in Values /\ checkpoint.session \in SessionType
      /\ CheckpointOK(checkpoint)
  BY <1>5, <1>6 DEF CheckpointsInv, CheckpointType
<1>8. PICK seen : seen = captured[start]
  OBVIOUS
<1>9. /\ start \in DOMAIN captured /\ seen \in start .. Len(events) /\ (start = 0 => seen = 0)
      /\ Seen(start, start) = seen
      /\ checkpoint.document = PageAt(seen).editor.document
      /\ checkpoint.session = PageAt(seen).session
      /\ start > 0 => PageAt(start).editor.issued > 0
  <2>1. start \in DOMAIN captured
    BY <1>7 DEF CheckpointOK
  <2>2. seen \in start .. Len(events) /\ (start = 0 => seen = 0)
    BY <1>8, <2>1 DEF CoordinatorInv
  <2>3. Seen(start, start) = seen
    BY <1>1, <1>6, <1>8, <2>2 DEF Seen
  <2> QED
    BY <1>7, <1>8, <2>1, <2>2, <2>3 DEF CheckpointOK
<1>10. PICK k \in Nat : k = start
  BY <1>6
<1>11. PICK document \in Values : document = checkpoint.document
  BY <1>7
<1>12. PICK kept \in SessionType : kept = checkpoint.session
  BY <1>7
<1>13. /\ k \in DOMAIN captured /\ Seen(k, k) = seen /\ (k = 0 => seen = 0)
       /\ document = PageAt(seen).editor.document /\ kept = PageAt(seen).session
       /\ k > 0 => PageAt(k).editor.issued > 0
  <2>1. k \in DOMAIN captured /\ Seen(k, k) = seen
    BY <1>9, <1>10
  <2>2. k = 0 => seen = 0
    BY <1>9, <1>10
  <2>3. document = PageAt(seen).editor.document /\ kept = PageAt(seen).session
    BY <1>9, <1>11, <1>12
  <2>4. k > 0 => PageAt(k).editor.issued > 0
    BY <1>9, <1>10
  <2> QED
    BY <2>1, <2>2, <2>3, <2>4
<1> DEFINE after == After(call.events, start)
<1> HIDE DEF checkpoint, saved, target
<1>14. /\ after \in Seq(Event) /\ Len(after) = Len(call.events) - start
      /\ \A i \in 1 .. Len(after) : after[i] = events[start + i]
  <2>1. \A i \in start + 1 .. Len(call.events) : call.events[i] \in Event
    BY <1>1, <1>6
  <2>2. /\ after \in Seq(Event)
        /\ Len(after) = Len(call.events) - start
        /\ \A i \in 1 .. Len(call.events) - start : after[i] = call.events[start + i]
    <3>1. start + 1 \in Int /\ Len(call.events) \in Int
      BY <1>6
    <3>2. after = SubSeq(call.events, start + 1, Len(call.events))
      BY DEF After
    <3>3. /\ after \in Seq(Event)
          /\ Len(after) = IF start + 1 <= Len(call.events) THEN Len(call.events) - (start + 1) + 1 ELSE 0
          /\ \A i \in 1 .. Len(call.events) - (start + 1) + 1 : after[i] = call.events[start + 1 + i - 1]
      BY <2>1, <3>1, <3>2, SubSeqProperties
    <3> HIDE DEF start, after
    <3>4. Len(after) = Len(call.events) - start /\ Len(call.events) - (start + 1) + 1 = Len(call.events) - start
      BY <1>6, <3>3
    <3>5. \A i \in 1 .. Len(call.events) - start : start + 1 + i - 1 = start + i
      BY <1>6
    <3> QED
      BY <3>3, <3>4, <3>5
  <2>3. \A i \in 1 .. Len(call.events) : call.events[i] = events[i]
    BY DEF MakingOK
  <2> HIDE DEF start, after
  <2>4. \A i \in 1 .. Len(after) : start + i \in 1 .. Len(call.events)
    BY <1>6, <2>2
  <2> QED
    BY <2>2, <2>3, <2>4
<1>15. e = [parts |-> [editor |-> NewEditor(checkpoint.document), session |-> RestoredSession(checkpoint.session),
                      workspace |-> NewWorkspace(checkpoint.workspace)],
           events |-> after, startedAt |-> start, defaultTarget |-> target,
           current |-> start, eventIndex |-> 1,
           paused |-> FALSE, bestEffort |-> FALSE, difference |-> None]
  BY DEF CreateEngine, checkpoint, target, saved
<1>16. PICK parts : parts = e.parts
  OBVIOUS
<1>17. /\ IsParts(parts) /\ parts.editor = NewEditor(document) /\ parts.session = RestoredSession(kept)
  BY <1>15, <1>11, <1>12, <1>16 DEF IsParts
<1>18. Follows(parts, PageAt(k), PageAt(Seen(k, k)), k)
  <2>1. EditorOK(NewEditor(document))
    BY NewEditorIsOK
  <2>2. k = 0 => PageAt(k).session = kept /\ kept = NewSession
    BY <1>13 DEF PageAt
  <2>3. SessionFollows(RestoredSession(kept), PageAt(k), PageAt(seen), k)
    BY <1>13, <2>2, RestoredFollows
  <2>4. k = 0 => PageAt(k).editor = NewEditor(document)
    BY <1>13 DEF PageAt, NewEditor
  <2>5. /\ NewEditor(document).document = document /\ NewEditor(document).entries = << >>
        /\ NewEditor(document).index = 0 /\ NewEditor(document).issued = 0
    BY DEF NewEditor
  <2>6. k # 0 => 0 < PageAt(k).editor.issued
    BY <1>13
  <2> QED
    BY <1>17, <1>13, <2>1, <2>3, <2>4, <2>5, <2>6 DEF Follows
<1>19. PICK new : new = e
  OBVIOUS
<1>20. /\ DOMAIN new = {"parts", "events", "startedAt", "defaultTarget", "current", "eventIndex",
                       "paused", "bestEffort", "difference"}
       /\ new.startedAt = k /\ new.current = k /\ new.eventIndex = 1 /\ new.difference = None
       /\ new.parts = parts /\ new.events = after /\ new.defaultTarget = target
  BY <1>15, <1>10, <1>16, <1>19
<1>21. target \in Nat /\ None \in Finding
  BY <1>1 DEF target, Finding
<1>22. /\ after \in Seq(Event) /\ k + Len(after) <= Len(events) /\ Len(after) \in Nat
       /\ \A i \in 1 .. Len(after) : after[i] = events[k + i]
  BY <1>6, <1>14, <1>10
<1> HIDE DEF start, after
<1>23. new.eventIndex \in 1 .. Len(new.events) + 1 /\ new.current = new.startedAt + new.eventIndex - 1
  BY <1>20, <1>22
<1>24. EngineOK(new)
  BY <1>17, <1>13, <1>18, <1>20, <1>21, <1>22, <1>23 DEF EngineOK
<1> QED
  BY <1>19, <1>20, <1>24 DEF saved, target

\* A step of an engine replays the next event of the log.
LEMMA StepIsOK ==
  ASSUME LogInv, CoordinatorInv, NEW e, EngineOK(e), e.eventIndex <= Len(e.events)
  PROVE  /\ StepFinds(e) \in Finding
         /\ EngineOK(StepEnd(StepBegin(e), StepFinds(e)))
         /\ e.difference # None => StepEnd(StepBegin(e), StepFinds(e)).difference # None
         /\ StepBegin(e).difference = e.difference
         /\ StepHashes(e) => /\ EngineOK(StepBegin(e))
                             /\ e.difference = None => StepFinds(e) = None
<1> DEFINE event == e.events[e.eventIndex]
           handled == Handle(event, e.parts)
           begun == StepBegin(e)
           finding == StepFinds(e)
           next == StepEnd(begun, finding)
<1>1. PICK k : k = e.current + 1
  OBVIOUS
<1>2. /\ Len(events) \in Nat /\ Len(e.events) \in Nat /\ e.startedAt \in Nat /\ e.eventIndex \in Nat
      /\ e.current \in Nat /\ k \in 1 .. Len(events) /\ k = e.startedAt + e.eventIndex
      /\ e.eventIndex \in 1 .. Len(e.events) /\ e.current = k - 1 /\ k - 1 \in 0 .. Len(events)
  BY <1>1 DEF EngineOK, LogInv
<1>3. event = events[k] /\ event.sequence = k
  BY <1>2 DEF EngineOK, LogInv
<1>4. /\ IsParts(handled.parts) /\ handled.difference \in Finding
      /\ handled.difference # None => handled.difference.sequence = k
  <2>1. event.sequence \in Nat /\ IsParts(e.parts)
    BY <1>2, <1>3 DEF EngineOK
  <2> HIDE DEF event
  <2> QED
    BY <1>3, <2>1, HandleGivesParts
<1>5. /\ EditorOK(PageAt(k - 1).editor) /\ PageAt(k - 1).session \in SessionType
      /\ LogStep(event, PageAt(k - 1), PageAt(k))
      /\ recorded[k].cut = Cuts(PageAt(k - 1).editor)
  BY <1>2, <1>3 DEF LogInv
<1>6. PICK base \in Nat : base = captured[e.startedAt] /\ (e.startedAt = 0 => base = 0)
  <2>1. /\ captured[e.startedAt] \in e.startedAt .. Len(events)
        /\ e.startedAt = 0 => captured[e.startedAt] = 0
    BY DEF EngineOK, CoordinatorInv
  <2> QED
    BY <1>2, <2>1
<1>7. PICK ahead \in BOOLEAN : ahead <=> k <= base
  <2>1. CASE k <= base
    BY <2>1
  <2>2. CASE ~(k <= base)
    BY <2>2
  <2> QED
    BY <2>1, <2>2
<1>8. PICK seen : seen = PageAt(Seen(k - 1, e.startedAt))
  OBVIOUS
<1>9. PICK sees : sees = PageAt(Seen(k, e.startedAt))
  OBVIOUS
<1>10. Shows(PageAt(k - 1), PageAt(k), seen, sees, e.startedAt, ahead)
  <2>1. CASE ahead
    <3>1. k - 1 < base /\ k <= base /\ base # 0
      BY <1>2, <1>7, <2>1
    <3>2. Seen(k - 1, e.startedAt) = base
      BY <1>6, <3>1 DEF Seen
    <3>3. Seen(k, e.startedAt) = base
      BY <1>2, <1>6, <3>1 DEF Seen
    <3>4. sees = seen /\ e.startedAt # 0
      BY <1>6, <1>8, <1>9, <3>1, <3>2, <3>3
    <3> QED
      BY <2>1, <3>4 DEF Shows
  <2>2. CASE ~ahead
    <3>1. ~(k - 1 < base) /\ ~(k < base)
      BY <1>2, <1>7, <2>2
    <3>2. Seen(k - 1, e.startedAt) = k - 1
      BY <1>6, <3>1 DEF Seen
    <3>3. Seen(k, e.startedAt) = k
      BY <1>6, <3>1 DEF Seen
    <3>4. seen = PageAt(k - 1) /\ sees = PageAt(k)
      BY <1>8, <1>9, <3>2, <3>3
    <3> QED
      BY <2>2, <3>4 DEF Shows
  <2> QED
    BY <2>1, <2>2
<1>11. e.difference = None =>
        Replays(event, handled, PageAt(k - 1), PageAt(k), sees, e.startedAt, ahead)
  <2>1. ASSUME e.difference = None
        PROVE  Replays(event, handled, PageAt(k - 1), PageAt(k), sees, e.startedAt, ahead)
    <3>1. /\ event.sequence \in Nat /\ IsParts(e.parts) /\ e.startedAt \in Nat
          /\ Follows(e.parts, PageAt(k - 1), seen, e.startedAt)
      BY <1>2, <1>3, <1>8, <2>1 DEF EngineOK
    <3> HIDE DEF event
    <3> QED
      BY <1>5, <1>10, <3>1, EventIsReplayed
  <2> QED
    BY <2>1
<1>12. finding = IF /\ handled.difference = None
                   /\ event.category = "document" /\ event.status = "succeeded"
                   /\ handled.parts.editor.document # event.afterHash
                THEN [type |-> "state-hash-mismatch", sequence |-> k]
                ELSE handled.difference
  BY <1>3 DEF StepFinds
<1>13. finding \in Finding
  BY <1>2, <1>4, <1>12 DEF Finding, DifferenceType
<1>14. ASSUME e.difference = None
      PROVE  /\ finding = handled.difference
             /\ finding = None => Follows(handled.parts, PageAt(k), sees, e.startedAt)
             /\ finding # None => Unreplayable(events[k], e.startedAt)
  <2>1. Replays(event, handled, PageAt(k - 1), PageAt(k), sees, e.startedAt, ahead)
    BY <1>11, <1>14
  <2>2. finding = handled.difference
    BY <1>12, <2>1 DEF Replays
  <2>3. Excused(event, e.startedAt, ahead, PageAt(k - 1).editor) => Unreplayable(events[k], e.startedAt)
    BY <1>3, <1>5, <1>6, <1>7 DEF Excused, Unreplayable
  <2> QED
    BY <2>1, <2>2, <2>3 DEF Replays
<1>15. finding # None => finding.sequence = k
  BY <1>4, <1>12
<1>16. /\ DOMAIN begun = DOMAIN e
       /\ begun.startedAt = e.startedAt /\ begun.defaultTarget = e.defaultTarget
       /\ begun.events = e.events /\ begun.difference = e.difference
       /\ begun.eventIndex = e.eventIndex + 1 /\ begun.current = k
       /\ begun.parts = handled.parts
  BY <1>3 DEF StepBegin, EngineOK
<1>17. /\ DOMAIN next = DOMAIN e
       /\ next.startedAt = e.startedAt /\ next.defaultTarget = e.defaultTarget
       /\ next.events = e.events
       /\ next.eventIndex = e.eventIndex + 1 /\ next.current = k
       /\ next.parts = handled.parts
       /\ next.difference = IF e.difference = None THEN finding ELSE e.difference
  <2> HIDE DEF begun, finding
  <2> QED
    BY <1>16 DEF StepEnd, EngineOK
<1> HIDE DEF event, handled, begun, finding, next
<1>18. ASSUME NEW new,
              /\ DOMAIN new = DOMAIN e
              /\ new.startedAt = e.startedAt /\ new.defaultTarget = e.defaultTarget
              /\ new.events = e.events
              /\ new.eventIndex = e.eventIndex + 1 /\ new.current = k
              /\ new.parts = handled.parts,
              new.difference \in Finding,
              new.difference = None => Follows(handled.parts, PageAt(k), sees, e.startedAt),
              new.difference # None => /\ new.difference.sequence \in 1 .. Len(events)
                                       /\ Unreplayable(events[new.difference.sequence], e.startedAt)
       PROVE  EngineOK(new)
  <2>1. new.eventIndex \in 1 .. Len(new.events) + 1 /\ new.current = new.startedAt + new.eventIndex - 1
    BY <1>2, <1>18
  <2>2. e.startedAt \in DOMAIN captured
    BY DEF EngineOK
  <2> QED
    BY <1>4, <1>9, <1>18, <2>1, <2>2 DEF EngineOK
<1>19. EngineOK(next)
  <2>1. CASE e.difference = None
    BY <1>2, <1>13, <1>14, <1>15, <1>17, <1>18, <2>1
  <2>2. CASE e.difference # None
    BY <1>17, <1>18, <2>2 DEF EngineOK
  <2> QED
    BY <2>1, <2>2
<1>20. ASSUME StepHashes(e)
       PROVE  EngineOK(begun) /\ (e.difference = None => finding = None)
  <2>1. handled.difference = None
    BY <1>20 DEF StepHashes, handled, event
  <2>2. e.difference = None => finding = None
    BY <1>14, <2>1
  <2>3. CASE e.difference = None
    BY <1>14, <1>16, <1>18, <2>2, <2>3 DEF Finding
  <2>4. CASE e.difference # None
    BY <1>16, <1>18, <2>4 DEF EngineOK
  <2> QED
    BY <2>2, <2>3, <2>4
<1> QED
  BY <1>13, <1>16, <1>17, <1>19, <1>20 DEF begun, finding, next

LEMMA StepEndIsOK ==
  ASSUME NEW e, EngineOK(e), NEW finding, e.difference = None => finding = None
  PROVE  EngineOK(StepEnd(e, finding)) /\ StepEnd(e, finding).difference = e.difference
<1>1. CASE finding = None
  BY <1>1 DEF StepEnd
<1>2. CASE finding # None
  <2> DEFINE next == StepEnd(e, finding)
  <2>1. /\ DOMAIN next = DOMAIN e
        /\ next.startedAt = e.startedAt /\ next.defaultTarget = e.defaultTarget
        /\ next.events = e.events /\ next.eventIndex = e.eventIndex /\ next.current = e.current
        /\ next.parts = e.parts /\ next.difference = e.difference
    BY <1>2 DEF StepEnd, EngineOK
  <2> HIDE DEF next
  <2>2. EngineOK(next)
    BY <2>1 DEF EngineOK
  <2> QED
    BY <2>1, <2>2 DEF next
<1> QED
  BY <1>1, <1>2

\* What the controller publishes of an engine.
LEMMA StateFromIsOK ==
  ASSUME LogInv, CoordinatorInv, NEW e, EngineOK(e), NEW ended, NEW target \in Nat,
         NEW status \in {"running", "paused", "completed"}
  PROVE  /\ StateOK(StateFrom(Result(e, ended, target), status))
         /\ StateFrom(Result(e, ended, target), status).active
         /\ StateFrom(Result(e, ended, target), status).status = status
<1>1. e.current \in 0 .. Len(events) /\ e.current \in Nat
  BY DEF EngineOK, LogInv
<1>2. e.difference = None => FrameOK(Frame(e), e.startedAt)
  <2>1. ASSUME e.difference = None PROVE FrameOK(Frame(e), e.startedAt)
    <3>1. /\ e.startedAt \in DOMAIN captured /\ captured[e.startedAt] \in Nat
          /\ e.startedAt = 0 => captured[e.startedAt] = 0
      BY DEF EngineOK, CoordinatorInv
    <3>2. ASSUME captured[e.startedAt] <= e.current
          PROVE  /\ e.parts.editor.document = PageAt(e.current).editor.document
                 /\ \A field \in KnownFields(e.startedAt) :
                      e.parts.session[field] = PageAt(e.current).session[field]
      <4>1. Seen(e.current, e.startedAt) = e.current
        BY <1>1, <3>1, <3>2 DEF Seen
      <4>2. Follows(e.parts, PageAt(e.current), PageAt(e.current), e.startedAt)
        BY <2>1, <4>1 DEF EngineOK
      <4> QED
        BY <4>2 DEF Follows, SessionFollows
    <3> QED
      BY <1>1, <3>1, <3>2 DEF FrameOK, Frame
  <2> QED
    BY <2>1
<1> DEFINE s == StateFrom(Result(e, ended, target), status)
<1>3. s = [active |-> TRUE, status |-> status, currentSequence |-> e.current,
           targetSequence |-> target, startedAtSequence |-> e.startedAt,
           difference |-> e.difference, frame |-> Frame(e), error |-> FALSE]
  BY DEF StateFrom, Result
<1> HIDE DEF s
<1>4. StateOK(s) /\ s.active /\ s.status = status
  BY <1>1, <1>2, <1>3 DEF StateOK
<1> QED
  BY <1>4 DEF s

-----------------------------------------------------------------------------
(* The controller's calls.                                                 *)

\* A step of a call leaves it where next says, or ends it.
LEMMA CallKeeps ==
  ASSUME Inv, LogInv', CoordinatorInv', CheckpointsInv', Grows, Len(events') \in Nat, Len(checkpoints') \in Nat,
         UNCHANGED generation, playback' \in Nat, EnginesInv', EnginesKeep,
         NEW call \in calls, NEW next,
         calls' = Others(call) \/ (/\ calls' = Others(call) \cup {next}
                                   /\ next.generation = call.generation
                                   /\ MakingOK(next)' \/ UsingOK(next)'
                                   /\ next.kind \in {"start", "back"} =>
                                        /\ call.kind \in {"start", "back"}
                                        /\ DOMAIN engines' = DOMAIN engines),
         DOMAIN engines' \subseteq DOMAIN engines \cup {call.generation},
         NEW s, s = state', StateOK(s),
         \/ s.status = state.status
         \/ Current(call) /\ (s.status = "running" \/ calls' = Others(call)),
         engine' \in {0} \cup DOMAIN engines', engine' # 0 => s.active
  PROVE  Inv'
<1>1. generation \in Nat /\ CallOK(call)
  BY DEF Inv, ControllerInv, CallsInv
<1>2. \A other \in Others(call) : other \in calls /\ other.generation # call.generation
  BY DEF Others
<1>3. \A other \in Others(call) : CallOK(other)'
  <2> TAKE other \in Others(call)
  <2>1. PICK c : c = other
    OBVIOUS
  <2>2. CallOK(c) /\ c.generation # call.generation
    BY <1>2, <2>1 DEF Inv, CallsInv
  <2>3. MakingOK(c)' \/ UsingOK(c)'
    BY <2>2, MakingKept, UsingKept DEF Inv, CallOK
  <2>4. c.generation = generation => state'.status = "running"
    BY <2>2 DEF CallOK, Current
  <2>5. CallOK(c)'
    BY <2>2, <2>3, <2>4 DEF CallOK
  <2> QED
    BY <2>1, <2>5
<1>4. calls' = Others(call) \cup {next} => CallOK(next)' \/ calls' = Others(call)
  BY <1>1 DEF CallOK, Current
<1>5. \A other \in calls' : CallOK(other)'
  BY <1>3, <1>4
<1>6. CallsInv'
  <2>1. \A other \in calls' : other.kind \in {"start", "back"} => other.generation \notin DOMAIN engines'
    BY <1>2 DEF Inv, CallsInv
  <2> QED
    BY <1>2, <1>5, <2>1 DEF Inv, CallsInv
<1>7. StateOK(state)'
  <2>1. StateOK(s)'
    BY StateKept DEF Inv
  <2> QED
    BY <2>1
<1>8. ControllerInv'
  BY <1>1, <1>7 DEF ControllerInv
<1> QED
  BY <1>6, <1>8 DEF Inv

\* The same, of a step that only reads.
LEMMA ReadKeeps ==
  ASSUME Inv, LogInv', CoordinatorInv', CheckpointsInv', Grows, Len(events') \in Nat, Len(checkpoints') \in Nat,
         UNCHANGED <<state, generation, engine, playback, engines>>,
         NEW call \in calls, NEW next,
         calls' = Others(call) \/ (/\ calls' = Others(call) \cup {next}
                                   /\ next.generation = call.generation /\ next.kind = call.kind
                                   /\ MakingOK(next) \/ UsingOK(next))
  PROVE  Inv'
<1>1. EnginesInv' /\ EnginesKeep /\ DOMAIN engines' = DOMAIN engines
  BY EnginesUnchanged DEF Inv, ControllerInv, EnginesStay
<1>2. MakingOK(next) \/ UsingOK(next) => MakingOK(next)' \/ UsingOK(next)'
  BY <1>1, MakingKept, UsingKept DEF Inv
<1>3. PICK s : s = state'
  OBVIOUS
<1>4. StateOK(s) /\ s.status = state.status /\ (engine # 0 => s.active)
  BY <1>3 DEF Inv, ControllerInv
<1>5. playback' \in Nat /\ engine' \in {0} \cup DOMAIN engines' /\ (engine' # 0 => s.active)
  BY <1>4 DEF Inv, ControllerInv
<1> QED
  BY <1>1, <1>2, <1>3, <1>4, <1>5, CallKeeps

LEMMA CallIsOne ==
  ASSUME Inv, NEW call \in calls
  PROVE  /\ call.generation \in 1 .. generation
         /\ call.at \in {"flush", "tasks", "inputs", "session", "events", "checkpoints", "create"} =>
              MakingOK(call)
         /\ call.at \in {"previous", "wait", "step", "run", "hash"} => UsingOK(call)
BY DEF Inv, CallsInv, CallOK, MakingOK, UsingOK, MakingCall, UsingCall

LEMMA FlushBeginKeeps == ASSUME Inv, NEW call \in calls, FlushBegin(call) PROVE Inv'
<1>1. PICK asked \in Nat : asked = Asked
  BY AskedIsCount DEF Inv
<1>2. PICK next : next = [call EXCEPT !.at = "tasks", !.until = asked]
  OBVIOUS
<1>3. /\ calls' = Others(call) \cup {next} /\ call.at = "flush"
      /\ UNCHANGED <<page, log, state, generation, engine, playback, engines>>
  BY <1>1, <1>2 DEF FlushBegin, Continue
<1>4. MakingOK(next) /\ next.generation = call.generation /\ next.kind = call.kind
  BY <1>2, <1>3, CallIsOne DEF MakingOK, MakingCall
<1> QED
  BY <1>3, <1>4, LogUnchanged, ReadKeeps

LEMMA FlushTasksKeeps == ASSUME Inv, NEW call \in calls, FlushTasks(call) PROVE Inv'
<1>1. PICK given \in Nat : given = Len(events)
  BY DEF Inv, LogInv
<1>2. PICK next : next = [call EXCEPT !.at = "inputs", !.until = given]
  OBVIOUS
<1>3. /\ calls' = Others(call) \cup {next} /\ call.at = "tasks"
      /\ UNCHANGED <<page, log, state, generation, engine, playback, engines>>
  BY <1>1, <1>2 DEF FlushTasks, Continue
<1>4. MakingOK(next) /\ next.generation = call.generation /\ next.kind = call.kind
  BY <1>2, <1>3, CallIsOne DEF MakingOK, MakingCall
<1> QED
  BY <1>3, <1>4, LogUnchanged, ReadKeeps

LEMMA FlushSaveKeeps == ASSUME Inv, NEW call \in calls, FlushSave(call) PROVE Inv'
<1>1. PICK next : next = [call EXCEPT !.at = "session", !.until = 0]
  OBVIOUS
<1>2. /\ calls' = Others(call) \cup {next} /\ call.at = "inputs" /\ eventCount' \in Numbers
      /\ UNCHANGED <<page, queue, task, snapshot, captured, settled, stored, checkpoints>>
      /\ UNCHANGED <<state, generation, engine, playback, engines>>
  BY <1>1 DEF FlushSave, Continue, coordinator
<1>3. MakingOK(next) /\ next.generation = call.generation /\ next.kind = call.kind
  BY <1>1, <1>2, CallIsOne DEF MakingOK, MakingCall
<1>4. LogInv' /\ UNCHANGED <<events, recorded>>
  BY <1>2, QueueUnchanged DEF Inv
<1>5. Grows /\ Len(events') \in Nat /\ Len(checkpoints') \in Nat
  BY <1>2, <1>4, UnchangedGrows
<1>6. eventCount' \in 0 .. Len(events')
  BY <1>2, <1>4, NumbersAreStored DEF Inv
<1>7. stored' \in stored .. Len(events') /\ settled' \in Nat
  BY <1>2, <1>4 DEF Inv, LogInv, CoordinatorInv
<1>8. CoordinatorInv' /\ CheckpointsInv'
  BY <1>2, <1>5, <1>6, <1>7, CoordinatorKept, CheckpointsKept DEF Inv
<1> QED
  BY <1>2, <1>3, <1>4, <1>5, <1>8, ReadKeeps

LEMMA ReadSessionKeeps == ASSUME Inv, NEW call \in calls, ReadSession(call) PROVE Inv'
<1>1. PICK next : next = [call EXCEPT !.at = "events", !.count = eventCount]
  OBVIOUS
<1>2. /\ calls' = Others(call) \cup {next} /\ call.at = "session"
      /\ UNCHANGED <<page, log, state, generation, engine, playback, engines>>
  BY <1>1 DEF ReadSession, Continue
<1>3. eventCount \in Nat
  BY DEF Inv, LogInv, CoordinatorInv
<1>4. MakingOK(next) /\ next.generation = call.generation /\ next.kind = call.kind
  BY <1>1, <1>2, <1>3, CallIsOne DEF MakingOK, MakingCall
<1> QED
  BY <1>2, <1>4, LogUnchanged, ReadKeeps

LEMMA ReadEventsKeeps == ASSUME Inv, NEW call \in calls, ReadEvents(call) PROVE Inv'
<1>1. PICK part : part = SubSeq(events, 1, stored)
  OBVIOUS
<1>2. PICK next : next = [call EXCEPT !.at = "checkpoints", !.events = part]
  OBVIOUS
<1>3. /\ calls' = Others(call) \cup {next} /\ call.at = "events"
      /\ UNCHANGED <<page, log, state, generation, engine, playback, engines>>
  BY <1>1, <1>2 DEF ReadEvents, Continue
<1>4. events \in Seq(Event) /\ stored \in 0 .. Len(events) /\ Len(events) \in Nat
  BY DEF Inv, LogInv, CoordinatorInv
<1>5. part \in Seq(Event) /\ Len(part) = stored /\ \A i \in 1 .. stored : part[i] = events[i]
  BY <1>1, <1>4
<1>6. MakingOK(next) /\ next.generation = call.generation /\ next.kind = call.kind
  <2>1. call \in MakingCall
    BY <1>3, CallIsOne DEF MakingOK
  <2>2. next \in MakingCall /\ next.events = part /\ next.at = "checkpoints"
    BY <1>2, <1>5, <2>1 DEF MakingCall
  <2> QED
    BY <1>2, <1>4, <1>5, <2>1, <2>2 DEF MakingOK, MakingCall
<1> QED
  BY <1>3, <1>6, LogUnchanged, ReadKeeps

LEMMA ReadCheckpointsKeeps == ASSUME Inv, NEW call \in calls, ReadCheckpoints(call) PROVE Inv'
<1> DEFINE read == {i \in DOMAIN checkpoints : checkpoints[i].sequence <= Len(call.events)}
<1>1. call.at = "checkpoints" /\ call \in MakingCall /\ MakingOK(call)
  BY CallIsOne DEF ReadCheckpoints, MakingOK
<1>2. PICK n \in Nat : n = Len(checkpoints)
  BY DEF Inv, CheckpointsInv
<1>3. /\ checkpoints \in Seq(CheckpointType) /\ Len(call.events) \in Nat /\ n >= 1
      /\ \A i \in 1 .. n : checkpoints[i] \in CheckpointType /\ checkpoints[i].sequence \in Nat
  <2>1. checkpoints \in Seq(CheckpointType)
    BY DEF Inv, CheckpointsInv
  <2>2. \A i \in 1 .. n : checkpoints[i] \in CheckpointType
    BY <1>2, <2>1
  <2> QED
    BY <1>1, <1>2, <2>1, <2>2 DEF Inv, CheckpointsInv, CheckpointType, MakingCall
<1>4. read \in SUBSET (1 .. n) /\ read # {}
  <2>1. 1 \in read
    BY <1>2, <1>3 DEF Inv, CheckpointsInv
  <2> QED
    BY <1>2, <1>3, <2>1
<1>5. PICK m \in read : m = Max(read)
  BY <1>4, LargestPosition
<1>6. m \in 1 .. n /\ checkpoints[m].sequence <= Len(call.events)
  BY <1>4, <1>5
<1>7. \A i \in 1 .. m : checkpoints[i].sequence <= Len(call.events)
  <2> TAKE i \in 1 .. m
  <2>1. i = m \/ checkpoints[i].sequence < checkpoints[m].sequence
    BY <1>2, <1>6 DEF Inv, CheckpointsInv
  <2>2. i \in 1 .. n
    BY <1>6
  <2> QED
    BY <1>3, <1>6, <2>1, <2>2
<1>8. PICK part : part = SubSeq(checkpoints, 1, m)
  OBVIOUS
<1>9. part \in Seq(CheckpointType) /\ Len(part) = m /\ \A i \in 1 .. m : part[i] = checkpoints[i]
  BY <1>2, <1>3, <1>6, <1>8
<1>10. PICK next : next = [call EXCEPT !.at = "create", !.checkpoints = part]
  OBVIOUS
<1>11. /\ calls' = Others(call) \cup {next}
       /\ UNCHANGED <<page, log, state, generation, engine, playback, engines>>
  BY <1>5, <1>8, <1>10 DEF ReadCheckpoints, Continue
<1>12. /\ next \in MakingCall /\ next.generation = call.generation /\ next.kind = call.kind /\ next.events = call.events
       /\ next.checkpoints = part
  BY <1>1, <1>9, <1>10 DEF MakingCall
<1>13. MakingOK(next)
  BY <1>1, <1>2, <1>6, <1>7, <1>9, <1>12 DEF MakingOK
<1> QED
  BY <1>11, <1>12, <1>13, LogUnchanged, ReadKeeps

\* A call that ends without an engine.
LEMMA EndKeeps ==
  ASSUME Inv, NEW call \in calls, UNCHANGED <<page, log, generation, playback, engines>>,
         Finish(call), NEW s, s = state', StateOK(s), s = state \/ Current(call),
         (engine' = engine /\ (engine # 0 => s.active)) \/ engine' = 0
  PROVE  Inv'
<1>1. LogInv' /\ CoordinatorInv' /\ CheckpointsInv' /\ Grows /\ Len(events') \in Nat /\ Len(checkpoints') \in Nat
  BY LogUnchanged
<1>2. EnginesInv' /\ EnginesKeep /\ DOMAIN engines' = DOMAIN engines
  BY <1>1, EnginesUnchanged DEF Inv, ControllerInv, EnginesStay
<1>3. playback' \in Nat /\ engine' \in {0} \cup DOMAIN engines' /\ (engine' # 0 => s.active)
  BY DEF Inv, ControllerInv
<1> QED
  BY <1>1, <1>2, <1>3, CallKeeps DEF Finish

LEMMA RecoveredIsOK ==
  ASSUME StateOK(state)
  PROVE  StateOK(Recovered) /\ Recovered.active
BY DEF StateOK, Recovered

LEMMA CreateFailsKeeps == ASSUME Inv, NEW call \in calls, CreateFails(call) PROVE Inv'
<1>1. PICK s : s = state'
  OBVIOUS
<1>2. Finish(call) /\ UNCHANGED <<page, log, generation, playback, engines>>
  BY DEF CreateFails
<1>3. StateOK(state) /\ (engine # 0 => state.active)
  BY DEF Inv, ControllerInv
<1>4. CASE Current(call) /\ call.kind = "start"
  <2>1. s = [NotReplaying EXCEPT !.error = TRUE] /\ engine' = 0
    BY <1>1, <1>4 DEF CreateFails, NotStarted
  <2> QED
    BY <1>1, <1>2, <1>4, <2>1, NotReplayingIsOK, EndKeeps
<1>5. CASE ~(Current(call) /\ call.kind = "start")
  <2>1. s = (IF Current(call) THEN Recovered ELSE state) /\ engine' = engine
    BY <1>1, <1>5 DEF CreateFails
  <2>2. StateOK(s) /\ (engine # 0 => s.active)
    BY <1>3, <2>1, RecoveredIsOK
  <2> QED
    BY <1>1, <1>2, <2>1, <2>2, EndKeeps
<1> QED
  BY <1>4, <1>5

LEMMA RefusedKeeps == ASSUME Inv, NEW call \in calls, RunRefused(call) PROVE Inv'
<1>1. PICK s : s = state'
  OBVIOUS
<1>2. StateOK(state) /\ (engine # 0 => state.active)
  BY DEF Inv, ControllerInv
<1>3. s = IF Current(call) THEN Recovered ELSE state
  BY <1>1 DEF RunRefused
<1>4. StateOK(s) /\ (engine # 0 => s.active)
  BY <1>2, <1>3, RecoveredIsOK
<1> QED
  BY <1>1, <1>3, <1>4, EndKeeps DEF RunRefused

LEMMA DroppedKeeps ==
  ASSUME Inv, NEW call \in calls, CreateDropped(call) \/ PlayDropped(call)
  PROVE  Inv'
<1>1. Finish(call) /\ UNCHANGED <<page, log, state, generation, engine, playback, engines>>
  BY DEF CreateDropped, PlayDropped
<1> QED
  BY <1>1, LogUnchanged, ReadKeeps DEF Finish

LEMMA PreviousEndedKeeps == ASSUME Inv, NEW call \in calls, PreviousEnded(call) PROVE Inv'
<1>1. PICK next : next = [call EXCEPT !.at = "wait"]
  OBVIOUS
<1>2. /\ calls' = Others(call) \/ calls' = Others(call) \cup {next}
      /\ call.at = "previous"
      /\ UNCHANGED <<page, log, state, generation, engine, playback, engines>>
  BY <1>1 DEF PreviousEnded, Continue, Finish
<1>3. UsingOK(next) /\ next.generation = call.generation /\ next.kind = call.kind
  BY <1>1, <1>2, CallIsOne DEF UsingOK, UsingCall
<1> QED
  BY <1>2, <1>3, LogUnchanged, ReadKeeps

\* An engine that was made is the newest of the engines.
LEMMA CreatedKeeps ==
  ASSUME Inv, NEW call \in calls, Created(call), UNCHANGED <<page, log, generation>>
  PROVE  /\ LogInv' /\ CoordinatorInv' /\ CheckpointsInv' /\ Grows /\ Len(events') \in Nat /\ Len(checkpoints') \in Nat
         /\ EnginesInv' /\ EnginesKeep
         /\ engine' = call.generation /\ engine' \in DOMAIN engines'
         /\ EngineOK(engines'[call.generation])
         /\ engines'[call.generation].difference = None
         /\ call.target \in Nat /\ call.generation \in Nat
<1>1. LogInv' /\ CoordinatorInv' /\ CheckpointsInv' /\ Grows /\ Len(events') \in Nat /\ Len(checkpoints') \in Nat
  BY LogUnchanged
<1>2. MakingOK(call) /\ call.at = "create" /\ call.generation \in 1 .. generation /\ generation \in Nat
  BY CallIsOne DEF Created, Inv, ControllerInv
<1>3. PICK new : new = CreateEngine(call.events, call.checkpoints, call.target)
  OBVIOUS
<1>4. EngineOK(new) /\ new.difference = None
  BY <1>2, <1>3, CreatedEngineIsOK DEF Inv
<1>5. /\ engine' = call.generation
      /\ engines' = [number \in DOMAIN engines \cup {call.generation} |->
                      IF number = call.generation THEN new ELSE engines[number]]
  BY <1>3 DEF Created
<1>6. call.generation \notin DOMAIN engines
  BY <1>2 DEF Inv, CallsInv, MakingOK, MakingCall
<1>7. \A number \in DOMAIN engines' : EngineOK(engines[number])'
  <2> TAKE number \in DOMAIN engines'
  <2>1. PICK e : e = engines'[number]
    OBVIOUS
  <2>2. EngineOK(e)
    BY <1>4, <1>5, <2>1 DEF Inv, EnginesInv
  <2>3. EngineOK(e)'
    BY <1>1, <2>2, EngineKept DEF Inv
  <2> QED
    BY <2>1, <2>3
<1>8. EnginesInv'
  BY <1>2, <1>5, <1>7 DEF EnginesInv, Inv
<1>9. EnginesKeep
  BY <1>5, <1>6 DEF EnginesKeep
<1>10. call.target \in Nat
  BY <1>2 DEF MakingOK, MakingCall
<1> QED
  BY <1>1, <1>2, <1>4, <1>5, <1>8, <1>9, <1>10

LEMMA StartPlayingKeeps == ASSUME Inv, NEW call \in calls, StartPlaying(call) PROVE Inv'
<1>1. /\ Current(call) /\ Created(call) /\ UNCHANGED <<page, log, generation>>
      /\ call.kind = "start"
  BY DEF StartPlaying
<1>2. /\ LogInv' /\ CoordinatorInv' /\ CheckpointsInv' /\ Grows /\ Len(events') \in Nat /\ Len(checkpoints') \in Nat
      /\ EnginesInv' /\ EnginesKeep
      /\ engine' = call.generation /\ engine' \in DOMAIN engines'
      /\ EngineOK(engines'[call.generation])
      /\ call.target \in Nat /\ call.generation \in Nat
  BY <1>1, CreatedKeeps
<1>3. DOMAIN engines' = DOMAIN engines \cup {call.generation}
  BY <1>1 DEF Created
<1>4. PICK new : new = engines'[call.generation]
  OBVIOUS
<1> DEFINE completed == new.startedAt >= call.target
           ends == IF completed THEN "completed" ELSE "running"
<1>5. /\ state' = StateFrom(Result(new, ends, call.target), ends)
      /\ completed => Finish(call) /\ UNCHANGED playback
      /\ ~completed => /\ Continue(call, Drives(call.generation, "play", call.target, "wait", call.generation))
                       /\ playback' = call.generation
  BY <1>4 DEF StartPlaying, Result
<1> HIDE DEF completed
<1>6. PICK s : s = state'
  OBVIOUS
<1>7. StateOK(s) /\ s.active /\ s.status = ends
  BY <1>2, <1>4, <1>5, <1>6, StateFromIsOK DEF Inv
<1>8. engine' # 0 => s.active
  BY <1>7
<1>9. CASE completed
  BY <1>1, <1>2, <1>3, <1>5, <1>6, <1>7, <1>9, CallKeeps DEF Finish, Inv, ControllerInv
<1>10. CASE ~completed
  <2>1. PICK next : next = [generation |-> call.generation, kind |-> "play", target |-> call.target,
                            at |-> "wait", engine |-> call.generation, previous |-> 0,
                            finding |-> None, ends |-> "completed"]
    OBVIOUS
  <2>2. calls' = Others(call) \cup {next} /\ next.generation = call.generation
        /\ next.kind = "play"
    BY <1>5, <1>10, <2>1 DEF Continue, Drives
  <2>3. None \in Finding
    BY DEF Finding
  <2>4. next \in UsingCall
    BY <1>2, <2>1, <2>3 DEF UsingCall
  <2>5. UsingOK(next)'
    BY <1>2, <2>1, <2>4 DEF UsingOK
  <2>6. s.status = "running" /\ playback' \in Nat
    BY <1>2, <1>5, <1>7, <1>10
  <2> QED
    BY <1>1, <1>2, <1>3, <1>6, <1>7, <2>2, <2>5, <2>6, CallKeeps
<1> QED
  BY <1>9, <1>10

LEMMA RunBackKeeps == ASSUME Inv, NEW call \in calls, RunBack(call) PROVE Inv'
<1>1. /\ Current(call) /\ Created(call) /\ UNCHANGED <<page, log, state, generation, playback>>
  BY DEF RunBack
<1>2. /\ LogInv' /\ CoordinatorInv' /\ CheckpointsInv' /\ Grows /\ Len(events') \in Nat /\ Len(checkpoints') \in Nat
      /\ EnginesInv' /\ EnginesKeep
      /\ engine' = call.generation /\ engine' \in DOMAIN engines'
      /\ call.target \in Nat /\ call.generation \in Nat
  BY <1>1, CreatedKeeps
<1>3. DOMAIN engines' = DOMAIN engines \cup {call.generation}
  BY <1>1 DEF Created
<1>4. PICK next : next = [generation |-> call.generation, kind |-> "run", target |-> call.target,
                          at |-> "run", engine |-> call.generation, previous |-> 0,
                          finding |-> None, ends |-> "paused"]
  OBVIOUS
<1>5. /\ calls' = Others(call) \cup {next} /\ next.generation = call.generation /\ next.kind = "run"
  BY <1>4 DEF RunBack, Continue, Drives
<1>6. None \in Finding
  BY DEF Finding
<1>7. next \in UsingCall
  BY <1>2, <1>4, <1>6 DEF UsingCall
<1>8. UsingOK(next)'
  BY <1>2, <1>4, <1>7 DEF UsingOK
<1>9. PICK s : s = state'
  OBVIOUS
<1>10. StateOK(s) /\ s.status = "running" /\ s.active
  <2>1. StateOK(state) /\ state.status = "running"
    BY <1>1 DEF Inv, CallsInv, CallOK, ControllerInv, Current
  <2> QED
    BY <1>1, <1>9, <2>1 DEF StateOK
<1>11. playback' \in Nat
  BY <1>1 DEF Inv, ControllerInv
<1> QED
  BY <1>1, <1>2, <1>3, <1>5, <1>8, <1>9, <1>10, <1>11, CallKeeps

\* A call's step has returned.
LEMMA SteppedKeeps ==
  ASSUME Inv, UNCHANGED <<page, log, generation, engine, playback>>,
         EnginesInv', EnginesKeep, DOMAIN engines' = DOMAIN engines,
         NEW call \in calls, NEW c, c.generation = call.generation, UsingOK(c),
         c.at \in {"wait", "step", "run", "hash"},
         NEW e, EngineOK(e), NEW status, Stepped(c, e, status)
  PROVE  Inv'
<1>1. LogInv' /\ CoordinatorInv' /\ CheckpointsInv' /\ Grows /\ Len(events') \in Nat /\ Len(checkpoints') \in Nat
  BY LogUnchanged
<1>2. Others(c) = Others(call) /\ (Current(c) <=> Current(call))
  BY DEF Others, Current
<1>3. c \in UsingCall /\ c.target \in Nat /\ c.kind \in {"play", "step", "run"}
  BY DEF UsingOK, UsingCall
<1>4. PICK s : s = state'
  OBVIOUS
<1>5. /\ playback' \in Nat /\ engine' \in {0} \cup DOMAIN engines'
      /\ StateOK(state) /\ (engine # 0 => state.active) /\ engine' = engine
  BY DEF Inv, ControllerInv
<1> DEFINE result == Result(e, status, c.target)
           shown(t) == StateFrom(result, t)
<1>6. \A t \in {"running", "paused", "completed"} :
        StateOK(shown(t)) /\ shown(t).active /\ shown(t).status = t
  BY <1>3, StateFromIsOK DEF Inv
<1>7. \A t \in {"paused", "completed"} :
        \E u \in {"paused", "completed"} : Applied(result, t) = shown(u)
  BY DEF Applied
<1> HIDE DEF shown, result
<1>8. ASSUME calls' = Others(call),
             s = state \/ (Current(call) /\ \E t \in {"paused", "completed"} : s = shown(t))
      PROVE  Inv'
  <2>1. StateOK(s) /\ (engine' # 0 => s.active) /\ (s.status = state.status \/ Current(call))
    BY <1>5, <1>6, <1>8
  <2> QED
    BY <1>1, <1>4, <1>5, <1>8, <2>1, CallKeeps
<1>9. ASSUME NEW at \in {"wait", "run"}, at = "wait" => c.kind = "play",
             Continue(c, [c EXCEPT !.at = at]),
             s = state \/ (Current(call) /\ s = shown("running"))
      PROVE  Inv'
  <2>1. PICK next : next = [c EXCEPT !.at = at]
    OBVIOUS
  <2>2. /\ calls' = Others(call) \cup {next} /\ next.generation = call.generation
        /\ next \in UsingCall /\ next.at = at /\ next.kind = c.kind /\ next.engine = c.engine
    BY <1>2, <1>3, <1>9, <2>1 DEF Continue, UsingCall
  <2>3. UsingOK(next)'
    BY <1>9, <2>2 DEF UsingOK
  <2>4. /\ StateOK(s) /\ (engine' # 0 => s.active)
        /\ s.status = state.status \/ (Current(call) /\ s.status = "running")
    BY <1>5, <1>6, <1>9
  <2> QED
    BY <1>1, <1>3, <1>4, <1>5, <2>2, <2>3, <2>4, CallKeeps
<1>10. ASSUME NEW t \in {"paused", "completed"}, Executed(c, result, t) PROVE Inv'
  <2>1. calls' = Others(call)
    BY <1>2, <1>10 DEF Executed, Finish
  <2>2. s = IF Current(call) THEN Applied(result, t) ELSE state
    BY <1>2, <1>4, <1>10 DEF Executed
  <2> QED
    BY <1>7, <1>8, <2>1, <2>2
<1>11. CASE c.kind = "play"
  <2>1. Played(c, result)
    BY <1>11 DEF Stepped, result
  <2>2. CASE ~Current(c)
    <3>1. Finish(c) /\ UNCHANGED state
      BY <2>1, <2>2 DEF Played
    <3> QED
      BY <1>2, <1>4, <1>8, <3>1 DEF Finish
  <2>3. CASE Current(c) /\ result.difference # None
    <3>1. state' = Applied(result, "paused") /\ Finish(c)
      BY <2>1, <2>3 DEF Played
    <3> QED
      BY <1>2, <1>4, <1>7, <1>8, <2>3, <3>1 DEF Finish
  <2>4. CASE /\ Current(c) /\ result.difference = None
             /\ result.status = "completed" \/ result.currentSequence >= c.target
    <3>1. state' = Applied(result, "completed") /\ Finish(c)
      BY <2>1, <2>4 DEF Played
    <3> QED
      BY <1>2, <1>4, <1>7, <1>8, <2>4, <3>1 DEF Finish
  <2>5. CASE /\ Current(c) /\ result.difference = None
             /\ ~(result.status = "completed" \/ result.currentSequence >= c.target)
    <3>1. state' = StateFrom(result, "running") /\ Continue(c, [c EXCEPT !.at = "wait"])
      BY <2>1, <2>5 DEF Played
    <3>2. s = shown("running")
      BY <1>4, <3>1 DEF shown
    <3> QED
      BY <1>2, <1>9, <1>11, <2>5, <3>1, <3>2
  <2> QED
    BY <2>2, <2>3, <2>4, <2>5
<1>12. CASE c.kind = "step"
  <2>1. Executed(c, result, "paused")
    BY <1>12 DEF Stepped, result
  <2> QED
    BY <1>10, <2>1
<1>13. CASE c.kind = "run"
  <2>1. Continue(c, [c EXCEPT !.at = "run"]) /\ UNCHANGED state
    BY <1>13 DEF Stepped
  <2> QED
    BY <1>4, <1>9, <2>1
<1> QED
  BY <1>3, <1>11, <1>12, <1>13

LEMMA RunEndKeeps == ASSUME Inv, NEW call \in calls, RunEnd(call) PROVE Inv'
<1>1. /\ call.at = "run" /\ Finish(call)
      /\ UNCHANGED <<page, log, generation, engine, playback, engines>>
  BY DEF RunEnd, Executed
<1>2. UsingOK(call) /\ call.target \in Nat /\ call.ends \in {"completed", "paused"}
  BY <1>1, CallIsOne DEF UsingOK, UsingCall
<1>3. EngineOK(Engine(call))
  BY <1>2 DEF UsingOK, Engine, Inv, EnginesInv
<1>4. PICK s : s = state'
  OBVIOUS
<1> DEFINE result == Result(Engine(call), RunStatus(Engine(call), call.target), call.target)
           t == IF result.status = "completed" THEN call.ends ELSE "paused"
<1>5. s = IF Current(call) THEN StateFrom(result, t) ELSE state
  BY <1>4 DEF RunEnd, Executed, Applied
<1>6. t \in {"running", "paused", "completed"}
  BY <1>2
<1>7. StateOK(StateFrom(result, t)) /\ StateFrom(result, t).active
  <2> HIDE DEF t
  <2> QED
    BY <1>2, <1>3, <1>6, StateFromIsOK DEF Inv
<1> HIDE DEF t, result
<1>8. StateOK(s) /\ (s = state \/ Current(call)) /\ (engine # 0 => s.active)
  BY <1>5, <1>7 DEF Inv, ControllerInv
<1> QED
  BY <1>1, <1>4, <1>8, EndKeeps

LEMMA StepNothingKeeps == ASSUME Inv, NEW call \in calls, StepNothing(call) PROVE Inv'
<1>1. /\ call.at \in {"wait", "step", "run", "hash"}
      /\ UNCHANGED <<page, log, generation, engine, playback, engines>>
  BY DEF StepNothing
<1>2. PICK e : e = Engine(call)
  OBVIOUS
<1>3. PICK status : Stepped(call, e, status)
  BY <1>2 DEF StepNothing
<1>4. UsingOK(call) /\ EngineOK(e)
  BY <1>1, <1>2, CallIsOne DEF UsingOK, Engine, Inv, EnginesInv
<1>5. EnginesInv' /\ EnginesKeep /\ DOMAIN engines' = DOMAIN engines
  BY <1>1, LogUnchanged, EnginesUnchanged DEF EnginesStay, Inv, ControllerInv
<1> QED
  BY <1>1, <1>3, <1>4, <1>5, SteppedKeeps

LEMMA EngineReplaced ==
  ASSUME Inv, UNCHANGED <<page, log, generation>>, NEW number \in DOMAIN engines,
         NEW new, EngineOK(new), engines[number].difference # None => new.difference # None,
         engines' = [engines EXCEPT ![number] = new]
  PROVE  EnginesInv' /\ EnginesKeep /\ DOMAIN engines' = DOMAIN engines /\ engines'[number] = new
<1>1. Grows /\ Len(events') \in Nat
  BY LogUnchanged
<1>2. \A other \in DOMAIN engines' : EngineOK(engines[other])'
  <2> TAKE other \in DOMAIN engines'
  <2>1. PICK e : e = engines'[other]
    OBVIOUS
  <2>2. EngineOK(e)
    BY <2>1 DEF Inv, EnginesInv
  <2>3. EngineOK(e)'
    BY <1>1, <2>2, EngineKept DEF Inv
  <2> QED
    BY <2>1, <2>3
<1> QED
  BY <1>2 DEF Inv, EnginesInv, EnginesKeep

LEMMA StepEventKeeps == ASSUME Inv, NEW call \in calls, StepEvent(call) PROVE Inv'
<1>1. PICK old : old = Engine(call)
  OBVIOUS
<1>2. PICK begun : begun = StepBegin(old)
  OBVIOUS
<1>3. PICK finding : finding = StepFinds(old)
  OBVIOUS
<1>4. PICK next : next = StepEnd(begun, finding)
  OBVIOUS
<1>5. /\ call.at \in {"wait", "step", "run", "hash"} /\ HasNext(old, call.target)
      /\ UNCHANGED <<page, log, generation, engine, playback>>
  BY <1>1 DEF StepEvent
<1>6. UsingOK(call) /\ call \in UsingCall /\ call.engine \in DOMAIN engines
      /\ old = engines[call.engine] /\ EngineOK(old)
  BY <1>1, <1>5, CallIsOne DEF UsingOK, Engine, Inv, EnginesInv
<1>7. /\ finding \in Finding
      /\ EngineOK(next)
      /\ old.difference # None => next.difference # None
      /\ begun.difference = old.difference
      /\ StepHashes(old) => EngineOK(begun) /\ (old.difference = None => finding = None)
  BY <1>2, <1>3, <1>4, <1>5, <1>6, StepIsOK DEF HasNext, Inv
<1>8. CASE StepHashes(old)
  <2>1. PICK c : c = [call EXCEPT !.at = "hash", !.finding = finding]
    OBVIOUS
  <2>2. /\ engines' = [engines EXCEPT ![call.engine] = begun]
        /\ calls' = Others(call) \cup {c}
        /\ UNCHANGED state
    BY <1>1, <1>2, <1>3, <1>8, <2>1 DEF StepEvent, Continue
  <2>3. /\ EnginesInv' /\ EnginesKeep /\ DOMAIN engines' = DOMAIN engines
        /\ engines'[call.engine] = begun
    BY <1>5, <1>6, <1>7, <1>8, <2>2, EngineReplaced
  <2>4. /\ c \in UsingCall /\ c.generation = call.generation /\ c.kind = call.kind
        /\ c.engine = call.engine /\ c.at = "hash" /\ c.finding = finding
    BY <1>6, <1>7, <2>1 DEF UsingCall
  <2>5. UsingOK(c)'
    BY <1>6, <1>7, <1>8, <2>3, <2>4 DEF UsingOK
  <2>6. c.kind \in {"play", "step", "run"}
    BY <2>4 DEF UsingCall
  <2>7. PICK s : s = state'
    OBVIOUS
  <2>8. StateOK(s) /\ s.status = state.status /\ (engine' # 0 => s.active)
    BY <1>5, <2>2, <2>7 DEF Inv, ControllerInv
  <2>9. playback' \in Nat /\ engine' \in {0} \cup DOMAIN engines'
    BY <1>5, <2>3 DEF Inv, ControllerInv
  <2> QED
    BY <1>5, <2>2, <2>3, <2>4, <2>5, <2>6, <2>7, <2>8, <2>9, LogUnchanged, CallKeeps
<1>9. CASE ~StepHashes(old)
  <2>1. /\ engines' = [engines EXCEPT ![call.engine] = next]
        /\ Stepped(call, next, StepStatus(next, call.target, finding))
    BY <1>1, <1>2, <1>3, <1>4, <1>9 DEF StepEvent
  <2>2. EnginesInv' /\ EnginesKeep /\ DOMAIN engines' = DOMAIN engines
    BY <1>5, <1>6, <1>7, <2>1, EngineReplaced
  <2> QED
    BY <1>5, <1>6, <1>7, <2>1, <2>2, SteppedKeeps
<1> QED
  BY <1>8, <1>9

LEMMA StepHashedKeeps == ASSUME Inv, NEW call \in calls, StepHashed(call) PROVE Inv'
<1>1. PICK old : old = Engine(call)
  OBVIOUS
<1>2. PICK next : next = StepEnd(old, call.finding)
  OBVIOUS
<1>3. PICK c : c = [call EXCEPT !.finding = None]
  OBVIOUS
<1>4. /\ call.at = "hash" /\ UNCHANGED <<page, log, generation, engine, playback>>
      /\ engines' = [engines EXCEPT ![call.engine] = next]
      /\ Stepped(c, next, StepStatus(next, call.target, call.finding))
  BY <1>1, <1>2, <1>3 DEF StepHashed
<1>5. UsingOK(call) /\ call \in UsingCall /\ call.engine \in DOMAIN engines
      /\ old = engines[call.engine] /\ EngineOK(old)
  BY <1>1, <1>4, CallIsOne DEF UsingOK, Engine, Inv, EnginesInv
<1>6. old.difference = None => call.finding = None
  BY <1>4, <1>5 DEF UsingOK
<1>7. EngineOK(next) /\ next.difference = old.difference
  BY <1>2, <1>5, <1>6, StepEndIsOK
<1>8. EnginesInv' /\ EnginesKeep /\ DOMAIN engines' = DOMAIN engines
  BY <1>4, <1>5, <1>7, EngineReplaced
<1>9. None \in Finding
  BY DEF Finding
<1>10. /\ c \in UsingCall /\ c.generation = call.generation /\ c.at = "hash" /\ c.engine = call.engine
       /\ c.finding = None
  BY <1>3, <1>4, <1>5, <1>9 DEF UsingCall
<1>11. UsingOK(c)
  BY <1>5, <1>10 DEF UsingOK
<1> QED
  BY <1>4, <1>7, <1>8, <1>10, <1>11, SteppedKeeps

LEMMA CallStepKeeps == ASSUME Inv, NEW call \in calls, CallStep(call) PROVE Inv'
BY FlushBeginKeeps, FlushTasksKeeps, FlushSaveKeeps, ReadSessionKeeps, ReadEventsKeeps, ReadCheckpointsKeeps, CreateFailsKeeps,
   DroppedKeeps, StartPlayingKeeps, RunBackKeeps, PreviousEndedKeeps, StepNothingKeeps,
   StepEventKeeps, StepHashedKeeps, RunEndKeeps, RefusedKeeps DEF CallStep

LEMMA InitIsOK == Init => Inv
<1> SUFFICES ASSUME Init PROVE Inv
  OBVIOUS
<1>1. /\ << >> \in Seq(Event) /\ << >> \in Seq(PageType) /\ Len(<< >>) = 0
  OBVIOUS
<1>2. NewSession \in SessionType
  BY DEF NewSession, SessionType
<1>3. EditorOK(NewEditor(InitialValue))
  BY ReplayAssumption, NewEditorIsOK
<1>4. /\ PageAt(0).editor = NewEditor(InitialValue) /\ PageAt(0).session = NewSession
      /\ events = << >> /\ recorded = << >>
  BY DEF PageAt, Init
<1>5. LogInv
  BY <1>1, <1>2, <1>3, <1>4 DEF Init, LogInv
<1> DEFINE first == [sequence |-> 0, document |-> InitialValue, session |-> NewSession,
                     workspace |-> "loaded"]
<1>6. first \in CheckpointType
  BY <1>2, ReplayAssumption DEF CheckpointType
<1>7. checkpoints \in Seq(CheckpointType) /\ Len(checkpoints) = 1 /\ checkpoints[1] = first
  BY <1>6 DEF Init
<1>8. captured = [sequence \in {0} |-> 0] /\ task = "idle" /\ stored = 0 /\ eventCount = 0 /\ settled = 0
  BY DEF Init
<1>9. DOMAIN captured = {0} /\ captured[0] = 0
  BY <1>8
<1>10. CheckpointOK(first)
  BY <1>4, <1>9 DEF CheckpointOK, NewEditor
<1>11. CheckpointsInv
  BY <1>7, <1>10 DEF CheckpointsInv
<1>12. CoordinatorInv
  BY <1>1, <1>4, <1>8, <1>9 DEF CoordinatorInv
<1>13. /\ engines = << >> /\ generation = 0 /\ calls = {} /\ engine = 0 /\ playback = 0
      /\ state = NotReplaying
  BY DEF Init
<1>14. EnginesInv /\ CallsInv
  BY <1>13 DEF EnginesInv, CallsInv
<1>15. ControllerInv
  BY <1>13, NotReplayingIsOK DEF ControllerInv
<1> QED
  BY <1>5, <1>11, <1>12, <1>14, <1>15 DEF Inv

LEMMA NextKeeps == Inv /\ [Next]_vars => Inv'
<1> SUFFICES ASSUME Inv, [Next]_vars PROVE Inv'
  OBVIOUS
<1>1. CASE UNCHANGED vars
  <2>1. UNCHANGED <<page, log>> /\ UNCHANGED controller
    BY <1>1 DEF vars
  <2> QED
    BY <2>1, LogUnchanged, ControllerKept DEF Inv
<1>2. CASE Page
  BY <1>2, PageKeeps
<1>3. CASE Control
  BY <1>3, ControlKeeps
<1>4. CASE Calls
  BY <1>4, CallStepKeeps DEF Calls
<1> QED
  BY <1>1, <1>2, <1>3, <1>4 DEF Next

THEOREM Invariance == Spec => []Inv
BY InitIsOK, NextKeeps, PTL DEF Spec

-----------------------------------------------------------------------------
(* The theorems.                                                           *)

\* The controller's state and its calls are well formed and agree: an engine only of
\* an active replay, one call of each generation, a call that drives an engine only
\* one that was made; the database counts no event it does not have.
THEOREM TypeCorrect == Spec => []ReplayTypeOK
<1>1. Inv => ReplayTypeOK
  <2> SUFFICES ASSUME Inv PROVE ReplayTypeOK
    OBVIOUS
  <2>1. /\ state.status \in {"idle", "running", "paused", "completed"}
        /\ state.active <=> state.status # "idle"
        /\ engine \in {0} \cup DOMAIN engines
        /\ engine # 0 => state.active
    BY DEF Inv, ControllerInv, StateOK
  <2>2. \A call \in calls :
          /\ call.generation \in 1 .. generation
          /\ call.kind \in {"start", "back"} <=> Flushing(call) \/ call.at \in {"session", "events", "checkpoints",
                                                                           "create"}
          /\ call.kind \notin {"start", "back"} => call.engine \in DOMAIN engines
    BY DEF Inv, CallsInv, CallOK, MakingOK, UsingOK, MakingCall, UsingCall, Flushing
  <2>3. \A one, other \in calls : one.generation = other.generation => one = other
    BY DEF Inv, CallsInv
  <2>4. editor.document \in Values /\ Len(recorded) = Len(events)
    BY DEF Inv, LogInv, EditorOK, EditorType
  <2>5. stored \in 0 .. Len(events) /\ eventCount \in 0 .. Len(events)
    BY DEF Inv, CoordinatorInv
  <2> QED
    BY <2>1, <2>2, <2>3, <2>4, <2>5 DEF ReplayTypeOK
<1> QED
  BY <1>1, Invariance, PTL

\* Unless a difference is reported, the replay shows the document and the known fields
\* of the session that the user saw after the frame's event, once the snapshot of
\* the engine's checkpoint is not ahead of it.
THEOREM FrameMatches == Spec => []FrameIsRecording
<1>1. Inv => FrameIsRecording
  BY DEF Inv, ControllerInv, StateOK, FrameOK, FrameIsRecording
<1> QED
  BY <1>1, Invariance, PTL

\* Every difference is at an event of the kinds that cannot be replayed.
THEOREM DifferencesExplained == Spec => []DifferenceExplained
<1>1. Inv => DifferenceExplained
  BY DEF Inv, EnginesInv, EngineOK, DifferenceExplained
<1> QED
  BY <1>1, Invariance, PTL

\* A call that was superseded publishes nothing: only the newest one does, while the
\* replay runs.
THEOREM Stable == Spec => StableUnlessRunning
<1>1. ASSUME Inv, [Next]_vars
      PROVE  [state' # state => generation' # generation \/ state.status = "running"]_vars
  <2> SUFFICES ASSUME state' # state, generation' = generation PROVE state.status = "running"
    OBVIOUS
  <2>1. generation + 1 # generation
    BY <1>1 DEF Inv, ControllerInv
  <2>2. ASSUME NEW call \in calls, Current(call) PROVE state.status = "running"
    BY <1>1, <2>2 DEF Inv, CallsInv, CallOK, Current
  <2>3. ~UNCHANGED vars /\ ~Page
    BY DEF vars, controller, Page, Operate, Recording, StoreEvent, SaveSession, CaptureCheckpoint,
           SaveCheckpoint, SaveCount
  <2>4. ~Control
    BY <2>1 DEF Control, Start, RunTo, Pause, Resume, StepBackward, StepForward, Verify,
                ContinueBestEffort, Stop, Asks
  <2>5. ASSUME NEW call \in calls, CallStep(call) PROVE Current(call)
    <3>1. ASSUME NEW c, c.generation = call.generation, c.kind \in {"play", "step", "run"},
                 NEW e, NEW status, Stepped(c, e, status)
          PROVE  Current(call)
      <4>1. CASE c.kind = "play"
        <5>1. Played(c, Result(e, status, c.target))
          BY <3>1, <4>1 DEF Stepped
        <5>2. Current(c)
          BY <5>1 DEF Played
        <5> QED
          BY <3>1, <5>2 DEF Current
      <4>2. CASE c.kind = "step"
        BY <3>1, <4>2 DEF Stepped, Executed, Current
      <4>3. CASE c.kind = "run"
        BY <3>1, <4>3 DEF Stepped
      <4> QED
        BY <3>1, <4>1, <4>2, <4>3
    <3>2. CASE StepHashed(call)
      <4>1. PICK c : c = [call EXCEPT !.finding = None]
        OBVIOUS
      <4>2. c.generation = call.generation /\ c.kind \in {"play", "step", "run"}
        <5>1. UsingOK(call)
          BY <1>1, <3>2, CallIsOne DEF StepHashed
        <5> QED
          BY <4>1, <5>1 DEF UsingOK, UsingCall
      <4>3. \E e, status : Stepped(c, e, status)
        BY <3>2, <4>1 DEF StepHashed
      <4> QED
        BY <3>1, <4>2, <4>3
    <3>3. CASE StepEvent(call) \/ StepNothing(call)
      <4>1. UNCHANGED state \/ \E e, status : Stepped(call, e, status)
        BY <3>3 DEF StepEvent, StepNothing
      <4>2. call.kind \in {"play", "step", "run"}
        BY <3>3, CallIsOne, <1>1 DEF StepEvent, StepNothing, UsingOK, UsingCall
      <4> QED
        BY <3>1, <4>1, <4>2
    <3>4. CASE StartPlaying(call) \/ CreateFails(call) \/ RunEnd(call) \/ RunRefused(call)
      BY <3>4 DEF StartPlaying, CreateFails, RunEnd, RunRefused, Executed
    <3> QED
      BY <2>5, <3>2, <3>3, <3>4 DEF CallStep, FlushBegin, FlushTasks, FlushSave, ReadSession, ReadEvents, ReadCheckpoints,
                                    CreateDropped, RunBack, PreviousEnded, PlayDropped
  <2> QED
    BY <1>1, <2>2, <2>3, <2>4, <2>5 DEF Next, Calls
<1> QED
  BY <1>1, Invariance, PTL DEF Spec, StableUnlessRunning
===============================================================================
