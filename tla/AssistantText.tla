--------------------------- MODULE AssistantText ---------------------------
(***************************************************************************)
(* How the text an agent says in one turn becomes messages of the thread.  *)
(* One worker takes the provider's events one at a time: it buffers deltas *)
(* or sends them on, starts a new message when the agent had to wait for   *)
(* the user, and finishes messages at the end of an item and of the turn.  *)
(* It asks the engine to write, and a write may fail at any point: what is *)
(* left of the event is skipped, and the next one is taken.                *)
(*                                                                         *)
(* A provider's items come one after the other, each with deltas, the      *)
(* whole text at its end, or both.  A delta is one chunk, whose length is  *)
(* one; it may be blank.  Messages are shown in the order of their first   *)
(* write.  The caches' sizes and their two hours are left out.             *)
(***************************************************************************)
EXTENDS Naturals, Sequences, SequencesExt

CONSTANTS
  MaxBuffered,  \* MAX_BUFFERED_ASSISTANT_CHARS, in chunks
  MaxSaid,      \* bound on the chunks of the turn
  MaxFailedWrites,    \* bound on failing writes
  MaxSwitches   \* bound on changes of the setting

ASSUME TextAssumption ==
  MaxBuffered \in Nat /\ MaxSaid \in Nat /\ MaxFailedWrites \in Nat /\ MaxSwitches \in Nat

VARIABLES
  turnState,       \* "running", "completed" or "lost": the session or the process ended
  said,       \* Seq([n, blank]), what the agent said in the turn
  item,       \* the provider's item: its number, its text, whether it is open
  streaming,  \* enableAssistantStreaming
  store,      \* the thread's messages and the worker's caches, see EmptyStore
  failedWrites, switches,
  excuses     \* why the messages may differ from what was said

textVars == <<turnState, said, item, streaming, store, failedWrites, switches, excuses>>

\* A message's id: an item's number and a segment, the first of which is 0.
NoSegment == [base |-> 0, next |-> 0, active |-> << >>]

\* messages: Seq([id, text, streaming]), the rows of the thread's messages;
\* buffer: the texts by message id, bufferedAssistantTextByMessageId;
\* remembered: Seq of ids, turnMessageIdsByTurnKey;
\* segment: assistantSegmentStateByTurnKey, active is << >> for none.
EmptyStore == [messages |-> << >>, buffer |-> << >>, remembered |-> << >>, segment |-> NoSegment]

TextInit ==
  /\ turnState = "running" /\ said = << >> /\ item = [n |-> 0, text |-> << >>, open |-> FALSE]
  /\ streaming \in BOOLEAN /\ store = EmptyStore
  /\ failedWrites = 0 /\ switches = 0 /\ excuses = {}

\* hasRenderableAssistantText says no.
Blank(text) == \A i \in DOMAIN text : text[i].blank

-----------------------------------------------------------------------------
(* One event is handled in steps, on a record w of the store, the writes   *)
(* that will succeed before one fails, whether one has, and the ids that   *)
(* were flushed.                                                           *)

\* What comes after w, unless a write before it failed.
Do(w, after) == IF w.failed THEN w ELSE after

Has(entries, id) == \E i \in DOMAIN entries : entries[i].id = id
Of(entries, id) == LET i == CHOOSE i \in DOMAIN entries : entries[i].id = id IN entries[i]
TextOf(entries, id) == IF Has(entries, id) THEN Of(entries, id).text ELSE << >>
Set(entries, e) ==
  IF Has(entries, e.id) THEN [i \in DOMAIN entries |-> IF entries[i].id = e.id THEN e ELSE entries[i]]
                        ELSE Append(entries, e)

\* thread.message.assistant.delta and thread.message.assistant.complete, with
\* what the projection makes of them.
Dispatch(w, id, text, more) ==
  Do(w,
    IF w.writes = 0 THEN [w EXCEPT !.failed = TRUE]
    ELSE [w EXCEPT !.writes = @ - 1,
            !.store.messages = Set(@, [id |-> id, text |-> TextOf(@, id) \o text, streaming |-> more])])

\* takeBufferedAssistantText: it is out of the buffer before it is written.
NotTaken(w, id) == w
TakeText(w, id) == [w EXCEPT !.store.buffer = Restrict(@, DOMAIN @ \ {id})]
Buffered(buffer, id) == IF id \in DOMAIN buffer THEN buffer[id] ELSE << >>

RememberOne(w, id) ==
  [w EXCEPT !.store.remembered = IF @ = << >> THEN <<id>> ELSE @]
Remember(w, id) ==
  [w EXCEPT !.store.remembered = IF Contains(@, id) THEN @ ELSE Append(@, id)]
Forget(w, id) ==
  [w EXCEPT !.store.remembered =
     IF Contains(@, id) THEN LET ids == @ IN RemoveAt(ids, CHOOSE i \in DOMAIN ids : ids[i] = id) ELSE @]

\* getOrCreateAssistantMessageId: deltas go to the active message, whatever
\* their item; otherwise a segment of the item is started.
StartSegment(w, base) ==
  LET s == w.store.segment
      index == IF s.base = base THEN s.next ELSE 0
  IN [w EXCEPT !.store.segment = [base |-> base, next |-> index + 1, active |-> <<base, index>>]]
GetOrCreate(w, base) == IF w.store.segment.active # << >> THEN w ELSE StartSegment(w, base)

\* flushBufferedAssistantMessage: blank text is dropped.
Flush(w, id) ==
  LET text == Buffered(w.store.buffer, id)
      written == Dispatch(TakeText(w, id), id, text, TRUE)
  IN IF Blank(text) THEN TakeText(w, id)
     ELSE Do(written, [written EXCEPT !.flushed = @ \union {id}])

\* flushBufferedAssistantMessagesForTurn: the first k of the turn's messages.
FlushAll(w) ==
  LET ids == w.store.remembered
      after[k \in 0..Len(ids)] == IF k = 0 THEN w ELSE Do(after[k - 1], Flush(after[k - 1], ids[k]))
  IN after[Len(ids)]

\* finalizeAssistantMessage.
Finalize(w, id, fallback, projected) ==
  LET buffered == Buffered(w.store.buffer, id)
      text == IF buffered # << >> THEN buffered ELSE fallback
      written == IF Blank(text) THEN TakeText(w, id) ELSE Dispatch(TakeText(w, id), id, text, TRUE)
  IN IF projected \/ ~Blank(text) THEN Dispatch(written, id, << >>, FALSE) ELSE written

\* finalizeActiveAssistantSegmentForTurn.
FinalizeActive(w, projected) ==
  LET id == w.store.segment.active
      done == Finalize(w, id, << >>, projected \/ id \in w.flushed)
  IN IF id = << >> THEN w
     ELSE Do(done, [Forget(done, id) EXCEPT !.store.segment.active = << >>])

-----------------------------------------------------------------------------
(* The events of the provider, processRuntimeEvent.                        *)

\* The writes that may succeed before one fails; enough for any event.
Enough == 2 * Len(store.remembered) + 3
Begin(writes) == [store |-> store, writes |-> writes, failed |-> FALSE, flushed |-> {}]

\* The handling of an event may fail at any of its writes: handled says what
\* becomes of the event for each of them.
Handle(handled, why) ==
  \E writes \in 0..Enough :
    LET w == handled[writes] IN
    /\ store' = w.store
    /\ IF w.failed THEN failedWrites < MaxFailedWrites ELSE writes = Enough
    /\ failedWrites' = IF w.failed THEN failedWrites + 1 ELSE failedWrites
    /\ excuses' = excuses \union why \union (IF w.failed THEN {"failure"} ELSE {})

\* What is buffered for the active message.
Waiting == Buffered(store.buffer, store.segment.active)

Says(blank) == [n |-> Len(said) + 1, blank |-> blank]

\* content.delta: buffered, spilled as a whole when there is too much of it,
\* or sent on.
OnDelta(w, base, chunk) ==
  LET x == GetOrCreate(w, base)
      id == x.store.segment.active
      y == Remember(x, id)
      text == Append(Buffered(y.store.buffer, id), chunk)
  IN IF streaming THEN Dispatch(y, id, <<chunk>>, TRUE)
     ELSE IF Len(text) <= MaxBuffered
       THEN [y EXCEPT !.store.buffer = [m \in DOMAIN @ \union {id} |-> IF m = id THEN text ELSE @[m]]]
       ELSE Dispatch(TakeText(y, id), id, text, TRUE)

ContentDelta ==
  /\ turnState = "running" /\ Len(said) < MaxSaid
  /\ \E blank \in BOOLEAN :
     LET n == IF item.open THEN item.n ELSE item.n + 1 IN
     /\ said' = Append(said, Says(blank))
     /\ item' = [n |-> n, open |-> TRUE,
                 text |-> Append(IF item.open THEN item.text ELSE << >>, Says(blank))]
     /\ Handle([w \in 0..Enough |-> OnDelta(Begin(w), n, Says(blank))],
               IF streaming /\ ~Blank(Waiting) THEN {"switch"} ELSE {})
  /\ UNCHANGED <<turnState, streaming, switches>>

\* request.opened and user-input.requested.
OnPause(w) ==
  LET projected == \E i \in DOMAIN w.store.messages : w.store.messages[i].streaming
      flushed == IF streaming THEN w ELSE FlushAll(w)
  IN Do(flushed, FinalizeActive(flushed, projected))

Pause ==
  /\ turnState = "running"
  /\ Handle([w \in 0..Enough |-> OnPause(Begin(w))],
            IF /\ store.segment.active = <<item.n, 0>>
               /\ ~Has(store.messages, <<item.n, 0>>) /\ Blank(Waiting)
            THEN {"blank"} ELSE {})
  /\ UNCHANGED <<turnState, said, item, streaming, switches>>

\* item.completed of an assistant_message, with or without the item's text.
OnItemCompleted(w, n, detail) ==
  LET active == w.store.segment.active
      id == IF active # << >> THEN active ELSE <<n, 0>>
      exists == Has(w.store.messages, id)
      fallback == IF TextOf(w.store.messages, id) = << >> THEN detail ELSE << >>
      redundant == active = << >> /\ w.store.messages # << >> /\ Blank(detail)
      x == IF active = << >> THEN Remember(w, id) ELSE w
      ended == Finalize(x, id, fallback, exists)
      done == IF redundant THEN w ELSE Do(ended, Forget(ended, id))
  IN Do(done, [done EXCEPT !.store.segment = NoSegment])

ItemCompleted ==
  /\ turnState = "running" /\ item.open
  /\ item' = [item EXCEPT !.open = FALSE, !.text = << >>]
  /\ \E detail \in {<< >>, item.text} :
     Handle([w \in 0..Enough |-> OnItemCompleted(Begin(w), item.n, detail)], {})
  /\ UNCHANGED <<turnState, said, streaming, switches>>

\* An item of which there were no deltas.
ItemAtOnce ==
  /\ turnState = "running" /\ ~item.open /\ Len(said) < MaxSaid
  /\ said' = Append(said, Says(FALSE))
  /\ item' = [item EXCEPT !.n = @ + 1]
  /\ Handle([w \in 0..Enough |-> OnItemCompleted(Begin(w), item.n + 1, <<Says(FALSE)>>)], {})
  /\ UNCHANGED <<turnState, streaming, switches>>

OnTurnCompleted(w) ==
  LET ids == w.store.remembered
      after[k \in 0..Len(ids)] ==
        IF k = 0 THEN w
        ELSE Do(after[k - 1], Finalize(after[k - 1], ids[k], << >>, Has(w.store.messages, ids[k])))
      all == after[Len(ids)]
  IN Do(all, [all EXCEPT !.store.remembered = << >>, !.store.segment = NoSegment])

TurnIsCompleted ==
  /\ turnState = "running"
  /\ Handle([w \in 0..Enough |-> OnTurnCompleted(Begin(w))], {})
  /\ turnState' = IF failedWrites' = failedWrites THEN "completed" ELSE "lost"
  /\ UNCHANGED <<said, item, streaming, switches>>

\* session.exited discards what is buffered; a restart of the server loses it.
SessionExited ==
  /\ turnState = "running"
  /\ turnState' = "lost"
  /\ store' = [EmptyStore EXCEPT !.messages = store.messages,
                 !.buffer = Restrict(@, DOMAIN @ \ ToSet(store.remembered))]
  /\ excuses' = excuses \union {"failure"}
  /\ UNCHANGED <<said, item, streaming, failedWrites, switches>>

SwitchStreaming ==
  /\ turnState = "running" /\ switches < MaxSwitches
  /\ streaming' = ~streaming /\ switches' = switches + 1
  /\ UNCHANGED <<turnState, said, item, store, failedWrites, excuses>>

TextNext ==
  \/ ContentDelta \/ Pause \/ ItemCompleted \/ ItemAtOnce \/ TurnIsCompleted \/ SessionExited
  \/ SwitchStreaming

TextSpec == TextInit /\ [][TextNext]_textVars

-----------------------------------------------------------------------------
(* Properties.                                                             *)

\* Chunk c may be shown before chunk d: not the same, and in order if that is asked.
Follows(c, d, ordered) == IF ordered THEN c.n < d.n ELSE c.n # d.n

\* The chunks of a text that are not blank, in a text and between two of them.
Shown(text) == {text[i].n : i \in {j \in DOMAIN text : ~text[j].blank}}
InOrder(text, ordered) ==
  \A i, j \in DOMAIN text :
    i < j /\ ~text[i].blank /\ ~text[j].blank => Follows(text[i], text[j], ordered)
Before(text, later, ordered) ==
  \A i \in DOMAIN text, j \in DOMAIN later :
    ~text[i].blank /\ ~later[j].blank => Follows(text[i], later[j], ordered)

MessagesInOrder(messages, ordered) ==
  /\ \A i \in DOMAIN messages : InOrder(messages[i].text, ordered)
  /\ \A i, j \in DOMAIN messages : i < j => Before(messages[i].text, messages[j].text, ordered)

\* What the agent said, blanks aside, is in the messages or waits in the buffer
\* to be shown after them.
SaidIsShown(ordered) ==
  LET messages == store.messages  buffer == store.buffer IN
  /\ MessagesInOrder(messages, ordered)
  /\ \A id \in DOMAIN buffer :
       InOrder(buffer[id], ordered) /\ \A i \in DOMAIN messages : Before(messages[i].text, buffer[id], ordered)
  /\ \A id, other \in DOMAIN buffer : id = other
  /\ (UNION {Shown(messages[i].text) : i \in DOMAIN messages}) \union (UNION {Shown(buffer[id]) : id \in DOMAIN buffer})
       = Shown(said)

\* What the agent said, blanks aside, is in the messages and the buffer, once
\* and in order, through spills, pauses and items that come whole, unless a
\* write failed or a pause dropped the blank beginning of an item.  A change
\* to streaming while text is buffered costs the order, no more.
TextIsKept ==
  /\ excuses = {} => SaidIsShown(TRUE)
  /\ excuses \subseteq {"switch"} => SaidIsShown(FALSE)

\* The end of the turn leaves nothing buffered and no message streaming,
\* whatever failed before.
TurnsEndClean ==
  turnState = "completed" =>
    store.buffer = << >> /\ \A i \in DOMAIN store.messages : ~store.messages[i].streaming

\* "starts a new buffered assistant message segment after approval and
\* completes without duplication" (a test): nothing is shown twice, unless
\* a write failed.
NothingIsSaidTwice == "failure" \notin excuses => MessagesInOrder(store.messages, FALSE)
=============================================================================
