------------------------ MODULE AssistantTextProofs -------------------------
(***************************************************************************)
(* That TurnsEndClean and TextIsKept hold of AssistantText, for every size *)
(* of the buffer, and any number of deltas, pauses, ends of items, failed  *)
(* writes and switches of the setting.                                     *)
(*                                                                         *)
(* The first needs that the end of the turn will find all there is to end  *)
(* (CleanTurn): while the turn runs, whatever is buffered, streams or is   *)
(* active is remembered, whichever writes failed.  The second needs that   *)
(* the messages and the one text that waits hold what was said (Whole),    *)
(* and that the message this text waits for is new or the last (Segments); *)
(* a write then makes the messages grow at their end, or not at all        *)
(* (Grows).  Both parts make its invariant, KeptTurn.                      *)
(*                                                                         *)
(* Two of the steps are loops over the messages of the turn.  The values   *)
(* of such a loop are a function (Iteration), and what each of its rounds  *)
(* keeps it keeps (SetInduction).                                          *)
(***************************************************************************)
EXTENDS AssistantText, FiniteSetTheorems, TLAPS

-----------------------------------------------------------------------------
(* What a loop over the messages of a turn computes.  The induction is over *)
(* a set, because the provers do not instantiate a theorem's operators.     *)

LEMMA SetInduction ==
  ASSUME NEW S, 0 \in S, \A k \in Nat : k \in S => k + 1 \in S
  PROVE  Nat \subseteq S
<1> SUFFICES ASSUME NEW n \in Nat, n \notin S PROVE FALSE
  OBVIOUS
<1> DEFINE A == {k \in 0..n : k \notin S}
           less == [k \in A |-> k - 1]
<1>1. A \subseteq 0..n /\ n \in A /\ \A k \in A : k - 1 \in A
  OBVIOUS
<1>2. IsFiniteSet(A)
  <2>1. IsFiniteSet(0..n) BY FS_Interval
  <2>2. A \in SUBSET (0..n) BY <1>1
  <2> QED BY ONLY <2>1, <2>2, FS_Subset
<1>3. less \in Injection(A, A)
  BY <1>1 DEF Injection, IsInjective
<1>4. less \in Surjection(A, A)
  BY <1>2, <1>3, FS_Injection
<1>5. \E k \in A : less[k] = n
  BY <1>1, <1>4 DEF Surjection
<1> QED BY <1>1, <1>5

\* From a first value, step after step.
Steps(n, S) == [1..n -> [S -> S]]
Iterates(f, n, S, first, step) ==
  f \in [0..n -> S] /\ f[0] = first /\ \A k \in 1..n : f[k] = step[k][f[k - 1]]

LEMMA Iteration ==
  \A S, first, n, step : first \in S /\ n \in Nat /\ step \in Steps(n, S) => \E f : Iterates(f, n, S, first, step)
<1> SUFFICES ASSUME NEW S, NEW first \in S, NEW n \in Nat, NEW step \in [1..n -> [S -> S]]
  PROVE  \E f \in [0..n -> S] : f[0] = first /\ \A k \in 1..n : f[k] = step[k][f[k - 1]]
  BY DEF Steps, Iterates
<1> DEFINE Reached == {m \in Nat : m <= n => \E f \in [0..m -> S] : f[0] = first /\ \A k \in 1..m : f[k] = step[k][f[k - 1]]}
<1>1. 0 \in Reached
  <2>1. [k \in 0..0 |-> first] \in [0..0 -> S]
    OBVIOUS
  <2>2. \E f \in [0..0 -> S] : f[0] = first /\ \A k \in 1..0 : f[k] = step[k][f[k - 1]]
    <3> WITNESS [k \in 0..0 |-> first] \in [0..0 -> S]
    <3> QED OBVIOUS
  <2> QED BY <2>2
<1>2. \A m \in Nat : m \in Reached => m + 1 \in Reached
  <2> SUFFICES ASSUME NEW m \in Nat, m + 1 <= n, m \in Reached
               PROVE  \E f \in [0..(m + 1) -> S] : f[0] = first /\ \A k \in 1..(m + 1) : f[k] = step[k][f[k - 1]]
    OBVIOUS
  <2>1. PICK f \in [0..m -> S] : f[0] = first /\ \A k \in 1..m : f[k] = step[k][f[k - 1]]
    OBVIOUS
  <2> DEFINE g == [k \in 0..(m + 1) |-> IF k = m + 1 THEN step[k][f[m]] ELSE f[k]]
  <2>2. g \in [0..(m + 1) -> S]
    BY <2>1
  <2>3. g[0] = first /\ \A k \in 1..(m + 1) : g[k] = step[k][g[k - 1]]
    BY <2>1
  <2> QED BY <2>2, <2>3
<1> HIDE DEF Reached
<1>3. n \in Reached
  BY <1>1, <1>2, SetInduction
<1> QED BY <1>3 DEF Reached

-----------------------------------------------------------------------------
(* Types.                                                                   *)

Ids == Nat \X Nat
Chunk == [n : Nat, blank : BOOLEAN]
Text == Seq(Chunk)
Message == [id : Ids, text : Text, streaming : BOOLEAN]
Buffers == UNION {[D -> Text] : D \in SUBSET Ids}
Segment == [base : Nat, next : Nat, active : Ids \union {<< >>}]
Stores == [messages : Seq(Message), buffer : Buffers, remembered : Seq(Ids), segment : Segment]
Works == [store : Stores, writes : Nat, failed : BOOLEAN, flushed : SUBSET Ids]

LEMMA BufferIs ==
  /\ \A b \in Buffers : DOMAIN b \subseteq Ids /\ b \in [DOMAIN b -> Text]
  /\ \A D \in SUBSET Ids : \A b \in [D -> Text] : b \in Buffers
  BY DEF Buffers

LEMMA NotAnId == << >> \notin Ids
  BY DEF Ids

LEMMA BufferedIs ==
  ASSUME NEW b \in Buffers, NEW id
  PROVE  Buffered(b, id) \in Text
  BY BufferIs DEF Buffered, Text

Entry(m, id, text, more) == [id |-> id, text |-> TextOf(m, id) \o text, streaming |-> more]

LEMMA TextOfIs ==
  ASSUME NEW m \in Seq(Message), NEW id
  PROVE  TextOf(m, id) \in Text
<1>1. CASE Has(m, id)
  <2>1. \E i \in DOMAIN m : m[i].id = id
    BY <1>1 DEF Has
  <2>2. Of(m, id) \in Message
    BY <2>1 DEF Of
  <2> QED BY <1>1, <2>2 DEF TextOf, Message
<1>2. CASE ~Has(m, id)
  BY <1>2 DEF TextOf, Text
<1> QED BY <1>1, <1>2

LEMMA EntryIs ==
  ASSUME NEW m \in Seq(Message), NEW id \in Ids, NEW text \in Text, NEW more \in BOOLEAN
  PROVE  /\ Entry(m, id, text, more) \in Message
         /\ Entry(m, id, text, more).id = id /\ Entry(m, id, text, more).streaming = more
         /\ Entry(m, id, text, more).text = TextOf(m, id) \o text
<1>1. TextOf(m, id) \o text \in Text
  <2>1. TextOf(m, id) \in Seq(Chunk) /\ text \in Seq(Chunk) BY TextOfIs DEF Text
  <2> HIDE DEF Chunk
  <2> QED BY <2>1 DEF Text
<1> QED BY <1>1 DEF Entry, Message

\* Setting an entry changes the one with its id, or adds it.
LEMMA SetIs ==
  ASSUME NEW m \in Seq(Message), NEW e \in Message
  PROVE  /\ Set(m, e) \in Seq(Message)
         /\ \A i \in DOMAIN Set(m, e) : Set(m, e)[i] = e \/ (i \in DOMAIN m /\ Set(m, e)[i] = m[i] /\ m[i].id # e.id)
         /\ DOMAIN m \subseteq DOMAIN Set(m, e)
         /\ \A i \in DOMAIN m : Set(m, e)[i] = IF m[i].id = e.id THEN e ELSE m[i]
         /\ Has(m, e.id) => Len(Set(m, e)) = Len(m)
         /\ ~Has(m, e.id) => Len(Set(m, e)) = Len(m) + 1 /\ Set(m, e)[Len(m) + 1] = e
<1>1. CASE Has(m, e.id)
  BY <1>1 DEF Set, Has
<1>2. CASE ~Has(m, e.id)
  BY <1>2 DEF Set, Has
<1> QED BY <1>1, <1>2

\* n is m with entry e set.
Filed(m, n, e) ==
  /\ n \in Seq(Message)
  /\ \A i \in DOMAIN m : n[i] = IF m[i].id = e.id THEN e ELSE m[i]
  /\ Has(m, e.id) => Len(n) = Len(m)
  /\ ~Has(m, e.id) => Len(n) = Len(m) + 1 /\ n[Len(m) + 1] = e

LEMMA SetFiles ==
  ASSUME NEW m \in Seq(Message), NEW e \in Message
  PROVE  Filed(m, Set(m, e), e)
  BY SetIs DEF Filed

LEMMA TakeTextIs ==
  ASSUME NEW w \in Works, NEW id
  PROVE  LET y == TakeText(w, id) IN
         /\ y \in Works /\ y.writes = w.writes /\ y.failed = w.failed /\ y.flushed = w.flushed
         /\ y.store.messages = w.store.messages /\ y.store.remembered = w.store.remembered
         /\ y.store.segment = w.store.segment
         /\ DOMAIN y.store.buffer = DOMAIN w.store.buffer \ {id}
         /\ \A other : Buffered(y.store.buffer, other) = IF other = id THEN << >> ELSE Buffered(w.store.buffer, other)
<1> DEFINE b == w.store.buffer
           c == Restrict(b, DOMAIN b \ {id})
<1>1. b \in Buffers /\ DOMAIN b \subseteq Ids /\ b \in [DOMAIN b -> Text]
  BY BufferIs DEF Works, Stores
<1>2. c \in [DOMAIN b \ {id} -> Text] /\ DOMAIN c = DOMAIN b \ {id} /\ \A k \in DOMAIN c : c[k] = b[k]
  BY <1>1 DEF Restrict
<1>3. c \in Buffers
  BY <1>1, <1>2, BufferIs
<1>4. TakeText(w, id) = [w EXCEPT !.store = [w.store EXCEPT !.buffer = c]]
  BY DEF TakeText, Works, Stores
<1> HIDE DEF c
<1>5. /\ [w EXCEPT !.store = [w.store EXCEPT !.buffer = c]] \in Works
      /\ [w EXCEPT !.store = [w.store EXCEPT !.buffer = c]].store = [w.store EXCEPT !.buffer = c]
  BY <1>3 DEF Works, Stores
<1> QED BY <1>2, <1>4, <1>5 DEF Works, Stores, Buffered

\* The messages after a write.
Sent(m, id, text, more) == Set(m, Entry(m, id, text, more))

LEMMA SentIs ==
  ASSUME NEW m \in Seq(Message), NEW id \in Ids, NEW text \in Text, NEW more \in BOOLEAN
  PROVE  Sent(m, id, text, more) \in Seq(Message)
  BY EntryIs, SetIs DEF Sent

LEMMA DispatchIs ==
  ASSUME NEW w \in Works, NEW id \in Ids, NEW text \in Text, NEW more \in BOOLEAN
  PROVE  LET y == Dispatch(w, id, text, more) IN
         /\ y \in Works /\ y.flushed = w.flushed
         /\ y.store.buffer = w.store.buffer /\ y.store.remembered = w.store.remembered
         /\ y.store.segment = w.store.segment
         /\ y.store.messages = w.store.messages \/ y.store.messages = Sent(w.store.messages, id, text, more)
         /\ w.failed => y = w
         /\ ~y.failed => ~w.failed /\ y.store.messages = Sent(w.store.messages, id, text, more)
<1>2. CASE w.failed
  BY <1>2 DEF Dispatch, Do
<1>3. CASE ~w.failed /\ w.writes = 0
  BY <1>3 DEF Dispatch, Do, Works
<1>4. CASE ~w.failed /\ w.writes # 0
  <2>1. Dispatch(w, id, text, more) = [w EXCEPT !.writes = @ - 1, !.store = [@ EXCEPT !.messages = Sent(w.store.messages, id, text, more)]]
    BY <1>4 DEF Dispatch, Do, Entry, Works, Stores, Sent
  <2>2. w.store \in Stores /\ w.writes - 1 \in Nat
    BY <1>4 DEF Works
  <2>3. [w.store EXCEPT !.messages = Sent(w.store.messages, id, text, more)] \in Stores
    BY <2>2, SentIs DEF Stores
  <2> QED BY <1>4, <2>1, <2>2, <2>3 DEF Works, Stores
<1> QED BY <1>2, <1>3, <1>4

-----------------------------------------------------------------------------
(* What the steps of an event do to what streams and what is remembered.   *)

Listed(s, id) == Contains(s.remembered, id)
Flowing(s, id) == \E i \in DOMAIN s.messages : s.messages[i].id = id /\ s.messages[i].streaming

LEMMA DispatchFlows ==
  ASSUME NEW w \in Works, NEW id \in Ids, NEW text \in Text, NEW more \in BOOLEAN
  PROVE  LET y == Dispatch(w, id, text, more) IN
         /\ \A other : Flowing(y.store, other) => Flowing(w.store, other) \/ other = id
         /\ ~y.failed /\ Flowing(y.store, id) => more
<1>1. PICK old \in Seq(Message), new \in Message :
        /\ old = w.store.messages /\ new = Entry(old, id, text, more)
        /\ new.id = id /\ new.streaming = more
  BY EntryIs DEF Works, Stores
<1>2. \A i \in DOMAIN Set(old, new) : Set(old, new)[i] = new \/ (i \in DOMAIN old /\ Set(old, new)[i] = old[i] /\ old[i].id # new.id)
  BY SetIs
<1>3. PICK y : y = Dispatch(w, id, text, more)
  OBVIOUS
<1>4. /\ y.store.messages = old \/ y.store.messages = Set(old, new)
      /\ ~y.failed => y.store.messages = Set(old, new)
  BY <1>1, <1>3, DispatchIs DEF Sent
<1> QED BY <1>1, <1>2, <1>3, <1>4 DEF Flowing

\* y is w after a write.
Sends(w, y, id, text, more) ==
  /\ y \in Works /\ y.flushed = w.flushed
  /\ y.store.buffer = w.store.buffer /\ y.store.remembered = w.store.remembered
  /\ y.store.segment = w.store.segment
  /\ \A other : Flowing(y.store, other) => Flowing(w.store, other) \/ other = id
  /\ ~y.failed => /\ ~w.failed /\ y.store.messages = Sent(w.store.messages, id, text, more)
                  /\ Flowing(y.store, id) => more

LEMMA DispatchSends ==
  ASSUME NEW w \in Works, NEW id \in Ids, NEW text \in Text, NEW more \in BOOLEAN
  PROVE  Sends(w, Dispatch(w, id, text, more), id, text, more)
<1>1. PICK y : y = Dispatch(w, id, text, more) OBVIOUS
<1>2. /\ \A other : Flowing(y.store, other) => Flowing(w.store, other) \/ other = id
      /\ ~y.failed /\ Flowing(y.store, id) => more
  BY <1>1, DispatchFlows
<1>3. /\ y \in Works /\ y.flushed = w.flushed
      /\ y.store.buffer = w.store.buffer /\ y.store.remembered = w.store.remembered
      /\ y.store.segment = w.store.segment
      /\ ~y.failed => ~w.failed /\ y.store.messages = Sent(w.store.messages, id, text, more)
  BY <1>1, DispatchIs
<1> QED BY <1>1, <1>2, <1>3 DEF Sends

LEMMA ConcatIs ==
  ASSUME NEW S, NEW s \in Seq(S), NEW t \in Seq(S)
  PROVE  /\ s \o t \in Seq(S) /\ Len(s \o t) = Len(s) + Len(t)
         /\ \A i \in 1..Len(s) : (s \o t)[i] = s[i]
         /\ \A i \in 1..Len(t) : (s \o t)[Len(s) + i] = t[i]
  OBVIOUS

LEMMA RememberIs ==
  ASSUME NEW w \in Works, NEW id \in Ids
  PROVE  LET y == Remember(w, id) IN
         /\ y \in Works /\ y.writes = w.writes /\ y.failed = w.failed /\ y.flushed = w.flushed
         /\ y.store.messages = w.store.messages /\ y.store.buffer = w.store.buffer
         /\ y.store.segment = w.store.segment
         /\ Listed(y.store, id) /\ \A other : Listed(w.store, other) => Listed(y.store, other)
<1> DEFINE r == w.store.remembered
           q == IF Contains(r, id) THEN r ELSE Append(r, id)
<1>1. r \in Seq(Ids)
  BY DEF Works, Stores
<1>2. q \in Seq(Ids) /\ Contains(q, id) /\ \A other : Contains(r, other) => Contains(q, other)
  <2> HIDE DEF r
  <2>1. CASE Contains(r, id) BY <1>1, <2>1
  <2>2. CASE ~Contains(r, id)
    <3>1. q = Append(r, id) BY <2>2
    <3>2. q \in Seq(Ids) /\ Len(q) = Len(r) + 1 /\ q[Len(r) + 1] = id /\ (\A i \in 1..Len(r) : q[i] = r[i]) /\ Len(r) \in Nat
      BY <1>1, <3>1
    <3> HIDE DEF q
    <3> QED BY <3>2 DEF Contains
  <2> QED BY <2>1, <2>2
<1>3. Remember(w, id) = [w EXCEPT !.store = [w.store EXCEPT !.remembered = q]]
  BY DEF Remember, Works, Stores
<1> HIDE DEF q
<1>4. [w.store EXCEPT !.remembered = q] \in Stores
  BY <1>2 DEF Works, Stores
<1> QED BY <1>2, <1>3, <1>4 DEF Works, Stores, Listed

LEMMA ForgetIs ==
  ASSUME NEW w \in Works, NEW id
  PROVE  LET y == Forget(w, id) IN
         /\ y \in Works /\ y.writes = w.writes /\ y.failed = w.failed /\ y.flushed = w.flushed
         /\ y.store.messages = w.store.messages /\ y.store.buffer = w.store.buffer
         /\ y.store.segment = w.store.segment
         /\ \A other : other # id /\ Listed(w.store, other) => Listed(y.store, other)
<1> DEFINE r == w.store.remembered
           at == CHOOSE i \in DOMAIN r : r[i] = id
           q == IF Contains(r, id) THEN RemoveAt(r, at) ELSE r
<1>1. r \in Seq(Ids)
  BY DEF Works, Stores
<1>2. q \in Seq(Ids) /\ \A other : other # id /\ Contains(r, other) => Contains(q, other)
  <2> HIDE DEF r
  <2>1. CASE ~Contains(r, id) BY <1>1, <2>1
  <2>2. CASE Contains(r, id)
    <3>1. \E i \in DOMAIN r : r[i] = id BY <1>1, <2>2 DEF Contains
    <3>2. at \in 1..Len(r) /\ r[at] = id BY <1>1, <3>1
    <3> HIDE DEF at
    <3>a. PICK a, b : a = SubSeq(r, 1, at - 1) /\ b = SubSeq(r, at + 1, Len(r))
      OBVIOUS
    <3>3. /\ a \in Seq(Ids) /\ Len(a) = at - 1 /\ \A i \in 1..(at - 1) : a[i] = r[i]
          /\ b \in Seq(Ids) /\ Len(b) = Len(r) - at /\ \A i \in 1..(Len(r) - at) : b[i] = r[i + at]
      BY <1>1, <3>2, <3>a
    <3>4. q = a \o b BY <2>2, <3>a DEF RemoveAt
    <3>5. q \in Seq(Ids) /\ Len(q) = Len(r) - 1 /\ (\A i \in 1..(at - 1) : q[i] = r[i])
          /\ \A i \in (at + 1)..Len(r) : q[i - 1] = r[i]
      <4>1. q \in Seq(Ids) /\ Len(q) = Len(a) + Len(b) /\ (\A i \in 1..Len(a) : q[i] = a[i])
            /\ \A i \in 1..Len(b) : q[Len(a) + i] = b[i]
        <5>1. a \in Seq(Ids) /\ b \in Seq(Ids) BY <3>3
        <5>2. a \o b \in Seq(Ids) /\ Len(a \o b) = Len(a) + Len(b) /\ (\A i \in 1..Len(a) : (a \o b)[i] = a[i])
              /\ \A i \in 1..Len(b) : (a \o b)[Len(a) + i] = b[i]
          BY ONLY <5>1, ConcatIs
        <5> HIDE DEF q
        <5> QED BY <3>4, <5>2
      <4>2. ASSUME NEW i \in (at + 1)..Len(r) PROVE q[i - 1] = r[i]
        <5>1. i - at \in 1..Len(b) /\ Len(a) + (i - at) = i - 1 /\ (i - at) + at = i BY <1>1, <3>2, <3>3
        <5>2. b[i - at] = r[(i - at) + at] BY <3>3, <5>1
        <5> QED BY <4>1, <5>1, <5>2
      <4>3. Len(q) = Len(r) - 1 BY <1>1, <3>2, <3>3, <4>1
      <4> QED BY <3>2, <3>3, <4>1, <4>2, <4>3
    <3> HIDE DEF q
    <3>6. ASSUME NEW other, other # id, Contains(r, other) PROVE Contains(q, other)
      <4>1. PICK i \in 1..Len(r) : r[i] = other BY <3>6 DEF Contains
      <4>2. CASE i < at
        <5>1. i \in 1..(at - 1) /\ i \in 1..Len(q) BY <3>2, <3>5, <4>1, <4>2, <1>1
        <5>2. q[i] = other BY <3>5, <4>1, <5>1
        <5> QED BY <5>1, <5>2 DEF Contains
      <4>3. CASE i > at
        <5>1. i - 1 \in 1..Len(q) /\ q[i - 1] = other BY <3>2, <3>5, <4>1, <4>3, <1>1
        <5> QED BY <5>1 DEF Contains
      <4> QED BY <3>2, <3>6, <4>1, <4>2, <4>3
    <3> QED BY <3>5, <3>6
  <2> QED BY <2>1, <2>2
<1>3. Forget(w, id) = [w EXCEPT !.store = [w.store EXCEPT !.remembered = q]]
  BY DEF Forget, Works, Stores
<1> HIDE DEF q
<1>4. [w.store EXCEPT !.remembered = q] \in Stores
  BY <1>2 DEF Works, Stores
<1> QED BY <1>2, <1>3, <1>4 DEF Works, Stores, Listed

\* What y has of w when the text for id was taken out of the buffer.
Taken(w, y, id) ==
  /\ y \in Works /\ y.store.remembered = w.store.remembered /\ y.store.segment = w.store.segment
  /\ DOMAIN y.store.buffer = DOMAIN w.store.buffer \ {id}
  /\ \A other : Buffered(y.store.buffer, other) = IF other = id THEN << >> ELSE Buffered(w.store.buffer, other)
  /\ \A other : Flowing(y.store, other) => Flowing(w.store, other) \/ other = id

LEMMA FlushIs ==
  ASSUME NEW w \in Works, NEW id \in Ids, ~w.failed
  PROVE  LET y == Flush(w, id)  text == Buffered(w.store.buffer, id) IN
         /\ Taken(w, y, id)
         /\ ~y.failed => IF Blank(text)
                         THEN y.store.messages = w.store.messages /\ y.flushed = w.flushed
                         ELSE /\ y.store.messages = Sent(w.store.messages, id, text, TRUE)
                              /\ y.flushed = w.flushed \union {id}
<1>1. PICK text \in Text : text = Buffered(w.store.buffer, id)
  BY BufferedIs DEF Works, Stores
<1>2. PICK x \in Works : /\ x = TakeText(w, id) /\ Taken(w, x, id) /\ ~x.failed /\ x.flushed = w.flushed
                         /\ x.store.messages = w.store.messages
  BY TakeTextIs DEF Taken, Flowing
<1>3. CASE Blank(text)
  <2>1. Flush(w, id) = x BY <1>1, <1>2, <1>3 DEF Flush
  <2> QED BY <1>1, <1>2, <1>3, <2>1
<1>4. CASE ~Blank(text)
  <2>1. PICK z : z = Dispatch(x, id, text, TRUE) OBVIOUS
  <2>2. /\ z \in Works /\ z.flushed = x.flushed /\ z.store.buffer = x.store.buffer
        /\ z.store.remembered = x.store.remembered /\ z.store.segment = x.store.segment
        /\ ~z.failed => z.store.messages = Sent(w.store.messages, id, text, TRUE)
        /\ \A other : Flowing(z.store, other) => Flowing(x.store, other) \/ other = id
    <3>1. Sends(x, z, id, text, TRUE)
      BY ONLY <1>1, <1>2, <2>1, id \in Ids, DispatchSends
    <3> QED BY <1>2, <3>1 DEF Sends
  <2>3. Taken(w, z, id)
    BY <1>2, <2>2 DEF Taken
  <2>4. Flush(w, id) = Do(z, [z EXCEPT !.flushed = @ \union {id}])
    BY <1>1, <1>2, <1>4, <2>1 DEF Flush
  <2>5. CASE z.failed
    BY <1>1, <2>3, <2>4, <2>5 DEF Do
  <2>6. CASE ~z.failed
    <3>1. PICK y : y = [z EXCEPT !.flushed = @ \union {id}] OBVIOUS
    <3>2. y \in Works /\ y.store = z.store /\ y.flushed = w.flushed \union {id}
      BY <1>2, <2>2, <3>1 DEF Works
    <3>3. Taken(w, y, id) BY <2>3, <3>2 DEF Taken, Flowing
    <3>4. Flush(w, id) = y BY <2>4, <2>6, <3>1 DEF Do
    <3> QED BY <1>1, <1>4, <2>2, <2>6, <3>2, <3>3, <3>4
  <2> QED BY <2>5, <2>6
<1> QED BY <1>3, <1>4

\* The messages when a text was written, and when the message was ended.
Written(m, id, text) == IF Blank(text) THEN m ELSE Sent(m, id, text, TRUE)
Ended(m, id, text, projected) ==
  IF projected \/ ~Blank(text) THEN Sent(Written(m, id, text), id, << >>, FALSE) ELSE m
Ending(w, id, fallback) ==
  IF Buffered(w.store.buffer, id) # << >> THEN Buffered(w.store.buffer, id) ELSE fallback

LEMMA FinalizeIs ==
  ASSUME NEW w \in Works, NEW id \in Ids, NEW fallback \in Text, NEW projected \in BOOLEAN, ~w.failed
  PROVE  LET y == Finalize(w, id, fallback, projected)  text == Ending(w, id, fallback) IN
         /\ Taken(w, y, id) /\ y.flushed = w.flushed
         /\ ~y.failed => /\ y.store.messages = Ended(w.store.messages, id, text, projected)
                         /\ Flowing(y.store, id) => Flowing(w.store, id) /\ ~projected /\ Blank(text)
<1>1. PICK text \in Text : text = Ending(w, id, fallback)
  BY BufferedIs DEF Ending, Works, Stores
<1>2. PICK x \in Works : /\ x = TakeText(w, id) /\ Taken(w, x, id) /\ ~x.failed /\ x.flushed = w.flushed
                         /\ x.store.messages = w.store.messages
  BY TakeTextIs DEF Taken, Flowing
<1>3. PICK z : z = IF Blank(text) THEN x ELSE Dispatch(x, id, text, TRUE)
  OBVIOUS
<1>4. /\ z \in Works /\ z.flushed = x.flushed /\ Taken(w, z, id)
      /\ ~z.failed => z.store.messages = Written(w.store.messages, id, text)
  <2>1. CASE Blank(text)
    BY <1>2, <1>3, <2>1 DEF Written
  <2>2. CASE ~Blank(text)
    <3>1. /\ z \in Works /\ z.flushed = x.flushed /\ z.store.buffer = x.store.buffer
          /\ z.store.remembered = x.store.remembered /\ z.store.segment = x.store.segment
          /\ ~z.failed => z.store.messages = Sent(w.store.messages, id, text, TRUE)
          /\ \A other : Flowing(z.store, other) => Flowing(x.store, other) \/ other = id
      <4>1. Sends(x, z, id, text, TRUE)
        <5>1. z = Dispatch(x, id, text, TRUE) BY <1>3, <2>2
        <5> QED BY ONLY <1>1, <1>2, <5>1, id \in Ids, DispatchSends
      <4> QED BY <1>2, <4>1 DEF Sends
    <3> QED BY <1>2, <2>2, <3>1 DEF Taken, Written
  <2> QED BY <2>1, <2>2
<1>5. Finalize(w, id, fallback, projected) = IF projected \/ ~Blank(text) THEN Dispatch(z, id, << >>, FALSE) ELSE z
  BY <1>1, <1>2, <1>3 DEF Finalize, Ending
<1>6. CASE projected \/ ~Blank(text)
  <2>1. PICK y : y = Dispatch(z, id, << >>, FALSE) OBVIOUS
  <2>0. << >> \in Text BY DEF Text
  <2>2. /\ y \in Works /\ y.flushed = z.flushed /\ y.store.buffer = z.store.buffer
        /\ y.store.remembered = z.store.remembered /\ y.store.segment = z.store.segment
        /\ ~y.failed => ~z.failed /\ y.store.messages = Sent(z.store.messages, id, << >>, FALSE)
    BY <1>4, <2>0, <2>1, DispatchSends DEF Sends
  <2>3. /\ \A other : Flowing(y.store, other) => Flowing(z.store, other) \/ other = id
        /\ ~y.failed => ~Flowing(y.store, id)
    BY <1>4, <2>0, <2>1, DispatchSends DEF Sends
  <2>4. Taken(w, y, id)
    BY <1>4, <2>2, <2>3 DEF Taken
  <2> QED BY <1>1, <1>2, <1>4, <1>5, <1>6, <2>1, <2>2, <2>3, <2>4 DEF Ended
<1>7. CASE ~(projected \/ ~Blank(text))
  <2>1. z = x BY <1>3, <1>7
  <2> QED BY <1>1, <1>2, <1>4, <1>5, <1>7, <2>1 DEF Ended, Flowing
<1> QED BY <1>6, <1>7

\* What is buffered, streams or is active is remembered for the end of the turn.
Clean(s) ==
  \A id \in Ids : id \in DOMAIN s.buffer \/ Flowing(s, id) \/ id = s.segment.active => Listed(s, id)

LEMMA TakenClean ==
  ASSUME NEW w, NEW y, NEW id, Taken(w, y, id), Clean(w.store), Listed(w.store, id)
  PROVE  Clean(y.store)
  BY DEF Taken, Clean, Listed

LEMMA FinalizeActiveIs ==
  ASSUME NEW w \in Works, NEW projected \in BOOLEAN, ~w.failed, Clean(w.store),
         LET id == w.store.segment.active IN Flowing(w.store, id) => projected \/ id \in w.flushed
  PROVE  LET y == FinalizeActive(w, projected)  id == w.store.segment.active  s == w.store IN
         /\ y \in Works /\ Clean(y.store) /\ y.flushed = w.flushed
         /\ id = << >> => y = w
         /\ ~y.failed => /\ y.store.segment = [s.segment EXCEPT !.active = << >>]
                         /\ id # << >> =>
                              y.store.messages = Ended(s.messages, id, Buffered(s.buffer, id), projected \/ id \in w.flushed)
                         /\ DOMAIN y.store.buffer = DOMAIN s.buffer \ {id}
                         /\ \A other : other # id => Buffered(y.store.buffer, other) = Buffered(s.buffer, other)
<1>1. w.store \in Stores /\ w.store.segment \in Segment /\ w.store.segment.active \in Ids \union {<< >>}
      /\ w.store.buffer \in Buffers
  BY DEF Works, Stores, Segment
<1>2. CASE w.store.segment.active = << >>
  <2>1. FinalizeActive(w, projected) = w BY <1>2 DEF FinalizeActive
  <2>2. [w.store.segment EXCEPT !.active = << >>] = w.store.segment BY <1>1, <1>2 DEF Segment
  <2>3. DOMAIN w.store.buffer \ {<< >>} = DOMAIN w.store.buffer BY <1>1, BufferIs, NotAnId
  <2> QED BY <1>2, <2>1, <2>2, <2>3
<1>3. ASSUME NEW id \in Ids, id = w.store.segment.active PROVE
         LET y == FinalizeActive(w, projected) IN
         /\ y \in Works /\ Clean(y.store) /\ y.flushed = w.flushed
         /\ ~y.failed => /\ y.store.segment = [w.store.segment EXCEPT !.active = << >>]
                         /\ y.store.messages = Ended(w.store.messages, id, Buffered(w.store.buffer, id), projected \/ id \in w.flushed)
                         /\ DOMAIN y.store.buffer = DOMAIN w.store.buffer \ {id}
                         /\ \A other : other # id => Buffered(y.store.buffer, other) = Buffered(w.store.buffer, other)
  <2>0. << >> \in Text BY DEF Text
  <2>1. PICK also \in BOOLEAN : also = (projected \/ id \in w.flushed) OBVIOUS
  <2>2. PICK z : z = Finalize(w, id, << >>, also) OBVIOUS
  <2>3. Ending(w, id, << >>) = Buffered(w.store.buffer, id) BY DEF Ending
  <2>4. /\ Taken(w, z, id) /\ z.flushed = w.flushed
        /\ ~z.failed => /\ z.store.messages = Ended(w.store.messages, id, Buffered(w.store.buffer, id), also)
                        /\ Flowing(z.store, id) => Flowing(w.store, id) /\ ~also
    BY <2>0, <2>2, <2>3, FinalizeIs
  <2>5. Listed(w.store, id) /\ Clean(z.store)
    BY <1>3, <2>4, TakenClean DEF Clean
  <2>6. FinalizeActive(w, projected) = Do(z, [Forget(z, id) EXCEPT !.store.segment.active = << >>])
    BY <1>3, <2>1, <2>2, NotAnId DEF FinalizeActive
  <2>7. CASE z.failed
    BY <2>4, <2>5, <2>6, <2>7 DEF Do, Taken
  <2>8. CASE ~z.failed
    <3>1. PICK v : v = Forget(z, id) OBVIOUS
    <3>2. /\ v \in Works /\ v.failed = z.failed /\ v.flushed = z.flushed
          /\ v.store.messages = z.store.messages /\ v.store.buffer = z.store.buffer /\ v.store.segment = z.store.segment
          /\ \A other : other # id /\ Listed(z.store, other) => Listed(v.store, other)
      BY <2>4, <3>1, ForgetIs DEF Taken
    <3>3. PICK g : g = [v.store.segment EXCEPT !.active = << >>] OBVIOUS
    <3>4. g \in Segment /\ g.active = << >> /\ g = [w.store.segment EXCEPT !.active = << >>]
      BY <2>4, <3>2, <3>3 DEF Taken, Works, Stores, Segment
    <3>5. PICK y : y = [v EXCEPT !.store = [v.store EXCEPT !.segment = g]] OBVIOUS
    <3>6. FinalizeActive(w, projected) = y
      BY <2>6, <2>8, <3>1, <3>2, <3>3, <3>5 DEF Do, Works, Stores
    <3>7. [v.store EXCEPT !.segment = g] \in Stores BY <3>2, <3>4 DEF Works, Stores
    <3>8. /\ y \in Works /\ y.flushed = v.flushed /\ y.store.segment = g
          /\ y.store.messages = v.store.messages /\ y.store.buffer = v.store.buffer
          /\ y.store.remembered = v.store.remembered
      BY <3>2, <3>5, <3>7 DEF Works, Stores
    <3>9. ~Flowing(z.store, id)
      BY <1>3, <2>1, <2>4, <2>8
    <3>10. Clean(y.store)
      <4> SUFFICES ASSUME NEW other \in Ids, other \in DOMAIN y.store.buffer \/ Flowing(y.store, other)
                   PROVE  Listed(y.store, other)
        BY <3>4, <3>8, NotAnId DEF Clean
      <4>1. other \in DOMAIN z.store.buffer \/ Flowing(z.store, other)
        BY <3>2, <3>8 DEF Flowing
      <4>2. other # id BY <2>4, <3>9, <4>1 DEF Taken
      <4>3. Listed(v.store, other) BY <2>5, <3>2, <4>1, <4>2 DEF Clean
      <4> QED BY <3>8, <4>3 DEF Listed
    <3> QED BY <2>1, <2>4, <2>8, <3>2, <3>4, <3>6, <3>8, <3>10 DEF Taken
  <2> QED BY <2>7, <2>8
<1> QED BY <1>1, <1>2, <1>3, NotAnId

\* The works after each of the messages that are flushed.
Flushes(f, w) ==
  LET ids == w.store.remembered IN
  /\ \A k \in 0..Len(ids) : f[k] \in Works
  /\ f[0] = w
  /\ \A k \in 1..Len(ids) : f[k] = Do(f[k - 1], Flush(f[k - 1], ids[k]))
  /\ FlushAll(w) = f[Len(ids)]

LEMMA DoFlushIs ==
  ASSUME NEW w \in Works, NEW id \in Ids
  PROVE  Do(w, Flush(w, id)) \in Works
  BY FlushIs DEF Do, Taken

LEMMA FlushAllIs ==
  ASSUME NEW w \in Works
  PROVE  \E f : Flushes(f, w)
<1>1. PICK ids \in Seq(Ids) : ids = w.store.remembered
  BY DEF Works, Stores
<1>2. PICK n \in Nat : n = Len(ids)
  OBVIOUS
<1>3. \A k \in 1..n : ids[k] \in Ids
  BY <1>2
<1>4. PICK step : step = [k \in 1..n |-> [x \in Works |-> Do(x, Flush(x, ids[k]))]]
  OBVIOUS
<1>5. step \in Steps(n, Works)
  BY <1>3, <1>4, DoFlushIs DEF Steps
<1>6. PICK f : Iterates(f, n, Works, w, step)
  BY <1>5, Iteration
<1>7. f = [k \in 0..n |-> IF k = 0 THEN w ELSE Do(f[k - 1], Flush(f[k - 1], ids[k]))]
  <2>1. \A k \in 0..n : f[k] = IF k = 0 THEN w ELSE Do(f[k - 1], Flush(f[k - 1], ids[k]))
    <3> TAKE k \in 0..n
    <3>1. CASE k = 0 BY <3>1, <1>6 DEF Iterates
    <3>2. CASE k # 0
      <4>1. k \in 1..n /\ f[k - 1] \in Works BY <3>2, <1>6 DEF Iterates
      <4>2. f[k] = step[k][f[k - 1]] BY <4>1, <1>6 DEF Iterates
      <4> QED BY <1>4, <3>2, <4>1, <4>2
    <3> QED BY <3>1, <3>2
  <2> QED BY <2>1, <1>6 DEF Iterates
<1> DEFINE after == CHOOSE g : g = [k \in 0..n |-> IF k = 0 THEN w ELSE Do(g[k - 1], Flush(g[k - 1], ids[k]))]
<1>8. after = [k \in 0..n |-> IF k = 0 THEN w ELSE Do(after[k - 1], Flush(after[k - 1], ids[k]))]
  BY <1>7
<1>9. FlushAll(w) = after[n]
  BY <1>1, <1>2 DEF FlushAll
<1>10. PICK g : g = after
  OBVIOUS
<1>11. g = [k \in 0..n |-> IF k = 0 THEN w ELSE Do(g[k - 1], Flush(g[k - 1], ids[k]))] /\ FlushAll(w) = g[n]
  BY <1>8, <1>9, <1>10
<1> HIDE DEF after
<1>12. g[0] = w /\ \A k \in 1..n : g[k] = Do(g[k - 1], Flush(g[k - 1], ids[k]))
  <2>1. \A k \in 0..n : g[k] = IF k = 0 THEN w ELSE Do(g[k - 1], Flush(g[k - 1], ids[k]))
    BY <1>11, Zenon
  <2>2. 0 \in 0..n /\ \A k \in 1..n : k \in 0..n /\ k # 0
    OBVIOUS
  <2> QED BY ONLY <2>1, <2>2, Zenon
<1>13. \A k \in 0..n : g[k] \in Works
  <2> DEFINE Typed == {k \in Nat : k <= n => g[k] \in Works}
  <2>1. 0 \in Typed BY <1>12
  <2>2. ASSUME NEW k \in Nat, k \in Typed PROVE k + 1 \in Typed
    <3> SUFFICES ASSUME k + 1 <= n PROVE g[k + 1] \in Works OBVIOUS
    <3>1. k + 1 \in 1..n /\ (k + 1) - 1 = k /\ g[k] \in Works BY <2>2
    <3>2. g[k + 1] = Do(g[k], Flush(g[k], ids[k + 1])) BY <1>12, <3>1
    <3> QED BY <1>3, <3>1, <3>2, DoFlushIs
  <2>3. Nat \subseteq Typed
    <3> HIDE DEF Typed
    <3> QED BY <2>1, <2>2, SetInduction
  <2> QED BY <2>3
<1> QED BY <1>1, <1>2, <1>11, <1>12, <1>13 DEF Flushes

\* The works after each of the messages that are ended with the turn.
EndsTurn(f, w) ==
  LET ids == w.store.remembered IN
  /\ \A k \in 0..Len(ids) : f[k] \in Works
  /\ f[0] = w
  /\ \A k \in 1..Len(ids) : f[k] = Do(f[k - 1], Finalize(f[k - 1], ids[k], << >>, Has(w.store.messages, ids[k])))
  /\ OnTurnCompleted(w) =
       LET all == f[Len(ids)] IN
       Do(all, [all EXCEPT !.store.remembered = << >>, !.store.segment = NoSegment])

LEMMA DoFinalizeIs ==
  ASSUME NEW w \in Works, NEW id \in Ids, NEW projected \in BOOLEAN
  PROVE  Do(w, Finalize(w, id, << >>, projected)) \in Works
<1>1. << >> \in Text BY DEF Text
<1> QED BY <1>1, FinalizeIs DEF Do, Taken

LEMMA OnTurnCompletedIs ==
  ASSUME NEW w \in Works
  PROVE  \E f : EndsTurn(f, w)
<1>1. PICK ids \in Seq(Ids) : ids = w.store.remembered
  BY DEF Works, Stores
<1>2. PICK n \in Nat : n = Len(ids)
  OBVIOUS
<1>a. PICK there : there = [k \in 1..n |-> Has(w.store.messages, ids[k])]
  OBVIOUS
<1>3. \A k \in 1..n : ids[k] \in Ids /\ there[k] \in BOOLEAN /\ there[k] = Has(w.store.messages, ids[k])
  BY <1>2, <1>a DEF Has
<1>4. PICK step : step = [k \in 1..n |-> [x \in Works |-> Do(x, Finalize(x, ids[k], << >>, there[k]))]]
  OBVIOUS
<1>5. step \in Steps(n, Works)
  BY <1>3, <1>4, DoFinalizeIs DEF Steps
<1>6. PICK f : Iterates(f, n, Works, w, step)
  BY <1>5, Iteration
<1>7. f = [k \in 0..n |-> IF k = 0 THEN w ELSE Do(f[k - 1], Finalize(f[k - 1], ids[k], << >>, Has(w.store.messages, ids[k])))]
  <2>1. \A k \in 0..n : f[k] = IF k = 0 THEN w ELSE Do(f[k - 1], Finalize(f[k - 1], ids[k], << >>, Has(w.store.messages, ids[k])))
    <3> TAKE k \in 0..n
    <3>1. CASE k = 0 BY <3>1, <1>6 DEF Iterates
    <3>2. CASE k # 0
      <4>1. k \in 1..n /\ f[k - 1] \in Works BY <3>2, <1>6 DEF Iterates
      <4>2. f[k] = step[k][f[k - 1]] BY <4>1, <1>6 DEF Iterates
      <4> QED BY <1>3, <1>4, <3>2, <4>1, <4>2
    <3> QED BY <3>1, <3>2
  <2> QED BY <2>1, <1>6 DEF Iterates
<1> DEFINE after == CHOOSE g : g = [k \in 0..n |-> IF k = 0 THEN w ELSE Do(g[k - 1], Finalize(g[k - 1], ids[k], << >>, Has(w.store.messages, ids[k])))]
<1>8. after = [k \in 0..n |-> IF k = 0 THEN w ELSE Do(after[k - 1], Finalize(after[k - 1], ids[k], << >>, Has(w.store.messages, ids[k])))]
  BY <1>7
<1>9. OnTurnCompleted(w) = Do(after[n], [after[n] EXCEPT !.store.remembered = << >>, !.store.segment = NoSegment])
  BY <1>1, <1>2 DEF OnTurnCompleted
<1>10. PICK g : g = after
  OBVIOUS
<1>11. /\ g = [k \in 0..n |-> IF k = 0 THEN w ELSE Do(g[k - 1], Finalize(g[k - 1], ids[k], << >>, Has(w.store.messages, ids[k])))]
       /\ OnTurnCompleted(w) = Do(g[n], [g[n] EXCEPT !.store.remembered = << >>, !.store.segment = NoSegment])
  BY <1>8, <1>9, <1>10
<1> HIDE DEF after
<1>12. g[0] = w /\ \A k \in 1..n : g[k] = Do(g[k - 1], Finalize(g[k - 1], ids[k], << >>, Has(w.store.messages, ids[k])))
  <2>1. \A k \in 0..n : g[k] = IF k = 0 THEN w ELSE Do(g[k - 1], Finalize(g[k - 1], ids[k], << >>, Has(w.store.messages, ids[k])))
    BY <1>11, Zenon
  <2>2. 0 \in 0..n /\ \A k \in 1..n : k \in 0..n /\ k # 0
    OBVIOUS
  <2> QED BY ONLY <2>1, <2>2, Zenon
<1>13. \A k \in 0..n : g[k] \in Works
  <2> DEFINE Typed == {k \in Nat : k <= n => g[k] \in Works}
  <2>1. 0 \in Typed BY <1>12
  <2>2. ASSUME NEW k \in Nat, k \in Typed PROVE k + 1 \in Typed
    <3> SUFFICES ASSUME k + 1 <= n PROVE g[k + 1] \in Works OBVIOUS
    <3>1. k + 1 \in 1..n /\ (k + 1) - 1 = k /\ g[k] \in Works BY <2>2
    <3>2. g[k + 1] = Do(g[k], Finalize(g[k], ids[k + 1], << >>, there[k + 1])) BY <1>3, <1>12, <3>1
    <3> QED BY <1>3, <3>1, <3>2, DoFinalizeIs
  <2>3. Nat \subseteq Typed
    <3> HIDE DEF Typed
    <3> QED BY <2>1, <2>2, SetInduction
  <2> QED BY <2>3
<1> QED BY <1>1, <1>2, <1>11, <1>12, <1>13 DEF EndsTurn

-----------------------------------------------------------------------------
(* The two loops, step by step.                                            *)

\* Only the active message has text in the buffer.
Waits(s) == Buffered(s.buffer, s.segment.active)
OneWaits(s) == DOMAIN s.buffer \subseteq {s.segment.active}

\* The active message's text still waits, or it has been written.
MovedOn(w, x) ==
  LET id == w.store.segment.active IN
  /\ id \in x.flushed => id \in w.flushed \/ ~Blank(Waits(w.store))
  /\ \/ x.store.messages = w.store.messages /\ Buffered(x.store.buffer, id) = Waits(w.store)
     \/ /\ id \notin DOMAIN x.store.buffer
        /\ x.store.messages = Written(w.store.messages, id, Waits(w.store))
        /\ ~Blank(Waits(w.store)) => id \in x.flushed

FlushedTo(w, x, k) ==
  /\ x \in Works /\ Clean(x.store)
  /\ x.store.remembered = w.store.remembered /\ x.store.segment = w.store.segment
  /\ ~x.failed =>
       /\ \A j \in 1..k : w.store.remembered[j] \notin DOMAIN x.store.buffer
       /\ DOMAIN x.store.buffer \subseteq DOMAIN w.store.buffer
       /\ \A id : Flowing(x.store, id) => Flowing(w.store, id) \/ id \in x.flushed
       /\ OneWaits(w.store) => MovedOn(w, x)

LEMMA FlushesTo ==
  ASSUME NEW w, NEW x \in Works, NEW k \in 1..Len(w.store.remembered), w.store.remembered \in Seq(Ids),
         FlushedTo(w, x, k - 1)
  PROVE  FlushedTo(w, Do(x, Flush(x, w.store.remembered[k])), k)
<1>1. CASE x.failed
  BY <1>1 DEF Do, FlushedTo
<1>2. CASE ~x.failed
  <2>1. PICK id \in Ids : id = w.store.remembered[k] OBVIOUS
  <2>2. PICK y : y = Flush(x, id) OBVIOUS
  <2>3. PICK text : text = Buffered(x.store.buffer, id) OBVIOUS
  <2>4. /\ Taken(x, y, id)
        /\ ~y.failed => IF Blank(text) THEN y.store.messages = x.store.messages /\ y.flushed = x.flushed
                        ELSE /\ y.store.messages = Sent(x.store.messages, id, text, TRUE)
                             /\ y.flushed = x.flushed \union {id}
    BY <1>2, <2>1, <2>2, <2>3, FlushIs
  <2>5. Contains(w.store.remembered, id)
    BY <2>1 DEF Contains
  <2>6. y \in Works /\ Clean(y.store)
    <3>1. Listed(x.store, id) BY <2>5 DEF FlushedTo, Listed
    <3> QED BY <2>4, <3>1, TakenClean DEF FlushedTo, Taken
  <2>7. Do(x, Flush(x, w.store.remembered[k])) = y
    BY <1>2, <2>1, <2>2 DEF Do
  <2>8. ASSUME ~y.failed PROVE
          /\ \A j \in 1..k : w.store.remembered[j] \notin DOMAIN y.store.buffer
          /\ DOMAIN y.store.buffer \subseteq DOMAIN w.store.buffer
          /\ \A other : Flowing(y.store, other) => Flowing(w.store, other) \/ other \in y.flushed
          /\ OneWaits(w.store) => MovedOn(w, y)
    <3>1. DOMAIN y.store.buffer = DOMAIN x.store.buffer \ {id}
      BY <2>4 DEF Taken
    <3>2. \A j \in 1..k : w.store.remembered[j] \notin DOMAIN y.store.buffer
      <4> SUFFICES ASSUME NEW j \in 1..k PROVE w.store.remembered[j] \notin DOMAIN y.store.buffer
        OBVIOUS
      <4>1. CASE j = k BY <2>1, <3>1, <4>1
      <4>2. CASE j # k
        <5>1. j \in 1..(k - 1) BY <4>2
        <5> QED BY <1>2, <3>1, <5>1 DEF FlushedTo
      <4> QED BY <4>1, <4>2
    <3>3. \A other : Flowing(y.store, other) => Flowing(w.store, other) \/ other \in y.flushed
      <4> SUFFICES ASSUME NEW other, Flowing(y.store, other) PROVE Flowing(w.store, other) \/ other \in y.flushed
        OBVIOUS
      <4>1. CASE Blank(text)
        <5>1. Flowing(x.store, other) BY <2>4, <2>8, <4>1 DEF Flowing
        <5> QED BY <1>2, <2>4, <2>8, <4>1, <5>1 DEF FlushedTo
      <4>2. CASE ~Blank(text)
        <5>1. Flowing(x.store, other) \/ other = id BY <2>4 DEF Taken
        <5> QED BY <1>2, <2>4, <2>8, <4>2, <5>1 DEF FlushedTo
      <4> QED BY <4>1, <4>2
    <3>4. ASSUME OneWaits(w.store) PROVE MovedOn(w, y)
      <4>1. PICK active : active = w.store.segment.active OBVIOUS
      <4>2. /\ MovedOn(w, x) /\ DOMAIN x.store.buffer \subseteq {active}
            /\ \A other : Buffered(y.store.buffer, other) = IF other = id THEN << >> ELSE Buffered(x.store.buffer, other)
        BY <1>2, <2>4, <3>4, <4>1 DEF FlushedTo, OneWaits, Taken
      <4>3. CASE id # active
        <5>1. id \notin DOMAIN x.store.buffer BY <4>2, <4>3
        <5>2. Blank(text) BY <2>3, <5>1 DEF Buffered, Blank
        <5>3. y.store.messages = x.store.messages /\ y.flushed = x.flushed BY <2>4, <2>8, <5>2
        <5>4. Buffered(y.store.buffer, active) = Buffered(x.store.buffer, active) BY <4>2, <4>3
        <5> QED BY <3>1, <4>1, <4>2, <5>3, <5>4 DEF MovedOn
      <4>4. CASE id = active
        <5>1. active \notin DOMAIN y.store.buffer BY <3>1, <4>4
        <5>2. CASE x.store.messages = w.store.messages /\ Buffered(x.store.buffer, active) = Waits(w.store)
          <6>1. text = Waits(w.store) BY <2>3, <4>4, <5>2
          <6>2. y.store.messages = Written(w.store.messages, active, Waits(w.store))
            BY <2>4, <2>8, <4>4, <5>2, <6>1 DEF Written
          <6>3. ~Blank(Waits(w.store)) => active \in y.flushed
            BY <2>4, <2>8, <4>4, <6>1
          <6>4. active \in y.flushed => active \in w.flushed \/ ~Blank(Waits(w.store))
            BY <2>4, <2>8, <4>1, <4>2, <4>4, <6>1 DEF MovedOn
          <6> QED BY <4>1, <5>1, <6>2, <6>3, <6>4 DEF MovedOn
        <5>3. CASE /\ active \notin DOMAIN x.store.buffer
                   /\ x.store.messages = Written(w.store.messages, active, Waits(w.store))
                   /\ ~Blank(Waits(w.store)) => active \in x.flushed
          <6>1. Blank(text) BY <2>3, <4>4, <5>3 DEF Buffered, Blank
          <6>2. y.store.messages = x.store.messages /\ y.flushed = x.flushed BY <2>4, <2>8, <6>1
          <6> QED BY <4>1, <4>2, <5>1, <5>3, <6>2 DEF MovedOn
        <5> QED BY <4>1, <4>2, <5>2, <5>3 DEF MovedOn
      <4> QED BY <4>3, <4>4
    <3> QED BY <1>2, <3>1, <3>2, <3>3, <3>4 DEF FlushedTo
  <2>9. y.store.remembered = w.store.remembered /\ y.store.segment = w.store.segment
    BY <2>4 DEF Taken, FlushedTo
  <2> QED BY <2>6, <2>7, <2>8, <2>9 DEF FlushedTo
<1> QED BY <1>1, <1>2

LEMMA FlushAllLeaves ==
  ASSUME NEW w \in Works, ~w.failed, Clean(w.store)
  PROVE  LET x == FlushAll(w)  id == w.store.segment.active IN
         /\ x \in Works /\ Clean(x.store)
         /\ x.store.remembered = w.store.remembered /\ x.store.segment = w.store.segment
         /\ ~x.failed =>
              /\ DOMAIN x.store.buffer = {}
              /\ \A other : Flowing(x.store, other) => Flowing(w.store, other) \/ other \in x.flushed
              /\ OneWaits(w.store) => /\ x.store.messages = Written(w.store.messages, id, Waits(w.store))
                                      /\ ~Blank(Waits(w.store)) => id \in x.flushed
                                      /\ id \in x.flushed => id \in w.flushed \/ ~Blank(Waits(w.store))
<1>1. PICK f : Flushes(f, w)
  BY FlushAllIs
<1>2. PICK n \in Nat : n = Len(w.store.remembered) /\ w.store.remembered \in Seq(Ids)
  BY DEF Works, Stores
<1>3. FlushedTo(w, w, 0)
  BY DEF FlushedTo, MovedOn, Waits
<1>4. FlushedTo(w, f[n], n)
  <2> DEFINE Passed == {k \in Nat : k <= n => FlushedTo(w, f[k], k)}
  <2>1. 0 \in Passed BY <1>1, <1>3 DEF Flushes
  <2>2. ASSUME NEW k \in Nat, k \in Passed PROVE k + 1 \in Passed
    <3> SUFFICES ASSUME k + 1 <= n PROVE FlushedTo(w, f[k + 1], k + 1) OBVIOUS
    <3>1. k + 1 \in 1..n /\ (k + 1) - 1 = k /\ FlushedTo(w, f[k], k) BY <2>2
    <3>2. f[k] \in Works /\ f[k + 1] = Do(f[k], Flush(f[k], w.store.remembered[k + 1]))
      BY <1>1, <1>2, <3>1 DEF Flushes
    <3> QED BY <1>2, <3>1, <3>2, FlushesTo
  <2>3. Nat \subseteq Passed
    <3> HIDE DEF Passed
    <3> QED BY <2>1, <2>2, SetInduction
  <2> QED BY <2>3
<1>5. PICK x : x = f[n] /\ x = FlushAll(w)
  BY <1>1, <1>2 DEF Flushes
<1>6. ASSUME ~x.failed PROVE DOMAIN x.store.buffer = {}
  <2> SUFFICES ASSUME NEW id \in DOMAIN x.store.buffer PROVE FALSE
    OBVIOUS
  <2>1. x \in Works /\ Clean(x.store) /\ x.store.remembered = w.store.remembered
    BY <1>4, <1>5 DEF FlushedTo
  <2>2. id \in Ids BY <2>1, BufferIs DEF Works, Stores
  <2>3. Contains(w.store.remembered, id) BY <2>1, <2>2 DEF Clean, Listed
  <2> QED BY <1>2, <1>4, <1>5, <1>6, <2>3 DEF FlushedTo, Contains
<1>7. ASSUME ~x.failed, OneWaits(w.store)
      PROVE  /\ x.store.messages = Written(w.store.messages, w.store.segment.active, Waits(w.store))
             /\ ~Blank(Waits(w.store)) => w.store.segment.active \in x.flushed
             /\ w.store.segment.active \in x.flushed => w.store.segment.active \in w.flushed \/ ~Blank(Waits(w.store))
  <2>1. MovedOn(w, x) BY <1>4, <1>5, <1>7 DEF FlushedTo
  <2>2. Buffered(x.store.buffer, w.store.segment.active) = << >> BY <1>6, <1>7 DEF Buffered
  <2>3. Blank(<< >>) BY DEF Blank
  <2> QED BY <2>1, <2>2, <2>3 DEF MovedOn, Written
<1> QED BY <1>4, <1>5, <1>6, <1>7 DEF FlushedTo

EndedTo(w, x, k) ==
  /\ x \in Works
  /\ x.store.remembered = w.store.remembered /\ x.store.segment = w.store.segment
  /\ ~x.failed =>
       /\ \A id : Flowing(x.store, id) => Flowing(w.store, id)
       /\ \A id \in Ids : id \in DOMAIN x.store.buffer \/ Flowing(x.store, id) =>
            \E j \in (k + 1)..Len(w.store.remembered) : w.store.remembered[j] = id

LEMMA FlowingIds ==
  ASSUME NEW s \in Stores, NEW id, Flowing(s, id)
  PROVE  id \in Ids /\ Has(s.messages, id)
<1>1. PICK i \in DOMAIN s.messages : s.messages[i].id = id
  BY DEF Flowing
<1>2. s.messages \in Seq(Message)
  BY DEF Stores
<1>3. s.messages[i] \in Message
  BY <1>1, <1>2
<1> QED BY <1>1, <1>3 DEF Has, Message

LEMMA EndsTo ==
  ASSUME NEW w \in Works, NEW x \in Works, NEW k \in 1..Len(w.store.remembered), w.store.remembered \in Seq(Ids),
         EndedTo(w, x, k - 1)
  PROVE  LET id == w.store.remembered[k] IN
         EndedTo(w, Do(x, Finalize(x, id, << >>, Has(w.store.messages, id))), k)
<1>1. CASE x.failed
  BY <1>1 DEF Do, EndedTo
<1>2. CASE ~x.failed
  <2>0. << >> \in Text BY DEF Text
  <2>1. PICK id \in Ids : id = w.store.remembered[k] OBVIOUS
  <2>2. PICK there \in BOOLEAN : there = Has(w.store.messages, id) BY DEF Has
  <2>3. PICK y : y = Finalize(x, id, << >>, there) OBVIOUS
  <2>4. /\ Taken(x, y, id)
        /\ ~y.failed => (Flowing(y.store, id) => Flowing(x.store, id) /\ ~there)
    BY <1>2, <2>0, <2>3, FinalizeIs
  <2>5. Do(x, Finalize(x, id, << >>, Has(w.store.messages, id))) = y
    BY <1>2, <2>2, <2>3 DEF Do
  <2>6. ASSUME ~y.failed PROVE
          /\ \A other : Flowing(y.store, other) => Flowing(w.store, other)
          /\ \A other \in Ids : other \in DOMAIN y.store.buffer \/ Flowing(y.store, other) =>
               \E j \in (k + 1)..Len(w.store.remembered) : w.store.remembered[j] = other
    <3>1. ~Flowing(y.store, id)
      <4>1. SUFFICES ASSUME Flowing(y.store, id) PROVE FALSE OBVIOUS
      <4>2. Flowing(x.store, id) /\ ~there BY <2>4, <2>6, <4>1
      <4>3. Flowing(w.store, id) BY <1>2, <4>2 DEF EndedTo
      <4>4. w.store \in Stores BY DEF Works
      <4> QED BY <2>2, <4>2, <4>3, <4>4, FlowingIds
    <3>2. \A other : Flowing(y.store, other) => Flowing(x.store, other) /\ other # id
      BY <2>4, <3>1 DEF Taken
    <3>3. \A other : other \in DOMAIN y.store.buffer => other \in DOMAIN x.store.buffer /\ other # id
      BY <2>4 DEF Taken
    <3>4. ASSUME NEW other \in Ids, other \in DOMAIN y.store.buffer \/ Flowing(y.store, other)
          PROVE  \E j \in (k + 1)..Len(w.store.remembered) : w.store.remembered[j] = other
      <4>1. other # id /\ (other \in DOMAIN x.store.buffer \/ Flowing(x.store, other))
        BY <3>2, <3>3, <3>4
      <4>2. PICK j \in ((k - 1) + 1)..Len(w.store.remembered) : w.store.remembered[j] = other
        BY <1>2, <4>1 DEF EndedTo
      <4>3. j # k BY <2>1, <4>1, <4>2
      <4>4. j \in (k + 1)..Len(w.store.remembered) BY <4>2, <4>3
      <4> QED BY <4>2, <4>4
    <3> QED BY <1>2, <3>2, <3>4 DEF EndedTo
  <2>7. y \in Works /\ y.store.remembered = w.store.remembered /\ y.store.segment = w.store.segment
    BY <2>4 DEF Taken, EndedTo
  <2> QED BY <2>1, <2>5, <2>6, <2>7 DEF EndedTo
<1> QED BY <1>1, <1>2

LEMMA NoSegmentIs == NoSegment \in Segment /\ NoSegment.active = << >>
  BY DEF NoSegment, Segment

\* The end of a turn.
LEMMA TurnCompletedLeaves ==
  ASSUME NEW w \in Works, ~w.failed, Clean(w.store)
  PROVE  LET y == OnTurnCompleted(w) IN
         /\ y \in Works
         /\ ~y.failed => DOMAIN y.store.buffer = {} /\ \A id : ~Flowing(y.store, id)
<1>1. PICK f : EndsTurn(f, w)
  BY OnTurnCompletedIs
<1>2. PICK n \in Nat : n = Len(w.store.remembered) /\ w.store.remembered \in Seq(Ids)
  BY DEF Works, Stores
<1>3. EndedTo(w, w, 0)
  <2> SUFFICES ASSUME NEW id \in Ids, Listed(w.store, id)
               PROVE  \E j \in (0 + 1)..n : w.store.remembered[j] = id
    BY <1>2 DEF EndedTo, Clean
  <2> QED BY <1>2 DEF Listed, Contains
<1>4. EndedTo(w, f[n], n)
  <2> DEFINE Passed == {k \in Nat : k <= n => EndedTo(w, f[k], k)}
  <2>1. 0 \in Passed BY <1>1, <1>3 DEF EndsTurn
  <2>2. ASSUME NEW k \in Nat, k \in Passed PROVE k + 1 \in Passed
    <3> SUFFICES ASSUME k + 1 <= n PROVE EndedTo(w, f[k + 1], k + 1) OBVIOUS
    <3>1. k + 1 \in 1..n /\ (k + 1) - 1 = k /\ EndedTo(w, f[k], k) BY <2>2
    <3>2. f[k] \in Works /\ f[k + 1] = Do(f[k], Finalize(f[k], w.store.remembered[k + 1], << >>, Has(w.store.messages, w.store.remembered[k + 1])))
      BY <1>1, <1>2, <3>1 DEF EndsTurn
    <3> QED BY <1>2, <3>1, <3>2, EndsTo
  <2>3. Nat \subseteq Passed
    <3> HIDE DEF Passed
    <3> QED BY <2>1, <2>2, SetInduction
  <2> QED BY <2>3
<1>5. PICK x \in Works : x = f[n] /\ OnTurnCompleted(w) = Do(x, [x EXCEPT !.store.remembered = << >>, !.store.segment = NoSegment])
  <2>1. f[n] \in Works
    BY <1>4 DEF EndedTo
  <2>2. PICK x \in Works : x = f[n]
    BY <2>1
  <2> QED BY <1>1, <1>2, <2>2 DEF EndsTurn
<1>6. CASE x.failed
  BY <1>5, <1>6 DEF Do
<1>7. CASE ~x.failed
  <2>1. PICK st : st = [x.store EXCEPT !.remembered = << >>, !.segment = NoSegment] OBVIOUS
  <2>2. st \in Stores /\ st.messages = x.store.messages /\ st.buffer = x.store.buffer
    <3>1. << >> \in Seq(Ids) /\ NoSegment \in Segment BY NoSegmentIs
    <3>2. x.store \in Stores BY DEF Works
    <3> QED BY <2>1, <3>1, <3>2 DEF Stores
  <2>3. PICK y : y = [x EXCEPT !.store = st] OBVIOUS
  <2>4. OnTurnCompleted(w) = y BY <1>5, <1>7, <2>1, <2>3 DEF Do, Works, Stores
  <2>5. y \in Works /\ y.store = st BY <2>2, <2>3 DEF Works
  <2>6. \A id \in Ids : id \notin DOMAIN x.store.buffer /\ ~Flowing(x.store, id)
    BY <1>2, <1>4, <1>5, <1>7 DEF EndedTo
  <2>7. DOMAIN x.store.buffer \subseteq Ids /\ x.store \in Stores
    BY BufferIs DEF Works, Stores
  <2>8. \A id : ~Flowing(x.store, id)
    BY <2>6, <2>7, FlowingIds
  <2> QED BY <2>2, <2>4, <2>5, <2>6, <2>7, <2>8 DEF Flowing
<1> QED BY <1>6, <1>7

-----------------------------------------------------------------------------
(* The events.                                                             *)

\* The segment in which a delta of item base goes.
OpenSegment(g, base) ==
  IF g.active # << >> THEN g
  ELSE LET index == IF g.base = base THEN g.next ELSE 0
       IN [base |-> base, next |-> index + 1, active |-> <<base, index>>]

LEMMA OpenSegmentIs ==
  ASSUME NEW g \in Segment, NEW base \in Nat
  PROVE  OpenSegment(g, base) \in Segment /\ OpenSegment(g, base).active \in Ids
  BY DEF OpenSegment, Segment, Ids

LEMMA OpenedIs ==
  ASSUME NEW w \in Works, NEW base \in Nat, Clean(w.store)
  PROVE  LET x == GetOrCreate(w, base)  y == Remember(x, x.store.segment.active) IN
         /\ x.store.segment = OpenSegment(w.store.segment, base)
         /\ y \in Works /\ Clean(y.store) /\ Listed(y.store, y.store.segment.active)
         /\ y.failed = w.failed /\ y.flushed = w.flushed
         /\ y.store.segment = OpenSegment(w.store.segment, base)
         /\ y.store.messages = w.store.messages /\ y.store.buffer = w.store.buffer
<1>1. PICK g \in Segment : g = OpenSegment(w.store.segment, base) /\ g.active \in Ids
  BY OpenSegmentIs DEF Works, Stores
<1>2. PICK x : x = GetOrCreate(w, base)
  OBVIOUS
<1>3. x = [w EXCEPT !.store = [w.store EXCEPT !.segment = g]]
  <2>1. CASE w.store.segment.active # << >>
    <3>1. x = w /\ g = w.store.segment BY <1>1, <1>2, <2>1 DEF GetOrCreate, OpenSegment
    <3> QED BY <3>1 DEF Works, Stores
  <2>2. CASE w.store.segment.active = << >>
    BY <1>1, <1>2, <2>2 DEF GetOrCreate, StartSegment, OpenSegment, Works, Stores
  <2> QED BY <2>1, <2>2
<1>4. [w.store EXCEPT !.segment = g] \in Stores
  BY <1>1 DEF Works, Stores
<1>5. /\ x \in Works /\ x.store.segment = g /\ x.failed = w.failed /\ x.flushed = w.flushed
      /\ x.store.messages = w.store.messages /\ x.store.buffer = w.store.buffer
      /\ x.store.remembered = w.store.remembered
  BY <1>3, <1>4 DEF Works, Stores
<1>6. PICK y : y = Remember(x, g.active)
  OBVIOUS
<1>7. /\ y \in Works /\ y.failed = x.failed /\ y.flushed = x.flushed
      /\ y.store.messages = x.store.messages /\ y.store.buffer = x.store.buffer
      /\ y.store.segment = x.store.segment
      /\ Listed(y.store, g.active) /\ \A other : Listed(x.store, other) => Listed(y.store, other)
  BY <1>1, <1>5, <1>6, RememberIs
<1>8. Clean(y.store)
  <2> SUFFICES ASSUME NEW id \in Ids, id # g.active, id \in DOMAIN w.store.buffer \/ Flowing(w.store, id)
               PROVE  Listed(y.store, id)
    BY <1>5, <1>7 DEF Clean, Flowing
  <2>1. Listed(w.store, id) BY DEF Clean
  <2> QED BY <1>5, <1>7, <2>1 DEF Listed
<1> QED BY <1>1, <1>2, <1>5, <1>6, <1>7, <1>8

LEMMA SentClean ==
  ASSUME NEW w, NEW y, NEW id, NEW text, NEW more, Sends(w, y, id, text, more), Clean(w.store), Listed(w.store, id)
  PROVE  Clean(y.store)
  BY DEF Sends, Clean, Listed

\* What y has of w when chunk was said in the segment g.
Heard(w, y, g, chunk) ==
  LET id == g.active
      text == Append(Buffered(w.store.buffer, id), chunk)
      m == w.store.messages
      same == \A other : other # id => Buffered(y.store.buffer, other) = Buffered(w.store.buffer, other)
      kept == DOMAIN y.store.buffer = DOMAIN w.store.buffer \union {id} /\ Buffered(y.store.buffer, id) = text /\ same
      taken == DOMAIN y.store.buffer = DOMAIN w.store.buffer \ {id} /\ same
  IN /\ y.store.segment = g
     /\ IF streaming THEN y.store.buffer = w.store.buffer /\ y.store.messages = Sent(m, id, <<chunk>>, TRUE)
        ELSE \/ kept /\ y.store.messages = m
             \/ taken /\ y.store.messages = Sent(m, id, text, TRUE)

LEMMA DeltaIs ==
  ASSUME NEW w \in Works, NEW base \in Nat, NEW chunk \in Chunk, ~w.failed, Clean(w.store)
  PROVE  LET y == OnDelta(w, base, chunk) IN
         /\ y \in Works /\ Clean(y.store)
         /\ ~y.failed => Heard(w, y, OpenSegment(w.store.segment, base), chunk)
<1>1. PICK g \in Segment : g = OpenSegment(w.store.segment, base) /\ g.active \in Ids
  BY OpenSegmentIs DEF Works, Stores
<1>2. PICK x \in Works, id \in Ids :
        /\ x = Remember(GetOrCreate(w, base), GetOrCreate(w, base).store.segment.active)
        /\ id = GetOrCreate(w, base).store.segment.active /\ id = g.active
        /\ Clean(x.store) /\ Listed(x.store, id) /\ ~x.failed /\ x.store.segment = g
        /\ x.store.messages = w.store.messages /\ x.store.buffer = w.store.buffer
  BY <1>1, OpenedIs
<1>3. PICK text \in Text : text = Append(Buffered(w.store.buffer, id), chunk)
  <2>1. PICK old : old = Buffered(w.store.buffer, id) OBVIOUS
  <2>2. old \in Seq(Chunk) BY <2>1, BufferedIs DEF Works, Stores, Text
  <2>3. Append(old, chunk) \in Text BY <2>2 DEF Text
  <2> QED BY <2>1, <2>3
<1>4. PICK y : y = OnDelta(w, base, chunk)
  OBVIOUS
<1>5. y = IF streaming THEN Dispatch(x, id, <<chunk>>, TRUE)
          ELSE IF Len(text) <= MaxBuffered
            THEN [x EXCEPT !.store.buffer = [m \in DOMAIN @ \union {id} |-> IF m = id THEN text ELSE @[m]]]
            ELSE Dispatch(TakeText(x, id), id, text, TRUE)
  BY <1>2, <1>3, <1>4 DEF OnDelta
<1>6. CASE streaming
  <2>1. <<chunk>> \in Text BY DEF Text
  <2>2. y = Dispatch(x, id, <<chunk>>, TRUE) BY <1>5, <1>6
  <2>3. Sends(x, y, id, <<chunk>>, TRUE) BY <2>1, <2>2, DispatchSends
  <2>4. Clean(y.store) BY <1>2, <2>3, SentClean
  <2>5. ~y.failed => Heard(w, y, g, chunk) BY <1>2, <1>6, <2>3 DEF Sends, Heard
  <2> QED BY <1>1, <1>4, <2>3, <2>4, <2>5 DEF Sends
<1>7. CASE ~streaming /\ Len(text) <= MaxBuffered
  <2>1. PICK b : b = [m \in DOMAIN w.store.buffer \union {id} |-> IF m = id THEN text ELSE w.store.buffer[m]]
    OBVIOUS
  <2>2. w.store.buffer \in Buffers /\ DOMAIN w.store.buffer \subseteq Ids
        /\ w.store.buffer \in [DOMAIN w.store.buffer -> Text]
    BY BufferIs DEF Works, Stores
  <2>3. PICK D \in SUBSET Ids : D = DOMAIN w.store.buffer \union {id}
    BY <2>2
  <2>4. b \in [D -> Text]
    BY <2>1, <2>2, <2>3
  <2>5. b \in Buffers /\ DOMAIN b = DOMAIN w.store.buffer \union {id} /\ b[id] = text
        /\ \A other \in DOMAIN b : other # id => b[other] = w.store.buffer[other]
    BY <2>1, <2>3, <2>4, BufferIs
  <2>6. y = [x EXCEPT !.store = [x.store EXCEPT !.buffer = b]]
    <3>1. y = [x EXCEPT !.store.buffer = [m \in DOMAIN @ \union {id} |-> IF m = id THEN text ELSE @[m]]]
      BY <1>5, <1>7
    <3> QED BY <1>2, <2>1, <3>1 DEF Works, Stores
  <2>7. [x.store EXCEPT !.buffer = b] \in Stores
    BY <2>5 DEF Works, Stores
  <2>8. /\ y \in Works /\ y.store.buffer = b /\ y.store.segment = x.store.segment
        /\ y.store.messages = x.store.messages /\ y.store.remembered = x.store.remembered
    BY <2>6, <2>7 DEF Works, Stores
  <2>9. Clean(y.store)
    BY <1>2, <2>5, <2>8 DEF Clean, Flowing, Listed
  <2>10. Heard(w, y, g, chunk)
    <3>1. Buffered(b, id) = text /\ \A other : other # id => Buffered(b, other) = Buffered(w.store.buffer, other)
      BY <2>5 DEF Buffered
    <3> QED BY <1>2, <1>3, <1>7, <2>5, <2>8, <3>1 DEF Heard
  <2> QED BY <1>1, <1>4, <2>8, <2>9, <2>10
<1>8. CASE ~streaming /\ ~(Len(text) <= MaxBuffered)
  <2>1. PICK z \in Works : /\ z = TakeText(x, id) /\ Taken(x, z, id) /\ z.failed = x.failed
                           /\ z.store.messages = x.store.messages
    BY TakeTextIs DEF Taken, Flowing
  <2>2. y = Dispatch(z, id, text, TRUE) BY <1>5, <1>8, <2>1
  <2>3. Sends(z, y, id, text, TRUE) BY ONLY <1>3, <2>1, <2>2, id \in Ids, DispatchSends
  <2>4. Clean(z.store) /\ Listed(z.store, id)
    <3>1. Clean(z.store) BY <1>2, <2>1, TakenClean
    <3> QED BY <1>2, <2>1, <3>1 DEF Taken, Listed
  <2>5. Clean(y.store) BY <2>3, <2>4, SentClean
  <2>6. ~y.failed => Heard(w, y, g, chunk)
    BY <1>2, <1>3, <1>8, <2>1, <2>3 DEF Sends, Taken, Heard
  <2> QED BY <1>1, <1>4, <2>3, <2>5, <2>6 DEF Sends
<1> QED BY <1>6, <1>7, <1>8

LEMMA WaitsIs ==
  ASSUME NEW s \in Stores
  PROVE  /\ Waits(s) \in Text
         /\ s.segment.active = << >> => Waits(s) = << >> /\ Blank(Waits(s))
         /\ s.segment \in Segment /\ s.segment.active \in Ids \union {<< >>}
<1>1. s.buffer \in Buffers /\ s.segment \in Segment
  BY DEF Stores
<1>2. Waits(s) \in Text
  BY <1>1, BufferedIs DEF Waits
<1>3. << >> \notin DOMAIN s.buffer
  BY <1>1, BufferIs, NotAnId
<1> QED BY <1>1, <1>2, <1>3 DEF Waits, Buffered, Blank, Segment

\* What y has of w when the active message was ended at a pause.
Paused(w, y, projected) ==
  LET id == w.store.segment.active  text == Waits(w.store)  m == w.store.messages IN
  /\ y.store.segment = [w.store.segment EXCEPT !.active = << >>]
  /\ OneWaits(w.store) =>
       /\ DOMAIN y.store.buffer = {}
       /\ y.store.messages = IF id = << >> THEN m ELSE Ended(m, id, text, projected)

LEMMA PauseIs ==
  ASSUME NEW w \in Works, ~w.failed, w.flushed = {}, Clean(w.store)
  PROVE  LET y == OnPause(w)
             projected == \E i \in DOMAIN w.store.messages : w.store.messages[i].streaming IN
         /\ y \in Works /\ Clean(y.store)
         /\ ~y.failed => Paused(w, y, projected)
<1>1. PICK projected \in BOOLEAN : projected = \E i \in DOMAIN w.store.messages : w.store.messages[i].streaming
  OBVIOUS
<1>2. PICK x : x = IF streaming THEN w ELSE FlushAll(w)
  OBVIOUS
<1>3. OnPause(w) = Do(x, FinalizeActive(x, projected))
  BY <1>1, <1>2 DEF OnPause
<1>4. PICK id, text : text \in Text /\ id = w.store.segment.active /\ text = Waits(w.store) /\ id \in Ids \union {<< >>}
        /\ (id = << >> => text = << >> /\ Blank(text))
  BY WaitsIs DEF Works
<1>5. /\ x \in Works /\ Clean(x.store) /\ x.store.segment = w.store.segment
      /\ ~x.failed =>
           /\ Flowing(x.store, id) => projected \/ id \in x.flushed
           /\ OneWaits(w.store) =>
                \/ x.store.messages = w.store.messages /\ x.store.buffer = w.store.buffer /\ x.flushed = {}
                \/ /\ DOMAIN x.store.buffer = {}
                   /\ x.store.messages = Written(w.store.messages, id, text)
                   /\ ~Blank(text) <=> id \in x.flushed
  <2>1. CASE streaming
    BY <1>1, <1>2, <2>1 DEF Flowing
  <2>2. CASE ~streaming
    BY <1>1, <1>2, <1>4, <2>2, FlushAllLeaves DEF Flowing
  <2> QED BY <2>1, <2>2
<1>6. CASE x.failed
  BY <1>3, <1>5, <1>6 DEF Do
<1>7. CASE ~x.failed
  <2>1. PICK y : y = FinalizeActive(x, projected) OBVIOUS
  <2>2. /\ y \in Works /\ Clean(y.store) /\ (id = << >> => y = x)
        /\ ~y.failed => /\ y.store.segment = [x.store.segment EXCEPT !.active = << >>]
                        /\ id # << >> =>
                             y.store.messages = Ended(x.store.messages, id, Buffered(x.store.buffer, id), projected \/ id \in x.flushed)
                        /\ DOMAIN y.store.buffer = DOMAIN x.store.buffer \ {id}
    BY <1>4, <1>5, <1>7, <2>1, FinalizeActiveIs
  <2>3. OnPause(w) = y BY <1>3, <1>7, <2>1 DEF Do
  <2>4. ASSUME ~y.failed, OneWaits(w.store)
        PROVE  /\ DOMAIN y.store.buffer = {}
               /\ y.store.messages = IF id = << >> THEN w.store.messages ELSE Ended(w.store.messages, id, text, projected)
    <3>1. CASE x.store.messages = w.store.messages /\ x.store.buffer = w.store.buffer /\ x.flushed = {}
      BY <1>4, <2>2, <2>4, <3>1 DEF OneWaits, Waits
    <3>2. CASE /\ DOMAIN x.store.buffer = {}
               /\ x.store.messages = Written(w.store.messages, id, text)
               /\ ~Blank(text) <=> id \in x.flushed
      <4>1. CASE id = << >>
        BY <1>4, <2>2, <2>4, <3>2, <4>1 DEF Written
      <4>2. CASE id # << >>
        <5>1. Buffered(x.store.buffer, id) = << >> /\ Blank(<< >>) BY <3>2 DEF Buffered, Blank
        <5>2. y.store.messages = Ended(x.store.messages, id, << >>, projected \/ id \in x.flushed)
          BY <2>2, <2>4, <4>2, <5>1
        <5>3. y.store.messages = IF projected \/ id \in x.flushed THEN Sent(x.store.messages, id, << >>, FALSE) ELSE x.store.messages
          BY <5>1, <5>2 DEF Ended, Written
        <5> QED BY <2>2, <2>4, <3>2, <4>2, <5>3 DEF Ended, Written
      <4> QED BY <4>1, <4>2
    <3> QED BY <1>5, <1>7, <2>4, <3>1, <3>2
  <2> QED BY <1>1, <1>4, <1>5, <2>2, <2>3, <2>4 DEF Paused
<1> QED BY <1>6, <1>7

\* The message that is ended with item n, and the text it gets if it has none.
EndedId(s, n) == IF s.segment.active # << >> THEN s.segment.active ELSE <<n, 0>>
Fallback(s, n, detail) == IF TextOf(s.messages, EndedId(s, n)) = << >> THEN detail ELSE << >>
Redundant(s, detail) == s.segment.active = << >> /\ s.messages # << >> /\ Blank(detail)

\* What y has of w when item n was completed.
Completed(w, y, n, detail) ==
  LET s == w.store  id == EndedId(s, n) IN
  /\ y.store.segment = NoSegment
  /\ IF Redundant(s, detail)
     THEN y.store.messages = s.messages /\ y.store.buffer = s.buffer
     ELSE /\ y.store.messages = Ended(s.messages, id, Ending(w, id, Fallback(s, n, detail)), Has(s.messages, id))
          /\ DOMAIN y.store.buffer = DOMAIN s.buffer \ {id}
          /\ \A other : other # id => Buffered(y.store.buffer, other) = Buffered(s.buffer, other)

LEMMA ResetIs ==
  ASSUME NEW w \in Works, ~w.failed
  PROVE  LET y == [w EXCEPT !.store.segment = NoSegment] IN
         /\ y \in Works /\ y.failed = w.failed /\ y.store.segment = NoSegment
         /\ y.store.messages = w.store.messages /\ y.store.buffer = w.store.buffer
         /\ y.store.remembered = w.store.remembered
<1>1. PICK st : st = [w.store EXCEPT !.segment = NoSegment]
  OBVIOUS
<1>2. /\ st \in Stores /\ st.segment = NoSegment /\ st.messages = w.store.messages
      /\ st.buffer = w.store.buffer /\ st.remembered = w.store.remembered
  BY <1>1, NoSegmentIs DEF Works, Stores
<1>3. [w EXCEPT !.store.segment = NoSegment] = [w EXCEPT !.store = st]
  BY <1>1 DEF Works, Stores
<1> QED BY <1>2, <1>3 DEF Works

LEMMA ItemIs ==
  ASSUME NEW w \in Works, NEW n \in Nat, NEW detail \in Text, ~w.failed, Clean(w.store)
  PROVE  LET y == OnItemCompleted(w, n, detail) IN
         /\ y \in Works /\ Clean(y.store)
         /\ ~y.failed => Completed(w, y, n, detail)
<1>1. PICK s \in Stores : s = w.store
  BY DEF Works
<1>2. PICK id \in Ids : id = EndedId(s, n)
  BY WaitsIs DEF EndedId, Ids
<1>3. PICK fallback \in Text : fallback = Fallback(s, n, detail)
  <2>1. << >> \in Text BY DEF Text
  <2> QED BY <2>1 DEF Fallback
<1>4. PICK exists \in BOOLEAN : exists = Has(s.messages, id)
  BY DEF Has
<1>5. PICK x \in Works :
        /\ x = IF s.segment.active = << >> THEN Remember(w, id) ELSE w
        /\ x.store.messages = s.messages /\ x.store.buffer = s.buffer /\ x.store.segment = s.segment
        /\ ~x.failed /\ Clean(x.store) /\ Listed(x.store, id)
  <2>1. CASE s.segment.active = << >>
    <3>1. PICK x : x = Remember(w, id) OBVIOUS
    <3>2. /\ x \in Works /\ x.failed = w.failed
          /\ x.store.messages = w.store.messages /\ x.store.buffer = w.store.buffer
          /\ x.store.segment = w.store.segment
          /\ Listed(x.store, id) /\ \A other : Listed(w.store, other) => Listed(x.store, other)
      BY <3>1, RememberIs
    <3>3. Clean(x.store) BY <3>2 DEF Clean, Flowing
    <3> QED BY <1>1, <2>1, <3>1, <3>2, <3>3
  <2>2. CASE s.segment.active # << >>
    BY <1>1, <1>2, <2>2 DEF EndedId, Clean
  <2> QED BY <2>1, <2>2
<1>6. PICK e : e = Finalize(x, id, fallback, exists)
  OBVIOUS
<1>7. /\ Taken(x, e, id) /\ Clean(e.store)
      /\ ~e.failed => /\ e.store.messages = Ended(s.messages, id, Ending(x, id, fallback), exists)
                      /\ ~Flowing(e.store, id)
  <2>1. /\ Taken(x, e, id)
        /\ ~e.failed => /\ e.store.messages = Ended(x.store.messages, id, Ending(x, id, fallback), exists)
                        /\ Flowing(e.store, id) => Flowing(x.store, id) /\ ~exists
    BY <1>3, <1>4, <1>5, <1>6, FinalizeIs
  <2>2. Clean(e.store) BY <1>5, <2>1, TakenClean
  <2>3. Flowing(x.store, id) => exists BY <1>4, <1>5, FlowingIds DEF Works
  <2> QED BY <1>5, <2>1, <2>2, <2>3
<1>8. PICK done : done = IF Redundant(s, detail) THEN w ELSE Do(e, Forget(e, id))
  OBVIOUS
<1>9. OnItemCompleted(w, n, detail) = Do(done, [done EXCEPT !.store.segment = NoSegment])
  BY <1>1, <1>2, <1>3, <1>4, <1>5, <1>6, <1>8 DEF OnItemCompleted, EndedId, Fallback, Redundant
<1>10. /\ done \in Works
       /\ done.failed => Clean(done.store)
       /\ ~done.failed =>
            IF Redundant(s, detail) THEN done = w
            ELSE /\ done.store.messages = Ended(s.messages, id, Ending(x, id, fallback), exists)
                 /\ DOMAIN done.store.buffer = DOMAIN s.buffer \ {id}
                 /\ \A other : other # id => Buffered(done.store.buffer, other) = Buffered(s.buffer, other)
                 /\ \A other \in Ids : other \in DOMAIN done.store.buffer \/ Flowing(done.store, other) => Listed(done.store, other)
  <2>1. CASE Redundant(s, detail)
    BY <1>8, <2>1
  <2>2. CASE ~Redundant(s, detail) /\ e.failed
    BY <1>7, <1>8, <2>2 DEF Do, Taken
  <2>3. CASE ~Redundant(s, detail) /\ ~e.failed
    <3>1. /\ done \in Works /\ ~done.failed /\ done.store.messages = e.store.messages /\ done.store.buffer = e.store.buffer
          /\ done.store.segment = e.store.segment
          /\ \A other : other # id /\ Listed(e.store, other) => Listed(done.store, other)
      BY <1>7, <1>8, <2>3, ForgetIs DEF Do, Taken
    <3>2. ASSUME NEW other \in Ids, other \in DOMAIN done.store.buffer \/ Flowing(done.store, other)
          PROVE  Listed(done.store, other)
      <4>1. other \in DOMAIN e.store.buffer \/ Flowing(e.store, other) BY <3>1, <3>2 DEF Flowing
      <4>2. other # id BY <1>7, <2>3, <4>1 DEF Taken
      <4>3. Listed(e.store, other) BY <1>7, <4>1 DEF Clean
      <4> QED BY <3>1, <4>2, <4>3
    <3> QED BY <1>5, <1>7, <2>3, <3>1, <3>2 DEF Taken
  <2> QED BY <2>1, <2>2, <2>3
<1>11. CASE done.failed
  BY <1>9, <1>10, <1>11 DEF Do
<1>12. CASE ~done.failed
  <2>1. PICK y : y = [done EXCEPT !.store.segment = NoSegment] OBVIOUS
  <2>2. /\ y \in Works /\ y.store.segment = NoSegment
        /\ y.store.messages = done.store.messages /\ y.store.buffer = done.store.buffer
        /\ y.store.remembered = done.store.remembered
    BY <1>10, <1>12, <2>1, ResetIs
  <2>3. OnItemCompleted(w, n, detail) = y BY <1>9, <1>12, <2>1 DEF Do
  <2>4. Clean(y.store)
    <3> SUFFICES ASSUME NEW other \in Ids, other \in DOMAIN done.store.buffer \/ Flowing(done.store, other)
                 PROVE  Listed(done.store, other)
      BY <2>2, NoSegmentIs, NotAnId DEF Clean, Flowing, Listed
    <3> QED BY <1>10 DEF Clean
  <2>5. Ending(x, id, fallback) = Ending(w, id, fallback)
    BY <1>1, <1>5 DEF Ending
  <2>6. Completed(w, y, n, detail)
    BY <1>1, <1>2, <1>3, <1>4, <1>10, <1>12, <2>2, <2>5 DEF Completed
  <2> QED BY <2>2, <2>3, <2>4, <2>6
<1> QED BY <1>11, <1>12

-----------------------------------------------------------------------------
(* The turn.                                                               *)

TextTypeOK ==
  /\ turnState \in {"running", "completed", "lost"}
  /\ said \in Text /\ item \in [n : Nat, text : Text, open : BOOLEAN]
  /\ streaming \in BOOLEAN /\ store \in Stores
  /\ failedWrites \in Nat /\ switches \in Nat

CleanTurn ==
  /\ turnState = "running" => Clean(store)
  /\ turnState = "completed" => DOMAIN store.buffer = {} /\ \A id : ~Flowing(store, id)

LEMMA BeginIs ==
  ASSUME store \in Stores, NEW writes \in Nat
  PROVE  /\ Begin(writes) \in Works /\ Begin(writes).store = store /\ ~Begin(writes).failed
         /\ Begin(writes).flushed = {}
  BY DEF Begin, Works

LEMMA EnoughIs ==
  ASSUME store \in Stores
  PROVE  Enough \in Nat
<1>1. store.remembered \in Seq(Ids)
  BY DEF Stores
<1> QED BY <1>1 DEF Enough

\* The work of a handled event; its excuses matter only while no write fails.
Handled(y, why) ==
  /\ store' = y.store
  /\ failedWrites' = IF y.failed THEN failedWrites + 1 ELSE failedWrites
  /\ excuses' = excuses \union why \union (IF y.failed THEN {"failure"} ELSE {})

LEMMA HandleIs ==
  ASSUME store \in Stores, NEW h, NEW why, Handle(h, why)
  PROVE  \E writes \in 0..Enough : writes \in Nat /\ Handled(h[writes], why)
<1>1. PICK writes \in 0..Enough :
        LET w == h[writes] IN
        /\ store' = w.store
        /\ failedWrites' = IF w.failed THEN failedWrites + 1 ELSE failedWrites
        /\ excuses' = excuses \union why \union (IF w.failed THEN {"failure"} ELSE {})
  BY DEF Handle
<1>2. writes \in Nat
  BY EnoughIs
<1> QED BY <1>1, <1>2 DEF Handled

LEMMA SaysIs ==
  ASSUME said \in Text, NEW blank \in BOOLEAN
  PROVE  Says(blank) \in Chunk /\ Says(blank).blank = blank /\ Says(blank).n = Len(said) + 1
  BY DEF Says, Text, Chunk

LEMMA DeltaHandled ==
  ASSUME TextTypeOK, Clean(store), ContentDelta
  PROVE  \E blank \in BOOLEAN, y \in Works :
           LET n == IF item.open THEN item.n ELSE item.n + 1 IN
           /\ said' = Append(said, Says(blank)) /\ said' \in Text
           /\ item' = [n |-> n, open |-> TRUE, text |-> item'.text] /\ n \in Nat /\ item'.text \in Text
           /\ Handled(y, IF streaming /\ ~Blank(Waiting) THEN {"switch"} ELSE {})
           /\ Clean(y.store)
           /\ ~y.failed => Heard(Begin(0), y, OpenSegment(store.segment, n), Says(blank))
<1>1. PICK n \in Nat : n = IF item.open THEN item.n ELSE item.n + 1
  BY DEF TextTypeOK
<1>2. PICK blank \in BOOLEAN :
        /\ said' = Append(said, Says(blank))
        /\ item' = [n |-> n, open |-> TRUE,
                    text |-> Append(IF item.open THEN item.text ELSE << >>, Says(blank))]
        /\ Handle([w \in 0..Enough |-> OnDelta(Begin(w), n, Says(blank))],
                  IF streaming /\ ~Blank(Waiting) THEN {"switch"} ELSE {})
  BY <1>1 DEF ContentDelta
<1>3. PICK why : why = IF streaming /\ ~Blank(Waiting) THEN {"switch"} ELSE {}
  OBVIOUS
<1>4. PICK chunk \in Chunk : chunk = Says(blank)
  BY SaysIs DEF TextTypeOK
<1>5. PICK writes, y : writes \in Nat /\ y = OnDelta(Begin(writes), n, chunk) /\ Handled(y, why)
  <2>1. PICK h : h = [w \in 0..Enough |-> OnDelta(Begin(w), n, chunk)]
    OBVIOUS
  <2>2. PICK writes \in 0..Enough : writes \in Nat /\ Handled(h[writes], why)
    BY <1>2, <1>3, <1>4, <2>1, HandleIs DEF TextTypeOK
  <2> QED BY <2>1, <2>2
<1>6. PICK w \in Works : w = Begin(writes) /\ w.store = store /\ ~w.failed
  BY <1>5, BeginIs DEF TextTypeOK
<1>7. /\ y \in Works /\ Clean(y.store)
      /\ ~y.failed => Heard(w, y, OpenSegment(w.store.segment, n), chunk)
  BY <1>4, <1>5, <1>6, DeltaIs
<1>8. Begin(0).store = store
  BY DEF Begin
<1>9. ~y.failed => Heard(Begin(0), y, OpenSegment(store.segment, n), chunk)
  BY <1>6, <1>7, <1>8 DEF Heard
<1>10. said' \in Text /\ item'.text \in Text /\ item' = [n |-> n, open |-> TRUE, text |-> item'.text]
  <2>1. said \in Seq(Chunk) /\ (IF item.open THEN item.text ELSE << >>) \in Seq(Chunk)
    BY DEF TextTypeOK, Text
  <2> HIDE DEF Chunk
  <2>2. Append(said, chunk) \in Seq(Chunk) /\ Append(IF item.open THEN item.text ELSE << >>, chunk) \in Seq(Chunk)
    BY <1>4, <2>1
  <2> QED BY <1>2, <1>4, <2>2 DEF Text
<1> QED BY <1>1, <1>2, <1>3, <1>4, <1>5, <1>7, <1>9, <1>10

LEMMA PauseHandled ==
  ASSUME TextTypeOK, Clean(store), Pause
  PROVE  \E y \in Works :
           /\ Handled(y, IF /\ store.segment.active = <<item.n, 0>>
                            /\ ~Has(store.messages, <<item.n, 0>>) /\ Blank(Waiting)
                         THEN {"blank"} ELSE {})
           /\ Clean(y.store)
           /\ ~y.failed => Paused(Begin(0), y, \E i \in DOMAIN store.messages : store.messages[i].streaming)
<1>1. PICK why : why = IF /\ store.segment.active = <<item.n, 0>>
                          /\ ~Has(store.messages, <<item.n, 0>>) /\ Blank(Waiting)
                       THEN {"blank"} ELSE {}
  OBVIOUS
<1>2. Handle([w \in 0..Enough |-> OnPause(Begin(w))], why)
  BY <1>1 DEF Pause
<1>3. PICK writes, y : writes \in Nat /\ y = OnPause(Begin(writes)) /\ Handled(y, why)
  BY <1>2, EnoughIs DEF Handle, Handled, TextTypeOK
<1>4. PICK w \in Works : w = Begin(writes) /\ w.store = store /\ ~w.failed /\ w.flushed = {}
  BY <1>3, BeginIs DEF TextTypeOK
<1>5. PICK projected : projected = \E i \in DOMAIN store.messages : store.messages[i].streaming
  OBVIOUS
<1>6. /\ y \in Works /\ Clean(y.store)
      /\ ~y.failed => Paused(w, y, projected)
  BY <1>3, <1>4, <1>5, PauseIs
<1>7. Begin(0).store = store
  BY DEF Begin
<1>8. ~y.failed => Paused(Begin(0), y, projected)
  BY <1>4, <1>6, <1>7 DEF Paused
<1> QED BY <1>1, <1>3, <1>5, <1>6, <1>8

LEMMA ItemHandled ==
  ASSUME TextTypeOK, Clean(store), NEW n \in Nat, NEW detail \in Text,
         Handle([w \in 0..Enough |-> OnItemCompleted(Begin(w), n, detail)], {})
  PROVE  \E y \in Works :
           /\ Handled(y, {}) /\ Clean(y.store)
           /\ ~y.failed => Completed(Begin(0), y, n, detail)
<1>1. PICK writes, y : writes \in Nat /\ y = OnItemCompleted(Begin(writes), n, detail) /\ Handled(y, {})
  BY EnoughIs DEF Handle, Handled, TextTypeOK
<1>2. PICK w \in Works : w = Begin(writes) /\ w.store = store /\ ~w.failed
  BY <1>1, BeginIs DEF TextTypeOK
<1>3. /\ y \in Works /\ Clean(y.store)
      /\ ~y.failed => Completed(w, y, n, detail)
  BY <1>1, <1>2, ItemIs
<1>4. Begin(0).store = store
  BY DEF Begin
<1>5. ~y.failed => Completed(Begin(0), y, n, detail)
  BY <1>2, <1>3, <1>4 DEF Completed, Ending
<1> QED BY <1>1, <1>3, <1>5

LEMMA EndHandled ==
  ASSUME TextTypeOK, Clean(store), TurnIsCompleted
  PROVE  \E y \in Works :
           /\ Handled(y, {})
           /\ turnState' = IF y.failed THEN "lost" ELSE "completed"
           /\ ~y.failed => DOMAIN y.store.buffer = {} /\ \A id : ~Flowing(y.store, id)
<1>1. PICK writes, y : writes \in Nat /\ y = OnTurnCompleted(Begin(writes)) /\ Handled(y, {})
  BY EnoughIs DEF TurnIsCompleted, Handle, Handled, TextTypeOK
<1>2. PICK w \in Works : w = Begin(writes) /\ w.store = store /\ ~w.failed
  BY <1>1, BeginIs DEF TextTypeOK
<1>3. /\ y \in Works
      /\ ~y.failed => DOMAIN y.store.buffer = {} /\ \A id : ~Flowing(y.store, id)
  BY <1>1, <1>2, TurnCompletedLeaves
<1>4. turnState' = IF y.failed THEN "lost" ELSE "completed"
  BY <1>1 DEF TurnIsCompleted, Handled, TextTypeOK
<1> QED BY <1>1, <1>3, <1>4

LEMMA ExitHandled ==
  ASSUME TextTypeOK, SessionExited
  PROVE  store' \in Stores
<1>1. PICK b : b = Restrict(<< >>, DOMAIN << >> \ ToSet(store.remembered))
  OBVIOUS
<1>2. b \in [{} -> Text] /\ {} \in SUBSET Ids
  BY <1>1 DEF Restrict
<1>3. b \in Buffers
  BY <1>2, BufferIs
<1>4. store' = [messages |-> store.messages, buffer |-> b, remembered |-> << >>, segment |-> NoSegment]
  BY <1>1 DEF SessionExited, EmptyStore
<1>5. << >> \in Seq(Ids)
  OBVIOUS
<1> QED BY <1>3, <1>4, <1>5, NoSegmentIs DEF TextTypeOK, Stores

LEMMA EmptyBuffer ==
  ASSUME NEW b \in Buffers, DOMAIN b = {}
  PROVE  b = << >>
<1>1. b \in [{} -> Text]
  BY BufferIs
<1> QED BY <1>1

LEMMA TextTypes == TextSpec => [](TextTypeOK /\ CleanTurn)
<1>1. ASSUME TextInit PROVE TextTypeOK /\ CleanTurn
  <2>1. EmptyStore.buffer \in [{} -> Text] /\ {} \in SUBSET Ids
    BY DEF EmptyStore
  <2>2. EmptyStore.buffer \in Buffers /\ DOMAIN EmptyStore.buffer = {}
    BY <2>1, BufferIs
  <2>3. << >> \in Seq(Ids) /\ << >> \in Seq(Message) /\ << >> \in Text
    BY DEF Text
  <2>4. EmptyStore \in Stores
    BY <2>2, <2>3, NoSegmentIs DEF EmptyStore, Stores
  <2>5. Clean(EmptyStore)
    BY <2>2, NoSegmentIs, NotAnId DEF Clean, Flowing, EmptyStore
  <2> QED BY <1>1, <2>3, <2>4, <2>5 DEF TextInit, TextTypeOK, CleanTurn
<1>2. ASSUME TextTypeOK, CleanTurn, [TextNext]_textVars PROVE (TextTypeOK /\ CleanTurn)'
  <2> USE <1>2 DEF TextTypeOK
  <2>0. ASSUME turnState = "running" PROVE Clean(store)
    BY <2>0 DEF CleanTurn
  <2>1. CASE ContentDelta
    <3>1. turnState = "running" /\ UNCHANGED <<turnState, streaming, switches>>
      BY <2>1 DEF ContentDelta
    <3>2. PICK blank \in BOOLEAN, y \in Works :
            LET n == IF item.open THEN item.n ELSE item.n + 1 IN
            /\ said' \in Text
            /\ item' = [n |-> n, open |-> TRUE, text |-> item'.text] /\ n \in Nat /\ item'.text \in Text
            /\ Handled(y, IF streaming /\ ~Blank(Waiting) THEN {"switch"} ELSE {})
            /\ Clean(y.store)
      <4>1. TextTypeOK /\ Clean(store) BY <2>0, <3>1
      <4> QED BY ONLY <2>1, <4>1, DeltaHandled
    <3>3. item' \in [n : Nat, text : Text, open : BOOLEAN]
      <4>1. PICK n \in Nat, text \in Text : item' = [n |-> n, open |-> TRUE, text |-> text] BY <3>2
      <4> QED BY <4>1
    <3> QED BY <3>1, <3>2, <3>3 DEF Handled, CleanTurn, Works
  <2>2. CASE Pause
    <3>1. turnState = "running" /\ UNCHANGED <<turnState, said, item, streaming, switches>>
      BY <2>2 DEF Pause
    <3>2. PICK y \in Works :
            /\ Handled(y, IF /\ store.segment.active = <<item.n, 0>>
                             /\ ~Has(store.messages, <<item.n, 0>>) /\ Blank(Waiting)
                          THEN {"blank"} ELSE {})
            /\ Clean(y.store)
      BY <2>0, <2>2, <3>1, PauseHandled
    <3> QED BY <3>1, <3>2 DEF Handled, CleanTurn, Works
  <2>3. CASE ItemCompleted
    <3>1. turnState = "running" /\ UNCHANGED <<turnState, said, streaming, switches>>
          /\ item' \in [n : Nat, text : Text, open : BOOLEAN]
      <4>1. << >> \in Text BY DEF Text
      <4> QED BY <2>3, <4>1 DEF ItemCompleted
    <3>2. PICK detail \in Text, n \in Nat : Handle([w \in 0..Enough |-> OnItemCompleted(Begin(w), n, detail)], {})
      <4>1. << >> \in Text BY DEF Text
      <4> QED BY <2>3, <4>1 DEF ItemCompleted
    <3>3. PICK y \in Works : Handled(y, {}) /\ Clean(y.store)
      BY <2>0, <3>1, <3>2, ItemHandled
    <3> QED BY <3>1, <3>3 DEF Handled, CleanTurn, Works
  <2>4. CASE ItemAtOnce
    <3>1. turnState = "running" /\ UNCHANGED <<turnState, streaming, switches>>
          /\ item' \in [n : Nat, text : Text, open : BOOLEAN]
      BY <2>4 DEF ItemAtOnce
    <3>2. PICK chunk \in Chunk, n \in Nat : chunk = Says(FALSE) /\ n = item.n + 1
      <4>1. Says(FALSE) \in Chunk BY SaysIs
      <4>2. item.n + 1 \in Nat OBVIOUS
      <4> QED BY <4>1, <4>2
    <3>3. <<chunk>> \in Text /\ said' \in Text
      <4>1. said' = Append(said, chunk) /\ said \in Seq(Chunk) BY <2>4, <3>2 DEF ItemAtOnce, Text
      <4> HIDE DEF Chunk
      <4> QED BY <4>1 DEF Text
    <3>4. PICK detail \in Text : Handle([w \in 0..Enough |-> OnItemCompleted(Begin(w), n, detail)], {})
      BY <2>4, <3>2, <3>3 DEF ItemAtOnce
    <3>5. PICK y \in Works : Handled(y, {}) /\ Clean(y.store)
      BY <2>0, <3>1, <3>4, ItemHandled
    <3> QED BY <3>1, <3>3, <3>5 DEF Handled, CleanTurn, Works
  <2>5. CASE TurnIsCompleted
    <3>1. turnState = "running" /\ UNCHANGED <<said, item, streaming, switches>>
      BY <2>5 DEF TurnIsCompleted
    <3>2. PICK y \in Works :
            /\ Handled(y, {})
            /\ turnState' = IF y.failed THEN "lost" ELSE "completed"
            /\ ~y.failed => DOMAIN y.store.buffer = {} /\ \A id : ~Flowing(y.store, id)
      BY <2>0, <2>5, <3>1, EndHandled
    <3> QED BY <3>1, <3>2 DEF Handled, CleanTurn, Works
  <2>6. CASE SessionExited
    <3>1. store' \in Stores BY <2>6, ExitHandled
    <3> QED BY <2>6, <3>1 DEF SessionExited, CleanTurn
  <2>7. CASE SwitchStreaming
    BY <2>7 DEF SwitchStreaming, CleanTurn
  <2>8. CASE UNCHANGED textVars
    BY <2>8 DEF textVars, CleanTurn
  <2> QED BY <2>1, <2>2, <2>3, <2>4, <2>5, <2>6, <2>7, <2>8 DEF TextNext
<1> QED BY <1>1, <1>2, PTL DEF TextSpec

\* When the turn ends nothing of it is left in the worker's buffer and no
\* message of it streams, however many writes failed before: whatever text
\* waits and whatever message streams was remembered for the turn's end.
THEOREM EndedTurnsAreClean == TextSpec => []TurnsEndClean
<1>1. TextTypeOK /\ CleanTurn => TurnsEndClean
  <2> SUFFICES ASSUME TextTypeOK, CleanTurn, turnState = "completed"
               PROVE  store.buffer = << >> /\ \A i \in DOMAIN store.messages : ~store.messages[i].streaming
    BY DEF TurnsEndClean
  <2>1. store.buffer \in Buffers /\ DOMAIN store.buffer = {} /\ \A id : ~Flowing(store, id)
    BY DEF CleanTurn, TextTypeOK, Stores
  <2> QED BY <2>1, EmptyBuffer DEF Flowing
<1> QED BY <1>1, TextTypes, PTL

-----------------------------------------------------------------------------
(* What is shown, and in which order.                                      *)

\* No two messages have one id, and a message's text can only grow at the end.
Unique(m) == \A i, j \in DOMAIN m : m[i].id = m[j].id => i = j
AtEnd(m, id) == \A i \in DOMAIN m : m[i].id = id => i = Len(m)

ShownBy(m) == UNION {Shown(m[i].text) : i \in DOMAIN m}
Precede(m, text, o) == \A i \in DOMAIN m : Before(m[i].text, text, o)

\* The messages are in order, and so is the text that waits to follow them.
Ordered(m, text, o) == MessagesInOrder(m, o) /\ InOrder(text, o) /\ Precede(m, text, o)

\* What may still be asked of the order.
Unexcused(o) == IF o THEN excuses = {} ELSE excuses \subseteq {"switch"}

Whole ==
  LET m == store.messages  text == Waits(store) IN
  /\ OneWaits(store) /\ Unique(m)
  /\ ShownBy(m) \union Shown(text) = Shown(said)
  /\ \A o \in BOOLEAN : Unexcused(o) => Ordered(m, text, o)

\* The item's segments: no message has an id that a later segment may get, the
\* active message is the last, and the item's first message has the text that
\* tells the end of the item that it was shown.
Segments ==
  LET m == store.messages  g == store.segment  first == <<item.n, 0>>  id == g.active IN
  /\ AtEnd(m, id)
  /\ \A i \in DOMAIN m : m[i].id[1] <= item.n /\ (item.open /\ m[i].id[1] = item.n => m[i].id[2] < g.next)
  /\ ~item.open => g = NoSegment
  /\ item.open => /\ g.base = item.n /\ g.next >= 1 /\ id \in {<< >>, <<item.n, g.next - 1>>}
                  /\ id # first => TextOf(m, first) # << >>
  /\ id # << >> => IF Has(m, id) THEN TextOf(m, id) # << >> ELSE Waits(store) # << >>

KeptTurn ==
  /\ \A i \in DOMAIN said : said[i].n = i
  /\ turnState = "lost" => "failure" \in excuses
  /\ excuses \subseteq {"switch"} => Whole
  /\ excuses \subseteq {"switch"} /\ turnState = "running" => Segments

\* One number may be shown before another.
Earlier(a, b, o) == IF o THEN a < b ELSE a # b

LEMMA ShownIs ==
  ASSUME NEW t \in Text
  PROVE  /\ \A a : a \in Shown(t) <=> \E i \in DOMAIN t : ~t[i].blank /\ t[i].n = a
         /\ Shown(t) \subseteq Nat
         /\ Blank(t) => Shown(t) = {}
<1>1. t \in Seq(Chunk)
  BY DEF Text
<1>2. \A i \in DOMAIN t : t[i] \in Chunk
  BY <1>1
<1> QED BY <1>2 DEF Shown, Blank, Chunk

LEMMA BeforeIs ==
  ASSUME NEW t \in Text, NEW u \in Text, NEW o \in BOOLEAN
  PROVE  Before(t, u, o) <=> \A a \in Shown(t), b \in Shown(u) : Earlier(a, b, o)
<1>1. (\A a : a \in Shown(t) <=> \E i \in DOMAIN t : ~t[i].blank /\ t[i].n = a)
  BY ShownIs
<1>2. (\A a : a \in Shown(u) <=> \E i \in DOMAIN u : ~u[i].blank /\ u[i].n = a)
  BY ShownIs
<1> QED BY <1>1, <1>2 DEF Before, Follows, Earlier

LEMMA BlankInOrder ==
  ASSUME NEW t \in Text, Blank(t)
  PROVE  \A o : InOrder(t, o)
  BY DEF InOrder, Blank

LEMMA NoTextIs == << >> \in Text /\ Blank(<< >>) /\ Shown(<< >>) = {} /\ \A o : InOrder(<< >>, o)
  BY DEF Text, Blank, Shown, InOrder

\* Two texts, one after the other.
LEMMA JoinIs ==
  ASSUME NEW t \in Text, NEW u \in Text
  PROVE  /\ t \o u \in Text /\ Len(t \o u) = Len(t) + Len(u)
         /\ Shown(t \o u) = Shown(t) \union Shown(u)
         /\ \A o \in BOOLEAN : InOrder(t, o) /\ InOrder(u, o) /\ Before(t, u, o) => InOrder(t \o u, o)
<1>1. t \in Seq(Chunk) /\ u \in Seq(Chunk)
  BY DEF Text
<1>2. PICK v : v = t \o u
  OBVIOUS
<1>3. /\ v \in Seq(Chunk) /\ Len(v) = Len(t) + Len(u)
      /\ \A i \in 1..Len(t) : v[i] = t[i]
      /\ \A i \in 1..Len(u) : v[Len(t) + i] = u[i]
  BY <1>1, <1>2, ConcatIs
<1>4. Len(t) \in Nat /\ Len(u) \in Nat /\ DOMAIN t = 1..Len(t) /\ DOMAIN u = 1..Len(u) /\ DOMAIN v = 1..Len(v)
  BY <1>1, <1>3
<1>5. \A k \in DOMAIN v : \/ k \in DOMAIN t /\ v[k] = t[k]
                          \/ k > Len(t) /\ k - Len(t) \in DOMAIN u /\ v[k] = u[k - Len(t)]
  <2> TAKE k \in DOMAIN v
  <2>1. CASE k <= Len(t) BY <1>3, <1>4, <2>1
  <2>2. CASE k > Len(t)
    <3>1. k - Len(t) \in 1..Len(u) /\ Len(t) + (k - Len(t)) = k BY <1>3, <1>4, <2>2
    <3> QED BY <1>3, <1>4, <2>2, <3>1
  <2> QED BY <1>4, <2>1, <2>2
<1>6. v \in Text
  BY <1>3 DEF Text
<1>7. Shown(v) = Shown(t) \union Shown(u)
  <2>1. /\ \A a : a \in Shown(t) <=> \E i \in DOMAIN t : ~t[i].blank /\ t[i].n = a
        /\ \A a : a \in Shown(u) <=> \E i \in DOMAIN u : ~u[i].blank /\ u[i].n = a
        /\ \A a : a \in Shown(v) <=> \E i \in DOMAIN v : ~v[i].blank /\ v[i].n = a
    BY <1>6, ShownIs
  <2>2. ASSUME NEW a \in Shown(v) PROVE a \in Shown(t) \union Shown(u)
    <3>1. PICK k \in DOMAIN v : ~v[k].blank /\ v[k].n = a BY <2>1
    <3> QED BY <1>5, <2>1, <3>1
  <2>3. ASSUME NEW a \in Shown(t) PROVE a \in Shown(v)
    <3>1. PICK i \in DOMAIN t : ~t[i].blank /\ t[i].n = a BY <2>1
    <3>2. i \in DOMAIN v /\ v[i] = t[i] BY <1>3, <1>4
    <3> QED BY <2>1, <3>1, <3>2
  <2>4. ASSUME NEW a \in Shown(u) PROVE a \in Shown(v)
    <3>1. PICK i \in DOMAIN u : ~u[i].blank /\ u[i].n = a BY <2>1
    <3>2. Len(t) + i \in DOMAIN v /\ v[Len(t) + i] = u[i] BY <1>3, <1>4
    <3> QED BY <2>1, <3>1, <3>2
  <2> QED BY <2>2, <2>3, <2>4
<1>8. ASSUME NEW o \in BOOLEAN, InOrder(t, o), InOrder(u, o), Before(t, u, o) PROVE InOrder(v, o)
  <2> SUFFICES ASSUME NEW i \in DOMAIN v, NEW j \in DOMAIN v, i < j, ~v[i].blank, ~v[j].blank
               PROVE  Follows(v[i], v[j], o)
    BY DEF InOrder
  <2>1. CASE i \in DOMAIN t /\ v[i] = t[i] /\ j \in DOMAIN t /\ v[j] = t[j]
    BY <1>8, <2>1 DEF InOrder
  <2>2. CASE i \in DOMAIN t /\ v[i] = t[i] /\ j - Len(t) \in DOMAIN u /\ v[j] = u[j - Len(t)]
    BY <1>8, <2>2 DEF Before
  <2>3. CASE i - Len(t) \in DOMAIN u /\ v[i] = u[i - Len(t)] /\ j - Len(t) \in DOMAIN u /\ v[j] = u[j - Len(t)]
    <3>1. i - Len(t) < j - Len(t) BY <1>4
    <3> QED BY <1>8, <2>3, <3>1 DEF InOrder
  <2>4. ~(i > Len(t) /\ j \in DOMAIN t)
    BY <1>4
  <2> QED BY <1>5, <2>1, <2>2, <2>3, <2>4
<1> QED BY <1>2, <1>3, <1>6, <1>7, <1>8

LEMMA ChunkIs ==
  ASSUME NEW c \in Chunk
  PROVE  /\ <<c>> \in Text /\ Len(<<c>>) = 1 /\ Shown(<<c>>) = IF c.blank THEN {} ELSE {c.n}
         /\ Blank(<<c>>) <=> c.blank
         /\ \A o : InOrder(<<c>>, o)
<1>1. <<c>> \in Text
  BY DEF Text
<1>2. DOMAIN <<c>> = {1} /\ <<c>>[1] = c /\ Len(<<c>>) = 1
  OBVIOUS
<1> QED BY <1>1, <1>2 DEF Shown, Blank, InOrder

LEMMA AppendIs ==
  ASSUME NEW t \in Text, NEW c \in Chunk
  PROVE  Append(t, c) = t \o <<c>>
<1>1. t \in Seq(Chunk) /\ <<c>> \in Seq(Chunk)
  BY DEF Text
<1> HIDE DEF Chunk
<1> QED BY <1>1

LEMMA TextOfAt ==
  ASSUME NEW m \in Seq(Message), Unique(m)
  PROVE  /\ \A i \in DOMAIN m : Has(m, m[i].id) /\ TextOf(m, m[i].id) = m[i].text
         /\ \A id : ~Has(m, id) => TextOf(m, id) = << >>
         /\ \A id : Has(m, id) <=> \E i \in DOMAIN m : m[i].id = id
<1>1. ASSUME NEW i \in DOMAIN m PROVE Has(m, m[i].id) /\ TextOf(m, m[i].id) = m[i].text
  <2>1. PICK id : id = m[i].id OBVIOUS
  <2>2. PICK k : k = CHOOSE j \in DOMAIN m : m[j].id = id OBVIOUS
  <2>3. k \in DOMAIN m /\ m[k].id = id BY <2>1, <2>2
  <2>4. k = i BY <2>1, <2>3 DEF Unique
  <2>5. Has(m, id) BY <2>1 DEF Has
  <2> QED BY <2>1, <2>2, <2>4, <2>5 DEF TextOf, Of
<1> QED BY <1>1 DEF TextOf, Has

LEMMA MessageTextIs ==
  ASSUME NEW m \in Seq(Message), NEW i \in DOMAIN m
  PROVE  m[i].text \in Text /\ m[i].id \in Ids
<1>1. m[i] \in Message
  OBVIOUS
<1> QED BY <1>1 DEF Message

\* n is m with text u at the end of its last message, or in a message of its own.
Grown(m, n, id, u) ==
  LET last == Len(n) IN
  /\ n \in Seq(Message) /\ last >= 1 /\ n[last].id = id
  /\ \A i \in 1..(last - 1) : i \in DOMAIN m /\ n[i] = m[i]
  /\ \/ Len(m) = last /\ m[last].id = id /\ n[last].text = m[last].text \o u
     \/ Len(m) = last - 1 /\ ~Has(m, id) /\ n[last].text = u

LEMMA SentGrown ==
  ASSUME NEW m \in Seq(Message), Unique(m), NEW id \in Ids, AtEnd(m, id), NEW u \in Text, NEW more \in BOOLEAN
  PROVE  Grown(m, Sent(m, id, u, more), id, u)
<1>1. PICK e \in Message : e = Entry(m, id, u, more) /\ e.id = id /\ e.text = TextOf(m, id) \o u
  BY EntryIs
<1>2. PICK n : n = Set(m, e) /\ n = Sent(m, id, u, more)
  BY <1>1 DEF Sent
<1>3. /\ n \in Seq(Message)
      /\ \A i \in DOMAIN m : n[i] = IF m[i].id = e.id THEN e ELSE m[i]
      /\ Has(m, e.id) => Len(n) = Len(m)
      /\ ~Has(m, e.id) => Len(n) = Len(m) + 1 /\ n[Len(m) + 1] = e
  <2>1. Filed(m, n, e) BY <1>2, SetFiles
  <2> QED BY <2>1 DEF Filed
<1>4. PICK len \in Nat : len = Len(m) /\ DOMAIN m = 1..len
  OBVIOUS
<1>5. CASE Has(m, id)
  <2>1. PICK i \in DOMAIN m : m[i].id = id BY <1>5 DEF Has
  <2>2. i = len /\ len >= 1 BY <1>4, <2>1 DEF AtEnd
  <2>3. TextOf(m, id) = m[len].text BY <2>1, <2>2, TextOfAt
  <2>4. \A k \in 1..(len - 1) : k \in DOMAIN m /\ n[k] = m[k]
    <3> TAKE k \in 1..(len - 1)
    <3>1. k \in DOMAIN m /\ k # len BY <1>4
    <3>2. m[k].id # id BY <1>4, <3>1 DEF AtEnd
    <3> QED BY <1>1, <1>3, <3>1, <3>2
  <2>5. Len(n) = len /\ n[len] = e /\ m[len].id = id /\ e.text = m[len].text \o u
    BY <1>1, <1>3, <1>4, <1>5, <2>1, <2>2, <2>3
  <2>6. Grown(m, n, id, u)
    BY <1>1, <1>3, <1>4, <2>2, <2>4, <2>5 DEF Grown
  <2> QED BY <1>2, <2>6
<1>6. CASE ~Has(m, id)
  <2>1. TextOf(m, id) = << >> BY <1>6 DEF TextOf
  <2>2. << >> \o u = u BY DEF Text
  <2>3. \A k \in 1..len : k \in DOMAIN m /\ n[k] = m[k]
    BY <1>1, <1>3, <1>4, <1>6 DEF Has
  <2>4. Len(n) = len + 1 /\ n[len + 1] = e /\ e.text = u /\ e.id = id
    BY <1>1, <1>3, <1>4, <1>6, <2>1, <2>2
  <2>5. (len + 1) - 1 = len /\ len + 1 >= 1
    OBVIOUS
  <2>6. Grown(m, n, id, u)
    BY <1>3, <1>4, <1>6, <2>3, <2>4, <2>5 DEF Grown
  <2> QED BY <1>2, <2>6
<1> QED BY <1>5, <1>6

\* The messages n hold what m hold and then u.
Grows(m, n, id, u) ==
  /\ n \in Seq(Message) /\ Unique(n)
  /\ ShownBy(n) = ShownBy(m) \union Shown(u)
  /\ \A o \in BOOLEAN, t \in Text : Ordered(m, u, o) /\ Ordered(m, t, o) /\ Before(u, t, o) => Ordered(n, t, o)
  /\ \A other : Has(n, other) => Has(m, other) \/ other = id
  /\ \A other : Has(m, other) => Has(n, other)
  /\ \A other : TextOf(m, other) # << >> => TextOf(n, other) # << >>

LEMMA GrownGrows ==
  ASSUME NEW m \in Seq(Message), Unique(m), NEW id \in Ids, NEW u \in Text, NEW n, Grown(m, n, id, u)
  PROVE  /\ Grows(m, n, id, u) /\ AtEnd(n, id) /\ Has(n, id)
         /\ u # << >> => TextOf(n, id) # << >>
<1>1. PICK last \in Nat : last = Len(n) /\ last >= 1 /\ n \in Seq(Message) /\ n[last].id = id
        /\ \A i \in 1..(last - 1) : i \in DOMAIN m /\ n[i] = m[i]
  BY DEF Grown
<1>2. Len(m) \in Nat /\ DOMAIN m = 1..Len(m) /\ DOMAIN n = 1..last /\ last \in DOMAIN n
  BY <1>1
<1>3. PICK old \in Text :
        /\ n[last].text = old \o u
        /\ IF Len(m) = last THEN m[last].id = id /\ old = m[last].text ELSE Len(m) = last - 1 /\ ~Has(m, id) /\ old = << >>
  <2>1. CASE Len(m) = last /\ m[last].id = id /\ n[last].text = m[last].text \o u
    BY <1>2, <2>1, MessageTextIs
  <2>2. CASE Len(m) = last - 1 /\ ~Has(m, id) /\ n[last].text = u
    <3>1. << >> \o u = u BY DEF Text
    <3>2. PICK old \in Text : old = << >> BY NoTextIs
    <3>3. Len(m) # last BY <2>2
    <3> QED BY <2>2, <3>1, <3>2, <3>3
  <2> QED BY <1>1, <2>1, <2>2 DEF Grown
<1>4. \A i \in 1..(last - 1) : m[i].id # id /\ n[i].id # id
  <2> SUFFICES ASSUME NEW i \in 1..(last - 1) PROVE m[i].id # id BY <1>1
  <2>1. i \in DOMAIN m BY <1>1
  <2>2. CASE Len(m) = last BY <1>2, <1>3, <2>1, <2>2 DEF Unique
  <2>3. CASE Len(m) # last BY <1>3, <2>1, <2>3 DEF Has
  <2> QED BY <2>2, <2>3
<1>5. Unique(n) /\ AtEnd(n, id) /\ Has(n, id)
  <2>1. ASSUME NEW i \in DOMAIN n, NEW j \in DOMAIN n, n[i].id = n[j].id PROVE i = j
    <3>1. CASE i = last /\ j = last BY <3>1
    <3>2. CASE i # last /\ j = last BY <1>1, <1>2, <1>4, <2>1, <3>2
    <3>3. CASE i = last /\ j # last BY <1>1, <1>2, <1>4, <2>1, <3>3
    <3>4. CASE i # last /\ j # last
      <4>1. i \in 1..(last - 1) /\ j \in 1..(last - 1) BY <1>2, <3>4
      <4> QED BY <1>1, <2>1, <4>1 DEF Unique
    <3> QED BY <3>1, <3>2, <3>3, <3>4
  <2>2. \A i \in DOMAIN n : n[i].id = id => i = last
    BY <1>2, <1>4
  <2> QED BY <1>1, <1>2, <2>1, <2>2 DEF Unique, AtEnd, Has
<1>6. \A i \in DOMAIN m : i \in 1..(last - 1) \/ (i = last /\ Len(m) = last /\ m[i].id = id /\ old = m[i].text)
  <2> TAKE i \in DOMAIN m
  <2>1. CASE Len(m) = last
    <3>1. i \in 1..(last - 1) \/ i = last BY <1>2, <2>1
    <3> QED BY <1>3, <2>1, <3>1
  <2>2. CASE Len(m) = last - 1 BY <1>2, <2>2
  <2> QED BY <1>3, <2>1, <2>2
<1>7. /\ \A other : Has(n, other) => Has(m, other) \/ other = id
      /\ \A other : Has(m, other) => Has(n, other)
  <2>1. ASSUME NEW other, Has(n, other), other # id PROVE Has(m, other)
    <3>1. PICK i \in DOMAIN n : n[i].id = other BY <2>1 DEF Has
    <3>2. i \in 1..(last - 1) BY <1>1, <1>2, <2>1, <3>1
    <3> QED BY <1>1, <3>1, <3>2 DEF Has
  <2>2. ASSUME NEW other, Has(m, other) PROVE Has(n, other)
    <3>1. PICK i \in DOMAIN m : m[i].id = other BY <2>2 DEF Has
    <3>2. CASE i \in 1..(last - 1)
      <4>1. i \in DOMAIN n /\ n[i] = m[i] BY <1>1, <1>2, <3>2
      <4> QED BY <3>1, <4>1 DEF Has
    <3>3. CASE i = last /\ m[i].id = id BY <1>5, <3>1, <3>3
    <3> QED BY <1>6, <3>2, <3>3
  <2> QED BY <2>1, <2>2
<1>8. TextOf(n, id) = old \o u
  BY <1>1, <1>2, <1>3, <1>5, TextOfAt
<1>9. Len(old) \in Nat /\ Len(u) \in Nat /\ Len(old \o u) = Len(old) + Len(u) /\ (u # << >> => Len(u) # 0) /\ (old # << >> => Len(old) # 0)
  BY DEF Text
<1>10. \A other : TextOf(m, other) # << >> => TextOf(n, other) # << >>
  <2> SUFFICES ASSUME NEW other, TextOf(m, other) # << >> PROVE TextOf(n, other) # << >>
    OBVIOUS
  <2>1. PICK i \in DOMAIN m : m[i].id = other /\ TextOf(m, other) = m[i].text
    BY TextOfAt
  <2>2. CASE i \in 1..(last - 1)
    <3>1. i \in DOMAIN n /\ n[i] = m[i] BY <1>1, <1>2, <2>2
    <3>2. TextOf(n, n[i].id) = n[i].text BY <1>1, <1>5, <3>1, TextOfAt
    <3> QED BY <2>1, <3>1, <3>2
  <2>3. CASE i = last /\ m[i].id = id /\ old = m[i].text
    <3>1. old # << >> BY <2>1, <2>3
    <3>2. Len(old \o u) # 0 BY <1>9, <3>1
    <3>3. Len(<< >>) = 0 OBVIOUS
    <3> QED BY <1>8, <2>1, <2>3, <3>2, <3>3
  <2> QED BY <1>6, <2>2, <2>3
<1>11. u # << >> => TextOf(n, id) # << >>
  <2> SUFFICES ASSUME u # << >> PROVE TextOf(n, id) # << >> OBVIOUS
  <2>1. Len(old \o u) # 0 BY <1>9
  <2>2. Len(<< >>) = 0 OBVIOUS
  <2> QED BY <1>8, <2>1, <2>2
<1>12. \A i \in DOMAIN m : m[i].text \in Text
  BY MessageTextIs
<1>13. Shown(old \o u) = Shown(old) \union Shown(u) /\ old \o u \in Text
  BY JoinIs
<1>14. /\ \A i \in 1..(last - 1) : i \in DOMAIN m /\ n[i].text = m[i].text
       /\ n[last].text = old \o u
       /\ \A i \in DOMAIN m : i \in 1..(last - 1) \/ (i = last /\ old = m[i].text)
       /\ old = << >> \/ (last \in DOMAIN m /\ old = m[last].text)
  BY <1>1, <1>2, <1>3, <1>6
<1>15. ShownBy(n) = ShownBy(m) \union Shown(u)
  <2>1. ASSUME NEW a \in ShownBy(n) PROVE a \in ShownBy(m) \union Shown(u)
    <3>1. PICK i \in DOMAIN n : a \in Shown(n[i].text) BY DEF ShownBy
    <3>2. CASE i \in 1..(last - 1) BY <1>14, <3>1, <3>2 DEF ShownBy
    <3>3. CASE i = last
      <4>1. a \in Shown(old) \/ a \in Shown(u) BY <1>13, <1>14, <3>1, <3>3
      <4>2. CASE old = << >> BY <4>1, <4>2, NoTextIs
      <4>3. CASE last \in DOMAIN m /\ old = m[last].text BY <4>1, <4>3 DEF ShownBy
      <4> QED BY <1>14, <4>2, <4>3
    <3> QED BY <1>2, <3>2, <3>3
  <2>2. ASSUME NEW a \in ShownBy(m) PROVE a \in ShownBy(n)
    <3>1. PICK i \in DOMAIN m : a \in Shown(m[i].text) BY DEF ShownBy
    <3>2. CASE i \in 1..(last - 1)
      <4>1. i \in DOMAIN n /\ n[i].text = m[i].text BY <1>2, <1>14, <3>2
      <4> QED BY <3>1, <4>1 DEF ShownBy
    <3>3. CASE i = last /\ old = m[i].text
      <4>1. a \in Shown(n[last].text) BY <1>13, <1>14, <3>1, <3>3
      <4> QED BY <1>2, <4>1 DEF ShownBy
    <3> QED BY <1>14, <3>2, <3>3
  <2>3. ASSUME NEW a \in Shown(u) PROVE a \in ShownBy(n)
    <3>1. a \in Shown(n[last].text) BY <1>13, <1>14
    <3> QED BY <1>2, <3>1 DEF ShownBy
  <2> QED BY <2>1, <2>2, <2>3
<1>16. ASSUME NEW o \in BOOLEAN, NEW t \in Text, Ordered(m, u, o), Ordered(m, t, o), Before(u, t, o)
       PROVE  Ordered(n, t, o)
  <2>1. /\ \A i \in DOMAIN m : InOrder(m[i].text, o) /\ Before(m[i].text, u, o) /\ Before(m[i].text, t, o)
        /\ \A i, j \in DOMAIN m : i < j => Before(m[i].text, m[j].text, o)
        /\ InOrder(u, o) /\ InOrder(t, o)
    BY <1>16 DEF Ordered, MessagesInOrder, Precede
  <2>2. Before(<< >>, u, o) /\ Before(<< >>, t, o) /\ InOrder(<< >>, o) /\ \A i \in DOMAIN m : Before(m[i].text, << >>, o)
    BY DEF Before, InOrder
  <2>3. InOrder(old, o) /\ Before(old, u, o) /\ Before(old, t, o)
    BY <1>14, <2>1, <2>2
  <2>4. \A i \in 1..(last - 1) : Before(m[i].text, old, o)
    <3> TAKE i \in 1..(last - 1)
    <3>1. CASE old = << >> BY <1>14, <2>2, <3>1
    <3>2. CASE last \in DOMAIN m /\ old = m[last].text BY <1>14, <2>1, <3>2
    <3> QED BY <1>14, <3>1, <3>2
  <2>5. InOrder(old \o u, o)
    BY <2>1, <2>3, JoinIs
  <2>6. Before(old \o u, t, o)
    BY <1>13, <1>16, <2>3, BeforeIs
  <2>7. \A i \in 1..(last - 1) : Before(m[i].text, old \o u, o)
    <3> TAKE i \in 1..(last - 1)
    <3>1. m[i].text \in Text /\ Before(m[i].text, old, o) /\ Before(m[i].text, u, o) BY <1>12, <1>14, <2>1, <2>4
    <3> QED BY <1>13, <3>1, BeforeIs
  <2>8. \A i \in DOMAIN n : InOrder(n[i].text, o) /\ Before(n[i].text, t, o)
    <3> TAKE i \in DOMAIN n
    <3>1. CASE i = last BY <1>14, <2>5, <2>6, <3>1
    <3>2. CASE i # last
      <4>1. i \in 1..(last - 1) BY <1>2, <3>2
      <4> QED BY <1>14, <2>1, <4>1
    <3> QED BY <3>1, <3>2
  <2>9. \A i, j \in DOMAIN n : i < j => Before(n[i].text, n[j].text, o)
    <3> SUFFICES ASSUME NEW i \in DOMAIN n, NEW j \in DOMAIN n, i < j PROVE Before(n[i].text, n[j].text, o)
      OBVIOUS
    <3>1. i \in 1..(last - 1) BY <1>2
    <3>2. CASE j = last BY <1>14, <2>7, <3>1, <3>2
    <3>3. CASE j # last
      <4>1. j \in 1..(last - 1) BY <1>2, <3>3
      <4> QED BY <1>14, <2>1, <3>1, <4>1
    <3> QED BY <3>2, <3>3
  <2> QED BY <2>1, <2>8, <2>9 DEF Ordered, MessagesInOrder, Precede
<1> QED BY <1>1, <1>5, <1>7, <1>10, <1>11, <1>15, <1>16 DEF Grows

LEMMA OrderedIs ==
  ASSUME NEW m, NEW o
  PROVE  /\ Before(<< >>, << >>, o) /\ \A t : Before(<< >>, t, o) /\ Before(t, << >>, o)
         /\ \A t : Ordered(m, t, o) => Ordered(m, << >>, o)
  BY DEF Ordered, Before, InOrder, Precede

LEMMA BlankGrows ==
  ASSUME NEW m \in Seq(Message), Unique(m), NEW id, NEW u \in Text, Blank(u)
  PROVE  Grows(m, m, id, u)
  BY ShownIs DEF Grows

LEMMA GrowsMore ==
  ASSUME NEW m, NEW n, NEW r, NEW id, NEW u, Grows(m, n, id, u), Grows(n, r, id, << >>)
  PROVE  Grows(m, r, id, u)
<1>1. ASSUME NEW o \in BOOLEAN, NEW t \in Text, Ordered(m, u, o), Ordered(m, t, o), Before(u, t, o)
      PROVE  Ordered(r, t, o)
  <2>1. Ordered(n, t, o) BY <1>1 DEF Grows
  <2>2. Ordered(n, << >>, o) /\ Before(<< >>, t, o) BY <2>1, OrderedIs
  <2> QED BY <2>1, <2>2 DEF Grows
<1>2. ShownBy(r) = ShownBy(m) \union Shown(u)
  BY NoTextIs DEF Grows
<1> QED BY <1>1, <1>2 DEF Grows

\* Ending a message that is not the last one leaves every text as it is.
LEMMA TouchedIs ==
  ASSUME NEW m \in Seq(Message), Unique(m), NEW id \in Ids, Has(m, id), NEW more \in BOOLEAN
  PROVE  LET n == Sent(m, id, << >>, more) IN
         Grows(m, n, id, << >>) /\ \A other : AtEnd(m, other) => AtEnd(n, other)
<1>0. << >> \in Text
  BY NoTextIs
<1>1. PICK e \in Message : e = Entry(m, id, << >>, more) /\ e.id = id /\ e.text = TextOf(m, id) \o << >>
  BY <1>0, EntryIs
<1>2. PICK n : n = Set(m, e) /\ n = Sent(m, id, << >>, more)
  BY <1>1 DEF Sent
<1>3. n \in Seq(Message) /\ Len(n) = Len(m) /\ \A i \in DOMAIN m : n[i] = IF m[i].id = id THEN e ELSE m[i]
  <2>1. Filed(m, n, e) BY <1>2, SetFiles
  <2> QED BY <1>1, <2>1 DEF Filed
<1>4. DOMAIN n = DOMAIN m
  BY <1>3
<1>5. e.text = TextOf(m, id)
  <2>1. TextOf(m, id) \in Seq(Chunk) BY TextOfIs DEF Text
  <2> HIDE DEF Chunk
  <2> QED BY <1>1, <2>1
<1>6. \A i \in DOMAIN m : n[i].id = m[i].id /\ n[i].text = m[i].text
  <2> TAKE i \in DOMAIN m
  <2>1. CASE m[i].id = id BY <1>1, <1>3, <1>5, <2>1, TextOfAt
  <2>2. CASE m[i].id # id BY <1>3, <2>2
  <2> QED BY <2>1, <2>2
<1>7. Unique(n)
  BY <1>4, <1>6 DEF Unique
<1>8. ShownBy(n) = ShownBy(m)
  BY <1>4, <1>6 DEF ShownBy
<1>9. \A o, t : Ordered(m, t, o) => Ordered(n, t, o)
  BY <1>4, <1>6 DEF Ordered, MessagesInOrder, Precede
<1>10. \A other : Has(n, other) <=> Has(m, other)
  BY <1>4, <1>6 DEF Has
<1>11. \A other : TextOf(m, other) # << >> => TextOf(n, other) # << >>
  <2> SUFFICES ASSUME NEW other, TextOf(m, other) # << >> PROVE TextOf(n, other) # << >>
    OBVIOUS
  <2>1. PICK i \in DOMAIN m : m[i].id = other /\ TextOf(m, other) = m[i].text BY TextOfAt
  <2>2. TextOf(n, n[i].id) = n[i].text BY <1>3, <1>4, <1>7, TextOfAt
  <2> QED BY <1>6, <2>1, <2>2
<1>12. \A other : AtEnd(m, other) => AtEnd(n, other)
  BY <1>3, <1>4, <1>6 DEF AtEnd
<1> QED BY <1>2, <1>3, <1>7, <1>8, <1>9, <1>10, <1>11, <1>12, NoTextIs DEF Grows

LEMMA EndedIs ==
  ASSUME NEW m \in Seq(Message), Unique(m), NEW id \in Ids, AtEnd(m, id),
         NEW text \in Text, NEW projected \in BOOLEAN
  PROVE  LET n == Ended(m, id, text, projected) IN
         /\ Grows(m, n, id, text) /\ AtEnd(n, id)
         /\ ~Blank(text) => TextOf(n, id) # << >>
<1>1. PICK v : v = Written(m, id, text)
  OBVIOUS
<1>2. /\ Grows(m, v, id, text) /\ AtEnd(v, id)
      /\ ~Blank(text) => TextOf(v, id) # << >>
  <2>1. CASE Blank(text)
    BY <1>1, <2>1, BlankGrows DEF Written
  <2>2. CASE ~Blank(text)
    <3>1. Grown(m, v, id, text) BY <1>1, <2>2, SentGrown DEF Written
    <3>2. text # << >> BY <2>2 DEF Blank
    <3> QED BY <3>1, <3>2, GrownGrows
  <2> QED BY <2>1, <2>2
<1>3. PICK n : n = Ended(m, id, text, projected)
  OBVIOUS
<1>4. CASE projected \/ ~Blank(text)
  <2>1. n = Sent(v, id, << >>, FALSE) BY <1>1, <1>3, <1>4 DEF Ended
  <2>2. v \in Seq(Message) /\ Unique(v) BY <1>2 DEF Grows
  <2>3. Grown(v, n, id, << >>) BY <1>2, <2>1, <2>2, NoTextIs, SentGrown
  <2>4. Grows(v, n, id, << >>) /\ AtEnd(n, id) BY <2>2, <2>3, NoTextIs, GrownGrows
  <2>5. Grows(m, n, id, text) BY <1>2, <2>4, GrowsMore
  <2>6. ~Blank(text) => TextOf(n, id) # << >> BY <1>2, <2>4 DEF Grows
  <2> QED BY <1>3, <2>4, <2>5, <2>6
<1>5. CASE ~(projected \/ ~Blank(text))
  <2>1. n = m BY <1>3, <1>5 DEF Ended
  <2> QED BY <1>3, <1>5, <2>1, BlankGrows
<1> QED BY <1>4, <1>5

LEMMA PrecedeIs ==
  ASSUME NEW m \in Seq(Message), NEW t \in Text, NEW o \in BOOLEAN
  PROVE  /\ ShownBy(m) \subseteq Nat
         /\ Precede(m, t, o) <=> \A a \in ShownBy(m), b \in Shown(t) : Earlier(a, b, o)
<1>1. \A i \in DOMAIN m : m[i].text \in Text
  BY MessageTextIs
<1>2. \A i \in DOMAIN m : Before(m[i].text, t, o) <=> \A a \in Shown(m[i].text), b \in Shown(t) : Earlier(a, b, o)
  BY <1>1, BeforeIs
<1>3. \A i \in DOMAIN m : Shown(m[i].text) \subseteq Nat
  BY <1>1, ShownIs
<1> QED BY <1>2, <1>3 DEF Precede, ShownBy

\* Of the chunk c: said, sent on before the text that waits, kept with it or
\* sent with it.
Passed(m, text, n, t, id, c, direct) ==
  IF direct THEN n = Sent(m, id, <<c>>, TRUE) /\ t = text
  ELSE \/ n = m /\ t = Append(text, c)
       \/ n = Sent(m, id, Append(text, c), TRUE) /\ t = << >>

LEMMA PassedIs ==
  ASSUME NEW m \in Seq(Message), Unique(m), NEW id \in Ids, AtEnd(m, id), NEW text \in Text, NEW c \in Chunk,
         NEW n, NEW t, NEW direct \in BOOLEAN, Passed(m, text, n, t, id, c, direct),
         \A a \in ShownBy(m) \union Shown(text), b \in Shown(<<c>>) : a < b,
         Has(m, id) => TextOf(m, id) # << >>
  PROVE  /\ n \in Seq(Message) /\ Unique(n) /\ AtEnd(n, id)
         /\ ShownBy(n) \union Shown(t) = ShownBy(m) \union Shown(text) \union Shown(<<c>>)
         /\ \A o \in BOOLEAN : Ordered(m, text, o) /\ (direct /\ o => Blank(text)) => Ordered(n, t, o)
         /\ \A other : Has(n, other) => Has(m, other) \/ other = id
         /\ \A other : TextOf(m, other) # << >> => TextOf(n, other) # << >>
         /\ IF Has(n, id) THEN TextOf(n, id) # << >> ELSE t # << >>
<1>1. PICK one \in Text : one = <<c>> /\ one # << >> /\ \A o : InOrder(one, o)
  <2>1. <<c>> # << >> OBVIOUS
  <2> QED BY <2>1, ChunkIs
<1>2. PICK u \in Text : u = Append(text, c) /\ u = text \o one /\ u # << >> /\ Shown(u) = Shown(text) \union Shown(one)
        /\ \A o \in BOOLEAN : InOrder(text, o) /\ InOrder(one, o) /\ Before(text, one, o) => InOrder(u, o)
  <2>1. Append(text, c) = text \o one BY <1>1, AppendIs
  <2>2. PICK u : u = text \o one OBVIOUS
  <2>3. u \in Text /\ Len(u) = Len(text) + Len(one) /\ Shown(u) = Shown(text) \union Shown(one)
        /\ \A o \in BOOLEAN : InOrder(text, o) /\ InOrder(one, o) /\ Before(text, one, o) => InOrder(u, o)
    BY <2>2, JoinIs
  <2>4. Len(text) \in Nat /\ Len(one) = 1 BY <1>1 DEF Text
  <2>5. u # << >> BY <2>3, <2>4
  <2> QED BY <2>1, <2>2, <2>3, <2>5
<1>3. /\ \A a \in ShownBy(m), b \in Shown(one) : a < b /\ a \in Nat /\ b \in Nat
      /\ \A a \in Shown(text), b \in Shown(one) : a < b /\ a \in Nat /\ b \in Nat
  BY <1>1, ShownIs, PrecedeIs
<1>4. ASSUME NEW o \in BOOLEAN, Ordered(m, text, o)
      PROVE  /\ Ordered(m, one, o) /\ Ordered(m, u, o)
             /\ ~o \/ Blank(text) => Before(one, text, o)
  <2>1. Precede(m, one, o)
    BY <1>3, PrecedeIs DEF Earlier
  <2>2. Ordered(m, one, o)
    BY <1>1, <1>4, <2>1 DEF Ordered
  <2>3. Before(text, one, o)
    BY <1>3, BeforeIs DEF Earlier
  <2>4. InOrder(u, o)
    BY <1>1, <1>2, <1>4, <2>3 DEF Ordered
  <2>5. Precede(m, u, o)
    <3>1. Precede(m, text, o) BY <1>4 DEF Ordered
    <3> QED BY <1>2, <2>1, <3>1, PrecedeIs
  <2>6. Ordered(m, u, o)
    BY <1>4, <2>4, <2>5 DEF Ordered
  <2>7. ASSUME ~o \/ Blank(text) PROVE Before(one, text, o)
    <3>1. CASE Blank(text) BY <3>1, ShownIs, BeforeIs
    <3>2. CASE ~o
      <4>1. \A a \in Shown(one), b \in Shown(text) : Earlier(a, b, o) BY <1>3, <3>2 DEF Earlier
      <4> QED BY <4>1, BeforeIs
    <3> QED BY <2>7, <3>1, <3>2
  <2> QED BY <2>2, <2>6, <2>7
<1>5. CASE direct
  <2>1. n = Sent(m, id, one, TRUE) /\ t = text BY <1>1, <1>5 DEF Passed
  <2>2. Grown(m, n, id, one) BY <2>1, SentGrown
  <2>3. Grows(m, n, id, one) /\ AtEnd(n, id) /\ TextOf(n, id) # << >> /\ Has(n, id) BY <1>1, <2>2, GrownGrows
  <2>4. \A o \in BOOLEAN : Ordered(m, text, o) /\ (o => Blank(text)) => Ordered(n, text, o)
    <3> SUFFICES ASSUME NEW o \in BOOLEAN, Ordered(m, text, o), o => Blank(text) PROVE Ordered(n, text, o)
      OBVIOUS
    <3>1. Ordered(m, one, o) /\ Before(one, text, o) BY <1>4
    <3> QED BY <2>3, <3>1 DEF Grows
  <2>5. ShownBy(n) \union Shown(t) = ShownBy(m) \union Shown(text) \union Shown(<<c>>)
    BY <1>1, <2>1, <2>3 DEF Grows
  <2> QED BY <1>5, <2>1, <2>3, <2>4, <2>5 DEF Grows
<1>6. CASE ~direct /\ n = m /\ t = u
  <2>1. \A o \in BOOLEAN : Ordered(m, text, o) => Ordered(n, t, o) BY <1>4, <1>6
  <2>2. ShownBy(n) \union Shown(t) = ShownBy(m) \union Shown(text) \union Shown(<<c>>)
    BY <1>1, <1>2, <1>6
  <2> QED BY <1>2, <1>6, <2>1, <2>2
<1>7. CASE ~direct /\ n = Sent(m, id, u, TRUE) /\ t = << >>
  <2>2. Grown(m, n, id, u) BY <1>7, SentGrown
  <2>3. Grows(m, n, id, u) /\ AtEnd(n, id) /\ TextOf(n, id) # << >> /\ Has(n, id) BY <1>2, <2>2, GrownGrows
  <2>4. \A o \in BOOLEAN : Ordered(m, text, o) => Ordered(n, << >>, o)
    <3> SUFFICES ASSUME NEW o \in BOOLEAN, Ordered(m, text, o) PROVE Ordered(n, << >>, o)
      OBVIOUS
    <3>1. Ordered(m, u, o) BY <1>4
    <3>2. Ordered(m, << >>, o) /\ Before(u, << >>, o) BY <3>1, OrderedIs
    <3> QED BY <2>3, <3>1, <3>2, NoTextIs DEF Grows
  <2>5. ShownBy(n) \union Shown(t) = ShownBy(m) \union Shown(text) \union Shown(<<c>>)
    BY <1>1, <1>2, <1>7, <2>3, NoTextIs DEF Grows
  <2> QED BY <1>7, <2>3, <2>4, <2>5 DEF Grows
<1>8. direct \/ (~direct /\ n = m /\ t = u) \/ (~direct /\ n = Sent(m, id, u, TRUE) /\ t = << >>)
  BY <1>2 DEF Passed
<1> QED BY <1>5, <1>6, <1>7, <1>8

-----------------------------------------------------------------------------
(* What the agent said is kept: one lemma for each event.                  *)

LEMMA MessageIds ==
  ASSUME NEW m \in Seq(Message)
  PROVE  \A i \in DOMAIN m : m[i].id[1] \in Nat /\ m[i].id[2] \in Nat /\ m[i].id = <<m[i].id[1], m[i].id[2]>>
<1> TAKE i \in DOMAIN m
<1>1. m[i].id \in Nat \X Nat
  BY MessageTextIs DEF Ids
<1> QED BY <1>1

\* The segment a delta goes to is the active one, or a new one that waits for
\* nothing and has no message.
LEMMA OpensIs ==
  ASSUME TextTypeOK, Whole, Segments, NEW n \in Nat, n = IF item.open THEN item.n ELSE item.n + 1
  PROVE  LET g == OpenSegment(store.segment, n)  m == store.messages  id == g.active IN
         /\ g \in Segment /\ g.base = n /\ g.next >= 1 /\ id = <<n, g.next - 1>> /\ id \in Ids
         /\ AtEnd(m, id) /\ (Has(m, id) => TextOf(m, id) # << >>)
         /\ DOMAIN store.buffer \subseteq {id} /\ Buffered(store.buffer, id) = Waits(store)
         /\ \A i \in DOMAIN m : m[i].id[1] <= n /\ (m[i].id[1] = n => m[i].id[2] < g.next)
         /\ id # <<n, 0>> => TextOf(m, <<n, 0>>) # << >>
<1>1. PICK g \in Segment : g = OpenSegment(store.segment, n) /\ g.active \in Ids
  BY OpenSegmentIs DEF TextTypeOK, Stores
<1>2. PICK old \in Segment : old = store.segment
  BY DEF TextTypeOK, Stores
<1>3. PICK m \in Seq(Message) : m = store.messages
  BY DEF TextTypeOK, Stores
<1>4. /\ \A i \in DOMAIN m : m[i].id[1] \in Nat /\ m[i].id[2] \in Nat /\ m[i].id = <<m[i].id[1], m[i].id[2]>>
  BY MessageIds
<1>5. /\ \A i \in DOMAIN m : m[i].id[1] <= item.n /\ (item.open /\ m[i].id[1] = item.n => m[i].id[2] < old.next)
      /\ ~item.open => old = NoSegment
      /\ item.open => /\ old.base = item.n /\ old.next >= 1 /\ old.active \in {<< >>, <<item.n, old.next - 1>>}
                      /\ old.active # <<item.n, 0>> => TextOf(m, <<item.n, 0>>) # << >>
      /\ AtEnd(m, old.active)
      /\ old.active # << >> => (Has(m, old.active) => TextOf(m, old.active) # << >>)
  BY <1>2, <1>3 DEF Segments
<1>6. store.buffer \in Buffers /\ DOMAIN store.buffer \subseteq Ids /\ DOMAIN store.buffer \subseteq {old.active}
  BY <1>2, BufferIs DEF TextTypeOK, Stores, Whole, OneWaits
<1>7. item.n \in Nat /\ old.next \in Nat
  BY DEF TextTypeOK, Segment
<1>8. CASE old.active # << >>
  <2>1. g = old /\ item.open /\ n = item.n BY <1>1, <1>2, <1>5, <1>8 DEF OpenSegment, NoSegment
  <2> QED BY <1>1, <1>2, <1>3, <1>5, <1>6, <1>8, <2>1 DEF Waits
<1>9. CASE old.active = << >>
  <2>1. DOMAIN store.buffer = {} BY <1>6, <1>9, NotAnId
  <2>2. g.base = n /\ g.next >= 1 /\ g.active = <<n, g.next - 1>>
        /\ (item.open => g.next = old.next + 1) /\ (~item.open => g.next = 1)
    <3>1. CASE item.open
      <4>1. g = [base |-> n, next |-> old.next + 1, active |-> <<n, old.next>>]
        BY <1>1, <1>2, <1>5, <1>9, <3>1 DEF OpenSegment
      <4>2. (old.next + 1) - 1 = old.next /\ old.next + 1 >= 1 BY <1>7
      <4> QED BY <3>1, <4>1, <4>2
    <3>2. CASE ~item.open
      <4>1. n # 0 BY <1>7, <3>2
      <4>2. g = [base |-> n, next |-> 1, active |-> <<n, 0>>]
        <5>1. old.base = 0 /\ old.active = << >> BY <1>5, <3>2 DEF NoSegment
        <5>2. g = [base |-> n, next |-> 0 + 1, active |-> <<n, 0>>]
          BY <1>1, <1>2, <4>1, <5>1 DEF OpenSegment
        <5> QED BY <5>2
      <4> QED BY <3>2, <4>2
    <3> QED BY <3>1, <3>2
  <2>3. \A i \in DOMAIN m : m[i].id # g.active /\ m[i].id[1] <= n /\ (m[i].id[1] = n => m[i].id[2] < g.next)
    <3> TAKE i \in DOMAIN m
    <3>1. PICK a \in Nat, b \in Nat : a = m[i].id[1] /\ b = m[i].id[2] /\ m[i].id = <<a, b>> BY <1>4
    <3>2. a <= item.n /\ (item.open /\ a = item.n => b < old.next) BY <1>5, <3>1
    <3>3. g.active = <<n, g.next - 1>> BY <2>2
    <3>4. ~(a = n /\ b = g.next - 1) BY <1>7, <2>2, <3>2
    <3>5. m[i].id # g.active BY <3>1, <3>3, <3>4
    <3> QED BY <1>7, <2>2, <3>1, <3>2, <3>5
  <2>4. g.active # <<n, 0>> => TextOf(m, <<n, 0>>) # << >>
    <3> SUFFICES ASSUME g.active # <<n, 0>> PROVE TextOf(m, <<n, 0>>) # << >>
      OBVIOUS
    <3>1. item.open BY <2>2
    <3>2. << >> # <<item.n, 0>> OBVIOUS
    <3> QED BY <1>5, <1>9, <3>1, <3>2
  <2>5. Buffered(store.buffer, g.active) = << >> /\ Waits(store) = << >>
    BY <2>1 DEF Buffered, Waits
  <2> QED BY <1>1, <1>3, <2>1, <2>2, <2>3, <2>4, <2>5 DEF AtEnd, Has
<1> QED BY <1>8, <1>9

\* The next chunk has a number greater than all before.
LEMMA NextChunk ==
  ASSUME said \in Text, \A i \in DOMAIN said : said[i].n = i, NEW blank \in BOOLEAN
  PROVE  LET c == Says(blank)  after == Append(said, c) IN
         /\ c \in Chunk /\ \A a \in Shown(said), b \in Shown(<<c>>) : a < b
         /\ Shown(after) = Shown(said) \union Shown(<<c>>)
         /\ \A i \in DOMAIN after : after[i].n = i
<1>1. PICK c \in Chunk : c = Says(blank) /\ c.n = Len(said) + 1
  BY SaysIs
<1>2. said \in Seq(Chunk) /\ Len(said) \in Nat /\ DOMAIN said = 1..Len(said)
  BY DEF Text
<1>3. \A a \in Shown(said) : a \in 1..Len(said)
  BY <1>2, ShownIs
<1>4. \A b \in Shown(<<c>>) : b = Len(said) + 1
  BY <1>1, ChunkIs
<1>5. PICK after : after = Append(said, c)
  OBVIOUS
<1>6. Shown(after) = Shown(said) \union Shown(<<c>>)
  BY <1>5, AppendIs, JoinIs, ChunkIs
<1>7. DOMAIN after = 1..(Len(said) + 1) /\ after[Len(said) + 1] = c /\ \A i \in 1..Len(said) : after[i] = said[i]
  <2> HIDE DEF Chunk
  <2> QED BY <1>2, <1>5
<1>8. \A i \in DOMAIN after : after[i].n = i
  BY <1>1, <1>2, <1>7
<1> QED BY <1>1, <1>2, <1>3, <1>4, <1>5, <1>6, <1>8

LEMMA DeltaKeeps ==
  ASSUME TextTypeOK, Clean(store), KeptTurn, ContentDelta, excuses' \subseteq {"switch"}
  PROVE  Whole' /\ Segments'
<1>1. PICK n \in Nat : n = IF item.open THEN item.n ELSE item.n + 1
  BY DEF TextTypeOK
<1>2. PICK blank \in BOOLEAN, y \in Works :
        /\ said' = Append(said, Says(blank)) /\ item'.n = n /\ item'.open
        /\ Handled(y, IF streaming /\ ~Blank(Waiting) THEN {"switch"} ELSE {})
        /\ ~y.failed => Heard(Begin(0), y, OpenSegment(store.segment, n), Says(blank))
  <2>1. PICK blank \in BOOLEAN, y \in Works :
          LET k == IF item.open THEN item.n ELSE item.n + 1 IN
          /\ said' = Append(said, Says(blank)) /\ item' = [n |-> k, open |-> TRUE, text |-> item'.text]
          /\ Handled(y, IF streaming /\ ~Blank(Waiting) THEN {"switch"} ELSE {})
          /\ ~y.failed => Heard(Begin(0), y, OpenSegment(store.segment, k), Says(blank))
    BY DeltaHandled
  <2>2. item'.n = n /\ item'.open BY <1>1, <2>1
  <2> QED BY <1>1, <2>1, <2>2
<1>3. ~y.failed /\ excuses \subseteq {"switch"} /\ store' = y.store
  BY <1>2 DEF Handled
<1>4. turnState = "running" /\ Whole /\ Segments
  BY <1>3 DEF KeptTurn, ContentDelta
<1>5. PICK g \in Segment, id \in Ids, m \in Seq(Message), text \in Text :
        /\ g = OpenSegment(store.segment, n) /\ m = store.messages /\ text = Waits(store)
        /\ id = g.active /\ g.base = n /\ g.next >= 1 /\ id = <<n, g.next - 1>>
        /\ AtEnd(m, id) /\ (Has(m, id) => TextOf(m, id) # << >>)
        /\ DOMAIN store.buffer \subseteq {id} /\ Buffered(store.buffer, id) = text
        /\ \A i \in DOMAIN m : m[i].id[1] <= n /\ (m[i].id[1] = n => m[i].id[2] < g.next)
        /\ id # <<n, 0>> => TextOf(m, <<n, 0>>) # << >>
  <2>1. store.messages \in Seq(Message) /\ Waits(store) \in Text BY WaitsIs DEF TextTypeOK, Stores
  <2> QED BY <1>1, <1>4, <2>1, OpensIs
<1>6. PICK c \in Chunk :
        /\ c = Says(blank) /\ \A a \in Shown(said), b \in Shown(<<c>>) : a < b
        /\ Shown(said') = Shown(said) \union Shown(<<c>>)
  BY <1>2, NextChunk DEF TextTypeOK, KeptTurn
<1>7. Unique(m) /\ ShownBy(m) \union Shown(text) = Shown(said) /\ \A o \in BOOLEAN : Unexcused(o) => Ordered(m, text, o)
  BY <1>4, <1>5 DEF Whole
<1>8. PICK w, v, t : w = store' /\ v = w.messages /\ t = Buffered(w.buffer, id)
  OBVIOUS
<1>9. w.segment = g /\ DOMAIN w.buffer \subseteq {id} /\ Passed(m, text, v, t, id, c, streaming)
  <2>1. Begin(0).store = store BY DEF Begin
  <2>2. Heard(Begin(0), y, g, c) BY <1>2, <1>3, <1>5, <1>6
  <2> QED BY <1>3, <1>5, <1>8, <2>1, <2>2, NoTextIs DEF Heard, Passed, Buffered
<1>10. streaming \in BOOLEAN /\ \A a \in ShownBy(m) \union Shown(text), b \in Shown(<<c>>) : a < b
  BY <1>6, <1>7 DEF TextTypeOK
<1>11. /\ v \in Seq(Message) /\ Unique(v) /\ AtEnd(v, id)
       /\ ShownBy(v) \union Shown(t) = ShownBy(m) \union Shown(text) \union Shown(<<c>>)
       /\ \A o \in BOOLEAN : Ordered(m, text, o) /\ (streaming /\ o => Blank(text)) => Ordered(v, t, o)
       /\ \A other : Has(v, other) => Has(m, other) \/ other = id
       /\ \A other : TextOf(m, other) # << >> => TextOf(v, other) # << >>
       /\ IF Has(v, id) THEN TextOf(v, id) # << >> ELSE t # << >>
  BY <1>5, <1>7, <1>9, <1>10, PassedIs
<1>12. \A o \in BOOLEAN : Unexcused(o)' => Unexcused(o) /\ (streaming /\ o => Blank(text))
  <2>1. Waiting = text BY <1>5 DEF Waiting, Waits
  <2> QED BY <1>2, <1>3, <2>1 DEF Handled, Unexcused
<1>13. Waits(w) = t
  BY <1>5, <1>8, <1>9 DEF Waits
<1>14. Whole'
  <2>1. OneWaits(w) BY <1>5, <1>9 DEF OneWaits
  <2>2. ShownBy(v) \union Shown(t) = Shown(said') BY <1>6, <1>7, <1>11
  <2>3. \A o \in BOOLEAN : Unexcused(o)' => Ordered(v, t, o) BY <1>7, <1>11, <1>12
  <2> QED BY <1>8, <1>11, <1>13, <2>1, <2>2, <2>3 DEF Whole
<1>15. Segments'
  <2>1. \A i \in DOMAIN v : v[i].id[1] <= n /\ (v[i].id[1] = n => v[i].id[2] < g.next)
    <3> TAKE i \in DOMAIN v
    <3>1. Has(v, v[i].id) BY DEF Has
    <3>2. CASE Has(m, v[i].id)
      <4>1. PICK j \in DOMAIN m : m[j].id = v[i].id BY <3>2 DEF Has
      <4> QED BY <1>5, <4>1
    <3>3. CASE v[i].id = id
      <4>1. v[i].id[1] = n /\ v[i].id[2] = g.next - 1 /\ g.next \in Nat BY <1>5, <3>3 DEF Segment
      <4> QED BY <4>1
    <3> QED BY <1>11, <3>1, <3>2, <3>3
  <2>2. id # <<n, 0>> => TextOf(v, <<n, 0>>) # << >>
    BY <1>5, <1>11
  <2> QED BY <1>2, <1>5, <1>8, <1>9, <1>11, <1>13, <2>1, <2>2 DEF Segments
<1> QED BY <1>14, <1>15

LEMMA GrowsEnd ==
  ASSUME NEW m, NEW n, NEW id, NEW u, Grows(m, n, id, u), NEW o \in BOOLEAN, Ordered(m, u, o)
  PROVE  Ordered(n, << >>, o)
<1>1. Ordered(m, << >>, o) /\ Before(u, << >>, o)
  BY OrderedIs
<1> QED BY <1>1, NoTextIs DEF Grows

\* What the state says of the store when nothing failed.
LEMMA StoreIs ==
  ASSUME TextTypeOK, Whole
  PROVE  LET m == store.messages  id == store.segment.active  text == Waits(store) IN
         /\ m \in Seq(Message) /\ Unique(m) /\ text \in Text /\ id \in Ids \union {<< >>}
         /\ id = << >> => text = << >> /\ Blank(text) /\ DOMAIN store.buffer = {}
         /\ DOMAIN store.buffer \subseteq {id} /\ store.segment \in Segment
         /\ ShownBy(m) \union Shown(text) = Shown(said)
         /\ \A o \in BOOLEAN : Unexcused(o) => Ordered(m, text, o)
<1>1. store \in Stores /\ store.messages \in Seq(Message) /\ store.buffer \in Buffers
  BY DEF TextTypeOK, Stores
<1>2. DOMAIN store.buffer \subseteq {store.segment.active} /\ DOMAIN store.buffer \subseteq Ids
  BY <1>1, BufferIs DEF Whole, OneWaits
<1>3. store.segment.active = << >> => DOMAIN store.buffer = {}
  BY <1>2, NotAnId
<1> QED BY <1>1, <1>2, <1>3, WaitsIs DEF Whole

LEMMA NotAtEnd ==
  ASSUME NEW m \in Seq(Message)
  PROVE  AtEnd(m, << >>)
  BY MessageTextIs, NotAnId DEF AtEnd

LEMMA PauseKeeps ==
  ASSUME TextTypeOK, Clean(store), KeptTurn, Pause, excuses' \subseteq {"switch"}
  PROVE  Whole' /\ Segments'
<1>1. PICK y \in Works :
        /\ Handled(y, IF /\ store.segment.active = <<item.n, 0>>
                         /\ ~Has(store.messages, <<item.n, 0>>) /\ Blank(Waiting)
                      THEN {"blank"} ELSE {})
        /\ ~y.failed => Paused(Begin(0), y, \E i \in DOMAIN store.messages : store.messages[i].streaming)
  BY PauseHandled
<1>2. ~y.failed /\ excuses \subseteq {"switch"} /\ store' = y.store /\ excuses' = excuses
      /\ ~(/\ store.segment.active = <<item.n, 0>>
           /\ ~Has(store.messages, <<item.n, 0>>) /\ Blank(Waiting))
  BY <1>1 DEF Handled
<1>3. turnState = "running" /\ Whole /\ Segments /\ UNCHANGED <<said, item>>
  BY <1>2 DEF KeptTurn, Pause
<1>4. PICK m \in Seq(Message), text \in Text, id \in Ids \union {<< >>}, old \in Segment :
        /\ m = store.messages /\ Unique(m) /\ text = Waits(store) /\ id = store.segment.active
        /\ old = store.segment
        /\ id = << >> => text = << >> /\ Blank(text)
        /\ ShownBy(m) \union Shown(text) = Shown(said)
        /\ \A o \in BOOLEAN : Unexcused(o) => Ordered(m, text, o)
  BY <1>3, StoreIs
<1>5. PICK projected \in BOOLEAN : projected = \E i \in DOMAIN store.messages : store.messages[i].streaming
  OBVIOUS
<1>6. PICK w, v : w = store' /\ v = w.messages
  OBVIOUS
<1>7. /\ DOMAIN w.buffer = {} /\ w.segment = [old EXCEPT !.active = << >>]
      /\ v = IF id = << >> THEN m ELSE Ended(m, id, text, projected)
  <2>1. Begin(0).store = store BY DEF Begin
  <2>2. Paused(Begin(0), y, projected) BY <1>1, <1>2, <1>5
  <2>3. OneWaits(store) BY <1>3 DEF Whole
  <2> QED BY <1>2, <1>4, <1>6, <2>1, <2>2, <2>3 DEF Paused
<1>8. /\ item.n \in Nat /\ old.next \in Nat
      /\ AtEnd(m, id)
      /\ \A i \in DOMAIN m : m[i].id[1] <= item.n /\ (item.open /\ m[i].id[1] = item.n => m[i].id[2] < old.next)
      /\ ~item.open => old = NoSegment
      /\ item.open => /\ old.base = item.n /\ old.next >= 1 /\ id \in {<< >>, <<item.n, old.next - 1>>}
                      /\ id # <<item.n, 0>> => TextOf(m, <<item.n, 0>>) # << >>
      /\ id # << >> => IF Has(m, id) THEN TextOf(m, id) # << >> ELSE text # << >>
  BY <1>3, <1>4 DEF Segments, TextTypeOK, Segment
<1>9. Grows(m, v, id, text) /\ (id # << >> /\ ~Blank(text) => TextOf(v, id) # << >>)
  <2>1. CASE id = << >> BY <1>4, <1>7, <2>1, BlankGrows
  <2>2. CASE id # << >> BY <1>4, <1>7, <1>8, <2>2, EndedIs
  <2> QED BY <2>1, <2>2
<1>10. Waits(w) = << >>
  BY <1>7 DEF Waits, Buffered
<1>11. Whole'
  <2>1. OneWaits(w) BY <1>7 DEF OneWaits
  <2>2. ShownBy(v) \union Shown(<< >>) = Shown(said') BY <1>3, <1>4, <1>9, NoTextIs DEF Grows
  <2>3. \A o \in BOOLEAN : Unexcused(o)' => Ordered(v, << >>, o)
    <3> SUFFICES ASSUME NEW o \in BOOLEAN, Unexcused(o)' PROVE Ordered(v, << >>, o)
      OBVIOUS
    <3>1. Unexcused(o) BY <1>2 DEF Unexcused
    <3> QED BY <1>4, <1>9, <3>1, GrowsEnd
  <2> QED BY <1>6, <1>9, <1>10, <2>1, <2>2, <2>3 DEF Whole, Grows
<1>12. Segments'
  <2>1. w.segment.active = << >> /\ w.segment.base = old.base /\ w.segment.next = old.next
        /\ (~item.open => w.segment = NoSegment)
    BY <1>4, <1>7, <1>8 DEF Segment, NoSegment
  <2>2. v \in Seq(Message) /\ AtEnd(v, << >>) BY <1>9, NotAtEnd DEF Grows
  <2>3. \A i \in DOMAIN v : v[i].id[1] <= item.n /\ (item.open /\ v[i].id[1] = item.n => v[i].id[2] < old.next)
    <3> TAKE i \in DOMAIN v
    <3>1. Has(m, v[i].id) \/ v[i].id = id BY <1>9 DEF Grows, Has
    <3>2. CASE Has(m, v[i].id)
      <4>1. PICK j \in DOMAIN m : m[j].id = v[i].id BY <3>2 DEF Has
      <4> QED BY <1>8, <4>1
    <3>3. CASE v[i].id = id
      <4>1. id # << >> BY <2>2, <3>3, MessageTextIs, NotAnId
      <4>2. item.open BY <1>4, <1>8, <4>1 DEF NoSegment
      <4>3. id = <<item.n, old.next - 1>> BY <1>8, <4>1, <4>2
      <4>4. v[i].id[1] = item.n /\ v[i].id[2] = old.next - 1 BY <3>3, <4>3
      <4> QED BY <1>8, <4>4
    <3> QED BY <3>1, <3>2, <3>3
  <2>4. item.open => TextOf(v, <<item.n, 0>>) # << >>
    <3> SUFFICES ASSUME item.open PROVE TextOf(v, <<item.n, 0>>) # << >>
      OBVIOUS
    <3>1. CASE id # <<item.n, 0>> BY <1>8, <1>9, <3>1 DEF Grows
    <3>2. CASE id = <<item.n, 0>>
      <4>1. id # << >> BY <3>2
      <4>2. CASE Has(m, id) BY <1>8, <1>9, <3>2, <4>1, <4>2 DEF Grows
      <4>3. CASE ~Has(m, id)
        <5>1. ~Blank(text) BY <1>2, <1>4, <3>2, <4>3 DEF Waiting, Waits
        <5> QED BY <1>9, <3>2, <4>1, <5>1
      <4> QED BY <4>2, <4>3
    <3> QED BY <3>1, <3>2
  <2> QED BY <1>3, <1>6, <1>8, <2>1, <2>2, <2>3, <2>4 DEF Segments
<1> QED BY <1>11, <1>12

\* The messages v and an empty buffer are all there is after an item.
LEMMA ItemLeaves ==
  ASSUME TextTypeOK, Whole, NEW w, NEW v, NEW id, NEW u \in Text, NEW n \in Nat,
         w = store', v = w.messages, DOMAIN w.buffer = {}, w.segment = NoSegment,
         excuses' = excuses, item'.n = n, ~item'.open,
         Grows(store.messages, v, id, u),
         \A o \in BOOLEAN : Unexcused(o) => Ordered(store.messages, u, o),
         ShownBy(store.messages) \union Shown(u) = Shown(said'),
         \A i \in DOMAIN store.messages : store.messages[i].id[1] <= n,
         Has(v, id) => Has(store.messages, id) \/ id[1] <= n
  PROVE  Whole' /\ Segments'
<1>1. Waits(w) = << >> /\ OneWaits(w)
  BY DEF Waits, OneWaits, Buffered
<1>2. \A o \in BOOLEAN : Unexcused(o)' => Ordered(v, << >>, o)
  <2> SUFFICES ASSUME NEW o \in BOOLEAN, Unexcused(o)' PROVE Ordered(v, << >>, o)
    OBVIOUS
  <2>1. Unexcused(o) BY DEF Unexcused
  <2> QED BY <2>1, GrowsEnd
<1>3. ShownBy(v) \union Shown(<< >>) = Shown(said')
  BY NoTextIs DEF Grows
<1>4. Whole'
  BY <1>1, <1>2, <1>3 DEF Whole, Grows
<1>5. \A i \in DOMAIN v : v[i].id[1] <= n
  <2> TAKE i \in DOMAIN v
  <2>1. Has(v, v[i].id) BY DEF Has
  <2>2. CASE Has(store.messages, v[i].id)
    <3>1. PICK j \in DOMAIN store.messages : store.messages[j].id = v[i].id BY <2>2 DEF Has
    <3> QED BY <3>1
  <2>3. CASE v[i].id = id /\ ~Has(store.messages, v[i].id)
    BY <2>1, <2>3
  <2> QED BY <2>1, <2>2, <2>3 DEF Grows
<1>6. AtEnd(v, << >>)
  BY NotAtEnd DEF Grows
<1>7. Segments'
  BY <1>5, <1>6, NoSegmentIs DEF Segments
<1> QED BY <1>4, <1>7

LEMMA ItemKeeps ==
  ASSUME TextTypeOK, Clean(store), KeptTurn, ItemCompleted, excuses' \subseteq {"switch"}
  PROVE  Whole' /\ Segments'
<1>1. PICK detail \in Text : /\ Handle([w \in 0..Enough |-> OnItemCompleted(Begin(w), item.n, detail)], {})
                             /\ item' = [item EXCEPT !.open = FALSE, !.text = << >>]
                             /\ item.open /\ UNCHANGED said /\ turnState = "running"
  BY NoTextIs DEF ItemCompleted, TextTypeOK
<1>2. PICK n \in Nat : n = item.n /\ item'.n = n /\ ~item'.open
  BY <1>1 DEF TextTypeOK
<1>3. PICK y \in Works : Handled(y, {}) /\ (~y.failed => Completed(Begin(0), y, n, detail))
  BY <1>1, <1>2, ItemHandled
<1>4. ~y.failed /\ excuses' = excuses /\ store' = y.store
  BY <1>3 DEF Handled
<1>5. Whole /\ Segments
  BY <1>1, <1>4 DEF KeptTurn
<1>6. PICK m \in Seq(Message), text \in Text, active \in Ids \union {<< >>} :
        /\ m = store.messages /\ Unique(m) /\ text = Waits(store) /\ active = store.segment.active
        /\ active = << >> => text = << >> /\ Blank(text) /\ DOMAIN store.buffer = {}
        /\ DOMAIN store.buffer \subseteq {active}
        /\ ShownBy(m) \union Shown(text) = Shown(said)
        /\ \A o \in BOOLEAN : Unexcused(o) => Ordered(m, text, o)
  BY <1>5, StoreIs
<1>7. PICK old \in Segment : old = store.segment
  BY DEF TextTypeOK, Stores
<1>8. /\ old.next \in Nat /\ AtEnd(m, active)
      /\ \A i \in DOMAIN m : m[i].id[1] <= n
      /\ active \in {<< >>, <<n, old.next - 1>>} /\ (active # <<n, 0>> => TextOf(m, <<n, 0>>) # << >>)
      /\ active # << >> => IF Has(m, active) THEN TextOf(m, active) # << >> ELSE text # << >>
  BY <1>1, <1>2, <1>5, <1>6, <1>7 DEF Segments, Segment
<1>9. PICK w, v : w = store' /\ v = w.messages
  OBVIOUS
<1>10. /\ w.segment = NoSegment
       /\ IF Redundant(store, detail) THEN v = m /\ w.buffer = store.buffer
          ELSE /\ v = Ended(m, EndedId(store, n), Ending(Begin(0), EndedId(store, n), Fallback(store, n, detail)), Has(m, EndedId(store, n)))
               /\ DOMAIN w.buffer = DOMAIN store.buffer \ {EndedId(store, n)}
  <2>1. Begin(0).store = store BY DEF Begin
  <2> QED BY <1>3, <1>4, <1>6, <1>9, <2>1 DEF Completed
<1>11. PICK id : id = IF active # << >> THEN active ELSE <<n, 0>>
  OBVIOUS
<1>12. Grows(m, v, id, text) /\ DOMAIN w.buffer = {}
  <2>1. CASE Redundant(store, detail)
    <3>1. active = << >> BY <1>6, <2>1 DEF Redundant
    <3> QED BY <1>6, <1>10, <2>1, <3>1, BlankGrows
  <2>2. CASE ~Redundant(store, detail) /\ active # << >>
    <3>1. EndedId(store, n) = id /\ id = active BY <1>6, <1>11, <2>2 DEF EndedId
    <3>2. Begin(0).store = store BY DEF Begin
    <3>3. Ending(Begin(0), id, Fallback(store, n, detail)) = text
      <4>1. Buffered(store.buffer, id) = text BY <1>6, <3>1 DEF Waits
      <4>2. text = << >> => Fallback(store, n, detail) = << >> BY <1>6, <1>8, <2>2, <3>1 DEF Fallback
      <4> QED BY <3>2, <4>1, <4>2 DEF Ending
    <3>4. PICK exists \in BOOLEAN : exists = Has(m, id) BY DEF Has
    <3>5. v = Ended(m, id, text, exists) BY <1>10, <2>2, <3>1, <3>3, <3>4
    <3> QED BY <1>6, <1>8, <1>10, <2>2, <3>1, <3>5, EndedIs
  <2>3. CASE ~Redundant(store, detail) /\ active = << >>
    <3>1. EndedId(store, n) = id /\ id = <<n, 0>> /\ id \in Ids BY <1>6, <1>11, <2>3 DEF EndedId, Ids
    <3>2. Begin(0).store = store BY DEF Begin
    <3>3. TextOf(m, id) # << >> /\ Has(m, id)
      <4>1. active # <<n, 0>> BY <2>3
      <4>2. TextOf(m, id) # << >> BY <1>8, <3>1, <4>1
      <4> QED BY <1>6, <4>2, TextOfAt
    <3>4. Ending(Begin(0), id, Fallback(store, n, detail)) = << >>
      <4>1. Buffered(store.buffer, id) = << >> BY <1>6, <2>3 DEF Buffered
      <4>2. Fallback(store, n, detail) = << >> BY <1>6, <3>1, <3>3 DEF Fallback
      <4> QED BY <3>2, <4>1, <4>2 DEF Ending
    <3>5. v = Ended(m, id, << >>, TRUE) BY <1>10, <2>3, <3>1, <3>3, <3>4
    <3>6. v = Sent(m, id, << >>, FALSE) BY <3>5, NoTextIs DEF Ended, Written
    <3>7. Grows(m, v, id, << >>) BY <1>6, <3>1, <3>3, <3>6, TouchedIs
    <3> QED BY <1>6, <1>10, <2>3, <3>1, <3>7
  <2> QED BY <2>1, <2>2, <2>3
<1>13. id[1] <= n
  BY <1>6, <1>8, <1>11
<1> QED BY <1>1, <1>2, <1>4, <1>5, <1>6, <1>8, <1>9, <1>10, <1>12, <1>13, ItemLeaves

LEMMA AtOnceKeeps ==
  ASSUME TextTypeOK, Clean(store), KeptTurn, ItemAtOnce, excuses' \subseteq {"switch"}
  PROVE  Whole' /\ Segments'
<1>1. PICK n \in Nat : n = item.n + 1 /\ item'.n = n /\ ~item'.open /\ ~item.open /\ turnState = "running"
  BY DEF ItemAtOnce, TextTypeOK
<1>2. PICK c \in Chunk :
        /\ c = Says(FALSE) /\ ~c.blank /\ \A a \in Shown(said), b \in Shown(<<c>>) : a < b
        /\ Shown(said') = Shown(said) \union Shown(<<c>>)
  BY NextChunk, SaysIs DEF ItemAtOnce, TextTypeOK, KeptTurn
<1>3. PICK one \in Text : one = <<c>> /\ ~Blank(one) /\ \A o : InOrder(one, o)
  BY <1>2, ChunkIs
<1>4. PICK y \in Works : Handled(y, {}) /\ (~y.failed => Completed(Begin(0), y, n, one))
  <2>1. Handle([w \in 0..Enough |-> OnItemCompleted(Begin(w), n, one)], {})
    BY <1>1, <1>2, <1>3 DEF ItemAtOnce
  <2> QED BY <2>1, ItemHandled
<1>5. ~y.failed /\ excuses' = excuses /\ store' = y.store
  BY <1>4 DEF Handled
<1>6. Whole /\ Segments
  BY <1>1, <1>5 DEF KeptTurn
<1>7. PICK m \in Seq(Message), text \in Text :
        /\ m = store.messages /\ Unique(m) /\ text = Waits(store)
        /\ ShownBy(m) \union Shown(text) = Shown(said)
        /\ \A o \in BOOLEAN : Unexcused(o) => Ordered(m, text, o)
  BY <1>6, StoreIs
<1>8. store.segment = NoSegment /\ \A i \in DOMAIN m : m[i].id[1] <= item.n
  BY <1>1, <1>6, <1>7 DEF Segments
<1>9. text = << >> /\ DOMAIN store.buffer = {}
  BY <1>6, <1>7, <1>8, StoreIs, NoSegmentIs
<1>10. PICK id \in Ids : id = <<n, 0>> /\ id = EndedId(store, n) /\ id[1] = n
  <2>1. <<n, 0>> \in Ids /\ <<n, 0>>[1] = n BY DEF Ids
  <2>2. EndedId(store, n) = <<n, 0>> BY <1>8, NoSegmentIs DEF EndedId
  <2> QED BY <2>1, <2>2
<1>11. ~Has(m, id) /\ AtEnd(m, id)
  <2>1. \A i \in DOMAIN m : m[i].id # id
    <3> TAKE i \in DOMAIN m
    <3>1. m[i].id[1] <= item.n /\ item.n \in Nat /\ m[i].id[1] \in Nat BY <1>8, MessageIds DEF TextTypeOK
    <3> QED BY <1>1, <1>10, <3>1
  <2> QED BY <2>1 DEF Has, AtEnd
<1>12. PICK w, v : w = store' /\ v = w.messages
  OBVIOUS
<1>13. w.segment = NoSegment /\ v = Ended(m, id, one, FALSE) /\ DOMAIN w.buffer = {}
  <2>1. Begin(0).store = store BY DEF Begin
  <2>2. ~Redundant(store, one) BY <1>3 DEF Redundant
  <2>3. Ending(Begin(0), id, Fallback(store, n, one)) = one
    <3>1. Buffered(store.buffer, id) = << >> BY <1>9 DEF Buffered
    <3>2. Fallback(store, n, one) = one BY <1>7, <1>10, <1>11 DEF Fallback, TextOf
    <3> QED BY <2>1, <3>1, <3>2 DEF Ending
  <2>4. Completed(Begin(0), y, n, one) BY <1>4, <1>5
  <2>5. PICK exists \in BOOLEAN : exists = Has(m, id) BY DEF Has
  <2>6. exists = FALSE BY <1>11, <2>5
  <2>7. /\ y.store.segment = NoSegment
        /\ y.store.messages = Ended(m, id, one, exists)
        /\ DOMAIN y.store.buffer = DOMAIN store.buffer \ {id}
    BY <1>7, <1>10, <2>1, <2>2, <2>3, <2>4, <2>5 DEF Completed
  <2> QED BY <1>5, <1>9, <1>12, <2>6, <2>7
<1>14. Grows(m, v, id, one)
  BY <1>7, <1>11, <1>13, EndedIs
<1>15. \A o \in BOOLEAN : Unexcused(o) => Ordered(m, one, o)
  <2> SUFFICES ASSUME NEW o \in BOOLEAN, Unexcused(o) PROVE Ordered(m, one, o)
    OBVIOUS
  <2>1. Ordered(m, text, o) BY <1>7
  <2>2. \A a \in ShownBy(m), b \in Shown(one) : a < b /\ a \in Nat /\ b \in Nat
    BY <1>2, <1>3, <1>7, ShownIs, PrecedeIs
  <2>3. Precede(m, one, o) BY <2>2, PrecedeIs DEF Earlier
  <2> QED BY <1>3, <2>1, <2>3 DEF Ordered
<1>16. ShownBy(m) \union Shown(one) = Shown(said')
  BY <1>2, <1>3, <1>7, <1>9, NoTextIs
<1>17. \A i \in DOMAIN m : m[i].id[1] <= n
  BY <1>1, <1>8, MessageIds DEF TextTypeOK
<1>18. id[1] <= n
  BY <1>10
<1> QED BY <1>1, <1>5, <1>6, <1>7, <1>12, <1>13, <1>14, <1>15, <1>16, <1>17, <1>18, ItemLeaves

\* What the work x has of w while the messages are ended with the turn.
StaysWhole(w, x) ==
  LET m == x.store.messages  id == w.store.segment.active  text == Buffered(x.store.buffer, id) IN
  /\ x \in Works /\ x.store.segment = w.store.segment
  /\ ~x.failed =>
       /\ Unique(m) /\ AtEnd(m, id) /\ DOMAIN x.store.buffer \subseteq {id}
       /\ ShownBy(m) \union Shown(text) = Shown(said)
       /\ \A o \in BOOLEAN : Unexcused(o) => Ordered(m, text, o)
       /\ \A other : Has(w.store.messages, other) => Has(m, other)

LEMMA EndStaysWhole ==
  ASSUME NEW w \in Works, NEW x \in Works, NEW id \in Ids, StaysWhole(w, x)
  PROVE  StaysWhole(w, Do(x, Finalize(x, id, << >>, Has(w.store.messages, id))))
<1>1. CASE x.failed
  BY <1>1 DEF Do
<1>2. CASE ~x.failed
  <2>1. PICK there \in BOOLEAN : there = Has(w.store.messages, id) BY DEF Has
  <2>2. PICK y : y = Finalize(x, id, << >>, there) OBVIOUS
  <2>3. PICK active : active = w.store.segment.active OBVIOUS
  <2>4. PICK m \in Seq(Message), text \in Text : m = x.store.messages /\ text = Buffered(x.store.buffer, active)
    BY BufferedIs DEF Works, Stores
  <2>5. /\ Unique(m) /\ AtEnd(m, active) /\ DOMAIN x.store.buffer \subseteq {active}
        /\ ShownBy(m) \union Shown(text) = Shown(said)
        /\ \A o \in BOOLEAN : Unexcused(o) => Ordered(m, text, o)
        /\ \A other : Has(w.store.messages, other) => Has(m, other)
        /\ x.store.segment = w.store.segment
    BY <1>2, <2>3, <2>4 DEF StaysWhole
  <2>6. PICK u \in Text : u = Buffered(x.store.buffer, id)
    BY BufferedIs DEF Works, Stores
  <2>7. Ending(x, id, << >>) = u BY <2>6 DEF Ending
  <2>8. /\ Taken(x, y, id)
        /\ ~y.failed => y.store.messages = Ended(m, id, u, there)
    BY <1>2, <2>2, <2>4, <2>7, NoTextIs, FinalizeIs
  <2>9. Do(x, Finalize(x, id, << >>, Has(w.store.messages, id))) = y
    BY <1>2, <2>1, <2>2 DEF Do
  <2>10. PICK n : n = y.store.messages OBVIOUS
  <2>11. /\ y \in Works /\ y.store.segment = w.store.segment
         /\ DOMAIN y.store.buffer = DOMAIN x.store.buffer \ {id}
         /\ Buffered(y.store.buffer, active) = IF active = id THEN << >> ELSE text
    BY <2>4, <2>5, <2>8 DEF Taken
  <2>12. ASSUME ~y.failed, id = active PROVE StaysWhole(w, y)
    <3>1. u = text BY <2>4, <2>6, <2>12
    <3>2. Grows(m, n, id, text) /\ AtEnd(n, id) BY <2>5, <2>8, <2>10, <2>12, <3>1, EndedIs
    <3>3. \A o \in BOOLEAN : Unexcused(o) => Ordered(n, << >>, o)
      <4> SUFFICES ASSUME NEW o \in BOOLEAN, Unexcused(o) PROVE Ordered(n, << >>, o)
        OBVIOUS
      <4> QED BY <2>5, <3>2, GrowsEnd
    <3>4. ShownBy(n) \union Shown(<< >>) = Shown(said) BY <2>5, <3>2, NoTextIs DEF Grows
    <3> QED BY <2>3, <2>5, <2>10, <2>11, <2>12, <3>2, <3>3, <3>4 DEF StaysWhole, Grows
  <2>13. ASSUME ~y.failed, id # active PROVE StaysWhole(w, y)
    <3>1. u = << >> BY <2>5, <2>6, <2>13 DEF Buffered
    <3>2. Grows(m, n, id, << >>) /\ AtEnd(n, active)
      <4>1. CASE there
        <5>1. n = Sent(m, id, << >>, FALSE) BY <2>8, <2>10, <2>13, <3>1, <4>1, NoTextIs DEF Ended, Written
        <5>2. Has(m, id) BY <2>1, <2>5, <4>1
        <5> QED BY <2>5, <5>1, <5>2, TouchedIs
      <4>2. CASE ~there
        <5>1. n = m BY <2>8, <2>10, <2>13, <3>1, <4>2, NoTextIs DEF Ended
        <5> QED BY <2>5, <5>1, NoTextIs, BlankGrows
      <4> QED BY <4>1, <4>2
    <3>3. \A o \in BOOLEAN : Unexcused(o) => Ordered(n, text, o)
      <4> SUFFICES ASSUME NEW o \in BOOLEAN, Unexcused(o) PROVE Ordered(n, text, o)
        OBVIOUS
      <4>1. Ordered(m, text, o) /\ Ordered(m, << >>, o) /\ Before(<< >>, text, o) BY <2>5, OrderedIs
      <4> QED BY <3>2, <4>1 DEF Grows
    <3>4. ShownBy(n) \union Shown(text) = Shown(said) BY <2>5, <3>2, NoTextIs DEF Grows
    <3> QED BY <2>3, <2>5, <2>10, <2>11, <2>13, <3>2, <3>3, <3>4 DEF StaysWhole, Grows
  <2>14. ASSUME y.failed PROVE StaysWhole(w, y)
    BY <2>11, <2>14 DEF StaysWhole
  <2> QED BY <2>9, <2>12, <2>13, <2>14
<1> QED BY <1>1, <1>2

LEMMA TurnCompletedKeeps ==
  ASSUME NEW w \in Works, ~w.failed, StaysWhole(w, w)
  PROVE  LET y == OnTurnCompleted(w)  id == w.store.segment.active  m == y.store.messages IN
         ~y.failed =>
           /\ Unique(m)
           /\ ShownBy(m) \union Shown(Buffered(y.store.buffer, id)) = Shown(said)
           /\ \A o \in BOOLEAN : Unexcused(o) => Ordered(m, Buffered(y.store.buffer, id), o)
<1>1. PICK f : EndsTurn(f, w)
  BY OnTurnCompletedIs
<1>2. PICK n \in Nat : n = Len(w.store.remembered) /\ w.store.remembered \in Seq(Ids)
  BY DEF Works, Stores
<1>3. StaysWhole(w, f[n])
  <2> DEFINE Passes == {k \in Nat : k <= n => StaysWhole(w, f[k])}
  <2>1. 0 \in Passes BY <1>1 DEF EndsTurn
  <2>2. ASSUME NEW k \in Nat, k \in Passes PROVE k + 1 \in Passes
    <3> SUFFICES ASSUME k + 1 <= n PROVE StaysWhole(w, f[k + 1]) OBVIOUS
    <3>1. k + 1 \in 1..n /\ (k + 1) - 1 = k /\ StaysWhole(w, f[k]) /\ k \in 0..n BY <2>2
    <3>2. PICK id \in Ids : id = w.store.remembered[k + 1] BY <1>2, <3>1
    <3>3. f[k] \in Works /\ f[k + 1] = Do(f[k], Finalize(f[k], id, << >>, Has(w.store.messages, id)))
      BY <1>1, <1>2, <3>1, <3>2 DEF EndsTurn
    <3> QED BY <3>1, <3>2, <3>3, EndStaysWhole
  <2>3. Nat \subseteq Passes
    <3> HIDE DEF Passes
    <3> QED BY <2>1, <2>2, SetInduction
  <2> QED BY <2>3
<1>4. PICK x : x = f[n] /\ OnTurnCompleted(w) = Do(x, [x EXCEPT !.store.remembered = << >>, !.store.segment = NoSegment])
  BY <1>1, <1>2 DEF EndsTurn
<1>5. CASE x.failed
  BY <1>4, <1>5 DEF Do
<1>6. CASE ~x.failed
  <2>1. PICK y : y = OnTurnCompleted(w) OBVIOUS
  <2>2. y.store.messages = x.store.messages /\ y.store.buffer = x.store.buffer
    <3>1. x \in Works BY <1>3, <1>4 DEF StaysWhole
    <3>2. PICK st : st = [x.store EXCEPT !.remembered = << >>, !.segment = NoSegment] OBVIOUS
    <3>3. st.messages = x.store.messages /\ st.buffer = x.store.buffer BY <3>1, <3>2 DEF Works, Stores
    <3>4. y = [x EXCEPT !.store = st] BY <1>4, <1>6, <2>1, <3>1, <3>2 DEF Do, Works, Stores
    <3> QED BY <3>1, <3>3, <3>4 DEF Works
  <2> QED BY <1>3, <1>4, <1>6, <2>1, <2>2 DEF StaysWhole
<1> QED BY <1>5, <1>6

LEMMA EndKeeps ==
  ASSUME TextTypeOK, Clean(store), KeptTurn, TurnIsCompleted, excuses' \subseteq {"switch"}
  PROVE  Whole' /\ turnState' = "completed"
<1>1. PICK writes, y : writes \in Nat /\ y = OnTurnCompleted(Begin(writes)) /\ Handled(y, {})
  BY EnoughIs DEF TurnIsCompleted, Handle, Handled, TextTypeOK
<1>2. PICK w \in Works : w = Begin(writes) /\ w.store = store /\ ~w.failed
  BY <1>1, BeginIs DEF TextTypeOK
<1>3. ~y.failed /\ excuses' = excuses /\ store' = y.store
  BY <1>1 DEF Handled
<1>4. Whole /\ Segments /\ said' = said
  BY <1>3 DEF KeptTurn, TurnIsCompleted
<1>5. StaysWhole(w, w)
  BY <1>2, <1>4 DEF StaysWhole, Whole, Segments, OneWaits, Waits
<1>6. DOMAIN y.store.buffer = {}
  BY <1>1, <1>2, <1>3, TurnCompletedLeaves
<1>7. PICK id, v : id = store.segment.active /\ v = y.store.messages
  OBVIOUS
<1>8. Buffered(y.store.buffer, id) = << >> /\ Waits(y.store) = << >> /\ OneWaits(y.store)
  BY <1>6 DEF Buffered, Waits, OneWaits
<1>9. /\ Unique(v) /\ ShownBy(v) \union Shown(<< >>) = Shown(said)
      /\ \A o \in BOOLEAN : Unexcused(o) => Ordered(v, << >>, o)
  BY <1>1, <1>2, <1>3, <1>5, <1>7, <1>8, TurnCompletedKeeps
<1>10. \A o \in BOOLEAN : Unexcused(o)' => Unexcused(o)
  BY <1>3 DEF Unexcused
<1>11. Whole'
  BY <1>3, <1>4, <1>7, <1>8, <1>9, <1>10 DEF Whole
<1>12. turnState' = "completed"
  BY <1>1, <1>3 DEF TurnIsCompleted, Handled, TextTypeOK
<1> QED BY <1>11, <1>12

LEMMA KeptTurns == TextSpec => []KeptTurn
<1>1. ASSUME TextInit PROVE KeptTurn
  <2>1. store.messages = << >> /\ store.segment = NoSegment /\ said = << >> /\ store.buffer = << >>
    BY <1>1 DEF TextInit, EmptyStore
  <2>2. Waits(store) = << >> /\ OneWaits(store)
    BY <2>1 DEF Waits, OneWaits, Buffered
  <2>3. /\ Unique(<< >>) /\ ShownBy(<< >>) = {} /\ \A o : Ordered(<< >>, << >>, o) /\ AtEnd(<< >>, << >>)
    BY DEF Unique, ShownBy, Ordered, MessagesInOrder, InOrder, Precede, AtEnd
  <2>4. Whole BY <2>1, <2>2, <2>3, NoTextIs DEF Whole
  <2>5. Segments BY <1>1, <2>1, <2>3, NoSegmentIs DEF Segments, TextInit
  <2> QED BY <1>1, <2>1, <2>4, <2>5 DEF KeptTurn, TextInit
<1>2. ASSUME TextTypeOK, CleanTurn, KeptTurn, [TextNext]_textVars PROVE KeptTurn'
  <2> USE <1>2
  <2>1. CASE ContentDelta
    <3>1. turnState = "running" /\ turnState' = "running" /\ Clean(store)
      BY <2>1 DEF ContentDelta, CleanTurn
    <3>2. PICK blank \in BOOLEAN : said' = Append(said, Says(blank))
      BY <2>1 DEF ContentDelta
    <3>3. \A i \in DOMAIN said' : said'[i].n = i
      BY <3>2, NextChunk DEF TextTypeOK, KeptTurn
    <3>4. excuses' \subseteq {"switch"} => Whole' /\ Segments'
      BY <2>1, <3>1, DeltaKeeps
    <3> QED BY <3>1, <3>3, <3>4 DEF KeptTurn
  <2>2. CASE Pause
    <3>1. turnState = "running" /\ turnState' = "running" /\ Clean(store) /\ said' = said
      BY <2>2 DEF Pause, CleanTurn
    <3>2. excuses' \subseteq {"switch"} => Whole' /\ Segments'
      BY <2>2, <3>1, PauseKeeps
    <3> QED BY <3>1, <3>2 DEF KeptTurn
  <2>3. CASE ItemCompleted
    <3>1. turnState = "running" /\ turnState' = "running" /\ Clean(store) /\ said' = said
      BY <2>3 DEF ItemCompleted, CleanTurn
    <3>2. excuses' \subseteq {"switch"} => Whole' /\ Segments'
      BY <2>3, <3>1, ItemKeeps
    <3> QED BY <3>1, <3>2 DEF KeptTurn
  <2>4. CASE ItemAtOnce
    <3>1. turnState = "running" /\ turnState' = "running" /\ Clean(store) /\ said' = Append(said, Says(FALSE))
      BY <2>4 DEF ItemAtOnce, CleanTurn
    <3>2. \A i \in DOMAIN said' : said'[i].n = i
      BY <3>1, NextChunk DEF TextTypeOK, KeptTurn
    <3>3. excuses' \subseteq {"switch"} => Whole' /\ Segments'
      BY <2>4, <3>1, AtOnceKeeps
    <3> QED BY <3>1, <3>2, <3>3 DEF KeptTurn
  <2>5. CASE TurnIsCompleted
    <3>1. turnState = "running" /\ Clean(store) /\ said' = said
      BY <2>5 DEF TurnIsCompleted, CleanTurn
    <3>2. excuses' \subseteq {"switch"} => Whole' /\ turnState' = "completed"
      BY <2>5, <3>1, EndKeeps
    <3>3. turnState' = "lost" => "failure" \in excuses'
      <4>1. PICK y : Handled(y, {}) /\ turnState' = IF y.failed THEN "lost" ELSE "completed"
        BY <2>5, <3>1, EndHandled
      <4> QED BY <4>1 DEF Handled
    <3> QED BY <3>1, <3>2, <3>3 DEF KeptTurn
  <2>6. CASE SessionExited
    BY <2>6 DEF SessionExited, KeptTurn
  <2>7. CASE SwitchStreaming
    BY <2>7 DEF SwitchStreaming, KeptTurn, Whole, Segments, Unexcused
  <2>8. CASE UNCHANGED textVars
    BY <2>8 DEF textVars, KeptTurn, Whole, Segments, Unexcused
  <2> QED BY <2>1, <2>2, <2>3, <2>4, <2>5, <2>6, <2>7, <2>8 DEF TextNext
<1> QED BY <1>1, <1>2, TextTypes, PTL DEF TextSpec

\* What the agent said is shown once, in order and as a whole, in the messages
\* or in what waits to follow them, whatever was buffered, spilled, paused or
\* sent at once, as long as no write failed and no blank beginning was dropped.
THEOREM SaidTextIsKept == TextSpec => []TextIsKept
<1>1. ASSUME TextTypeOK, NEW o \in BOOLEAN, Whole, Unexcused(o) PROVE SaidIsShown(o)
  <2>1. PICK m \in Seq(Message), text \in Text, id \in Ids \union {<< >>} :
          /\ m = store.messages /\ text = Waits(store) /\ id = store.segment.active
          /\ DOMAIN store.buffer \subseteq {id}
          /\ ShownBy(m) \union Shown(text) = Shown(said)
          /\ Ordered(m, text, o)
    <3>1. store.messages \in Seq(Message) /\ Waits(store) \in Text BY <1>1, StoreIs
    <3> QED BY <1>1, <3>1, StoreIs
  <2>2. \A k \in DOMAIN store.buffer : k = id /\ store.buffer[k] = text
    BY <2>1 DEF Waits, Buffered
  <2>3. UNION {Shown(store.buffer[k]) : k \in DOMAIN store.buffer} = Shown(text)
    <3>1. CASE id \in DOMAIN store.buffer
      BY <2>2, <3>1
    <3>2. CASE id \notin DOMAIN store.buffer
      <4>1. text = << >> BY <2>1, <3>2 DEF Waits, Buffered
      <4>2. DOMAIN store.buffer = {} BY <2>1, <3>2
      <4> QED BY <4>1, <4>2, NoTextIs
    <3> QED BY <3>1, <3>2
  <2> QED BY <2>1, <2>2, <2>3 DEF SaidIsShown, Ordered, Precede, ShownBy
<1>2. TextTypeOK /\ KeptTurn => TextIsKept
  BY <1>1 DEF TextIsKept, KeptTurn, Unexcused
<1> QED BY <1>2, TextTypes, KeptTurns, PTL
====
