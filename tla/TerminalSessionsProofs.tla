----------------------- MODULE TerminalSessionsProofs -----------------------
(***************************************************************************)
(* That LiveProcessesAreHeld and HistoryIsKept hold of TerminalSessions,   *)
(* for any terminals, threads and limits, and any number of operations,    *)
(* outputs, exits, interrupts and failed writes.                           *)
(*                                                                         *)
(* The first is the work.  What a session, a process and an operation may  *)
(* rely on is stated with the map and the sessions as parameters           *)
(* (SessionOK, ProcsOK, OpOK), because an action changes a session first   *)
(* and then takes others out of the map: MayBecome says what a session may *)
(* turn into, Ready what must hold of the map before the eviction, and     *)
(* Evicted that it holds after it.  The second follows the histories: a    *)
(* step leaves them alone (Quiet), or queues the history it makes          *)
(* (WriteKeeps), or reads the file when nothing is to be written.          *)
(* Last, that the terminals drive the persist worker as CoalescingWork     *)
(* says, which KeyedCoalescingWorkerProofs shows of its implementation.    *)
(***************************************************************************)
EXTENDS TerminalSessions, TLAPS

USE TerminalsAssumption

Statuses == {"starting", "running", "exited", "error"}
Session == [terminal : Terminals, status : Statuses, proc : Nat,
            history : Seq(Nat), events : Seq(Nat), draining : BOOLEAN]
Process == [session : Nat, state : {"alive", "exited", "killed"}]
Operations == [at : {"none", "flush", "persist", "spawn", "closing", "delete"}, t : Terminals \cup {None},
               s : Nat, next : {"none", "read", "start", "end", "remove"},
               left : SUBSET Terminals, targets : SUBSET Terminals]

SessionsTyped(m, ss, ps) == ss \in Seq(Session) /\ ps \in Seq(Process) /\ m \in [Terminals -> 0..Len(ss)]

WorkTyped ==
  /\ pending \in [Terminals -> Seq(Nat) \cup {None}]
  /\ doing \in {<< >>} \cup (Terminals \X Seq(Nat))
  /\ histories \in [Terminals -> Seq(Nat)] /\ unwritten \subseteq Terminals
  /\ counts \in [ops : Nat, outputs : Nat, faults : Nat]

TerminalsTypeOK ==
  /\ SessionsTyped(map, sess, procs) /\ last \in [Terminals -> 0..Len(sess)]
  /\ fibers \subseteq (1..Len(sess)) \X (1..Len(procs))
  /\ op \in [Owners -> Operations]
  /\ WorkTyped

\* What is in the map under a terminal, or was last there, is of that terminal.
Named(m, ss) == \A t \in Terminals : m[t] # 0 => ss[m[t]].terminal = t

Held(m, ss, st, s) == m[ss[s].terminal] = s \/ s \in st

SessionOK(m, ss, ps, st, s) ==
  /\ ss[s].proc = 0 => ss[s].events = << >>
  /\ ss[s].proc # 0 =>
       /\ ss[s].proc \in 1..Len(ps) /\ ps[ss[s].proc].session = s
       /\ ss[s].status = "running" /\ Held(m, ss, st, s)
       /\ \A i \in 1..Len(ss[s].events) : ss[s].events[i] = Exit => ps[ss[s].proc].state # "alive"

SessionsOK(m, ss, ps, st) == \A s \in 1..Len(ss) : SessionOK(m, ss, ps, st, s)

ProcsOK(ss, ps) ==
  \A p \in 1..Len(ps) :
    /\ ps[p].session \in 1..Len(ss)
    /\ ps[p].state = "alive" => ss[ps[p].session].proc = p

OpOK(m, ss, st, th, o) ==
  /\ o.at \notin {"none", "delete"} => o.t \in Terminals /\ Thread[o.t] = th
  /\ \A u \in o.left \cup o.targets : Thread[u] = th
  /\ o.at = "flush" => m[o.t] = 0
  /\ o.at = "spawn" => o.next = "start"
  /\ o.next = "start" => /\ o.at \in {"persist", "spawn"} /\ o.s \in 1..Len(ss)
                         /\ ss[o.s].terminal = o.t /\ ss[o.s].proc = 0 /\ Held(m, ss, st, o.s)
  /\ o.at = "persist" /\ o.next = "remove" =>
       /\ m[o.t] # 0 => ss[m[o.t]].proc = 0
       /\ \A u \in o.targets : m[u] # 0 => u \in o.left \/ u = o.t
  /\ o.at = "closing" => \A u \in o.targets : m[u] # 0 => u \in o.left
  /\ o.at = "delete" => \A u \in o.targets : m[u] = 0

OpsOK(m, ss, st, ops) == \A th \in Owners : OpOK(m, ss, st, th, ops[th])

HeldInv ==
  /\ TerminalsTypeOK
  /\ Named(map, sess) /\ Named(last, sess) /\ \A t \in Terminals : map[t] # 0 => last[t] = map[t]
  /\ SessionsOK(map, sess, procs, strays) /\ ProcsOK(sess, procs)
  /\ OpsOK(map, sess, strays, op)

\* Session s of ss may become r when the processes ps become qs.
MayBecome(m, ss, ps, qs, st, s, r) ==
  /\ r \in Session /\ r.terminal = ss[s].terminal
  /\ qs \in Seq(Process) /\ Len(qs) >= Len(ps)
  /\ \A p \in 1..Len(ps) : /\ qs[p].session = ps[p].session
                           /\ qs[p].state = "alive" => ps[p].state = "alive"
  /\ \A p \in 1..Len(qs) : p > Len(ps) => qs[p].session = s
  /\ \A p \in 1..Len(qs) : qs[p].session = s /\ qs[p].state = "alive" => r.proc = p
  /\ r.proc = 0 => r.events = << >>
  /\ r.proc # 0 => /\ r.proc \in 1..Len(qs) /\ qs[r.proc].session = s
                   /\ r.status = "running" /\ (m[r.terminal] = s \/ s \in st)
                   /\ \A i \in 1..Len(r.events) : r.events[i] = Exit => qs[r.proc].state # "alive"

Replaced(tt, ss, s, r) == tt = [ss EXCEPT ![s] = r]

\* No terminal in out has a session with a process.
NoneLost(m, ss, out) == \A u \in out : u \in Terminals /\ m[u] # 0 => ss[m[u]].proc = 0

\* What a map and sessions satisfy that are about to become the manager's.
Ready(m, ss) ==
  /\ SessionsTyped(m, ss, procs') /\ last \in [Terminals -> 0..Len(ss)]
  /\ Named(m, ss) /\ Named(last, ss)
  /\ SessionsOK(m, ss, procs', strays) /\ OpsOK(m, ss, strays, op') /\ op' \in [Owners -> Operations]

Installed(ss) ==
  /\ SessionsTyped(map', sess', procs') /\ last' \in [Terminals -> 0..Len(sess')]
  /\ sess' = ss
  /\ Named(map', sess') /\ Named(last', sess') /\ (\A t \in Terminals : map'[t] # 0 => last'[t] = map'[t])
  /\ SessionsOK(map', sess', procs', strays') /\ OpsOK(map', sess', strays', op')

-----------------------------------------------------------------------------
\* What the updates of a session leave, field by field.
LEMMA SessionFields ==
  ASSUME NEW r \in Session
  PROVE  /\ Drained(r) \in Session /\ Drained(r).terminal = r.terminal /\ Drained(r).proc = r.proc
         /\ Drained(r).status = r.status /\ Drained(r).history = r.history /\ Drained(r).events = << >>
         /\ Stopped(r) \in Session /\ Stopped(r).terminal = r.terminal /\ Stopped(r).proc = 0
         /\ Stopped(r).history = r.history /\ (r.proc # 0 => Stopped(r).events = << >>)
         /\ (r.proc = 0 => Stopped(r) = r)
         /\ Emptied(r) \in Session /\ Emptied(r).terminal = r.terminal /\ Emptied(r).proc = r.proc
         /\ Emptied(r).status = r.status /\ Emptied(r).history = << >> /\ Emptied(r).events = << >>
         /\ Starting(r) \in Session /\ Starting(r).terminal = r.terminal /\ Starting(r).proc = r.proc
         /\ Starting(r).history = r.history /\ Starting(r).events = << >>
<1>0. << >> \in Seq(Nat) OBVIOUS
<1>1. ASSUME NEW q \in Session
      PROVE  /\ Drained(q) \in Session /\ Drained(q).terminal = q.terminal /\ Drained(q).proc = q.proc
             /\ Drained(q).status = q.status /\ Drained(q).history = q.history /\ Drained(q).events = << >>
  BY <1>0 DEF Session, Drained
<1>3. ASSUME NEW q \in Session, NEW st \in Statuses
      PROVE  LET e == [q EXCEPT !.status = st] IN
             /\ e \in Session /\ e.terminal = q.terminal /\ e.proc = q.proc /\ e.status = st
             /\ e.history = q.history
  BY DEF Session
<1>4. LET e == [r EXCEPT !.history = << >>] IN
      /\ e \in Session /\ e.terminal = r.terminal /\ e.proc = r.proc /\ e.status = r.status /\ e.history = << >>
  BY <1>0 DEF Session
<1>5. "exited" \in Statuses /\ "starting" \in Statuses /\ 0 \in Nat BY DEF Statuses
<1>6. /\ Stopped(r) \in Session /\ Stopped(r).terminal = r.terminal /\ Stopped(r).proc = 0
      /\ Stopped(r).history = r.history /\ (r.proc # 0 => Stopped(r).events = << >>)
      /\ (r.proc = 0 => Stopped(r) = r)
  <2> DEFINE e == [r EXCEPT !.status = "exited", !.proc = 0]
  <2>1. e \in Session /\ e.terminal = r.terminal /\ e.proc = 0 /\ e.history = r.history
    BY <1>5 DEF Session
  <2>2. Stopped(r) = IF r.proc = 0 THEN r ELSE Drained(e) BY DEF Stopped
  <2> HIDE DEF e
  <2> QED BY <1>1, <2>1, <2>2
<1>7. /\ Emptied(r) \in Session /\ Emptied(r).terminal = r.terminal /\ Emptied(r).proc = r.proc
      /\ Emptied(r).status = r.status /\ Emptied(r).history = << >> /\ Emptied(r).events = << >>
  <2> DEFINE e == [r EXCEPT !.history = << >>]
  <2>1. e \in Session /\ e.terminal = r.terminal /\ e.proc = r.proc /\ e.status = r.status /\ e.history = << >>
    BY <1>4
  <2>2. Emptied(r) = Drained(e) BY DEF Emptied
  <2> HIDE DEF e
  <2> QED BY <1>1, <2>1, <2>2
<1>8. /\ Starting(r) \in Session /\ Starting(r).terminal = r.terminal /\ Starting(r).proc = r.proc
      /\ Starting(r).history = r.history /\ Starting(r).events = << >>
  <2> DEFINE e == [r EXCEPT !.status = "starting"]
  <2>1. e \in Session /\ e.terminal = r.terminal /\ e.proc = r.proc /\ e.history = r.history
    BY <1>3, <1>5
  <2>2. Starting(r) = Drained(e) BY DEF Starting
  <2> HIDE DEF e
  <2> QED BY <1>1, <2>1, <2>2
<1> QED BY <1>1, <1>6, <1>7, <1>8

\* A new session has no process and no events.
LEMMA FreshFields ==
  ASSUME NEW t \in Terminals, NEW h \in Seq(Nat)
  PROVE  /\ Fresh(t, h) \in Session /\ Fresh(t, h).terminal = t /\ Fresh(t, h).proc = 0
         /\ Fresh(t, h).history = h /\ Fresh(t, h).events = << >>
  BY DEF Fresh, Session, Statuses

\* Sessions leave the map without their process; those that an operation is
\* about to start are strays then.
LEMMA Evicted ==
  ASSUME NEW ss, NEW m, NEW order, NEW out, Update(ss, m, order, out), Ready(m, ss), NoneLost(m, ss, out)
  PROVE  Installed(ss)
<1> USE DEF Ready, NoneLost
<1>1. /\ sess' = ss /\ map' = [t \in Terminals |-> IF t \in out THEN 0 ELSE m[t]]
      /\ last' = [t \in Terminals |-> IF m[t] # 0 THEN m[t] ELSE last[t]]
      /\ strays' = strays \cup {m[t] : t \in {u \in out : \E th \in Owners :
                                  op'[th].s = m[u] /\ op'[th].next = "start"}}
  BY DEF Update
<1>2. m \in [Terminals -> 0..Len(ss)] /\ 0 \in 0..Len(ss)
  BY DEF SessionsTyped
<1>3. SessionsTyped(map', sess', procs') /\ last' \in [Terminals -> 0..Len(sess')]
  BY <1>1, <1>2 DEF SessionsTyped
<1>4. Named(map', sess') /\ Named(last', sess') /\ \A t \in Terminals : map'[t] # 0 => last'[t] = map'[t]
  BY <1>1 DEF Named
<1>5. \A s \in 1..Len(ss) : ss[s] \in Session
  BY DEF SessionsTyped
<1>6. SessionsOK(map', sess', procs', strays')
  <2> SUFFICES ASSUME NEW s \in 1..Len(ss) PROVE SessionOK(map', ss, procs', strays', s)
    BY <1>1 DEF SessionsOK
  <2>1. SessionOK(m, ss, procs', strays, s) BY DEF SessionsOK
  <2>2. ss[s].proc # 0 => Held(map', ss, strays', s)
    <3> SUFFICES ASSUME ss[s].proc # 0, m[ss[s].terminal] = s PROVE map'[ss[s].terminal] = s
      BY <1>1, <2>1 DEF SessionOK, Held
    <3>1. ss[s].terminal \in Terminals BY <1>5 DEF Session
    <3>2. ss[s].terminal \notin out
      <4> DEFINE u == ss[s].terminal
      <4>1. Len(ss) \in Nat /\ s # 0 BY DEF SessionsTyped
      <4>2. u \in Terminals /\ m[u] = s /\ ss[s].proc # 0 BY <3>1
      <4> HIDE DEF u
      <4>3. u \notin out BY <4>1, <4>2
      <4> QED BY <4>3 DEF u
    <3> QED BY <1>1, <3>1, <3>2
  <2> QED BY <2>1, <2>2 DEF SessionOK
<1>7. OpsOK(map', sess', strays', op')
  <2> SUFFICES ASSUME NEW th \in Owners PROVE OpOK(map', ss, strays', th, op'[th])
    BY <1>1 DEF OpsOK
  <2> DEFINE o == op'[th]
  <2>1. OpOK(m, ss, strays, th, o) /\ o \in Operations BY DEF OpsOK
  <2>2. \A u \in Terminals : map'[u] = m[u] \/ map'[u] = 0
    BY <1>1
  <2>3. o.next = "start" => Held(map', ss, strays', o.s)
    <3> SUFFICES ASSUME o.next = "start", m[o.t] = o.s PROVE map'[o.t] = o.s \/ o.s \in strays'
      BY <1>1, <2>1 DEF OpOK, Held
    <3>1. o.t \in Terminals BY <2>1 DEF OpOK
    <3>2. CASE o.t \notin out BY <1>1, <3>1, <3>2
    <3>3. CASE o.t \in out BY <1>1, <3>3
    <3> QED BY <3>2, <3>3
  <2>4. o.at \in {"flush", "persist"} => o.t \in Terminals BY <2>1 DEF OpOK
  <2>5. o.targets \subseteq Terminals BY <2>1 DEF Operations
  <2> HIDE DEF o
  <2>6. o.at = "persist" /\ o.next = "remove" => (map'[o.t] # 0 => ss[map'[o.t]].proc = 0)
    BY <2>1, <2>2, <2>4 DEF OpOK
  <2> QED BY <2>1, <2>2, <2>3, <2>4, <2>5, <2>6 DEF OpOK, o
<1> QED BY <1>1, <1>3, <1>4, <1>6, <1>7 DEF Installed

\* A session becomes r while the processes become qs: others keep what they had.
LEMMA SessionChanged ==
  ASSUME NEW m, NEW ss, NEW ps, NEW qs, NEW st, SessionsTyped(m, ss, ps), Named(m, ss),
         SessionsOK(m, ss, ps, st), ProcsOK(ss, ps),
         NEW s \in 1..Len(ss), NEW r, MayBecome(m, ss, ps, qs, st, s, r), NEW tt, Replaced(tt, ss, s, r)
  PROVE  /\ SessionsTyped(m, tt, qs) /\ Len(tt) = Len(ss) /\ Named(m, tt)
         /\ SessionsOK(m, tt, qs, st) /\ ProcsOK(tt, qs)
<1> USE DEF MayBecome, Replaced
<1>1. /\ ss \in Seq(Session) /\ ps \in Seq(Process) /\ m \in [Terminals -> 0..Len(ss)]
      /\ Len(ss) \in Nat /\ Len(ps) \in Nat /\ Len(qs) \in Nat
  BY DEF SessionsTyped
<1>2. /\ tt \in Seq(Session) /\ Len(tt) = Len(ss) /\ tt[s] = r
      /\ \A i \in 1..Len(ss) : i # s => tt[i] = ss[i]
      /\ \A i \in 1..Len(ss) : tt[i].terminal = ss[i].terminal
  BY <1>1
<1>3. SessionsTyped(m, tt, qs) BY <1>1, <1>2 DEF SessionsTyped
<1>4. Named(m, tt) BY <1>1, <1>2 DEF Named
<1>5. SessionsOK(m, tt, qs, st)
  <2> SUFFICES ASSUME NEW i \in 1..Len(ss) PROVE SessionOK(m, tt, qs, st, i)
    BY <1>2 DEF SessionsOK
  <2>1. CASE i = s BY <1>2, <2>1 DEF SessionOK, Held
  <2>2. CASE i # s
    <3>1. tt[i] = ss[i] /\ SessionOK(m, ss, ps, st, i) BY <1>2, <2>2 DEF SessionsOK
    <3>2. ss[i].proc # 0 => /\ ss[i].proc \in 1..Len(ps) /\ ss[i].proc \in 1..Len(qs)
                            /\ qs[ss[i].proc].session = i
                            /\ qs[ss[i].proc].state = "alive" => ps[ss[i].proc].state = "alive"
      BY <1>1, <3>1 DEF SessionOK
    <3> QED BY <3>1, <3>2 DEF SessionOK, Held
  <2> QED BY <2>1, <2>2
<1>6. ProcsOK(tt, qs)
  <2> SUFFICES ASSUME NEW p \in 1..Len(qs)
               PROVE  /\ qs[p].session \in 1..Len(tt)
                      /\ qs[p].state = "alive" => tt[qs[p].session].proc = p
    BY DEF ProcsOK
  <2>1. CASE p > Len(ps) BY <1>2, <2>1
  <2>2. CASE ~(p > Len(ps))
    <3>1. p \in 1..Len(ps) BY <1>1, <2>2
    <3>2. ps[p].session \in 1..Len(ss) /\ (ps[p].state = "alive" => ss[ps[p].session].proc = p)
      BY <3>1 DEF ProcsOK
    <3> QED BY <1>2, <3>1, <3>2
  <2> QED BY <2>1, <2>2
<1> QED BY <1>2, <1>3, <1>4, <1>5, <1>6

\* An operation does not mind what becomes of a session that gets no process.
LEMMA OperationKept ==
  ASSUME NEW m, NEW ss, NEW st, NEW th \in Owners, NEW o \in Operations, OpOK(m, ss, st, th, o),
         ss \in Seq(Session), m \in [Terminals -> 0..Len(ss)],
         NEW s \in 1..Len(ss), NEW r \in Session, r.terminal = ss[s].terminal,
         r.proc # 0 => r.proc = ss[s].proc,
         NEW tt, Replaced(tt, ss, s, r)
  PROVE  OpOK(m, tt, st, th, o)
<1> USE DEF Replaced
<1>1. /\ Len(tt) = Len(ss) /\ Len(ss) \in Nat
      /\ \A i \in 1..Len(ss) : tt[i].terminal = ss[i].terminal /\ (ss[i].proc = 0 => tt[i].proc = 0)
  OBVIOUS
<1>2. o.next = "start" => /\ o.at \in {"persist", "spawn"} /\ o.s \in 1..Len(tt)
                          /\ tt[o.s].terminal = o.t /\ tt[o.s].proc = 0 /\ Held(m, tt, st, o.s)
  BY <1>1 DEF OpOK, Held
<1>3. o.at = "persist" => o.t \in Terminals /\ m[o.t] \in 0..Len(ss)
  BY DEF OpOK
<1>4. o.at = "persist" /\ o.next = "remove" /\ m[o.t] # 0 => tt[m[o.t]].proc = 0
  <2> SUFFICES ASSUME o.at = "persist", o.next = "remove", m[o.t] # 0 PROVE tt[m[o.t]].proc = 0
    OBVIOUS
  <2>1. m[o.t] \in 1..Len(ss) BY <1>1, <1>3
  <2>2. ss[m[o.t]].proc = 0 BY DEF OpOK
  <2> QED BY <1>1, <2>1, <2>2
<1> QED BY <1>2, <1>4 DEF OpOK

\* One operation goes on, the others do not mind what becomes of the session.
LEMMA OperationsKept ==
  ASSUME NEW m, NEW ss, NEW st, OpsOK(m, ss, st, op), op \in [Owners -> Operations],
         NEW th \in Owners, NEW o \in Operations, op' = [op EXCEPT ![th] = o],
         ss \in Seq(Session), m \in [Terminals -> 0..Len(ss)],
         NEW s \in 1..Len(ss), NEW r \in Session, r.terminal = ss[s].terminal,
         r.proc # 0 => r.proc = ss[s].proc,
         NEW tt, Replaced(tt, ss, s, r), OpOK(m, tt, st, th, o)
  PROVE  OpsOK(m, tt, st, op') /\ op' \in [Owners -> Operations]
<1>1. op' \in [Owners -> Operations] OBVIOUS
<1>2. ASSUME NEW x \in Owners PROVE OpOK(m, tt, st, x, op'[x])
  <2>1. CASE x = th BY <2>1
  <2>2. CASE x # th
    <3>1. op'[x] = op[x] /\ op[x] \in Operations /\ OpOK(m, ss, st, x, op[x])
      BY <2>2 DEF OpsOK
    <3> QED BY <3>1, OperationKept
  <2> QED BY <2>1, <2>2
<1> QED BY <1>1, <1>2 DEF OpsOK

\* The sessions that are evicted do not run, and have no process.
LEMMA TooManyHaveNone ==
  ASSUME NEW m, NEW ss, NEW ps, NEW st, NEW order, SessionsTyped(m, ss, ps), SessionsOK(m, ss, ps, st)
  PROVE  NoneLost(m, ss, TooMany(ss, m, order))
<1> SUFFICES ASSUME NEW u \in TooMany(ss, m, order), u \in Terminals, m[u] # 0
             PROVE  ss[m[u]].proc = 0
  BY DEF NoneLost
<1>1. ss[m[u]].status # "running" BY DEF TooMany
<1>2. m[u] \in 1..Len(ss) BY DEF SessionsTyped
<1> QED BY <1>1, <1>2 DEF SessionsOK, SessionOK

\* A session becomes r, and those that are too many leave the map.
LEMMA SessionChanges ==
  ASSUME HeldInv, NEW s \in 1..Len(sess), NEW r, MayBecome(map, sess, procs, procs', strays, s, r),
         NEW tt, Replaced(tt, sess, s, r),
         \/ sess' = tt /\ UNCHANGED <<map, last, strays>>
         \/ StopWith(s, r) \/ TouchWith(s, r, TRUE) \/ TouchWith(s, r, FALSE),
         OpsOK(map, tt, strays, op'), op' \in [Owners -> Operations],
         fibers' \subseteq (1..Len(sess)) \X (1..Len(procs')), WorkTyped'
  PROVE  HeldInv' /\ sess' = tt
<1>1. /\ SessionsTyped(map, tt, procs') /\ Len(tt) = Len(sess) /\ Named(map, tt)
      /\ SessionsOK(map, tt, procs', strays) /\ ProcsOK(tt, procs')
  <2>1. /\ SessionsTyped(map, sess, procs) /\ Named(map, sess)
        /\ SessionsOK(map, sess, procs, strays) /\ ProcsOK(sess, procs)
    BY DEF HeldInv, TerminalsTypeOK
  <2> QED BY ONLY <2>1, SessionChanged, s \in 1..Len(sess), Replaced(tt, sess, s, r),
                  MayBecome(map, sess, procs, procs', strays, s, r)
<1>2. last \in [Terminals -> 0..Len(tt)] /\ Named(last, tt)
  <2>1. /\ last \in [Terminals -> 0..Len(sess)] /\ Named(last, sess) /\ sess \in Seq(Session)
    BY DEF HeldInv, TerminalsTypeOK, SessionsTyped
  <2>2. \A i \in 1..Len(sess) : tt[i].terminal = sess[i].terminal
    BY <2>1 DEF Replaced, MayBecome
  <2> QED BY <1>1, <2>1, <2>2 DEF Named
<1>3. CASE sess' = tt /\ UNCHANGED <<map, last, strays>>
  BY <1>1, <1>2, <1>3 DEF HeldInv, TerminalsTypeOK
<1>4. CASE StopWith(s, r) \/ TouchWith(s, r, TRUE) \/ TouchWith(s, r, FALSE)
  <2>1. PICK order, out : Update(tt, map, order, out) /\ (out = {} \/ out = TooMany(tt, map, order))
    <3>1. CASE StopWith(s, r)
      BY <3>1 DEF StopWith, Replaced
    <3>2. CASE TouchWith(s, r, TRUE)
      BY <3>2 DEF TouchWith, Replaced
    <3>3. CASE TouchWith(s, r, FALSE)
      BY <3>3 DEF TouchWith, Replaced
    <3> QED BY <1>4, <3>1, <3>2, <3>3
  <2>2. NoneLost(map, tt, out)
    <3>1. CASE out = {} BY <3>1 DEF NoneLost
    <3>2. CASE out = TooMany(tt, map, order)
      <4>1. NoneLost(map, tt, TooMany(tt, map, order)) BY ONLY <1>1, TooManyHaveNone
      <4> QED BY <3>2, <4>1
    <3> QED BY <2>1, <3>1, <3>2
  <2>3. Ready(map, tt) BY <1>1, <1>2 DEF Ready
  <2>4. Installed(tt) BY ONLY <2>1, <2>2, <2>3, Evicted
  <2> QED BY <1>1, <2>4 DEF HeldInv, TerminalsTypeOK, Installed
<1> QED BY <1>3, <1>4

\* A step of an operation that touches no session.
LEMMA OperationMoves ==
  ASSUME HeldInv, UNCHANGED <<map, sess, procs, fibers, last, strays>>, WorkTyped',
         NEW th \in Owners, NEW o \in Operations, op' = [op EXCEPT ![th] = o],
         OpOK(map, sess, strays, th, o)
  PROVE  HeldInv'
<1>1. op' \in [Owners -> Operations] BY DEF HeldInv, TerminalsTypeOK
<1>2. OpsOK(map, sess, strays, op')
  BY DEF HeldInv, TerminalsTypeOK, OpsOK
<1> QED BY <1>1, <1>2 DEF HeldInv, TerminalsTypeOK

\* A session r of t is added as tt and takes its place in the map m, and o starts it.
Adds(t, r, tt, m, order, o) ==
  /\ r \in Session /\ r.terminal = t /\ r.proc = 0 /\ r.events = << >>
  /\ tt = Append(sess, r) /\ m = [map EXCEPT ![t] = Len(tt)]
  /\ o \in Operations /\ o.at \in {"spawn", "persist"} /\ o.next = "start" /\ o.t = t /\ o.s = Len(tt)
  /\ \A u \in o.left \cup o.targets : Thread[u] = Thread[t]

\* A session is added: the invariant holds of the larger map, then of what is left of it.
LEMMA SessionAdded ==
  ASSUME HeldInv, NEW t \in Terminals, map[t] = 0, NEW r, NEW tt, NEW m, NEW order, NEW o,
         Adds(t, r, tt, m, order, o), Update(tt, m, order, TooMany(tt, m, order)),
         op' = [op EXCEPT ![Thread[t]] = o], UNCHANGED <<procs, fibers>>, WorkTyped'
  PROVE  HeldInv' /\ sess' = tt
<1> USE DEF Adds
<1> DEFINE th == Thread[t]
<1>1. /\ sess \in Seq(Session) /\ procs \in Seq(Process) /\ map \in [Terminals -> 0..Len(sess)]
      /\ last \in [Terminals -> 0..Len(sess)] /\ Len(sess) \in Nat /\ Len(procs) \in Nat
      /\ fibers \subseteq (1..Len(sess)) \X (1..Len(procs)) /\ op \in [Owners -> Operations] /\ th \in Owners
  BY DEF HeldInv, TerminalsTypeOK, SessionsTyped
<1>2. /\ tt \in Seq(Session) /\ Len(tt) = Len(sess) + 1 /\ tt[Len(tt)] = r
      /\ \A i \in 1..Len(sess) : tt[i] = sess[i]
  BY <1>1
<1>3. m \in [Terminals -> 0..Len(tt)] /\ m[t] = Len(tt) /\ \A u \in Terminals : u # t => m[u] = map[u]
  BY <1>1, <1>2
<1> HIDE DEF th
<1>4. SessionsTyped(m, tt, procs') BY <1>1, <1>2, <1>3 DEF SessionsTyped
<1>5. Named(m, tt) /\ Named(last, tt) /\ last \in [Terminals -> 0..Len(tt)]
  BY <1>1, <1>2, <1>3 DEF HeldInv, Named
<1>6. \A u \in Terminals : map[u] # 0 => m[u] = map[u]
  BY <1>3
<1>7. SessionsOK(m, tt, procs', strays)
  <2> SUFFICES ASSUME NEW i \in 1..Len(tt) PROVE SessionOK(m, tt, procs, strays, i)
    BY DEF SessionsOK
  <2>1. CASE i = Len(tt) BY <1>2, <2>1 DEF SessionOK
  <2>2. CASE i # Len(tt)
    <3>1. i \in 1..Len(sess) /\ tt[i] = sess[i] BY <1>1, <1>2, <2>2
    <3>2. SessionOK(map, sess, procs, strays, i) BY <3>1 DEF HeldInv, SessionsOK
    <3>3. sess[i].terminal \in Terminals
      <4>1. sess[i] \in Session BY <1>1, <3>1
      <4> QED BY <4>1 DEF Session
    <3>4. Held(map, sess, strays, i) => Held(m, tt, strays, i)
      BY <1>6, <3>1, <3>3 DEF Held
    <3> QED BY <3>1, <3>2, <3>4 DEF SessionOK
  <2> QED BY <2>1, <2>2
<1>8. ProcsOK(tt, procs')
  BY <1>1, <1>2 DEF HeldInv, ProcsOK
<1>9. OpsOK(m, tt, strays, op') /\ op' \in [Owners -> Operations]
  <2>1. op' \in [Owners -> Operations] /\ op'[th] = o BY <1>1 DEF th
  <2> SUFFICES ASSUME NEW x \in Owners PROVE OpOK(m, tt, strays, x, op'[x])
    BY <2>1 DEF OpsOK
  <2>2. CASE x = th
    BY <1>2, <1>3, <2>1, <2>2 DEF OpOK, Held, th
  <2>3. CASE x # th
    <3> DEFINE q == op[x]
    <3>1. op'[x] = q /\ q \in Operations /\ OpOK(map, sess, strays, x, q)
      BY <1>1, <2>3 DEF HeldInv, OpsOK, th
    <3> HIDE DEF q
    <3>2. \A u \in Terminals : Thread[u] = x => m[u] = map[u]
      BY <1>3, <2>3 DEF th
    <3>3. q.next = "start" => Held(m, tt, strays, q.s) /\ q.s \in 1..Len(tt) /\ tt[q.s] = sess[q.s]
      BY <1>1, <1>2, <3>1, <3>2 DEF OpOK, Held
    <3>4. q.at \in {"flush", "persist"} => m[q.t] = map[q.t] /\ q.t \in Terminals
      BY <3>1, <3>2 DEF OpOK
    <3>5. \A u \in q.targets : m[u] = map[u]
      BY <3>1, <3>2 DEF OpOK, Operations
    <3>6. q.at = "persist" /\ q.next = "remove" /\ m[q.t] # 0 => tt[m[q.t]].proc = 0
      BY <1>1, <1>2, <3>1, <3>4 DEF OpOK
    <3> QED BY <3>1, <3>2, <3>3, <3>4, <3>5, <3>6 DEF OpOK
  <2> QED BY <2>2, <2>3
<1>10. NoneLost(m, tt, TooMany(tt, m, order))
  BY ONLY <1>4, <1>7, TooManyHaveNone
<1>11. Installed(tt)
  <2>1. Ready(m, tt) BY <1>4, <1>5, <1>7, <1>9 DEF Ready
  <2>2. Update(tt, m, order, TooMany(tt, m, order)) OBVIOUS
  <2> QED BY ONLY <1>10, <2>1, <2>2, Evicted
<1>12. fibers' \subseteq (1..Len(sess')) \X (1..Len(procs'))
  BY <1>1, <1>2, <1>11 DEF Installed
<1> QED BY <1>8, <1>9, <1>11, <1>12 DEF HeldInv, TerminalsTypeOK, Installed

-----------------------------------------------------------------------------
(* What the actions have in common.                                        *)

\* An operation that waits is the record that waits.
LEMMA WaitsWith ==
  ASSUME HeldInv, NEW th \in Owners, NEW t \in Terminals, NEW s \in Nat,
         NEW at \in {"flush", "persist", "spawn"}, NEW next \in {"read", "start", "end"},
         Waits(th, t, s, at, next)
  PROVE  \E o \in Operations :
           /\ op' = [op EXCEPT ![th] = o] /\ o.at = at /\ o.t = t /\ o.s = s /\ o.next = next
           /\ \A u \in o.left \cup o.targets : Thread[u] = th
<1>1. op \in [Owners -> Operations] /\ op[th] \in Operations /\ OpOK(map, sess, strays, th, op[th])
  BY DEF HeldInv, TerminalsTypeOK, OpsOK
<1> DEFINE o == [op[th] EXCEPT !.at = at, !.t = t, !.s = s, !.next = next]
<1>2. /\ o \in Operations /\ o.at = at /\ o.t = t /\ o.s = s /\ o.next = next
      /\ o.left = op[th].left /\ o.targets = op[th].targets
  BY <1>1 DEF Operations
<1>3. op' = [op EXCEPT ![th] = o]
  BY <1>1 DEF Waits
<1>4. \A u \in op[th].left \cup op[th].targets : Thread[u] = th
  BY <1>1 DEF OpOK
<1> HIDE DEF o
<1> QED BY <1>2, <1>3, <1>4

\* An operation that ended expects nothing.
LEMMA NoOpOK ==
  ASSUME NEW m, NEW ss, NEW st, NEW th
  PROVE  NoOp \in Operations /\ OpOK(m, ss, st, th, NoOp)
  BY DEF NoOp, Operations, OpOK

\* The lock is let go of.
LEMMA EndsWith ==
  ASSUME NEW th, Ends(th)
  PROVE  op' = [op EXCEPT ![th] = NoOp]
  BY DEF Ends

\* A session whose process, if any, is told to end.
LEMMA MayStop ==
  ASSUME HeldInv, NEW s \in 1..Len(sess), NEW r \in Session, r.terminal = sess[s].terminal,
         r.proc = 0, r.events = << >>, procs' = Signalled(procs, sess[s])
  PROVE  MayBecome(map, sess, procs, procs', strays, s, r) /\ Len(procs') = Len(procs)
<1>1. /\ sess \in Seq(Session) /\ procs \in Seq(Process) /\ Len(procs) \in Nat
      /\ SessionOK(map, sess, procs, strays, s)
      /\ \A p \in 1..Len(procs) : procs[p].state = "alive" => sess[procs[p].session].proc = p
  BY DEF HeldInv, TerminalsTypeOK, SessionsTyped, SessionsOK, ProcsOK
<1>2. CASE sess[s].proc = 0
  BY <1>1, <1>2 DEF Signalled, MayBecome
<1>3. CASE sess[s].proc # 0
  <2> DEFINE q == sess[s].proc
  <2>1. q \in 1..Len(procs) /\ procs[q].session = s BY <1>1, <1>3 DEF SessionOK
  <2>2. procs' = [procs EXCEPT ![q].state = "killed"] BY <1>3 DEF Signalled
  <2> HIDE DEF q
  <2> DEFINE k == [procs[q] EXCEPT !.state = "killed"]
  <2>3. k \in Process /\ k.session = procs[q].session /\ k.state = "killed"
    <3>1. procs[q] \in Process BY <1>1, <2>1
    <3> QED BY <3>1 DEF Process
  <2>6. procs' = [procs EXCEPT ![q] = k] BY <2>2
  <2> HIDE DEF k
  <2>4. /\ procs' \in Seq(Process) /\ Len(procs') = Len(procs)
        /\ procs'[q].state = "killed" /\ procs'[q].session = s
        /\ \A p \in 1..Len(procs) : p # q => procs'[p] = procs[p]
    BY <1>1, <2>1, <2>3, <2>6
  <2>5. \A p \in 1..Len(procs') : procs'[p].session = s => procs'[p].state # "alive"
    BY <1>1, <2>4 DEF q
  <2> QED BY <1>1, <2>1, <2>4, <2>5 DEF MayBecome
<1> QED BY <1>2, <1>3

\* A session that keeps its process, or still has none.
LEMMA MayKeep ==
  ASSUME HeldInv, NEW s \in 1..Len(sess), NEW r \in Session, r.terminal = sess[s].terminal,
         r.proc = sess[s].proc, r.proc = 0 => r.events = << >>,
         r.proc # 0 => r.status = "running",
         r.proc # 0 => \A i \in 1..Len(r.events) : r.events[i] = Exit => procs[r.proc].state # "alive",
         UNCHANGED procs
  PROVE  MayBecome(map, sess, procs, procs', strays, s, r)
<1>1. /\ sess \in Seq(Session) /\ procs \in Seq(Process) /\ Len(procs) \in Nat
      /\ SessionOK(map, sess, procs, strays, s)
      /\ \A p \in 1..Len(procs) : procs[p].state = "alive" => sess[procs[p].session].proc = p
  BY DEF HeldInv, TerminalsTypeOK, SessionsTyped, SessionsOK, ProcsOK
<1>2. r.proc # 0 => /\ r.proc \in 1..Len(procs) /\ procs[r.proc].session = s
                    /\ map[r.terminal] = s \/ s \in strays
  BY <1>1 DEF SessionOK, Held
<1>3. \A p \in 1..Len(procs) : procs[p].session = s /\ procs[p].state = "alive" => r.proc = p
  BY <1>1
<1> QED BY <1>1, <1>2, <1>3 DEF MayBecome

\* A session changes, and an operation goes on with it or another thing.
LEMMA OperationChanges ==
  ASSUME HeldInv, NEW s \in 1..Len(sess), NEW r \in Session, MayBecome(map, sess, procs, procs', strays, s, r),
         r.proc # 0 => r.proc = sess[s].proc,
         \/ sess' = [sess EXCEPT ![s] = r] /\ UNCHANGED <<map, last, strays>>
         \/ StopWith(s, r) \/ TouchWith(s, r, TRUE) \/ TouchWith(s, r, FALSE),
         NEW th \in Owners, NEW o \in Operations, op' = [op EXCEPT ![th] = o],
         \A tt : Replaced(tt, sess, s, r) => OpOK(map, tt, strays, th, o),
         UNCHANGED fibers, WorkTyped'
  PROVE  HeldInv'
<1> DEFINE tt == [sess EXCEPT ![s] = r]
<1>1. Replaced(tt, sess, s, r) BY DEF Replaced
<1>2. /\ OpsOK(map, sess, strays, op) /\ op \in [Owners -> Operations] /\ sess \in Seq(Session)
      /\ map \in [Terminals -> 0..Len(sess)] /\ procs \in Seq(Process)
      /\ fibers \subseteq (1..Len(sess)) \X (1..Len(procs))
  BY DEF HeldInv, TerminalsTypeOK, SessionsTyped
<1>3. r.terminal = sess[s].terminal BY DEF MayBecome
<1>4. \/ sess' = tt /\ UNCHANGED <<map, last, strays>>
      \/ StopWith(s, r) \/ TouchWith(s, r, TRUE) \/ TouchWith(s, r, FALSE)
  OBVIOUS
<1> HIDE DEF tt
<1>5. OpOK(map, tt, strays, th, o) BY <1>1
<1>6. OpsOK(map, tt, strays, op') /\ op' \in [Owners -> Operations]
  BY <1>1, <1>2, <1>3, <1>5, OperationsKept
<1>7. fibers' \subseteq (1..Len(sess)) \X (1..Len(procs'))
  <2>1. Len(procs') >= Len(procs) /\ Len(procs) \in Nat /\ Len(procs') \in Nat BY <1>2 DEF MayBecome
  <2> QED BY <1>2, <2>1
<1> QED BY <1>1, <1>4, <1>6, <1>7, SessionChanges

\* A session changes, and no operation notices.
LEMMA SessionMoves ==
  ASSUME HeldInv, NEW s \in 1..Len(sess), NEW r \in Session, MayBecome(map, sess, procs, procs', strays, s, r),
         r.proc # 0 => r.proc = sess[s].proc,
         \/ sess' = [sess EXCEPT ![s] = r] /\ UNCHANGED <<map, last, strays>>
         \/ StopWith(s, r) \/ TouchWith(s, r, TRUE) \/ TouchWith(s, r, FALSE),
         UNCHANGED op, fibers' \subseteq (1..Len(sess)) \X (1..Len(procs')), WorkTyped'
  PROVE  HeldInv'
<1> DEFINE tt == [sess EXCEPT ![s] = r]
<1>1. Replaced(tt, sess, s, r) BY DEF Replaced
<1>2. /\ OpsOK(map, sess, strays, op) /\ op \in [Owners -> Operations] /\ sess \in Seq(Session)
      /\ map \in [Terminals -> 0..Len(sess)]
  BY DEF HeldInv, TerminalsTypeOK, SessionsTyped
<1>3. r.terminal = sess[s].terminal BY DEF MayBecome
<1>4. \/ sess' = tt /\ UNCHANGED <<map, last, strays>>
      \/ StopWith(s, r) \/ TouchWith(s, r, TRUE) \/ TouchWith(s, r, FALSE)
  OBVIOUS
<1> HIDE DEF tt
<1>5. \A x \in Owners : OpOK(map, tt, strays, x, op[x])
  <2> SUFFICES ASSUME NEW x \in Owners PROVE OpOK(map, tt, strays, x, op[x])
    OBVIOUS
  <2>1. op[x] \in Operations /\ OpOK(map, sess, strays, x, op[x]) BY <1>2 DEF OpsOK
  <2> QED BY <1>1, <1>2, <1>3, <2>1, OperationKept
<1>6. OpsOK(map, tt, strays, op') /\ op' \in [Owners -> Operations] BY <1>2, <1>5 DEF OpsOK
<1> QED BY <1>1, <1>4, <1>6, SessionChanges

\* What is queued for the disk is a history.
LEMMA SubmitTyped ==
  ASSUME WorkTyped, NEW t \in Terminals, NEW h \in Seq(Nat), Persist!Submit(t, h),
         UNCHANGED <<histories, unwritten>>, counts' \in [ops : Nat, outputs : Nat, faults : Nat]
  PROVE  WorkTyped'
  BY DEF WorkTyped, Persist!Submit

\* The counts stay counts.
LEMMA BeginsTyped ==
  ASSUME WorkTyped, NEW th, Begins(th)
  PROVE  counts' \in [ops : Nat, outputs : Nat, faults : Nat]
  BY DEF WorkTyped, Begins

-----------------------------------------------------------------------------
(* The operations.                                                         *)

\* The parts of the invariant that the actions use, about each session and operation.
LEMMA HeldFacts ==
  ASSUME HeldInv
  PROVE  /\ sess \in Seq(Session) /\ procs \in Seq(Process) /\ Len(sess) \in Nat /\ Len(procs) \in Nat
         /\ map \in [Terminals -> 0..Len(sess)] /\ op \in [Owners -> Operations] /\ WorkTyped
         /\ \A s \in 1..Len(sess) : sess[s] \in Session /\ SessionOK(map, sess, procs, strays, s)
         /\ \A th \in Owners : op[th] \in Operations /\ OpOK(map, sess, strays, th, op[th])
         /\ \A t \in Terminals : Thread[t] \in Owners
         /\ \A t \in Terminals : map[t] # 0 => map[t] \in 1..Len(sess) /\ sess[map[t]].terminal = t
         /\ << >> \in Seq(Nat)
<1>1. << >> \in Seq(Nat) OBVIOUS
<1>2. /\ sess \in Seq(Session) /\ procs \in Seq(Process) /\ Len(sess) \in Nat /\ Len(procs) \in Nat
      /\ map \in [Terminals -> 0..Len(sess)] /\ op \in [Owners -> Operations] /\ WorkTyped
      /\ \A t \in Terminals : Thread[t] \in Owners
  BY DEF HeldInv, TerminalsTypeOK, SessionsTyped
<1>3. \A s \in 1..Len(sess) : sess[s] \in Session /\ SessionOK(map, sess, procs, strays, s)
  BY <1>2 DEF HeldInv, SessionsOK
<1>4. \A th \in Owners : op[th] \in Operations /\ OpOK(map, sess, strays, th, op[th])
  BY <1>2 DEF HeldInv, OpsOK
<1>5. \A t \in Terminals : map[t] # 0 => map[t] \in 1..Len(sess) /\ sess[map[t]].terminal = t
  BY <1>2 DEF HeldInv, Named
<1> QED BY <1>1, <1>2, <1>3, <1>4, <1>5

\* An operation that is about to start a session that has no process.
LEMMA StartsOK ==
  ASSUME HeldInv, NEW th, NEW s \in 1..Len(sess), NEW r \in Session, r.terminal = sess[s].terminal,
         r.proc = 0, Held(map, sess, strays, s), NEW o \in Operations, o.at \in {"persist", "spawn"},
         o.next = "start", o.t = r.terminal, Thread[o.t] = th, o.s = s,
         \A u \in o.left \cup o.targets : Thread[u] = th
  PROVE  \A tt : Replaced(tt, sess, s, r) => OpOK(map, tt, strays, th, o)
<1> SUFFICES ASSUME NEW tt, Replaced(tt, sess, s, r) PROVE OpOK(map, tt, strays, th, o)
  OBVIOUS
<1>1. sess \in Seq(Session) BY HeldFacts
<1>2. tt[s] = r /\ Len(tt) = Len(sess) BY <1>1 DEF Replaced
<1>3. r.terminal \in Terminals BY DEF Session
<1> QED BY <1>2, <1>3 DEF OpOK, Held

\* open of a terminal without a session touches none.
LEMMA OpenNewHolds ==
  ASSUME HeldInv, NEW t \in Terminals, OpenNew(t)
  PROVE  HeldInv'
<1>1. /\ Thread[t] \in Owners /\ Begins(Thread[t]) /\ map[t] = 0
      /\ Waits(Thread[t], t, 0, "flush", "read") /\ UNCHANGED <<manager, persistWorker>>
  BY HeldFacts DEF OpenNew
<1>2. PICK o \in Operations :
        /\ op' = [op EXCEPT ![Thread[t]] = o] /\ o.at = "flush" /\ o.t = t /\ o.s = 0 /\ o.next = "read"
        /\ \A u \in o.left \cup o.targets : Thread[u] = Thread[t]
  <2>1. 0 \in Nat /\ "flush" \in {"flush", "persist", "spawn"} /\ "read" \in {"read", "start", "end"}
    OBVIOUS
  <2> QED BY ONLY HeldInv, t \in Terminals, <1>1, <2>1, WaitsWith
<1>3. OpOK(map, sess, strays, Thread[t], o) BY <1>1, <1>2 DEF OpOK
<1>4. WorkTyped'
  BY <1>1, BeginsTyped, HeldFacts DEF persistWorker, WorkTyped
<1>5. UNCHANGED <<map, sess, procs, fibers, last, strays>> BY <1>1 DEF manager
<1> QED BY ONLY HeldInv, <1>1, <1>2, <1>3, <1>4, <1>5, OperationMoves

\* The session that enters the map is the one its operation starts.
LEMMA OpenReadHolds ==
  ASSUME HeldInv, NEW th \in Owners, OpenRead(th)
  PROVE  HeldInv'
<1> DEFINE t == op[th].t
           r == Fresh(t, HistoryRead(t))
           tt == Append(sess, r)
           m == [map EXCEPT ![t] = Len(tt)]
           order == Touched(recent, t)
<1>1. /\ op[th].at = "flush" /\ Waits(th, t, Len(tt), "spawn", "start")
      /\ Update(tt, m, order, TooMany(tt, m, order))
      /\ UNCHANGED <<procs, fibers, discarded, persistWorker, counts>>
  BY DEF OpenRead
<1>2. t \in Terminals /\ Thread[t] = th /\ map[t] = 0
  BY <1>1, HeldFacts DEF OpOK
<1>3. r \in Session /\ r.terminal = t /\ r.proc = 0 /\ r.events = << >>
  <2>1. HistoryRead(t) \in Seq(Nat) BY <1>2, HeldFacts DEF HistoryRead, WorkTyped
  <2> QED BY <1>2, <2>1, FreshFields
<1> HIDE DEF t, r
<1>4. Len(tt) \in Nat BY <1>3, HeldFacts
<1> DEFINE n == Len(tt)
<1>5. PICK o \in Operations :
        /\ op' = [op EXCEPT ![th] = o] /\ o.at = "spawn" /\ o.t = t /\ o.s = n /\ o.next = "start"
        /\ \A u \in o.left \cup o.targets : Thread[u] = th
  <2>1. "spawn" \in {"flush", "persist", "spawn"} /\ "start" \in {"read", "start", "end"}
    OBVIOUS
  <2>2. n \in Nat /\ Waits(th, t, n, "spawn", "start") BY <1>1, <1>4
  <2> HIDE DEF n
  <2> QED BY ONLY HeldInv, th \in Owners, <1>2, <2>1, <2>2, WaitsWith
<1>6. WorkTyped' BY <1>1, HeldFacts DEF persistWorker, WorkTyped
<1>7. Update(tt, m, order, TooMany(tt, m, order)) /\ Adds(t, r, tt, m, order, o)
  BY <1>1, <1>2, <1>3, <1>5 DEF Adds
<1>8. op' = [op EXCEPT ![Thread[t]] = o] /\ UNCHANGED <<procs, fibers>>
  BY <1>1, <1>2, <1>5
<1> HIDE DEF tt, m, order, n
<1> QED BY ONLY HeldInv, <1>2, <1>6, <1>7, <1>8, SessionAdded

\* The session of a terminal is stopped and emptied, to be started again.
Restarts(t, s) ==
  /\ map[t] # 0 /\ s = map[t] /\ StopWith(s, Emptied(Stopped(sess[s]))) /\ procs' = Signalled(procs, sess[s])
  /\ UNCHANGED fibers

\* A process is told to end, and its session waits to be started.
LEMMA RestartsHold ==
  ASSUME HeldInv, NEW t \in Terminals, NEW s, Restarts(t, s), Waits(Thread[t], t, s, "persist", "start"),
         WorkTyped'
  PROVE  HeldInv'
<1> DEFINE th == Thread[t]
           r == Emptied(Stopped(sess[s]))
<1>1. /\ th \in Owners /\ map[t] = s /\ s \in 1..Len(sess) /\ sess[s] \in Session
      /\ sess[s].terminal = t /\ s \in Nat
  BY HeldFacts DEF Restarts
<1>2. Stopped(sess[s]) \in Session /\ Stopped(sess[s]).terminal = t /\ Stopped(sess[s]).proc = 0
  BY <1>1, SessionFields
<1>3. r \in Session /\ r.terminal = sess[s].terminal /\ r.proc = 0 /\ r.events = << >>
  BY <1>1, <1>2, SessionFields
<1>4. StopWith(s, r) /\ procs' = Signalled(procs, sess[s]) /\ UNCHANGED fibers BY DEF Restarts
<1>5. Held(map, sess, strays, s) BY <1>1 DEF Held
<1> HIDE DEF r
<1>6. PICK o \in Operations :
        /\ op' = [op EXCEPT ![th] = o] /\ o.at = "persist" /\ o.t = t /\ o.s = s /\ o.next = "start"
        /\ \A u \in o.left \cup o.targets : Thread[u] = th
  <2>1. "persist" \in {"flush", "persist", "spawn"} /\ "start" \in {"read", "start", "end"}
    OBVIOUS
  <2>2. Waits(th, t, s, "persist", "start") OBVIOUS
  <2> QED BY ONLY HeldInv, <1>1, t \in Terminals, <2>1, <2>2, WaitsWith
<1>7. \A tt : Replaced(tt, sess, s, r) => OpOK(map, tt, strays, th, o)
  BY <1>1, <1>3, <1>5, <1>6, StartsOK
<1>8. MayBecome(map, sess, procs, procs', strays, s, r)
  BY ONLY HeldInv, <1>1, <1>3, <1>4, MayStop
<1> HIDE DEF th
<1> QED BY <1>1, <1>3, <1>4, <1>6, <1>7, <1>8, OperationChanges

\* An empty history is queued.
LEMMA EmptySubmitted ==
  ASSUME HeldInv, NEW t \in Terminals, NEW th, Begins(th), Persist!Submit(t, << >>),
         UNCHANGED <<histories, unwritten>>
  PROVE  WorkTyped'
<1>1. << >> \in Seq(Nat) /\ WorkTyped BY HeldFacts
<1> QED BY <1>1, BeginsTyped, SubmitTyped

\* open anew and restart stop the process there is.
LEMMA OpenAnewHolds ==
  ASSUME HeldInv, NEW t \in Terminals, OpenAnew(t)
  PROVE  HeldInv'
<1>1. /\ Begins(Thread[t]) /\ Persist!Submit(t, << >>) /\ UNCHANGED <<histories, unwritten>>
      /\ Restarts(t, map[t]) /\ Waits(Thread[t], t, map[t], "persist", "start")
  BY DEF OpenAnew, Restarts
<1>2. WorkTyped' BY ONLY HeldInv, t \in Terminals, <1>1, EmptySubmitted
<1> QED BY ONLY HeldInv, t \in Terminals, <1>1, <1>2, RestartsHold

\* restart, with the session there is or a new one.
LEMMA RestartHolds ==
  ASSUME HeldInv, NEW t \in Terminals, RestartTerminal(t)
  PROVE  HeldInv'
<1> DEFINE th == Thread[t]
<1>1. /\ Begins(th) /\ Persist!Submit(t, << >>) /\ UNCHANGED <<fibers, discarded, histories, unwritten>>
  BY DEF RestartTerminal
<1>2. WorkTyped'
  <2>1. UNCHANGED <<histories, unwritten>> BY <1>1
  <2> QED BY ONLY HeldInv, t \in Terminals, <1>1, <2>1, EmptySubmitted
<1>3. CASE map[t] = 0
  <2> DEFINE r == Fresh(t, << >>)
             tt == Append(sess, r)
             m == [map EXCEPT ![t] = Len(tt)]
             order == Touched(recent, t)
             n == Len(tt)
  <2>1. Waits(th, t, n, "persist", "start") /\ Update(tt, m, order, TooMany(tt, m, order)) /\ UNCHANGED procs
    BY <1>3 DEF RestartTerminal
  <2>2. r \in Session /\ r.terminal = t /\ r.proc = 0 /\ r.events = << >>
    BY HeldFacts, FreshFields
  <2> HIDE DEF r
  <2>3. n \in Nat /\ th \in Owners BY <2>2, HeldFacts
  <2>4. PICK o \in Operations :
          /\ op' = [op EXCEPT ![th] = o] /\ o.at = "persist" /\ o.t = t /\ o.s = n /\ o.next = "start"
          /\ \A u \in o.left \cup o.targets : Thread[u] = th
    <3>1. "persist" \in {"flush", "persist", "spawn"} /\ "start" \in {"read", "start", "end"}
      OBVIOUS
    <3>2. Waits(th, t, n, "persist", "start") BY <2>1
    <3> HIDE DEF n
    <3> QED BY ONLY HeldInv, <2>3, t \in Terminals, <3>1, <3>2, WaitsWith
  <2>5. Adds(t, r, tt, m, order, o) BY <2>2, <2>4 DEF Adds
  <2>6. op' = [op EXCEPT ![Thread[t]] = o] /\ UNCHANGED <<procs, fibers>> BY <1>1, <2>1, <2>4
  <2>7. Update(tt, m, order, TooMany(tt, m, order)) BY <2>1
  <2> HIDE DEF tt, m, order, n, th
  <2> QED BY ONLY HeldInv, t \in Terminals, <1>2, <1>3, <2>5, <2>6, <2>7, SessionAdded
<1>4. CASE map[t] # 0
  <2>1. Restarts(t, map[t]) /\ Waits(Thread[t], t, map[t], "persist", "start")
    BY <1>1, <1>4 DEF RestartTerminal, Restarts
  <2> QED BY ONLY HeldInv, t \in Terminals, <1>2, <2>1, RestartsHold
<1> QED BY <1>3, <1>4

\* The first half of a start, of a session that has no process.
LEMMA BeginsToStart ==
  ASSUME HeldInv, NEW th \in Owners, NEW s \in 1..Len(sess), sess[s].proc = 0, Held(map, sess, strays, s),
         TouchWith(s, Starting(sess[s]), FALSE), NEW o \in Operations, o.at = "spawn", o.next = "start",
         o.t = sess[s].terminal, Thread[o.t] = th, o.s = s, \A u \in o.left \cup o.targets : Thread[u] = th,
         op' = [op EXCEPT ![th] = o], UNCHANGED <<procs, fibers>>, WorkTyped'
  PROVE  HeldInv'
<1> DEFINE r == Starting(sess[s])
<1>1. r \in Session /\ r.terminal = sess[s].terminal /\ r.proc = 0 /\ r.events = << >> /\ sess[s] \in Session
  BY HeldFacts, SessionFields
<1>2. TouchWith(s, r, FALSE) OBVIOUS
<1> HIDE DEF r
<1>3. MayBecome(map, sess, procs, procs', strays, s, r)
  BY <1>1, MayKeep
<1>4. \A tt : Replaced(tt, sess, s, r) => OpOK(map, tt, strays, th, o)
  BY <1>1, StartsOK
<1> QED BY <1>1, <1>2, <1>3, <1>4, OperationChanges

\* open of a session whose start was interrupted: it has no process.
LEMMA OpenUnstartedHolds ==
  ASSUME HeldInv, NEW t \in Terminals, OpenUnstarted(t)
  PROVE  HeldInv'
<1> DEFINE th == Thread[t]
           s == map[t]
<1>1. /\ map[t] # 0 /\ sess[s].status = "starting" /\ Begins(th) /\ Waits(th, t, s, "spawn", "start")
      /\ TouchWith(s, Starting(sess[s]), FALSE) /\ UNCHANGED <<procs, fibers, discarded, persistWorker>>
  BY DEF OpenUnstarted
<1>2. /\ th \in Owners /\ map[t] = s /\ s \in 1..Len(sess) /\ s \in Nat /\ sess[s].terminal = t
      /\ SessionOK(map, sess, procs, strays, s)
  BY <1>1, HeldFacts
<1>3. sess[s].proc = 0 /\ Held(map, sess, strays, s)
  BY <1>1, <1>2 DEF SessionOK, Held
<1>4. WorkTyped' BY <1>1, BeginsTyped, HeldFacts DEF persistWorker, WorkTyped
<1> HIDE DEF s, th
<1>5. PICK o \in Operations :
        /\ op' = [op EXCEPT ![th] = o] /\ o.at = "spawn" /\ o.t = t /\ o.s = s /\ o.next = "start"
        /\ \A u \in o.left \cup o.targets : Thread[u] = th
  <2>1. "spawn" \in {"flush", "persist", "spawn"} /\ "start" \in {"read", "start", "end"}
    OBVIOUS
  <2> QED BY ONLY HeldInv, <1>1, <1>2, t \in Terminals, <2>1, WaitsWith
<1>6. Thread[o.t] = th BY <1>5 DEF th
<1> QED BY <1>1, <1>2, <1>3, <1>4, <1>5, <1>6, BeginsToStart

\* The start begins when the empty history is written; the session still has no process.
LEMMA PersistedHolds ==
  ASSUME HeldInv, NEW th \in Owners, Persisted(th)
  PROVE  HeldInv'
<1>1. WorkTyped' BY HeldFacts DEF Persisted, persistWorker, WorkTyped
<1>2. op[th] \in Operations /\ OpOK(map, sess, strays, th, op[th]) /\ op \in [Owners -> Operations]
      /\ op[th].at = "persist"
  BY HeldFacts DEF Persisted
<1>3. CASE /\ op[th].next = "start" /\ op' = [op EXCEPT ![th].at = "spawn"]
           /\ TouchWith(op[th].s, Starting(sess[op[th].s]), FALSE) /\ UNCHANGED <<procs, fibers, discarded>>
  <2> DEFINE o == [op[th] EXCEPT !.at = "spawn"]
             s == op[th].s
  <2>1. /\ o \in Operations /\ o.at = "spawn" /\ o.next = "start" /\ o.t = op[th].t /\ o.s = s
        /\ o.left = op[th].left /\ o.targets = op[th].targets
    BY <1>2, <1>3 DEF Operations
  <2>2. op' = [op EXCEPT ![th] = o] BY <1>2, <1>3
  <2>3. /\ s \in 1..Len(sess) /\ sess[s].terminal = op[th].t /\ sess[s].proc = 0
        /\ Held(map, sess, strays, s) /\ Thread[op[th].t] = th
        /\ \A u \in op[th].left \cup op[th].targets : Thread[u] = th
    BY <1>2, <1>3 DEF OpOK
  <2>4. TouchWith(s, Starting(sess[s]), FALSE) BY <1>3
  <2> HIDE DEF o, s
  <2>5. o.t = sess[s].terminal /\ Thread[o.t] = th /\ (\A u \in o.left \cup o.targets : Thread[u] = th)
    BY <2>1, <2>3
  <2>6. UNCHANGED <<procs, fibers>> BY <1>3
  <2> QED BY ONLY HeldInv, th \in Owners, <1>1, <2>1, <2>2, <2>3, <2>4, <2>5, <2>6, BeginsToStart
<1>4. CASE Ends(th) /\ UNCHANGED manager
  <2>1. UNCHANGED <<map, sess, procs, fibers, last, strays>> BY <1>4 DEF manager
  <2> QED BY ONLY HeldInv, th \in Owners, <1>1, <1>4, <2>1, EndsWith, NoOpOK, OperationMoves
<1> QED BY <1>3, <1>4 DEF Persisted

\* clear throws events away and keeps the process.
LEMMA ClearHolds ==
  ASSUME HeldInv, NEW t \in Terminals, Clear(t)
  PROVE  HeldInv'
<1> DEFINE th == Thread[t]
           s == map[t]
           r == Emptied(sess[s])
<1>1. /\ map[t] # 0 /\ Begins(th) /\ Waits(th, t, s, "persist", "end") /\ TouchWith(s, r, FALSE)
      /\ Persist!Submit(t, << >>) /\ UNCHANGED <<procs, fibers, histories, unwritten>>
  BY DEF Clear
<1>2. /\ th \in Owners /\ map[t] = s /\ s \in 1..Len(sess) /\ s \in Nat /\ sess[s].terminal = t
      /\ SessionOK(map, sess, procs, strays, s) /\ sess[s] \in Session
  BY <1>1, HeldFacts
<1>3. /\ r \in Session /\ r.terminal = sess[s].terminal /\ r.proc = sess[s].proc
      /\ r.status = sess[s].status /\ r.events = << >>
  BY <1>2, SessionFields
<1>4. WorkTyped'
  <2>1. UNCHANGED <<histories, unwritten>> BY <1>1
  <2> QED BY ONLY HeldInv, t \in Terminals, <1>1, <2>1, EmptySubmitted
<1> HIDE DEF r, s
<1>5. MayBecome(map, sess, procs, procs', strays, s, r)
  BY <1>1, <1>2, <1>3, MayKeep DEF SessionOK
<1>6. PICK o \in Operations :
        /\ op' = [op EXCEPT ![th] = o] /\ o.at = "persist" /\ o.t = t /\ o.s = s /\ o.next = "end"
        /\ \A u \in o.left \cup o.targets : Thread[u] = th
  <2>1. "persist" \in {"flush", "persist", "spawn"} /\ "end" \in {"read", "start", "end"}
    OBVIOUS
  <2> QED BY ONLY HeldInv, <1>1, <1>2, t \in Terminals, <2>1, WaitsWith
<1>7. \A tt : Replaced(tt, sess, s, r) => OpOK(map, tt, strays, th, o)
  BY <1>6 DEF OpOK
<1> HIDE DEF th
<1> QED BY <1>1, <1>2, <1>3, <1>4, <1>5, <1>6, <1>7, OperationChanges

\* A spawn that fails leaves the session without a process.
LEMMA SpawnFailsHolds ==
  ASSUME HeldInv, NEW th \in Owners, TerminalSpawnFails(th)
  PROVE  HeldInv'
<1> DEFINE s == op[th].s
           e == [sess[s] EXCEPT !.status = "error"]
           r == Drained(e)
<1>1. op[th].at = "spawn" /\ Ends(th) /\ TouchWith(s, r, TRUE)
      /\ UNCHANGED <<procs, fibers, discarded, persistWorker, counts>>
  BY DEF TerminalSpawnFails
<1>2. s \in 1..Len(sess) /\ sess[s] \in Session /\ sess[s].proc = 0
  BY <1>1, HeldFacts DEF OpOK
<1>3. e \in Session /\ e.terminal = sess[s].terminal /\ e.proc = 0
  BY <1>2 DEF Session, Statuses
<1> HIDE DEF e
<1>4. r \in Session /\ r.terminal = sess[s].terminal /\ r.proc = 0 /\ r.events = << >>
  BY <1>3, SessionFields
<1> HIDE DEF s, r
<1>5. MayBecome(map, sess, procs, procs', strays, s, r)
  BY <1>1, <1>2, <1>4, MayKeep
<1>6. WorkTyped' BY <1>1, HeldFacts DEF persistWorker, WorkTyped
<1>7. NoOp \in Operations /\ op' = [op EXCEPT ![th] = NoOp]
      /\ \A tt : Replaced(tt, sess, s, r) => OpOK(map, tt, strays, th, NoOp)
  BY <1>1, NoOpOK, EndsWith
<1> QED BY <1>1, <1>2, <1>4, <1>5, <1>6, <1>7, OperationChanges

\* The new process is its session's; no other operation starts that session.
LEMMA SpawnedHolds ==
  ASSUME HeldInv, NEW th \in Owners, Spawned(th)
  PROVE  HeldInv'
<1> DEFINE s == op[th].s
           p == Len(procs) + 1
           r == [sess[s] EXCEPT !.status = "running", !.proc = p]
           n == [session |-> s, state |-> "alive"]
           tt == [sess EXCEPT ![s] = r]
<1>1. /\ op[th].at = "spawn" /\ Ends(th) /\ procs' = Append(procs, n) /\ TouchWith(s, r, FALSE)
      /\ UNCHANGED <<fibers, discarded, persistWorker, counts>>
  BY DEF Spawned
<1>2. /\ s \in 1..Len(sess) /\ sess[s] \in Session /\ sess[s].proc = 0 /\ SessionOK(map, sess, procs, strays, s)
      /\ Held(map, sess, strays, s) /\ sess[s].terminal = op[th].t /\ Thread[op[th].t] = th
      /\ op[th].t \in Terminals /\ sess \in Seq(Session) /\ procs \in Seq(Process)
      /\ Len(procs) \in Nat /\ Len(sess) \in Nat /\ op \in [Owners -> Operations]
      /\ map \in [Terminals -> 0..Len(sess)]
  BY <1>1, HeldFacts DEF OpOK
<1>3. r \in Session /\ r.terminal = sess[s].terminal /\ r.proc = p /\ r.status = "running" /\ r.events = << >>
  <2>1. sess[s] \in Session /\ sess[s].events = << >> /\ p \in Nat BY <1>2 DEF SessionOK
  <2>2. "running" \in Statuses BY DEF Statuses
  <2> HIDE DEF s, p
  <2> QED BY <2>1, <2>2 DEF Session
<1>4. n \in Process /\ n.session = s BY <1>2 DEF Process
<1>5. Replaced(tt, sess, s, r) BY DEF Replaced
<1> HIDE DEF s, r, n, tt
<1>6. /\ procs' \in Seq(Process) /\ Len(procs') = p /\ procs'[p] = n
      /\ \A q \in 1..Len(procs) : procs'[q] = procs[q]
  BY <1>1, <1>2, <1>4
<1>7. MayBecome(map, sess, procs, procs', strays, s, r)
  <2>1. ProcsOK(sess, procs) BY DEF HeldInv
  <2>2. \A q \in 1..Len(procs') : q > Len(procs) => q = p BY <1>2, <1>6
  <2>3. \A q \in 1..Len(procs) : procs[q].session = s => procs[q].state # "alive"
    BY <1>2, <2>1 DEF ProcsOK
  <2>4. \A q \in 1..Len(procs') : procs'[q].session = s /\ procs'[q].state = "alive" => r.proc = q
    <3> SUFFICES ASSUME NEW q \in 1..Len(procs'), procs'[q].session = s, procs'[q].state = "alive"
                 PROVE  r.proc = q
      OBVIOUS
    <3>1. CASE q \in 1..Len(procs) BY <1>6, <2>3, <3>1
    <3>2. CASE q \notin 1..Len(procs) BY <1>2, <1>3, <1>6, <3>2
    <3> QED BY <3>1, <3>2
  <2>5. r.proc \in 1..Len(procs') BY <1>2, <1>3, <1>6
  <2>6. \A q \in 1..Len(procs) : q \in 1..Len(procs') BY <1>2, <1>6
  <2>7. map[r.terminal] = s \/ s \in strays BY <1>2, <1>3 DEF Held
  <2>8. \A i \in 1..Len(r.events) : r.events[i] = Exit => procs'[r.proc].state # "alive" BY <1>3
  <2>9. r.proc # 0 BY <1>2, <1>3
  <2> QED BY <1>2, <1>3, <1>4, <1>6, <2>2, <2>4, <2>5, <2>7, <2>8, <2>9 DEF MayBecome
<1>8. op' = [op EXCEPT ![th] = NoOp] /\ NoOp \in Operations BY <1>1, EndsWith, NoOpOK
<1>9. OpsOK(map, tt, strays, op')
  <2> SUFFICES ASSUME NEW x \in Owners PROVE OpOK(map, tt, strays, x, op'[x])
    BY DEF OpsOK
  <2>1. CASE x = th BY <1>2, <1>8, <2>1, NoOpOK
  <2>2. CASE x # th
    <3> DEFINE q == op[x]
    <3>1. op'[x] = q /\ q \in Operations /\ OpOK(map, sess, strays, x, q)
      BY <1>2, <1>8, <2>2, HeldFacts
    <3> HIDE DEF q
    <3>2. /\ Len(tt) = Len(sess) /\ \A i \in 1..Len(sess) : tt[i].terminal = sess[i].terminal
          /\ \A i \in 1..Len(sess) : i # s => tt[i] = sess[i]
      BY <1>2, <1>3, <1>5 DEF Replaced
    <3>3. q.next = "start" => tt[q.s].proc = 0 /\ Held(map, tt, strays, q.s) /\ tt[q.s].terminal = q.t
      <4> SUFFICES ASSUME q.next = "start"
                   PROVE  tt[q.s].proc = 0 /\ Held(map, tt, strays, q.s) /\ tt[q.s].terminal = q.t
        OBVIOUS
      <4>1. /\ q.at \in {"persist", "spawn"} /\ q.s \in 1..Len(sess)
            /\ sess[q.s].terminal = q.t /\ sess[q.s].proc = 0 /\ Held(map, sess, strays, q.s)
        BY <3>1 DEF OpOK
      <4>2. Thread[q.t] = x BY <3>1, <4>1 DEF OpOK
      <4>3. q.s # s BY <1>2, <2>2, <4>1, <4>2
      <4> QED BY <3>2, <4>1, <4>3 DEF Held
    <3>4. q.at = "persist" /\ q.next = "remove" /\ map[q.t] # 0 => tt[map[q.t]].proc = 0
      <4> SUFFICES ASSUME q.at = "persist", q.next = "remove", map[q.t] # 0 PROVE tt[map[q.t]].proc = 0
        OBVIOUS
      <4>1. q.t \in Terminals /\ Thread[q.t] = x /\ sess[map[q.t]].proc = 0 BY <3>1 DEF OpOK
      <4>2. map[q.t] \in 1..Len(sess) /\ sess[map[q.t]].terminal = q.t BY <4>1, HeldFacts
      <4> QED BY <1>2, <2>2, <3>2, <4>1, <4>2
    <3> QED BY <3>1, <3>2, <3>3, <3>4 DEF OpOK
  <2> QED BY <2>1, <2>2
<1>10. op' \in [Owners -> Operations] BY <1>2, <1>8
<1>11. fibers' \subseteq (1..Len(sess)) \X (1..Len(procs'))
  <2>1. fibers \subseteq (1..Len(sess)) \X (1..Len(procs)) BY DEF HeldInv, TerminalsTypeOK
  <2>2. 1..Len(procs) \subseteq 1..Len(procs') BY <1>2, <1>6
  <2> QED BY <1>1, <2>1, <2>2
<1>12. WorkTyped' BY <1>1, HeldFacts DEF persistWorker, WorkTyped
<1>13. StopWith(s, r) \/ TouchWith(s, r, TRUE) \/ TouchWith(s, r, FALSE) BY <1>1
<1> QED BY <1>2, <1>5, <1>7, <1>9, <1>10, <1>11, <1>12, <1>13, SessionChanges

\* A close stops the process; nobody else starts one meanwhile, since it holds the lock.
LEMMA CloseSessionHolds ==
  ASSUME HeldInv, NEW th \in Owners, NEW t \in Terminals, Thread[t] = th,
         NEW left \in SUBSET Terminals, NEW targets \in SUBSET Terminals,
         \A u \in left \cup targets : Thread[u] = th,
         \A u \in targets : map[u] # 0 => u \in left \/ u = t,
         CloseSession(th, t, left, targets), UNCHANGED <<histories, unwritten>>,
         counts' \in [ops : Nat, outputs : Nat, faults : Nat]
  PROVE  HeldInv'
<1> DEFINE o == [at |-> "persist", t |-> t, s |-> map[t], next |-> "remove", left |-> left, targets |-> targets]
           s == map[t]
           r == Stopped(sess[s])
<1>1. s \in Nat /\ op \in [Owners -> Operations] /\ WorkTyped BY HeldFacts
<1>2. o \in Operations BY <1>1 DEF Operations
<1>3. op' = [op EXCEPT ![th] = o] BY DEF CloseSession
<1>4. CASE map[t] = 0
  <2>1. UNCHANGED <<manager, pending, doing>> BY <1>4 DEF CloseSession
  <2>2. UNCHANGED <<map, sess, procs, fibers, last, strays>> BY <2>1 DEF manager
  <2>3. WorkTyped' BY <1>1, <2>1 DEF WorkTyped
  <2>4. OpOK(map, sess, strays, th, o) BY <1>4 DEF OpOK
  <2> HIDE DEF o
  <2> QED BY ONLY HeldInv, th \in Owners, <1>2, <1>3, <2>2, <2>3, <2>4, OperationMoves
<1>5. CASE map[t] # 0
  <2>1. /\ StopWith(s, r) /\ procs' = Signalled(procs, sess[s]) /\ Persist!Submit(t, sess[s].history)
        /\ UNCHANGED <<fibers, discarded>>
    BY <1>5 DEF CloseSession
  <2>2. /\ s \in 1..Len(sess) /\ sess[s] \in Session /\ SessionOK(map, sess, procs, strays, s)
        /\ sess \in Seq(Session) /\ map \in [Terminals -> 0..Len(sess)]
    BY <1>5, HeldFacts
  <2>3. r \in Session /\ r.terminal = sess[s].terminal /\ r.proc = 0 /\ r.events = << >>
    BY <2>2, SessionFields DEF SessionOK
  <2>4. sess[s].history \in Seq(Nat) BY <2>2 DEF Session
  <2>5. WorkTyped' BY ONLY <1>1, t \in Terminals, <2>1, <2>4, SubmitTyped, UNCHANGED <<histories, unwritten>>,
                           counts' \in [ops : Nat, outputs : Nat, faults : Nat]
  <2>6. \A tt : Replaced(tt, sess, s, r) => OpOK(map, tt, strays, th, o)
    <3> SUFFICES ASSUME NEW tt, Replaced(tt, sess, s, r) PROVE OpOK(map, tt, strays, th, o)
      OBVIOUS
    <3>1. tt[s] = r BY <2>2 DEF Replaced
    <3> HIDE DEF r
    <3>2. map[t] # 0 => tt[map[t]].proc = 0 BY <2>3, <3>1
    <3> QED BY <3>2 DEF OpOK
  <2> HIDE DEF s, r, o
  <2>7. MayBecome(map, sess, procs, procs', strays, s, r)
    BY ONLY HeldInv, <2>1, <2>2, <2>3, MayStop
  <2>8. UNCHANGED fibers BY <2>1
  <2>9. r.proc # 0 => r.proc = sess[s].proc BY <2>3
  <2> QED BY ONLY HeldInv, th \in Owners, <1>2, <1>3, <2>1, <2>2, <2>3, <2>5, <2>6, <2>7, <2>8, <2>9, OperationChanges
<1> QED BY <1>4, <1>5

\* close of one terminal, with or without its history.
LEMMA CloseHolds ==
  ASSUME HeldInv, NEW t \in Terminals, Close(t)
  PROVE  HeldInv'
<1>1. /\ Begins(Thread[t]) /\ UNCHANGED <<histories, unwritten>> /\ Thread[t] \in Owners
      /\ \E targets \in {{}, {t}} : CloseSession(Thread[t], t, {}, targets)
  BY HeldFacts DEF Close
<1>2. PICK targets \in {{}, {t}} : CloseSession(Thread[t], t, {}, targets)
  BY <1>1
<1>3. counts' \in [ops : Nat, outputs : Nat, faults : Nat] BY <1>1, BeginsTyped, HeldFacts
<1> DEFINE left == {}
<1>4. /\ left \in SUBSET Terminals /\ targets \in SUBSET Terminals
      /\ \A u \in left \cup targets : Thread[u] = Thread[t]
      /\ \A u \in targets : map[u] # 0 => u \in left \/ u = t
  BY <1>2
<1>5. CloseSession(Thread[t], t, left, targets) BY <1>2
<1> HIDE DEF left
<1> QED BY ONLY HeldInv, t \in Terminals, <1>1, <1>3, <1>4, <1>5, CloseSessionHolds

\* close of all sessions of a thread.
LEMMA CloseThreadHolds ==
  ASSUME HeldInv, NEW th \in Owners, CloseThread(th)
  PROVE  HeldInv'
<1> DEFINE mine == {t \in Terminals : Thread[t] = th}
           open == {t \in mine : map[t] # 0}
<1>1. Begins(th) /\ UNCHANGED <<histories, unwritten>> BY DEF CloseThread
<1>2. counts' \in [ops : Nat, outputs : Nat, faults : Nat] BY <1>1, BeginsTyped, HeldFacts
<1>3. ASSUME NEW t \in open, NEW targets \in {{}, mine}, CloseSession(th, t, open \ {t}, targets)
      PROVE  HeldInv'
  <2> DEFINE left == open \ {t}
  <2>1. /\ left \in SUBSET Terminals /\ targets \in SUBSET Terminals /\ t \in Terminals /\ Thread[t] = th
        /\ \A u \in left \cup targets : Thread[u] = th
        /\ \A u \in targets : map[u] # 0 => u \in left \/ u = t
    OBVIOUS
  <2>2. CloseSession(th, t, left, targets) BY <1>3
  <2> HIDE DEF left, open, mine
  <2> QED BY ONLY HeldInv, th \in Owners, <1>1, <1>2, <2>1, <2>2, CloseSessionHolds
<1>4. ASSUME open = {}, op' = [op EXCEPT ![th] = [NoOp EXCEPT !.at = "delete", !.targets = mine]],
             UNCHANGED <<manager, pending, doing>>
      PROVE  HeldInv'
  <2> DEFINE o == [NoOp EXCEPT !.at = "delete", !.targets = mine]
  <2>1. /\ o \in Operations /\ o.at = "delete" /\ o.targets = mine /\ o.left = {} /\ o.next = "none"
    BY DEF NoOp, Operations
  <2>2. op' = [op EXCEPT ![th] = o] BY <1>4
  <2> HIDE DEF o
  <2>3. OpOK(map, sess, strays, th, o) BY <1>4, <2>1 DEF OpOK
  <2>4. UNCHANGED <<map, sess, procs, fibers, last, strays>> BY <1>4 DEF manager
  <2>5. WorkTyped' BY <1>1, <1>2, <1>4, HeldFacts DEF WorkTyped
  <2> QED BY ONLY HeldInv, th \in Owners, <2>1, <2>2, <2>3, <2>4, <2>5, OperationMoves
<1> QED BY <1>3, <1>4 DEF CloseThread

\* The next session of the thread.
LEMMA CloseNextHolds ==
  ASSUME HeldInv, NEW th \in Owners, CloseNext(th)
  PROVE  HeldInv'
<1>1. op[th].at = "closing" /\ UNCHANGED <<histories, unwritten, counts>> BY DEF CloseNext
<1>2. PICK t \in op[th].left : CloseSession(th, t, op[th].left \ {t}, op[th].targets) BY DEF CloseNext
<1>3. op[th] \in Operations /\ OpOK(map, sess, strays, th, op[th]) /\ WorkTyped BY HeldFacts
<1> DEFINE left == op[th].left \ {t}
           targets == op[th].targets
<1>4. op[th].left \subseteq Terminals /\ targets \subseteq Terminals BY <1>3 DEF Operations
<1>5. /\ left \in SUBSET Terminals /\ targets \in SUBSET Terminals /\ t \in Terminals /\ Thread[t] = th
      /\ \A u \in left \cup targets : Thread[u] = th
      /\ \A u \in targets : map[u] # 0 => u \in left \/ u = t
  BY <1>1, <1>3, <1>4 DEF OpOK
<1>6. CloseSession(th, t, left, targets) BY <1>2
<1>7. UNCHANGED <<histories, unwritten>> /\ counts' \in [ops : Nat, outputs : Nat, faults : Nat]
  BY <1>1, <1>3 DEF WorkTyped
<1> HIDE DEF left, targets
<1> QED BY ONLY HeldInv, th \in Owners, <1>5, <1>6, <1>7, CloseSessionHolds

\* What leaves the map has no process, and no other operation is starting it.
LEMMA CloseRemovesHolds ==
  ASSUME HeldInv, NEW th \in Owners, CloseRemoves(th)
  PROVE  HeldInv'
<1> DEFINE o == op[th]
           t == o.t
           n == IF o.left # {} THEN [o EXCEPT !.at = "closing"]
                ELSE IF o.targets # {} THEN [NoOp EXCEPT !.at = "delete", !.targets = o.targets]
                ELSE NoOp
<1>1. /\ o.at = "persist" /\ o.next = "remove" /\ op' = [op EXCEPT ![th] = n]
      /\ Update(sess, map, recent, {t}) /\ UNCHANGED <<procs, fibers, discarded, persistWorker, counts>>
  BY DEF CloseRemoves
<1>2. /\ sess \in Seq(Session) /\ procs \in Seq(Process) /\ map \in [Terminals -> 0..Len(sess)]
      /\ Len(sess) \in Nat /\ op \in [Owners -> Operations] /\ WorkTyped
      /\ o \in Operations /\ OpOK(map, sess, strays, th, o)
  BY HeldFacts
<1>3. /\ t \in Terminals /\ Thread[t] = th /\ (map[t] # 0 => sess[map[t]].proc = 0)
      /\ (\A u \in o.targets : map[u] # 0 => u \in o.left \/ u = t)
      /\ \A u \in o.left \cup o.targets : Thread[u] = th
  BY <1>1, <1>2 DEF OpOK
<1>4. n \in Operations /\ n.next \in {"none", "remove"}
  BY <1>1, <1>2 DEF Operations, NoOp
<1>5. /\ \A u \in n.left \cup n.targets : Thread[u] = th
      /\ n.at \in {"none", "closing", "delete"} /\ (n.at = "closing" => n.t = t)
      /\ \A u \in n.targets : map[u] # 0 => u = t \/ (n.at = "closing" /\ u \in n.left)
  <2>1. CASE o.left # {}
    <3>1. n = [o EXCEPT !.at = "closing"] BY <2>1
    <3>2. n.at = "closing" /\ n.t = t /\ n.left = o.left /\ n.targets = o.targets
      BY <1>2, <3>1 DEF Operations
    <3> QED BY <1>3, <3>2
  <2>2. CASE o.left = {} /\ o.targets # {}
    <3>1. n.at = "delete" /\ n.left = {} /\ n.targets = o.targets
      BY <2>2 DEF NoOp
    <3> QED BY <1>3, <2>2, <3>1
  <2>3. CASE o.left = {} /\ o.targets = {}
    BY <2>3 DEF NoOp
  <2> QED BY <2>1, <2>2, <2>3
<1> HIDE DEF n
<1>6. op'[th] = n /\ op' \in [Owners -> Operations] /\ \A x \in Owners : x # th => op'[x] = op[x]
  BY <1>1, <1>2, <1>4
<1>7. /\ sess' = sess /\ map' = [u \in Terminals |-> IF u = t THEN 0 ELSE map[u]]
      /\ last' = [u \in Terminals |-> IF map[u] # 0 THEN map[u] ELSE last[u]]
      /\ strays \subseteq strays'
  BY <1>1 DEF Update
<1>8. last' = last
  BY <1>7 DEF HeldInv, TerminalsTypeOK
<1>9. strays' = strays
  <2>1. ASSUME NEW x \in Owners, op'[x].s = map[t], op'[x].next = "start" PROVE FALSE
    <3>1. x # th BY <1>4, <1>6, <2>1
    <3>2. op'[x] = op[x] /\ OpOK(map, sess, strays, x, op[x]) BY <1>6, <3>1, HeldFacts
    <3>3. /\ op[x].at \in {"persist", "spawn"} /\ op[x].s \in 1..Len(sess) /\ sess[op[x].s].terminal = op[x].t
          /\ Thread[op[x].t] = x
      BY <2>1, <3>2 DEF OpOK
    <3>4. map[t] # 0 BY <1>2, <2>1, <3>2, <3>3
    <3>5. sess[map[t]].terminal = t BY <1>3, <3>4, HeldFacts
    <3> QED BY <1>3, <2>1, <3>1, <3>2, <3>3, <3>5
  <2>2. strays' = strays \cup {map[x] : x \in {u \in {t} : \E y \in Owners : op'[y].s = map[u] /\ op'[y].next = "start"}}
    BY <1>1 DEF Update
  <2> QED BY <2>1, <2>2
<1>10. map' \in [Terminals -> 0..Len(sess)] /\ \A u \in Terminals : u # t => map'[u] = map[u]
  BY <1>2, <1>7
<1>11. SessionsOK(map', sess', procs', strays')
  <2> SUFFICES ASSUME NEW s \in 1..Len(sess) PROVE SessionOK(map', sess, procs, strays, s)
    BY <1>1, <1>7, <1>9 DEF SessionsOK
  <2>1. SessionOK(map, sess, procs, strays, s) /\ sess[s].terminal \in Terminals
    <3>1. sess[s] \in Session /\ SessionOK(map, sess, procs, strays, s) BY HeldFacts
    <3> QED BY <3>1 DEF Session
  <2>2. sess[s].proc # 0 /\ map[sess[s].terminal] = s => map'[sess[s].terminal] = s
    BY <1>2, <1>3, <1>10, <2>1
  <2> QED BY <2>1, <2>2 DEF SessionOK, Held
<1>12. OpsOK(map', sess', strays', op')
  <2> SUFFICES ASSUME NEW x \in Owners PROVE OpOK(map', sess, strays, x, op'[x])
    BY <1>7, <1>9 DEF OpsOK
  <2>1. CASE x = th
    <3>1. \A u \in n.targets : u \in Terminals BY <1>4 DEF Operations
    <3>2. map'[t] = 0 BY <1>3, <1>7
    <3>3. \A u \in n.targets : map'[u] # 0 => n.at = "closing" /\ u \in n.left BY <1>5, <1>10, <3>1, <3>2
    <3> QED BY <1>3, <1>4, <1>5, <1>6, <2>1, <3>3 DEF OpOK
  <2>2. CASE x # th
    <3> DEFINE q == op[x]
    <3>1. op'[x] = q /\ q \in Operations /\ OpOK(map, sess, strays, x, q) BY <1>6, <2>2, HeldFacts
    <3> HIDE DEF q
    <3>2. \A u \in Terminals : Thread[u] = x => map'[u] = map[u] BY <1>3, <1>10, <2>2
    <3>3. q.at \notin {"none", "delete"} => map'[q.t] = map[q.t] BY <3>1, <3>2 DEF OpOK
    <3>4. \A u \in q.targets : map'[u] = map[u] BY <3>1, <3>2 DEF OpOK, Operations
    <3> QED BY <3>1, <3>3, <3>4 DEF OpOK, Held
  <2> QED BY <2>1, <2>2
<1>13. Named(map', sess') BY <1>7, <1>10 DEF HeldInv, Named
<1>14. WorkTyped' BY <1>1, <1>2 DEF persistWorker, WorkTyped
<1>15. \A u \in Terminals : map'[u] # 0 => last'[u] = map'[u] BY <1>7, <1>8, <1>10 DEF HeldInv
<1> QED BY <1>1, <1>6, <1>7, <1>8, <1>9, <1>10, <1>11, <1>12, <1>13, <1>14, <1>15
        DEF HeldInv, TerminalsTypeOK, SessionsTyped

\* The terminals whose histories are deleted have no session.
LEMMA CloseDeletesHolds ==
  ASSUME HeldInv, NEW th \in Owners, CloseDeletes(th)
  PROVE  HeldInv'
<1>1. /\ op[th].at = "delete" /\ Ends(th)
      /\ UNCHANGED <<map, sess, procs, fibers, recent, strays, discarded, pending, doing, unwritten, counts>>
  BY DEF CloseDeletes
<1>2. PICK deleted \in {{}, op[th].targets} :
        /\ histories' = [t \in Terminals |-> IF t \in deleted THEN << >> ELSE histories[t]]
        /\ last' = [t \in Terminals |-> IF t \in deleted THEN 0 ELSE last[t]]
  BY DEF CloseDeletes
<1>3. op[th] \in Operations /\ OpOK(map, sess, strays, th, op[th]) /\ WorkTyped /\ << >> \in Seq(Nat)
      /\ op \in [Owners -> Operations] /\ Len(sess) \in Nat
  BY HeldFacts
<1>4. \A u \in deleted : map[u] = 0 BY <1>1, <1>2, <1>3 DEF OpOK
<1>5. op' = [op EXCEPT ![th] = NoOp] /\ NoOp \in Operations /\ OpOK(map, sess, strays, th, NoOp)
  BY <1>1, EndsWith, NoOpOK
<1>6. op' \in [Owners -> Operations] /\ OpsOK(map, sess, strays, op')
  BY <1>3, <1>5 DEF HeldInv, OpsOK
<1>7. WorkTyped' BY <1>1, <1>2, <1>3 DEF WorkTyped
<1>8. last' \in [Terminals -> 0..Len(sess)] /\ Named(last', sess) /\ \A t \in Terminals : map[t] # 0 => last'[t] = map[t]
  BY <1>2, <1>3, <1>4 DEF HeldInv, TerminalsTypeOK, Named
<1> QED BY <1>1, <1>6, <1>7, <1>8 DEF HeldInv, TerminalsTypeOK

\* A fault is counted.
LEMMA FaultsTyped ==
  ASSUME WorkTyped, Faults
  PROVE  counts' \in [ops : Nat, outputs : Nat, faults : Nat]
<1>1. counts \in [ops : Nat, outputs : Nat, faults : Nat] BY DEF WorkTyped
<1>2. counts' = [counts EXCEPT !.faults = @ + 1] BY DEF Faults
<1>3. counts.faults + 1 \in Nat BY <1>1
<1> QED BY <1>1, <1>2, <1>3

\* An interrupt ends the operation and no more.
LEMMA InterruptedHolds ==
  ASSUME HeldInv, NEW th \in Owners, Interrupted(th)
  PROVE  HeldInv'
<1>1. Faults /\ Ends(th) /\ UNCHANGED <<manager, persistWorker>> BY DEF Interrupted
<1>2. UNCHANGED <<map, sess, procs, fibers, last, strays>> BY <1>1 DEF manager
<1>3. WorkTyped'
  <2>1. WorkTyped /\ counts' \in [ops : Nat, outputs : Nat, faults : Nat] BY <1>1, FaultsTyped, HeldFacts
  <2> QED BY <1>1, <2>1 DEF WorkTyped, persistWorker
<1> QED BY ONLY HeldInv, th \in Owners, <1>1, <1>2, <1>3, EndsWith, NoOpOK, OperationMoves

\* An event is queued by the process of a session.
LEMMA QueuedHolds ==
  ASSUME HeldInv, NEW p \in 1..Len(procs), NEW e \in Nat, Queued(p, e), NEW q \in Process,
         q.session = procs[p].session, procs' = [procs EXCEPT ![p] = q],
         e = Exit => q.state # "alive",
         counts' \in [ops : Nat, outputs : Nat, faults : Nat]
  PROVE  HeldInv'
<1> DEFINE s == procs[p].session
           r == [sess[s] EXCEPT !.events = Append(@, e), !.draining = TRUE]
<1>1. /\ procs[p].state = "alive" /\ sess[s].proc = p /\ sess[s].status = "running"
      /\ sess' = [sess EXCEPT ![s].events = Append(@, e), ![s].draining = TRUE]
      /\ fibers' \subseteq fibers \cup {<<s, p>>}
      /\ UNCHANGED <<map, recent, last, strays, discarded, op, persistWorker>>
  BY DEF Queued
<1>2. /\ sess \in Seq(Session) /\ procs \in Seq(Process) /\ Len(procs) \in Nat /\ WorkTyped
      /\ \A i \in 1..Len(sess) : sess[i] \in Session /\ SessionOK(map, sess, procs, strays, i)
  BY HeldFacts
<1>3. /\ s \in 1..Len(sess)
      /\ \A i \in 1..Len(procs) : procs[i].state = "alive" => sess[procs[i].session].proc = i
  BY DEF HeldInv, ProcsOK
<1>4. sess[s] \in Session /\ SessionOK(map, sess, procs, strays, s) /\ p # 0
  BY <1>2, <1>3
<1> HIDE DEF s
<1>5. sess[s].events \in Seq(Nat) BY <1>4 DEF Session
<1>6. Append(sess[s].events, e) \in Seq(Nat) BY <1>5
<1>7. /\ r \in Session /\ r.terminal = sess[s].terminal /\ r.proc = p /\ r.status = "running"
      /\ r.events = Append(sess[s].events, e)
  <2> DEFINE a == Append(sess[s].events, e)
  <2>1. a \in Seq(Nat) BY <1>6
  <2>2. r = [sess[s] EXCEPT !.events = a, !.draining = TRUE] OBVIOUS
  <2> HIDE DEF a, r
  <2> QED BY <1>1, <1>4, <2>1, <2>2 DEF Session, a
<1>8. sess' = [sess EXCEPT ![s] = r] BY <1>1
<1> HIDE DEF r
<1>9. /\ procs' \in Seq(Process) /\ Len(procs') = Len(procs) /\ procs'[p] = q
      /\ \A i \in 1..Len(procs) : i # p => procs'[i] = procs[i]
  BY <1>2
<1>10. q.session = s BY DEF s
<1>11. \A i \in 1..Len(r.events) : r.events[i] = Exit => procs'[p].state # "alive"
  <2> SUFFICES ASSUME NEW i \in 1..Len(r.events), r.events[i] = Exit PROVE q.state # "alive"
    BY <1>9
  <2> DEFINE ev == sess[s].events
             l == Append(ev, e)
  <2>3. ev \in Seq(Nat) /\ r.events = l BY <1>5, <1>7
  <2>4. \A j \in 1..Len(ev) : ev[j] # Exit \/ procs[p].state # "alive" BY <1>1, <1>4 DEF SessionOK
  <2> HIDE DEF ev
  <2>5. Len(l) = Len(ev) + 1 /\ l[Len(ev) + 1] = e /\ (\A j \in 1..Len(ev) : l[j] = ev[j]) /\ Len(ev) \in Nat
    BY <2>3
  <2> HIDE DEF l
  <2>6. Len(r.events) = Len(ev) + 1 BY <2>3, <2>5
  <2>7. i \in 1..Len(ev) + 1 BY ONLY <2>6, i \in 1..Len(r.events)
  <2>1. CASE i = Len(ev) + 1 BY <2>1, <2>3, <2>5
  <2>2. CASE i # Len(ev) + 1
    <3>1. i \in 1..Len(ev) BY ONLY <2>2, <2>7, Len(ev) \in Nat, <2>5
    <3> QED BY <1>1, <2>3, <2>4, <2>5, <3>1
  <2> QED BY <2>1, <2>2
<1>12. MayBecome(map, sess, procs, procs', strays, s, r)
  <2>1. procs[p].session = s /\ procs[p].state = "alive" BY <1>1 DEF s
  <2>2. \A i \in 1..Len(procs) : procs'[i].session = procs[i].session
                                 /\ (procs'[i].state = "alive" => procs[i].state = "alive")
    BY <1>9, <1>10, <2>1
  <2>3. \A i \in 1..Len(procs') : procs'[i].session = s /\ procs'[i].state = "alive" => r.proc = i
    BY <1>1, <1>3, <1>7, <1>9, <2>2
  <2>4. map[r.terminal] = s \/ s \in strays BY <1>1, <1>4, <1>7 DEF SessionOK, Held
  <2>5. \A i \in 1..Len(procs') : i > Len(procs) => procs'[i].session = s BY <1>2, <1>9
  <2>6. r.proc = p /\ p # 0 /\ p \in 1..Len(procs') /\ procs'[p].session = s BY <1>4, <1>7, <1>9, <1>10
  <2>7. /\ r \in Session /\ r.terminal = sess[s].terminal /\ procs' \in Seq(Process)
        /\ Len(procs') >= Len(procs) /\ r.status = "running"
    BY <1>2, <1>7, <1>9
  <2> QED BY ONLY <1>11, <2>2, <2>3, <2>4, <2>5, <2>6, <2>7 DEF MayBecome
<1>13. fibers' \subseteq (1..Len(sess)) \X (1..Len(procs'))
  <2>1. fibers \subseteq (1..Len(sess)) \X (1..Len(procs)) BY DEF HeldInv, TerminalsTypeOK
  <2> QED BY <1>1, <1>3, <1>9, <2>1
<1>14. WorkTyped' BY <1>1, <1>2 DEF WorkTyped, persistWorker
<1>15. (r.proc # 0 => r.proc = sess[s].proc) /\ UNCHANGED op /\ UNCHANGED <<map, last, strays>>
  BY <1>1, <1>7
<1> QED BY ONLY HeldInv, <1>3, <1>7, <1>8, <1>12, <1>13, <1>14, <1>15, SessionMoves

\* A process writes.
LEMMA OutputsHolds ==
  ASSUME HeldInv, NEW p \in 1..Len(procs), Outputs(p)
  PROVE  HeldInv'
<1> DEFINE e == counts.outputs + 1
           q == procs[p]
<1>1. Queued(p, e) /\ UNCHANGED procs /\ counts' = [counts EXCEPT !.outputs = @ + 1] BY DEF Outputs
<1>2. procs \in Seq(Process) /\ counts \in [ops : Nat, outputs : Nat, faults : Nat]
  BY HeldFacts DEF WorkTyped
<1>3. e \in Nat /\ e # Exit /\ counts' \in [ops : Nat, outputs : Nat, faults : Nat]
  BY <1>1, <1>2 DEF Exit
<1>4. q \in Process /\ q.session = procs[p].session /\ procs' = [procs EXCEPT ![p] = q]
  BY <1>1, <1>2
<1> HIDE DEF e, q
<1> QED BY <1>1, <1>3, <1>4, QueuedHolds

\* A process exits; the event says so.
LEMMA ExitsHolds ==
  ASSUME HeldInv, NEW p \in 1..Len(procs), Exits(p)
  PROVE  HeldInv'
<1> DEFINE q == [procs[p] EXCEPT !.state = "exited"]
<1>1. Queued(p, Exit) /\ procs' = [procs EXCEPT ![p].state = "exited"] /\ UNCHANGED counts BY DEF Exits
<1>2. procs \in Seq(Process) /\ counts \in [ops : Nat, outputs : Nat, faults : Nat]
  BY HeldFacts DEF WorkTyped
<1>3. q \in Process /\ q.session = procs[p].session /\ q.state # "alive"
  <2>1. procs[p] \in Process BY <1>2
  <2> QED BY <2>1 DEF Process
<1>4. procs' = [procs EXCEPT ![p] = q] BY <1>1
<1>5. Exit \in Nat /\ counts' \in [ops : Nat, outputs : Nat, faults : Nat] BY <1>1, <1>2 DEF Exit
<1> HIDE DEF q
<1> QED BY <1>1, <1>3, <1>4, <1>5, QueuedHolds

\* What a drain knows of its session.
LEMMA DrainFacts ==
  ASSUME HeldInv, NEW s, NEW p, <<s, p>> \in fibers
  PROVE  /\ s \in 1..Len(sess) /\ p \in 1..Len(procs) /\ p # 0 /\ sess[s] \in Session
         /\ SessionOK(map, sess, procs, strays, s) /\ WorkTyped /\ sess[s].events \in Seq(Nat)
         /\ sess[s].history \in Seq(Nat) /\ sess[s].terminal \in Terminals
         /\ \A f : fibers \ {f} \subseteq (1..Len(sess)) \X (1..Len(procs))
         /\ fibers \subseteq (1..Len(sess)) \X (1..Len(procs))
<1>1. fibers \subseteq (1..Len(sess)) \X (1..Len(procs)) BY DEF HeldInv, TerminalsTypeOK
<1>2. s \in 1..Len(sess) /\ p \in 1..Len(procs) /\ p # 0 BY <1>1, HeldFacts
<1>3. sess[s] \in Session /\ SessionOK(map, sess, procs, strays, s) /\ WorkTyped BY <1>2, HeldFacts
<1> QED BY <1>1, <1>2, <1>3 DEF Session

\* A drain that finds nothing forgets what is queued.
LEMMA DrainIdlesHolds ==
  ASSUME HeldInv, NEW s, NEW p, DrainIdles(s, p)
  PROVE  HeldInv'
<1> DEFINE r == Drained(sess[s])
<1>1. /\ <<s, p>> \in fibers /\ sess' = [sess EXCEPT ![s] = r] /\ fibers' = fibers \ {<<s, p>>}
      /\ UNCHANGED <<map, procs, recent, last, strays, op, persistWorker, counts>>
  BY DEF DrainIdles
<1>2. /\ s \in 1..Len(sess) /\ sess[s] \in Session /\ SessionOK(map, sess, procs, strays, s) /\ WorkTyped
      /\ fibers' \subseteq (1..Len(sess)) \X (1..Len(procs'))
  BY <1>1, DrainFacts
<1>3. /\ r \in Session /\ r.terminal = sess[s].terminal /\ r.proc = sess[s].proc
      /\ r.status = sess[s].status /\ r.events = << >>
  BY <1>2, SessionFields
<1> HIDE DEF r
<1>4. MayBecome(map, sess, procs, procs', strays, s, r)
  BY <1>1, <1>2, <1>3, MayKeep DEF SessionOK
<1>5. WorkTyped' BY <1>1, <1>2 DEF WorkTyped, persistWorker
<1> QED BY <1>1, <1>2, <1>3, <1>4, <1>5, SessionMoves

\* The first event is taken, and the history may change.
LEMMA TakesEvent ==
  ASSUME HeldInv, NEW s \in 1..Len(sess), sess[s].proc # 0, sess[s].events # << >>, NEW r \in Session,
         r.terminal = sess[s].terminal, r.proc = sess[s].proc, r.status = sess[s].status,
         r.events = Tail(sess[s].events), TouchWith(s, r, FALSE),
         UNCHANGED <<op, procs, fibers>>, WorkTyped'
  PROVE  HeldInv'
<1>1. sess[s] \in Session /\ SessionOK(map, sess, procs, strays, s) BY HeldFacts
<1>2. sess[s].events \in Seq(Nat) BY <1>1 DEF Session
<1>3. \A i \in 1..Len(r.events) : i + 1 \in 1..Len(sess[s].events) /\ r.events[i] = sess[s].events[i + 1]
  BY <1>2
<1>4. MayBecome(map, sess, procs, procs', strays, s, r)
  <2>1. sess[s].status = "running" /\ UNCHANGED procs BY <1>1 DEF SessionOK
  <2>2. \A i \in 1..Len(r.events) : r.events[i] = Exit => procs[r.proc].state # "alive"
    BY <1>1, <1>3 DEF SessionOK
  <2> QED BY <2>1, <2>2, MayKeep
<1>5. fibers' \subseteq (1..Len(sess)) \X (1..Len(procs'))
  BY DEF HeldInv, TerminalsTypeOK
<1> QED BY <1>4, <1>5, SessionMoves

\* An output is taken, with its history or without.
LEMMA DrainOutputHolds ==
  ASSUME HeldInv, NEW s, NEW p, DrainOutput(s, p)
  PROVE  HeldInv'
<1> DEFINE r == [sess[s] EXCEPT !.events = Tail(@)]
           h == Append(sess[s].history, Head(sess[s].events))
           t == sess[s].terminal
           r2 == [r EXCEPT !.history = h]
<1>1. /\ <<s, p>> \in fibers /\ sess[s].proc = p /\ sess[s].events # << >>
      /\ UNCHANGED op /\ UNCHANGED <<procs, fibers, discarded, histories, unwritten, counts>>
      /\ \/ TouchWith(s, r2, FALSE) /\ Persist!Submit(t, h)
         \/ TouchWith(s, r, FALSE) /\ UNCHANGED <<pending, doing>>
  BY DEF DrainOutput, HasProcess
<1>2. /\ s \in 1..Len(sess) /\ p # 0 /\ sess[s] \in Session /\ WorkTyped
      /\ sess[s].events \in Seq(Nat) /\ sess[s].history \in Seq(Nat) /\ t \in Terminals
  BY <1>1, DrainFacts
<1>3. Tail(sess[s].events) \in Seq(Nat) /\ h \in Seq(Nat) BY <1>1, <1>2
<1> HIDE DEF h
<1>4. /\ r \in Session /\ r.terminal = t /\ r.proc = sess[s].proc /\ r.status = sess[s].status
      /\ r.events = Tail(sess[s].events)
  BY <1>2, <1>3 DEF Session
<1> HIDE DEF r
<1>5. /\ r2 \in Session /\ r2.terminal = r.terminal /\ r2.proc = r.proc /\ r2.status = r.status
      /\ r2.events = r.events
  BY <1>3, <1>4 DEF Session
<1> HIDE DEF r2
<1>6. CASE TouchWith(s, r2, FALSE) /\ Persist!Submit(t, h)
  <2>1. WorkTyped'
    <3>1. UNCHANGED <<histories, unwritten>> /\ counts' \in [ops : Nat, outputs : Nat, faults : Nat]
      BY <1>1, <1>2 DEF WorkTyped
    <3> HIDE DEF t
    <3> QED BY ONLY <1>2, <1>3, <1>6, <3>1, SubmitTyped
  <2> QED BY <1>1, <1>2, <1>4, <1>5, <1>6, <2>1, TakesEvent
<1>7. CASE TouchWith(s, r, FALSE) /\ UNCHANGED <<pending, doing>>
  <2>1. WorkTyped' BY <1>1, <1>2, <1>7 DEF WorkTyped
  <2> QED BY <1>1, <1>2, <1>4, <1>7, <2>1, TakesEvent
<1> QED BY <1>1, <1>6, <1>7

\* The session loses its process once that has exited.
LEMMA DrainExitHolds ==
  ASSUME HeldInv, NEW s, NEW p, DrainExit(s, p)
  PROVE  HeldInv'
<1> DEFINE r == Stopped(sess[s])
<1>1. /\ <<s, p>> \in fibers /\ sess[s].proc = p /\ sess[s].events # << >> /\ Head(sess[s].events) = Exit
      /\ UNCHANGED op /\ TouchWith(s, r, TRUE) /\ fibers' = fibers \ {<<s, p>>}
      /\ UNCHANGED <<procs, discarded, persistWorker, counts>>
  BY DEF DrainExit, HasProcess
<1>2. /\ s \in 1..Len(sess) /\ p # 0 /\ sess[s] \in Session /\ SessionOK(map, sess, procs, strays, s) /\ WorkTyped
      /\ fibers' \subseteq (1..Len(sess)) \X (1..Len(procs')) /\ sess[s].events \in Seq(Nat)
  BY <1>1, DrainFacts
<1>3. r \in Session /\ r.terminal = sess[s].terminal /\ r.proc = 0 /\ r.events = << >>
  BY <1>1, <1>2, SessionFields
<1> HIDE DEF r
<1>4. procs[p].state # "alive"
  <2>1. 1 \in 1..Len(sess[s].events) /\ sess[s].events[1] = Exit BY <1>1, <1>2
  <2> QED BY <1>1, <1>2, <2>1 DEF SessionOK
<1>5. MayBecome(map, sess, procs, procs', strays, s, r)
  <2>1. /\ procs \in Seq(Process) /\ Len(procs) \in Nat
        /\ \A i \in 1..Len(procs) : procs[i].state = "alive" => sess[procs[i].session].proc = i
    BY HeldFacts DEF HeldInv, ProcsOK
  <2>2. \A i \in 1..Len(procs') : procs'[i].session = s => procs'[i].state # "alive"
    BY <1>1, <1>4, <2>1
  <2> QED BY <1>1, <1>3, <2>1, <2>2 DEF MayBecome
<1>6. WorkTyped' BY <1>1, <1>2 DEF WorkTyped, persistWorker
<1> QED BY <1>1, <1>2, <1>3, <1>5, <1>6, SessionMoves

\* The persist worker does not touch the sessions.
LEMMA PersistHolds ==
  ASSUME HeldInv, PersistStarts \/ PersistWrites
  PROVE  HeldInv'
<1>1. WorkTyped BY HeldFacts
<1>2. CASE PersistStarts
  <2>1. PICK t \in Terminals : Persist!Start(t) BY <1>2 DEF PersistStarts
  <2>2. UNCHANGED <<manager, histories, unwritten, op, counts>> BY <1>2 DEF PersistStarts
  <2>3. pending[t] \in Seq(Nat) /\ doing' = <<t, pending[t]>> /\ pending' = [pending EXCEPT ![t] = None]
    BY <1>1, <2>1 DEF WorkTyped, Persist!Start
  <2>4. WorkTyped' BY <1>1, <2>2, <2>3 DEF WorkTyped
  <2> QED BY <2>2, <2>4 DEF HeldInv, TerminalsTypeOK, manager
<1>3. CASE PersistWrites
  <2>1. doing \in Terminals \X Seq(Nat) /\ doing[1] \in Terminals /\ doing[2] \in Seq(Nat)
    BY <1>1, <1>3 DEF PersistWrites, WorkTyped
  <2>2. UNCHANGED <<manager, op>> BY <1>3 DEF PersistWrites
  <2>3. doing' \in {<< >>} \cup (Terminals \X Seq(Nat)) /\ pending' \in [Terminals -> Seq(Nat) \cup {None}]
    <3>1. CASE pending[doing[1]] # None
      <4>1. /\ doing' = <<doing[1], pending[doing[1]]>> /\ pending' = [pending EXCEPT ![doing[1]] = None]
            /\ pending[doing[1]] \in Seq(Nat)
        BY <1>1, <1>3, <2>1, <3>1 DEF PersistWrites, Persist!GoOn, WorkTyped
      <4> QED BY <1>1, <2>1, <4>1 DEF WorkTyped
    <3>2. CASE pending[doing[1]] = None
      BY <1>1, <1>3, <3>2 DEF PersistWrites, Persist!Finish, WorkTyped
    <3> QED BY <3>1, <3>2
  <2>4. CASE histories' = [histories EXCEPT ![doing[1]] = doing[2]] /\ unwritten' = unwritten \ {doing[1]}
             /\ UNCHANGED counts
    BY <1>1, <2>1, <2>2, <2>3, <2>4 DEF HeldInv, TerminalsTypeOK, manager, WorkTyped
  <2>5. CASE Faults /\ unwritten' = unwritten \cup {doing[1]} /\ UNCHANGED histories
    <3>1. counts' \in [ops : Nat, outputs : Nat, faults : Nat] BY <1>1, <2>5, FaultsTyped
    <3>2. WorkTyped' BY <1>1, <2>1, <2>3, <2>5, <3>1 DEF WorkTyped
    <3> QED BY <2>2, <3>2 DEF HeldInv, TerminalsTypeOK, manager
  <2> QED BY <1>3, <2>4, <2>5 DEF PersistWrites
<1> QED BY <1>2, <1>3

\* A function on 1..n is a sequence.
LEMMA FunctionIsSequence ==
  ASSUME NEW S, NEW n \in Nat, NEW f \in [1..n -> S]
  PROVE  f \in Seq(S)
  OBVIOUS

\* The terminals that run at first are distinct, so that each is in the map.
LEMMA HeldInit ==
  ASSUME TerminalsInit
  PROVE  HeldInv
<1> DEFINE n == Len(Opened)
           S(i) == [Fresh(Opened[i], <<0>>) EXCEPT !.status = "running", !.proc = i]
           P(i) == [session |-> i, state |-> "alive"]
<1>1. /\ sess = [i \in 1..n |-> S(i)] /\ procs = [i \in 1..n |-> P(i)]
      /\ map = [t \in Terminals |-> IF OpenedAt(t) = {} THEN 0 ELSE CHOOSE i \in OpenedAt(t) : TRUE]
      /\ last = map /\ fibers = {} /\ op = [th \in Owners |-> NoOp] /\ Persist!Init
      /\ histories = [t \in Terminals |-> <<0>>] /\ counts = [ops |-> 0, outputs |-> 0, faults |-> 0]
      /\ strays = {} /\ unwritten = {}
  BY DEF TerminalsInit
<1>2. <<0>> \in Seq(Nat) /\ << >> \in Seq(Nat) /\ n \in Nat /\ \A i \in 1..n : Opened[i] \in Terminals
  OBVIOUS
<1>3. \A i \in 1..n : /\ S(i) \in Session /\ S(i).terminal = Opened[i] /\ S(i).proc = i
                      /\ S(i).status = "running" /\ S(i).events = << >>
  <2> SUFFICES ASSUME NEW i \in 1..n
               PROVE  /\ S(i) \in Session /\ S(i).terminal = Opened[i] /\ S(i).proc = i
                      /\ S(i).status = "running" /\ S(i).events = << >>
    OBVIOUS
  <2> DEFINE f == Fresh(Opened[i], <<0>>)
  <2>1. f \in Session /\ f.terminal = Opened[i] /\ f.events = << >> BY <1>2, FreshFields
  <2>2. S(i) = [f EXCEPT !.status = "running", !.proc = i] OBVIOUS
  <2>3. i \in Nat /\ "running" \in Statuses BY <1>2 DEF Statuses
  <2> HIDE DEF f, S
  <2> QED BY <2>1, <2>2, <2>3 DEF Session
<1>4. \A i \in 1..n : P(i) \in Process /\ P(i).session = i
  BY DEF Process
<1> HIDE DEF S, P
<1>5. /\ sess \in Seq(Session) /\ Len(sess) = n /\ procs \in Seq(Process) /\ Len(procs) = n
      /\ \A i \in 1..n : sess[i] = S(i) /\ procs[i] = P(i)
  <2>1. sess \in [1..n -> Session] /\ procs \in [1..n -> Process] BY <1>1, <1>3, <1>4
  <2>2. DOMAIN sess = 1..n /\ DOMAIN procs = 1..n BY <2>1
  <2>3. sess \in Seq(Session) /\ procs \in Seq(Process)
    BY ONLY <1>2, <2>1, FunctionIsSequence
  <2>4. Len(sess) = n /\ Len(procs) = n BY <1>2, <2>2, <2>3
  <2>5. \A i \in 1..n : sess[i] = S(i) /\ procs[i] = P(i) BY <1>1
  <2> QED BY <2>3, <2>4, <2>5
<1>6. \A t \in Terminals : map[t] \in 0..n /\ (map[t] # 0 => map[t] \in 1..n /\ Opened[map[t]] = t)
  <2> SUFFICES ASSUME NEW t \in Terminals
               PROVE  map[t] \in 0..n /\ (map[t] # 0 => map[t] \in 1..n /\ Opened[map[t]] = t)
    OBVIOUS
  <2>1. CASE OpenedAt(t) = {} BY <1>1, <1>2, <2>1
  <2>2. CASE OpenedAt(t) # {}
    <3>1. map[t] \in OpenedAt(t) BY <1>1, <2>2
    <3> QED BY <1>2, <3>1 DEF OpenedAt
  <2> QED BY <2>1, <2>2
<1>7. \A i \in 1..n : map[Opened[i]] = i
  <2> SUFFICES ASSUME NEW i \in 1..n PROVE map[Opened[i]] = i
    OBVIOUS
  <2> DEFINE t == Opened[i]
  <2>1. i \in OpenedAt(t) /\ t \in Terminals BY <1>2 DEF OpenedAt
  <2>2. map[t] \in OpenedAt(t) BY <1>1, <2>1
  <2>3. map[t] \in 1..n /\ Opened[map[t]] = t BY <2>2 DEF OpenedAt
  <2> QED BY <2>3
<1>8. SessionsTyped(map, sess, procs) /\ last \in [Terminals -> 0..Len(sess)]
  BY <1>1, <1>5, <1>6 DEF SessionsTyped
<1>9. Named(map, sess) BY <1>3, <1>5, <1>6 DEF Named
<1>10. SessionsOK(map, sess, procs, strays)
  <2> SUFFICES ASSUME NEW i \in 1..n PROVE SessionOK(map, sess, procs, strays, i)
    BY <1>5 DEF SessionsOK
  <2>1. sess[i] = S(i) /\ procs[i].session = i BY <1>4, <1>5
  <2> QED BY <1>2, <1>3, <1>5, <1>7, <2>1 DEF SessionOK, Held
<1>11. ProcsOK(sess, procs) BY <1>3, <1>4, <1>5 DEF ProcsOK
<1>12. OpsOK(map, sess, strays, op) /\ op \in [Owners -> Operations]
  BY <1>1, NoOpOK DEF OpsOK
<1>13. WorkTyped BY <1>1, <1>2 DEF WorkTyped, Persist!Init
<1> QED BY <1>1, <1>8, <1>9, <1>10, <1>11, <1>12, <1>13 DEF HeldInv, TerminalsTypeOK

\* Every step keeps the invariant.
LEMMA HeldNext ==
  ASSUME HeldInv, [TerminalsNext]_terminalVars
  PROVE  HeldInv'
<1>1. CASE UNCHANGED terminalVars
  BY <1>1 DEF terminalVars, manager, persistWorker, HeldInv, TerminalsTypeOK, WorkTyped
<1>2. ASSUME NEW t \in Terminals,
             OpenNew(t) \/ OpenAnew(t) \/ OpenUnstarted(t) \/ Clear(t) \/ RestartTerminal(t) \/ Close(t)
      PROVE  HeldInv'
  BY <1>2, OpenNewHolds, OpenAnewHolds, OpenUnstartedHolds, ClearHolds, RestartHolds, CloseHolds
<1>3. ASSUME NEW th \in Owners, CloseThread(th) \/ Operation(th) \/ Interrupted(th)
      PROVE  HeldInv'
  BY <1>3, CloseThreadHolds, InterruptedHolds, OpenReadHolds, PersistedHolds, SpawnedHolds, SpawnFailsHolds,
     CloseNextHolds, CloseRemovesHolds, CloseDeletesHolds DEF Operation
<1>4. ASSUME NEW p \in 1..Len(procs), Outputs(p) \/ Exits(p)
      PROVE  HeldInv'
  BY <1>4, OutputsHolds, ExitsHolds
<1>5. ASSUME NEW f \in fibers, Drain(f[1], f[2])
      PROVE  HeldInv'
  BY <1>5, DrainIdlesHolds, DrainOutputHolds, DrainExitHolds DEF Drain
<1>6. CASE PersistStarts \/ PersistWrites
  BY <1>6, PersistHolds
<1> QED BY <1>1, <1>2, <1>3, <1>4, <1>5, <1>6 DEF TerminalsNext, Drains

\* It holds for ever.
LEMMA HeldInvariant == TerminalsSpec => []HeldInv
<1> QED BY HeldInit, HeldNext, PTL DEF TerminalsSpec

\* A terminal has one process (killed processes aside): what stop, eviction
\* and close leave alive is in the map, or was evicted while it was starting.
THEOREM ProcessesAreHeld == TerminalsSpec => []LiveProcessesAreHeld
<1>1. HeldInv => LiveProcessesAreHeld
  <2> SUFFICES ASSUME HeldInv, NEW p \in 1..Len(procs), procs[p].state = "alive"
               PROVE  LET s == procs[p].session IN
                      sess[s].proc = p /\ (map[sess[s].terminal] = s \/ s \in strays)
    BY DEF LiveProcessesAreHeld
  <2> DEFINE s == procs[p].session
  <2>1. s \in 1..Len(sess) /\ sess[s].proc = p BY DEF HeldInv, ProcsOK
  <2>2. SessionOK(map, sess, procs, strays, s) /\ p # 0 BY <2>1, HeldFacts
  <2> QED BY <2>1, <2>2 DEF SessionOK, Held
<1> QED BY <1>1, HeldInvariant, PTL

\* The terminal's history is still to be written, or is not waited for in vain.
Coming(t) == pending[t] # None \/ (doing # << >> /\ doing[1] = t) \/ t \notin unwritten

KeptFor(t) ==
  last[t] # 0 /\ Coming(t) /\ (\A s \in strays : sess[s].terminal # t) => Newest(t) = sess[last[t]].history

KeptInv == strays \subseteq 1..Len(sess) /\ \A t \in Terminals : KeptFor(t)

\* Sessions stay what they are, those of terminal t aside in their histories.
StaysBut(t) ==
  /\ Len(sess') >= Len(sess) /\ Len(sess') \in Nat
  /\ \A i \in 1..Len(sess) : /\ sess'[i].terminal = sess[i].terminal
                             /\ sess[i].terminal # t => sess'[i].history = sess[i].history
  /\ strays \subseteq strays' /\ strays' \subseteq strays \cup 1..Len(sess')
  /\ \A u \in Terminals : u # t => last'[u] = last[u]

\* What is last in the map under a terminal is of that terminal.
LEMMA KeptFacts ==
  ASSUME HeldInv
  PROVE  /\ last \in [Terminals -> 0..Len(sess)] /\ Len(sess) \in Nat
         /\ \A t \in Terminals : last[t] # 0 => last[t] \in 1..Len(sess) /\ sess[last[t]].terminal = t
         /\ \A t \in Terminals : map[t] # 0 => last[t] = map[t]
  BY DEF HeldInv, TerminalsTypeOK, SessionsTyped, Named

\* Strays are sessions, and stay strays of their terminals.
LEMMA StraysAre ==
  ASSUME HeldInv, KeptInv, NEW t, StaysBut(t)
  PROVE  /\ strays' \subseteq 1..Len(sess')
         /\ \A u : (\A s \in strays' : sess'[s].terminal # u) => \A s \in strays : sess[s].terminal # u
<1>1. Len(sess) \in Nat /\ strays \subseteq 1..Len(sess) BY KeptFacts DEF KeptInv
<1>2. 1..Len(sess) \subseteq 1..Len(sess') BY <1>1 DEF StaysBut
<1>3. strays' \subseteq 1..Len(sess') BY <1>1, <1>2 DEF StaysBut
<1>4. \A s \in strays : s \in strays' /\ sess'[s].terminal = sess[s].terminal BY <1>1 DEF StaysBut
<1> QED BY <1>3, <1>4

\* Terminals of which nothing moves but their events and processes.
LEMMA OthersKept ==
  ASSUME HeldInv, KeptInv, NEW t, StaysBut(t), NEW u \in Terminals, u # t,
         pending'[u] = pending[u], UNCHANGED <<doing, unwritten>>, histories'[u] = histories[u]
  PROVE  KeptFor(u)'
<1> SUFFICES ASSUME last'[u] # 0, Coming(u)', \A s \in strays' : sess'[s].terminal # u
             PROVE  Newest(u)' = sess'[last'[u]].history
  BY DEF KeptFor
<1>1. last'[u] = last[u] BY DEF StaysBut
<1>2. last[u] \in 1..Len(sess) /\ sess[last[u]].terminal = u BY <1>1, KeptFacts
<1>3. sess'[last[u]].history = sess[last[u]].history BY <1>2 DEF StaysBut
<1>4. \A s \in strays : sess[s].terminal # u BY StraysAre
<1>5. Coming(u) /\ Newest(u)' = Newest(u) BY DEF Coming, Newest
<1>6. KeptFor(u) BY DEF KeptInv
<1> QED BY <1>1, <1>3, <1>4, <1>5, <1>6 DEF KeptFor

\* The sessions, their order and the strays, but no history.
Quiet ==
  /\ \A t \in Terminals : StaysBut(t) /\ last'[t] = last[t]
  /\ StaysBut(None)
  /\ \A i \in 1..Len(sess) : sess'[i].history = sess[i].history
  /\ UNCHANGED persistWorker

\* A quiet step keeps every history that is kept.
LEMMA QuietKeeps ==
  ASSUME HeldInv, KeptInv, Quiet
  PROVE  KeptInv'
<1> SUFFICES ASSUME NEW u \in Terminals PROVE KeptFor(u)'
  BY StraysAre DEF KeptInv, Quiet
<1>0. StaysBut(u) /\ last'[u] = last[u] /\ UNCHANGED <<pending, doing, histories, unwritten>>
  BY DEF Quiet, persistWorker
<1> SUFFICES ASSUME last'[u] # 0, Coming(u)', \A s \in strays' : sess'[s].terminal # u
             PROVE  Newest(u)' = sess'[last'[u]].history
  BY DEF KeptFor
<1>2. last[u] \in 1..Len(sess) BY <1>0, KeptFacts
<1>3. sess'[last[u]].history = sess[last[u]].history BY <1>2 DEF Quiet
<1>4. \A s \in strays : sess[s].terminal # u BY <1>0, StraysAre
<1>5. Coming(u) /\ Newest(u)' = Newest(u) BY <1>0 DEF Coming, Newest
<1>6. KeptFor(u) BY DEF KeptInv
<1> QED BY <1>0, <1>3, <1>4, <1>5, <1>6 DEF KeptFor

\* The history of t that is queued for the disk is that of its last session,
\* or t has a stray.
LEMMA WriteKeeps ==
  ASSUME HeldInv, KeptInv, NEW t \in Terminals, NEW h \in Seq(Nat), StaysBut(t), Persist!Submit(t, h),
         UNCHANGED <<histories, unwritten>>,
         sess'[last'[t]].history = h \/ \E s \in strays : sess[s].terminal = t
  PROVE  KeptInv'
<1>1. WorkTyped BY HeldFacts
<1>2. /\ pending' = [pending EXCEPT ![t] = h] /\ UNCHANGED doing /\ pending \in [Terminals -> Seq(Nat) \cup {None}]
  BY <1>1 DEF Persist!Submit, WorkTyped
<1>3. strays' \subseteq 1..Len(sess') BY StraysAre
<1>4. KeptFor(t)'
  <2> SUFFICES ASSUME \A s \in strays' : sess'[s].terminal # t PROVE Newest(t)' = sess'[last'[t]].history
    BY DEF KeptFor
  <2>1. sess'[last'[t]].history = h BY StraysAre
  <2>2. pending'[t] = h /\ h # None BY <1>2
  <2> QED BY <2>1, <2>2 DEF Newest
<1>5. ASSUME NEW u \in Terminals, u # t PROVE KeptFor(u)'
  <2>1. pending'[u] = pending[u] /\ UNCHANGED <<doing, unwritten>> /\ histories'[u] = histories[u]
    BY <1>2, <1>5
  <2> QED BY <1>5, <2>1, OthersKept
<1> QED BY <1>3, <1>4, <1>5 DEF KeptInv

-----------------------------------------------------------------------------
(* What becomes of the sessions.                                           *)

\* Only sessions become strays.
LEMMA UpdateAdds ==
  ASSUME HeldInv', NEW ss, NEW m, NEW order, NEW out, Update(ss, m, order, out)
  PROVE  strays \subseteq strays' /\ strays' \subseteq strays \cup 1..Len(sess')
<1>1. \A th \in Owners : op'[th].next = "start" => op'[th].s \in 1..Len(sess')
  BY DEF HeldInv, OpsOK, OpOK
<1>2. strays' = strays \cup {m[t] : t \in {u \in out : \E th \in Owners :
                              op'[th].s = m[u] /\ op'[th].next = "start"}}
  BY DEF Update
<1> QED BY <1>1, <1>2

\* Session s becomes r.
Turns(s, r) ==
  /\ r \in Session /\ r.terminal = sess[s].terminal
  /\ \/ sess' = [sess EXCEPT ![s] = r] /\ UNCHANGED <<last, strays>>
     \/ StopWith(s, r) \/ TouchWith(s, r, TRUE) \/ TouchWith(s, r, FALSE)

\* What an update of one session does to the others, the map and the strays.
LEMMA TurnsTo ==
  ASSUME HeldInv, HeldInv', KeptInv, NEW s \in 1..Len(sess), NEW r, Turns(s, r)
  PROVE  /\ sess' = [sess EXCEPT ![s] = r] /\ last' = last /\ StaysBut(r.terminal)
         /\ Len(sess') = Len(sess) /\ sess'[s] = r /\ \A i \in 1..Len(sess) : i # s => sess'[i] = sess[i]
<1>1. sess' = [sess EXCEPT ![s] = r] /\ last' = last
      /\ strays \subseteq strays' /\ strays' \subseteq strays \cup 1..Len(sess')
  <2>1. CASE sess' = [sess EXCEPT ![s] = r] /\ UNCHANGED <<last, strays>>
    BY <2>1
  <2>2. CASE StopWith(s, r) \/ TouchWith(s, r, TRUE) \/ TouchWith(s, r, FALSE)
    <3>1. PICK order, out : Update([sess EXCEPT ![s] = r], map, order, out)
      <4>1. CASE StopWith(s, r) BY <4>1 DEF StopWith
      <4>2. CASE TouchWith(s, r, TRUE) BY <4>2 DEF TouchWith
      <4>3. CASE TouchWith(s, r, FALSE) BY <4>3 DEF TouchWith
      <4> QED BY <2>2, <4>1, <4>2, <4>3
    <3>2. strays \subseteq strays' /\ strays' \subseteq strays \cup 1..Len(sess') BY <3>1, UpdateAdds
    <3>3. sess' = [sess EXCEPT ![s] = r] /\ last' = [t \in Terminals |-> IF map[t] # 0 THEN map[t] ELSE last[t]]
      BY <3>1 DEF Update
    <3>4. last' = last BY <3>3, KeptFacts
    <3> QED BY <3>2, <3>3, <3>4
  <2> QED BY <2>1, <2>2 DEF Turns
<1>2. sess \in Seq(Session) /\ Len(sess) \in Nat BY HeldFacts
<1>3. Len(sess') = Len(sess) /\ sess'[s] = r /\ \A i \in 1..Len(sess) : i # s => sess'[i] = sess[i]
  BY <1>1, <1>2 DEF Turns
<1>4. r.terminal = sess[s].terminal BY DEF Turns
<1> QED BY <1>1, <1>2, <1>3, <1>4 DEF StaysBut

\* A session changes, and its history and the worker do not.
LEMMA TurnIsQuiet ==
  ASSUME HeldInv, HeldInv', KeptInv, NEW s \in 1..Len(sess), NEW r, Turns(s, r),
         r.history = sess[s].history, UNCHANGED persistWorker
  PROVE  KeptInv'
<1>1. /\ last' = last /\ StaysBut(r.terminal) /\ Len(sess') = Len(sess) /\ sess'[s] = r
      /\ \A i \in 1..Len(sess) : i # s => sess'[i] = sess[i]
  BY TurnsTo
<1>2. \A i \in 1..Len(sess) : sess'[i].history = sess[i].history BY <1>1
<1>3. \A t : StaysBut(t) BY <1>1, <1>2 DEF StaysBut
<1> QED BY <1>1, <1>2, <1>3, QuietKeeps DEF Quiet

\* No session changes.
LEMMA NothingIsQuiet ==
  ASSUME HeldInv, KeptInv, UNCHANGED <<sess, last, strays>>, UNCHANGED persistWorker
  PROVE  KeptInv'
<1>1. Len(sess) \in Nat BY KeptFacts
<1>2. \A t : StaysBut(t) BY <1>1 DEF StaysBut
<1> QED BY <1>2, QuietKeeps DEF Quiet

\* A session changes its history, which is queued for the disk.
LEMMA TurnIsWritten ==
  ASSUME HeldInv, HeldInv', KeptInv, NEW s \in 1..Len(sess), NEW r, Turns(s, r), NEW t \in Terminals,
         sess[s].terminal = t, NEW h, r.history = h, Held(map, sess, strays, s), Persist!Submit(t, h),
         UNCHANGED <<histories, unwritten>>
  PROVE  KeptInv'
<1>1. last' = last /\ StaysBut(t) /\ sess'[s] = r BY TurnsTo DEF Turns
<1>2. h \in Seq(Nat) BY DEF Turns, Session
<1>3. sess'[last'[t]].history = h \/ \E i \in strays : sess[i].terminal = t
  <2>1. CASE s \in strays BY <2>1
  <2>2. CASE map[t] = s
    <3>1. s # 0 BY KeptFacts
    <3>2. last[t] = s BY <2>2, <3>1, KeptFacts
    <3> QED BY <1>1, <3>2
  <2> QED BY <2>1, <2>2 DEF Held
<1> QED BY <1>1, <1>2, <1>3, WriteKeeps

\* A start, an interrupt.
LEMMA QuietOperationsKeep ==
  ASSUME HeldInv, HeldInv', KeptInv, NEW th \in Owners,
         \/ Persisted(th) \/ Spawned(th) \/ TerminalSpawnFails(th) \/ Interrupted(th)
  PROVE  KeptInv'
<1> DEFINE s == op[th].s
<1>1. OpOK(map, sess, strays, th, op[th]) BY HeldFacts
<1>2. ASSUME op[th].next = "start"
      PROVE  s \in 1..Len(sess) /\ sess[s] \in Session /\ s \in Nat
  BY <1>1, <1>2, HeldFacts DEF OpOK
<1>3. CASE Persisted(th)
  <2>1. UNCHANGED persistWorker BY <1>3 DEF Persisted, persistWorker
  <2>2. CASE op[th].next = "start" /\ TouchWith(s, Starting(sess[s]), FALSE)
    <3> DEFINE r == Starting(sess[s])
    <3>1. r \in Session /\ r.terminal = sess[s].terminal /\ r.history = sess[s].history
      BY <1>2, <2>2, SessionFields
    <3>2. Turns(s, r) BY <2>2, <3>1 DEF Turns
    <3> HIDE DEF r, s
    <3> QED BY <1>2, <2>1, <2>2, <3>1, <3>2, TurnIsQuiet
  <2>3. CASE UNCHANGED manager
    BY <2>1, <2>3, NothingIsQuiet DEF manager
  <2> QED BY <1>3, <2>2, <2>3 DEF Persisted
<1>4. CASE Spawned(th)
  <2> DEFINE r == [sess[s] EXCEPT !.status = "running", !.proc = Len(procs) + 1]
  <2>1. op[th].next = "start" /\ UNCHANGED persistWorker /\ TouchWith(s, r, FALSE)
    BY <1>1, <1>4 DEF Spawned, OpOK
  <2>2. Len(procs) + 1 \in Nat /\ sess[s] \in Session BY <1>2, <2>1, HeldFacts
  <2>3. r \in Session /\ r.terminal = sess[s].terminal /\ r.history = sess[s].history
    BY <2>2 DEF Session, Statuses
  <2>4. Turns(s, r) BY <2>1, <2>3 DEF Turns
  <2> HIDE DEF r, s
  <2> QED BY <1>2, <2>1, <2>3, <2>4, TurnIsQuiet
<1>5. CASE TerminalSpawnFails(th)
  <2> DEFINE e == [sess[s] EXCEPT !.status = "error"]
             r == Drained(e)
  <2>1. op[th].next = "start" /\ UNCHANGED persistWorker /\ TouchWith(s, r, TRUE)
    BY <1>1, <1>5 DEF TerminalSpawnFails, OpOK
  <2>2. sess[s] \in Session BY <1>2, <2>1
  <2>3. e \in Session /\ e.terminal = sess[s].terminal /\ e.history = sess[s].history
    BY <2>2 DEF Session, Statuses
  <2> HIDE DEF e
  <2>4. r \in Session /\ r.terminal = sess[s].terminal /\ r.history = sess[s].history
    BY <2>3, SessionFields
  <2>5. Turns(s, r) BY <2>1, <2>4 DEF Turns
  <2> HIDE DEF r, s
  <2> QED BY <1>2, <2>1, <2>4, <2>5, TurnIsQuiet
<1>6. CASE Interrupted(th)
  BY <1>6, NothingIsQuiet DEF Interrupted, manager
<1> QED BY <1>3, <1>4, <1>5, <1>6

\* open of a terminal without a session.
LEMMA OpenNewKeeps ==
  ASSUME HeldInv, KeptInv, NEW t \in Terminals, OpenNew(t)
  PROVE  KeptInv'
  BY NothingIsQuiet DEF OpenNew, manager

\* open of a session that has not been started.
LEMMA OpenUnstartedKeeps ==
  ASSUME HeldInv, HeldInv', KeptInv, NEW t \in Terminals, OpenUnstarted(t)
  PROVE  KeptInv'
<1> DEFINE s == map[t]
           r == Starting(sess[s])
<1>1. map[t] # 0 /\ TouchWith(s, r, FALSE) /\ UNCHANGED persistWorker BY DEF OpenUnstarted
<1>2. s \in 1..Len(sess) /\ sess[s] \in Session BY <1>1, HeldFacts
<1>3. r \in Session /\ r.terminal = sess[s].terminal /\ r.history = sess[s].history
  BY <1>2, SessionFields
<1>4. Turns(s, r) BY <1>1, <1>3 DEF Turns
<1> HIDE DEF r, s
<1> QED BY <1>1, <1>2, <1>3, <1>4, TurnIsQuiet

\* The session of a terminal becomes r, and r's history is written.
LEMMA MappedIsWritten ==
  ASSUME HeldInv, HeldInv', KeptInv, NEW t \in Terminals, NEW s, s = map[t], map[t] # 0, NEW r \in Session,
         r.terminal = t, NEW h, r.history = h, StopWith(s, r) \/ TouchWith(s, r, FALSE),
         Persist!Submit(t, h), UNCHANGED <<histories, unwritten>>
  PROVE  KeptInv'
<1>1. s \in 1..Len(sess) /\ sess[s].terminal = t BY HeldFacts
<1>2. Turns(s, r) BY <1>1 DEF Turns
<1>3. Held(map, sess, strays, s) BY <1>1 DEF Held
<1> QED BY <1>1, <1>2, <1>3, TurnIsWritten

\* What empties a history queues the empty one.
LEMMA EmptyingKeeps ==
  ASSUME HeldInv, HeldInv', KeptInv, NEW t \in Terminals, map[t] # 0,
         OpenAnew(t) \/ Clear(t) \/ RestartTerminal(t)
  PROVE  KeptInv'
<1> DEFINE s == map[t]
           r == Emptied(Stopped(sess[s]))
           c == Emptied(sess[s])
           h == << >>
<1>1. sess[s] \in Session /\ sess[s].terminal = t BY HeldFacts
<1>2. Stopped(sess[s]) \in Session /\ Stopped(sess[s]).terminal = t BY <1>1, SessionFields
<1>3. r \in Session /\ r.terminal = t /\ r.history = h BY <1>2, SessionFields
<1>4. c \in Session /\ c.terminal = t /\ c.history = h BY <1>1, SessionFields
<1>5. Persist!Submit(t, h) /\ UNCHANGED <<histories, unwritten>>
  BY DEF OpenAnew, Clear, RestartTerminal
<1>6. StopWith(s, r) \/ TouchWith(s, c, FALSE)
  BY DEF OpenAnew, Clear, RestartTerminal
<1> HIDE DEF r, c, h
<1>7. s = map[t] OBVIOUS
<1> HIDE DEF s
<1>8. CASE StopWith(s, r) BY ONLY HeldInv, HeldInv', KeptInv, t \in Terminals, map[t] # 0, <1>3, <1>5, <1>7, <1>8, MappedIsWritten
<1>9. CASE TouchWith(s, c, FALSE) BY ONLY HeldInv, HeldInv', KeptInv, t \in Terminals, map[t] # 0, <1>4, <1>5, <1>7, <1>9, MappedIsWritten
<1> QED BY <1>6, <1>8, <1>9

\* A close queues the history once more.
LEMMA CloseSessionKeeps ==
  ASSUME HeldInv, HeldInv', KeptInv, NEW th, NEW t \in Terminals, NEW left, NEW targets,
         CloseSession(th, t, left, targets), UNCHANGED <<histories, unwritten>>
  PROVE  KeptInv'
<1>1. CASE map[t] = 0
  <2>1. UNCHANGED <<manager, pending, doing>> BY <1>1 DEF CloseSession
  <2> QED BY <2>1, NothingIsQuiet DEF manager, persistWorker
<1>2. CASE map[t] # 0
  <2> DEFINE s == map[t]
             r == Stopped(sess[s])
             h == sess[s].history
  <2>1. StopWith(s, r) /\ Persist!Submit(t, h) BY <1>2 DEF CloseSession
  <2>2. sess[s] \in Session /\ sess[s].terminal = t BY <1>2, HeldFacts
  <2>3. r \in Session /\ r.terminal = t /\ r.history = h BY <2>2, SessionFields
  <2>4. s = map[t] OBVIOUS
  <2> HIDE DEF s, r, h
  <2> QED BY <1>2, <2>1, <2>3, <2>4, MappedIsWritten
<1> QED BY <1>1, <1>2

\* close, of a terminal or a thread.
LEMMA ClosingKeeps ==
  ASSUME HeldInv, HeldInv', KeptInv, NEW th \in Owners,
         (\E t \in Terminals : Close(t)) \/ CloseThread(th) \/ CloseNext(th)
  PROVE  KeptInv'
<1>1. UNCHANGED <<histories, unwritten>> BY DEF Close, CloseThread, CloseNext
<1>2. CASE \E t \in Terminals : Close(t) BY <1>1, <1>2, CloseSessionKeeps DEF Close
<1>3. CASE CloseThread(th)
  <2>1. CASE UNCHANGED <<manager, pending, doing>>
    BY <1>1, <2>1, NothingIsQuiet DEF manager, persistWorker
  <2>2. CASE \E t \in Terminals : \E left, targets : CloseSession(th, t, left, targets)
    BY <1>1, <2>2, CloseSessionKeeps
  <2> QED BY <1>3, <2>1, <2>2 DEF CloseThread
<1>4. CASE CloseNext(th)
  <2>1. op[th] \in Operations BY HeldFacts
  <2>2. op[th].left \subseteq Terminals BY <2>1 DEF Operations
  <2> QED BY <1>1, <1>4, <2>2, CloseSessionKeeps DEF CloseNext
<1> QED BY <1>2, <1>3, <1>4

\* A new session becomes the last of its terminal.
LEMMA AddedIsLast ==
  ASSUME HeldInv, HeldInv', KeptInv, NEW t \in Terminals, NEW r \in Session, r.terminal = t,
         NEW tt, tt = Append(sess, r), NEW m, m = [map EXCEPT ![t] = Len(tt)], NEW order, NEW out,
         Update(tt, m, order, out)
  PROVE  StaysBut(t) /\ sess'[last'[t]] = r
<1>1. sess \in Seq(Session) /\ Len(sess) \in Nat /\ map \in [Terminals -> 0..Len(sess)] BY HeldFacts
<1>2. /\ sess' = tt /\ last' = [u \in Terminals |-> IF m[u] # 0 THEN m[u] ELSE last[u]]
      /\ strays \subseteq strays' /\ strays' \subseteq strays \cup 1..Len(sess')
  <2>1. sess' = tt /\ last' = [u \in Terminals |-> IF m[u] # 0 THEN m[u] ELSE last[u]]
    BY DEF Update
  <2>2. Update(tt, m, order, out) OBVIOUS
  <2> QED BY ONLY HeldInv', <2>1, <2>2, UpdateAdds
<1>3. /\ Len(tt) = Len(sess) + 1 /\ tt[Len(tt)] = r /\ \A i \in 1..Len(sess) : tt[i] = sess[i]
  BY <1>1
<1>4. last'[t] = Len(tt) BY <1>1, <1>2, <1>3
<1>5. \A u \in Terminals : u # t => last'[u] = last[u] BY <1>1, <1>2, KeptFacts
<1> QED BY <1>1, <1>2, <1>3, <1>4, <1>5 DEF StaysBut

\* restart without a session queues an empty history.
LEMMA RestartNewKeeps ==
  ASSUME HeldInv, HeldInv', KeptInv, NEW t \in Terminals, map[t] = 0, RestartTerminal(t)
  PROVE  KeptInv'
<1> DEFINE h == << >>
           r == Fresh(t, h)
           tt == Append(sess, r)
           m == [map EXCEPT ![t] = Len(tt)]
           order == Touched(recent, t)
           out == TooMany(tt, m, order)
<1>1. Update(tt, m, order, out) /\ Persist!Submit(t, h) /\ UNCHANGED <<histories, unwritten>>
  BY DEF RestartTerminal
<1>2. h \in Seq(Nat) OBVIOUS
<1>3. r \in Session /\ r.terminal = t /\ r.history = h BY <1>2, FreshFields
<1> HIDE DEF h, r
<1>4. tt = Append(sess, r) /\ m = [map EXCEPT ![t] = Len(tt)] OBVIOUS
<1> HIDE DEF tt, m, order, out
<1>5. StaysBut(t) /\ sess'[last'[t]] = r
  BY ONLY HeldInv, HeldInv', KeptInv, t \in Terminals, <1>1, <1>3, <1>4, AddedIsLast
<1>6. sess'[last'[t]].history = h BY <1>3, <1>5
<1> QED BY ONLY HeldInv, KeptInv, t \in Terminals, <1>1, <1>2, <1>5, <1>6, WriteKeeps

\* The file that is read is the newest, once there is nothing to write.
LEMMA OpenReadKeeps ==
  ASSUME HeldInv, HeldInv', KeptInv, NEW th \in Owners, OpenRead(th)
  PROVE  KeptInv'
<1> DEFINE t == op[th].t
           h == HistoryRead(t)
           r == Fresh(t, h)
           tt == Append(sess, r)
           m == [map EXCEPT ![t] = Len(tt)]
           order == Touched(recent, t)
           out == TooMany(tt, m, order)
<1>1. /\ op[th].at = "flush" /\ Flushed(t) /\ Update(tt, m, order, out)
      /\ UNCHANGED <<procs, fibers, discarded, persistWorker, counts>>
  BY DEF OpenRead
<1>2. t \in Terminals BY <1>1, HeldFacts DEF OpOK
<1>3. h \in Seq(Nat) /\ h = histories[t] BY <1>2, HeldFacts DEF HistoryRead, WorkTyped
<1> HIDE DEF h, t
<1>4. r \in Session /\ r.terminal = t /\ r.history = h BY <1>2, <1>3, FreshFields
<1> HIDE DEF r
<1>5. tt = Append(sess, r) /\ m = [map EXCEPT ![t] = Len(tt)] OBVIOUS
<1> HIDE DEF tt, m, order, out
<1>6. StaysBut(t) /\ sess'[last'[t]] = r
  BY ONLY HeldInv, HeldInv', KeptInv, <1>1, <1>2, <1>4, <1>5, AddedIsLast
<1>7. UNCHANGED <<pending, doing, histories, unwritten>> BY <1>1 DEF persistWorker
<1>8. ASSUME NEW u \in Terminals PROVE KeptFor(u)'
  <2>1. CASE u = t
    <3>1. pending'[u] = None /\ ~(doing' # << >> /\ doing'[1] = u) /\ histories'[u] = h
      BY <1>1, <1>3, <1>7, <2>1 DEF Flushed
    <3>2. sess'[last'[u]].history = h BY <1>4, <1>6, <2>1
    <3> QED BY <3>1, <3>2 DEF KeptFor, Newest
  <2>2. CASE u # t
    <3>1. pending'[u] = pending[u] /\ UNCHANGED <<doing, unwritten>> /\ histories'[u] = histories[u] BY <1>7
    <3> QED BY ONLY HeldInv, KeptInv, u \in Terminals, <1>6, <2>2, <3>1, OthersKept
  <2> QED BY <2>1, <2>2
<1> QED BY <1>6, <1>8, StraysAre DEF KeptInv

\* A session that leaves the map stays the last of its terminal.
LEMMA CloseRemovesKeeps ==
  ASSUME HeldInv, HeldInv', KeptInv, NEW th, CloseRemoves(th)
  PROVE  KeptInv'
<1>1. Update(sess, map, recent, {op[th].t}) /\ UNCHANGED persistWorker BY DEF CloseRemoves
<1>2. /\ sess' = sess /\ last' = [t \in Terminals |-> IF map[t] # 0 THEN map[t] ELSE last[t]]
      /\ strays \subseteq strays' /\ strays' \subseteq strays \cup 1..Len(sess')
  <2>1. sess' = sess /\ last' = [t \in Terminals |-> IF map[t] # 0 THEN map[t] ELSE last[t]]
    BY <1>1 DEF Update
  <2> QED BY ONLY HeldInv', <1>1, <2>1, UpdateAdds
<1>3. last' = last /\ Len(sess) \in Nat BY <1>2, KeptFacts
<1>4. \A t : StaysBut(t) BY <1>2, <1>3 DEF StaysBut
<1> QED BY <1>1, <1>2, <1>3, <1>4, QuietKeeps DEF Quiet

\* Of a history that is deleted, nothing is promised.
LEMMA CloseDeletesKeeps ==
  ASSUME HeldInv, KeptInv, NEW th \in Owners, CloseDeletes(th)
  PROVE  KeptInv'
<1>1. UNCHANGED <<sess, strays, pending, doing, unwritten>> BY DEF CloseDeletes
<1>2. PICK deleted :
        /\ histories' = [t \in Terminals |-> IF t \in deleted THEN << >> ELSE histories[t]]
        /\ last' = [t \in Terminals |-> IF t \in deleted THEN 0 ELSE last[t]]
  BY DEF CloseDeletes
<1>3. ASSUME NEW u \in Terminals PROVE KeptFor(u)'
  <2>1. CASE u \in deleted BY <1>2, <2>1 DEF KeptFor
  <2>2. CASE u \notin deleted
    BY <1>1, <1>2, <2>2 DEF KeptInv, KeptFor, Coming, Newest
  <2> QED BY <2>1, <2>2
<1> QED BY <1>1, <1>3 DEF KeptInv

\* Queued events are in no history.
LEMMA EventsKeep ==
  ASSUME HeldInv, HeldInv', KeptInv, NEW p \in 1..Len(procs), Outputs(p) \/ Exits(p)
  PROVE  KeptInv'
<1> DEFINE s == procs[p].session
<1>1. PICK e \in Nat : Queued(p, e)
  <2>1. CASE Outputs(p)
    <3>1. counts \in [ops : Nat, outputs : Nat, faults : Nat] BY HeldFacts DEF WorkTyped
    <3> QED BY <2>1, <3>1 DEF Outputs
  <2>2. CASE Exits(p) BY <2>2 DEF Exits, Exit
  <2> QED BY <2>1, <2>2
<1> DEFINE a == Append(sess[s].events, e)
           r == [sess[s] EXCEPT !.events = a, !.draining = TRUE]
<1>2. sess' = [sess EXCEPT ![s] = r] /\ UNCHANGED <<last, strays>> /\ UNCHANGED persistWorker
  BY <1>1 DEF Queued
<1>3. s \in 1..Len(sess) BY DEF HeldInv, ProcsOK
<1>4. sess[s] \in Session BY <1>3, HeldFacts
<1>5. sess[s].events \in Seq(Nat) BY <1>4 DEF Session
<1>6. a \in Seq(Nat) BY <1>5
<1> HIDE DEF a
<1>7. r \in Session /\ r.terminal = sess[s].terminal /\ r.history = sess[s].history
  BY <1>4, <1>6 DEF Session
<1>8. Turns(s, r) BY <1>2, <1>7 DEF Turns
<1> HIDE DEF s, r
<1> QED BY <1>2, <1>3, <1>7, <1>8, TurnIsQuiet

\* A drain appends to the history what it queues.
LEMMA DrainKeeps ==
  ASSUME HeldInv, HeldInv', KeptInv, NEW s, NEW p, Drain(s, p)
  PROVE  KeptInv'
<1>1. <<s, p>> \in fibers BY DEF Drain, DrainIdles, DrainOutput, DrainExit
<1>2. /\ s \in 1..Len(sess) /\ p # 0 /\ sess[s] \in Session /\ SessionOK(map, sess, procs, strays, s)
      /\ sess[s].events \in Seq(Nat) /\ sess[s].history \in Seq(Nat) /\ sess[s].terminal \in Terminals
  BY <1>1, DrainFacts
<1>3. CASE DrainIdles(s, p)
  <2> DEFINE r == Drained(sess[s])
  <2>1. sess' = [sess EXCEPT ![s] = r] /\ UNCHANGED <<last, strays>> /\ UNCHANGED persistWorker
    BY <1>3 DEF DrainIdles
  <2>2. r \in Session /\ r.terminal = sess[s].terminal /\ r.history = sess[s].history
    BY <1>2, SessionFields
  <2>3. Turns(s, r) BY <2>1, <2>2 DEF Turns
  <2> HIDE DEF r
  <2> QED BY <1>2, <2>1, <2>2, <2>3, TurnIsQuiet
<1>4. CASE DrainExit(s, p)
  <2> DEFINE r == Stopped(sess[s])
  <2>1. TouchWith(s, r, TRUE) /\ UNCHANGED persistWorker
    BY <1>4 DEF DrainExit
  <2>2. r \in Session /\ r.terminal = sess[s].terminal /\ r.history = sess[s].history
    BY <1>2, SessionFields
  <2>3. Turns(s, r) BY <2>1, <2>2 DEF Turns
  <2> HIDE DEF r
  <2> QED BY <1>2, <2>1, <2>2, <2>3, TurnIsQuiet
<1>5. CASE DrainOutput(s, p)
  <2> DEFINE r == [sess[s] EXCEPT !.events = Tail(@)]
             h == Append(sess[s].history, Head(sess[s].events))
             t == sess[s].terminal
             r2 == [r EXCEPT !.history = h]
  <2>1. /\ sess[s].proc = p /\ sess[s].events # << >> /\ UNCHANGED <<histories, unwritten>>
        /\ \/ TouchWith(s, r2, FALSE) /\ Persist!Submit(t, h)
           \/ TouchWith(s, r, FALSE) /\ UNCHANGED <<pending, doing>>
    BY <1>5 DEF DrainOutput, HasProcess
  <2>2. Tail(sess[s].events) \in Seq(Nat) /\ h \in Seq(Nat) BY <1>2, <2>1
  <2> HIDE DEF h
  <2>3. r \in Session /\ r.terminal = t /\ r.history = sess[s].history
    BY <1>2, <2>2 DEF Session
  <2> HIDE DEF r
  <2>4. r2 \in Session /\ r2.terminal = t /\ r2.history = h
    BY <2>2, <2>3 DEF Session
  <2> HIDE DEF r2
  <2>5. Held(map, sess, strays, s) BY <1>2, <2>1 DEF SessionOK
  <2>6. CASE TouchWith(s, r2, FALSE) /\ Persist!Submit(t, h)
    <3>1. Turns(s, r2) BY <2>4, <2>6 DEF Turns
    <3>2. sess[s].terminal = t OBVIOUS
    <3> HIDE DEF t
    <3> QED BY ONLY HeldInv, HeldInv', KeptInv, <1>2, <2>1, <2>4, <2>5, <2>6, <3>1, <3>2, TurnIsWritten
  <2>7. CASE TouchWith(s, r, FALSE) /\ UNCHANGED <<pending, doing>>
    <3>1. Turns(s, r) BY <2>3, <2>7 DEF Turns
    <3>2. UNCHANGED persistWorker BY <2>1, <2>7 DEF persistWorker
    <3> QED BY <1>2, <2>3, <3>1, <3>2, TurnIsQuiet
  <2> QED BY <2>1, <2>6, <2>7
<1> QED BY <1>3, <1>4, <1>5 DEF Drain

\* The worker: what is newest stays so, unless a write failed and nothing waits.
LEMMA PersistKeeps ==
  ASSUME HeldInv, KeptInv, PersistStarts \/ PersistWrites
  PROVE  KeptInv'
<1>1. WorkTyped BY HeldFacts
<1>2. UNCHANGED <<sess, last, strays>> BY DEF PersistStarts, PersistWrites, manager
<1> SUFFICES ASSUME NEW u \in Terminals PROVE KeptFor(u)'
  BY <1>2 DEF KeptInv
<1> SUFFICES ASSUME Coming(u)' PROVE Coming(u) /\ Newest(u)' = Newest(u)
  BY <1>2 DEF KeptInv, KeptFor
<1>3. pending \in [Terminals -> Seq(Nat) \cup {None}] BY <1>1 DEF WorkTyped
<1>4. CASE PersistStarts
  <2>1. PICK t \in Terminals : Persist!Start(t) BY <1>4 DEF PersistStarts
  <2>2. /\ doing = << >> /\ pending[t] # None /\ doing' = <<t, pending[t]>>
        /\ pending' = [pending EXCEPT ![t] = None] /\ UNCHANGED <<histories, unwritten>>
    BY <1>4, <2>1 DEF PersistStarts, Persist!Start
  <2>3. pending'[t] = None /\ doing' # << >> /\ doing'[1] = t /\ doing'[2] = pending[t]
    BY <1>3, <2>2
  <2>4. CASE u = t BY <2>2, <2>3, <2>4 DEF Coming, Newest
  <2>5. CASE u # t
    <3>1. pending'[u] = pending[u] BY <1>3, <2>2, <2>5
    <3> QED BY <2>2, <2>3, <2>5, <3>1 DEF Coming, Newest
  <2> QED BY <2>4, <2>5
<1>5. CASE PersistWrites
  <2> DEFINE t == doing[1]
             v == doing[2]
  <2>1. doing # << >> /\ t \in Terminals /\ histories \in [Terminals -> Seq(Nat)]
    BY <1>1, <1>5 DEF PersistWrites, WorkTyped
  <2>2. \/ histories' = [histories EXCEPT ![t] = v] /\ unwritten' = unwritten \ {t}
        \/ unwritten' = unwritten \cup {t} /\ UNCHANGED histories
    BY <1>5 DEF PersistWrites
  <2>3. CASE pending[t] # None
    <3>1. /\ doing' = <<t, pending[t]>> /\ pending' = [pending EXCEPT ![t] = None]
      BY <1>5, <2>3 DEF PersistWrites, Persist!GoOn
    <3>2. pending'[t] = None /\ doing' # << >> /\ doing'[1] = t /\ doing'[2] = pending[t]
      BY <1>3, <2>1, <3>1
    <3> HIDE DEF t, v
    <3>3. CASE u = t BY <2>3, <3>2, <3>3 DEF Coming, Newest
    <3>4. CASE u # t
      <4>1. pending'[u] = pending[u] /\ histories'[u] = histories[u] /\ (u \in unwritten' <=> u \in unwritten)
        BY <1>3, <2>1, <2>2, <3>1, <3>4
      <4> QED BY <3>2, <3>4, <4>1 DEF Coming, Newest, t
    <3> QED BY <3>3, <3>4
  <2>4. CASE pending[t] = None
    <3>1. doing' = << >> /\ UNCHANGED pending
      BY <1>5, <2>4 DEF PersistWrites, Persist!Finish
    <3>2. CASE u = t
      <4>1. u \notin unwritten' BY <2>4, <3>1, <3>2 DEF Coming
      <4>2. histories'[u] = v BY <2>1, <2>2, <3>2, <4>1
      <4> QED BY <2>1, <2>4, <3>1, <3>2, <4>2 DEF Coming, Newest
    <3>3. CASE u # t
      <4>1. histories'[u] = histories[u] /\ (u \in unwritten' <=> u \in unwritten)
        BY <2>1, <2>2, <3>3
      <4> QED BY <3>1, <3>3, <4>1 DEF Coming, Newest
    <3> QED BY <3>2, <3>3
  <2> QED BY <2>3, <2>4
<1> QED BY <1>4, <1>5

-----------------------------------------------------------------------------
\* At first the history on disk is that of the session.
LEMMA KeptInit ==
  ASSUME TerminalsInit
  PROVE  KeptInv
<1>1. HeldInv BY HeldInit
<1>2. /\ strays = {} /\ doing = << >> /\ pending = [t \in Terminals |-> None]
      /\ histories = [t \in Terminals |-> <<0>>]
      /\ \A i \in 1..Len(Opened) : sess[i].history = <<0>>
  BY DEF TerminalsInit, Persist!Init, Fresh
<1>3. Len(sess) = Len(Opened)
  <2>1. DOMAIN sess = 1..Len(Opened) BY DEF TerminalsInit
  <2> QED BY <1>1, <2>1, HeldFacts
<1> QED BY <1>1, <1>2, <1>3, KeptFacts DEF KeptInv, KeptFor, Newest

\* Every step keeps what is queued, being written or there.
LEMMA KeptNext ==
  ASSUME HeldInv, HeldInv', KeptInv, [TerminalsNext]_terminalVars
  PROVE  KeptInv'
<1>1. CASE UNCHANGED terminalVars
  BY <1>1, NothingIsQuiet DEF terminalVars, manager
<1>2. ASSUME NEW t \in Terminals,
             OpenNew(t) \/ OpenAnew(t) \/ OpenUnstarted(t) \/ Clear(t) \/ RestartTerminal(t) \/ Close(t)
      PROVE  KeptInv'
  <2>1. CASE OpenNew(t) BY <2>1, OpenNewKeeps
  <2>2. CASE OpenUnstarted(t) BY <2>2, OpenUnstartedKeeps
  <2>3. CASE OpenAnew(t) \/ Clear(t) BY <2>3, EmptyingKeeps DEF OpenAnew, Clear
  <2>4. CASE RestartTerminal(t) BY <2>4, EmptyingKeeps, RestartNewKeeps
  <2>5. CASE Close(t)
    <3>1. Thread[t] \in Owners BY HeldFacts
    <3> QED BY <2>5, <3>1, ClosingKeeps
  <2> QED BY <1>2, <2>1, <2>2, <2>3, <2>4, <2>5
<1>3. ASSUME NEW th \in Owners, CloseThread(th) \/ Operation(th) \/ Interrupted(th)
      PROVE  KeptInv'
  BY <1>3, QuietOperationsKeep, ClosingKeeps, OpenReadKeeps, CloseRemovesKeeps, CloseDeletesKeeps DEF Operation
<1>4. ASSUME NEW p \in 1..Len(procs), Outputs(p) \/ Exits(p)
      PROVE  KeptInv'
  BY <1>4, EventsKeep
<1>5. ASSUME NEW f \in fibers, Drain(f[1], f[2])
      PROVE  KeptInv'
  BY <1>5, DrainKeeps
<1>6. CASE PersistStarts \/ PersistWrites
  BY <1>6, PersistKeeps
<1> QED BY <1>1, <1>2, <1>3, <1>4, <1>5, <1>6 DEF TerminalsNext, Drains

\* The history of a terminal's last session is queued for the disk, being
\* written or there, unless its last write failed or it has a stray.
THEOREM HistoriesAreKept == TerminalsSpec => []HistoryIsKept
<1>1. KeptInv => HistoryIsKept
  BY DEF KeptInv, KeptFor, Coming, HistoryIsKept
<1>2. TerminalsSpec => []KeptInv
  <2>1. TerminalsInit => KeptInv BY KeptInit
  <2>2. HeldInv /\ HeldInv' /\ KeptInv /\ [TerminalsNext]_terminalVars => KeptInv' BY KeptNext
  <2> QED BY <2>1, <2>2, HeldInvariant, PTL DEF TerminalsSpec
<1> QED BY <1>1, <1>2, PTL

-----------------------------------------------------------------------------
(* The persist worker.                                                     *)

\* A history is handed to the worker, or it is left alone.
WorkerSteps == (\E t \in Terminals, h \in Seq(Nat) : Persist!Submit(t, h)) \/ UNCHANGED <<pending, doing>>

\* open, clear and restart.
LEMMA OperationsSubmit ==
  ASSUME HeldInv, NEW t \in Terminals,
         OpenNew(t) \/ OpenAnew(t) \/ OpenUnstarted(t) \/ Clear(t) \/ RestartTerminal(t)
  PROVE  WorkerSteps
<1>1. << >> \in Seq(Nat) OBVIOUS
<1>2. CASE OpenNew(t) \/ OpenUnstarted(t)
  BY <1>2 DEF OpenNew, OpenUnstarted, persistWorker, WorkerSteps
<1>3. CASE OpenAnew(t) \/ Clear(t) \/ RestartTerminal(t)
  <2>1. Persist!Submit(t, << >>) BY <1>3 DEF OpenAnew, Clear, RestartTerminal
  <2> QED BY <1>1, <2>1 DEF WorkerSteps
<1> QED BY <1>2, <1>3

\* A close hands over the history there is.
LEMMA CloseSubmits ==
  ASSUME HeldInv, NEW th, NEW t \in Terminals, NEW left, NEW targets, CloseSession(th, t, left, targets)
  PROVE  WorkerSteps
<1>1. CASE map[t] = 0 BY <1>1 DEF CloseSession, WorkerSteps
<1>2. CASE map[t] # 0
  <2>1. Persist!Submit(t, sess[map[t]].history) BY <1>2 DEF CloseSession
  <2>2. sess[map[t]] \in Session BY <1>2, HeldFacts
  <2>3. sess[map[t]].history \in Seq(Nat) BY <2>2 DEF Session
  <2> QED BY <2>1, <2>3 DEF WorkerSteps
<1> QED BY <1>1, <1>2

\* close, of a terminal or a thread.
LEMMA ClosesSubmit ==
  ASSUME HeldInv, NEW th \in Owners, (\E t \in Terminals : Close(t)) \/ CloseThread(th) \/ CloseNext(th)
  PROVE  WorkerSteps
<1>1. CASE \E t \in Terminals : Close(t) BY <1>1, CloseSubmits DEF Close
<1>2. CASE CloseThread(th)
  <2>1. CASE UNCHANGED <<manager, pending, doing>> BY <2>1 DEF WorkerSteps
  <2>2. CASE \E t \in Terminals : \E left, targets : CloseSession(th, t, left, targets)
    BY <2>2, CloseSubmits
  <2> QED BY <1>2, <2>1, <2>2 DEF CloseThread
<1>3. CASE CloseNext(th)
  <2>1. op[th] \in Operations BY HeldFacts
  <2>2. op[th].left \subseteq Terminals BY <2>1 DEF Operations
  <2> QED BY <1>3, <2>2, CloseSubmits DEF CloseNext
<1> QED BY <1>1, <1>2, <1>3

\* A drain hands over the history with the output.
LEMMA DrainsSubmit ==
  ASSUME HeldInv, NEW s, NEW p, Drain(s, p)
  PROVE  WorkerSteps
<1>1. CASE DrainIdles(s, p) \/ DrainExit(s, p)
  BY <1>1 DEF DrainIdles, DrainExit, persistWorker, WorkerSteps
<1>2. CASE DrainOutput(s, p)
  <2> DEFINE h == Append(sess[s].history, Head(sess[s].events))
             t == sess[s].terminal
  <2>1. /\ <<s, p>> \in fibers /\ sess[s].events # << >>
        /\ Persist!Submit(t, h) \/ UNCHANGED <<pending, doing>>
    BY <1>2 DEF DrainOutput
  <2>2. sess[s].events \in Seq(Nat) /\ sess[s].history \in Seq(Nat) /\ t \in Terminals BY <2>1, DrainFacts
  <2>3. h \in Seq(Nat) BY <2>1, <2>2
  <2> HIDE DEF h, t
  <2> QED BY <2>1, <2>2, <2>3 DEF WorkerSteps
<1> QED BY <1>1, <1>2 DEF Drain

\* The terminals drive the worker as its callers may: the histories are
\* submitted, started, gone on with and finished as CoalescingWork says.
THEOREM TerminalsImplementCoalescingWork == TerminalsSpec => Persist!Spec
<1>1. TerminalsInit => Persist!Init BY DEF TerminalsInit
<1>2. HeldInv /\ [TerminalsNext]_terminalVars => [Persist!Next]_<<pending, doing>>
  <2> SUFFICES ASSUME HeldInv, [TerminalsNext]_terminalVars PROVE Persist!Next \/ UNCHANGED <<pending, doing>>
    OBVIOUS
  <2>0. WorkerSteps => Persist!Next \/ UNCHANGED <<pending, doing>>
    BY DEF WorkerSteps, Persist!Next
  <2>1. CASE UNCHANGED terminalVars BY <2>1 DEF terminalVars, persistWorker
  <2>2. ASSUME NEW t \in Terminals,
               OpenNew(t) \/ OpenAnew(t) \/ OpenUnstarted(t) \/ Clear(t) \/ RestartTerminal(t) \/ Close(t)
        PROVE  WorkerSteps
    <3>1. Thread[t] \in Owners BY HeldFacts
    <3> QED BY <2>2, <3>1, OperationsSubmit, ClosesSubmit
  <2>3. ASSUME NEW th \in Owners, CloseThread(th) \/ Operation(th) \/ Interrupted(th)
        PROVE  WorkerSteps
    <3>1. CASE CloseThread(th) \/ CloseNext(th) BY <3>1, ClosesSubmit
    <3>2. CASE Interrupted(th) BY <3>2 DEF Interrupted, persistWorker, WorkerSteps
    <3>3. CASE OpenRead(th) \/ Persisted(th) \/ Spawned(th) \/ TerminalSpawnFails(th) \/ CloseRemoves(th) \/ CloseDeletes(th)
      BY <3>3 DEF OpenRead, Persisted, Spawned, TerminalSpawnFails, CloseRemoves, CloseDeletes, persistWorker, WorkerSteps
    <3> QED BY <2>3, <3>1, <3>2, <3>3 DEF Operation
  <2>4. ASSUME NEW p \in 1..Len(procs), Outputs(p) \/ Exits(p)
        PROVE  WorkerSteps
    BY <2>4 DEF Outputs, Exits, Queued, persistWorker, WorkerSteps
  <2>5. ASSUME NEW f \in fibers, Drain(f[1], f[2])
        PROVE  WorkerSteps
    BY <2>5, DrainsSubmit
  <2>6. CASE PersistStarts BY <2>6 DEF PersistStarts, Persist!Next, Persist!Step
  <2>7. CASE PersistWrites BY <2>7 DEF PersistWrites, Persist!Next, Persist!Step
  <2> QED BY <2>0, <2>1, <2>2, <2>3, <2>4, <2>5, <2>6, <2>7 DEF TerminalsNext, Drains
<1> QED BY <1>1, <1>2, HeldInvariant, PTL DEF TerminalsSpec, Persist!Spec, Persist!work
=============================================================================
