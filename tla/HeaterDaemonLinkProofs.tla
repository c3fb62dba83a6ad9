----------------------- MODULE HeaterDaemonLinkProofs -----------------------
(***************************************************************************)
(* HeaterDaemon implements SerialLink, for any set of clients: every step  *)
(* of the daemon is a step of the one line at the link, or leaves the line *)
(* and the answers alone.                                                  *)
(***************************************************************************)
EXTENDS HeaterDaemonDataProofs, HeaterDaemonLink, SequenceTheorems

-----------------------------------------------------------------------------
(* A lock that serves: its holder is inside what it protects, and those    *)
(* who wait for it are those in its queue, each of them once.              *)
Served(l, inside, waiting) ==
    /\ Locked(l) => l.holder \in inside
    /\ \A i \in DOMAIN l.waiters : l.waiters[i] \in waiting
    /\ \A t \in waiting : \E i \in DOMAIN l.waiters : l.waiters[i] = t
    /\ \A i, j \in DOMAIN l.waiters : l.waiters[i] = l.waiters[j] => i = j

(* What asyncio.Lock does to it. *)

LEMMA ServedFree ==
    ASSUME NEW inside
    PROVE  Served(FreeLock, inside, {})
  BY DEF Served, FreeLock, Locked

LEMMA ServedAcquired ==
    ASSUME NEW l \in LockOf(Tasks), NEW inside, NEW waiting,
           Served(l, inside, waiting), Available(l),
           NEW later, NEW t \in later
    PROVE  Served(Acquired(l, t), later, waiting)
  BY DEF LockOf, Served, Available, Acquired

LEMMA ServedEnqueued ==
    ASSUME NEW l \in LockOf(Tasks), NEW inside, NEW waiting,
           Served(l, inside, waiting),
           NEW later, l.holder \in inside => l.holder \in later,
           NEW t \in Tasks \ waiting, NEW queue, queue = waiting \cup {t}
    PROVE  Served(Enqueued(l, t), later, queue)
  <1> DEFINE w == l.waiters
             v == Enqueued(l, t).waiters
  <1>1. /\ Enqueued(l, t).holder = l.holder
        /\ v = Append(w, t) /\ w \in Seq(Tasks)
    BY DEF LockOf, Enqueued
  <1>2. /\ \A i \in DOMAIN w : w[i] \in waiting
        /\ \A u \in waiting : \E i \in DOMAIN w : w[i] = u
        /\ \A i, j \in DOMAIN w : w[i] = w[j] => i = j
        /\ Locked(l) => l.holder \in inside
    BY DEF Served
  <1>3. Locked(Enqueued(l, t)) => Enqueued(l, t).holder \in later
    BY <1>1, <1>2 DEF Locked
  <1> HIDE DEF w, v
  <1>4. /\ DOMAIN w = 1 .. Len(w) /\ Len(w) \in Nat
        /\ DOMAIN v = 1 .. Len(w) + 1
        /\ \A i \in 1 .. Len(w) : v[i] = w[i]
        /\ v[Len(w) + 1] = t
    BY <1>1, AppendProperties, LenProperties
  <1>5. /\ \A i \in DOMAIN v : v[i] \in queue
        /\ \A i, j \in DOMAIN v : v[i] = v[j] => i = j
    BY <1>2, <1>4
  <1>6. ASSUME NEW u \in queue
        PROVE  \E i \in DOMAIN v : v[i] = u
    <2>1. CASE u = t
      BY <1>4, <2>1
    <2>2. CASE u \in waiting
      <3>1. PICK i \in DOMAIN w : w[i] = u
        BY <1>2, <2>2
      <3> QED
        BY <1>4, <3>1
    <2> QED
      BY <2>1, <2>2
  <1> QED
    BY <1>3, <1>5, <1>6 DEF Served, v

LEMMA ServedResumed ==
    ASSUME NEW l \in LockOf(Tasks), NEW inside, NEW waiting,
           Served(l, inside, waiting),
           NEW later, NEW t \in later, Woken(l, t),
           NEW queue, queue = waiting \ {t}
    PROVE  Served(Resumed(l, t), later, queue)
  <1> DEFINE w == l.waiters
             v == Resumed(l, t).waiters
  <1>1. /\ Resumed(l, t).holder = t
        /\ v = Tail(w) /\ w \in Seq(Tasks) /\ w # << >> /\ Head(w) = t
    BY DEF LockOf, Resumed, Woken
  <1>2. /\ \A i \in DOMAIN w : w[i] \in waiting
        /\ \A u \in waiting : \E i \in DOMAIN w : w[i] = u
        /\ \A i, j \in DOMAIN w : w[i] = w[j] => i = j
    BY DEF Served
  <1> HIDE DEF w, v
  <1>3. /\ DOMAIN w = 1 .. Len(w) /\ Len(w) \in Nat \ {0} /\ w[1] = t
    BY <1>1, LenProperties, EmptySeq
  <1>4. /\ v \in Seq(Tasks) /\ Len(v) = Len(w) - 1
        /\ \A i \in 1 .. Len(v) : v[i] = w[i + 1]
    BY <1>1, HeadTailProperties
  <1>5. DOMAIN v = 1 .. Len(w) - 1
    BY <1>4, LenProperties
  <1>6. ASSUME NEW i \in DOMAIN v
        PROVE  i + 1 \in DOMAIN w /\ i + 1 # 1 /\ v[i] = w[i + 1] /\ 1 \in DOMAIN w
    BY <1>3, <1>4, <1>5
  <1>7. \A i \in DOMAIN v : v[i] \in queue
    BY <1>2, <1>3, <1>6
  <1>8. \A i, j \in DOMAIN v : v[i] = v[j] => i = j
    BY <1>2, <1>5, <1>6
  <1>9. ASSUME NEW u \in queue
        PROVE  \E i \in DOMAIN v : v[i] = u
    <2>1. PICK i \in DOMAIN w : w[i] = u
      BY <1>2
    <2>2. i # 1
      BY <1>3, <2>1
    <2>3. i - 1 \in DOMAIN v /\ v[i - 1] = u
      BY <1>3, <1>4, <1>5, <2>1, <2>2
    <2> QED
      BY <2>3
  <1> QED
    BY <1>1, <1>7, <1>8, <1>9 DEF Served, v

LEMMA ServedReleased ==
    ASSUME NEW l \in LockOf(Tasks), NEW inside, NEW waiting,
           Served(l, inside, waiting), NEW later
    PROVE  Served(Released(l), later, waiting)
  <1>1. Released(l).holder = NoTask /\ Released(l).waiters = l.waiters
    BY DEF LockOf, Released
  <1> QED
    BY <1>1 DEF Served, Locked

LEMMA ServedKept ==
    ASSUME NEW l, NEW inside, NEW waiting, Served(l, inside, waiting),
           NEW later, l.holder \in inside => l.holder \in later
    PROVE  Served(l, later, waiting)
  BY DEF Served

-----------------------------------------------------------------------------
(* LockInv says that a sender holds _command_lock; a place in the line     *)
(* needs the converse: whoever is in the line stands where a sender or a   *)
(* waiter stands, and stands there once.                                   *)

Senders        == {t \in Tasks : pc[t] \in Sending}
CommandWaiters == {t \in Tasks : pc[t] = "cmd_wait"}

LineInv == Served(command_lock, Senders, CommandWaiters)

(* Where those in the line stand. *)
InLinePcs == Sending \cup {"cmd_wait"}

LEMMA CommandLockType ==
    ASSUME TypeOK
    PROVE  /\ command_lock.waiters \in Seq(Tasks)
           /\ command_lock.holder \in Tasks \cup {NoTask}
           /\ Locked(command_lock) => command_lock.holder \in Tasks
  BY DEF TypeOK, LockOf, Locked

LEMMA InLineStands ==
    ASSUME TypeOK, LineInv, NEW t \in Tasks, pc[t] \notin InLinePcs
    PROVE  ~Link!InLine(t)
  <1> DEFINE w == command_lock.waiters
  <1>1. w \in Seq(Tasks) /\ Len(w) \in Nat /\ DOMAIN w = 1 .. Len(w)
    BY CommandLockType, LenProperties
  <1>2. \A i \in DOMAIN w : w[i] # t
    BY DEF LineInv, Served, CommandWaiters, InLinePcs
  <1>3. CASE Locked(command_lock)
    <2> DEFINE h == command_lock.holder
    <2>1. h \in Tasks /\ h # t
      BY <1>3, CommandLockType DEF LineInv, Served, Senders, InLinePcs
    <2>2. Line = <<h>> \o w
      BY <1>3 DEF Line
    <2> HIDE DEF h, w
    <2>3. <<h>> \in Seq(Tasks) /\ Len(<<h>>) = 1 /\ <<h>>[1] = h
      BY <2>1
    <2>4. /\ Line \in Seq(Tasks)
          /\ Len(Line) = 1 + Len(w)
          /\ \A i \in 1 .. 1 + Len(w) :
                Line[i] = IF i <= 1 THEN <<h>>[i] ELSE w[i - 1]
      BY <1>1, <2>2, <2>3, ConcatProperties
    <2>5. DOMAIN Line = 1 .. 1 + Len(w)
      BY <2>4, LenProperties
    <2>6. ASSUME NEW i \in DOMAIN Line
          PROVE  Line[i] # t
      <3>1. CASE i = 1
        BY <1>1, <2>1, <2>3, <2>4, <2>5, <3>1
      <3>2. CASE i # 1
        <4>1. i - 1 \in DOMAIN w /\ Line[i] = w[i - 1]
          BY <1>1, <2>4, <2>5, <3>2
        <4> QED
          BY <1>2, <4>1
      <3> QED
        BY <3>1, <3>2
    <2> QED
      BY <2>6 DEF Link!InLine
  <1>4. CASE ~Locked(command_lock)
    BY <1>2, <1>4 DEF Line, Link!InLine
  <1> QED
    BY <1>3, <1>4

-----------------------------------------------------------------------------
(* How the operations on the lock move the line. *)

(* A task that asks comes last. *)
LEMMA LineRequest ==
    ASSUME TypeOK, NEW t \in Tasks, RequestCommandLock(t)
    PROVE  /\ Line' = Append(Line, t)
           /\ Locked(command_lock)' = (Locked(command_lock) \/ Line = << >>)
  <1> DEFINE w == command_lock.waiters
             h == command_lock.holder
  <1>0. w \in Seq(Tasks) /\ t # NoTask
    BY CommandLockType, NoTaskAssumption DEF Tasks
  <1>1. CASE Available(command_lock) /\ command_lock' = Acquired(command_lock, t)
    <2>1. command_lock'.holder = t /\ command_lock'.waiters = << >> /\ Line = << >>
      BY <1>1 DEF Available, Acquired, TypeOK, LockOf, Line
    <2>2. Locked(command_lock)'
      BY <1>0, <2>1 DEF Locked
    <2>3. Line' = <<t>> \o << >>
      BY <2>1, <2>2 DEF Line
    <2>4. <<t>> \o << >> = Append(<< >>, t)
      BY <1>0
    <2> QED
      BY <2>1, <2>2, <2>3, <2>4
  <1>2. CASE ~Available(command_lock) /\ command_lock' = Enqueued(command_lock, t)
    <2>1. command_lock'.holder = h /\ command_lock'.waiters = Append(w, t)
      BY <1>2 DEF Enqueued, TypeOK, LockOf
    <2>2. Locked(command_lock)' = Locked(command_lock)
      BY <2>1 DEF Locked
    <2>3. CASE Locked(command_lock)
      <3>1. Line = <<h>> \o w /\ Line' = <<h>> \o Append(w, t)
        BY <2>1, <2>2, <2>3 DEF Line
      <3>2. h \in Tasks
        BY <2>3, CommandLockType
      <3> HIDE DEF h, w
      <3>3. Line' = Append(Line, t)
        <4>1. /\ <<h>> \in Seq(Tasks) /\ <<t>> \in Seq(Tasks)
          BY <3>2
        <4>2. Append(w, t) = w \o <<t>>
          BY <1>0, AppendIsConcat
        <4>3. <<h>> \o (w \o <<t>>) = (<<h>> \o w) \o <<t>>
          BY <1>0, <4>1, ConcatAssociative
        <4>4. <<h>> \o w \in Seq(Tasks)
          BY <1>0, <4>1, ConcatProperties
        <4>5. Append(<<h>> \o w, t) = (<<h>> \o w) \o <<t>>
          BY <4>4, AppendIsConcat
        <4> QED
          BY <3>1, <4>2, <4>3, <4>5
      <3> QED
        BY <2>2, <2>3, <3>3
    <2>4. CASE ~Locked(command_lock)
      <3>1. Line = w /\ Line # << >>
        BY <1>2, <2>4 DEF Line, Available
      <3>2. ~Locked(command_lock)'
        BY <2>2, <2>4
      <3>3. Line' = Append(w, t)
        BY <2>1, <3>2 DEF Line
      <3>4. Line' = Append(Line, t)
        BY <3>1, <3>3
      <3>5. Locked(command_lock)' = (Locked(command_lock) \/ Line = << >>)
        BY <2>4, <3>1, <3>2 DEF Locked
      <3> QED
        BY <3>4, <3>5
    <2> QED
      BY <2>3, <2>4
  <1> QED
    BY <1>1, <1>2 DEF RequestCommandLock

(* The first of the line leaves it when its holder releases the lock. *)
LEMMA LineRelease ==
    ASSUME TypeOK, NEW t \in Tasks, command_lock.holder = t,
           command_lock' = Released(command_lock)
    PROVE  /\ Locked(command_lock) /\ ~Locked(command_lock)'
           /\ Line # << >>
           /\ Head(Line) = t
           /\ Line' = Tail(Line)
  <1> DEFINE w == command_lock.waiters
  <1>0. w \in Seq(Tasks) /\ t # NoTask
    BY CommandLockType, NoTaskAssumption DEF Tasks
  <1>1. Locked(command_lock) /\ Line = <<t>> \o w
    BY <1>0 DEF Locked, Line
  <1>2. command_lock'.holder = NoTask /\ command_lock'.waiters = w
    BY DEF Released, TypeOK, LockOf
  <1>3. ~Locked(command_lock)' /\ Line' = w
    BY <1>2 DEF Locked, Line
  <1> HIDE DEF w
  <1>4. /\ <<t>> \o w # << >>
        /\ Head(<<t>> \o w) = t
        /\ Tail(<<t>> \o w) = w
    BY <1>0
  <1> QED
    BY <1>1, <1>3, <1>4

(* A waiter that was woken keeps its place, the first. *)
LEMMA LineResume ==
    ASSUME TypeOK, NEW t \in Tasks, Woken(command_lock, t),
           command_lock' = Resumed(command_lock, t)
    PROVE  /\ ~Locked(command_lock) /\ Locked(command_lock)'
           /\ Line # << >>
           /\ Line' = Line
  <1> DEFINE w == command_lock.waiters
  <1>0. w \in Seq(Tasks) /\ t # NoTask
    BY CommandLockType, NoTaskAssumption DEF Tasks
  <1>1. ~Locked(command_lock) /\ w # << >> /\ Head(w) = t /\ Line = w
    BY DEF Woken, Line
  <1>2. command_lock'.holder = t /\ command_lock'.waiters = Tail(w)
    BY DEF Resumed
  <1>3. Locked(command_lock)' /\ Line' = <<t>> \o Tail(w)
    BY <1>0, <1>2 DEF Locked, Line
  <1> HIDE DEF w
  <1>4. <<Head(w)>> \o Tail(w) = w
    BY <1>0, <1>1
  <1> QED
    BY <1>1, <1>3, <1>4

-----------------------------------------------------------------------------
(* The invariant of the line. *)

LEMMA LineInvInit == Init => LineInv
  <1> SUFFICES ASSUME Init
               PROVE  LineInv
    OBVIOUS
  <1>1. CommandWaiters = {} /\ command_lock = FreeLock
    BY DEF Init, CommandWaiters
  <1> QED
    BY <1>1, ServedFree DEF LineInv

(* Nobody enters the line or leaves it. *)
LEMMA LineInvKept ==
    ASSUME TypeOK, LineInv, UNCHANGED command_lock,
           \A u \in Tasks :
               /\ pc[u] \in Sending => pc'[u] \in Sending
               /\ pc[u] = "cmd_wait" <=> pc'[u] = "cmd_wait"
    PROVE  LineInv'
  <1>1. CommandWaiters' = CommandWaiters /\ Senders \subseteq Senders'
    BY DEF CommandWaiters, Senders
  <1>2. Served(command_lock, Senders', CommandWaiters)
    BY <1>1, ServedKept DEF LineInv
  <1> QED
    BY <1>1, <1>2 DEF LineInv, Served, Locked

LEMMA LineInvRequest ==
    ASSUME TypeOK, LineInv, NEW t \in Tasks, pc[t] \notin InLinePcs,
           RequestCommandLock(t)
    PROVE  LineInv'
  <1>0. command_lock \in LockOf(Tasks) /\ t \notin CommandWaiters
    BY DEF TypeOK, CommandWaiters, InLinePcs
  <1>1. CASE Available(command_lock) /\ command_lock' = Acquired(command_lock, t)
             /\ BeginSend(t)
    <2>1. pc'[t] \in Sending /\ \A u \in Tasks \ {t} : pc'[u] = pc[u]
      BY <1>1 DEF BeginSend, StartWrite, TypeOK, Sending, Connecting
    <2>2. t \in Senders' /\ CommandWaiters' = CommandWaiters
      BY <2>1 DEF Senders, CommandWaiters, Sending, Connecting, InLinePcs
    <2>3. Served(Acquired(command_lock, t), Senders', CommandWaiters)
      BY <1>0, <1>1, <2>2, ServedAcquired DEF LineInv
    <2> QED
      BY <1>1, <2>2, <2>3 DEF LineInv
  <1>2. CASE /\ command_lock' = Enqueued(command_lock, t)
             /\ pc' = [pc EXCEPT ![t] = "cmd_wait"]
    <2>1. pc'[t] = "cmd_wait" /\ \A u \in Tasks \ {t} : pc'[u] = pc[u]
      BY <1>2 DEF TypeOK
    <2>2. CommandWaiters' = CommandWaiters \cup {t} /\ Senders \subseteq Senders'
      BY <2>1 DEF Senders, CommandWaiters, InLinePcs
    <2>3. Served(Enqueued(command_lock, t), Senders', CommandWaiters')
      BY <1>0, <2>2, ServedEnqueued DEF LineInv
    <2> QED
      BY <1>2, <2>3 DEF LineInv
  <1> QED
    BY <1>1, <1>2 DEF RequestCommandLock

LEMMA LineInvGranted ==
    ASSUME TypeOK, LineInv, NEW t \in Tasks, CommandGranted(t)
    PROVE  LineInv'
  <1>1. /\ command_lock \in LockOf(Tasks) /\ Woken(command_lock, t)
        /\ command_lock' = Resumed(command_lock, t)
    BY DEF TypeOK, CommandGranted
  <1>2. pc'[t] \in Sending /\ \A u \in Tasks \ {t} : pc'[u] = pc[u]
    BY DEF CommandGranted, BeginSend, StartWrite, TypeOK, Sending, Connecting
  <1>3. t \in Senders' /\ CommandWaiters' = CommandWaiters \ {t}
    BY <1>2 DEF Senders, CommandWaiters, Sending, Connecting
  <1>4. Served(Resumed(command_lock, t), Senders', CommandWaiters')
    BY <1>1, <1>3, ServedResumed DEF LineInv
  <1> QED
    BY <1>1, <1>4 DEF LineInv

(* The holder of the lock leaves. *)
LEMMA LineInvRelease ==
    ASSUME TypeOK, LineInv, NEW t \in Tasks, pc[t] \in Sending,
           pc'[t] # "cmd_wait",
           command_lock' = Released(command_lock),
           \A u \in Tasks \ {t} : pc'[u] = pc[u]
    PROVE  LineInv'
  <1>1. CommandWaiters' = CommandWaiters
    BY DEF CommandWaiters, Sending, Connecting
  <1>2. Served(Released(command_lock), Senders', CommandWaiters)
    BY ServedReleased DEF LineInv, TypeOK
  <1> QED
    BY <1>1, <1>2 DEF LineInv

-----------------------------------------------------------------------------
(* The kinds of steps, as steps of SerialLink. *)

(* What the clients were told: the answers of SerialLink. *)
Told == [c \in Clients |-> AnswerOf(reply[c])]

LEMMA ToldOne ==
    ASSUME TypeOK, NEW c \in Clients, NEW r, reply' = [reply EXCEPT ![c] = r]
    PROVE  Told' = [Told EXCEPT ![c] = AnswerOf(r)]
  BY DEF Told, TypeOK

LEMMA LinkStutter ==
    ASSUME UNCHANGED <<command_lock, reply, writes>>
    PROVE  UNCHANGED Link!vars
  <1>1. Line' = Line /\ Locked(command_lock)' = Locked(command_lock)
    BY DEF Line, Locked
  <1>2. Told' = Told
    BY DEF Told
  <1> QED
    BY <1>1, <1>2 DEF Link!vars, Told

(* A request that has begun and has not ended was not answered or sent. *)
LEMMA NothingToldYet ==
    ASSUME NothingWrittenYet, NEW c \in Clients, pc[c] # "idle"
    PROVE  Told[c] = "none" /\ writes[c] = 0
  BY DEF NothingWrittenYet, Told, AnswerOf

LEMMA LinkJoin ==
    ASSUME TypeOK, LineInv, NothingWrittenYet, NEW t \in Tasks,
           pc[t] \notin InLinePcs, t \in Clients => pc[t] # "idle",
           RequestCommandLock(t), UNCHANGED <<reply, writes>>
    PROVE  Link!Next
  <1>1. ~Link!InLine(t)
    BY InLineStands
  <1>2. t \in Clients => Told[t] = "none" /\ writes[t] = 0
    BY NothingToldYet
  <1>3. /\ Line' = Append(Line, t)
        /\ Locked(command_lock)' = (Locked(command_lock) \/ Line = << >>)
    BY LineRequest
  <1>4. Told' = Told
    BY DEF Told
  <1>5. Link!Join(t)
    BY <1>1, <1>2, <1>3, <1>4 DEF Link!Join, Told
  <1> QED
    BY <1>5 DEF Link!Next, Link!Tasks, Tasks

(* One who is not in line is told something. *)
LEMMA LinkTell ==
    ASSUME TypeOK, LineInv, NothingWrittenYet, NEW c \in Clients,
           pc[c] \notin InLinePcs, pc[c] # "idle",
           UNCHANGED <<command_lock, writes>>,
           NEW r, reply' = [reply EXCEPT ![c] = r],
           AnswerOf(r) \in {"ERROR", "data"}
    PROVE  Link!Next
  <1>1. ~Link!InLine(c)
    BY InLineStands DEF Tasks
  <1>2. Told[c] = "none" /\ writes[c] = 0
    BY NothingToldYet
  <1>3. Told' = [Told EXCEPT ![c] = AnswerOf(r)]
    BY ToldOne
  <1>4. Line' = Line /\ Locked(command_lock)' = Locked(command_lock)
    BY DEF Line, Locked
  <1>5. Link!Tell(c)
    BY <1>1, <1>2, <1>3, <1>4 DEF Link!Tell, Told
  <1> QED
    BY <1>5 DEF Link!Next

(* The poll loop gives up its place, whatever its poll came to. *)
LEMMA LinkLeavePoller ==
    ASSUME TypeOK, command_lock.holder = Poller,
           command_lock' = Released(command_lock), UNCHANGED <<reply, writes>>
    PROVE  Link!Next
  <1>1. /\ Locked(command_lock) /\ ~Locked(command_lock)'
        /\ Line # << >> /\ Head(Line) = Poller /\ Line' = Tail(Line)
    BY LineRelease DEF Tasks
  <1>2. Told' = Told
    BY DEF Told
  <1>3. Locked(command_lock)' = FALSE
    BY <1>1 DEF Locked
  <1>4. Link!Leave
    BY <1>1, <1>2, <1>3 DEF Link!Leave, Told
  <1> QED
    BY <1>4 DEF Link!Next

(* A client's request leaves the line with one of the outcomes. *)
LEMMA LinkLeaveClient ==
    ASSUME TypeOK, NEW c \in Clients, command_lock.holder = c,
           command_lock' = Released(command_lock),
           NEW r, NEW n, <<AnswerOf(r), n>> \in Link!Outcomes,
           reply' = [reply EXCEPT ![c] = r], writes' = [writes EXCEPT ![c] = n]
    PROVE  Link!Next
  <1>1. /\ Locked(command_lock) /\ ~Locked(command_lock)'
        /\ Line # << >> /\ Head(Line) = c /\ Line' = Tail(Line)
    BY LineRelease DEF Tasks
  <1>2. Told' = [Told EXCEPT ![c] = AnswerOf(r)]
    BY ToldOne
  <1>3. Locked(command_lock)' = FALSE
    BY <1>1 DEF Locked
  <1> DEFINE o == <<AnswerOf(r), n>>
  <1>4. /\ o \in Link!Outcomes
        /\ Told' = [Told EXCEPT ![Head(Line)] = o[1]]
        /\ writes' = [writes EXCEPT ![Head(Line)] = o[2]]
    BY <1>1, <1>2
  <1> HIDE DEF o
  <1>5. Link!Leave
    BY <1>1, <1>3, <1>4 DEF Link!Leave, Told
  <1> QED
    BY <1>5 DEF Link!Next

-----------------------------------------------------------------------------
(* The steps of the daemon. *)

LinkInvs ==
    /\ TypeOK /\ TaskInv /\ LockInv
    /\ NothingWrittenYet /\ WrittenOnce
    /\ LineInv

(* One step, and the line stays in order. *)
Simulated == (Link!Next \/ UNCHANGED Link!vars) /\ LineInv'

(* An exception under the lock: the poll loop or a poller's client is      *)
(* answered with the status, the client of a command with an error.        *)
LEMMA SimulatedRaise ==
    ASSUME LinkInvs, NEW t \in Tasks, pc[t] \in Sending,
           NEW s, NEW up, Raised(t, s, up),
           \/ UNCHANGED writes
           \/ ~Polling(t) /\ writes' = [writes EXCEPT ![t] = @ + 1]
    PROVE  Simulated
  <1> USE DEF LinkInvs
  <1>1. command_lock.holder = t /\ command_lock' = Released(command_lock)
    BY DEF LockInv, SendersHold, Raised
  <1>2. pc'[t] = "idle" /\ \A u \in Tasks \ {t} : pc'[u] = pc[u]
    BY DEF Raised, PollFailed, Answered, TypeOK
  <1>3. LineInv'
    BY <1>1, <1>2, LineInvRelease
  <1>4. CASE t = Poller
    <2>1. UNCHANGED <<reply, writes>>
      BY <1>4, PollerAssumption DEF Raised, PollFailed, Answered, Polling
    <2> QED
      BY <1>1, <1>3, <1>4, <2>1, LinkLeavePoller DEF Simulated
  <1>5. CASE t \in Clients
    <2>1. writes[t] = 0
      BY <1>5, NothingToldYet DEF Sending, Connecting
    <2>2. writes = [writes EXCEPT ![t] = 0]
      BY <1>5, <2>1 DEF TypeOK
    <2>3. ASSUME UNCHANGED writes, NEW r \in {"status", "ERROR"},
                 reply' = [reply EXCEPT ![t] = r]
          PROVE  Link!Next
      <3>1. <<AnswerOf(r), 0>> \in Link!Outcomes
        BY <2>3 DEF AnswerOf, Link!Outcomes
      <3> QED
        BY <1>1, <1>5, <2>2, <2>3, <3>1, LinkLeaveClient
    <2>4. CASE UNCHANGED writes
      BY <1>3, <1>5, <2>3, <2>4 DEF Simulated, Raised, PollFailed, Answered
    <2>5. CASE ~Polling(t) /\ writes' = [writes EXCEPT ![t] = @ + 1]
      <3>1. reply' = [reply EXCEPT ![t] = "ERROR"]
        BY <1>5, <2>5 DEF Raised, Answered
      <3>2. writes' = [writes EXCEPT ![t] = 1]
        BY <1>5, <2>1, <2>5 DEF TypeOK
      <3>3. <<AnswerOf("ERROR"), 1>> \in Link!Outcomes
        BY DEF AnswerOf, Link!Outcomes
      <3> QED
        BY <1>1, <1>3, <1>5, <3>1, <3>2, <3>3, LinkLeaveClient DEF Simulated
    <2> QED
      BY <2>4, <2>5
  <1> QED
    BY <1>4, <1>5 DEF Tasks

(* A write that succeeds: a command is answered, a poll goes on to wait    *)
(* for its frame outside the line.                                         *)
LEMMA SimulatedWrite ==
    ASSUME LinkInvs, NEW t \in Tasks, WriteDone(t)
    PROVE  Simulated
  <1> USE DEF LinkInvs
  <1>1. /\ pc[t] \in Sending /\ pc[t] # "idle"
        /\ command_lock.holder = t
        /\ command_lock' = Released(command_lock)
    BY DEF WriteDone, LockInv, SendersHold, Sending
  <1>2. /\ pc'[t] \in {"idle", "awaiting"}
        /\ \A u \in Tasks \ {t} : pc'[u] = pc[u]
    BY DEF WriteDone, Answered, TypeOK
  <1>3. LineInv'
    BY <1>1, <1>2, LineInvRelease
  <1>4. CASE t = Poller
    BY <1>1, <1>3, <1>4, LinkLeavePoller DEF Simulated, WriteDone, Polling
  <1>5. CASE t \in Clients
    <2>1. writes[t] = 0 /\ reply[t] = "none"
      BY <1>1, <1>5 DEF NothingWrittenYet
    <2>2. CASE UNCHANGED <<reply, writes>>
      <3>1. /\ reply' = [reply EXCEPT ![t] = "none"]
            /\ writes' = [writes EXCEPT ![t] = 0]
        BY <1>5, <2>1, <2>2 DEF TypeOK
      <3>2. <<AnswerOf("none"), 0>> \in Link!Outcomes
        BY DEF AnswerOf, Link!Outcomes
      <3> QED
        BY <1>1, <1>3, <1>5, <3>1, <3>2, LinkLeaveClient DEF Simulated
    <2>3. CASE Answered(t, "OK") /\ writes' = [writes EXCEPT ![t] = @ + 1]
      <3>1. /\ reply' = [reply EXCEPT ![t] = "OK"]
            /\ writes' = [writes EXCEPT ![t] = 1]
        BY <1>5, <2>1, <2>3 DEF Answered, TypeOK
      <3>2. <<AnswerOf("OK"), 1>> \in Link!Outcomes
        BY DEF AnswerOf, Link!Outcomes
      <3> QED
        BY <1>1, <1>3, <1>5, <3>1, <3>2, LinkLeaveClient DEF Simulated
    <2> QED
      BY <2>2, <2>3 DEF WriteDone
  <1> QED
    BY <1>4, <1>5 DEF Tasks

(* The frame arrives, or does not: the poll ends outside the line. *)
LEMMA SimulatedAnswer ==
    ASSUME LinkInvs, NEW t \in Tasks, Receive(t) \/ ReadTimeout(t)
    PROVE  Simulated
  <1> USE DEF LinkInvs
  <1>1. /\ pc[t] = "awaiting" /\ pc[t] \notin InLinePcs /\ pc[t] # "idle"
        /\ UNCHANGED <<command_lock, writes>>
    BY DEF Receive, ReadTimeout, InLinePcs, Sending, Connecting
  <1>2. PICK r \in {"frame", "status"} : Answered(t, r)
    BY DEF Receive, ReadTimeout, PollFailed
  <1>3. pc'[t] = "idle" /\ \A u \in Tasks \ {t} : pc'[u] = pc[u]
    BY <1>2 DEF Answered, TypeOK
  <1>4. LineInv'
    BY <1>1, <1>3, LineInvKept DEF InLinePcs
  <1>5. CASE t \in Clients
    <2>1. AnswerOf(r) \in {"ERROR", "data"}
      BY DEF AnswerOf
    <2>2. reply' = [reply EXCEPT ![t] = r]
      BY <1>2, <1>5 DEF Answered
    <2>3. Link!Next
      BY <1>1, <1>5, <2>1, <2>2, LinkTell, Zenon
    <2> QED
      BY <1>4, <2>3 DEF Simulated
  <1>6. CASE t \notin Clients
    BY <1>1, <1>2, <1>4, <1>6, LinkStutter DEF Answered, Simulated
  <1> QED
    BY <1>5, <1>6

(* A poll begins: it joins the line, or waits for poll_lock outside it. *)
LEMMA SimulatedPoll ==
    ASSUME LinkInvs, NEW t \in Tasks, pc[t] \notin InLinePcs,
           t \in Clients => pc[t] # "idle",
           GetData(t) \/ PollOnce(t), UNCHANGED <<reply, writes>>
    PROVE  Simulated
  <1> USE DEF LinkInvs
  <1>1. CASE RequestCommandLock(t)
    BY <1>1, LinkJoin, LineInvRequest DEF Simulated
  <1>2. CASE /\ pc' = [pc EXCEPT ![t] = "poll_wait"]
             /\ UNCHANGED command_lock
    <2>1. LineInv'
      BY <1>2, LineInvKept DEF TypeOK, InLinePcs
    <2> QED
      BY <1>2, <2>1, LinkStutter DEF Simulated
  <1> QED
    BY <1>1, <1>2 DEF GetData, PollOnce
LEMMA SimulatedTaskStep ==
    ASSUME LinkInvs, NEW t \in Tasks, TaskStep(t)
    PROVE  Simulated
  <1> USE DEF LinkInvs
  <1>1. CASE CommandGranted(t)
    <2>1. LineInv'
      BY <1>1, LineInvGranted
    <2>2. /\ ~Locked(command_lock) /\ Locked(command_lock)'
          /\ Line # << >> /\ Line' = Line
      BY <1>1, LineResume DEF CommandGranted
    <2>3. Locked(command_lock)' = TRUE
      BY <2>2 DEF Locked
    <2>4. Told' = Told /\ writes' = writes
      BY <1>1 DEF CommandGranted, Told
    <2>5. Link!Serve
      BY <2>2, <2>3, <2>4 DEF Link!Serve, Told
    <2> QED
      BY <2>1, <2>5 DEF Simulated, Link!Next
  <1>2. CASE PollGranted(t)
    BY <1>2, SimulatedPoll DEF PollGranted, InLinePcs, Sending, Connecting
  <1>3. CASE ScanFindsDevice(t) \/ EstablishDone(t)
    <2>1. UNCHANGED <<command_lock, reply, writes>>
      BY <1>3 DEF ScanFindsDevice, EstablishDone, lockVars
    <2>2. LineInv'
      BY <1>3, <2>1, LineInvKept
      DEF ScanFindsDevice, EstablishDone, TypeOK, Sending, Connecting
    <2> QED
      BY <2>1, <2>2, LinkStutter DEF Simulated
  <1>4. CASE ScanRaises(t) \/ ConnectionFails(t)
    BY <1>4, SimulatedRaise DEF ScanRaises, ConnectionFails, Sending, Connecting
  <1>5. CASE SubscribeDone(t)
    <2>1. CASE Raised(t, MarkConnected(status, TRUE), FALSE)
      BY <1>5, <2>1, SimulatedRaise DEF SubscribeDone, Sending, Connecting
    <2>2. CASE /\ StartWrite(t, MarkConnected(status, TRUE))
               /\ UNCHANGED <<command_lock, reply>>
      <3>1. UNCHANGED <<command_lock, reply, writes>>
        BY <1>5, <2>2 DEF SubscribeDone
      <3>2. LineInv'
        BY <1>5, <2>2, LineInvKept
        DEF SubscribeDone, StartWrite, TypeOK, Sending, Connecting
      <3> QED
        BY <3>1, <3>2, LinkStutter DEF Simulated
    <2> QED
      BY <1>5, <2>1, <2>2 DEF SubscribeDone
  <1>6. CASE WriteDone(t)
    BY <1>6, SimulatedWrite
  <1>7. CASE WriteFails(t)
    BY <1>7, SimulatedRaise DEF WriteFails, Sending
  <1>8. CASE Receive(t) \/ ReadTimeout(t)
    BY <1>8, SimulatedAnswer
  <1> QED
    BY <1>1, <1>2, <1>3, <1>4, <1>5, <1>6, <1>7, <1>8 DEF TaskStep

LEMMA SimulatedClientStep ==
    ASSUME LinkInvs, NEW c \in Clients, ClientConnect(c) \/ HandleRequest(c)
    PROVE  Simulated
  <1> USE DEF LinkInvs
  <1>0. /\ c \in Tasks
        /\ pc[c] \notin InLinePcs
        /\ \A u \in Tasks \ {c} : pc'[u] = pc[u]
    BY ClientStepFrame DEF Tasks, InLinePcs, Sending, Connecting
  <1>1. CASE ClientConnect(c)
    <2>1. UNCHANGED command_lock /\ pc'[c] = "reading"
      BY <1>0, <1>1 DEF ClientConnect, lockVars, TypeOK
    <2>2. LineInv'
      BY <1>0, <2>1, LineInvKept DEF InLinePcs
    <2>3. ~Link!InLine(c)
      BY <1>0, InLineStands
    <2>4. Told' = [Told EXCEPT ![c] = "none"]
      BY <1>1, ToldOne DEF ClientConnect, AnswerOf
    <2>5. Line' = Line /\ Locked(command_lock)' = Locked(command_lock)
      BY <2>1 DEF Line, Locked
    <2>6. Link!Connect(c)
      BY <1>1, <2>3, <2>4, <2>5 DEF ClientConnect, Link!Connect, Told
    <2> QED
      BY <2>2, <2>6 DEF Simulated, Link!Next
  <1>2. ASSUME NEW r \in {"none", "status", "no cached pump_data", "frame", "ERROR"},
               Immediately(c, r)
        PROVE  Simulated
    <2>1. /\ UNCHANGED <<command_lock, writes>>
          /\ reply' = [reply EXCEPT ![c] = r]
          /\ pc[c] = "reading" /\ pc'[c] = "idle"
      BY <1>2 DEF Immediately, Answered, lockVars, TypeOK, Tasks
    <2>2. LineInv'
      BY <1>0, <2>1, LineInvKept DEF InLinePcs
    <2>3. CASE r = "none"
      <3>1. UNCHANGED reply
        BY <2>1, <2>3 DEF NothingWrittenYet, TypeOK
      <3> QED
        BY <2>1, <2>2, <3>1, LinkStutter DEF Simulated
    <2>4. CASE r # "none"
      <3>1. AnswerOf(r) \in {"ERROR", "data"}
        BY <2>4 DEF AnswerOf
      <3>2. Link!Next
        <4>1. pc[c] \notin InLinePcs /\ pc[c] # "idle"
          BY <1>0, <2>1
        <4> QED
          BY <2>1, <3>1, <4>1, LinkTell, Zenon
      <3> QED
        BY <2>2, <3>2 DEF Simulated
    <2> QED
      BY <2>3, <2>4
  <1>3. CASE \/ ClientCloses(c) \/ StatusQuery(c) \/ PumpData(c)
             \/ Malformed(c) \/ PollInProgress(c)
    BY <1>2, <1>3
    DEF ClientCloses, StatusQuery, PumpData, Malformed, PollInProgress
  <1>4. CASE PumpDataForce(c)
    BY <1>0, <1>4, SimulatedPoll DEF PumpDataForce
  <1>5. CASE SendCommand(c)
    <2>1. RequestCommandLock(c) /\ pc[c] # "idle" /\ UNCHANGED <<reply, writes>>
      BY <1>5 DEF SendCommand
    <2> QED
      BY <1>0, <2>1, LinkJoin, LineInvRequest DEF Simulated
  <1> QED
    BY <1>1, <1>3, <1>4, <1>5 DEF HandleRequest

(* At the end of run_daemon only the poll loop can be in the line. *)
LEMMA SimulatedCancel ==
    ASSUME LinkInvs, CancelPoll
    PROVE  Simulated
  <1> USE DEF LinkInvs
  <1>1. command_lock' = FreeLock /\ UNCHANGED <<reply, writes>>
    BY DEF CancelPoll
  <1>2. Line' = << >> /\ Locked(command_lock)' = FALSE
    BY <1>1 DEF Line, Locked, FreeLock
  <1>3. LineInv'
    <2>1. CommandWaiters' = {}
      BY DEF CancelPoll, HandlersDone, CommandWaiters, TypeOK, Tasks
    <2> QED
      BY <1>1, <2>1, ServedFree DEF LineInv
  <1>4. \A c \in Clients : ~Link!InLine(c)
    BY InLineStands
    DEF CancelPoll, HandlersDone, InLinePcs, Sending, Connecting, Tasks
  <1>5. Told' = Told
    BY <1>1 DEF Told
  <1>6. Link!Stop
    BY <1>1, <1>2, <1>4, <1>5 DEF Link!Stop, Told
  <1> QED
    BY <1>3, <1>6 DEF Simulated, Link!Next

LEMMA SimulatedStep ==
    ASSUME LinkInvs, [Next]_vars
    PROVE  Simulated
  <1> USE DEF LinkInvs
  <1>1. ASSUME NEW t \in Tasks, TaskStep(t)
        PROVE  Simulated
    BY <1>1, SimulatedTaskStep
  <1>2. CASE PollLoopTurn
    BY <1>2, SimulatedPoll, PollerAssumption
    DEF PollLoopTurn, Tasks, InLinePcs, Sending, Connecting
  <1>3. ASSUME NEW c \in Clients, ClientConnect(c) \/ HandleRequest(c)
        PROVE  Simulated
    BY <1>3, SimulatedClientStep
  <1>4. CASE CancelPoll
    BY <1>4, SimulatedCancel
  <1>5. CASE Environment \/ StopRequested \/ Disconnected \/ Terminated
             \/ UNCHANGED vars
    <2>1. UNCHANGED <<command_lock, pc, reply, writes>>
      BY <1>5
      DEF Environment, HandleDisconnect, AttemptDrops, DataHandler, RetryDue,
          DataAges, StopRequested, Disconnected, Terminated, vars, lockVars,
          taskVars
    <2>2. LineInv'
      BY <2>1, LineInvKept
    <2> QED
      BY <2>1, <2>2, LinkStutter DEF Simulated
  <1> QED
    BY <1>1, <1>2, <1>3, <1>4, <1>5 DEF Next, Shutdown

LEMMA SimulatedInit == Init => Link!Init
  <1> SUFFICES ASSUME Init
               PROVE  Link!Init
    OBVIOUS
  <1>1. Line = << >> /\ Locked(command_lock) = FALSE
    BY DEF Init, Line, Locked, FreeLock
  <1>2. Told = [c \in Clients |-> "none"]
    BY DEF Init, Told, AnswerOf
  <1> QED
    BY <1>1, <1>2 DEF Init, Link!Init, Told

(* For any set of clients, whatever fails: the daemon serves one line,     *)
(* answers each request once, and "OK" only to a command that was sent.    *)
THEOREM LinkImplemented == Spec => ImplementsSerialLink
  <1>1. Init => LinkInvs
    BY TypeOKInit, TaskInvInit, LockInvInit, LineInvInit
    DEF LinkInvs, Init, NothingWrittenYet, WrittenOnce, Tasks
  <1>2. LinkInvs /\ [Next]_vars => LinkInvs'
    BY TypeOKStep, TaskInvStep, LockInvStep, WritesStep, SimulatedStep
    DEF LinkInvs, Simulated
  <1>3. LinkInvs /\ [Next]_vars => [Link!Next]_(Link!vars)
    BY SimulatedStep DEF Simulated
  <1> QED
    BY <1>1, <1>2, <1>3, SimulatedInit, PTL DEF Spec, ImplementsSerialLink, Link!Spec
-----------------------------------------------------------------------------
(* Nobody waits in vain.  A poll holds poll_lock while it waits for        *)
(* _command_lock, and nobody holds these two the other way round; but that *)
(* is no use unless each lock has a holder inside what it protects, or has *)
(* woken somebody who is still there.  For _command_lock this is LineInv;  *)
(* the same for poll_lock:                                                 *)

Pollers     == {t \in Tasks : Polling(t) /\ pc[t] \in InPoll}
PollWaiters == {t \in Tasks : pc[t] = "poll_wait"}

PollLineInv ==
    /\ Served(poll_lock, Pollers, PollWaiters)
    /\ \A t \in PollWaiters : Polling(t)

LEMMA PollLineInit == Init => PollLineInv
  <1> SUFFICES ASSUME Init
               PROVE  PollLineInv
    OBVIOUS
  <1>1. PollWaiters = {} /\ poll_lock = FreeLock
    BY DEF Init, PollWaiters
  <1> QED
    BY <1>1, ServedFree DEF PollLineInv

(* A task moves that does not wait for poll_lock, before or after; when it *)
(* leaves the section it releases the lock.                                *)
LEMMA PollLineMove ==
    ASSUME TypeOK, PollLineInv, NEW t \in Tasks,
           pc[t] # "poll_wait", pc'[t] # "poll_wait",
           \A u \in Tasks \ {t} : pc'[u] = pc[u] /\ req'[u] = req[u],
           \/ poll_lock' = Released(poll_lock)
           \/ UNCHANGED poll_lock /\ (t \in Pollers => t \in Pollers')
    PROVE  PollLineInv'
  <1>0. poll_lock \in LockOf(Tasks)
    BY DEF TypeOK
  <1>1. PollWaiters' = PollWaiters
    BY DEF PollWaiters
  <1>2. \A u \in PollWaiters' : Polling(u)'
    BY <1>1 DEF PollLineInv, PollWaiters, Polling
  <1>3. CASE poll_lock' = Released(poll_lock)
    <2>1. Served(Released(poll_lock), Pollers', PollWaiters)
      BY <1>0, ServedReleased DEF PollLineInv
    <2> QED
      BY <1>1, <1>2, <1>3, <2>1 DEF PollLineInv
  <1>4. CASE UNCHANGED poll_lock /\ (t \in Pollers => t \in Pollers')
    <2>1. Pollers \subseteq Pollers'
      BY <1>4 DEF Pollers, Polling
    <2>2. Served(poll_lock, Pollers', PollWaiters)
      BY <2>1, ServedKept DEF PollLineInv
    <2> QED
      BY <1>1, <1>2, <1>4, <2>2 DEF PollLineInv
  <1> QED
    BY <1>3, <1>4

LEMMA GetDataMoves ==
    ASSUME TypeOK, NEW t \in Tasks, GetData(t)
    PROVE  /\ pc'[t] \in InPoll
           /\ \A u \in Tasks \ {t} : pc'[u] = pc[u]
  <1>1. CASE BeginSend(t)
    BY <1>1 DEF BeginSend, StartWrite, TypeOK, InPoll, Sending, Connecting
  <1>2. CASE pc' = [pc EXCEPT ![t] = "cmd_wait"]
    BY <1>2 DEF TypeOK, InPoll
  <1> QED
    BY <1>1, <1>2 DEF GetData, RequestCommandLock

LEMMA PollLinePoll ==
    ASSUME TypeOK, PollLineInv, NEW t \in Tasks, pc[t] \in {"idle", "reading"},
           PollOnce(t), Polling(t)',
           \A u \in Tasks \ {t} : req'[u] = req[u]
    PROVE  PollLineInv'
  <1>0. poll_lock \in LockOf(Tasks) /\ t \notin PollWaiters /\ t \notin Pollers
    BY DEF TypeOK, PollWaiters, Pollers, InPoll, Sending, Connecting
  <1>1. CASE /\ Available(poll_lock)
             /\ poll_lock' = Acquired(poll_lock, t)
             /\ GetData(t)
    <2>1. pc'[t] \in InPoll /\ \A u \in Tasks \ {t} : pc'[u] = pc[u]
      BY <1>1, GetDataMoves
    <2>2. t \in Pollers' /\ PollWaiters' = PollWaiters
      BY <1>0, <2>1 DEF Pollers, PollWaiters, InPoll, Sending, Connecting
    <2>3. Served(Acquired(poll_lock, t), Pollers', PollWaiters)
      BY <1>0, <1>1, <2>2, ServedAcquired DEF PollLineInv
    <2>4. \A u \in PollWaiters' : Polling(u)'
      BY <1>0, <2>2 DEF PollLineInv, PollWaiters, Polling
    <2> QED
      BY <1>1, <2>2, <2>3, <2>4 DEF PollLineInv
  <1>2. CASE /\ poll_lock' = Enqueued(poll_lock, t)
             /\ pc' = [pc EXCEPT ![t] = "poll_wait"]
    <2>1. pc'[t] = "poll_wait" /\ \A u \in Tasks \ {t} : pc'[u] = pc[u]
      BY <1>2 DEF TypeOK
    <2>2. PollWaiters' = PollWaiters \cup {t} /\ Pollers \subseteq Pollers'
      BY <1>0, <2>1 DEF Pollers, PollWaiters, Polling
    <2>3. Served(Enqueued(poll_lock, t), Pollers', PollWaiters')
      BY <1>0, <2>2, ServedEnqueued DEF PollLineInv
    <2>4. \A u \in PollWaiters' : Polling(u)'
      BY <1>0, <2>2 DEF PollLineInv, PollWaiters, Polling
    <2> QED
      BY <1>2, <2>3, <2>4 DEF PollLineInv
  <1> QED
    BY <1>1, <1>2 DEF PollOnce

LEMMA PollLineGranted ==
    ASSUME TypeOK, PollLineInv, NEW t \in Tasks, PollGranted(t)
    PROVE  PollLineInv'
  <1>1. /\ poll_lock \in LockOf(Tasks) /\ Woken(poll_lock, t)
        /\ poll_lock' = Resumed(poll_lock, t)
        /\ pc[t] = "poll_wait" /\ req' = req
    BY DEF TypeOK, PollGranted
  <1>2. pc'[t] \in InPoll /\ \A u \in Tasks \ {t} : pc'[u] = pc[u]
    BY GetDataMoves DEF PollGranted
  <1>3. t \in Pollers'
    BY <1>1, <1>2 DEF PollLineInv, PollWaiters, Pollers, Polling
  <1>4. PollWaiters' = PollWaiters \ {t}
    BY <1>2 DEF PollWaiters, InPoll, Sending, Connecting
  <1>5. Served(Resumed(poll_lock, t), Pollers', PollWaiters')
    BY <1>1, <1>3, <1>4, ServedResumed DEF PollLineInv
  <1>6. \A u \in PollWaiters' : Polling(u)'
    BY <1>1, <1>4 DEF PollLineInv, Polling
  <1> QED
    BY <1>1, <1>5, <1>6 DEF PollLineInv

LEMMA PollLineTaskStep ==
    ASSUME TypeOK, PollLineInv, NEW t \in Tasks, TaskStep(t)
    PROVE  PollLineInv'
  <1>0. \A u \in Tasks \ {t} : pc'[u] = pc[u] /\ req'[u] = req[u]
    BY TaskStepFrame
  <1>1. ASSUME pc[t] \in InPoll, pc'[t] \in InPoll, UNCHANGED <<poll_lock, req>>
        PROVE  PollLineInv'
    <2>1. t \in Pollers => t \in Pollers'
      BY <1>1 DEF Pollers, Polling
    <2>2. pc[t] # "poll_wait" /\ pc'[t] # "poll_wait"
      BY <1>1 DEF InPoll, Sending, Connecting
    <2> QED
      BY <1>0, <1>1, <2>1, <2>2, PollLineMove
  <1>2. ASSUME pc[t] \in InPoll, NEW r, Answered(t, r),
               \/ poll_lock' = Released(poll_lock)
               \/ ~Polling(t) /\ UNCHANGED poll_lock
        PROVE  PollLineInv'
    <2>1. pc'[t] = "idle"
      BY <1>2 DEF Answered, TypeOK
    <2>2. pc[t] # "poll_wait" /\ pc'[t] # "poll_wait"
      BY <1>2, <2>1 DEF InPoll, Sending, Connecting
    <2>3. ~Polling(t) => t \notin Pollers
      BY DEF Pollers
    <2> QED
      BY <1>0, <1>2, <2>2, <2>3, PollLineMove
  <1>3. ASSUME pc[t] \in InPoll, NEW s, NEW b, Raised(t, s, b)
        PROVE  PollLineInv'
    BY <1>2, <1>3 DEF Raised, PollFailed
  <1> USE DEF InPoll, Sending, Connecting
  <1>4. CASE CommandGranted(t)
    <2>1. pc'[t] \in InPoll /\ UNCHANGED <<poll_lock, req>> /\ pc[t] \in InPoll
      BY <1>4 DEF CommandGranted, BeginSend, StartWrite, TypeOK
    <2> QED
      BY <1>1, <2>1
  <1>5. CASE PollGranted(t)
    BY <1>5, PollLineGranted
  <1>6. CASE ScanFindsDevice(t) \/ EstablishDone(t)
    <2>1. pc'[t] \in InPoll /\ UNCHANGED <<poll_lock, req>> /\ pc[t] \in InPoll
      BY <1>6 DEF ScanFindsDevice, EstablishDone, lockVars, TypeOK
    <2> QED
      BY <1>1, <2>1
  <1>7. CASE ScanRaises(t) \/ ConnectionFails(t) \/ WriteFails(t)
    BY <1>3, <1>7 DEF ScanRaises, ConnectionFails, WriteFails
  <1>8. CASE SubscribeDone(t)
    <2>1. CASE Raised(t, MarkConnected(status, TRUE), FALSE)
      BY <1>3, <1>8, <2>1 DEF SubscribeDone
    <2>2. CASE /\ StartWrite(t, MarkConnected(status, TRUE))
               /\ UNCHANGED <<poll_lock, req>>
      <3>1. pc'[t] \in InPoll /\ pc[t] \in InPoll
        BY <1>8, <2>2 DEF SubscribeDone, StartWrite, TypeOK
      <3> QED
        BY <1>1, <2>2, <3>1
    <2> QED
      BY <1>8, <2>1, <2>2 DEF SubscribeDone
  <1>9. CASE WriteDone(t)
    <2>1. pc[t] \in InPoll /\ UNCHANGED poll_lock
      BY <1>9 DEF WriteDone
    <2>2. CASE Polling(t) /\ pc' = [pc EXCEPT ![t] = "awaiting"] /\ UNCHANGED req
      <3>1. pc'[t] \in InPoll
        BY <2>2 DEF TypeOK
      <3> QED
        BY <1>1, <2>1, <2>2, <3>1
    <2>3. CASE ~Polling(t) /\ Answered(t, "OK")
      BY <1>2, <2>1, <2>3
    <2> QED
      BY <1>9, <2>2, <2>3 DEF WriteDone
  <1>10. CASE Receive(t) \/ ReadTimeout(t)
    BY <1>2, <1>10 DEF Receive, ReadTimeout, PollFailed
  <1> QED
    BY <1>4, <1>5, <1>6, <1>7, <1>8, <1>9, <1>10 DEF TaskStep

LEMMA PollLineClientStep ==
    ASSUME TypeOK, PollLineInv, NEW c \in Clients,
           ClientConnect(c) \/ HandleRequest(c)
    PROVE  PollLineInv'
  <1>0. /\ c \in Tasks
        /\ pc[c] \in {"idle", "reading"}
        /\ c \notin Pollers
        /\ \A u \in Tasks \ {c} : pc'[u] = pc[u] /\ req'[u] = req[u]
    BY ClientStepFrame DEF Tasks, Pollers, InPoll, Sending, Connecting
  <1>1. ASSUME pc'[c] # "poll_wait", UNCHANGED poll_lock
        PROVE  PollLineInv'
    BY <1>0, <1>1, PollLineMove
  <1>2. CASE PumpDataForce(c)
    <2>1. PollOnce(c) /\ req' = [req EXCEPT ![c] = "pump_data_force"]
      BY <1>2 DEF PumpDataForce
    <2>2. Polling(c)'
      BY <1>0, <2>1 DEF Polling, TypeOK
    <2> QED
      BY <1>0, <2>1, <2>2, PollLinePoll
  <1>3. CASE SendCommand(c)
    <2>1. pc'[c] # "poll_wait"
      BY <1>0, <1>3
      DEF SendCommand, RequestCommandLock, BeginSend, StartWrite, TypeOK
    <2> QED
      BY <1>1, <1>3, <2>1 DEF SendCommand
  <1>4. CASE ClientConnect(c)
    BY <1>0, <1>1, <1>4 DEF ClientConnect, lockVars, TypeOK
  <1>5. CASE \/ ClientCloses(c) \/ StatusQuery(c) \/ PumpData(c)
             \/ Malformed(c) \/ PollInProgress(c)
    BY <1>0, <1>1, <1>5
    DEF ClientCloses, StatusQuery, PumpData, Malformed, PollInProgress,
        Immediately, Answered, lockVars, TypeOK
  <1> QED
    BY <1>2, <1>3, <1>4, <1>5 DEF HandleRequest

LEMMA PollLineStep ==
    ASSUME TypeOK, PollLineInv, [Next]_vars
    PROVE  PollLineInv'
  <1>1. ASSUME NEW t \in Tasks, TaskStep(t)
        PROVE  PollLineInv'
    BY <1>1, PollLineTaskStep
  <1>2. CASE PollLoopTurn
    BY <1>2, PollLinePoll DEF PollLoopTurn, Polling, Tasks
  <1>3. ASSUME NEW c \in Clients, ClientConnect(c) \/ HandleRequest(c)
        PROVE  PollLineInv'
    BY <1>3, PollLineClientStep
  <1>4. CASE CancelPoll
    <2>1. PollWaiters' = {} /\ poll_lock' = FreeLock
      BY <1>4 DEF CancelPoll, HandlersDone, PollWaiters, TypeOK, Tasks
    <2> QED
      BY <2>1, ServedFree DEF PollLineInv
  <1>5. CASE Environment \/ StopRequested \/ Disconnected \/ Terminated
             \/ UNCHANGED vars
    <2>1. UNCHANGED <<poll_lock, pc, req>>
      BY <1>5
      DEF Environment, HandleDisconnect, AttemptDrops, DataHandler, RetryDue,
          DataAges, StopRequested, Disconnected, Terminated, vars, lockVars,
          taskVars
    <2> QED
      BY <2>1 DEF PollLineInv, Pollers, PollWaiters, Polling, Served, Locked
  <1> QED
    BY <1>1, <1>2, <1>3, <1>4, <1>5 DEF Next, Shutdown

(* Both locks serve, in every behaviour.                                   *)
THEOREM LocksServe == Spec => [](TypeOK /\ LineInv /\ PollLineInv)
  <1>1. LinkInvs /\ PollLineInv /\ [Next]_vars => LinkInvs' /\ PollLineInv'
    BY TypeOKStep, TaskInvStep, LockInvStep, WritesStep, SimulatedStep, PollLineStep
    DEF LinkInvs, Simulated
  <1>2. Init => LinkInvs
    BY TypeOKInit, TaskInvInit, LockInvInit, LineInvInit
    DEF LinkInvs, Init, NothingWrittenYet, WrittenOnce, Tasks
  <1>3. LinkInvs => TypeOK /\ LineInv
    BY DEF LinkInvs
  <1> QED
    BY <1>1, <1>2, <1>3, PollLineInit, PTL DEF Spec

(* A task whose next step asks for no lock, or for one it was woken for:   *)
(* it is inside bleak or in wait_for, which return or raise, or it runs as *)
(* soon as the event loop gets to it.                                      *)
Able(t) ==
    \/ pc[t] \in Sending \cup {"awaiting"}
    \/ pc[t] = "cmd_wait" /\ Woken(command_lock, t)
    \/ pc[t] = "poll_wait" /\ Woken(poll_lock, t)

LEMMA FirstIsWoken ==
    ASSUME NEW l \in LockOf(Tasks), NEW inside, NEW waiting, NEW t \in waiting,
           Served(l, inside, waiting), ~Locked(l)
    PROVE  \E u \in waiting : Woken(l, u)
  <1>1. l.waiters \in Seq(Tasks)
    BY DEF LockOf
  <1>2. PICK i \in DOMAIN l.waiters : l.waiters[i] = t
    BY DEF Served
  <1>3. l.waiters # << >> /\ 1 \in DOMAIN l.waiters /\ Head(l.waiters) = l.waiters[1]
    BY <1>1, <1>2
  <1>4. Head(l.waiters) \in waiting
    BY <1>3 DEF Served
  <1> QED
    BY <1>3, <1>4 DEF Woken

(* A task that waits for a lock waits for one that can go on, however many *)
(* handlers, polls and failures there were: no lock is left behind, no     *)
(* wake-up is lost, and the two locks make no circle (poll_once,           *)
(* send_command).  With fair scheduling this is what answers every request.*)
THEOREM NobodyWaitsInVain ==
    Spec => [](\A t \in Tasks :
                  pc[t] \in {"cmd_wait", "poll_wait"} => \E u \in Tasks : Able(u))
  <1>1. ASSUME TypeOK, LineInv, NEW t \in Tasks, pc[t] = "cmd_wait"
        PROVE  \E u \in Tasks : Able(u)
    <2>0. command_lock \in LockOf(Tasks) /\ t \in CommandWaiters
      BY <1>1 DEF TypeOK, CommandWaiters
    <2>1. CASE Locked(command_lock)
      BY <1>1, <2>1 DEF LineInv, Served, Senders, Able
    <2>2. CASE ~Locked(command_lock)
      <3>1. PICK u \in CommandWaiters : Woken(command_lock, u)
        BY <1>1, <2>0, <2>2, FirstIsWoken DEF LineInv
      <3> QED
        BY <3>1 DEF CommandWaiters, Able
    <2> QED
      BY <2>1, <2>2
  <1>2. ASSUME TypeOK, LineInv, PollLineInv, NEW t \in Tasks, pc[t] = "poll_wait"
        PROVE  \E u \in Tasks : Able(u)
    <2>0. poll_lock \in LockOf(Tasks) /\ t \in PollWaiters
      BY <1>2 DEF TypeOK, PollWaiters
    <2>1. CASE Locked(poll_lock)
      <3>1. PICK u \in Tasks : pc[u] \in InPoll
        BY <1>2, <2>1 DEF PollLineInv, Served, Pollers
      <3>2. CASE pc[u] = "cmd_wait"
        BY <1>1, <1>2, <3>2
      <3> QED
        BY <3>1, <3>2 DEF InPoll, Able
    <2>2. CASE ~Locked(poll_lock)
      <3>1. PICK u \in PollWaiters : Woken(poll_lock, u)
        BY <1>2, <2>0, <2>2, FirstIsWoken DEF PollLineInv
      <3> QED
        BY <3>1 DEF PollWaiters, Able
    <2> QED
      BY <2>1, <2>2
  <1>3. TypeOK /\ LineInv /\ PollLineInv =>
            \A t \in Tasks :
                pc[t] \in {"cmd_wait", "poll_wait"} => \E u \in Tasks : Able(u)
    BY <1>1, <1>2
  <1> QED
    BY <1>3, LocksServe, PTL

-----------------------------------------------------------------------------
(* The shutdown. *)

(* No handler begins that has not begun. *)
HandlersOnlyEnd ==
    server # "serving" =>
        \A c \in Clients : pc[c] = "idle" => pc'[c] = "idle"

LEMMA HandlersEnd ==
    ASSUME TypeOK, TaskInv, [Next]_vars
    PROVE  HandlersOnlyEnd
  <1> SUFFICES ASSUME server # "serving", NEW c \in Clients, pc[c] = "idle"
               PROVE  pc'[c] = "idle"
    BY DEF HandlersOnlyEnd
  <1>1. c \in Tasks /\ c # Poller
    BY PollerAssumption DEF Tasks
  <1>2. ASSUME NEW t \in Tasks, TaskStep(t)
        PROVE  pc'[c] = "idle"
    BY <1>1, <1>2, TaskStepFrame DEF InPoll, Sending, Connecting
  <1>3. CASE PollLoopTurn
    BY <1>1, <1>3
    DEF PollLoopTurn, PollOnce, GetData, RequestCommandLock, BeginSend,
        StartWrite, TypeOK
  <1>4. ASSUME NEW d \in Clients, ClientConnect(d) \/ HandleRequest(d)
        PROVE  pc'[c] = "idle"
    <2>1. HandleRequest(d)
      BY <1>4 DEF ClientConnect
    <2>2. pc[d] = "reading"
      BY <2>1
      DEF HandleRequest, ClientCloses, StatusQuery, PumpData, Malformed,
          PollInProgress, Immediately, PumpDataForce, SendCommand
    <2> QED
      BY <1>1, <1>4, <2>2, ClientStepFrame
  <1>5. CASE CancelPoll
    BY <1>1, <1>5 DEF CancelPoll, TypeOK
  <1>6. CASE UNCHANGED pc
    BY <1>6
  <1> QED
    BY <1>2, <1>3, <1>4, <1>5, <1>6
    DEF Next, Shutdown, Environment, HandleDisconnect, AttemptDrops, DataHandler,
        RetryDue, DataAges, StopRequested, Disconnected, Terminated, vars,
        taskVars

(* Handlers are waited for; only the poll loop is cancelled. *)
HandlersNotCancelled == \A c \in Clients : pc[c] # "cancelled"

LEMMA NotCancelledStep ==
    ASSUME TypeOK, HandlersNotCancelled, [Next]_vars
    PROVE  HandlersNotCancelled'
  <1> SUFFICES ASSUME NEW c \in Clients, pc'[c] = "cancelled"
               PROVE  FALSE
    BY DEF HandlersNotCancelled
  <1>1. c \in Tasks /\ c # Poller /\ pc[c] # "cancelled"
    BY PollerAssumption DEF Tasks, HandlersNotCancelled
  <1>2. ASSUME NEW t \in Tasks, NEW place, pc' = [pc EXCEPT ![t] = place],
               place # "cancelled"
        PROVE  FALSE
    BY <1>1, <1>2 DEF TypeOK
  <1>3. ASSUME UNCHANGED pc PROVE FALSE
    BY <1>1, <1>3
  <1>4. ASSUME NEW t \in Tasks, BeginSend(t) PROVE FALSE
    BY <1>2, <1>4 DEF BeginSend, StartWrite
  <1>5. ASSUME NEW t \in Tasks, RequestCommandLock(t) PROVE FALSE
    BY <1>2, <1>4, <1>5 DEF RequestCommandLock
  <1>6. ASSUME NEW t \in Tasks, PollOnce(t) \/ GetData(t) PROVE FALSE
    BY <1>2, <1>5, <1>6 DEF PollOnce, GetData
  <1>7. ASSUME NEW t \in Tasks, NEW r, Answered(t, r) PROVE FALSE
    BY <1>2, <1>7 DEF Answered
  <1>8. ASSUME NEW t \in Tasks, NEW q, NEW up, Raised(t, q, up) \/ PollFailed(t, q, up)
        PROVE  FALSE
    BY <1>2, <1>7, <1>8 DEF Raised, PollFailed
  <1>9. ASSUME NEW t \in Tasks, TaskStep(t) PROVE FALSE
    <2>1. ~CommandGranted(t) /\ ~PollGranted(t)
      BY <1>4, <1>6, <1>9 DEF CommandGranted, PollGranted
    <2>2. ~ScanFindsDevice(t) /\ ~EstablishDone(t)
      BY <1>2, <1>9 DEF ScanFindsDevice, EstablishDone
    <2>3. ~ScanRaises(t) /\ ~ConnectionFails(t) /\ ~WriteFails(t) /\ ~ReadTimeout(t)
      BY <1>8, <1>9 DEF ScanRaises, ConnectionFails, WriteFails, ReadTimeout
    <2>4. ~SubscribeDone(t)
      BY <1>2, <1>8, <1>9 DEF SubscribeDone, StartWrite
    <2>5. ~WriteDone(t) /\ ~Receive(t)
      BY <1>2, <1>7, <1>8, <1>9 DEF WriteDone, Receive
    <2> QED
      BY <1>9, <2>1, <2>2, <2>3, <2>4, <2>5 DEF TaskStep
  <1>10. ~PollLoopTurn
    BY <1>6 DEF PollLoopTurn, Tasks
  <1>11. ASSUME NEW d \in Clients, ClientConnect(d) \/ HandleRequest(d) PROVE FALSE
    <2>1. d \in Tasks
      BY DEF Tasks
    <2>2. ~ClientConnect(d)
      BY <1>2, <2>1 DEF ClientConnect
    <2> QED
      BY <1>5, <1>6, <1>7, <1>11, <2>1, <2>2
      DEF HandleRequest, ClientCloses, StatusQuery, PumpData, Malformed,
          PollInProgress, Immediately, PumpDataForce, SendCommand
  <1>12. ~CancelPoll
    BY <1>1 DEF CancelPoll, TypeOK
  <1> QED
    BY <1>3, <1>9, <1>10, <1>11, <1>12
    DEF Next, Shutdown, Environment, HandleDisconnect, AttemptDrops, DataHandler,
        RetryDue, DataAges, StopRequested, Disconnected, Terminated, vars,
        taskVars

(* run_daemon's wait_closed() waits for handlers of which one can go on or *)
(* has a request to read, and which get no company: the number of those it *)
(* waits for only falls.  (The safety half of StopCompletes.)              *)
THEOREM ShutdownGoesOn ==
    Spec => /\ [](server = "closing" =>
                    \/ HandlersDone
                    \/ \E c \in Clients : pc[c] = "reading"
                    \/ \E t \in Tasks : Able(t))
            /\ [][HandlersOnlyEnd]_vars
  <1> DEFINE Waits == \A t \in Tasks :
                         pc[t] \in {"cmd_wait", "poll_wait"} => \E u \in Tasks : Able(u)
             GoesOn == server = "closing" =>
                          \/ HandlersDone
                          \/ \E c \in Clients : pc[c] = "reading"
                          \/ \E t \in Tasks : Able(t)
  <1>1. Init => HandlersNotCancelled
    BY DEF Init, HandlersNotCancelled, Tasks
  <1>2. TypeOK /\ HandlersNotCancelled /\ [Next]_vars => HandlersNotCancelled'
    BY NotCancelledStep
  <1>3. TypeOK /\ HandlersNotCancelled /\ Waits => GoesOn
    <2> SUFFICES ASSUME TypeOK, HandlersNotCancelled, Waits, server = "closing",
                        NEW c \in Clients, pc[c] \notin {"idle", "reading"}
                 PROVE  \E t \in Tasks : Able(t)
      BY DEF HandlersDone
    <2>1. c \in Tasks /\ pc[c] \in Pcs /\ pc[c] # "cancelled"
      BY DEF Tasks, TypeOK, HandlersNotCancelled
    <2> QED
      BY <2>1 DEF Pcs, Able
  <1>4. TypeOK /\ TaskInv /\ [Next]_vars => [HandlersOnlyEnd]_vars
    BY HandlersEnd
  <1> QED
    BY <1>1, <1>2, <1>3, <1>4, LocksCorrect, NobodyWaitsInVain, PTL DEF Spec
=============================================================================
