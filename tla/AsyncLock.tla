----------------------------- MODULE AsyncLock -----------------------------
(***************************************************************************)
(* asyncio.Lock as src/ uses it (heater_daemon.py: _connect_lock,          *)
(* _command_lock, poll_lock).  The standard library is outside the         *)
(* repository; what the code relies on is                                  *)
(*   - mutual exclusion,                                                   *)
(*   - first come, first served: acquire() takes the fast path only when   *)
(*     the lock is free and nobody waits, otherwise it queues,             *)
(*   - release() frees the lock and wakes the first waiter, which takes    *)
(*     the lock only when the event loop runs it: in between locked() is   *)
(*     FALSE although a waiter exists.                                     *)
(***************************************************************************)
EXTENDS Sequences

CONSTANT NoTask     \* the holder of a free lock

(* A lock nobody holds and nobody waits for: asyncio.Lock(). *)
FreeLock == [holder |-> NoTask, waiters |-> << >>]

LockOf(Task) == [holder : Task \cup {NoTask}, waiters : Seq(Task)]

(* Lock.locked() *)
Locked(l) == l.holder # NoTask

(* The fast path of acquire() is open. *)
Available(l) == ~Locked(l) /\ l.waiters = << >>

Acquired(l, t) == [l EXCEPT !.holder = t]

Enqueued(l, t) == [l EXCEPT !.waiters = Append(@, t)]

(* t was woken by release() and may now take the lock. *)
Woken(l, t) == ~Locked(l) /\ l.waiters # << >> /\ Head(l.waiters) = t

Resumed(l, t) == [holder |-> t, waiters |-> Tail(l.waiters)]

Released(l) == [l EXCEPT !.holder = NoTask]

=============================================================================
