---------------------------- MODULE SetupAlerts -----------------------------
(***************************************************************************)
(* The mails about setup events (harmonic_alerts.notify_pending): a task   *)
(* reads the events that wait in the outbox, plans one mail per subscriber,*)
(* sends them over one SMTP session and marks what every subscriber has    *)
(* got.  Several such tasks may be at work.                                *)
(***************************************************************************)
EXTENDS Naturals, FiniteSets

CONSTANTS
  Users,       \* subscribers with an address
  Events,      \* ids of harmonic_setup_events
  Wants,       \* Wants[e]: the subscribers whose settings match (matches)
  Notifiers,   \* notify_harmonic_setup_events tasks that may be at work
  Limit,       \* limit of pending
  Faults,      \* kinds of faults that may happen
  MaxFaults

ASSUME ConstantsAssumption ==
  /\ Events \subseteq Nat /\ IsFiniteSet(Events) /\ IsFiniteSet(Notifiers)
  /\ Wants \in [Events -> SUBSET Users]
  /\ Limit \in Nat \ {0}
  /\ Faults \subseteq {"connection", "crash", "unread"}
  /\ MaxFaults \in Nat

VARIABLES
  event,     \* event[e]: "none" before add_many, notified_at afterwards
  old,       \* events older than MAX_EVENT_AGE_S
  smtp,      \* whether connecting and logging in succeed
  mails,     \* mails[u][e]: how many mails about e have reached u
  refused,   \* <<u, e>>: the server refused a mail to u about e
  unread,    \* events planned without the subscribers, who could not be read
  run,       \* run[n]: progress and local variables of notifier n
  faults

vars == <<event, old, smtp, mails, refused, unread, run, faults>>

Labels == {"idle", "plan", "connect", "send", "mark"}

IdleRun == [pc |-> "idle", read |-> {}, stale |-> {}, owed |-> {}]

Runs ==
  [pc    : Labels,
   read  : SUBSET Events,              \* pending when read
   stale : SUBSET Events,
   owed  : SUBSET (Users \X Events)]   \* to whom an event is still owed

At(n, label) == run[n].pc = label

Fresh(n) == run[n].read \ run[n].stale

TypeOK ==
  /\ event \in [Events -> {"none", "pending", "notified"}]
  /\ old \subseteq Events
  /\ smtp \in BOOLEAN
  /\ mails \in [Users -> [Events -> Nat]]
  /\ refused \subseteq Users \X Events
  /\ unread \subseteq Events
  /\ run \in [Notifiers -> Runs]
  /\ faults \in 0..MaxFaults
  /\ \A n \in Notifiers : \A p \in run[n].owed : p[2] \in Fresh(n) /\ p[1] \in Wants[p[2]]

Init ==
  /\ event = [e \in Events |-> "none"]
  /\ old = {}
  /\ smtp \in BOOLEAN
  /\ mails = [u \in Users |-> [e \in Events |-> 0]]
  /\ refused = {}
  /\ unread = {}
  /\ run = [n \in Notifiers |-> IdleRun]
  /\ faults = 0

-----------------------------------------------------------------------------
\* add_many of the tracking: ids grow
AddEvent(e) ==
  /\ event[e] = "none"
  /\ \A f \in Events : f < e => event[f] # "none"
  /\ event' = [event EXCEPT ![e] = "pending"]
  /\ UNCHANGED <<old, smtp, mails, refused, unread, run, faults>>

Age(e) ==
  /\ event[e] = "pending"
  /\ old' = old \cup {e}
  /\ UNCHANGED <<event, smtp, mails, refused, unread, run, faults>>

Outage ==
  /\ smtp' = ~smtp
  /\ UNCHANGED <<event, old, mails, refused, unread, run, faults>>

-----------------------------------------------------------------------------
Pending == {e \in Events : event[e] = "pending"}

\* ORDER BY e.id LIMIT limit
Oldest(waiting) == {e \in waiting : Cardinality({f \in waiting : f < e}) < Limit}

\* Without pending events the task ends at once.
ReadPending(n) ==
  LET read == Oldest(Pending) IN
  /\ At(n, "idle")
  /\ read # {}
  /\ run' = [run EXCEPT ![n] = [IdleRun EXCEPT !.pc = "plan", !.read = read,
                                               !.stale = read \cap old]]
  /\ UNCHANGED <<event, old, smtp, mails, refused, unread, faults>>

\* recipients: the fresh events each subscriber wants
Owed(n) == {p \in Users \X Fresh(n) : p[1] \in Wants[p[2]]}

\* Without a recipient no session is opened.
Plan(n) ==
  /\ At(n, "plan")
  /\ run' = [run EXCEPT ![n].pc = IF Owed(n) = {} THEN "mark" ELSE "connect",
                        ![n].owed = Owed(n)]
  /\ UNCHANGED <<event, old, smtp, mails, refused, unread, faults>>

\* SmtpSession.__enter__; an error there ends the delivery before any mail
Connect(n) ==
  /\ At(n, "connect")
  /\ run' = [run EXCEPT ![n].pc = IF smtp THEN "send" ELSE "mark"]
  /\ UNCHANGED <<event, old, smtp, mails, refused, unread, faults>>

\* The users the session has not come to, in whatever order, and their events.
Recipients(n) == {p[1] : p \in run[n].owed}

Mine(n, u) == {p \in run[n].owed : p[1] = u}

Arrives(n, u) ==
  mails' = [mails EXCEPT ![u] = [e \in Events |-> IF <<u, e>> \in Mine(n, u) THEN @[e] + 1 ELSE @[e]]]

\* After the mail to u: on to the next, or to marking.
Served(n, u) ==
  run' = [run EXCEPT ![n].owed = @ \ Mine(n, u),
                     ![n].pc = IF Recipients(n) = {u} THEN "mark" ELSE "send"]

Send(n) ==
  /\ At(n, "send")
  /\ \E u \in Recipients(n) : Arrives(n, u) /\ Served(n, u)
  /\ UNCHANGED <<event, old, smtp, refused, unread, faults>>

\* A refusal of one address or mail counts as handled.
Refuse(n) ==
  /\ At(n, "send")
  /\ \E u \in Recipients(n) : refused' = refused \cup Mine(n, u) /\ Served(n, u)
  /\ UNCHANGED <<event, old, smtp, mails, unread, faults>>

\* Variant: everything that was read is marked.
Done_Read(n) == run[n].read

\* Variant: what was delivered is not marked.
Done_Stale(n) == run[n].stale

\* Variant: stale events are left alone.
Done_Fresh(n) == {e \in Fresh(n) : \A p \in run[n].owed : p[2] # e}

\* stale, or nobody is owed it any more
Done(n) == run[n].stale \cup {e \in Fresh(n) : \A p \in run[n].owed : p[2] # e}

Mark(n) ==
  /\ At(n, "mark")
  /\ event' = [e \in Events |-> IF e \in Done(n) THEN "notified" ELSE event[e]]
  /\ run' = [run EXCEPT ![n] = IdleRun]
  /\ UNCHANGED <<old, smtp, mails, refused, unread, faults>>

-----------------------------------------------------------------------------
Fault(kind) ==
  /\ kind \in Faults
  /\ faults < MaxFaults
  /\ faults' = faults + 1

(* The connection breaks at the mail to u, before or after the server has  *)
(* taken it; the loop ends.                                                *)
Abort(n) ==
  /\ At(n, "send")
  /\ Fault("connection")
  /\ \E u \in Recipients(n) : Arrives(n, u) \/ UNCHANGED mails
  /\ run' = [run EXCEPT ![n].pc = "mark"]
  /\ UNCHANGED <<event, old, smtp, refused, unread>>

\* A lost worker; the task is delivered again.
Crash(n) ==
  /\ ~At(n, "idle")
  /\ Fault("crash")
  /\ run' = [run EXCEPT ![n] = IdleRun]
  /\ UNCHANGED <<event, old, smtp, mails, refused, unread>>

\* fetch_all turns an error of the database into no subscribers.
SubscribersUnread(n) ==
  /\ At(n, "plan")
  /\ Fault("unread")
  /\ unread' = unread \cup Fresh(n)
  /\ run' = [run EXCEPT ![n].pc = "mark"]
  /\ UNCHANGED <<event, old, smtp, mails, refused>>

-----------------------------------------------------------------------------
Work(n) == ReadPending(n) \/ Plan(n) \/ Connect(n) \/ Send(n) \/ Refuse(n) \/ Mark(n)

Next ==
  \/ \E e \in Events : AddEvent(e) \/ Age(e)
  \/ Outage
  \/ \E n \in Notifiers : Work(n) \/ Abort(n) \/ Crash(n) \/ SubscribersUnread(n)

Spec == Init /\ [][Next]_vars

(* A notifier is sent after every round of tracking and goes on once it    *)
(* has begun; time passes.  The mail server may be out of reach for ever.  *)
Fairness ==
  /\ \A n \in Notifiers : WF_vars(Work(n))
  /\ \A e \in Events : WF_vars(Age(e))

FairSpec == Spec /\ Fairness

-----------------------------------------------------------------------------
\* What notify_pending owes the subscribers of e is settled.
Settled(e) ==
  \/ e \in old
  \/ \A u \in Wants[e] : mails[u][e] > 0 \/ <<u, e>> \in refused

(* Only what has arrived is marked as handled (harmonic_alerts.py:337): a  *)
(* marked event was mailed to everyone who wants it, unless the mail was   *)
(* refused or the event too old.                                           *)
MarkedIsDelivered == \A e \in Events : event[e] = "notified" => Settled(e)

(* The same but for events of a run that could not read the subscribers:   *)
(* a session that breaks off, a crash and notifiers at work at the same    *)
(* time leave nobody out.                                                  *)
NobodyLeftOut ==
  \A e \in Events : event[e] = "notified" => Settled(e) \/ e \in unread

(* Nobody gets an event over and over: once for each notifier at work at   *)
(* the same time and once more for each interruption.                      *)
MailsBounded ==
  \A u \in Users, e \in Events : mails[u][e] <= Cardinality(Notifiers) + faults

(* Every event is closed in the end, also when the mail server stays away. *)
EventsClosed == \A e \in Events : event[e] = "pending" ~> event[e] = "notified"
=============================================================================
