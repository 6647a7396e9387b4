------------------------- MODULE SetupAlertsProofs --------------------------
(***************************************************************************)
(* Proofs about SetupAlerts: types, and that nobody is left out, for any   *)
(* number of subscribers, events, notifiers and faults.                    *)
(***************************************************************************)
EXTENDS SetupAlerts, FiniteSetTheorems, TLAPS

\* What a subscriber is due about e: still owed by n, or dealt with.
Due(n, u, e) ==
  \/ <<u, e>> \in run[n].owed
  \/ mails[u][e] > 0
  \/ <<u, e>> \in refused
  \/ e \in unread

\* From the plan on a notifier has forgotten nobody, and what it closes
\* without a mail is old.
PlanIsComplete ==
  \A n \in Notifiers :
    /\ run[n].stale \subseteq old
    /\ run[n].pc \in {"connect", "send", "mark"} =>
         \A e \in Fresh(n) : \A u \in Wants[e] : Due(n, u, e)

IInv == TypeOK /\ PlanIsComplete /\ NobodyLeftOut

-----------------------------------------------------------------------------
(* Before the first event nothing is planned and nothing is marked.        *)
LEMMA Initially == Init => IInv
  BY ConstantsAssumption
     DEF Init, IInv, TypeOK, PlanIsComplete, NobodyLeftOut, Settled, IdleRun, Runs, Labels, Fresh

\* The part of TypeOK about the runs.
RunsOK ==
  /\ run \in [Notifiers -> Runs]
  /\ \A n \in Notifiers : \A p \in run[n].owed : p[2] \in Fresh(n) /\ p[1] \in Wants[p[2]]

(* A notifier that changes its plan consistently leaves the plans in order.*)
LEMMA OneRun ==
  ASSUME RunsOK, NEW n \in Notifiers, NEW r \in Runs, run' = [run EXCEPT ![n] = r],
         \A p \in r.owed : p[2] \in r.read \ r.stale /\ p[1] \in Wants[p[2]]
  PROVE  RunsOK'
  BY DEF RunsOK, Fresh

(* A step keeps the types.                                                 *)
LEMMA TypeStep == TypeOK /\ [Next]_vars => TypeOK'
<1> SUFFICES ASSUME TypeOK, [Next]_vars PROVE TypeOK'
  OBVIOUS
<1> USE ConstantsAssumption
<1>1. CASE UNCHANGED vars
  BY <1>1 DEF vars, TypeOK, Fresh
<1>2. ASSUME NEW e \in Events, AddEvent(e) PROVE TypeOK'
  BY <1>2 DEF AddEvent, TypeOK, Fresh
<1>3. ASSUME NEW e \in Events, Age(e) PROVE TypeOK'
  BY <1>3 DEF Age, TypeOK, Fresh
<1>4. CASE Outage
  BY <1>4 DEF Outage, TypeOK, Fresh
<1>5. ASSUME NEW n \in Notifiers, ReadPending(n) PROVE TypeOK'
  <2> DEFINE read == Oldest(Pending)
             new == [IdleRun EXCEPT !.pc = "plan", !.read = read, !.stale = read \cap old]
  <2>1. read \subseteq Events
    BY DEF Oldest, Pending
  <2> HIDE DEF read
  <2>2. new \in Runs /\ new.owed = {}
    BY <2>1 DEF IdleRun, Runs, Labels
  <2>3. run' = [run EXCEPT ![n] = new]
    BY <1>5 DEF ReadPending, read
  <2> HIDE DEF new
  <2> QED
    BY <1>5, <2>2, <2>3 DEF ReadPending, TypeOK, Fresh
<1>6. ASSUME NEW n \in Notifiers, Plan(n) PROVE TypeOK'
  <2> DEFINE new == [run[n] EXCEPT !.pc = IF Owed(n) = {} THEN "mark" ELSE "connect",
                                   !.owed = Owed(n)]
  <2>1. Owed(n) \subseteq Users \X Events
    BY DEF Owed, Fresh, TypeOK, Runs
  <2>2. /\ new \in Runs /\ new.owed = Owed(n)
        /\ new.read = run[n].read /\ new.stale = run[n].stale
    BY <2>1 DEF TypeOK, Runs, Labels
  <2>3. run' = [run EXCEPT ![n] = new]
    BY <1>6 DEF Plan, TypeOK, Runs
  <2>4. \A p \in Owed(n) : p[2] \in run[n].read \ run[n].stale /\ p[1] \in Wants[p[2]]
    BY DEF Owed, Fresh
  <2> HIDE DEF new
  <2>5. RunsOK'
    BY <2>2, <2>3, <2>4, OneRun DEF RunsOK, TypeOK
  <2> QED
    BY <1>6, <2>5 DEF Plan, RunsOK, TypeOK
<1>7. ASSUME NEW n \in Notifiers, Connect(n) PROVE TypeOK'
  BY <1>7 DEF Connect, TypeOK, Runs, Labels, Fresh
<1>8. ASSUME NEW n \in Notifiers, NEW u \in Users, Served(n, u) PROVE RunsOK'
  <2> DEFINE label == IF Recipients(n) = {u} THEN "mark" ELSE "send"
             new == [run[n] EXCEPT !.owed = @ \ Mine(n, u), !.pc = label]
  <2>1. label \in Labels
    BY DEF Labels
  <2>2. run' = [run EXCEPT ![n] = new]
    BY <1>8 DEF Served, TypeOK, Runs
  <2> HIDE DEF label
  <2>3. /\ new \in Runs /\ new.owed \subseteq run[n].owed
        /\ new.read = run[n].read /\ new.stale = run[n].stale
    BY <2>1 DEF TypeOK, Runs
  <2>4. \A p \in run[n].owed : p[2] \in run[n].read \ run[n].stale /\ p[1] \in Wants[p[2]]
    BY DEF TypeOK, Fresh
  <2> HIDE DEF new
  <2> QED
    BY <2>2, <2>3, <2>4, OneRun DEF RunsOK, TypeOK
<1>9. ASSUME NEW n \in Notifiers, NEW u \in Users, Arrives(n, u)
      PROVE mails' \in [Users -> [Events -> Nat]]
  BY <1>9 DEF Arrives, TypeOK
<1>10. ASSUME NEW n \in Notifiers PROVE Recipients(n) \subseteq Users
  BY DEF Recipients, TypeOK, Runs
<1>11. ASSUME NEW n \in Notifiers, Send(n) PROVE TypeOK'
  BY <1>8, <1>9, <1>10, <1>11 DEF Send, RunsOK, TypeOK
<1>12. ASSUME NEW n \in Notifiers, Refuse(n) PROVE TypeOK'
  <2>1. PICK u \in Recipients(n) : refused' = refused \cup Mine(n, u) /\ Served(n, u)
    BY <1>12 DEF Refuse
  <2>2. Mine(n, u) \subseteq Users \X Events
    BY DEF Mine, TypeOK, Runs
  <2> QED
    BY <1>8, <1>10, <1>12, <2>1, <2>2 DEF Refuse, RunsOK, TypeOK
<1>13. ASSUME NEW n \in Notifiers, Mark(n) PROVE TypeOK'
  BY <1>13 DEF Mark, IdleRun, TypeOK, Runs, Labels, Fresh
<1>14. ASSUME NEW n \in Notifiers, Abort(n) PROVE TypeOK'
  <2>1. mails' \in [Users -> [Events -> Nat]]
    BY <1>9, <1>10, <1>14 DEF Abort, TypeOK
  <2> DEFINE new == [run[n] EXCEPT !.pc = "mark"]
  <2>2. /\ new \in Runs /\ new.owed = run[n].owed
        /\ new.read = run[n].read /\ new.stale = run[n].stale
    BY DEF TypeOK, Runs, Labels
  <2>3. run' = [run EXCEPT ![n] = new]
    BY <1>14 DEF Abort, TypeOK, Runs
  <2>4. \A p \in run[n].owed : p[2] \in run[n].read \ run[n].stale /\ p[1] \in Wants[p[2]]
    BY DEF TypeOK, Fresh
  <2> HIDE DEF new
  <2>5. RunsOK'
    BY <2>2, <2>3, <2>4, OneRun DEF RunsOK, TypeOK
  <2>6. faults' \in 0..MaxFaults
    BY <1>14 DEF Abort, Fault, TypeOK
  <2> QED
    BY <1>14, <2>1, <2>5, <2>6 DEF Abort, RunsOK, TypeOK
<1>15. ASSUME NEW n \in Notifiers, Crash(n) PROVE TypeOK'
  BY <1>15 DEF Crash, Fault, IdleRun, TypeOK, Runs, Labels, Fresh
<1>16. ASSUME NEW n \in Notifiers, SubscribersUnread(n) PROVE TypeOK'
  BY <1>16 DEF SubscribersUnread, Fault, TypeOK, Runs, Labels, Fresh
<1> QED
  BY <1>1, <1>2, <1>3, <1>4, <1>5, <1>6, <1>7, <1>11, <1>12, <1>13, <1>14, <1>15, <1>16
     DEF Next, Work

-----------------------------------------------------------------------------
(* Nothing that has been done for a subscriber is undone.                  *)
LEMMA Monotone ==
  ASSUME TypeOK, [Next]_vars
  PROVE  /\ old \subseteq old'
         /\ refused \subseteq refused'
         /\ unread \subseteq unread'
         /\ \A u \in Users, e \in Events : mails[u][e] > 0 => mails'[u][e] > 0
<1>1. ASSUME NEW n \in Notifiers, NEW v \in Users, Arrives(n, v)
      PROVE \A u \in Users, e \in Events : mails[u][e] > 0 => mails'[u][e] > 0
  BY <1>1 DEF Arrives, TypeOK
<1>2. ASSUME NEW n \in Notifiers PROVE Recipients(n) \subseteq Users
  BY DEF Recipients, TypeOK, Runs
<1>3. CASE UNCHANGED vars
  BY <1>3 DEF vars
<1>4. CASE \/ \E e \in Events : AddEvent(e) \/ Age(e)
           \/ Outage
  BY <1>4 DEF AddEvent, Age, Outage
<1>5. ASSUME NEW n \in Notifiers, Send(n) \/ Abort(n)
      PROVE \A u \in Users, e \in Events : mails[u][e] > 0 => mails'[u][e] > 0
  BY <1>1, <1>2, <1>5 DEF Send, Abort
<1>6. ASSUME NEW n \in Notifiers, Send(n) \/ Abort(n)
      PROVE UNCHANGED <<old, refused, unread>>
  BY <1>6 DEF Send, Abort
<1>7. ASSUME NEW n \in Notifiers,
             \/ ReadPending(n) \/ Plan(n) \/ Connect(n) \/ Refuse(n) \/ Mark(n)
             \/ Crash(n) \/ SubscribersUnread(n)
      PROVE UNCHANGED <<old, mails>> /\ refused \subseteq refused' /\ unread \subseteq unread'
  BY <1>7 DEF ReadPending, Plan, Connect, Refuse, Mark, Crash, SubscribersUnread
<1> QED
  BY <1>3, <1>4, <1>5, <1>6, <1>7 DEF Next, Work

(* A notifier plans for everyone and strikes off only whom it has served.  *)
LEMMA PlanStep == TypeOK /\ PlanIsComplete /\ [Next]_vars => PlanIsComplete'
<1> SUFFICES ASSUME TypeOK, PlanIsComplete, [Next]_vars, NEW m \in Notifiers
             PROVE  /\ run'[m].stale \subseteq old'
                    /\ run'[m].pc \in {"connect", "send", "mark"} =>
                         \A e \in Fresh(m)' : \A u \in Wants[e] : Due(m, u, e)'
  BY DEF PlanIsComplete
<1> USE ConstantsAssumption
<1>1. /\ old \subseteq old'
      /\ refused \subseteq refused'
      /\ unread \subseteq unread'
      /\ \A u \in Users, e \in Events : mails[u][e] > 0 => mails'[u][e] > 0
  BY Monotone
<1>2. ASSUME NEW n \in Notifiers PROVE Fresh(n) \subseteq Events /\ \A e \in Events : Wants[e] \subseteq Users
  BY DEF Fresh, TypeOK, Runs
<1>3. CASE run'[m] = run[m]
  BY <1>1, <1>2, <1>3 DEF PlanIsComplete, Due, Fresh
<1>4. CASE ReadPending(m)
  BY <1>1, <1>4 DEF ReadPending, IdleRun, TypeOK
<1>5. CASE Plan(m)
  BY <1>1, <1>2, <1>5 DEF Plan, Owed, PlanIsComplete, Due, Fresh, TypeOK, Runs
<1>6. CASE Connect(m)
  <2>1. /\ run'[m] = [run[m] EXCEPT !.pc = IF smtp THEN "send" ELSE "mark"]
        /\ At(m, "connect")
        /\ UNCHANGED <<old, mails, refused, unread>>
    BY <1>6 DEF Connect, TypeOK
  <2> QED
    BY <2>1 DEF At, PlanIsComplete, Due, Fresh, TypeOK, Runs
<1>7. ASSUME NEW u \in Users, Served(m, u), At(m, "send"),
             \A e \in Events : <<u, e>> \in Mine(m, u) =>
                               mails'[u][e] > 0 \/ <<u, e>> \in refused'
      PROVE  /\ run'[m].stale \subseteq old'
             /\ \A e \in Fresh(m)' : \A w \in Wants[e] : Due(m, w, e)'
  <2>1. run'[m].stale = run[m].stale /\ run'[m].read = run[m].read
    BY <1>7 DEF Served, TypeOK, Runs
  <2>2. run'[m].owed = run[m].owed \ Mine(m, u)
    BY <1>7 DEF Served, TypeOK, Runs
  <2>3. ASSUME NEW e \in Fresh(m), NEW w \in Wants[e] PROVE Due(m, w, e)'
    <3>1. Due(m, w, e)
      BY <1>7 DEF At, PlanIsComplete
    <3>2. CASE <<w, e>> \in Mine(m, u)
      <4>1. w = u
        BY <3>2 DEF Mine
      <4>2. e \in Events
        BY <1>2
      <4>3. mails'[u][e] > 0 \/ <<u, e>> \in refused'
        BY <1>7, <3>2, <4>1, <4>2
      <4> QED
        BY <4>1, <4>3 DEF Due
    <3> QED
      BY <1>1, <1>2, <2>2, <3>1, <3>2 DEF Due
  <2> QED
    BY <1>1, <2>1, <2>3 DEF PlanIsComplete, Fresh
<1>8. ASSUME NEW u \in Users PROVE Mine(m, u) \subseteq Users \X Events /\ \A p \in Mine(m, u) : p[1] = u
  BY DEF Mine, TypeOK, Runs
<1>9. Recipients(m) \subseteq Users
  BY DEF Recipients, TypeOK, Runs
<1>10. CASE Send(m)
  <2>1. PICK u \in Recipients(m) : Arrives(m, u) /\ Served(m, u)
    BY <1>10 DEF Send
  <2>2. ASSUME NEW e \in Events, <<u, e>> \in Mine(m, u) PROVE mails'[u][e] > 0
    <3>1. mails[u] \in [Events -> Nat]
      BY <1>9 DEF TypeOK
    <3>2. mails'[u] = [f \in Events |-> IF <<u, f>> \in Mine(m, u) THEN mails[u][f] + 1
                                                                ELSE mails[u][f]]
      BY <1>9, <2>1 DEF Arrives, TypeOK
    <3>3. mails'[u][e] = mails[u][e] + 1
      BY <2>2, <3>2
    <3>4. mails[u][e] \in Nat
      BY <3>1
    <3> QED
      BY <3>3, <3>4
  <2> QED
    BY <1>7, <1>9, <1>10, <2>1, <2>2 DEF Send
<1>11. CASE Refuse(m)
  <2>1. PICK u \in Recipients(m) : refused' = refused \cup Mine(m, u) /\ Served(m, u)
    BY <1>11 DEF Refuse
  <2> QED
    BY <1>7, <1>9, <1>11, <2>1 DEF Refuse
<1>12. CASE Mark(m) \/ Crash(m)
  BY <1>1, <1>12 DEF Mark, Crash, IdleRun, TypeOK
<1>13. CASE Abort(m)
  <2>1. run'[m] = [run[m] EXCEPT !.pc = "mark"] /\ At(m, "send")
    BY <1>13 DEF Abort, TypeOK
  <2> QED
    BY <1>1, <1>2, <2>1 DEF At, PlanIsComplete, Due, Fresh, TypeOK, Runs
<1>14. CASE SubscribersUnread(m)
  BY <1>1, <1>14 DEF SubscribersUnread, PlanIsComplete, Due, Fresh, TypeOK, Runs
<1>15. ASSUME NEW n \in Notifiers, n # m, Work(n) \/ Abort(n) \/ Crash(n) \/ SubscribersUnread(n)
       PROVE run'[m] = run[m]
  BY <1>15 DEF Work, ReadPending, Plan, Connect, Send, Refuse, Served, Mark, Abort, Crash,
               SubscribersUnread, TypeOK
<1>16. CASE \/ UNCHANGED vars
            \/ \E e \in Events : AddEvent(e) \/ Age(e)
            \/ Outage
  BY <1>3, <1>16 DEF vars, AddEvent, Age, Outage
<1>17. CASE Work(m) \/ Abort(m) \/ Crash(m) \/ SubscribersUnread(m)
  BY <1>4, <1>5, <1>6, <1>10, <1>11, <1>12, <1>13, <1>14, <1>17 DEF Work
<1> QED
  BY <1>3, <1>15, <1>16, <1>17 DEF Next

(* Only Mark marks, and it leaves out whoever is still owed the event.     *)
LEMMA MarkStep == IInv /\ [Next]_vars => NobodyLeftOut'
<1> SUFFICES ASSUME IInv, [Next]_vars, NEW e \in Events, event'[e] = "notified"
             PROVE  Settled(e)' \/ e \in unread'
  BY DEF NobodyLeftOut
<1> USE ConstantsAssumption
<1>1. /\ old \subseteq old'
      /\ refused \subseteq refused'
      /\ unread \subseteq unread'
      /\ \A u \in Users, f \in Events : mails[u][f] > 0 => mails'[u][f] > 0
  BY Monotone DEF IInv
<1>2. Wants[e] \subseteq Users
  OBVIOUS
<1>3. CASE event[e] = "notified"
  BY <1>1, <1>2, <1>3 DEF IInv, NobodyLeftOut, Settled
<1>4. ASSUME NEW n \in Notifiers, Mark(n), e \in Done(n) PROVE Settled(e)' \/ e \in unread'
  <2>1. CASE e \in run[n].stale
    BY <1>1, <2>1 DEF IInv, PlanIsComplete, Settled
  <2>2. CASE e \in Fresh(n) /\ \A p \in run[n].owed : p[2] # e
    <3>1. ASSUME NEW u \in Wants[e] PROVE <<u, e>> \notin run[n].owed
      BY <2>2
    <3>2. \A u \in Wants[e] : Due(n, u, e)
      BY <1>4, <2>2 DEF IInv, PlanIsComplete, Mark, At
    <3> QED
      BY <1>1, <1>2, <3>1, <3>2 DEF Due, Settled
  <2> QED
    BY <1>4, <2>1, <2>2 DEF Done
<1>5. ASSUME NEW n \in Notifiers, Mark(n), event[e] # "notified" PROVE e \in Done(n)
  BY <1>5 DEF Mark
<1>6. ASSUME NEW n \in Notifiers,
             \/ ReadPending(n) \/ Plan(n) \/ Connect(n) \/ Send(n) \/ Refuse(n)
             \/ Abort(n) \/ Crash(n) \/ SubscribersUnread(n)
      PROVE event' = event
  BY <1>6 DEF ReadPending, Plan, Connect, Send, Refuse, Abort, Crash, SubscribersUnread
<1>7. ASSUME NEW f \in Events, AddEvent(f) PROVE event[e] = "notified"
  BY <1>7 DEF AddEvent, IInv, TypeOK
<1>8. CASE Outage \/ UNCHANGED vars \/ \E f \in Events : Age(f)
  BY <1>3, <1>8 DEF Outage, vars, Age
<1> QED
  BY <1>3, <1>4, <1>5, <1>6, <1>7, <1>8 DEF Next, Work

-----------------------------------------------------------------------------
(* The inductive invariant holds in every reachable state.                 *)
THEOREM Invariance == Spec => []IInv
<1>1. IInv /\ [Next]_vars => IInv'
  BY TypeStep, PlanStep, MarkStep DEF IInv
<1> QED
  BY Initially, <1>1, PTL DEF Spec

(* Every variable, and the plan of every notifier, keeps its type.         *)
THEOREM TypeCorrect == Spec => []TypeOK
<1>1. IInv => TypeOK
  BY DEF IInv
<1> QED
  BY Invariance, <1>1, PTL

(* Whatever breaks off or overlaps, an event is marked as handled only     *)
(* after everyone who wants it was served, unless it had become too old or *)
(* the subscribers could not be read.                                      *)
THEOREM LeftOutTheorem == Spec => []NobodyLeftOut
<1>1. IInv => NobodyLeftOut
  BY DEF IInv
<1> QED
  BY Invariance, <1>1, PTL

-----------------------------------------------------------------------------
(* How often a mail about e reaches u.                                     *)

\* Notifiers that may still send it.
May(u, e) ==
  {n \in Notifiers : /\ e \in Fresh(n)
                     /\ \/ run[n].pc = "plan"
                        \/ run[n].pc \in {"connect", "send"} /\ <<u, e>> \in run[n].owed}

\* Notifiers that have dealt with it and mark e unless they are interrupted.
WillMark(u, e) ==
  {n \in Notifiers : /\ e \in Fresh(n) /\ <<u, e>> \notin run[n].owed
                     /\ run[n].pc = "send" \/ (run[n].pc = "mark" /\ run[n].owed = {})}

\* As long as e is not marked, each mail beyond the interruptions is that of
\* a notifier that is about to mark it.
Counted(u, e) ==
  /\ event[e] # "notified" => mails[u][e] <= Cardinality(WillMark(u, e)) + faults
  /\ mails[u][e] + Cardinality(May(u, e)) <= Cardinality(Notifiers) + faults

AllCounted == \A u \in Users, e \in Events : Counted(u, e)

(* The sizes of the two sets.                                              *)
LEMMA Sizes ==
  ASSUME NEW S \in SUBSET Notifiers, NEW T \in SUBSET S
  PROVE  /\ Cardinality(S) \in Nat /\ Cardinality(T) \in Nat /\ Cardinality(T) <= Cardinality(S)
         /\ \A n \in S : Cardinality(S \ {n}) = Cardinality(S) - 1
  BY FS_Subset, FS_CardinalityType, FS_RemoveElement, ConstantsAssumption

(* Two kinds of notifiers do not outnumber all.                            *)
LEMMA Apart ==
  ASSUME NEW S \in SUBSET Notifiers, NEW T \in SUBSET Notifiers, S \cap T = {}
  PROVE  Cardinality(S) + Cardinality(T) <= Cardinality(Notifiers)
<1>1. IsFiniteSet(S) /\ IsFiniteSet(T) /\ IsFiniteSet(S \cup T)
  BY FS_Subset, FS_Union, ConstantsAssumption
<1>2. Cardinality(S \cup T) = Cardinality(S) + Cardinality(T) - Cardinality(S \cap T)
  BY <1>1, FS_Union
<1>3. Cardinality(S \cap T) = 0
  BY FS_EmptySet
<1>4. Cardinality(S \cup T) <= Cardinality(Notifiers)
  BY FS_Subset, ConstantsAssumption
<1>5. Cardinality(S) \in Nat /\ Cardinality(T) \in Nat
  BY <1>1, FS_CardinalityType
<1> QED BY <1>2, <1>3, <1>4, <1>5

(* What a step may do to the counts of u and e: a mark or a step that only *)
(* narrows, a read, an interruption, or a mail.                            *)
Counts(u, e) ==
  \/ /\ mails'[u][e] = mails[u][e] /\ faults' = faults /\ May(u, e)' \subseteq May(u, e)
     /\ event'[e] = "notified" \/ (WillMark(u, e) \subseteq WillMark(u, e)' /\ event[e] # "notified")
  \/ /\ mails'[u][e] = mails[u][e] /\ faults' = faults /\ event[e] # "notified"
     /\ WillMark(u, e) \subseteq WillMark(u, e)' /\ WillMark(u, e)' \cap May(u, e)' = {}
  \/ /\ faults' = faults + 1 /\ May(u, e)' \subseteq May(u, e)
     /\ event[e] = "notified" => event'[e] = "notified"
     /\ \/ mails'[u][e] = mails[u][e] /\ \E n \in Notifiers : WillMark(u, e) \ {n} \subseteq WillMark(u, e)'
        \/ mails'[u][e] = mails[u][e] + 1 /\ WillMark(u, e) \subseteq WillMark(u, e)'
  \/ /\ mails'[u][e] = mails[u][e] + 1 /\ faults' = faults
     /\ event[e] = "notified" => event'[e] = "notified"
     /\ \E n \in May(u, e) : /\ May(u, e)' \subseteq May(u, e) \ {n} /\ n \notin WillMark(u, e)
                             /\ WillMark(u, e) \cup {n} \subseteq WillMark(u, e)'

(* Such a step keeps the count.                                            *)
LEMMA CountsKeep ==
  ASSUME NEW u \in Users, NEW e \in Events, TypeOK, TypeOK', Counted(u, e), Counts(u, e)
  PROVE  Counted(u, e)'
<1> DEFINE S == WillMark(u, e)
           T == May(u, e)
           R == WillMark(u, e)'
           U == May(u, e)'
           old_ == mails[u][e]
           new_ == mails'[u][e]
<1>1. /\ S \in SUBSET Notifiers /\ T \in SUBSET Notifiers
      /\ R \in SUBSET Notifiers /\ U \in SUBSET Notifiers
      /\ old_ \in Nat /\ new_ \in Nat /\ faults \in Nat /\ faults' \in Nat
  BY ConstantsAssumption DEF WillMark, May, TypeOK
<1>2. /\ event[e] # "notified" => old_ <= Cardinality(S) + faults
      /\ old_ + Cardinality(T) <= Cardinality(Notifiers) + faults
  BY DEF Counted
<1>3. SUFFICES /\ event'[e] # "notified" => new_ <= Cardinality(R) + faults'
               /\ new_ + Cardinality(U) <= Cardinality(Notifiers) + faults'
  BY DEF Counted
<1>4. \/ /\ new_ = old_ /\ faults' = faults /\ U \subseteq T
         /\ event'[e] = "notified" \/ (S \subseteq R /\ event[e] # "notified")
      \/ /\ new_ = old_ /\ faults' = faults /\ event[e] # "notified" /\ S \subseteq R /\ R \cap U = {}
      \/ /\ faults' = faults + 1 /\ U \subseteq T
         /\ event[e] = "notified" => event'[e] = "notified"
         /\ \/ new_ = old_ /\ \E n \in Notifiers : S \ {n} \subseteq R
            \/ new_ = old_ + 1 /\ S \subseteq R
      \/ /\ new_ = old_ + 1 /\ faults' = faults
         /\ event[e] = "notified" => event'[e] = "notified"
         /\ \E n \in T : U \subseteq T \ {n} /\ n \notin S /\ S \cup {n} \subseteq R
  BY DEF Counts
<1> HIDE DEF S, T, R, U, old_, new_
<1>5. /\ Cardinality(S) \in Nat /\ Cardinality(T) \in Nat /\ Cardinality(R) \in Nat /\ Cardinality(U) \in Nat
      /\ Cardinality(Notifiers) \in Nat
  BY <1>1, Sizes
<1>6. /\ U \subseteq T => Cardinality(U) <= Cardinality(T)
      /\ S \subseteq R => Cardinality(S) <= Cardinality(R)
  BY <1>1, Sizes
<1>7. CASE /\ new_ = old_ /\ faults' = faults /\ U \subseteq T
           /\ event'[e] = "notified" \/ (S \subseteq R /\ event[e] # "notified")
  BY <1>1, <1>2, <1>5, <1>6, <1>7
<1>8. CASE new_ = old_ /\ faults' = faults /\ event[e] # "notified" /\ S \subseteq R /\ R \cap U = {}
  <2>1. Cardinality(R) + Cardinality(U) <= Cardinality(Notifiers)
    BY <1>1, <1>8, Apart
  <2> QED BY <1>1, <1>2, <1>5, <1>6, <1>8, <2>1
<1>9. CASE /\ faults' = faults + 1 /\ U \subseteq T
           /\ event[e] = "notified" => event'[e] = "notified"
           /\ \/ new_ = old_ /\ \E n \in Notifiers : S \ {n} \subseteq R
              \/ new_ = old_ + 1 /\ S \subseteq R
  <2>1. CASE new_ = old_ /\ \E n \in Notifiers : S \ {n} \subseteq R
    <3>1. PICK n \in Notifiers : S \ {n} \subseteq R
      BY <2>1
    <3>2. Cardinality(S \ {n}) <= Cardinality(R) /\ Cardinality(S \ {n}) \in Nat
      BY <1>1, <3>1, Sizes
    <3>3. n \in S => Cardinality(S \ {n}) = Cardinality(S) - 1
      BY <1>1, Sizes
    <3>4. n \notin S => Cardinality(S \ {n}) = Cardinality(S)
      <4>1. n \notin S => S \ {n} = S
        OBVIOUS
      <4> QED BY <4>1
    <3>5. Cardinality(S) <= Cardinality(R) + 1
      <4>1. Cardinality(S \ {n}) \in {Cardinality(S), Cardinality(S) - 1}
        BY <3>3, <3>4
      <4> QED BY <1>5, <3>2, <4>1
    <3> QED BY <1>1, <1>2, <1>5, <1>6, <1>9, <2>1, <3>5
  <2>2. CASE new_ = old_ + 1 /\ S \subseteq R
    BY <1>1, <1>2, <1>5, <1>6, <1>9, <2>2
  <2> QED BY <1>9, <2>1, <2>2
<1>10. CASE /\ new_ = old_ + 1 /\ faults' = faults
            /\ event[e] = "notified" => event'[e] = "notified"
            /\ \E n \in T : U \subseteq T \ {n} /\ n \notin S /\ S \cup {n} \subseteq R
  <2>1. PICK n \in T : U \subseteq T \ {n} /\ n \notin S /\ S \cup {n} \subseteq R
    BY <1>10
  <2>2. Cardinality(T \ {n}) = Cardinality(T) - 1 /\ Cardinality(U) <= Cardinality(T \ {n})
        /\ Cardinality(T \ {n}) \in Nat
    BY <1>1, <2>1, Sizes
  <2>3. Cardinality(R \ {n}) = Cardinality(R) - 1 /\ Cardinality(S) <= Cardinality(R \ {n})
        /\ Cardinality(R \ {n}) \in Nat
    <3>1. n \in R /\ S \in SUBSET (R \ {n}) /\ R \ {n} \in SUBSET R
      BY <2>1
    <3> QED BY <1>1, <3>1, Sizes
  <2> QED BY <1>1, <1>2, <1>5, <1>10, <2>2, <2>3
<1> QED BY <1>4, <1>7, <1>8, <1>9, <1>10

(* Every step is one of these for every subscriber and event.              *)
LEMMA CountsStep ==
  ASSUME TypeOK, [Next]_vars, NEW u \in Users, NEW e \in Events
  PROVE  Counts(u, e)
<1>1. /\ run \in [Notifiers -> Runs] /\ mails \in [Users -> [Events -> Nat]] /\ faults \in Nat
      /\ \A n \in Notifiers : \A p \in run[n].owed : p[2] \in Fresh(n) /\ p[1] \in Wants[p[2]]
  BY ConstantsAssumption DEF TypeOK
<1> DEFINE W == WillMark(u, e)
           V == WillMark(u, e)'
           M == May(u, e)
           N == May(u, e)'
<1>2. /\ \A n \in Notifiers : n \in W <=>
             /\ e \in Fresh(n) /\ <<u, e>> \notin run[n].owed
             /\ run[n].pc = "send" \/ (run[n].pc = "mark" /\ run[n].owed = {})
      /\ \A n \in Notifiers : n \in V <=>
             /\ e \in Fresh(n)' /\ <<u, e>> \notin run'[n].owed
             /\ run'[n].pc = "send" \/ (run'[n].pc = "mark" /\ run'[n].owed = {})
      /\ \A n \in Notifiers : n \in M <=>
             /\ e \in Fresh(n)
             /\ run[n].pc = "plan" \/ (run[n].pc \in {"connect", "send"} /\ <<u, e>> \in run[n].owed)
      /\ \A n \in Notifiers : n \in N <=>
             /\ e \in Fresh(n)'
             /\ run'[n].pc = "plan" \/ (run'[n].pc \in {"connect", "send"} /\ <<u, e>> \in run'[n].owed)
  BY DEF WillMark, May
<1>3. W \subseteq Notifiers /\ V \subseteq Notifiers /\ M \subseteq Notifiers /\ N \subseteq Notifiers
  BY DEF WillMark, May
<1>4. Counts(u, e) <=>
        \/ /\ mails'[u][e] = mails[u][e] /\ faults' = faults /\ N \subseteq M
           /\ event'[e] = "notified" \/ (W \subseteq V /\ event[e] # "notified")
        \/ /\ mails'[u][e] = mails[u][e] /\ faults' = faults /\ event[e] # "notified"
           /\ W \subseteq V /\ V \cap N = {}
        \/ /\ faults' = faults + 1 /\ N \subseteq M
           /\ event[e] = "notified" => event'[e] = "notified"
           /\ \/ mails'[u][e] = mails[u][e] /\ \E n \in Notifiers : W \ {n} \subseteq V
              \/ mails'[u][e] = mails[u][e] + 1 /\ W \subseteq V
        \/ /\ mails'[u][e] = mails[u][e] + 1 /\ faults' = faults
           /\ event[e] = "notified" => event'[e] = "notified"
           /\ \E n \in M : N \subseteq M \ {n} /\ n \notin W /\ W \cup {n} \subseteq V
  BY DEF Counts
<1> HIDE DEF W, V, M, N
<1>5. ASSUME UNCHANGED run, UNCHANGED mails, UNCHANGED faults,
             event' = event \/ event[e] # "notified"
      PROVE  Counts(u, e)
  <2>1. V = W /\ N = M
    BY <1>2, <1>3, <1>5 DEF Fresh
  <2> QED BY <1>4, <1>5, <2>1
<1>6. ASSUME NEW n \in Notifiers, NEW r \in Runs, run' = [run EXCEPT ![n] = r]
      PROVE  /\ run'[n] = r /\ Fresh(n)' = r.read \ r.stale
             /\ \A m \in Notifiers : m # n => (m \in V <=> m \in W) /\ (m \in N <=> m \in M)
             /\ W \ {n} \subseteq V
             /\ (n \in W => n \in V) => W \subseteq V
             /\ (n \in N => n \in M) => N \subseteq M
  <2>1. run'[n] = r /\ \A m \in Notifiers : m # n => run'[m] = run[m]
    BY <1>1, <1>6
  <2>2. Fresh(n)' = r.read \ r.stale /\ \A m \in Notifiers : m # n => Fresh(m)' = Fresh(m)
    BY <2>1 DEF Fresh
  <2>3. \A m \in Notifiers : m # n => (m \in V <=> m \in W) /\ (m \in N <=> m \in M)
    BY <1>2, <2>1, <2>2
  <2> QED BY <1>3, <2>1, <2>2, <2>3
<1>7. ASSUME NEW n \in Notifiers, ReadPending(n) PROVE Counts(u, e)
  <2> DEFINE read == Oldest(Pending)
             new == [IdleRun EXCEPT !.pc = "plan", !.read = read, !.stale = read \cap old]
  <2>1. read \subseteq Events /\ (e \in read => event[e] = "pending")
    BY DEF Oldest, Pending
  <2>2. /\ run[n].pc = "idle" /\ run' = [run EXCEPT ![n] = new]
        /\ UNCHANGED <<mails, faults, event>>
    BY <1>7 DEF ReadPending, At
  <2> HIDE DEF read
  <2>3. new \in Runs /\ new.pc = "plan" /\ new.read = read
    BY <2>1 DEF IdleRun, Runs, Labels
  <2> HIDE DEF new
  <2>4. n \notin W /\ n \notin V
    BY <1>2, <1>6, <2>2, <2>3
  <2>5. W \subseteq V
    BY <1>6, <2>2, <2>3, <2>4
  <2>6. CASE e \in read
    <3>1. V \cap N = {}
      BY <1>2, <1>3
    <3> QED BY <1>4, <2>1, <2>2, <2>5, <2>6, <3>1
  <2>7. CASE e \notin read
    <3>1. n \notin N
      <4>1. Fresh(n)' = new.read \ new.stale
        BY <1>6, <2>2, <2>3
      <4>2. e \notin Fresh(n)'
        BY <2>3, <2>7, <4>1
      <4> QED BY <1>2, <4>2
    <3>2. N \subseteq M
      BY <1>6, <2>2, <2>3, <3>1
    <3> QED BY <1>4, <2>2, <2>5, <3>2
  <2> QED BY <2>6, <2>7
<1>8. ASSUME NEW n \in Notifiers, NEW r \in Runs, run' = [run EXCEPT ![n] = r],
             r.read = run[n].read, r.stale = run[n].stale,
             UNCHANGED <<mails, faults, event>>, n \in W => n \in V, n \in N => n \in M
      PROVE  Counts(u, e)
  BY <1>4, <1>6, <1>8
<1>9. ASSUME NEW n \in Notifiers, Plan(n) PROVE Counts(u, e)
  <2> DEFINE new == [run[n] EXCEPT !.pc = IF Owed(n) = {} THEN "mark" ELSE "connect", !.owed = Owed(n)]
  <2>1. Owed(n) \subseteq Users \X Events
    BY DEF Owed, Fresh, TypeOK, Runs
  <2>2. /\ new \in Runs /\ new.read = run[n].read /\ new.stale = run[n].stale
        /\ new.pc \in {"mark", "connect"}
    BY <1>1, <2>1 DEF Runs, Labels
  <2>3. /\ run[n].pc = "plan" /\ run' = [run EXCEPT ![n] = new]
        /\ UNCHANGED <<mails, faults, event>>
    BY <1>1, <1>9 DEF Plan, At, Runs
  <2> HIDE DEF new
  <2>4. n \notin W /\ (n \in N => n \in M)
    BY <1>2, <1>6, <2>2, <2>3 DEF Fresh
  <2> QED BY <1>8, <2>2, <2>3, <2>4
<1>10. ASSUME NEW n \in Notifiers, Connect(n) PROVE Counts(u, e)
  <2> DEFINE new == [run[n] EXCEPT !.pc = IF smtp THEN "send" ELSE "mark"]
  <2>1. /\ new \in Runs /\ new.read = run[n].read /\ new.stale = run[n].stale /\ new.owed = run[n].owed
        /\ new.pc \in {"mark", "send"}
    BY <1>1 DEF Runs, Labels
  <2>2. /\ run[n].pc = "connect" /\ run' = [run EXCEPT ![n] = new]
        /\ UNCHANGED <<mails, faults, event>>
    BY <1>1, <1>10 DEF Connect, At
  <2> HIDE DEF new
  <2>3. n \notin W /\ (n \in N => n \in M)
    BY <1>2, <1>6, <2>1, <2>2 DEF Fresh
  <2> QED BY <1>8, <2>1, <2>2, <2>3
<1>11. ASSUME NEW n \in Notifiers, NEW v \in Users, Served(n, v), run[n].pc = "send"
       PROVE  /\ \E r \in Runs : /\ run' = [run EXCEPT ![n] = r]
                                 /\ r.read = run[n].read /\ r.stale = run[n].stale
              /\ (n \in W => n \in V) /\ (n \in N => n \in M) /\ W \subseteq V /\ N \subseteq M
              /\ <<u, e>> \in Mine(n, v) => n \in M /\ n \notin W /\ n \notin N /\ n \in V
  <2> DEFINE label == IF Recipients(n) = {v} THEN "mark" ELSE "send"
             new == [run[n] EXCEPT !.owed = @ \ Mine(n, v), !.pc = label]
  <2>1. label \in {"mark", "send"} /\ (label = "mark" => run[n].owed \ Mine(n, v) = {})
    BY DEF Recipients, Mine
  <2>2. run' = [run EXCEPT ![n] = new]
    BY <1>1, <1>11 DEF Served, Runs
  <2> HIDE DEF label
  <2>3. /\ new \in Runs /\ new.read = run[n].read /\ new.stale = run[n].stale
        /\ new.owed = run[n].owed \ Mine(n, v) /\ new.pc = label
    BY <1>1, <2>1 DEF Runs, Labels
  <2>4. <<u, e>> \in Mine(n, v) => <<u, e>> \in run[n].owed /\ e \in Fresh(n)
    <3>1. <<u, e>> \in Mine(n, v) => <<u, e>> \in run[n].owed
      BY DEF Mine
    <3> QED BY <1>1, <3>1
  <2> HIDE DEF new
  <2>5. run'[n] = new /\ Fresh(n)' = Fresh(n)
    BY <1>6, <2>2, <2>3 DEF Fresh
  <2>6. (n \in W => n \in V) /\ (n \in N => n \in M)
    BY <1>2, <1>11, <2>1, <2>3, <2>5
  <2>7. W \subseteq V /\ N \subseteq M
    BY <1>6, <2>2, <2>3, <2>6
  <2>8. <<u, e>> \in Mine(n, v) => n \in M /\ n \notin W /\ n \notin N /\ n \in V
    BY <1>2, <1>11, <2>1, <2>3, <2>4, <2>5
  <2> QED BY <2>2, <2>3, <2>6, <2>7, <2>8
<1>12. ASSUME NEW n \in Notifiers PROVE Recipients(n) \subseteq Users
  BY DEF Recipients, TypeOK, Runs
<1>13. ASSUME NEW n \in Notifiers, NEW v \in Users, Arrives(n, v)
       PROVE  mails'[u][e] = IF <<u, e>> \in Mine(n, v) THEN mails[u][e] + 1 ELSE mails[u][e]
  <2>1. CASE v = u
    <3>1. mails'[u] = [f \in Events |-> IF <<u, f>> \in Mine(n, v) THEN mails[u][f] + 1 ELSE mails[u][f]]
      BY <1>1, <1>13, <2>1 DEF Arrives
    <3> QED BY <3>1
  <2>2. CASE v # u
    <3>1. mails'[u] = mails[u]
      BY <1>1, <1>13, <2>2 DEF Arrives
    <3>2. <<u, e>> \notin Mine(n, v)
      BY <2>2 DEF Mine
    <3> QED BY <3>1, <3>2
  <2> QED BY <2>1, <2>2
<1>14. ASSUME NEW n \in Notifiers, Send(n) PROVE Counts(u, e)
  <2>1. PICK v \in Users : Arrives(n, v) /\ Served(n, v)
    BY <1>12, <1>14 DEF Send
  <2>2. run[n].pc = "send" /\ UNCHANGED <<event, faults>>
    BY <1>14 DEF Send, At
  <2>3. CASE <<u, e>> \in Mine(n, v)
    <3>1. mails'[u][e] = mails[u][e] + 1
      BY <1>13, <2>1, <2>3
    <3>2. /\ n \in M /\ n \notin W /\ W \cup {n} \subseteq V
          /\ N \subseteq M \ {n}
      BY <1>11, <2>1, <2>2, <2>3
    <3> QED BY <1>4, <2>2, <3>1, <3>2
  <2>4. CASE <<u, e>> \notin Mine(n, v)
    <3>1. mails'[u][e] = mails[u][e]
      BY <1>13, <2>1, <2>4
    <3>2. W \subseteq V /\ N \subseteq M
      BY <1>11, <2>1, <2>2
    <3> QED BY <1>4, <2>2, <3>1, <3>2
  <2> QED BY <2>3, <2>4
<1>15. ASSUME NEW n \in Notifiers, Refuse(n) PROVE Counts(u, e)
  <2>1. PICK v \in Users : Served(n, v)
    BY <1>12, <1>15 DEF Refuse
  <2>2. run[n].pc = "send" /\ UNCHANGED <<event, faults, mails>>
    BY <1>15 DEF Refuse, At
  <2>3. W \subseteq V /\ N \subseteq M
    BY <1>11, <2>1, <2>2
  <2> QED BY <1>4, <2>2, <2>3
<1>16. IdleRun \in Runs /\ IdleRun.pc = "idle"
  BY DEF IdleRun, Runs, Labels
<1>17. ASSUME NEW n \in Notifiers, Mark(n) PROVE Counts(u, e)
  <2>1. /\ run[n].pc = "mark" /\ run' = [run EXCEPT ![n] = IdleRun] /\ UNCHANGED <<mails, faults>>
        /\ event'[e] = IF e \in Done(n) THEN "notified" ELSE event[e]
    BY <1>17 DEF Mark, At
  <2>2. n \notin N
    BY <1>2, <1>6, <1>16, <2>1
  <2>3. N \subseteq M
    BY <1>6, <1>16, <2>1, <2>2
  <2>4. e \notin Done(n) => n \notin W
    BY <1>2, <2>1 DEF Done
  <2>5. CASE event'[e] = "notified"
    BY <1>4, <2>1, <2>3, <2>5
  <2>6. CASE event'[e] # "notified"
    <3>1. n \notin W /\ event[e] # "notified"
      BY <2>1, <2>4, <2>6
    <3>2. W \subseteq V
      BY <1>6, <1>16, <2>1, <3>1
    <3> QED BY <1>4, <2>1, <2>3, <3>1, <3>2
  <2> QED BY <2>5, <2>6
<1>18. ASSUME NEW n \in Notifiers, Abort(n) PROVE Counts(u, e)
  <2> DEFINE new == [run[n] EXCEPT !.pc = "mark"]
  <2>1. /\ new \in Runs /\ new.read = run[n].read /\ new.stale = run[n].stale /\ new.owed = run[n].owed
        /\ new.pc = "mark"
    BY <1>1 DEF Runs, Labels
  <2>2. /\ run[n].pc = "send" /\ run' = [run EXCEPT ![n] = new] /\ faults' = faults + 1
        /\ UNCHANGED event
    BY <1>1, <1>18 DEF Abort, At, Fault
  <2> HIDE DEF new
  <2>3. n \notin N
    <3>1. run'[n].pc = "mark"
      BY <1>6, <2>1, <2>2
    <3> QED BY <1>2, <3>1
  <2>4. N \subseteq M /\ W \ {n} \subseteq V
    BY <1>6, <2>1, <2>2, <2>3
  <2>5. ASSUME mails' = mails PROVE Counts(u, e)
    BY <1>4, <2>2, <2>4, <2>5
  <2>6. ASSUME NEW v \in Users, Arrives(n, v) PROVE Counts(u, e)
    <3>1. CASE <<u, e>> \in Mine(n, v)
      <4>1. mails'[u][e] = mails[u][e] + 1
        BY <1>13, <2>6, <3>1
      <4>2. <<u, e>> \in run[n].owed
        BY <3>1 DEF Mine
      <4>3. n \notin W
        BY <1>2, <4>2
      <4>4. W \subseteq V
        BY <1>6, <2>1, <2>2, <4>3
      <4> QED BY <1>4, <2>2, <2>4, <4>1, <4>4
    <3>2. CASE <<u, e>> \notin Mine(n, v)
      <4>1. mails'[u][e] = mails[u][e]
        BY <1>13, <2>6, <3>2
      <4> QED BY <1>4, <2>2, <2>4, <4>1
    <3> QED BY <3>1, <3>2
  <2>7. mails' = mails \/ \E v \in Users : Arrives(n, v)
    BY <1>12, <1>18 DEF Abort
  <2> QED BY <2>5, <2>6, <2>7
<1>19. ASSUME NEW n \in Notifiers, Crash(n) PROVE Counts(u, e)
  <2>1. /\ run' = [run EXCEPT ![n] = IdleRun] /\ faults' = faults + 1 /\ UNCHANGED <<event, mails>>
    BY <1>19 DEF Crash, Fault
  <2>2. n \notin N
    BY <1>2, <1>6, <1>16, <2>1
  <2>3. N \subseteq M /\ W \ {n} \subseteq V
    BY <1>6, <1>16, <2>1, <2>2
  <2> QED BY <1>4, <2>1, <2>3
<1>20. ASSUME NEW n \in Notifiers, SubscribersUnread(n) PROVE Counts(u, e)
  <2> DEFINE new == [run[n] EXCEPT !.pc = "mark"]
  <2>1. new \in Runs /\ new.pc = "mark"
    BY <1>1 DEF Runs, Labels
  <2>2. /\ run' = [run EXCEPT ![n] = new] /\ faults' = faults + 1 /\ UNCHANGED <<event, mails>>
    BY <1>1, <1>20 DEF SubscribersUnread, Fault
  <2> HIDE DEF new
  <2>3. n \notin N
    <3>1. run'[n].pc = "mark"
      BY <1>6, <2>1, <2>2
    <3> QED BY <1>2, <3>1
  <2>4. N \subseteq M /\ W \ {n} \subseteq V
    BY <1>6, <2>1, <2>2, <2>3
  <2> QED BY <1>4, <2>2, <2>4
<1>21. ASSUME NEW f \in Events, AddEvent(f) PROVE Counts(u, e)
  <2>1. event' = event \/ event[e] # "notified" \/ (f # e /\ event'[e] = event[e])
    BY <1>21 DEF AddEvent, TypeOK
  <2>2. UNCHANGED <<run, mails, faults>>
    BY <1>21 DEF AddEvent
  <2>3. V = W /\ N = M
    BY <1>2, <1>3, <2>2 DEF Fresh
  <2> QED BY <1>4, <2>1, <2>2, <2>3
<1>22. CASE Outage \/ UNCHANGED vars \/ \E f \in Events : Age(f)
  BY <1>5, <1>22 DEF Outage, vars, Age
<1> QED
  BY <1>7, <1>9, <1>10, <1>14, <1>15, <1>17, <1>18, <1>19, <1>20, <1>21, <1>22 DEF Next, Work

(* Nobody gets an event over and over: once for each notifier at work at   *)
(* the same time and once more for each interruption.                      *)
THEOREM MailsTheorem == Spec => []MailsBounded
<1>1. Init => AllCounted
  <2> SUFFICES ASSUME Init, NEW u \in Users, NEW e \in Events PROVE Counted(u, e)
    BY DEF AllCounted
  <2>1. mails[u][e] = 0 /\ faults = 0
    BY DEF Init
  <2>2. May(u, e) = {}
    BY DEF Init, May, Fresh, IdleRun
  <2>3. WillMark(u, e) \in SUBSET Notifiers
    BY DEF WillMark
  <2>4. Cardinality(May(u, e)) = 0 /\ Cardinality(WillMark(u, e)) \in Nat /\ Cardinality(Notifiers) \in Nat
    BY <2>2, <2>3, Sizes, FS_EmptySet
  <2> QED BY <2>1, <2>4 DEF Counted
<1>2. TypeOK /\ AllCounted /\ [Next]_vars => AllCounted'
  <2> SUFFICES ASSUME TypeOK, AllCounted, [Next]_vars, NEW u \in Users, NEW e \in Events PROVE Counted(u, e)'
    BY DEF AllCounted
  <2>1. TypeOK'
    BY TypeStep
  <2>2. Counts(u, e)
    BY CountsStep
  <2> QED BY <2>1, <2>2, CountsKeep DEF AllCounted
<1>3. TypeOK /\ AllCounted => MailsBounded
  <2> SUFFICES ASSUME TypeOK, AllCounted, NEW u \in Users, NEW e \in Events
               PROVE  mails[u][e] <= Cardinality(Notifiers) + faults
    BY DEF MailsBounded
  <2>1. May(u, e) \in SUBSET Notifiers
    BY DEF May
  <2>2. /\ Cardinality(May(u, e)) \in Nat /\ Cardinality(Notifiers) \in Nat
        /\ mails[u][e] \in Nat /\ faults \in Nat
    BY <2>1, Sizes, ConstantsAssumption DEF TypeOK
  <2> QED BY <2>2 DEF AllCounted, Counted
<1> QED
  BY TypeCorrect, <1>1, <1>2, <1>3, PTL DEF Spec
=============================================================================
