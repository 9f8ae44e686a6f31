------------------------------- MODULE Digest -------------------------------
(***************************************************************************)
(* The morning digest: every backend process has a timer for the digest    *)
(* hour, and a run is one transaction that mails every member in turn.     *)
(*                                                                         *)
(* Processes stop and start at any time.  The timer's schedule lives in    *)
(* memory: a process that starts computes its next digest hour from the    *)
(* clock, and a process that stops takes the run it was in along; the run  *)
(* is rolled back, the mail has left.  A deploy starts the new process     *)
(* before it stops the old one, a crash or a restart starts it after: the  *)
(* hosting decides which, once and for all (overlapping).                  *)
(*                                                                         *)
(* A letter is the digest of a day: Letters are the days 1..MaxDays.       *)
(***************************************************************************)
EXTENDS Dispatcher, FiniteSets

CONSTANTS
  Processes,
  MaxDays,   \* bound: days in a behaviour
  NoRun

VARIABLES
  overlapping,   \* whether two processes may be up at once
  day,       \* organization_today()
  late,      \* today's digest hour has passed
  up,        \* processes that are up
  due,       \* due[p]: the day of the next run time of p's timer
  run        \* run[p]: the run p is in

vars == <<log, inbox, overlapping, day, late, up, due, run>>

Days == 1..MaxDays

ASSUME DigestAssumption ==
  /\ MaxDays \in Nat \ {0}
  /\ IsFiniteSet(Processes)
  /\ Letters = Days

\* left: members the loop has not come to; rows: the log rows of the transaction.
Run == [date : Days, left : SUBSET Members, rows : SUBSET LogRow]

ASSUME NoRunAssumption == NoRun \notin Run

TypeOK ==
  /\ DispatchTypeOK
  /\ overlapping \in BOOLEAN
  /\ day \in Days /\ late \in BOOLEAN
  /\ up \subseteq Processes
  /\ due \in [Processes -> 1..(MaxDays + 1)]
  /\ run \in [Processes -> Run \cup {NoRun}]
  /\ \A p \in Processes : run[p] # NoRun => p \in up

\* CronTrigger.get_next_fire_time(None, now).
NextHour == IF late THEN day + 1 ELSE day

Init ==
  /\ DispatchInit
  /\ overlapping \in BOOLEAN
  /\ day = 1 /\ late = FALSE
  /\ up = {}
  /\ due = [p \in Processes |-> 1]
  /\ run = [p \in Processes |-> NoRun]

(***************************************************************************)
(* The clock, and processes that come and go.                              *)
(***************************************************************************)
\* Two assumptions about time: a timer that is due fires within misfire_grace_time of its hour,
\* and a run is over by the next digest hour (though perhaps not by midnight).
Tick ==
  /\ IF late THEN /\ day < MaxDays
                  /\ \A p \in up : due[p] > day
                  /\ day' = day + 1
             ELSE /\ \A p \in Processes : run[p] = NoRun
                  /\ UNCHANGED day
  /\ late' = ~late
  /\ UNCHANGED <<log, inbox, up, due, run, overlapping>>

\* Slip: a process that starts after the hour catches up with the run it missed.
StartCatchingUp(p) ==
  /\ p \notin up
  /\ overlapping \/ up = {}
  /\ up' = up \cup {p}
  /\ due' = [due EXCEPT ![p] = day]
  /\ UNCHANGED <<log, inbox, day, late, run, overlapping>>

Start(p) ==
  /\ p \notin up
  /\ overlapping \/ up = {}
  /\ up' = up \cup {p}
  /\ due' = [due EXCEPT ![p] = NextHour]
  /\ UNCHANGED <<log, inbox, day, late, run, overlapping>>

\* Slip: the run survives its process.
StopForgettingNothing(p) ==
  /\ p \in up
  /\ up' = up \ {p}
  /\ UNCHANGED <<log, inbox, day, late, due, run, overlapping>>

\* A run that fails instead of being stopped is rolled back in the same way and the timer waits
\* for the next day: that is Stop and Start.
Stop(p) ==
  /\ p \in up
  /\ up' = up \ {p}
  /\ run' = [run EXCEPT ![p] = NoRun]
  /\ UNCHANGED <<log, inbox, day, late, due, overlapping>>

(***************************************************************************)
(* A run.                                                                  *)
(***************************************************************************)
Fire(p) ==
  /\ p \in up /\ late /\ due[p] = day
  /\ run[p] = NoRun
  /\ due' = [due EXCEPT ![p] = day + 1]
  /\ run' = [run EXCEPT ![p] = [date |-> day, left |-> Members, rows |-> {}]]
  /\ UNCHANGED <<log, inbox, day, late, up, overlapping>>

\* The rows the transaction sees: committed ones and its own.
Delivered(p, u) ==
  \E e \in log \cup run[p].rows : e.to = u /\ e.letter = run[p].date /\ e.status = "sent"

Skip(p, u) ==
  /\ run[p] # NoRun /\ u \in run[p].left
  /\ Delivered(p, u)
  /\ run' = [run EXCEPT ![p].left = @ \ {u}]
  /\ UNCHANGED <<log, inbox, day, late, up, due, overlapping>>

\* Slip: a transport fault ends the run.
SendOrAbort(p, u, outcome) ==
  /\ run[p] # NoRun /\ u \in run[p].left
  /\ ~Delivered(p, u)
  /\ inbox' = Taken(u, run[p].date, outcome)
  /\ run' = [run EXCEPT ![p] =
       IF outcome = "accepted"
         THEN [@ EXCEPT !.left = @ \ {u}, !.rows = @ \cup {Entry(u, run[p].date, outcome)}]
         ELSE NoRun]
  /\ UNCHANGED <<log, day, late, up, due, overlapping>>

Send(p, u, outcome) ==
  /\ run[p] # NoRun /\ u \in run[p].left
  /\ ~Delivered(p, u)
  /\ inbox' = Taken(u, run[p].date, outcome)
  /\ run' = [run EXCEPT ![p].left = @ \ {u},
                        ![p].rows = @ \cup {Entry(u, run[p].date, outcome)}]
  /\ UNCHANGED <<log, day, late, up, due, overlapping>>

Finish(p) ==
  /\ run[p] # NoRun /\ run[p].left = {}
  /\ log' = log \cup run[p].rows
  /\ run' = [run EXCEPT ![p] = NoRun]
  /\ UNCHANGED <<inbox, day, late, up, due, overlapping>>

Work(p) ==
  \/ Fire(p)
  \/ \E u \in Members : Skip(p, u) \/ \E outcome \in Outcomes : Send(p, u, outcome)
  \/ Finish(p)

Next ==
  \/ Tick
  \/ \E p \in Processes : Start(p) \/ Stop(p) \/ Work(p)

Spec == Init /\ [][Next]_vars

\* Time passes, and a process that is up keeps working: the loop awaits only calls with a timeout.
\* Nothing makes a process start or stop.
FairSpec == Spec /\ WF_vars(Tick) /\ \A p \in Processes : WF_vars(Work(p))

(***************************************************************************)
(* Properties.                                                             *)
(***************************************************************************)
\* No member gets a second copy of a day's digest, although a stopped run forgets the mail it has
\* already sent: as long as processes do not overlap, the process that takes over leaves the rest
\* of the day alone (digest_scheduler.py:3: "a restart at 07:05 does not produce a second copy").
NoSecondCopy ==
  ~overlapping => \A u \in Members, d \in Days : inbox[u][d] <= 1

\* A process that is up before the digest hour and stays up attempts every member: each has a
\* committed row for the day, whatever the provider did to the others before them.
Attempted(u, d) == \E e \in log : e.to = u /\ e.letter = d

DigestReachesEveryone ==
  \A p \in Processes, d \in Days :
    (p \in up /\ due[p] = d) ~> (p \notin up \/ \A u \in Members : Attempted(u, d))

\* Runs implement DailyMail, whatever is lost on the way: never before its day, one copy a day, and
\* where processes overlap at most one for each of them.
Mail == INSTANCE DailyMail WITH
  today <- day,
  copies <- IF overlapping THEN Cardinality(Processes) ELSE 1
MailSpec == Mail!Spec
=============================================================================
