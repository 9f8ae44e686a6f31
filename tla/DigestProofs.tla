---------------------------- MODULE DigestProofs ----------------------------
(***************************************************************************)
(* The morning digest for any number of members, days and processes: the   *)
(* log is truthful, nobody gets a second copy, and the runs implement      *)
(* DailyMail.                                                              *)
(***************************************************************************)
EXTENDS Digest, TLAPS, FiniteSetTheorems

\* The timers against the clock: nobody waits for an hour beyond the next one, and nobody is in
\* a run of an hour that is to come.
Timing ==
  /\ \A p \in up : due[p] <= NextHour
  /\ \A p \in Processes : run[p] # NoRun =>
       run[p].date < NextHour /\ run[p].date < due[p]

\* The rows, committed or not.
HonestRows ==
  /\ LogIsTruthful
  /\ \A p \in Processes : run[p] # NoRun =>
       \A e \in run[p].rows : e.status = "sent" => inbox[e.to][e.letter] > 0

\* Without overlap: one process at most, and no mail yet of any digest that is to come or that
\* the run has not come to.
OneCopy ==
  ~overlapping =>
    /\ \A p, q \in up : p = q
    /\ \A u \in Members, d \in Days :
         /\ inbox[u][d] <= 1
         /\ d >= NextHour => inbox[u][d] = 0
         /\ \A p \in up : d >= due[p] => inbox[u][d] = 0
    /\ \A p \in Processes : run[p] # NoRun => \A u \in run[p].left : inbox[u][run[p].date] = 0

\* With overlap: a copy costs a process its turn, and no process gets the turn back.
MaySend(p, u, d) ==
  \/ run[p] # NoRun /\ run[p].date = d /\ u \in run[p].left
  \/ p \in up /\ d >= due[p]
  \/ p \notin up /\ d >= NextHour

Spent(u, d) == {p \in Processes : ~MaySend(p, u, d)}

FewCopies == \A u \in Members, d \in Days : inbox[u][d] <= Cardinality(Spent(u, d))

-----------------------------------------------------------------------------
LEMMA RunFields ==
  ASSUME TypeOK, NEW p \in Processes, run[p] # NoRun
  PROVE  run[p] \in Run /\ run[p].date \in Days /\ run[p].left \subseteq Members
           /\ run[p].rows \subseteq LogRow /\ p \in up
  BY DEF TypeOK, Run

\* A mail that was taken is one more in one place.
LEMMA TakenCounts ==
  ASSUME TypeOK, NEW u \in Members, NEW d \in Days, NEW outcome, inbox' = Taken(u, d, outcome)
  PROVE  /\ inbox' \in [Members -> [Letters -> Nat]]
         /\ \A v \in Members, e \in Days : <<v, e>> # <<u, d>> => inbox'[v][e] = inbox[v][e]
         /\ inbox'[u][d] \in {inbox[u][d], inbox[u][d] + 1}
         /\ outcome = "accepted" => inbox'[u][d] = inbox[u][d] + 1
         /\ \A v \in Members, e \in Days : inbox'[v][e] >= inbox[v][e]
  <1>1. inbox \in [Members -> [Letters -> Nat]] /\ Letters = Days
    BY DigestAssumption DEF TypeOK, DispatchTypeOK
  <1>2. CASE outcome = "refused"
    BY <1>1, <1>2 DEF Taken
  <1>3. CASE outcome # "refused"
    <2>1. inbox' = [inbox EXCEPT ![u][d] = @ + 1]
      BY <1>3 DEF Taken
    <2>2. QED
      BY <1>1, <2>1
  <1>4. QED
    BY <1>2, <1>3

\* What Send makes of the run.
LEMMA SentRun ==
  ASSUME TypeOK, NEW p \in Processes, NEW u \in Members, NEW outcome \in Outcomes,
         Send(p, u, outcome)
  PROVE  /\ run' \in [Processes -> Run \cup {NoRun}]
         /\ \A q \in Processes \ {p} : run'[q] = run[q]
         /\ run'[p] # NoRun
         /\ run'[p].date = run[p].date
         /\ run'[p].left = run[p].left \ {u}
         /\ run'[p].rows = run[p].rows \cup {Entry(u, run[p].date, outcome)}
  <1>1. run[p] \in Run /\ run[p].date \in Days
    BY RunFields DEF Send
  <1>2. Entry(u, run[p].date, outcome) \in LogRow
    BY <1>1, DigestAssumption DEF Entry, LogRow
  <1> DEFINE new == [run[p] EXCEPT !.left = @ \ {u},
                                   !.rows = @ \cup {Entry(u, run[p].date, outcome)}]
  <1>3. new \in Run
    BY <1>1, <1>2 DEF Run
  <1>4. run' = [run EXCEPT ![p] = new]
    BY <1>1 DEF Send, TypeOK
  <1>5. run' \in [Processes -> Run \cup {NoRun}] /\ run'[p] = new
          /\ \A q \in Processes \ {p} : run'[q] = run[q]
    BY <1>3, <1>4 DEF TypeOK
  <1>6. QED
    BY <1>1, <1>3, <1>5, NoRunAssumption DEF Run

LEMMA SkippedRun ==
  ASSUME TypeOK, NEW p \in Processes, NEW u \in Members, Skip(p, u)
  PROVE  /\ run' \in [Processes -> Run \cup {NoRun}]
         /\ \A q \in Processes \ {p} : run'[q] = run[q]
         /\ run'[p] # NoRun
         /\ run'[p].date = run[p].date
         /\ run'[p].left = run[p].left \ {u}
         /\ run'[p].rows = run[p].rows
  <1>1. run[p] \in Run
    BY RunFields DEF Skip
  <1> DEFINE new == [run[p] EXCEPT !.left = @ \ {u}]
  <1>2. new \in Run
    BY <1>1 DEF Run
  <1>3. run' = [run EXCEPT ![p] = new]
    BY <1>1 DEF Skip, TypeOK
  <1>4. QED
    BY <1>1, <1>2, <1>3, NoRunAssumption DEF Run, TypeOK

-----------------------------------------------------------------------------
LEMMA TypeInit == Init => TypeOK
  <1> SUFFICES ASSUME Init PROVE TypeOK
    OBVIOUS
  <1>1. inbox \in [Members -> [Letters -> Nat]]
    BY DEF Init, DispatchInit
  <1>2. 1 \in Days /\ 1 \in 1..(MaxDays + 1)
    BY DigestAssumption DEF Days
  <1>3. DispatchTypeOK
    BY <1>1 DEF Init, DispatchInit, DispatchTypeOK
  <1>4. due \in [Processes -> 1..(MaxDays + 1)] /\ run \in [Processes -> Run \cup {NoRun}]
          /\ \A p \in Processes : run[p] = NoRun
    BY <1>2 DEF Init
  <1>5. QED
    BY <1>2, <1>3, <1>4 DEF Init, TypeOK

LEMMA TypeStep == TypeOK /\ [Next]_vars => TypeOK'
  <1> SUFFICES ASSUME TypeOK, [Next]_vars PROVE TypeOK'
    OBVIOUS
  <1> USE DEF TypeOK, DispatchTypeOK
  <1>1. CASE Tick
    BY <1>1, DigestAssumption DEF Tick, Days
  <1>2. ASSUME NEW p \in Processes, Start(p) PROVE TypeOK'
    <2>1. NextHour \in 1..(MaxDays + 1)
      BY DigestAssumption DEF NextHour, Days
    <2>2. QED
      BY <1>2, <2>1 DEF Start
  <1>3. ASSUME NEW p \in Processes, Stop(p) PROVE TypeOK'
    BY <1>3 DEF Stop
  <1>4. ASSUME NEW p \in Processes, Fire(p) PROVE TypeOK'
    <2>1. day + 1 \in 1..(MaxDays + 1)
      BY DigestAssumption DEF Days
    <2>2. [date |-> day, left |-> Members, rows |-> {}] \in Run
      BY DEF Run
    <2>3. QED
      BY <1>4, <2>1, <2>2 DEF Fire
  <1>5. ASSUME NEW p \in Processes, NEW u \in Members, Skip(p, u) PROVE TypeOK'
    <2>1. run' \in [Processes -> Run \cup {NoRun}] /\ \A q \in Processes \ {p} : run'[q] = run[q]
      BY <1>5, SkippedRun
    <2>2. QED
      BY <1>5, <2>1 DEF Skip
  <1>6. ASSUME NEW p \in Processes, NEW u \in Members, NEW outcome \in Outcomes, Send(p, u, outcome)
        PROVE  TypeOK'
    <2>1. run' \in [Processes -> Run \cup {NoRun}] /\ \A q \in Processes \ {p} : run'[q] = run[q]
      BY <1>6, SentRun
    <2>2. inbox' \in [Members -> [Letters -> Nat]]
      BY <1>6, TakenCounts, RunFields DEF Send
    <2>3. QED
      BY <1>6, <2>1, <2>2 DEF Send
  <1>7. ASSUME NEW p \in Processes, Finish(p) PROVE TypeOK'
    <2>1. run[p].rows \subseteq LogRow
      BY <1>7, RunFields DEF Finish
    <2>2. QED
      BY <1>7, <2>1 DEF Finish
  <1>8. CASE UNCHANGED vars
    BY <1>8 DEF vars
  <1>9. QED
    BY <1>1, <1>2, <1>3, <1>4, <1>5, <1>6, <1>7, <1>8 DEF Next, Work

\* The digest's type invariant, for every instance.
THEOREM TypeCorrect == Spec => []TypeOK
  BY TypeInit, TypeStep, PTL DEF Spec

-----------------------------------------------------------------------------
LEMMA TimingStep == TypeOK /\ Timing /\ [Next]_vars => Timing'
  <1> SUFFICES ASSUME TypeOK, Timing, [Next]_vars PROVE Timing'
    OBVIOUS
  <1>0. /\ day \in Nat /\ NextHour \in Nat /\ NextHour >= day
        /\ \A p \in Processes : due[p] \in Nat
        /\ \A p \in Processes : run[p] # NoRun => run[p].date \in Nat
        /\ up \subseteq Processes
    BY RunFields DEF TypeOK, Days, NextHour
  <1>1. CASE Tick
    <2>1. NextHour' \in Nat /\ NextHour' >= NextHour
      BY <1>0, <1>1 DEF Tick, NextHour, TypeOK
    <2>2. UNCHANGED <<due, run, up>>
      BY <1>1 DEF Tick
    <2>3. QED
      BY <1>0, <2>1, <2>2 DEF Timing
  <1>2. ASSUME NEW p \in Processes, Start(p) PROVE Timing'
    <2>1. run[p] = NoRun
      BY <1>2 DEF Start, TypeOK
    <2>2. NextHour' = NextHour /\ due' = [due EXCEPT ![p] = NextHour] /\ run' = run /\ up' = up \cup {p}
      BY <1>2 DEF Start, NextHour
    <2>3. QED
      BY <1>0, <2>1, <2>2 DEF Timing, TypeOK
  <1>3. ASSUME NEW p \in Processes, Stop(p) PROVE Timing'
    BY <1>0, <1>3 DEF Stop, Timing, TypeOK, NextHour
  <1>4. ASSUME NEW p \in Processes, Fire(p) PROVE Timing'
    <2>1. NextHour = day + 1 /\ NextHour' = NextHour /\ up' = up
      BY <1>4 DEF Fire, NextHour
    <2>2. /\ due'[p] = day + 1 /\ \A q \in Processes \ {p} : due'[q] = due[q] /\ run'[q] = run[q]
          /\ run'[p] = [date |-> day, left |-> Members, rows |-> {}]
      BY <1>4 DEF Fire, TypeOK
    <2>3. QED
      BY <1>0, <2>1, <2>2 DEF Timing
  <1>5. ASSUME NEW p \in Processes, NEW u \in Members, Skip(p, u) PROVE Timing'
    <2>1. run[p] # NoRun /\ run'[p].date = run[p].date /\ \A q \in Processes \ {p} : run'[q] = run[q]
      BY <1>5, SkippedRun DEF Skip
    <2>2. UNCHANGED <<due, up>> /\ NextHour' = NextHour
      BY <1>5 DEF Skip, NextHour
    <2>3. QED
      BY <2>1, <2>2 DEF Timing
  <1>6. ASSUME NEW p \in Processes, NEW u \in Members, NEW outcome \in Outcomes, Send(p, u, outcome)
        PROVE  Timing'
    <2>1. run[p] # NoRun /\ run'[p].date = run[p].date /\ \A q \in Processes \ {p} : run'[q] = run[q]
      BY <1>6, SentRun DEF Send
    <2>2. UNCHANGED <<due, up>> /\ NextHour' = NextHour
      BY <1>6 DEF Send, NextHour
    <2>3. QED
      BY <2>1, <2>2 DEF Timing
  <1>7. ASSUME NEW p \in Processes, Finish(p) PROVE Timing'
    BY <1>7 DEF Finish, Timing, NextHour, TypeOK
  <1>8. CASE UNCHANGED vars
    BY <1>8 DEF vars, Timing, NextHour
  <1>9. QED
    BY <1>1, <1>2, <1>3, <1>4, <1>5, <1>6, <1>7, <1>8 DEF Next, Work

-----------------------------------------------------------------------------
LEMMA HonestStep == TypeOK /\ HonestRows /\ [Next]_vars => HonestRows'
  <1> SUFFICES ASSUME TypeOK, HonestRows, [Next]_vars PROVE HonestRows'
    OBVIOUS
  <1>0. log \subseteq LogRow
    BY DEF TypeOK, DispatchTypeOK
  <1>1. CASE UNCHANGED <<log, inbox, run>>
    BY <1>1 DEF HonestRows, LogIsTruthful
  <1>2. ASSUME NEW p \in Processes, Stop(p) PROVE HonestRows'
    BY <1>2 DEF Stop, HonestRows, LogIsTruthful, TypeOK
  <1>3. ASSUME NEW p \in Processes, Fire(p) PROVE HonestRows'
    <2>1. run'[p].rows = {} /\ \A q \in Processes \ {p} : run'[q] = run[q]
      BY <1>3 DEF Fire, TypeOK
    <2>2. QED
      BY <1>3, <2>1 DEF Fire, HonestRows, LogIsTruthful
  <1>4. ASSUME NEW p \in Processes, NEW u \in Members, Skip(p, u) PROVE HonestRows'
    <2>1. run[p] # NoRun /\ run'[p].rows = run[p].rows /\ \A q \in Processes \ {p} : run'[q] = run[q]
      BY <1>4, SkippedRun DEF Skip
    <2>2. QED
      BY <1>4, <2>1 DEF Skip, HonestRows, LogIsTruthful
  <1>5. ASSUME NEW p \in Processes, NEW u \in Members, NEW outcome \in Outcomes, Send(p, u, outcome)
        PROVE  HonestRows'
    <2> DEFINE d == run[p].date
               entry == Entry(u, d, outcome)
    <2>1. run[p] # NoRun /\ d \in Days /\ inbox' = Taken(u, d, outcome) /\ log' = log
      BY <1>5, RunFields DEF Send
    <2>2. /\ \A v \in Members, e \in Days : inbox'[v][e] >= inbox[v][e]
          /\ outcome = "accepted" => inbox'[u][d] = inbox[u][d] + 1
      BY <2>1, TakenCounts
    <2>3. \A v \in Members, e \in Days : inbox[v][e] \in Nat /\ inbox'[v][e] \in Nat
      BY <2>1, TakenCounts, DigestAssumption DEF TypeOK, DispatchTypeOK
    <2>4. entry.status = "sent" => inbox'[entry.to][entry.letter] > 0
      BY <2>1, <2>2, <2>3 DEF Entry
    <2>5. \A e \in LogRow : inbox[e.to][e.letter] > 0 => inbox'[e.to][e.letter] > 0
      <3>1. \A e \in LogRow : e.to \in Members /\ e.letter \in Days
        BY DigestAssumption DEF LogRow
      <3>2. QED
        BY <3>1, <2>2, <2>3
    <2>6. run'[p].rows = run[p].rows \cup {entry} /\ \A q \in Processes \ {p} : run'[q] = run[q]
      BY <1>5, SentRun
    <2>7. \A q \in Processes : run[q] # NoRun => run[q].rows \subseteq LogRow
      BY RunFields
    <2>8. QED
      BY <1>0, <2>1, <2>4, <2>5, <2>6, <2>7 DEF HonestRows, LogIsTruthful
  <1>6. ASSUME NEW p \in Processes, Finish(p) PROVE HonestRows'
    BY <1>6 DEF Finish, HonestRows, LogIsTruthful, TypeOK
  <1>7. QED
    BY <1>1, <1>2, <1>3, <1>4, <1>5, <1>6 DEF Next, Work, Tick, Start, vars

\* A committed row "sent" is about a message the provider took, for every instance: what a run
\* has written is about mail that left, whether the run ends or not.
THEOREM LogTruthful == Spec => []LogIsTruthful
  <1>1. Init => HonestRows
    BY DEF Init, DispatchInit, HonestRows, LogIsTruthful
  <1>2. QED
    BY <1>1, TypeInit, TypeStep, HonestStep, PTL DEF Spec, HonestRows

-----------------------------------------------------------------------------
\* Timers and runs in numbers.
LEMMA Clock ==
  ASSUME TypeOK
  PROVE  /\ day \in Nat /\ NextHour \in Nat /\ up \subseteq Processes
         /\ \A p \in Processes : due[p] \in Nat
         /\ \A d \in Days : d \in Nat
         /\ \A u \in Members, d \in Days : inbox[u][d] \in Nat
  BY DigestAssumption DEF TypeOK, DispatchTypeOK, Days, NextHour

LEMMA HostingFixed == [Next]_vars => overlapping' = overlapping
  BY DEF Next, vars, Tick, Start, Stop, Work, Fire, Skip, Send, Finish

LEMMA OneCopyStep == TypeOK /\ Timing /\ OneCopy /\ [Next]_vars => OneCopy'
  <1> SUFFICES ASSUME TypeOK, Timing, OneCopy, [Next]_vars, ~overlapping
               PROVE  OneCopy'
    BY HostingFixed DEF OneCopy
  <1>0. /\ day \in Nat /\ NextHour \in Nat /\ up \subseteq Processes
        /\ \A p \in Processes : due[p] \in Nat
        /\ \A d \in Days : d \in Nat
        /\ \A u \in Members, d \in Days : inbox[u][d] \in Nat
    BY Clock
  <1>a. /\ \A p, q \in up : p = q
        /\ \A u \in Members, d \in Days :
             /\ inbox[u][d] <= 1
             /\ d >= NextHour => inbox[u][d] = 0
             /\ \A p \in up : d >= due[p] => inbox[u][d] = 0
        /\ \A p \in Processes : run[p] # NoRun => \A u \in run[p].left : inbox[u][run[p].date] = 0
    BY DEF OneCopy
  <1>1. CASE Tick
    <2>1. UNCHANGED <<inbox, run, up, due>> /\ NextHour' \in Nat /\ NextHour' >= NextHour
      BY <1>0, <1>1 DEF Tick, NextHour, TypeOK
    <2>2. QED
      <3>1. \A d \in Days : d >= NextHour' => d >= NextHour
        BY <1>0, <2>1
      <3>2. QED
        BY <1>a, <2>1, <3>1 DEF OneCopy
  <1>2. ASSUME NEW p \in Processes, Start(p) PROVE OneCopy'
    <2>1. up = {} /\ up' = {p} /\ due'[p] = NextHour /\ UNCHANGED <<inbox, run>> /\ NextHour' = NextHour
      BY <1>2 DEF Start, TypeOK, NextHour
    <2>2. QED
      BY <1>a, <2>1 DEF OneCopy
  <1>3. ASSUME NEW p \in Processes, Stop(p) PROVE OneCopy'
    <2>1. up' \subseteq up /\ UNCHANGED <<inbox, due>> /\ NextHour' = NextHour
      BY <1>3 DEF Stop, NextHour
    <2>2. \A q \in Processes : run'[q] # NoRun => run'[q] = run[q]
      BY <1>3 DEF Stop, TypeOK
    <2>3. QED
      BY <1>a, <2>1, <2>2 DEF OneCopy
  <1>4. ASSUME NEW p \in Processes, Fire(p) PROVE OneCopy'
    <2>1. p \in up /\ due[p] = day /\ day \in Days /\ UNCHANGED <<inbox, up>> /\ NextHour' = NextHour
      BY <1>4 DEF Fire, NextHour, TypeOK
    <2>2. /\ due'[p] = day + 1 /\ \A q \in Processes \ {p} : due'[q] = due[q] /\ run'[q] = run[q]
          /\ run'[p].date = day /\ run'[p].left = Members
      BY <1>4 DEF Fire, TypeOK
    <2>3. \A u \in Members : inbox[u][day] = 0
      BY <1>0, <1>a, <2>1
    <2>4. \A q \in Processes : due'[q] >= due[q]
      BY <1>0, <2>1, <2>2
    <2>5. \A u \in Members, d \in Days, q \in up : d >= due'[q] => inbox[u][d] = 0
      <3>1. \A q \in up : due'[q] >= due[q] /\ due'[q] \in Nat /\ due[q] \in Nat
        BY <1>0, <2>1, <2>2, <2>4
      <3>2. QED
        BY <1>0, <1>a, <3>1
    <2>6. QED
      BY <1>a, <2>1, <2>2, <2>3, <2>5 DEF OneCopy
  <1>5. ASSUME NEW p \in Processes, NEW u \in Members, Skip(p, u) PROVE OneCopy'
    <2>1. run[p] # NoRun /\ run'[p].date = run[p].date /\ run'[p].left \subseteq run[p].left
            /\ \A q \in Processes \ {p} : run'[q] = run[q]
      BY <1>5, SkippedRun DEF Skip
    <2>2. UNCHANGED <<inbox, due, up>> /\ NextHour' = NextHour
      BY <1>5 DEF Skip, NextHour
    <2>3. QED
      BY <1>a, <2>1, <2>2 DEF OneCopy
  <1>6. ASSUME NEW p \in Processes, NEW u \in Members, NEW outcome \in Outcomes, Send(p, u, outcome)
        PROVE  OneCopy'
    <2> DEFINE d == run[p].date
    <2>1. run[p] # NoRun /\ d \in Days /\ p \in up /\ u \in run[p].left /\ inbox' = Taken(u, d, outcome)
      BY <1>6, RunFields DEF Send
    <2>2. UNCHANGED <<due, up>> /\ NextHour' = NextHour
      BY <1>6 DEF Send, NextHour
    <2>3. /\ \A v \in Members, e \in Days : <<v, e>> # <<u, d>> => inbox'[v][e] = inbox[v][e]
          /\ inbox'[u][d] \in {inbox[u][d], inbox[u][d] + 1}
      BY <2>1, TakenCounts
    <2>4. inbox[u][d] = 0
      BY <1>a, <2>1
    <2>5. d < NextHour /\ \A q \in up : d < due[q]
      BY <1>a, <2>1 DEF Timing
    <2>6. \A q \in Processes : run[q] # NoRun => q = p
      BY <1>a, <2>1, RunFields
    <2>7. /\ run'[p].date = d /\ run'[p].left = run[p].left \ {u}
          /\ \A q \in Processes \ {p} : run'[q] = run[q]
      BY <1>6, SentRun
    <2>8. \A v \in Members, e \in Days :
            /\ inbox'[v][e] <= 1
            /\ e >= NextHour => inbox'[v][e] = 0
            /\ \A q \in up : e >= due[q] => inbox'[v][e] = 0
      <3> SUFFICES ASSUME NEW v \in Members, NEW e \in Days
                   PROVE  /\ inbox'[v][e] <= 1
                          /\ e >= NextHour => inbox'[v][e] = 0
                          /\ \A q \in up : e >= due[q] => inbox'[v][e] = 0
        OBVIOUS
      <3>1. CASE v = u /\ e = d
        BY <1>0, <2>3, <2>4, <2>5, <3>1
      <3>2. CASE <<v, e>> # <<u, d>>
        BY <1>a, <2>3, <3>2
      <3>3. QED
        BY <3>1, <3>2
    <2>9. \A q \in Processes : run'[q] # NoRun => \A v \in run'[q].left : inbox'[v][run'[q].date] = 0
      <3>1. \A v \in run[p].left \ {u} : v \in Members /\ inbox'[v][d] = inbox[v][d] /\ inbox[v][d] = 0
        BY <1>a, <2>1, <2>3, RunFields
      <3>2. QED
        BY <2>6, <2>7, <3>1
    <2>10. QED
      BY <1>a, <2>2, <2>8, <2>9 DEF OneCopy
  <1>7. ASSUME NEW p \in Processes, Finish(p) PROVE OneCopy'
    <2>1. UNCHANGED <<inbox, due, up>> /\ NextHour' = NextHour
      BY <1>7 DEF Finish, NextHour
    <2>2. \A q \in Processes : run'[q] # NoRun => run'[q] = run[q]
      BY <1>7 DEF Finish, TypeOK
    <2>3. QED
      BY <1>a, <2>1, <2>2 DEF OneCopy
  <1>8. CASE UNCHANGED vars
    BY <1>a, <1>8 DEF vars, OneCopy, NextHour
  <1>9. QED
    BY <1>1, <1>2, <1>3, <1>4, <1>5, <1>6, <1>7, <1>8 DEF Next, Work

LEMMA FirstMorning == Init => Timing /\ OneCopy
  <1> SUFFICES ASSUME Init PROVE Timing /\ OneCopy
    OBVIOUS
  <1>1. up = {} /\ \A p \in Processes : run[p] = NoRun
    BY DEF Init
  <1>2. \A u \in Members, d \in Days : inbox[u][d] = 0
    BY DigestAssumption DEF Init, DispatchInit
  <1>3. QED
    BY <1>1, <1>2 DEF Timing, OneCopy

\* Without overlap nobody gets a second copy of a day's digest, for every number of members, days
\* and processes and every sequence of stops and starts.
THEOREM OneCopyOnly == Spec => []NoSecondCopy
  <1>1. OneCopy => NoSecondCopy
    BY DEF OneCopy, NoSecondCopy
  <1>2. QED
    BY <1>1, FirstMorning, TypeInit, TypeStep, TimingStep, OneCopyStep, PTL DEF Spec

-----------------------------------------------------------------------------
\* A process that has given its turn for a digest away does not get it back: a timer that is set
\* again is set for a later day, and a process that starts after the hour is too late.
LEMMA NoTurnBack ==
  ASSUME TypeOK, Timing, [Next]_vars,
         NEW q \in Processes, NEW v \in Members, NEW e \in Days, ~MaySend(q, v, e)
  PROVE  ~MaySend(q, v, e)'
  <1>0. /\ day \in Nat /\ NextHour \in Nat /\ up \subseteq Processes /\ e \in Nat
        /\ \A p \in Processes : due[p] \in Nat
    BY Clock
  <1>a. /\ run[q] # NoRun /\ run[q].date = e => v \notin run[q].left
        /\ q \in up => ~(e >= due[q])
        /\ q \notin up => ~(e >= NextHour)
    BY DEF MaySend
  <1>1. CASE Tick
    <2>1. UNCHANGED <<run, up, due>> /\ NextHour' \in Nat /\ NextHour' >= NextHour
      BY <1>0, <1>1 DEF Tick, NextHour, TypeOK
    <2>2. QED
      BY <1>0, <1>a, <2>1 DEF MaySend
  <1>2. ASSUME NEW p \in Processes, Start(p) PROVE ~MaySend(q, v, e)'
    <2>1. /\ p \notin up /\ up' = up \cup {p} /\ due'[p] = NextHour
          /\ \A x \in Processes \ {p} : due'[x] = due[x]
          /\ run' = run /\ NextHour' = NextHour
      BY <1>2 DEF Start, TypeOK, NextHour
    <2>2. QED
      BY <1>a, <2>1 DEF MaySend
  <1>3. ASSUME NEW p \in Processes, Stop(p) PROVE ~MaySend(q, v, e)'
    <2>1. up' = up \ {p} /\ due' = due /\ NextHour' = NextHour /\ p \in up /\ due[p] <= NextHour
      BY <1>3 DEF Stop, NextHour, Timing
    <2>2. run'[q] # NoRun => run'[q] = run[q]
      BY <1>3 DEF Stop, TypeOK
    <2>3. QED
      BY <1>0, <1>a, <2>1, <2>2 DEF MaySend
  <1>4. ASSUME NEW p \in Processes, Fire(p) PROVE ~MaySend(q, v, e)'
    <2>1. p \in up /\ due[p] = day /\ up' = up /\ NextHour' = NextHour
      BY <1>4 DEF Fire, NextHour
    <2>2. /\ due'[p] = day + 1 /\ \A x \in Processes \ {p} : due'[x] = due[x] /\ run'[x] = run[x]
          /\ run'[p].date = day
      BY <1>4 DEF Fire, TypeOK
    <2>3. QED
      BY <1>0, <1>a, <2>1, <2>2 DEF MaySend
  <1>5. ASSUME NEW p \in Processes, NEW u \in Members, Skip(p, u) PROVE ~MaySend(q, v, e)'
    <2>1. run[p] # NoRun /\ run'[p].date = run[p].date /\ run'[p].left \subseteq run[p].left
            /\ \A x \in Processes \ {p} : run'[x] = run[x]
      BY <1>5, SkippedRun DEF Skip
    <2>2. UNCHANGED <<due, up>> /\ NextHour' = NextHour
      BY <1>5 DEF Skip, NextHour
    <2>3. QED
      BY <1>a, <2>1, <2>2 DEF MaySend
  <1>6. ASSUME NEW p \in Processes, NEW u \in Members, NEW outcome \in Outcomes, Send(p, u, outcome)
        PROVE  ~MaySend(q, v, e)'
    <2>1. run[p] # NoRun /\ run'[p].date = run[p].date /\ run'[p].left \subseteq run[p].left
            /\ \A x \in Processes \ {p} : run'[x] = run[x]
      BY <1>6, SentRun DEF Send
    <2>2. UNCHANGED <<due, up>> /\ NextHour' = NextHour
      BY <1>6 DEF Send, NextHour
    <2>3. QED
      BY <1>a, <2>1, <2>2 DEF MaySend
  <1>7. ASSUME NEW p \in Processes, Finish(p) PROVE ~MaySend(q, v, e)'
    <2>1. UNCHANGED <<due, up>> /\ NextHour' = NextHour
      BY <1>7 DEF Finish, NextHour
    <2>2. run'[q] # NoRun => run'[q] = run[q]
      BY <1>7 DEF Finish, TypeOK
    <2>3. QED
      BY <1>a, <2>1, <2>2 DEF MaySend
  <1>8. CASE UNCHANGED vars
    BY <1>a, <1>8 DEF vars, MaySend, NextHour
  <1>9. QED
    BY <1>1, <1>2, <1>3, <1>4, <1>5, <1>6, <1>7, <1>8 DEF Next, Work

\* Sets of processes: their size grows with them.
LEMMA Sizes ==
  ASSUME NEW T \in SUBSET Processes, NEW S \in SUBSET T
  PROVE  /\ Cardinality(S) \in Nat /\ Cardinality(T) \in Nat /\ Cardinality(S) <= Cardinality(T)
         /\ \A p \in T \ S : Cardinality(S) < Cardinality(T)
  <1>1. IsFiniteSet(T) /\ IsFiniteSet(S)
    BY DigestAssumption, FS_Subset
  <1>2. Cardinality(S) \in Nat /\ Cardinality(T) \in Nat /\ Cardinality(S) <= Cardinality(T)
    BY <1>1, FS_Subset, FS_CardinalityType
  <1>3. ASSUME NEW p \in T \ S PROVE Cardinality(S) < Cardinality(T)
    <2>1. IsFiniteSet(T \ {p}) /\ Cardinality(T \ {p}) = Cardinality(T) - 1
      BY <1>1, FS_RemoveElement
    <2>2. Cardinality(S) <= Cardinality(T \ {p})
      BY <2>1, FS_Subset
    <2>3. QED
      BY <1>2, <2>1, <2>2
  <1>4. QED
    BY <1>2, <1>3

LEMMA FewCopiesStep == TypeOK /\ Timing /\ FewCopies /\ [Next]_vars => FewCopies'
  <1> SUFFICES ASSUME TypeOK, Timing, FewCopies, [Next]_vars, NEW v \in Members, NEW e \in Days
               PROVE  inbox'[v][e] <= Cardinality(Spent(v, e)')
    BY DEF FewCopies
  <1>1. Spent(v, e) \subseteq Spent(v, e)' /\ Spent(v, e)' \subseteq Processes
    BY NoTurnBack DEF Spent
  <1>2. /\ Cardinality(Spent(v, e)) \in Nat /\ Cardinality(Spent(v, e)') \in Nat
        /\ Cardinality(Spent(v, e)) <= Cardinality(Spent(v, e)')
        /\ \A p \in Spent(v, e)' \ Spent(v, e) : Cardinality(Spent(v, e)) < Cardinality(Spent(v, e)')
    BY <1>1, Sizes
  <1>3. inbox[v][e] <= Cardinality(Spent(v, e)) /\ inbox[v][e] \in Nat
    BY Clock DEF FewCopies
  <1>4. CASE inbox'[v][e] = inbox[v][e]
    BY <1>2, <1>3, <1>4
  <1>5. ASSUME NEW p \in Processes, NEW u \in Members, NEW outcome \in Outcomes, Send(p, u, outcome)
        PROVE  inbox'[v][e] <= Cardinality(Spent(v, e)')
    <2> DEFINE d == run[p].date
    <2>1. /\ run[p] # NoRun /\ d \in Days /\ p \in up /\ u \in run[p].left
          /\ inbox' = Taken(u, d, outcome)
      BY <1>5, RunFields DEF Send
    <2>2. /\ <<v, e>> # <<u, d>> => inbox'[v][e] = inbox[v][e]
          /\ inbox'[u][d] \in {inbox[u][d], inbox[u][d] + 1}
      BY <2>1, TakenCounts
    <2>3. CASE v = u /\ e = d
      <3>1. p \notin Spent(v, e)
        BY <2>1, <2>3 DEF Spent, MaySend
      <3>2. p \in Spent(v, e)'
        <4>1. run'[p].date = d /\ run'[p].left = run[p].left \ {u}
          BY <1>5, SentRun
        <4>2. p \in up' /\ due'[p] = due[p] /\ d < due[p]
          BY <1>5, <2>1 DEF Send, Timing
        <4>3. due[p] \in Nat /\ d \in Nat
          BY <2>1, Clock
        <4>4. ~MaySend(p, v, e)'
          BY <2>3, <4>1, <4>2, <4>3 DEF MaySend
        <4>5. QED
          BY <4>4 DEF Spent
      <3>3. QED
        BY <1>2, <1>3, <2>2, <2>3, <3>1, <3>2
    <2>4. CASE <<v, e>> # <<u, d>>
      BY <1>4, <2>2, <2>4
    <2>5. QED
      BY <2>3, <2>4
  <1>6. QED
    BY <1>4, <1>5 DEF Next, Work, Tick, Start, Stop, Fire, Skip, Finish, vars

LEMMA FewCopiesInit == Init => FewCopies
  <1> SUFFICES ASSUME Init, NEW u \in Members, NEW d \in Days
               PROVE  inbox[u][d] <= Cardinality(Spent(u, d))
    BY DEF FewCopies
  <1>1. inbox[u][d] = 0
    BY DigestAssumption DEF Init, DispatchInit
  <1>2. Cardinality(Spent(u, d)) \in Nat
    BY Sizes DEF Spent
  <1>3. QED
    BY <1>1, <1>2

-----------------------------------------------------------------------------
Implements == TypeOK /\ Timing /\ OneCopy /\ FewCopies

\* A mail that was taken is a delivery the promise allows: of a day that has come, and one of the
\* copies that are left.
LEMMA SendDelivers ==
  ASSUME Implements, NEW p \in Processes, NEW u \in Members, NEW outcome \in Outcomes,
         Send(p, u, outcome)
  PROVE  [Mail!Next]_<<day, IF overlapping THEN Cardinality(Processes) ELSE 1, inbox>>
  <1> DEFINE d == run[p].date
             copies == IF overlapping THEN Cardinality(Processes) ELSE 1
  <1>1. /\ run[p] # NoRun /\ d \in Days /\ p \in up /\ u \in run[p].left
        /\ inbox' = Taken(u, d, outcome) /\ day' = day /\ overlapping' = overlapping
    BY RunFields DEF Send, Implements
  <1>2. CASE outcome = "refused"
    BY <1>1, <1>2 DEF Taken
  <1>3. CASE outcome # "refused"
    <2>1. inbox' = [inbox EXCEPT ![u][d] = @ + 1]
      BY <1>1, <1>3 DEF Taken
    <2>2. d <= day
      <3>1. d < NextHour /\ NextHour \in {day, day + 1} /\ day \in Nat /\ d \in Nat
        BY <1>1, Clock DEF Implements, Timing, NextHour
      <3>2. QED
        BY <3>1
    <2>3. inbox[u][d] < copies
      <3>1. CASE overlapping
        <4>1. p \in Processes \ Spent(u, d) /\ Spent(u, d) \subseteq Processes
          BY <1>1 DEF Spent, MaySend
        <4>2. /\ Cardinality(Spent(u, d)) \in Nat /\ Cardinality(Processes) \in Nat
              /\ Cardinality(Spent(u, d)) < Cardinality(Processes)
          BY <4>1, Sizes
        <4>3. inbox[u][d] <= Cardinality(Spent(u, d)) /\ inbox[u][d] \in Nat
          BY <1>1, Clock DEF FewCopies, Implements
        <4>4. QED
          BY <3>1, <4>2, <4>3
      <3>2. CASE ~overlapping
        BY <1>1, <3>2 DEF Implements, OneCopy
      <3>3. QED
        BY <3>1, <3>2
    <2>4. Mail!Deliver(u, d)
      BY <1>1, <2>1, <2>2, <2>3 DEF Mail!Deliver
    <2>5. QED
      BY <1>1, <2>4 DEF Mail!Next
  <1>4. QED
    BY <1>2, <1>3

\* The runs implement DailyMail, for every instance: never before its day, one copy a day, and with
\* overlap no more copies than processes.
THEOREM ImplementsDailyMail == Spec => MailSpec
  <1>1. Init => Mail!Init
    <2> SUFFICES ASSUME Init PROVE Mail!Init
      OBVIOUS
    <2>1. Cardinality(Processes) \in Nat
      BY DigestAssumption, FS_CardinalityType
    <2>2. (IF overlapping THEN Cardinality(Processes) ELSE 1) \in Nat
      BY <2>1 DEF Init
    <2>3. QED
      BY <2>2, DigestAssumption DEF Init, DispatchInit, Mail!Init
  <1>2. Implements /\ [Next]_vars =>
          [Mail!Next]_<<day, IF overlapping THEN Cardinality(Processes) ELSE 1, inbox>>
    <2> SUFFICES ASSUME Implements, [Next]_vars
                 PROVE  [Mail!Next]_<<day, IF overlapping THEN Cardinality(Processes) ELSE 1, inbox>>
      OBVIOUS
    <2>1. CASE UNCHANGED <<day, overlapping, inbox>>
      BY <2>1
    <2>2. CASE Tick
      <3>1. CASE late
        <4>1. day' = day + 1 /\ day + 1 \in Days
          BY <2>2, <3>1, DigestAssumption DEF Tick, Implements, TypeOK, Days
        <4>2. QED
          BY <2>2, <4>1 DEF Tick, Mail!Next, Mail!Midnight
      <3>2. CASE ~late
        BY <2>2, <3>2 DEF Tick
      <3>3. QED
        BY <3>1, <3>2
    <2>3. ASSUME NEW p \in Processes, NEW u \in Members, NEW outcome \in Outcomes, Send(p, u, outcome)
          PROVE  [Mail!Next]_<<day, IF overlapping THEN Cardinality(Processes) ELSE 1, inbox>>
      BY <2>3, SendDelivers
    <2>4. QED
      BY <2>1, <2>2, <2>3 DEF Next, Work, Start, Stop, Fire, Skip, Finish, vars
  <1>3. Spec => []Implements
    BY FirstMorning, TypeInit, TypeStep, TimingStep, OneCopyStep, FewCopiesInit, FewCopiesStep, PTL
    DEF Spec, Implements
  <1>4. QED
    BY <1>1, <1>2, <1>3, PTL DEF Spec, MailSpec, Mail!Spec

\* A digest is mailed in the day's hour and not before, and whatever overlaps, a member gets no
\* more copies of it than there are processes.
MailInItsHour ==
  \A u \in Members, d \in Days :
    /\ inbox[u][d] <= Cardinality(Processes)
    /\ inbox[u][d] > 0 => d < NextHour

\* No stop, start or deploy sends a digest before its hour (digest_scheduler.py: a timer is set for
\* the hour to come), and each process that ever runs accounts for one copy of it at most: until
\* the hour no process has Spent its turn.
THEOREM MailStaysInItsHour == Spec => []MailInItsHour
  <1>1. TypeOK /\ Timing /\ FewCopies => MailInItsHour
    <2> SUFFICES ASSUME TypeOK, Timing, FewCopies, NEW u \in Members, NEW d \in Days
                 PROVE  /\ inbox[u][d] <= Cardinality(Processes)
                        /\ inbox[u][d] > 0 => d < NextHour
      BY DEF MailInItsHour
    <2>0. /\ d \in Nat /\ NextHour \in Nat /\ \A p \in Processes : due[p] \in Nat
          /\ inbox[u][d] \in Nat
      BY Clock
    <2>1. inbox[u][d] <= Cardinality(Spent(u, d))
      BY DEF FewCopies
    <2>2. Cardinality(Spent(u, d)) \in Nat /\ Cardinality(Processes) \in Nat
            /\ Cardinality(Spent(u, d)) <= Cardinality(Processes)
      BY Sizes DEF Spent
    <2>3. ASSUME d >= NextHour PROVE Spent(u, d) = {}
      <3>1. \A p \in up : d >= due[p]
        <4>1. \A p \in up : p \in Processes /\ due[p] <= NextHour
          BY DEF Timing, TypeOK
        <4>2. QED
          BY <2>0, <2>3, <4>1
      <3>2. QED
        BY <2>3, <3>1 DEF Spent, MaySend
    <2>4. inbox[u][d] > 0 => d < NextHour
      BY <2>0, <2>1, <2>3, FS_EmptySet
    <2>5. QED
      BY <2>0, <2>1, <2>2, <2>4
  <1>2. QED
    BY <1>1, FirstMorning, TypeInit, TypeStep, TimingStep, FewCopiesInit, FewCopiesStep, PTL DEF Spec
=============================================================================
