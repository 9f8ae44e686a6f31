-------------------------- MODULE PlacementProofs --------------------------
(***************************************************************************)
(* Safety of Placement for every set of accounts, departments and offices. *)
(***************************************************************************)
EXTENDS Placement, TLAPS, FiniteSetTheorems

\* Every step is one of the operations, performed on some account.
LEMMA NextCases ==
  ASSUME Next
  PROVE  \E actor \in Accounts, u \in Accounts, d \in Departments, o \in Offices,
            mp \in BOOLEAN, r \in RequestInputs, s \in Statuses :
           \/ Register(u, r) \/ ConfirmEmail(u)
           \/ Reject(actor, u) \/ ChangeStatus(actor, u, s) \/ UpdateDepartment(actor, d)
           \/ ModifyPrimary(actor, u, d) \/ Release(actor, u, d) \/ Revoke(actor, u, d)
           \/ Appoint(actor, u, d, o) \/ Approve(actor, u, d, o)
           \/ Assign(actor, u, d, o, mp) \/ ModifyRole(actor, u, d, o, mp)
           \/ EditRole(actor, o) \/ Restart
  <1>0. /\ Founder \in Accounts /\ FounderDept \in Departments /\ FounderOffice \in Offices
        /\ TRUE \in BOOLEAN /\ "active" \in Statuses /\ \E r \in RequestInputs : TRUE
    BY PlacementAssumption DEF Statuses
  <1>1. CASE \E u \in Accounts : SelfService(u)
    BY <1>0, <1>1 DEF SelfService
  <1>2. CASE \E actor \in Accounts : MayCall(actor) /\ \E u \in Accounts : Decision(actor, u)
    <2>1. PICK actor \in Accounts, u \in Accounts : Decision(actor, u)
      BY <1>2
    <2>2. CASE Reject(actor, u)
      BY <1>0, <2>2
    <2>3. CASE \E s \in StatusInputs : ChangeStatus(actor, u, s)
      BY <1>0, <2>3, PlacementAssumption
    <2>4. CASE \E d \in Departments :
                 ModifyPrimary(actor, u, d) \/ Release(actor, u, d) \/ Revoke(actor, u, d)
      BY <1>0, <2>4
    <2>5. CASE \E d \in Departments, o \in Offices : Appoint(actor, u, d, o) \/ Approve(actor, u, d, o)
      BY <1>0, <2>5
    <2>6. CASE \E d \in Departments, o \in Offices, mp \in BOOLEAN :
                 Assign(actor, u, d, o, mp) \/ ModifyRole(actor, u, d, o, mp)
      BY <1>0, <2>6
    <2>7. QED
      BY <2>1, <2>2, <2>3, <2>4, <2>5, <2>6 DEF Decision
  <1>3. CASE \E actor \in Accounts : MayCall(actor) /\ \E d \in Retirable : UpdateDepartment(actor, d)
    BY <1>0, <1>3, PlacementAssumption
  <1>4. CASE (\E actor \in Accounts : MayCall(actor) /\ \E x \in Offices : EditRole(actor, x)) \/ Restart
    BY <1>0, <1>4
  <1>5. QED
    BY <1>1, <1>2, <1>3, <1>4 DEF Next

-----------------------------------------------------------------------------
(***************************************************************************)
(* Types.                                                                  *)
(***************************************************************************)
LEMMA SeatedType ==
  ASSUME TypeOK, NEW u \in Accounts, NEW d \in Departments, NEW o \in Offices
  PROVE  Seated(u, d, o) \in [Accounts -> [Departments -> Offices \cup {NoOffice}]]
  BY PlacementAssumption DEF TypeOK, Seated

LEMMA PlaceAccountType ==
  ASSUME TypeOK, NEW u \in Accounts, NEW d \in Departments, NEW o \in Offices, NEW mp \in BOOLEAN,
         PlaceAccount(u, d, o, mp)
  PROVE  /\ office' \in [Accounts -> [Departments -> Offices \cup {NoOffice}]]
         /\ primary' \in [Accounts -> SUBSET Departments]
         /\ older' \in [Accounts -> SUBSET (Departments \X Departments)]
  <1>1. office' \in [Accounts -> [Departments -> Offices \cup {NoOffice}]]
    BY SeatedType DEF PlaceAccount
  <1>2. primary' \in [Accounts -> SUBSET Departments]
    BY DEF PlaceAccount, TypeOK
  <1>3. PlacedIn(u) \X {d} \subseteq Departments \X Departments
    BY DEF PlacedIn
  <1>4. older' \in [Accounts -> SUBSET (Departments \X Departments)]
    BY <1>3 DEF PlaceAccount, TypeOK
  <1>5. QED
    BY <1>1, <1>2, <1>4

LEMMA TemplatesType == Templates \in [Offices -> RoleRow]
  <1>1. \A x : Grants(x) \subseteq Permissions
    BY DEF Grants, Permissions
  <1>2. \A x : (x \in OrganizationScope) \in BOOLEAN
    OBVIOUS
  <1>3. \A x : Template(x) \in RoleRow
    BY <1>1, <1>2 DEF Template, RoleRow
  <1>4. QED
    BY <1>3 DEF Templates

LEMMA TypeStep == TypeOK /\ [Next]_vars => TypeOK'
  <1> SUFFICES ASSUME TypeOK, [Next]_vars PROVE TypeOK'
    OBVIOUS
  <1>1. CASE UNCHANGED vars
    BY <1>1 DEF TypeOK, vars
  <1>2. CASE Next
    <2>1. PICK actor \in Accounts, u \in Accounts, d \in Departments, o \in Offices,
               mp \in BOOLEAN, r \in RequestInputs, s \in Statuses :
           \/ Register(u, r) \/ ConfirmEmail(u)
           \/ Reject(actor, u) \/ ChangeStatus(actor, u, s) \/ UpdateDepartment(actor, d)
           \/ ModifyPrimary(actor, u, d) \/ Release(actor, u, d) \/ Revoke(actor, u, d)
           \/ Appoint(actor, u, d, o) \/ Approve(actor, u, d, o)
           \/ Assign(actor, u, d, o, mp) \/ ModifyRole(actor, u, d, o, mp)
           \/ EditRole(actor, o) \/ Restart
      BY <1>2, NextCases
    <2>2. CASE Register(u, r)
      BY <2>2 DEF Register, TypeOK, Statuses, membershipVars
    <2>3. CASE ConfirmEmail(u)
      BY <2>3 DEF ConfirmEmail, TypeOK, Statuses, membershipVars
    <2>4. CASE Reject(actor, u)
      BY <2>4 DEF Reject, TypeOK, Statuses, membershipVars
    <2>5. CASE ChangeStatus(actor, u, s)
      BY <2>5 DEF ChangeStatus, TypeOK, membershipVars
    <2>6. CASE UpdateDepartment(actor, d)
      BY <2>6 DEF UpdateDepartment, TypeOK, accountVars, membershipVars
    <2>15. CASE EditRole(actor, o)
      <3>1. roles' \in [Offices -> RoleRow]
        BY <2>15, PlacementAssumption DEF EditRole, TypeOK
      <3>2. QED
        BY <2>15, <3>1 DEF EditRole, TypeOK, accountVars, membershipVars
    <2>16. CASE Restart
      BY <2>16, TemplatesType DEF Restart, TypeOK, accountVars, membershipVars
    <2>7. CASE ModifyPrimary(actor, u, d)
      BY <2>7 DEF ModifyPrimary, TypeOK, accountVars
    <2>8. CASE Release(actor, u, d)
      BY <2>8, SeatedType, PlacementAssumption DEF Release, ModifyRole, TypeOK, accountVars
    <2>9. CASE Revoke(actor, u, d)
      <3>1. office' \in [Accounts -> [Departments -> Offices \cup {NoOffice}]]
        BY <2>9 DEF Revoke, TypeOK
      <3>2. primary' \in [Accounts -> SUBSET Departments]
        BY <2>9 DEF Revoke, TypeOK, Oldest, PlacedIn
      <3>3. older' \in [Accounts -> SUBSET (Departments \X Departments)]
        BY <2>9 DEF Revoke, TypeOK
      <3>4. QED
        BY <2>9, <3>1, <3>2, <3>3 DEF Revoke, TypeOK, accountVars
    <2>10. CASE Appoint(actor, u, d, o)
      BY <2>10, PlaceAccountType DEF Appoint, TypeOK, accountVars
    <2>11. CASE Approve(actor, u, d, o)
      BY <2>11, PlaceAccountType DEF Approve, TypeOK, Statuses
    <2>12. CASE Assign(actor, u, d, o, mp)
      BY <2>12, PlaceAccountType DEF Assign, TypeOK, accountVars
    <2>13. CASE ModifyRole(actor, u, d, o, mp)
      BY <2>13, SeatedType DEF ModifyRole, TypeOK, accountVars
    <2>14. QED
      BY <2>1, <2>2, <2>3, <2>4, <2>5, <2>6, <2>7, <2>8, <2>9, <2>10, <2>11, <2>12, <2>13, <2>15, <2>16
  <1>3. QED
    BY <1>1, <1>2

\* The tables keep their shape through every operation of the services.
THEOREM TypeCorrect == Spec => []TypeOK
  <1>1. Init => TypeOK
    BY PlacementAssumption, TemplatesType DEF Init, TypeOK, Statuses
  <1>2. QED
    BY <1>1, TypeStep, PTL DEF Spec
-----------------------------------------------------------------------------
(***************************************************************************)
(* One primary department.  Seating an account keeps everyone placed where *)
(* they were, and adds exactly the department it is seated in.             *)
(***************************************************************************)
LEMMA SeatedPlaces ==
  ASSUME TypeOK, NEW u \in Accounts, NEW d \in Departments, NEW o \in Offices,
         office' = Seated(u, d, o)
  PROVE  /\ PlacedIn(u)' = PlacedIn(u) \cup {d}
         /\ \A a \in Accounts \ {u} : PlacedIn(a)' = PlacedIn(a)
  <1>1. NoOffice \notin Offices /\ Member # NoOffice
    BY PlacementAssumption
  <1>2. \A a \in Displaced(u, d, o) : a # u /\ office[a][d] # NoOffice
    BY <1>1 DEF Displaced, Others, Holders
  <1>3. ASSUME NEW a \in Accounts, NEW e \in Departments
        PROVE  office'[a][e] # NoOffice <=> (office[a][e] # NoOffice \/ (a = u /\ e = d))
    BY <1>1, <1>2 DEF Seated, TypeOK
  <1>4. QED
    BY <1>3 DEF PlacedIn

LEMMA PlaceAccountPrimary ==
  ASSUME TypeOK, OnePrimary, NEW u \in Accounts, NEW d \in Departments, NEW o \in Offices,
         NEW mp \in BOOLEAN, PlaceAccount(u, d, o, mp)
  PROVE  OnePrimary'
  <1>1. /\ PlacedIn(u)' = PlacedIn(u) \cup {d}
        /\ \A a \in Accounts \ {u} : PlacedIn(a)' = PlacedIn(a)
    BY SeatedPlaces DEF PlaceAccount
  <1>2. /\ primary'[u] = IF mp \/ primary[u] = {} THEN {d} ELSE primary[u]
        /\ \A a \in Accounts \ {u} : primary'[a] = primary[a]
    BY DEF PlaceAccount, TypeOK
  <1>3. QED
    BY <1>1, <1>2 DEF OnePrimary

LEMMA ModifyRolePrimary ==
  ASSUME TypeOK, OnePrimary, NEW actor \in Accounts, NEW u \in Accounts, NEW d \in Departments,
         NEW o \in Offices, NEW mp \in BOOLEAN, ModifyRole(actor, u, d, o, mp)
  PROVE  OnePrimary'
  <1>1. \A a \in Accounts : PlacedIn(a)' = PlacedIn(a)
    BY SeatedPlaces DEF ModifyRole
  <1>2. /\ primary'[u] = IF mp THEN {d} ELSE primary[u]
        /\ \A a \in Accounts \ {u} : primary'[a] = primary[a]
        /\ d \in PlacedIn(u)
    BY DEF ModifyRole, TypeOK
  <1>3. QED
    BY <1>1, <1>2 DEF OnePrimary

LEMMA RevokePrimary ==
  ASSUME TypeOK, OnePrimary, NEW actor \in Accounts, NEW u \in Accounts, NEW d \in Departments,
         Revoke(actor, u, d)
  PROVE  OnePrimary'
  <1>1. /\ PlacedIn(u)' = PlacedIn(u) \ {d}
        /\ \A a \in Accounts \ {u} : PlacedIn(a)' = PlacedIn(a)
    BY DEF Revoke, TypeOK, PlacedIn
  <1>2. d \in PlacedIn(u)
    BY DEF Revoke
  <1>3. ASSUME NEW a \in Accounts \ {u}
        PROVE  primary'[a] = primary[a]
    BY DEF Revoke, TypeOK
  <1>4. CASE d \notin primary[u] /\ UNCHANGED primary
    BY <1>1, <1>2, <1>4 DEF OnePrimary
  <1>5. CASE d \in primary[u] /\ PlacedIn(u) \ {d} = {} /\ primary' = [primary EXCEPT ![u] = @ \ {d}]
    <2>1. primary[u] = {d}
      BY <1>2, <1>5 DEF OnePrimary
    <2>2. primary'[u] = {}
      BY <1>5, <2>1 DEF TypeOK
    <2>3. QED
      BY <1>1, <1>3, <1>5, <2>2 DEF OnePrimary
  <1>6. CASE d \in primary[u] /\ \E heir \in Oldest(u, PlacedIn(u) \ {d}) :
                                    primary' = [primary EXCEPT ![u] = {heir}]
    BY <1>1, <1>2, <1>3, <1>6 DEF OnePrimary, TypeOK, Oldest
  <1>7. QED
    BY <1>4, <1>5, <1>6 DEF Revoke

LEMMA OnePrimaryStep == TypeOK /\ OnePrimary /\ [Next]_vars => OnePrimary'
  <1> SUFFICES ASSUME TypeOK, OnePrimary, [Next]_vars PROVE OnePrimary'
    OBVIOUS
  <1>1. CASE UNCHANGED <<office, primary>>
    BY <1>1 DEF OnePrimary, PlacedIn
  <1>2. CASE UNCHANGED vars
    BY <1>1, <1>2 DEF vars
  <1>3. CASE Next
    <2>1. PICK actor \in Accounts, u \in Accounts, d \in Departments, o \in Offices,
               mp \in BOOLEAN, r \in RequestInputs, s \in Statuses :
           \/ Register(u, r) \/ ConfirmEmail(u)
           \/ Reject(actor, u) \/ ChangeStatus(actor, u, s) \/ UpdateDepartment(actor, d)
           \/ ModifyPrimary(actor, u, d) \/ Release(actor, u, d) \/ Revoke(actor, u, d)
           \/ Appoint(actor, u, d, o) \/ Approve(actor, u, d, o)
           \/ Assign(actor, u, d, o, mp) \/ ModifyRole(actor, u, d, o, mp)
           \/ EditRole(actor, o) \/ Restart
      BY <1>3, NextCases
    <2>2. CASE \/ Register(u, r) \/ ConfirmEmail(u)
               \/ Reject(actor, u) \/ ChangeStatus(actor, u, s) \/ UpdateDepartment(actor, d)
               \/ EditRole(actor, o) \/ Restart
      BY <1>1, <2>2 DEF Register, ConfirmEmail, Reject, ChangeStatus, UpdateDepartment, EditRole, Restart,
         membershipVars
    <2>3. CASE ModifyPrimary(actor, u, d)
      BY <2>3 DEF ModifyPrimary, OnePrimary, TypeOK, PlacedIn
    <2>4. CASE Release(actor, u, d)
      BY <2>4, ModifyRolePrimary, PlacementAssumption DEF Release
    <2>5. CASE Revoke(actor, u, d)
      BY <2>5, RevokePrimary
    <2>6. CASE Appoint(actor, u, d, o)
      BY <2>6, PlaceAccountPrimary DEF Appoint
    <2>7. CASE Approve(actor, u, d, o)
      BY <2>7, PlaceAccountPrimary DEF Approve
    <2>8. CASE Assign(actor, u, d, o, mp)
      BY <2>8, PlaceAccountPrimary DEF Assign
    <2>9. CASE ModifyRole(actor, u, d, o, mp)
      BY <2>9, ModifyRolePrimary
    <2>10. QED
      BY <2>1, <2>2, <2>3, <2>4, <2>5, <2>6, <2>7, <2>8, <2>9
  <1>4. QED
    BY <1>2, <1>3

\* Assigning, moving, transferring and revoking memberships always leaves a
\* placed account with exactly one primary department, one it belongs to.
THEOREM OnePrimaryHolds == Spec => []OnePrimary
  <1>1. Init => OnePrimary
    <2> SUFFICES ASSUME Init PROVE OnePrimary
      OBVIOUS
    <2>1. FounderOffice # NoOffice
      BY PlacementAssumption
    <2>2. ASSUME NEW u \in Accounts
          PROVE  PlacedIn(u) = IF u = Founder THEN {FounderDept} ELSE {}
      BY <2>1, PlacementAssumption DEF Init, PlacedIn
    <2>3. \A u \in Accounts : primary[u] = IF u = Founder THEN {FounderDept} ELSE {}
      BY DEF Init
    <2>4. QED
      BY <2>2, <2>3 DEF OnePrimary
  <1>2. QED
    BY <1>1, OnePrimaryStep, TypeCorrect, PTL DEF Spec
-----------------------------------------------------------------------------
(***************************************************************************)
(* What a step does to the membership table, whichever operation took it:  *)
(* nothing, move a primary flag, remove a row, or seat an account.         *)
(***************************************************************************)
LEMMA MembershipCases ==
  ASSUME TypeOK, Next
  PROVE  \/ UNCHANGED <<office, primary>>
         \/ \E u \in Accounts :
              UNCHANGED office /\ \A a \in Accounts \ {u} : primary'[a] = primary[a]
         \/ \E u \in Accounts, d \in Departments :
              /\ office' = [office EXCEPT ![u][d] = NoOffice]
              /\ \A a \in Accounts \ {u} : primary'[a] = primary[a]
         \/ \E actor \in Accounts, u \in Accounts, d \in Departments, o \in Offices :
              /\ office' = Seated(u, d, o)
              /\ SeatAvailable(u, d, o)
              /\ \/ CanAppointOffice(Context(actor), d, o)
                 \/ o = Member /\ CanAppointOffice(Context(actor), d, office[u][d])
              /\ \A a \in Accounts \ {u} : primary'[a] = primary[a]
  <1>1. PICK actor \in Accounts, u \in Accounts, d \in Departments, o \in Offices,
             mp \in BOOLEAN, r \in RequestInputs, s \in Statuses :
         \/ Register(u, r) \/ ConfirmEmail(u)
         \/ Reject(actor, u) \/ ChangeStatus(actor, u, s) \/ UpdateDepartment(actor, d)
         \/ ModifyPrimary(actor, u, d) \/ Release(actor, u, d) \/ Revoke(actor, u, d)
         \/ Appoint(actor, u, d, o) \/ Approve(actor, u, d, o)
         \/ Assign(actor, u, d, o, mp) \/ ModifyRole(actor, u, d, o, mp)
         \/ EditRole(actor, o) \/ Restart
    BY NextCases
  <1>2. CASE \/ Register(u, r) \/ ConfirmEmail(u)
             \/ Reject(actor, u) \/ ChangeStatus(actor, u, s) \/ UpdateDepartment(actor, d)
             \/ EditRole(actor, o) \/ Restart
    BY <1>2 DEF Register, ConfirmEmail, Reject, ChangeStatus, UpdateDepartment, EditRole, Restart,
       membershipVars
  <1>3. CASE ModifyPrimary(actor, u, d)
    BY <1>3 DEF ModifyPrimary, TypeOK
  <1>4. CASE Revoke(actor, u, d)
    BY <1>4 DEF Revoke, TypeOK
  <1>5. ASSUME NEW x \in Offices, NEW m \in BOOLEAN, ModifyRole(actor, u, d, x, m)
        PROVE  /\ office' = Seated(u, d, x)
               /\ SeatAvailable(u, d, x)
               /\ \/ CanAppointOffice(Context(actor), d, x)
                  \/ x = Member /\ CanAppointOffice(Context(actor), d, office[u][d])
               /\ \A a \in Accounts \ {u} : primary'[a] = primary[a]
    <2>1. \A a \in Accounts \ {u} : primary'[a] = primary[a]
      BY <1>5 DEF ModifyRole, TypeOK
    <2>2. CASE x = Member
      <3>1. SeatAvailable(u, d, x)
        BY <2>2 DEF SeatAvailable, LimitedOffices, UniqueOffices, PresidiumOffices, Member, Deputy,
                    Director, President, SecretaryGeneral, InternalVP, ExternalVP
      <3>2. QED
        BY <1>5, <2>1, <2>2, <3>1 DEF ModifyRole, CanReleaseOffice
    <2>3. CASE x # Member
      BY <1>5, <2>1, <2>3 DEF ModifyRole, MayPlace
    <2>4. QED
      BY <2>2, <2>3
  <1>6. CASE Release(actor, u, d)
    BY <1>5, <1>6, PlacementAssumption DEF Release
  <1>7. CASE ModifyRole(actor, u, d, o, mp)
    BY <1>5, <1>7
  <1>8. ASSUME NEW m \in BOOLEAN, PlaceAccount(u, d, o, m)
        PROVE  /\ office' = Seated(u, d, o)
               /\ SeatAvailable(u, d, o)
               /\ \A a \in Accounts \ {u} : primary'[a] = primary[a]
    BY <1>8 DEF PlaceAccount, TypeOK
  <1>9. CASE Appoint(actor, u, d, o)
    BY <1>8, <1>9 DEF Appoint, MayPlace
  <1>10. CASE Approve(actor, u, d, o)
    BY <1>8, <1>10 DEF Approve, MayPlace
  <1>11. CASE Assign(actor, u, d, o, mp)
    BY <1>8, <1>11 DEF Assign, MayPlace
  <1>12. QED
    BY <1>1, <1>2, <1>3, <1>4, <1>6, <1>7, <1>9, <1>10, <1>11

-----------------------------------------------------------------------------
(***************************************************************************)
(* Seat limits.                                                            *)
(***************************************************************************)
LEMMA HoldersFinite ==
  ASSUME NEW d, NEW o
  PROVE  IsFiniteSet(Holders(d, o)) /\ Cardinality(Holders(d, o)) \in Nat
  <1>1. Holders(d, o) \subseteq Accounts
    BY DEF Holders
  <1>2. QED
    BY <1>1, FS_Subset, FS_CardinalityType, PlacementAssumption

\* A limited office gains no holder but the account being seated, who displaces
\* every other holder of a unique one.
LEMMA SeatedHolders ==
  ASSUME TypeOK, NEW u \in Accounts, NEW d \in Departments, NEW o \in Offices,
         office' = Seated(u, d, o), NEW e \in Departments, NEW x \in LimitedOffices
  PROVE  \/ Holders(e, x)' \subseteq Holders(e, x)
         \/ /\ e = d /\ x = o /\ office[u][d] # o
            /\ IF x \in UniqueOffices THEN Holders(e, x)' = {u}
               ELSE Holders(e, x)' = Others(u, d, o) \cup {u}
  <1>1. x # Member
    BY DEF LimitedOffices, UniqueOffices, PresidiumOffices, Member, Deputy,
           Director, President, SecretaryGeneral, InternalVP, ExternalVP
  <1>2. \A a \in Accounts, f \in Departments :
          office'[a][f] = IF f # d THEN office[a][f]
                          ELSE IF a = u THEN o
                          ELSE IF a \in Displaced(u, d, o) THEN Member ELSE office[a][f]
    BY DEF Seated, TypeOK
  <1>3. CASE e # d \/ x # o
    BY <1>1, <1>2, <1>3 DEF Holders
  <1>4. CASE e = d /\ x = o /\ office[u][d] = o
    BY <1>1, <1>2, <1>4 DEF Holders
  <1>5. CASE e = d /\ x = o /\ office[u][d] # o /\ x \in UniqueOffices
    BY <1>1, <1>2, <1>5 DEF Holders, Displaced, Others
  <1>6. CASE e = d /\ x = o /\ office[u][d] # o /\ x \notin UniqueOffices
    <2>1. Displaced(u, d, o) = {}
      BY <1>6 DEF Displaced
    <2>2. QED
      BY <1>1, <1>2, <1>6, <2>1 DEF Holders, Others
  <1>7. QED
    BY <1>3, <1>4, <1>5, <1>6

LEMMA SeatsStep == TypeOK /\ SeatsRespected /\ [Next]_vars => SeatsRespected'
  <1> SUFFICES ASSUME TypeOK, SeatsRespected, [Next]_vars,
                      NEW e \in Departments, NEW x \in LimitedOffices
               PROVE  Cardinality(Holders(e, x)') <= SeatLimit(x)
    BY DEF SeatsRespected
  <1>1. SeatLimit(x) \in Nat /\ SeatLimit(x) >= 1
    BY DEF SeatLimit
  <1>2. CASE Holders(e, x)' \subseteq Holders(e, x)
    <2>1. /\ Cardinality(Holders(e, x)') <= Cardinality(Holders(e, x))
          /\ Cardinality(Holders(e, x)') \in Nat
      BY <1>2, HoldersFinite, FS_Subset, FS_CardinalityType
    <2>2. Cardinality(Holders(e, x)) <= SeatLimit(x)
      BY DEF SeatsRespected
    <2>3. QED
      BY <1>1, <2>1, <2>2, HoldersFinite
  <1>3. CASE UNCHANGED office
    BY <1>2, <1>3 DEF Holders
  <1>4. ASSUME NEW u \in Accounts, NEW d \in Departments, NEW o \in Offices,
               office' = Seated(u, d, o), SeatAvailable(u, d, o)
        PROVE  Cardinality(Holders(e, x)') <= SeatLimit(x)
    <2>1. CASE x \in UniqueOffices /\ Holders(e, x)' = {u}
      BY <1>1, <2>1, FS_Singleton
    <2>2. CASE /\ e = d /\ x = o /\ office[u][d] # o /\ x \notin UniqueOffices
               /\ Holders(e, x)' = Others(u, d, o) \cup {u}
      <3>1. Cardinality(Others(u, d, o)) < SeatLimit(x)
        BY <1>4, <2>2 DEF SeatAvailable
      <3>2. IsFiniteSet(Others(u, d, o)) /\ u \notin Others(u, d, o)
        BY HoldersFinite, FS_Subset DEF Others
      <3>3. /\ Cardinality(Holders(e, x)') = Cardinality(Others(u, d, o)) + 1
            /\ Cardinality(Others(u, d, o)) \in Nat
        BY <2>2, <3>2, FS_AddElement, FS_CardinalityType
      <3>4. QED
        BY <1>1, <3>1, <3>3
    <2>3. QED
      BY <1>2, <1>4, <2>1, <2>2, SeatedHolders
  <1>5. CASE \E u \in Accounts, d \in Departments : office' = [office EXCEPT ![u][d] = NoOffice]
    <2>1. x # NoOffice
      BY PlacementAssumption DEF LimitedOffices, UniqueOffices, OfficeKeys
    <2>2. Holders(e, x)' \subseteq Holders(e, x)
      BY <1>5, <2>1 DEF Holders, TypeOK
    <2>3. QED
      BY <1>2, <2>2
  <1>6. CASE Next
    BY <1>3, <1>4, <1>5, <1>6, MembershipCases
  <1>7. QED
    BY <1>3, <1>6 DEF vars

\* No department ever has two holders of a unique office, or a third deputy.
THEOREM SeatsAreRespected == Spec => []SeatsRespected
  <1>1. Init => SeatsRespected
    <2> SUFFICES ASSUME Init, NEW d \in Departments, NEW o \in LimitedOffices
                 PROVE  Cardinality(Holders(d, o)) <= SeatLimit(o)
      BY DEF SeatsRespected
    <2>1. o # NoOffice
      BY PlacementAssumption DEF LimitedOffices, UniqueOffices, OfficeKeys
    <2>2. Holders(d, o) \subseteq {Founder}
      BY <2>1 DEF Init, Holders
    <2>3. Cardinality({Founder}) = 1 /\ IsFiniteSet({Founder})
      BY FS_Singleton
    <2>4. Cardinality(Holders(d, o)) <= 1
      BY <2>2, <2>3, FS_Subset
    <2>5. QED
      BY <2>4, HoldersFinite DEF SeatLimit
  <1>2. QED
    BY <1>1, SeatsStep, TypeCorrect, PTL DEF Spec
-----------------------------------------------------------------------------
(***************************************************************************)
(* The role rows.  A permission appears in a row because somebody who      *)
(* holds it wrote it there, or because a start did.                        *)
(***************************************************************************)
LEMMA HeldRows ==
  ASSUME TypeOK, NEW a \in Accounts, NEW m \in Context(a).held
  PROVE  \E e \in PlacedIn(a) \cap open :
           /\ m.dept = e /\ m.office = office[a][e]
           /\ m.permissions = roles[office[a][e]].permissions
           /\ m.organization = roles[office[a][e]].organization
           /\ office[a][e] \in Offices
  BY DEF Context, PlacedIn, TypeOK

LEMMA PermissionOrigin ==
  ASSUME TypeOK, Next, NEW p, NEW x \in Offices, p \in roles'[x].permissions
  PROVE  \/ p \in roles[x].permissions
         \/ p \in Grants(x)
         \/ \E a \in Accounts : \E m \in Context(a).held : p \in m.permissions
  <1>1. PICK actor \in Accounts, u \in Accounts, d \in Departments, o \in Offices,
             mp \in BOOLEAN, r \in RequestInputs, s \in Statuses :
         \/ Register(u, r) \/ ConfirmEmail(u)
         \/ Reject(actor, u) \/ ChangeStatus(actor, u, s) \/ UpdateDepartment(actor, d)
         \/ ModifyPrimary(actor, u, d) \/ Release(actor, u, d) \/ Revoke(actor, u, d)
         \/ Appoint(actor, u, d, o) \/ Approve(actor, u, d, o)
         \/ Assign(actor, u, d, o, mp) \/ ModifyRole(actor, u, d, o, mp)
         \/ EditRole(actor, o) \/ Restart
    BY NextCases
  <1>2. CASE UNCHANGED roles
    BY <1>2
  <1>3. CASE EditRole(actor, o)
    <2>1. PICK wanted \in RoleInputs[o] :
            /\ \/ wanted.permissions = roles[o].permissions
               \/ wanted.permissions \subseteq GrantedPermissions(Context(actor))
            /\ roles' = [roles EXCEPT ![o] = wanted]
      BY <1>3 DEF EditRole
    <2>2. CASE x # o
      BY <2>1, <2>2 DEF TypeOK
    <2>3. CASE x = o
      <3>1. roles'[x].permissions = wanted.permissions
        BY <2>1, <2>3 DEF TypeOK
      <3>2. QED
        BY <2>1, <2>3, <3>1 DEF GrantedPermissions
    <2>4. QED
      BY <2>2, <2>3
  <1>4. CASE Restart
    BY <1>4 DEF Restart, Templates, Template
  <1>5. CASE \/ Register(u, r) \/ ConfirmEmail(u)
             \/ Reject(actor, u) \/ ChangeStatus(actor, u, s) \/ UpdateDepartment(actor, d)
    BY <1>2, <1>5 DEF Register, ConfirmEmail, Reject, ChangeStatus, UpdateDepartment
  <1>6. CASE ModifyPrimary(actor, u, d) \/ Release(actor, u, d) \/ Revoke(actor, u, d)
    BY <1>2, <1>6 DEF ModifyPrimary, Release, ModifyRole, Revoke
  <1>7. CASE \/ Appoint(actor, u, d, o) \/ Approve(actor, u, d, o)
             \/ Assign(actor, u, d, o, mp) \/ ModifyRole(actor, u, d, o, mp)
    BY <1>2, <1>7 DEF Appoint, Approve, Assign, ModifyRole
  <1>8. QED
    BY <1>1, <1>3, <1>4, <1>5, <1>6, <1>7

\* No row but the administrator's has the right to the platform's settings.
SettingsKept == \A x \in Offices \ {Administrator} : "manage_settings" \notin roles[x].permissions
NobodyAdministers == \A a \in Accounts, d \in Departments : office[a][d] # Administrator

LEMMA SettingsUnheld ==
  ASSUME TypeOK, SettingsKept, NobodyAdministers, NEW a \in Accounts, NEW m \in Context(a).held
  PROVE  "manage_settings" \notin m.permissions
  <1>1. PICK e \in PlacedIn(a) \cap open :
          /\ m.permissions = roles[office[a][e]].permissions
          /\ office[a][e] \in Offices
    BY HeldRows
  <1>2. office[a][e] # Administrator
    BY DEF NobodyAdministers, PlacedIn
  <1>3. QED
    BY <1>1, <1>2 DEF SettingsKept

LEMMA SettingsStep ==
  ASSUME TypeOK, SettingsKept, NobodyAdministers, [Next]_vars
  PROVE  SettingsKept'
  <1> SUFFICES ASSUME NEW x \in Offices \ {Administrator}, "manage_settings" \in roles'[x].permissions
               PROVE  FALSE
    BY DEF SettingsKept
  <1>1. CASE UNCHANGED vars
    BY <1>1 DEF vars, SettingsKept
  <1>2. CASE Next
    <2>1. "manage_settings" \notin Grants(x)
      BY DEF Grants, Permissions
    <2>2. QED
      BY <1>2, <2>1, PermissionOrigin, SettingsUnheld DEF SettingsKept
  <1>3. QED
    BY <1>1, <1>2
-----------------------------------------------------------------------------
(***************************************************************************)
(* Offices stay where they belong, and the right to the settings in the    *)
(* administrator's row: while nobody is an administrator nobody can write  *)
(* it elsewhere and so nobody can place one, and while no director sits in *)
(* the presidium nobody can be their deputy.                               *)
(***************************************************************************)
OfficersOnly ==
  /\ OfficesStayInTheirDepartments
  /\ FounderOffice \in OfficesIn(FounderDept) => SettingsKept

LEMMA NoAdministrator ==
  ASSUME TypeOK, OfficersOnly, FounderOffice \in OfficesIn(FounderDept)
  PROVE  /\ NobodyAdministers /\ SettingsKept
         /\ \A actor \in Accounts : ~IsPlatformAdministrator(Context(actor))
  <1>1. \A d \in Departments : Administrator \notin OfficesIn(d) /\ NoOffice # Administrator
    BY PlacementAssumption DEF OfficesIn, OfficeKeys, PresidiumOffices, Member, Deputy, Director,
       President, SecretaryGeneral, InternalVP, ExternalVP, Administrator
  <1>2. NobodyAdministers /\ SettingsKept
    BY <1>1 DEF OfficersOnly, OfficesStayInTheirDepartments, NobodyAdministers
  <1>3. QED
    BY <1>2, SettingsUnheld DEF IsPlatformAdministrator, OrganizationPermissions

\* Whoever is not an administrator appoints only to the offices of the department.
LEMMA AppointableStays ==
  ASSUME TypeOK, OfficersOnly, FounderOffice \in OfficesIn(FounderDept),
         NEW actor \in Accounts, NEW d \in Departments, NEW o,
         CanAppointOffice(Context(actor), d, o)
  PROVE  o \in OfficesIn(d) /\ Member \in OfficesIn(d)
  <1>1. d \notin {PlatformAdminDept, AlumniDept}
    BY NoAdministrator DEF CanAppointOffice
  <1>2. CASE d = Presidium
    <2>1. Director \notin OfficesIn(d) /\ Director # NoOffice
      BY <1>2, PlacementAssumption DEF OfficesIn, OfficeKeys, PresidiumOffices, Member, Director,
         President, SecretaryGeneral, InternalVP, ExternalVP
    <2>2. ~Holds(Context(actor), d, Director)
      <3>1. \A m \in Context(actor).held : ~(m.dept = d /\ m.office = Director)
        BY <2>1, HeldRows DEF OfficersOnly, OfficesStayInTheirDepartments, PlacedIn
      <3>2. QED
        BY <3>1 DEF Holds
    <2>3. QED
      BY <1>2, <2>2, NoAdministrator DEF CanAppointOffice, OfficesIn
  <1>3. CASE d # Presidium
    BY <1>1, <1>3, NoAdministrator DEF CanAppointOffice, OfficesIn
  <1>4. QED
    BY <1>2, <1>3

LEMMA OfficesStep ==
  TypeOK /\ OfficersOnly /\ [Next]_vars => OfficersOnly'
  <1> SUFFICES ASSUME TypeOK, OfficersOnly, [Next]_vars,
                      FounderOffice \in OfficesIn(FounderDept)
               PROVE  OfficesStayInTheirDepartments' /\ SettingsKept'
    BY DEF OfficersOnly, OfficesStayInTheirDepartments
  <1>0. SettingsKept'
    BY NoAdministrator, SettingsStep
  <1> SUFFICES ASSUME NEW a \in Accounts, NEW e \in Departments
               PROVE  office'[a][e] \in OfficesIn(e) \cup {NoOffice}
    BY <1>0 DEF OfficesStayInTheirDepartments
  <1>1. office[a][e] \in OfficesIn(e) \cup {NoOffice}
    BY DEF OfficersOnly, OfficesStayInTheirDepartments
  <1>2. CASE UNCHANGED office
    BY <1>1, <1>2
  <1>3. CASE \E u \in Accounts, d \in Departments : office' = [office EXCEPT ![u][d] = NoOffice]
    BY <1>1, <1>3 DEF TypeOK
  <1>4. ASSUME NEW actor \in Accounts, NEW u \in Accounts, NEW d \in Departments, NEW o \in Offices,
               office' = Seated(u, d, o),
               \/ CanAppointOffice(Context(actor), d, o)
               \/ o = Member /\ CanAppointOffice(Context(actor), d, office[u][d])
        PROVE  office'[a][e] \in OfficesIn(e) \cup {NoOffice}
    <2>1. o \in OfficesIn(d) /\ Member \in OfficesIn(d)
      BY <1>4, AppointableStays
    <2>2. office'[a][e] = office[a][e] \/ (e = d /\ office'[a][e] \in {o, Member})
      BY <1>4 DEF Seated, TypeOK
    <2>3. QED
      BY <1>1, <2>1, <2>2
  <1>5. CASE Next
    BY <1>2, <1>3, <1>4, <1>5, MembershipCases
  <1>6. QED
    BY <1>2, <1>5 DEF vars

LEMMA OfficersOnlyHolds == Spec => []OfficersOnly
  <1>1. Init => OfficersOnly
    <2> SUFFICES ASSUME Init PROVE OfficersOnly
      OBVIOUS
    <2>1. OfficesStayInTheirDepartments
      BY PlacementAssumption DEF Init, OfficesStayInTheirDepartments
    <2>2. SettingsKept
      BY DEF Init, SettingsKept, Templates, Template, Grants, Permissions
    <2>3. QED
      BY <2>1, <2>2 DEF OfficersOnly
  <1>2. QED
    BY <1>1, OfficesStep, TypeCorrect, PTL DEF Spec

\* No sequence of officers' decisions creates an administrator, a second kind of
\* president, or a member of a department officers may not fill.
THEOREM OfficesStay == Spec => []OfficesStayInTheirDepartments
  <1>1. OfficersOnly => OfficesStayInTheirDepartments
    BY DEF OfficersOnly
  <1>2. QED
    BY <1>1, OfficersOnlyHolds, PTL
-----------------------------------------------------------------------------
(***************************************************************************)
(* Transfers.                                                              *)
(***************************************************************************)
LEMMA TransferStep ==
  ASSUME TypeOK, [Next]_vars, NEW u \in Accounts, NEW d \in Departments, NEW v \in Accounts,
         office[u][d] \in UniqueOffices, office'[u][d] # office[u][d],
         office[v][d] # office[u][d], office'[v][d] = office[u][d]
  PROVE  office'[u][d] = Member /\ primary'[u] = primary[u]
  <1>1. office[u][d] # Member /\ office[u][d] # NoOffice
    BY PlacementAssumption DEF UniqueOffices, OfficeKeys, PresidiumOffices, Member, Director,
       President, SecretaryGeneral, InternalVP, ExternalVP
  <1>2. CASE \E w \in Accounts, e \in Departments : office' = [office EXCEPT ![w][e] = NoOffice]
    BY <1>1, <1>2 DEF TypeOK
  <1>3. ASSUME NEW w \in Accounts, NEW e \in Departments, NEW o \in Offices,
               office' = Seated(w, e, o), \A a \in Accounts \ {w} : primary'[a] = primary[a]
        PROVE  office'[u][d] = Member /\ primary'[u] = primary[u]
    <2>1. \A a \in Accounts, f \in Departments :
            office'[a][f] = IF f # e THEN office[a][f]
                            ELSE IF a = w THEN o
                            ELSE IF a \in Displaced(w, e, o) THEN Member ELSE office[a][f]
      BY <1>3 DEF Seated, TypeOK
    <2>2. e = d /\ v = w /\ u # w
      BY <1>1, <2>1
    <2>3. QED
      BY <1>3, <2>1, <2>2
  <1>4. QED
    BY <1>2, <1>3, MembershipCases DEF vars

\* The predecessor of a transferred seat stays on as a member, and keeps the
\* department the console opens for them.
THEOREM TransferKeeps == Spec => TransferKeepsPredecessor
  <1>1. TypeOK /\ [Next]_vars =>
          [\A u \in Accounts, d \in Departments :
             ( /\ office[u][d] \in UniqueOffices /\ office'[u][d] # office[u][d]
               /\ \E v \in Accounts : office[v][d] # office[u][d] /\ office'[v][d] = office[u][d] )
               => office'[u][d] = Member /\ primary'[u] = primary[u]]_vars
    BY TransferStep
  <1>2. QED
    BY <1>1, TypeCorrect, PTL DEF Spec, TransferKeepsPredecessor
-----------------------------------------------------------------------------
(***************************************************************************)
(* What the console shows.  Every office that can appoint also holds the   *)
(* permission to assign, where it appoints or everywhere.                  *)
(***************************************************************************)
LEMMA AppointersAssign ==
  ASSUME NEW ctx, NEW d, NEW o, ctx.active, AsShipped(ctx), CanAppointOffice(ctx, d, o)
  PROVE  MayAssign(ctx, d)
  <1>0. ASSUME NEW m \in ctx.held
        PROVE  m.permissions = Grants(m.office) /\ m.organization = (m.office \in OrganizationScope)
    <2>1. Template(m.office) = [permissions |-> m.permissions, organization |-> m.organization]
      BY DEF AsShipped
    <2>2. /\ Template(m.office).permissions = Grants(m.office)
          /\ Template(m.office).organization = (m.office \in OrganizationScope)
      BY DEF Template
    <2>3. /\ [permissions |-> m.permissions, organization |-> m.organization].permissions = m.permissions
          /\ [permissions |-> m.permissions, organization |-> m.organization].organization = m.organization
      OBVIOUS
    <2>4. QED
      BY <2>1, <2>2, <2>3
  <1>1. ASSUME NEW m \in ctx.held, m.office \in {President, Administrator}
        PROVE  MayAssign(ctx, d)
    <2>1. "assign_departments" \in Grants(Administrator) /\ "assign_departments" \in Grants(President)
      BY DEF Grants, Permissions, President, Administrator, InternalVP, Director, Deputy
    <2>2. "assign_departments" \in m.permissions /\ m.office \in OrganizationScope
      BY <1>0, <1>1, <2>1 DEF OrganizationScope, PresidiumOffices
    <2>3. m.organization
      BY <1>0, <2>2
    <2>4. QED
      BY <2>2, <2>3 DEF MayAssign, Has, OrganizationPermissions
  <1>2. ASSUME NEW x \in {Director, Deputy}, Holds(ctx, d, x)
        PROVE  MayAssign(ctx, d)
    <2>1. "assign_departments" \in Grants(x)
      BY DEF Grants, Director, Deputy, President, Administrator, InternalVP
    <2>2. PICK m \in ctx.held : m.dept = d /\ m.office = x
      BY <1>2 DEF Holds
    <2>3. "assign_departments" \in m.permissions
      BY <1>0, <2>1, <2>2
    <2>4. QED
      BY <2>2, <2>3 DEF MayAssign, Has
  <1>3. CASE IsPlatformAdministrator(ctx)
    <2>1. PICK m \in ctx.held : "manage_settings" \in m.permissions
      BY <1>3 DEF IsPlatformAdministrator, OrganizationPermissions
    <2>2. "manage_settings" \in Grants(m.office)
      BY <1>0, <2>1
    <2>3. m.office = Administrator
      BY <2>2 DEF Grants, Permissions
    <2>4. QED
      BY <1>1, <2>3
  <1>4. CASE IsPresident(ctx)
    BY <1>1, <1>4 DEF IsPresident
  <1>5. CASE Holds(ctx, d, Director) \/ Holds(ctx, d, Deputy)
    BY <1>2, <1>5
  <1>6. QED
    BY <1>3, <1>4, <1>5 DEF CanAppointOffice, CanReviewDepartment

\* The office board offers nobody whose own role rows are as shipped what its operations would refuse
\* for want of a permission, whoever holds what and however the other rows are edited.
THEOREM BoardHonest == Spec => []BoardIsHonest
  <1>1. ASSUME NEW actor \in Accounts, AsShipped(Context(actor)), NEW seat \in Board(actor)
        PROVE  MayPlace(Context(actor), seat.dept, seat.office) /\ MayAssign(Context(actor), seat.dept)
    <2>1. Context(actor).active /\ CanAppointOffice(Context(actor), seat.dept, seat.office)
      BY <1>1 DEF Board, HasAnywhere
    <2>2. MayAssign(Context(actor), seat.dept)
      BY <1>1, <2>1, AppointersAssign
    <2>3. QED
      BY <2>1, <2>2 DEF MayPlace
  <1>2. BoardIsHonest
    BY <1>1 DEF BoardIsHonest
  <1>3. QED
    BY <1>2, PTL DEF Spec

\* Whatever an officer's queue shows names a department that the officer may review: a president
\* sits in the presidium, and a director or deputy in the department they review.
LEMMA QueueReviewed ==
  ASSUME TypeOK, OfficersOnly, FounderOffice \in OfficesIn(FounderDept),
         NEW actor \in Accounts, NEW u \in Queue(actor)
  PROVE  /\ requested[u] \in Departments \ {PlatformAdminDept, AlumniDept}
         /\ CanReviewDepartment(Context(actor), requested[u])
  <1>1. ~IsPlatformAdministrator(Context(actor))
    BY NoAdministrator
  <1>2. CASE IsPresident(Context(actor)) /\ requested[u] = Presidium
    <2>1. PICK d \in Departments : office[actor][d] = President
      BY <1>2, HeldRows DEF IsPresident, PlacedIn
    <2>2. President # NoOffice
      BY PlacementAssumption DEF OfficeKeys, PresidiumOffices
    <2>3. President \in OfficesIn(d)
      BY <2>1, <2>2 DEF OfficersOnly, OfficesStayInTheirDepartments
    <2>4. d = Presidium
      BY <2>3 DEF OfficesIn, President, Director, Deputy, Member
    <2>5. QED
      BY <1>2, <2>4 DEF CanReviewDepartment, Presidium, PlatformAdminDept, AlumniDept
  <1>3. ASSUME NEW m \in Context(actor).held, m.office \in {Director, Deputy}, m.dept = requested[u]
        PROVE  /\ requested[u] \in Departments \ {PlatformAdminDept, AlumniDept}
               /\ CanReviewDepartment(Context(actor), requested[u])
    <2>1. PICK d \in PlacedIn(actor) : m.dept = d /\ m.office = office[actor][d]
      BY HeldRows
    <2>2. /\ office[actor][d] \in OfficesIn(d) /\ d = requested[u] /\ m.office = office[actor][d]
          /\ d \in Departments
      BY <1>3, <2>1 DEF OfficersOnly, OfficesStayInTheirDepartments, PlacedIn
    <2>3. d \notin {PlatformAdminDept, AlumniDept}
      BY <2>2 DEF OfficesIn, Presidium, PlatformAdminDept, AlumniDept
    <2>4. Holds(Context(actor), requested[u], Director) \/ Holds(Context(actor), requested[u], Deputy)
      BY <1>3, <2>1, <2>2 DEF Holds
    <2>5. QED
      BY <2>2, <2>3, <2>4 DEF CanReviewDepartment
  <1>4. QED
    BY <1>1, <1>2, <1>3 DEF Queue, MayReviewRequest

\* While officers run the platform, every application a queue shows names a department its reader
\* may review and fill, and may be approved by a reader whose own role rows are as shipped.
THEOREM QueueDecidable == Spec => []QueueIsDecidable
  <1>1. TypeOK /\ OfficersOnly => QueueIsDecidable
    <2> SUFFICES ASSUME TypeOK, OfficersOnly, FounderOffice \in OfficesIn(FounderDept),
                        NEW actor \in Accounts, NEW u \in Queue(actor)
                 PROVE  /\ requested[u] \in Departments
                        /\ CanReviewDepartment(Context(actor), requested[u])
                        /\ CanAppointOffice(Context(actor), requested[u], Member)
                        /\ AsShipped(Context(actor)) => MayPlace(Context(actor), requested[u], Member)
      BY DEF QueueIsDecidable
    <2>1. /\ requested[u] \in Departments \ {PlatformAdminDept, AlumniDept}
          /\ CanReviewDepartment(Context(actor), requested[u])
      BY QueueReviewed
    <2>2. CanAppointOffice(Context(actor), requested[u], Member)
      BY <2>1 DEF CanAppointOffice
    <2>3. Context(actor).active
      BY DEF Queue, HasAnywhere
    <2>4. AsShipped(Context(actor)) => MayPlace(Context(actor), requested[u], Member)
      BY <2>2, <2>3, AppointersAssign DEF MayPlace
    <2>5. QED
      BY <2>1, <2>2, <2>4
  <1>2. QED
    BY <1>1, OfficersOnlyHolds, TypeCorrect, PTL
-----------------------------------------------------------------------------
(***************************************************************************)
(* Who was needed for a change.  Seven operations write the membership     *)
(* table; behind each change is somebody active whose own offices let them *)
(* appoint in that department.                                             *)
(***************************************************************************)
LEMMA Authority ==
  ASSUME TypeOK, Next, office' # office
  PROVE  \E actor \in Accounts, d \in Departments, o \in Offices :
           /\ Context(actor).active
           /\ CanAppointOffice(Context(actor), d, o)
           /\ \A u \in Accounts, e \in Departments :
                office'[u][e] # office[u][e] => e = d /\ office'[u][e] \in {o, Member, NoOffice}
  <1> DEFINE Answers(actor, d, o) ==
               /\ Context(actor).active
               /\ CanAppointOffice(Context(actor), d, o)
               /\ \A u \in Accounts, e \in Departments :
                    office'[u][e] # office[u][e] => e = d /\ office'[u][e] \in {o, Member, NoOffice}
  <1>0. Member \in Offices
    BY PlacementAssumption
  <1>1. PICK actor \in Accounts, u \in Accounts, d \in Departments, o \in Offices,
             mp \in BOOLEAN, r \in RequestInputs, s \in Statuses :
         \/ Register(u, r) \/ ConfirmEmail(u)
         \/ Reject(actor, u) \/ ChangeStatus(actor, u, s) \/ UpdateDepartment(actor, d)
         \/ ModifyPrimary(actor, u, d) \/ Release(actor, u, d) \/ Revoke(actor, u, d)
         \/ Appoint(actor, u, d, o) \/ Approve(actor, u, d, o)
         \/ Assign(actor, u, d, o, mp) \/ ModifyRole(actor, u, d, o, mp)
         \/ EditRole(actor, o) \/ Restart
    BY NextCases
  <1>2. ASSUME NEW x \in Offices, office' = Seated(u, d, x)
        PROVE  \A a \in Accounts, e \in Departments :
                 office'[a][e] # office[a][e] => e = d /\ office'[a][e] \in {x, Member}
    BY <1>2 DEF Seated, TypeOK
  <1>3. ASSUME NEW x \in Offices, MayPlace(Context(actor), d, x), office' = Seated(u, d, x)
        PROVE  Answers(actor, d, x)
    <2>1. Context(actor).active /\ CanAppointOffice(Context(actor), d, x)
      BY <1>3 DEF MayPlace, MayAssign, Has
    <2>2. QED
      BY <1>2, <1>3, <2>1
  <1>4. CASE \/ Register(u, r) \/ ConfirmEmail(u)
             \/ Reject(actor, u) \/ ChangeStatus(actor, u, s) \/ UpdateDepartment(actor, d)
             \/ ModifyPrimary(actor, u, d) \/ EditRole(actor, o) \/ Restart
    BY <1>4 DEF Register, ConfirmEmail, Reject, ChangeStatus, UpdateDepartment, ModifyPrimary,
       EditRole, Restart, membershipVars
  <1>5. CASE Appoint(actor, u, d, o) \/ Approve(actor, u, d, o) \/ Assign(actor, u, d, o, mp)
    BY <1>3, <1>5 DEF Appoint, Approve, Assign, PlaceAccount
  <1>6. ASSUME NEW x \in Offices, NEW m \in BOOLEAN, ModifyRole(actor, u, d, x, m)
        PROVE  \E y \in Offices : Answers(actor, d, y)
    <2>1. CASE x # Member
      BY <1>3, <1>6, <2>1 DEF ModifyRole
    <2>2. CASE x = Member
      <3>1. office[u][d] \in Offices
        BY <1>6 DEF ModifyRole, PlacedIn, TypeOK
      <3>2. Context(actor).active /\ CanAppointOffice(Context(actor), d, office[u][d])
        BY <1>6, <2>2 DEF ModifyRole, CanReleaseOffice, MayAssign, Has
      <3>3. office' = Seated(u, d, Member)
        BY <1>6, <2>2 DEF ModifyRole
      <3>4. Answers(actor, d, office[u][d])
        BY <1>0, <1>2, <3>2, <3>3
      <3>5. QED
        BY <3>1, <3>4
    <2>3. QED
      BY <2>1, <2>2
  <1>7. CASE Release(actor, u, d) \/ ModifyRole(actor, u, d, o, mp)
    <2>1. PICK x \in Offices, m \in BOOLEAN : ModifyRole(actor, u, d, x, m)
      BY <1>0, <1>7 DEF Release
    <2>2. PICK y \in Offices : Answers(actor, d, y)
      BY <1>6, <2>1
    <2>3. QED
      BY <2>2
  <1>8. CASE Revoke(actor, u, d)
    <2>1. office[u][d] \in Offices
      BY <1>8 DEF Revoke, PlacedIn, TypeOK
    <2>2. /\ Context(actor).active
          /\ CanAppointOffice(Context(actor), d, office[u][d]) \/ CanAppointOffice(Context(actor), d, Member)
      BY <1>8 DEF Revoke, CanReleaseOffice, MayAssign, Has
    <2>3. \A a \in Accounts, e \in Departments :
            office'[a][e] # office[a][e] => e = d /\ office'[a][e] = NoOffice
      BY <1>8 DEF Revoke, TypeOK
    <2>4. Answers(actor, d, office[u][d]) \/ Answers(actor, d, Member)
      BY <2>2, <2>3
    <2>5. QED
      BY <1>0, <2>1, <2>4
  <1>9. QED
    BY <1>1, <1>4, <1>5, <1>7, <1>8

\* The chain of command: an officer of the presidium, a director or an administrator is made by a
\* president or a platform administrator - whose row has the right to the settings everywhere -, a
\* deputy by the director of that department or a platform administrator, and every other change of
\* a department's rows needs one of these or the department's deputy.
Commands(a, d, o) ==
  /\ status[a] = "active"
  /\ \/ IsPlatformAdministrator(Context(a))
     \/ o \in PresidiumOffices \cup {Director} /\ \E e \in open : office[a][e] = President
     \/ o = Deputy /\ d \in open /\ office[a][d] = Director
     \/ /\ o \in {Member, NoOffice}
        /\ \/ \E e \in open : office[a][e] = President
           \/ d \in open /\ office[a][d] \in {Director, Deputy}

\* What the rules conclude from a context, read off the table.
LEMMA ContextFacts ==
  ASSUME TypeOK, NEW a \in Accounts
  PROVE  /\ Context(a).active <=> status[a] = "active"
         /\ IsPresident(Context(a)) => \E e \in open : office[a][e] = President
         /\ \A d \in Departments, o \in OfficeKeys :
              Holds(Context(a), d, o) => d \in open /\ office[a][d] = o
  <1>1. Context(a).active <=> status[a] = "active"
    BY DEF Context
  <1>2. IsPresident(Context(a)) => \E e \in open : office[a][e] = President
    BY HeldRows DEF IsPresident
  <1>3. \A d \in Departments, o \in OfficeKeys :
          Holds(Context(a), d, o) => d \in open /\ office[a][d] = o
    BY HeldRows DEF Holds
  <1>4. QED
    BY <1>1, <1>2, <1>3

LEMMA ChainStep ==
  ASSUME TypeOK, Next, NEW u \in Accounts, NEW d \in Departments, office'[u][d] # office[u][d]
  PROVE  \E a \in Accounts : Commands(a, d, office'[u][d])
  <1>1. PICK a \in Accounts, o \in Offices :
          /\ Context(a).active
          /\ CanAppointOffice(Context(a), d, o)
          /\ office'[u][d] \in {o, Member, NoOffice}
    BY Authority
  <1>2. status[a] = "active"
    BY <1>1, ContextFacts
  <1>3. CASE IsPlatformAdministrator(Context(a))
    BY <1>2, <1>3, ContextFacts DEF Commands
  <1>4. CASE ~IsPlatformAdministrator(Context(a))
    <2>1. Director \in OfficeKeys /\ Deputy \in OfficeKeys
      BY DEF OfficeKeys
    <2>2. /\ o \in PresidiumOffices \cup {Director, Deputy, Member}
          /\ o \in PresidiumOffices \cup {Director} => \E e \in open : office[a][e] = President
          /\ o = Deputy => d \in open /\ office[a][d] = Director
          /\ o = Member => \/ \E e \in open : office[a][e] = President
                           \/ d \in open /\ office[a][d] \in {Director, Deputy}
      <3>1. ~(o \in PresidiumOffices \cup {Director} /\ o \in {Deputy, Member}) /\ Deputy # Member
        BY DEF PresidiumOffices, Member, Deputy, Director, President, SecretaryGeneral, InternalVP,
           ExternalVP
      <3>2. \/ o \in PresidiumOffices \cup {Director} /\ IsPresident(Context(a))
            \/ o = Deputy /\ Holds(Context(a), d, Director)
            \/ o = Member /\ CanReviewDepartment(Context(a), d)
        BY <1>1, <1>4 DEF CanAppointOffice
      <3>3. CanReviewDepartment(Context(a), d) =>
              \/ IsPresident(Context(a))
              \/ Holds(Context(a), d, Director) \/ Holds(Context(a), d, Deputy)
        BY <1>4 DEF CanReviewDepartment
      <3>4. QED
        BY <2>1, <3>1, <3>2, <3>3, ContextFacts
    <2>3. CASE office'[u][d] = o
      BY <1>2, <2>2, <2>3 DEF Commands
    <2>4. CASE office'[u][d] \in {Member, NoOffice}
      BY <1>2, <2>2, <2>4 DEF Commands
    <2>5. QED
      BY <1>1, <2>3, <2>4
  <1>5. QED
    BY <1>3, <1>4

\* Every change of anybody's office, by whichever of the seven operations, was commanded by somebody
\* entitled to it at that moment, for any accounts, departments and offices.
THEOREM ChainOfCommand ==
  Spec => [][\A u \in Accounts, d \in Departments :
               office'[u][d] # office[u][d] => \E a \in Accounts : Commands(a, d, office'[u][d])]_vars
  <1>1. TypeOK /\ [Next]_vars =>
          [\A u \in Accounts, d \in Departments :
             office'[u][d] # office[u][d] => \E a \in Accounts : Commands(a, d, office'[u][d])]_vars
    BY ChainStep DEF vars
  <1>2. QED
    BY <1>1, TypeCorrect, PTL DEF Spec

\* A presidency and an administration that are both empty are never filled again, and with them
\* nobody's director's seat or place in the presidium: no edit of the role rows and no restart
\* gives anybody the right to fill them.
THEOREM VacancyIsFinal == Spec => VacancyIsForever
  <1>1. ASSUME TypeOK, Next, NoAppointer
        PROVE  /\ NoAppointer'
               /\ \A u \in Accounts, d \in Departments :
                    office'[u][d] \in PresidiumOffices \cup {Director, Administrator}
                      => office'[u][d] = office[u][d]
    <2>1. ASSUME NEW a \in Accounts, NEW m \in Context(a).held
          PROVE  /\ m.office \notin {President, Administrator}
                 /\ "manage_settings" \notin m.permissions
      <3>1. PICK e \in PlacedIn(a) \cap open :
              /\ m.office = office[a][e] /\ m.permissions = roles[office[a][e]].permissions
              /\ office[a][e] \in Offices
        BY <1>1, HeldRows
      <3>2. e \in Departments
        BY DEF PlacedIn
      <3>3. QED
        BY <1>1, <3>1, <3>2 DEF NoAppointer
    <2>2. \A a \in Accounts : ~IsPlatformAdministrator(Context(a)) /\ ~IsPresident(Context(a))
      BY <2>1 DEF IsPlatformAdministrator, OrganizationPermissions, IsPresident
    <2>3. ASSUME NEW u \in Accounts, NEW d \in Departments,
                 office'[u][d] \in PresidiumOffices \cup {Director, Administrator}
          PROVE  office'[u][d] = office[u][d]
      <3>1. office'[u][d] \notin {Deputy, Member, NoOffice}
        BY <2>3, PlacementAssumption DEF OfficeKeys, PresidiumOffices, Member, Deputy, Director, President,
           SecretaryGeneral, InternalVP, ExternalVP, Administrator
      <3>2. \A a \in Accounts : \A e \in open : office[a][e] # President
        BY <1>1 DEF NoAppointer, TypeOK
      <3>3. \A a \in Accounts : ~Commands(a, d, office'[u][d])
        BY <2>2, <3>1, <3>2 DEF Commands
      <3>4. QED
        BY <1>1, <3>3, ChainStep
    <2>4. \A x \in Offices \ {President, Administrator} : "manage_settings" \notin roles'[x].permissions
      <3>1. \A x \in Offices \ {President, Administrator} : "manage_settings" \notin Grants(x)
        BY DEF Grants, Permissions
      <3>2. QED
        BY <1>1, <2>1, <3>1, PermissionOrigin DEF NoAppointer
    <2>5. \A u \in Accounts, d \in Departments : office'[u][d] \notin {President, Administrator}
      BY <1>1, <2>3 DEF NoAppointer, PresidiumOffices
    <2>6. QED
      BY <2>3, <2>4, <2>5 DEF NoAppointer
  <1>2. TypeOK /\ [Next]_vars =>
          [NoAppointer =>
             /\ NoAppointer'
             /\ \A u \in Accounts, d \in Departments :
                  office'[u][d] \in PresidiumOffices \cup {Director, Administrator}
                    => office'[u][d] = office[u][d]]_vars
    BY <1>1
  <1>3. QED
    BY <1>2, TypeCorrect, PTL DEF Spec, VacancyIsForever

\* The rows of the administrators' and the alumni department are closed to everybody but an
\* administrator: once there is none, and no other row has the right to the settings, nobody
\* enters or leaves either, and that stays so.
THEOREM HiddenDepartmentsStay ==
  Spec => [][NobodyAdministers /\ SettingsKept =>
               /\ (NobodyAdministers /\ SettingsKept)'
               /\ \A u \in Accounts, d \in Departments \cap {PlatformAdminDept, AlumniDept} :
                    office'[u][d] = office[u][d]]_vars
  <1>1. ASSUME TypeOK, Next, NobodyAdministers, SettingsKept
        PROVE  /\ NobodyAdministers' /\ SettingsKept'
               /\ \A u \in Accounts, d \in Departments \cap {PlatformAdminDept, AlumniDept} :
                    office'[u][d] = office[u][d]
    <2>1. \A a \in Accounts : ~IsPlatformAdministrator(Context(a))
      BY <1>1, SettingsUnheld DEF IsPlatformAdministrator, OrganizationPermissions
    <2>2. SettingsKept'
      BY <1>1, SettingsStep
    <2>3. ASSUME NEW u \in Accounts, NEW d \in Departments, office'[u][d] = Administrator
          PROVE  FALSE
      <3>1. office'[u][d] # office[u][d]
        BY <1>1, <2>3 DEF NobodyAdministers
      <3>2. PICK a \in Accounts, f \in Departments, o \in Offices :
              CanAppointOffice(Context(a), f, o) /\ office'[u][d] \in {o, Member, NoOffice}
        BY <1>1, <3>1, Authority
      <3>3. o = Administrator
        BY <2>3, <3>2, PlacementAssumption DEF OfficeKeys, Member, Administrator
      <3>4. QED
        BY <2>1, <3>2, <3>3 DEF CanAppointOffice, PresidiumOffices, Member, Deputy, Director, President,
           SecretaryGeneral, InternalVP, ExternalVP, Administrator
    <2>4. ASSUME NEW u \in Accounts, NEW d \in Departments \cap {PlatformAdminDept, AlumniDept}
          PROVE  office'[u][d] = office[u][d]
      BY <1>1, <2>1, Authority DEF CanAppointOffice
    <2>5. QED
      BY <2>2, <2>3, <2>4 DEF NobodyAdministers
  <1>2. TypeOK /\ [Next]_vars =>
          [NobodyAdministers /\ SettingsKept =>
             /\ (NobodyAdministers /\ SettingsKept)'
             /\ \A u \in Accounts, d \in Departments \cap {PlatformAdminDept, AlumniDept} :
                  office'[u][d] = office[u][d]]_vars
    BY <1>1
  <1>3. QED
    BY <1>2, TypeCorrect, PTL DEF Spec

\* The right to restore departments is in rows of the presidium's offices and the administrator's
\* only, as it is shipped.
RestoringKept ==
  \A x \in Offices \ (PresidiumOffices \cup {Administrator}) :
    "manage_departments" \notin roles[x].permissions

PresidiumGone ==
  /\ FounderOffice \in OfficesIn(FounderDept)
  /\ Presidium \in Departments \ open
  /\ RestoringKept

\* Retiring the presidium cannot be undone once officers run the platform, if no office outside it
\* was given the right to restore departments before: whoever has that right sits in the presidium,
\* and a retired department grants nothing, not even the right to edit a role.  From
\* then on no department is retired or restored, no such right appears, and nobody enters or
\* leaves the presidium.
THEOREM RetirementIsFinal ==
  Spec => [][PresidiumGone =>
               /\ PresidiumGone'
               /\ open' = open
               /\ \A u \in Accounts : office'[u][Presidium] = office[u][Presidium]]_vars
  <1>1. ASSUME TypeOK, OfficersOnly, Next, PresidiumGone
        PROVE  /\ PresidiumGone' /\ open' = open
               /\ \A u \in Accounts : office'[u][Presidium] = office[u][Presidium]
    <2>1. ASSUME NEW a \in Accounts, NEW e \in open
          PROVE  office[a][e] \notin PresidiumOffices \cup {Administrator}
      <3>1. e \in Departments /\ e # Presidium
        BY <1>1 DEF TypeOK, PresidiumGone
      <3>2. office[a][e] \in {Director, Deputy, Member, NoOffice}
        BY <1>1, <3>1 DEF OfficersOnly, OfficesStayInTheirDepartments, OfficesIn, PresidiumGone
      <3>3. QED
        BY <3>2, PlacementAssumption DEF OfficeKeys, PresidiumOffices, Member, Deputy, Director, President,
           SecretaryGeneral, InternalVP, ExternalVP, Administrator
    <2>2. ASSUME NEW a \in Accounts, NEW m \in Context(a).held
          PROVE  "manage_departments" \notin m.permissions
      <3>1. PICK e \in PlacedIn(a) \cap open :
              m.permissions = roles[office[a][e]].permissions /\ office[a][e] \in Offices
        BY <1>1, HeldRows
      <3>2. QED
        BY <1>1, <2>1, <3>1 DEF PresidiumGone, RestoringKept
    <2>3. \A a \in Accounts : ~HasAnywhere(Context(a), "manage_departments")
      BY <2>2 DEF HasAnywhere, GrantedPermissions
    <2>4. open' = open
      <3>1. PICK actor \in Accounts, u \in Accounts, d \in Departments, o \in Offices,
                 mp \in BOOLEAN, r \in RequestInputs, s \in Statuses :
             \/ Register(u, r) \/ ConfirmEmail(u)
             \/ Reject(actor, u) \/ ChangeStatus(actor, u, s) \/ UpdateDepartment(actor, d)
             \/ ModifyPrimary(actor, u, d) \/ Release(actor, u, d) \/ Revoke(actor, u, d)
             \/ Appoint(actor, u, d, o) \/ Approve(actor, u, d, o)
             \/ Assign(actor, u, d, o, mp) \/ ModifyRole(actor, u, d, o, mp)
             \/ EditRole(actor, o) \/ Restart
        BY <1>1, NextCases
      <3>2. ~UpdateDepartment(actor, d)
        BY <2>3 DEF UpdateDepartment
      <3>3. CASE \/ Register(u, r) \/ ConfirmEmail(u) \/ Reject(actor, u) \/ ChangeStatus(actor, u, s)
                 \/ EditRole(actor, o) \/ Restart
        BY <3>3 DEF Register, ConfirmEmail, Reject, ChangeStatus, EditRole, Restart
      <3>4. CASE ModifyPrimary(actor, u, d) \/ Release(actor, u, d) \/ Revoke(actor, u, d)
        BY <3>4 DEF ModifyPrimary, Release, Revoke, ModifyRole
      <3>5. CASE \/ Appoint(actor, u, d, o) \/ Approve(actor, u, d, o)
                 \/ Assign(actor, u, d, o, mp) \/ ModifyRole(actor, u, d, o, mp)
        BY <3>5 DEF Appoint, Approve, Assign, ModifyRole
      <3>6. QED
        BY <3>1, <3>2, <3>3, <3>4, <3>5
    <2>5. RestoringKept'
      <3>1. \A x \in Offices \ (PresidiumOffices \cup {Administrator}) : "manage_departments" \notin Grants(x)
        BY DEF Grants, Permissions, PresidiumOffices
      <3>2. QED
        BY <1>1, <2>2, <3>1, PermissionOrigin DEF PresidiumGone, RestoringKept
    <2>6. ASSUME NEW u \in Accounts PROVE office'[u][Presidium] = office[u][Presidium]
      <3>1. President \in PresidiumOffices
        BY DEF PresidiumOffices
      <3>2. \A a \in Accounts : ~IsPlatformAdministrator(Context(a))
        BY <1>1, NoAdministrator DEF PresidiumGone
      <3>3. \A a \in Accounts : \A o : ~Commands(a, Presidium, o)
        BY <1>1, <2>1, <3>1, <3>2 DEF Commands, PresidiumGone
      <3>4. Presidium \in Departments
        BY <1>1 DEF PresidiumGone
      <3>5. QED
        BY <1>1, <3>3, <3>4, ChainStep
    <2>7. QED
      BY <1>1, <2>4, <2>5, <2>6 DEF PresidiumGone
  <1>2. TypeOK /\ OfficersOnly /\ [Next]_vars =>
          [PresidiumGone =>
             /\ PresidiumGone'
             /\ open' = open
             /\ \A u \in Accounts : office'[u][Presidium] = office[u][Presidium]]_vars
    BY <1>1
  <1>3. QED
    BY <1>2, OfficersOnlyHolds, TypeCorrect, PTL DEF Spec
=============================================================================
